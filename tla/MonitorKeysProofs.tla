---------------------------- MODULE MonitorKeysProofs ----------------------------
(***************************************************************************)
(* Theorems about MonitorKeys for every set of nodes.                      *)
(***************************************************************************)
EXTENDS MonitorKeys, TLAPS

InList == recordSelected \in 0..(Len(records) - 1)

\* The window's selection is what the screen marks, the marked node is the
\* selected record, and what was passed on has caught up once the marker rests.
Selection ==
  /\ selected = marked
  /\ marked # None => InList /\ marked = records[recordSelected + 1]
  /\ steady >= 1 => passedOn = selected

IInv == TypeOK /\ Selection

LEMMA Initially == Init => IInv
<1> SUFFICES ASSUME Init PROVE IInv
  OBVIOUS
<1>1. records = <<>> /\ records \in Seq(Nodes) /\ Len(records) = 0
  BY DEF Init
<1>2. recordSelected \in -1..Len(records) /\ steady \in 0..2 /\ messageAge \in 0..ShowTicks + 1
  BY <1>1, ShowTicksAssumption DEF Init
<1>3. /\ {selected, passedOn, nodeToMonitor, marked, drawn} \subseteq Names
      /\ request \in [node : Names, bit : Bit]
  BY DEF Init, Names, Bit
<1>4. \A i, j \in 1..Len(records) : records[i] = records[j] => i = j
  BY <1>1
<1>5. TypeOK
  BY <1>1, <1>2, <1>3, <1>4 DEF Init, TypeOK
<1>6. Selection
  BY DEF Init, Selection
<1>7. QED
  BY <1>5, <1>6 DEF IInv

-----------------------------------------------------------------------------
(* The parts of a tick.                                                    *)

\* A selection in the list stays in the list.
LEMMA MoveType ==
  ASSUME TypeOK, NEW k \in Keys, MoveSelection(k)
  PROVE  /\ recordSelected' \in -1..Len(records)
         /\ records # <<>> => recordSelected' < Len(records)
         /\ InList => recordSelected' \in 0..(Len(records) - 1)
         /\ k \notin {"up", "down"} => recordSelected' = recordSelected
<1>1. Len(records) \in Nat /\ (records # <<>> => Len(records) > 0) /\ recordSelected \in Int
  BY DEF TypeOK
<1>2. CASE k = "up"
  BY <1>1, <1>2 DEF MoveSelection, Decremented, TypeOK, InList
<1>3. CASE k = "down"
  BY <1>1, <1>3 DEF MoveSelection, Incremented, TypeOK, InList
<1>4. CASE k \notin {"up", "down"}
  BY <1>1, <1>4 DEF MoveSelection, TypeOK, InList
<1>5. QED
  BY <1>2, <1>3, <1>4

\* Records are counted from 0, positions of a sequence from 1.
LEMMA Indexing == \A len \in Nat : \A i \in 0..(len - 1) : i + 1 \in 1..len
OBVIOUS

LEMMA MessageType ==
  ASSUME TypeOK, NEW text \in Texts \cup {"none"}, DrawMessage(text)
  PROVE  message' \in Texts \cup {"none"} /\ messageAge' \in 0..ShowTicks + 1
<1>1. PICK elapsed \in IF updated THEN 1..2 ELSE 0..ShowTicks + 1 :
        LET age == (IF text = "none" THEN messageAge ELSE 0) + elapsed
            shown == IF text = "none" THEN message ELSE text
        IN /\ messageAge' = IF age > ShowTicks THEN ShowTicks + 1 ELSE age
           /\ message' = IF age > ShowTicks THEN "none" ELSE shown
  BY DEF DrawMessage
<1>2. elapsed \in Nat /\ messageAge \in Nat
  BY ShowTicksAssumption DEF TypeOK
<1>3. QED
  BY <1>1, <1>2, ShowTicksAssumption DEF TypeOK

LEMMA TextType ==
  \A k \in Keys, available \in BOOLEAN : KeyText(k, available) \in Texts \cup {"none"}
BY DEF KeyText, Texts

-----------------------------------------------------------------------------
(* The steps.                                                              *)

LEMMA TickKeeps == ASSUME IInv, NEW k \in Keys, Tick(k) PROVE IInv'
<1> USE DEF Tick
<1>1. TypeOK /\ Selection
  BY DEF IInv
<1>2. UNCHANGED <<records, diagnosed>>
  BY DEF nodeVars
<1>3. /\ recordSelected' \in -1..Len(records) /\ (records # <<>> => recordSelected' < Len(records))
      /\ InList => recordSelected' \in 0..(Len(records) - 1)
  BY <1>1, MoveType
<1>4. \/ /\ recordSelected' \in 0..(Len(records) - 1)
         /\ selected' = records[recordSelected' + 1] /\ marked' = selected'
         /\ marked' \in Nodes
      \/ /\ recordSelected' \notin 0..(Len(records) - 1)
         /\ UNCHANGED selected /\ marked' = None
  <2>1. CASE recordSelected' \in 0..(Len(records) - 1)
    <3>1. records \in Seq(Nodes) /\ Len(records) \in Nat
      BY <1>1 DEF TypeOK
    <3>2. recordSelected' + 1 \in 1..Len(records)
      BY <2>1, <3>1, Indexing
    <3>3. records[recordSelected' + 1] \in Nodes
      BY <3>1, <3>2
    <3>4. QED
      BY <2>1, <3>3 DEF DrawNodes
  <2>2. CASE recordSelected' \notin 0..(Len(records) - 1)
    BY <2>2 DEF DrawNodes
  <2>3. QED
    BY <2>1, <2>2
<1>5. selected' = marked'
  BY <1>1, <1>3, <1>4 DEF Selection
<1>6. {selected', passedOn', nodeToMonitor', marked', drawn'} \subseteq Names
  BY <1>1, <1>4, <1>5 DEF TypeOK, Names, PassOn, DrawDiagnostics
<1>7. message' \in Texts \cup {"none"} /\ messageAge' \in 0..ShowTicks + 1
  BY <1>1, MessageType, TextType
<1>8. previousKey' \in SupportedKeys \cup {"none"}
  BY <1>1 DEF RememberKey, IgnoredKey, TypeOK
<1>9. request' \in [node : Names, bit : Bit]
  BY <1>1 DEF SendRequest, TypeOK, Bit
<1>10. steady' \in 0..2 /\ (steady' >= 1 => marked' = marked)
  BY <1>1 DEF TypeOK
<1>11. TypeOK'
  BY <1>1, <1>2, <1>3, <1>6, <1>7, <1>8, <1>9, <1>10 DEF TypeOK
<1>12. steady' >= 1 => passedOn' = selected'
  BY <1>1, <1>5, <1>10 DEF PassOn, Selection
<1>13. marked' # None => InList' /\ marked' = records'[recordSelected' + 1]
  BY <1>2, <1>4 DEF InList
<1>14. QED
  BY <1>5, <1>11, <1>12, <1>13 DEF IInv, Selection

LEMMA NewNodeKeeps == ASSUME IInv, NEW n \in Nodes, NewNode(n) PROVE IInv'
<1>1. TypeOK /\ Selection
  BY DEF IInv
<1>2. /\ records' = Append(records, n)
      /\ UNCHANGED <<running, diagnosed, selectVars, request, screenVars>>
  BY DEF NewNode, Insert
<1>3. /\ records' \in Seq(Nodes) /\ Len(records') = Len(records) + 1
      /\ \A i \in 1..Len(records) : records'[i] = records[i]
      /\ records'[Len(records) + 1] = n /\ Len(records) \in Nat
  BY <1>1, <1>2 DEF TypeOK
<1>4. \A i, j \in 1..Len(records') : records'[i] = records'[j] => i = j
  BY <1>1, <1>3 DEF TypeOK, NewNode
<1>5. recordSelected \in -1..Len(records') /\ recordSelected < Len(records')
  <2>1. records = <<>> => Len(records) = 0
    OBVIOUS
  <2>2. recordSelected \in -1..Len(records)
    BY <1>1 DEF TypeOK
  <2>3. QED
    BY <1>3, <2>1, <2>2
<1>6. TypeOK'
  BY <1>1, <1>2, <1>3, <1>4, <1>5 DEF TypeOK, selectVars, screenVars
<1>7. Selection'
  BY <1>1, <1>2, <1>3 DEF Selection, InList, selectVars, screenVars, TypeOK
<1>8. QED
  BY <1>6, <1>7 DEF IInv

LEMMA Step == IInv /\ [Next]_vars => IInv'
<1> SUFFICES ASSUME IInv, [Next]_vars PROVE IInv'
  OBVIOUS
<1>1. ASSUME NEW n \in Nodes, NewNode(n) PROVE IInv'
  BY <1>1, NewNodeKeeps
<1>2. ASSUME NEW n \in Nodes, NewDiagnostic(n) PROVE IInv'
  BY <1>2 DEF NewDiagnostic, IInv, TypeOK, Selection, InList, selectVars, screenVars
<1>3. ASSUME NEW k \in Keys, Tick(k) PROVE IInv'
  BY <1>3, TickKeeps
<1>4. CASE UNCHANGED vars
  BY <1>4 DEF vars, nodeVars, selectVars, screenVars, IInv, TypeOK, Selection, InList
<1>5. QED
  BY <1>1, <1>2, <1>3, <1>4 DEF Next, Stopped

\* TypeOK is an invariant: the selection never points past the last record.
THEOREM TypeCorrect == Spec => []TypeOK
<1>1. IInv => TypeOK
  BY DEF IInv
<1>2. QED
  BY <1>1, Initially, Step, PTL DEF Spec

\* A change of log level goes to the node that the operator saw marked, for
\* every set of nodes and however their first messages fall between the keys.
THEOREM RequestsSafe == Spec => RequestsGoToMarked
<1>1. IInv /\ [Next]_vars => [request' # request => request'.node = marked]_vars
  <2> SUFFICES ASSUME IInv, Next, request' # request PROVE request'.node = marked
    OBVIOUS
  <2>1. PICK k \in Keys : Tick(k)
    BY DEF Next, NewNode, NewDiagnostic, Stopped, vars
  <2>2. request'.node = selected
    BY <2>1 DEF Tick, SendRequest
  <2>3. QED
    BY <2>2 DEF IInv, Selection
<1>2. QED
  BY <1>1, Initially, Step, PTL DEF Spec, RequestsGoToMarked

\* Messages of new nodes never move the marker from one node to another.
THEOREM MarkerSafe == Spec => MarkerMovesByKey
<1>1. IInv /\ [Next]_vars =>
        [marked # None /\ marked' # marked => Tick("up") \/ Tick("down")]_vars
  <2> SUFFICES ASSUME IInv, Next, marked # None, marked' # marked
               PROVE  Tick("up") \/ Tick("down")
    OBVIOUS
  <2>1. PICK k \in Keys : Tick(k)
    BY DEF Next, NewNode, NewDiagnostic, Stopped, vars, screenVars
  <2>2. ASSUME k \notin {"up", "down"} PROVE FALSE
    <3>1. UNCHANGED <<recordSelected, records>>
      BY <2>1, <2>2 DEF Tick, MoveSelection, nodeVars
    <3>2. recordSelected \in 0..(Len(records) - 1) /\ marked = records[recordSelected + 1]
      BY DEF IInv, Selection, InList
    <3>3. marked' = records[recordSelected + 1]
      BY <2>1, <3>1, <3>2 DEF Tick, DrawNodes
    <3>4. QED
      BY <3>2, <3>3
  <2>3. QED
    BY <2>1, <2>2
<1>2. QED
  BY <1>1, Initially, Step, PTL DEF Spec, MarkerMovesByKey

\* The diagnostic window is never more than two ticks behind the marker.
THEOREM DiagnosticsSafe == Spec => DiagnosticsFollow
<1>1. IInv /\ [Next]_vars =>
        [ (\E k \in Keys : Tick(k)) /\ steady' = 2 /\ marked' \in diagnosed
            => drawn' = marked' ]_vars
  <2> SUFFICES ASSUME IInv, NEW k \in Keys, Tick(k), steady' = 2, marked' \in diagnosed
               PROVE  drawn' = marked'
    OBVIOUS
  <2>1. marked' = marked /\ steady >= 1
    BY DEF Tick, IInv, TypeOK
  <2>2. nodeToMonitor' = marked' /\ UNCHANGED diagnosed
    BY <2>1 DEF Tick, PassOn, IInv, Selection, nodeVars
  <2>3. QED
    BY <2>2 DEF Tick, DrawDiagnostics
<1>2. QED
  BY <1>1, Initially, Step, PTL DEF Spec, DiagnosticsFollow
=================================================================================
