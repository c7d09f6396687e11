--------------------------- MODULE NodeMonitorProofs ---------------------------
(***************************************************************************)
(* Theorems about NodeMonitor for every set of nodes, every threshold,     *)
(* queue depth and number of changes, and about its MonitorScreen for      *)
(* terminals of every size.                                                *)
(***************************************************************************)
EXTENDS NodeMonitor, FiniteSetTheorems, TLAPS

LEMMA LaterType == \A t \in Times, s \in Times : Later(t, s) \in Times
BY TimesAssumption DEF Later, Times, LongAgo

\* Time passes for the silence of a node as for the age of its record.
LEMMA LaterTogether ==
  \A quiet, age, since \in Times :
    quiet <= Later(age, since) => Later(quiet, 1) <= Later(age, Later(since, 1))
BY TimesAssumption DEF Later, Times, LongAgo

LEMMA LaterNone == \A t \in Times : Later(t, 0) = t
BY TimesAssumption DEF Later, Times, LongAgo

LEMMA TimeValues == 0 \in Times /\ LongAgo \in Times
BY TimesAssumption DEF Times, LongAgo

-----------------------------------------------------------------------------
(* Type correctness.                                                       *)

LEMMA TypeInit == Init => TypeOK
<1> SUFFICES ASSUME Init PROVE TypeOK
  OBVIOUS
<1>1. inbox \in [Nodes -> [Kinds -> Seq(Payloads)]]
  BY DEF Init, NoMessages
<1>2. \A n \in Nodes, k \in Kinds : Len(inbox[n][k]) <= Depth
  BY TimesAssumption DEF Init, NoMessages
<1>3. \A n \in Nodes : inbox[n]["ready_to_arm"] \in Seq(Statuses)
  <2>1. \A n \in Nodes : inbox[n]["ready_to_arm"] = <<>>
    BY DEF Init, NoMessages, Kinds
  <2>2. <<>> \in Seq(Statuses)
    OBVIOUS
  <2>3. QED
    BY <2>1, <2>2
<1>4. QED
  BY <1>1, <1>2, <1>3, TimesAssumption, TimeValues DEF Init, TypeOK, Statuses

LEMMA KeepLastType ==
  ASSUME NEW S, NEW messages \in Seq(S), Len(messages) <= Depth, NEW m \in S
  PROVE  /\ KeepLast(messages, m) \in Seq(S)
         /\ Len(KeepLast(messages, m)) <= Depth
<1>1. CASE Len(messages) = Depth
  <2>1. messages # <<>>
    BY <1>1, TimesAssumption
  <2>2. Tail(messages) \in Seq(S) /\ Len(Tail(messages)) = Depth - 1
    BY <1>1, <2>1
  <2>3. QED
    BY <1>1, <2>2, TimesAssumption DEF KeepLast
<1>2. CASE Len(messages) # Depth
  BY <1>2, TimesAssumption DEF KeepLast
<1>3. QED
  BY <1>1, <1>2

LEMMA TypeNode == TypeOK /\ (\E n \in Nodes : Node(n)) => TypeOK'
<1> SUFFICES ASSUME TypeOK, NEW n \in Nodes, Node(n) PROVE TypeOK'
  OBVIOUS
<1> USE DEF TypeOK, nodeVars, netVars, clockVars
<1>1. ASSUME Change PROVE changes' \in 0..MaxChanges
  BY <1>1, TimesAssumption DEF Change
<1>2. CASE Crash(n)
  BY <1>1, <1>2 DEF Crash
<1>3. CASE Restart(n)
  BY <1>1, <1>3 DEF Restart, Statuses
<1>4. ASSUME NEW status \in Statuses, ChangeReady(n, status) PROVE TypeOK'
  BY <1>1, <1>4 DEF ChangeReady
<1>5. CASE Discover(n)
  BY <1>5 DEF Discover
<1>6. CASE Forget(n)
  BY <1>6 DEF Forget
<1>7. ASSUME NEW k \in Kinds, Publish(n, k) PROVE TypeOK'
  <2> DEFINE m == IF k = "ready_to_arm" THEN ready[n] ELSE "contents"
             queue == KeepLast(inbox[n][k], m)
  <2>1. m \in Payloads
    BY DEF Payloads
  <2>2. queue \in Seq(Payloads) /\ Len(queue) <= Depth
    BY <2>1, KeepLastType
  <2>3. k = "ready_to_arm" => queue \in Seq(Statuses)
    <3>1. k = "ready_to_arm" => m \in Statuses /\ inbox[n][k] \in Seq(Statuses)
      OBVIOUS
    <3>2. QED
      BY <3>1, KeepLastType
  <2>4. inbox' = [inbox EXCEPT ![n] = [inbox[n] EXCEPT ![k] = queue]]
    BY <1>7 DEF Publish
  <2> HIDE DEF queue, m
  <2>5. /\ inbox' \in [Nodes -> [Kinds -> Seq(Payloads)]]
        /\ \A o \in Nodes, j \in Kinds : Len(inbox'[o][j]) <= Depth
    BY <2>2, <2>4
  <2>6. \A o \in Nodes : inbox'[o]["ready_to_arm"] \in Seq(Statuses)
    BY <2>3, <2>4 DEF Kinds
  <2>7. QED
    BY <1>7, <2>5, <2>6 DEF Publish
<1>8. QED
  BY <1>2, <1>3, <1>4, <1>5, <1>6, <1>7 DEF Node

LEMMA TakeType ==
  ASSUME TypeOK, NEW n \in Nodes, NEW k \in Kinds, Take(n, k)
  PROVE  /\ inbox' \in [Nodes -> [Kinds -> Seq(Payloads)]]
         /\ \A o \in Nodes, j \in Kinds : Len(inbox'[o][j]) <= Depth
         /\ \A o \in Nodes : inbox'[o]["ready_to_arm"] \in Seq(Statuses)
         /\ k = "ready_to_arm" => Head(inbox[n][k]) \in Statuses
<1> DEFINE queue == inbox[n][k]
<1>1. queue \in Seq(Payloads) /\ queue # <<>> /\ Len(queue) <= Depth
  BY DEF TypeOK, Take
<1>2. Tail(queue) \in Seq(Payloads) /\ Len(Tail(queue)) <= Depth
  BY <1>1, TimesAssumption
<1>3. k = "ready_to_arm" => Tail(queue) \in Seq(Statuses) /\ Head(queue) \in Statuses
  <2>1. k = "ready_to_arm" => queue \in Seq(Statuses)
    BY DEF TypeOK
  <2>2. QED
    BY <1>1, <2>1
<1>4. inbox' = [inbox EXCEPT ![n] = [inbox[n] EXCEPT ![k] = Tail(queue)]]
  BY DEF Take
<1>5. QED
  BY <1>2, <1>3, <1>4 DEF TypeOK, Kinds

LEMMA RecordType == NewRecord \in Record
BY TimeValues DEF NewRecord, Record

\* One message changes one queue, one row of a table and one silence.
LEMMA TypeHandle == TypeOK /\ (\E n \in Nodes : Handle(n)) => TypeOK'
<1> SUFFICES ASSUME TypeOK, NEW n \in Nodes, Handle(n) PROVE TypeOK'
  OBVIOUS
<1> USE TimeValues DEF nodeVars
<1>1. ASSUME NEW row \in Record, records' = Put(records, n, row)
      PROVE  DOMAIN records' \subseteq Nodes /\ records' \in [DOMAIN records' -> Record]
  <2>1. DOMAIN records \subseteq Nodes /\ records \in [DOMAIN records -> Record]
    BY DEF TypeOK
  <2>2. /\ DOMAIN Put(records, n, row) = DOMAIN records \cup {n}
        /\ Put(records, n, row) \in [DOMAIN records \cup {n} -> Record]
    BY <2>1 DEF Put
  <2>3. QED
    BY <1>1, <2>1, <2>2
<1>2. ASSUME n \in DOMAIN records PROVE records[n] \in Record
  BY <1>2 DEF TypeOK
<1>3. CASE NewHeartbeatMsg(n)
  <2>1. \E row \in Record : records' = Put(records, n, row)
    BY <1>2, <1>3, RecordType DEF NewHeartbeatMsg, Record
  <2>2. QED
    BY <1>1, <1>3, <2>1, TakeType DEF NewHeartbeatMsg, TypeOK, Kinds
<1>4. CASE NewReadyToArmMsg(n)
  <2>1. "ready_to_arm" \in Kinds
    BY DEF Kinds
  <2>2. Head(inbox[n]["ready_to_arm"]) \in Statuses
    BY <1>4, <2>1, TakeType DEF NewReadyToArmMsg
  <2>3. \E row \in Record : records' = Put(records, n, row)
    BY <1>2, <1>4, <2>2, RecordType DEF NewReadyToArmMsg, Record
  <2>4. QED
    BY <1>1, <1>4, <2>1, <2>3, TakeType DEF NewReadyToArmMsg, TypeOK
<1>5. ASSUME NEW row \in Monitor, monitors' = Put(monitors, n, row)
      PROVE  DOMAIN monitors' \subseteq Nodes /\ monitors' \in [DOMAIN monitors' -> Monitor]
  <2>1. DOMAIN monitors \subseteq Nodes /\ monitors \in [DOMAIN monitors -> Monitor]
    BY DEF TypeOK
  <2>2. /\ DOMAIN Put(monitors, n, row) = DOMAIN monitors \cup {n}
        /\ Put(monitors, n, row) \in [DOMAIN monitors \cup {n} -> Monitor]
    BY <2>1 DEF Put
  <2>3. QED
    BY <1>5, <2>1, <2>2
<1>6. CASE NewDiagnosticMsg(n)
  <2>1. \E row \in Monitor : monitors' = Put(monitors, n, row)
    BY <1>6 DEF NewDiagnosticMsg, Monitor
  <2>2. QED
    BY <1>5, <1>6, <2>1, TakeType DEF NewDiagnosticMsg, TypeOK, Kinds
<1>7. QED
  BY <1>3, <1>4, <1>6 DEF Handle

\* update() writes the rows of the tables and adds or drops none.
LEMMA UpdatedTables ==
  ASSUME TypeOK, Update
  PROVE  /\ DOMAIN records' = DOMAIN records /\ records' \in [DOMAIN records -> Record]
         /\ \A n \in DOMAIN records :
              /\ records'[n].age = Later(records[n].age, sinceUpdate)
              /\ Later(records[n].age, sinceUpdate) > Timeout =>
                   records'[n].state = "UNKNOWN" /\ records'[n].ready = "UNKNOWN"
         /\ DOMAIN monitors' = DOMAIN monitors /\ monitors' \in [DOMAIN monitors -> Monitor]
         /\ \A n \in DOMAIN monitors :
              /\ monitors'[n].age = Later(monitors[n].age, sinceUpdate)
              /\ Later(monitors[n].age, sinceUpdate) > Timeout => monitors'[n].level = "UNKNOWN"
<1>1. ASSUME NEW r \in Record
      PROVE  /\ Expire(Aged(r)) \in Record
             /\ Expire(Aged(r)).age = Later(r.age, sinceUpdate)
             /\ Later(r.age, sinceUpdate) > Timeout =>
                  Expire(Aged(r)).state = "UNKNOWN" /\ Expire(Aged(r)).ready = "UNKNOWN"
  <2>1. Later(r.age, sinceUpdate) \in Times
    BY LaterType DEF Record, TypeOK
  <2>2. Aged(r) = [state |-> r.state, ready |-> r.ready, age |-> Later(r.age, sinceUpdate)]
    BY DEF Aged, Record
  <2>3. Expire(Aged(r)) =
          IF Later(r.age, sinceUpdate) > Timeout
            THEN [state |-> "UNKNOWN", ready |-> "UNKNOWN", age |-> Later(r.age, sinceUpdate)]
            ELSE Aged(r)
    BY <2>2 DEF Expire
  <2>4. QED
    BY <2>1, <2>2, <2>3 DEF Record
<1>2. ASSUME NEW r \in Monitor
      PROVE  /\ ExpireMonitor(Aged(r)) \in Monitor
             /\ ExpireMonitor(Aged(r)).age = Later(r.age, sinceUpdate)
             /\ Later(r.age, sinceUpdate) > Timeout => ExpireMonitor(Aged(r)).level = "UNKNOWN"
  <2>1. Later(r.age, sinceUpdate) \in Times
    BY LaterType DEF Monitor, TypeOK
  <2>2. Aged(r) = [level |-> r.level, age |-> Later(r.age, sinceUpdate)]
    BY DEF Aged, Monitor
  <2>3. ExpireMonitor(Aged(r)) =
          IF Later(r.age, sinceUpdate) > Timeout
            THEN [level |-> "UNKNOWN", age |-> Later(r.age, sinceUpdate)]
            ELSE Aged(r)
    BY <2>2 DEF ExpireMonitor
  <2>4. QED
    BY <2>1, <2>2, <2>3 DEF Monitor
<1>3. /\ \A n \in DOMAIN records : records[n] \in Record
      /\ \A n \in DOMAIN monitors : monitors[n] \in Monitor
  BY DEF TypeOK
<1>4. /\ records' = [n \in DOMAIN records |-> Expire(Aged(records[n]))]
      /\ monitors' = [n \in DOMAIN monitors |-> ExpireMonitor(Aged(monitors[n]))]
  BY DEF Update
<1>5. QED
  BY <1>1, <1>2, <1>3, <1>4

LEMMA TypeClock == TypeOK /\ (RescanROSNetwork \/ Update \/ Elapse) => TypeOK'
<1> SUFFICES ASSUME TypeOK, RescanROSNetwork \/ Update \/ Elapse PROVE TypeOK'
  OBVIOUS
<1> USE DEF nodeVars, netVars, clockVars
<1>1. CASE RescanROSNetwork
  <2>1. NoMessages \in [Kinds -> Seq(Payloads)] /\ NoMessages["ready_to_arm"] \in Seq(Statuses)
    BY DEF NoMessages, Kinds
  <2>2. \A k \in Kinds : Len(NoMessages[k]) <= Depth
    BY TimesAssumption DEF NoMessages
  <2>3. \A n \in Nodes : inbox'[n] = inbox[n] \/ inbox'[n] = NoMessages
    BY <1>1 DEF RescanROSNetwork
  <2>4. /\ inbox' \in [Nodes -> [Kinds -> Seq(Payloads)]]
        /\ \A n \in Nodes : inbox'[n]["ready_to_arm"] \in Seq(Statuses)
        /\ \A n \in Nodes, k \in Kinds : Len(inbox'[n][k]) <= Depth
    BY <1>1, <2>1, <2>2, <2>3 DEF RescanROSNetwork, TypeOK
  <2>5. QED
    BY <1>1, <2>4 DEF RescanROSNetwork, Scanned, TypeOK
<1>2. CASE Update
  BY <1>2, UpdatedTables, TimeValues DEF Update, TypeOK
<1>3. CASE Elapse
  <2>1. 1 \in Nat /\ \A t \in Times : Later(t, 1) \in Times
    BY TimesAssumption DEF Later, Times, LongAgo
  <2>2. QED
    BY <1>3, <2>1 DEF Elapse, TypeOK
<1>4. QED
  BY <1>1, <1>2, <1>3

LEMMA TypeStep == TypeOK /\ [Next]_vars => TypeOK'
<1> SUFFICES ASSUME TypeOK, [Next]_vars PROVE TypeOK'
  OBVIOUS
<1>1. CASE UNCHANGED vars
  BY <1>1 DEF vars, nodeVars, netVars, clockVars, TypeOK
<1>2. QED
  BY <1>1, TypeNode, TypeHandle, TypeClock DEF Next

\* TypeOK is an invariant: in particular no queue outgrows its depth, and only
\* nodes that were heard of have a record.
THEOREM TypeCorrect == Spec => []TypeOK
BY TypeInit, TypeStep, PTL DEF Spec

-----------------------------------------------------------------------------
(* Silence.  A row's age, carried on to the present, is at least the time  *)
(* that its node has been silent: the age errs only on the old side.       *)

AgesCoverSilence ==
  /\ \A n \in DOMAIN records  : silent[n] <= Later(records[n].age, sinceUpdate)
  /\ \A n \in DOMAIN monitors : diagSilent[n] <= Later(monitors[n].age, sinceUpdate)

IInv == TypeOK /\ AgesCoverSilence /\ SilenceShows

LEMMA SilenceInit == Init => IInv
<1> SUFFICES ASSUME Init PROVE IInv
  OBVIOUS
<1>1. DOMAIN records = {} /\ DOMAIN monitors = {}
  BY DEF Init
<1>2. QED
  BY <1>1, TypeInit DEF IInv, AgesCoverSilence, SilenceShows

\* A message ends the silence of its node, and leaves the others' rows alone.
LEMMA SilenceHandle == IInv /\ (\E n \in Nodes : Handle(n)) => IInv'
<1> SUFFICES ASSUME IInv, NEW n \in Nodes, Handle(n) PROVE IInv'
  OBVIOUS
<1>1. TypeOK /\ TypeOK'
  BY TypeHandle DEF IInv
<1>2. TypeOK' => /\ \A m \in DOMAIN records' : Later(records'[m].age, sinceUpdate') >= 0
                 /\ \A m \in DOMAIN monitors' : Later(monitors'[m].age, sinceUpdate') >= 0
  BY TimesAssumption DEF TypeOK, Record, Monitor, Later, Times, LongAgo
<1>3. CASE NewHeartbeatMsg(n) \/ NewReadyToArmMsg(n)
  <2>1. /\ DOMAIN records' = DOMAIN records \cup {n}
        /\ \A m \in DOMAIN records : m # n => records'[m] = records[m]
    BY <1>3 DEF NewHeartbeatMsg, NewReadyToArmMsg, Put
  <2>2. /\ silent'[n] = 0 /\ \A m \in Nodes : m # n => silent'[m] = silent[m]
        /\ UNCHANGED <<monitors, diagSilent, sinceUpdate>>
    BY <1>1, <1>3 DEF NewHeartbeatMsg, NewReadyToArmMsg, TypeOK
  <2>3. DOMAIN records \subseteq Nodes
    BY <1>1 DEF TypeOK
  <2>4. AgesCoverSilence'
    BY <1>1, <1>2, <2>1, <2>2, <2>3 DEF IInv, AgesCoverSilence
  <2>5. SilenceShows'
    BY <2>1, <2>2, <2>3, TimesAssumption DEF IInv, SilenceShows
  <2>6. QED
    BY <1>1, <2>4, <2>5 DEF IInv
<1>4. CASE NewDiagnosticMsg(n)
  <2>1. /\ DOMAIN monitors' = DOMAIN monitors \cup {n}
        /\ \A m \in DOMAIN monitors : m # n => monitors'[m] = monitors[m]
    BY <1>4 DEF NewDiagnosticMsg, Put
  <2>2. /\ diagSilent'[n] = 0 /\ \A m \in Nodes : m # n => diagSilent'[m] = diagSilent[m]
        /\ UNCHANGED <<records, silent, sinceUpdate>>
    BY <1>1, <1>4 DEF NewDiagnosticMsg, TypeOK
  <2>3. DOMAIN monitors \subseteq Nodes
    BY <1>1 DEF TypeOK
  <2>4. AgesCoverSilence'
    BY <1>1, <1>2, <2>1, <2>2, <2>3 DEF IInv, AgesCoverSilence
  <2>5. SilenceShows'
    BY <2>1, <2>2, <2>3, TimesAssumption DEF IInv, SilenceShows
  <2>6. QED
    BY <1>1, <2>4, <2>5 DEF IInv
<1>5. QED
  BY <1>3, <1>4 DEF Handle

\* update() moves the age to the present and expires what is too old.
LEMMA SilenceUpdate == IInv /\ Update => IInv'
<1> SUFFICES ASSUME IInv, Update PROVE IInv'
  OBVIOUS
<1>1. TypeOK /\ TypeOK' /\ sinceUpdate' = 0 /\ UNCHANGED <<silent, diagSilent>>
  BY TypeClock DEF IInv, Update
<1>2. /\ \A n \in DOMAIN records' : Later(records'[n].age, sinceUpdate') = records'[n].age
      /\ \A n \in DOMAIN monitors' : Later(monitors'[n].age, sinceUpdate') = monitors'[n].age
  BY <1>1, LaterNone DEF TypeOK, Record, Monitor
<1>3. AgesCoverSilence'
  BY <1>1, <1>2, UpdatedTables DEF IInv, AgesCoverSilence
<1>4. /\ \A n \in DOMAIN records : silent[n] \in Int /\ Later(records[n].age, sinceUpdate) \in Int
      /\ \A n \in DOMAIN monitors : diagSilent[n] \in Int /\ Later(monitors[n].age, sinceUpdate) \in Int
  BY <1>1, TimesAssumption, LaterType DEF TypeOK, Record, Monitor, Times, LongAgo
<1>5. SilenceShows'
  BY <1>1, <1>4, UpdatedTables, TimesAssumption DEF IInv, AgesCoverSilence, SilenceShows
<1>6. QED
  BY <1>1, <1>3, <1>5 DEF IInv

LEMMA SilenceElapse == IInv /\ Elapse => IInv'
<1> SUFFICES ASSUME IInv, Elapse PROVE IInv'
  OBVIOUS
<1>1. TypeOK /\ TypeOK' /\ UNCHANGED <<records, monitors>>
  BY TypeClock DEF IInv, Elapse, nodeVars, netVars
<1>2. sinceUpdate' # 0
  BY <1>1, TimesAssumption DEF Elapse, TypeOK, Later, Times, LongAgo
<1>3. AgesCoverSilence'
  <2>1. ASSUME NEW n \in DOMAIN records
        PROVE  silent'[n] <= Later(records'[n].age, sinceUpdate')
    <3>1. n \in Nodes /\ silent[n] \in Times /\ records[n].age \in Times /\ sinceUpdate \in Times
      BY <1>1 DEF TypeOK, Record
    <3>2. silent'[n] = Later(silent[n], 1) /\ sinceUpdate' = Later(sinceUpdate, 1)
      BY <3>1 DEF Elapse
    <3>3. QED
      BY <1>1, <3>1, <3>2, LaterTogether DEF IInv, AgesCoverSilence
  <2>2. ASSUME NEW n \in DOMAIN monitors
        PROVE  diagSilent'[n] <= Later(monitors'[n].age, sinceUpdate')
    <3>1. n \in Nodes /\ diagSilent[n] \in Times /\ monitors[n].age \in Times /\ sinceUpdate \in Times
      BY <1>1 DEF TypeOK, Monitor
    <3>2. diagSilent'[n] = Later(diagSilent[n], 1) /\ sinceUpdate' = Later(sinceUpdate, 1)
      BY <3>1 DEF Elapse
    <3>3. QED
      BY <1>1, <3>1, <3>2, LaterTogether DEF IInv, AgesCoverSilence
  <2>3. QED
    BY <1>1, <2>1, <2>2 DEF AgesCoverSilence
<1>4. QED
  BY <1>1, <1>2, <1>3 DEF IInv, SilenceShows

\* The nodes, the network and the scan touch no record and no clock.
LEMMA SilenceOthers ==
  IInv /\ (RescanROSNetwork \/ (\E n \in Nodes : Node(n)) \/ UNCHANGED vars) => IInv'
<1> SUFFICES ASSUME IInv, RescanROSNetwork \/ (\E n \in Nodes : Node(n)) \/ UNCHANGED vars
             PROVE  IInv'
  OBVIOUS
<1>1. TypeOK'
  BY TypeClock, TypeNode, TypeStep DEF IInv
<1>2. UNCHANGED <<records, monitors, clockVars>>
  BY DEF RescanROSNetwork, Node, Crash, Restart, Discover, Forget, ChangeReady, Publish, vars
<1>3. QED
  BY <1>1, <1>2 DEF clockVars, IInv, AgesCoverSilence, SilenceShows

LEMMA SilenceStep == IInv /\ [Next]_vars => IInv'
BY SilenceHandle, SilenceUpdate, SilenceElapse, SilenceOthers DEF Next

\* After an update() nothing stale looks current, however the messages, the
\* ticks, the scans and the deaths of nodes are interleaved.
THEOREM NothingStaleShown == Spec => []SilenceShows
<1>1. IInv => SilenceShows
  BY DEF IInv
<1>2. QED
  BY <1>1, SilenceInit, SilenceStep, PTL DEF Spec

-----------------------------------------------------------------------------
(* The screen.                                                             *)

LEMMA ThreePowers == IsFiniteSet({10, 100, 1000}) /\ Cardinality({10, 100, 1000}) = 3
<1>1. IsFiniteSet({10}) /\ Cardinality({10}) = 1
  BY FS_Singleton, Zenon
<1>2. IsFiniteSet({10} \cup {100}) /\ Cardinality({10} \cup {100}) = 2
  BY <1>1, FS_AddElement
<1>3. /\ IsFiniteSet(({10} \cup {100}) \cup {1000})
      /\ Cardinality(({10} \cup {100}) \cup {1000}) = 3
  BY <1>2, FS_AddElement
<1>4. {10, 100, 1000} = ({10} \cup {100}) \cup {1000}
  OBVIOUS
<1>5. QED
  BY <1>3, <1>4

LEMMA FourPowers == Cardinality({10, 100, 1000, 10000}) = 4
<1>1. {10, 100, 1000, 10000} = {10, 100, 1000} \cup {10000}
  OBVIOUS
<1>2. 10000 \notin {10, 100, 1000}
  OBVIOUS
<1>3. Cardinality({10, 100, 1000} \cup {10000}) = 4
  BY <1>2, ThreePowers, FS_AddElement
<1>4. QED
  BY <1>1, <1>3

\* Just the numbers below 10000 fit into a field of four.
LEMMA IdFits ==
  ASSUME NEW id \in Nat
  PROVE  IdText(id) \in Nat /\ (IdText(id) <= 4 <=> id < 10000)
<1> DEFINE reached == {power \in {10, 100, 1000, 10000} : id >= power}
           powers  == {10, 100, 1000}
<1>1. IdText(id) = 1 + Cardinality(reached)
  BY DEF IdText
<1>2. CASE id < 10000
  <2>1. reached \subseteq powers
    BY <1>2
  <2>2. IsFiniteSet(reached) /\ Cardinality(reached) <= 3
    BY <2>1, ThreePowers, FS_Subset
  <2>3. Cardinality(reached) \in Nat
    BY <2>2, FS_CardinalityType
  <2> HIDE DEF reached
  <2>4. QED
    BY <1>1, <1>2, <2>2, <2>3
<1>3. CASE ~(id < 10000)
  <2>1. reached = {10, 100, 1000, 10000}
    BY <1>3
  <2>2. Cardinality(reached) = 4
    BY <2>1, FourPowers
  <2> HIDE DEF reached
  <2>3. QED
    BY <1>1, <1>3, <2>2
<1>4. QED
  BY <1>2, <1>3

LEMMA NameTextBound == \A length \in Nat : NameText(length) \in 0..70
BY DEF NameText, Width

LEMMA StatusTextBound == \A state \in DOMAIN StatusText : StatusText[state] \in 0..14
BY DEF StatusText

LEMMA ReadyTextBound == \A readiness \in DOMAIN ReadyText : ReadyText[readiness] \in 0..15
BY DEF ReadyText

\* The number is the only text that can be too long, and no text ends further
\* to the right than the last one.
LEMMA RowFilled ==
  ASSUME NEW state \in DOMAIN StatusText, NEW readiness \in DOMAIN ReadyText,
         NEW id \in Nat, NEW length \in Nat, NEW seconds \in Nat
  PROVE  LET row == Row(state, readiness, id, length, seconds)
         IN  /\ Filled(row) <=> id < 10000
             /\ \A column \in Columns : row[column] \in Nat /\ Start[column] \in Nat
             /\ Filled(row) => \A column \in Columns :
                  Start[column] + row[column] <= Start["RX"] + row["RX"]
             /\ Start["RX"] = 106 /\ row["RX"] \in 4..5
             /\ Start["MARKER"] = 0 /\ row["MARKER"] = 3
<1> DEFINE row == Row(state, readiness, id, length, seconds)
<1>1. /\ IdText(id) \in Nat /\ NameText(length) \in 0..70
      /\ StatusText[state] \in 0..14 /\ ReadyText[readiness] \in 0..15
  BY IdFits, NameTextBound, StatusTextBound, ReadyTextBound
<1>2. RxText(seconds) \in 4..5
  BY DEF RxText
<1>3. /\ row["MARKER"] = 3 /\ row["ID"] = IdText(id) /\ row["NODENAME"] = NameText(length)
      /\ row["STATUS"] = StatusText[state] /\ row["READY_TO_ARM"] = ReadyText[readiness]
      /\ row["RX"] = RxText(seconds)
  BY DEF Row, Width
<1>4. /\ Width["MARKER"] = 3 /\ Width["ID"] = 4 /\ Width["NODENAME"] = 70
      /\ Width["STATUS"] = 14 /\ Width["READY_TO_ARM"] = 15 /\ Width["RX"] = 6
  BY DEF Width
<1>5. /\ Start["MARKER"] = 0 /\ Start["ID"] = 3 /\ Start["NODENAME"] = 7
      /\ Start["STATUS"] = 77 /\ Start["READY_TO_ARM"] = 91 /\ Start["RX"] = 106
  BY DEF Start, Width
<1> HIDE DEF row
<1>6. Filled(row) <=> IdText(id) <= 4
  BY <1>1, <1>2, <1>3, <1>4 DEF Filled, Columns
<1>7. \A column \in Columns : row[column] \in Nat /\ Start[column] \in Nat
  BY <1>1, <1>2, <1>3, <1>5 DEF Columns
<1>8. ASSUME Filled(row), NEW column \in Columns
      PROVE  Start[column] + row[column] <= Start["RX"] + row["RX"]
  BY <1>1, <1>2, <1>3, <1>5, <1>6, <1>8 DEF Columns
<1>9. Filled(row) <=> id < 10000
  BY <1>6, IdFits
<1>10. QED
  BY <1>2, <1>3, <1>5, <1>7, <1>8, <1>9 DEF row

-----------------------------------------------------------------------------
(* Where the cells lie.                                                    *)

\* A window's rectangle, its shares computed.
LEMMA PixelsOf ==
  ASSUME NEW x, NEW y, NEW w, NEW h, NEW width, NEW height
  PROVE  Pixels(Rectangle(x, y, w, h), [width |-> width, height |-> height]) =
           Rectangle((width * x) \div 1000, (height * y) \div 1000,
                     (width * w) \div 1000, (height * h) \div 1000)
BY DEF Pixels, Rectangle

\* A cell on a line of the window lies between the sides of the box if and only
\* if it ends two cells before the window does.
LEMMA CellInside ==
  ASSUME NEW width \in Nat, NEW height \in Nat, NEW id \in Nat,
         NEW column, NEW row, Start[column] \in Nat, row[column] \in Nat,
         HasLine(id, [width |-> width, height |-> height])
  PROVE  LET terminal == [width |-> width, height |-> height]
         IN  Inside(Cell(row, column, id, terminal), Interior(Pixels(NodeInfoWindow, terminal)))
               <=> Start[column] + row[column] + 3 <= (width * 660) \div 1000
<1> DEFINE terminal == [width |-> width, height |-> height]
           x == (width * 0) \div 1000
           y == (height * 150) \div 1000
           w == (width * 660) \div 1000
           h == (height * 550) \div 1000
           start == Start[column]
           text == row[column]
<1>1. Pixels(NodeInfoWindow, terminal) = Rectangle(x, y, w, h)
  BY PixelsOf DEF NodeInfoWindow
<1>2. w \in Nat /\ h \in Nat /\ x = 0 /\ y \in Nat
  OBVIOUS
<1>3. start \in Nat /\ text \in Nat
  OBVIOUS
<1> HIDE DEF x, y, w, h, start, text
<1>4. 3 + id <= h - 2
  BY <1>1 DEF HasLine, Rectangle
<1>5. Cell(row, column, id, terminal) = Rectangle(x + 2 + start, y + 3 + id, text, 1)
  BY <1>1 DEF Cell, Rectangle, start, text
<1>6. Interior(Pixels(NodeInfoWindow, terminal)) = Rectangle(x + 1, y + 1, w - 2, h - 2)
  BY <1>1 DEF Interior, Rectangle
<1>7. Inside(Rectangle(x + 2 + start, y + 3 + id, text, 1),
              Rectangle(x + 1, y + 1, w - 2, h - 2)) <=> start + text + 3 <= w
  BY <1>2, <1>3, <1>4 DEF Inside, Rectangle
<1>8. QED
  BY <1>5, <1>6, <1>7 DEF start, text, w

\* A cell inside the window lies under no other one if its line is above the
\* message window, which starts before the node info window has ended ...
LEMMA CellApart ==
  ASSUME NEW width \in Nat, NEW height \in Nat, NEW id \in Nat,
         NEW column, NEW row, Start[column] \in Nat, row[column] \in Nat,
         Start[column] + row[column] + 3 <= (width * 660) \div 1000,
         (height * 150) \div 1000 + 4 + id <= (height * 680) \div 1000,
         NEW window \in OtherWindows
  PROVE  LET terminal == [width |-> width, height |-> height]
         IN  Apart(Cell(row, column, id, terminal), Pixels(window, terminal))
<1> DEFINE terminal == [width |-> width, height |-> height]
           y == (height * 150) \div 1000
           w == (width * 660) \div 1000
           h == (height * 550) \div 1000
           message == (height * 680) \div 1000
           cell == Cell(row, column, id, terminal)
           Of(share) == Pixels(share, terminal)
<1>1. /\ Of(NodeInfoWindow) = Rectangle((width * 0) \div 1000, y, w, h)
      /\ Of(HeaderWindow) = Rectangle((width * 0) \div 1000, (height * 0) \div 1000,
                                      (width * 1000) \div 1000, y)
      /\ Of(DiagnosticWindow) = Rectangle(w, y, (width * 345) \div 1000, h)
      /\ Of(MessageWindow) = Rectangle((width * 0) \div 1000, message,
                                       (width * 1000) \div 1000, (height * 70) \div 1000)
      /\ Of(StatusWindow) = Rectangle((width * 0) \div 1000, (height * 750) \div 1000,
                                      (width * 300) \div 1000, (height * 250) \div 1000)
      /\ Of(MenuWindow) = Rectangle((width * 300) \div 1000, (height * 750) \div 1000,
                                    (width * 250) \div 1000, (height * 250) \div 1000)
  BY PixelsOf DEF NodeInfoWindow, HeaderWindow, DiagnosticWindow, MessageWindow,
                  StatusWindow, MenuWindow
<1>2. /\ (width * 0) \div 1000 = 0 /\ (height * 0) \div 1000 = 0
      /\ y \in Nat /\ w \in Nat /\ h \in Nat /\ message \in Nat
      /\ (height * 750) \div 1000 >= message /\ (height * 750) \div 1000 \in Nat
  OBVIOUS
<1>3. y + 4 + id <= message /\ Start[column] + row[column] + 3 <= w
  OBVIOUS
<1> HIDE DEF y, w, h, message
<1>4. cell = Rectangle(2 + Start[column], y + 3 + id, row[column], 1)
  BY <1>1, <1>2 DEF Cell, Rectangle
<1>5. /\ cell.y = y + 3 + id /\ cell.height = 1
      /\ cell.x + cell.width <= w - 1 /\ cell.x \in Nat /\ cell.width \in Nat
  BY <1>2, <1>3, <1>4 DEF Rectangle
<1> HIDE DEF cell
<1>6. CASE window = HeaderWindow
  <2>1. Apart(cell, Of(HeaderWindow))
    BY <1>1, <1>2, <1>5 DEF Apart, Rectangle
  <2>2. QED
    BY <1>6, <2>1 DEF cell
<1>7. CASE window = DiagnosticWindow
  <2>1. Apart(cell, Of(DiagnosticWindow))
    BY <1>1, <1>2, <1>5 DEF Apart, Rectangle
  <2>2. QED
    BY <1>7, <2>1 DEF cell
<1>8. CASE window \in {MessageWindow, StatusWindow, MenuWindow}
  <2>1. Apart(cell, Of(MessageWindow))
    BY <1>1, <1>2, <1>3, <1>5 DEF Apart, Rectangle
  <2>2. Apart(cell, Of(StatusWindow))
    BY <1>1, <1>2, <1>3, <1>5 DEF Apart, Rectangle
  <2>3. Apart(cell, Of(MenuWindow))
    BY <1>1, <1>2, <1>3, <1>5 DEF Apart, Rectangle
  <2>4. QED
    BY <1>8, <2>1, <2>2, <2>3 DEF cell
<1>9. QED
  BY <1>6, <1>7, <1>8 DEF OtherWindows, cell

\* ... and under the message window if it is not, wherever the window ends.
LEMMA CellCovered ==
  ASSUME NEW width \in Nat, NEW height \in Nat, NEW id \in Nat,
         NEW column, NEW row, Start[column] \in Nat, row[column] \in Nat \ {0},
         Start[column] + row[column] + 3 <= (width * 660) \div 1000,
         HasLine(id, [width |-> width, height |-> height]),
         ~((height * 150) \div 1000 + 4 + id <= (height * 680) \div 1000)
  PROVE  LET terminal == [width |-> width, height |-> height]
         IN  ~Apart(Cell(row, column, id, terminal), Pixels(MessageWindow, terminal))
<1> DEFINE terminal == [width |-> width, height |-> height]
           y == (height * 150) \div 1000
           w == (width * 660) \div 1000
           h == (height * 550) \div 1000
           message == (height * 680) \div 1000
           below == (height * 70) \div 1000
<1>1. /\ Pixels(NodeInfoWindow, terminal) = Rectangle((width * 0) \div 1000, y, w, h)
      /\ Pixels(MessageWindow, terminal) =
           Rectangle((width * 0) \div 1000, message, (width * 1000) \div 1000, below)
  BY PixelsOf DEF NodeInfoWindow, MessageWindow
<1>2. /\ (width * 0) \div 1000 = 0 /\ (width * 1000) \div 1000 = width
      /\ y \in Nat /\ w \in Nat /\ h \in Nat /\ message \in Nat /\ below \in Nat
      /\ w <= width
  OBVIOUS
<1>3. y + h - 2 < message + below
  OBVIOUS
<1>4. ~(y + 4 + id <= message) /\ Start[column] + row[column] + 3 <= w
  OBVIOUS
<1> HIDE DEF y, w, h, message, below
<1>5. 3 + id <= h - 2
  BY <1>1 DEF HasLine, Rectangle
<1>6. Cell(row, column, id, terminal) = Rectangle(2 + Start[column], y + 3 + id, row[column], 1)
  BY <1>1, <1>2 DEF Cell, Rectangle
<1>7. ~Apart(Rectangle(2 + Start[column], y + 3 + id, row[column], 1),
             Rectangle(0, message, width, below))
  BY <1>2, <1>3, <1>4, <1>5 DEF Apart, Rectangle
<1>8. QED
  BY <1>1, <1>2, <1>6, <1>7

\* getNodeInfo, updateWindow, initWindows: on a terminal of any size the row of a
\* node is shown if and only if there is room for it, whatever is in the row.
THEOREM AllRowsReadable ==
  \A state \in DOMAIN StatusText, readiness \in DOMAIN ReadyText :
    <<state, readiness>> \in ReadableRows
<1> SUFFICES ASSUME NEW state \in DOMAIN StatusText, NEW readiness \in DOMAIN ReadyText,
                    NEW id \in Ids, NEW length \in NameLengths, NEW seconds \in Silences,
                    NEW terminal \in [width : Widths, height : Heights]
             PROVE  LET row == Row(state, readiness, id, length, seconds)
                    IN Shown(row, id, terminal) <=> HasRoom(row, id, terminal)
  BY DEF ReadableRows
<1>1. PICK width \in Widths, height \in Heights :
        terminal = [width |-> width, height |-> height]
  OBVIOUS
<1> DEFINE row == Row(state, readiness, id, length, seconds)
           y == (height * 150) \div 1000
           w == (width * 660) \div 1000
           h == (height * 550) \div 1000
           message == (height * 680) \div 1000
<1>2. id \in Nat /\ length \in Nat /\ seconds \in Nat /\ width \in Nat /\ height \in Nat
  BY ScreenAssumption
<1>3. y \in Nat /\ w \in Nat /\ h \in Nat /\ message \in Nat
  BY <1>2
<1>4. /\ Filled(row) <=> id < 10000
      /\ \A column \in Columns : row[column] \in Nat /\ Start[column] \in Nat
      /\ Filled(row) => \A column \in Columns :
           Start[column] + row[column] <= Start["RX"] + row["RX"]
      /\ Start["RX"] = 106 /\ row["RX"] \in 4..5
      /\ Start["MARKER"] = 0 /\ row["MARKER"] = 3
  BY <1>2, RowFilled
<1>5. HasLine(id, terminal) <=> 3 + id <= h - 2
  <2>1. Pixels(NodeInfoWindow, terminal) = Rectangle((width * 0) \div 1000, y, w, h)
    BY <1>1, PixelsOf DEF NodeInfoWindow
  <2>2. Pixels(NodeInfoWindow, terminal).height = h
    BY <2>1 DEF Rectangle
  <2>3. QED
    BY <2>2 DEF HasLine
<1>6. HasRoom(row, id, terminal) <=>
        /\ Start["RX"] + row["RX"] + 3 <= w /\ 3 + id <= h - 2
        /\ y + 4 + id <= message /\ id < 10000
  <2>1. HasRoom(row, id, terminal) <=>
          /\ Start["RX"] + row["RX"] + 3 <= w /\ id < h - 4
          /\ id < message - y - 3 /\ id < 10000
    BY <1>1 DEF HasRoom
  <2> HIDE DEF row, y, w, h, message
  <2>2. QED
    BY <1>2, <1>3, <2>1
<1>7. ASSUME HasRoom(row, id, terminal), NEW column \in Columns
      PROVE  Readable(Cell(row, column, id, terminal), terminal)
  <2>1. Start[column] + row[column] + 3 <= w /\ row[column] \in Nat /\ Start[column] \in Nat
    <3> HIDE DEF row, y, w, h, message
    <3>1. QED
      BY <1>3, <1>4, <1>6, <1>7
  <2>2. HasLine(id, terminal) /\ y + 4 + id <= message
    BY <1>5, <1>6, <1>7
  <2>3. Inside(Cell(row, column, id, terminal), Interior(Pixels(NodeInfoWindow, terminal)))
    BY <1>1, <1>2, <2>1, <2>2, CellInside
  <2>4. \A window \in OtherWindows :
          Apart(Cell(row, column, id, terminal), Pixels(window, terminal))
    BY <1>1, <1>2, <2>1, <2>2, CellApart
  <2>5. QED
    BY <2>3, <2>4 DEF Readable
<1>8. ASSUME Shown(row, id, terminal) PROVE HasRoom(row, id, terminal)
  <2>1. HasLine(id, terminal) /\ Filled(row)
    BY <1>8 DEF Shown
  <2>2. \A column \in Columns : Readable(Cell(row, column, id, terminal), terminal)
    BY <1>8 DEF Shown
  <2>3. "RX" \in Columns /\ "MARKER" \in Columns
    BY DEF Columns
  <2>4. Start["RX"] + row["RX"] + 3 <= w
    <3>1. Inside(Cell(row, "RX", id, terminal), Interior(Pixels(NodeInfoWindow, terminal)))
      BY <2>2, <2>3 DEF Readable
    <3>2. QED
      BY <1>1, <1>2, <1>4, <2>1, <2>3, <3>1, CellInside
  <2>5. Start["MARKER"] + row["MARKER"] + 3 <= w /\ row["MARKER"] \in Nat \ {0}
    <3> HIDE DEF row, w
    <3>1. QED
      BY <1>3, <1>4, <2>4
  <2>6. Apart(Cell(row, "MARKER", id, terminal), Pixels(MessageWindow, terminal))
    BY <2>2, <2>3 DEF Readable, OtherWindows
  <2>7. y + 4 + id <= message
    <3>1. Start["MARKER"] \in Nat
      BY <1>4
    <3>2. QED
      BY <1>1, <1>2, <2>1, <2>5, <2>6, <3>1, CellCovered
  <2>8. QED
    BY <1>4, <1>5, <1>6, <2>1, <2>4, <2>7
<1>9. HasRoom(row, id, terminal) => Filled(row) /\ HasLine(id, terminal)
  BY <1>4, <1>5, <1>6
<1>10. Shown(row, id, terminal) <=> HasRoom(row, id, terminal)
  <2> HIDE DEF row
  <2>1. QED
    BY <1>7, <1>8, <1>9 DEF Shown
<1>11. QED
  BY <1>10

\* Of every record that the messages can make, the row is shown on just the
\* terminals that have room for it: getNodeInfo never meets a text that is too
\* long for its field, but for the number of the 10001st node.
THEOREM RowsStayReadable == Spec => []RowsReadable
<1>1. TypeOK => RowsReadable
  <2> SUFFICES ASSUME TypeOK, NEW n \in DOMAIN records
               PROVE  <<records[n].state, records[n].ready>> \in ReadableRows
    BY DEF RowsReadable
  <2>1. records[n] \in Record
    BY DEF TypeOK
  <2>2. records[n].state \in DOMAIN StatusText /\ records[n].ready \in DOMAIN ReadyText
    BY <2>1 DEF Record, Statuses, StatusText, ReadyText
  <2>3. QED
    BY <2>2, AllRowsReadable
<1>2. QED
  BY <1>1, TypeCorrect, PTL
===============================================================================
