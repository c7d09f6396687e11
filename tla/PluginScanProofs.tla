--------------------------- MODULE PluginScanProofs ---------------------------
(***************************************************************************)
(* Theorems about PluginScan for any topics, messages and failures.  A     *)
(* file is open only for a plugin that is still to be closed; the last     *)
(* stamp that the rates are taken from is that of the CSV's last row; a    *)
(* plugin that raised has no more turns, and each turn of the other one    *)
(* adds the message that is read to what it has handled; the running       *)
(* figures of a topic are kept by one more rate, whose division is exact.  *)
(***************************************************************************)
EXTENDS PluginScan, FiniteSetTheorems, WellFoundedInduction, TLAPS

\* What the matching and the turns hand to the plugins is enabled.
Handed ==
  /\ \A t \in Topics : handlers[t] \subseteq enabled
  /\ todo \subseteq enabled
  /\ pc = "process" => read # <<>>

\* The plugins are closed in one place, and all of them.
Closing ==
  /\ pc \in {"import", "match", "read", "process"} => toClose = enabled
  /\ pc \in {"report", "reported"} => toClose = {}

OpenIsToClose == \A f \in open : \E p \in toClose : f \in FilesOf(p)

LastOfRows ==
  \A t \in Topics :
    stats[t].last = IF csv[t] = <<>> THEN NoStamp ELSE csv[t][Len(csv[t])].stamp

IInv == TypeOK /\ Handed /\ Closing /\ OpenIsToClose /\ LastOfRows /\ DeltasOfRows

USE DEF configVars, matchVars, rosoutVars, rateVars

LEMMA IInvInit == Init => IInv
<1> SUFFICES ASSUME Init PROVE IInv
  OBVIOUS
<1>1. TypeOK
  <2>1. /\ csv \in [Topics -> Seq([index : Nat, stamp : 1..MaxStamp])]
        /\ deltas \in [Topics -> Seq(Int)]
    BY DEF Init
  <2>2. stats \in [Topics -> Stats]
    BY DEF Init, Stats, NoStats
  <2>3. read \in Seq(Message) /\ Len(read) <= MaxMessages /\ text \in Seq(1..MaxMessages)
    BY BoundsAssumption DEF Init
  <2>4. QED
    BY <2>1, <2>2, <2>3 DEF Init, TypeOK
<1>2. Handed /\ Closing /\ OpenIsToClose
  BY DEF Init, Handed, Closing, OpenIsToClose
<1>3. LastOfRows /\ DeltasOfRows
  <2>1. \A t \in Topics : Positive(t) = {}
    BY DEF Init, Positive
  <2>2. QED
    BY <2>1, FS_EmptySet DEF Init, LastOfRows, DeltasOfRows, NoStats
<1>4. QED
  BY <1>1, <1>2, <1>3 DEF IInv

\* The rows, the rates and the differences of a topic stay as they are.
LEMMA RowsKept ==
  ASSUME LastOfRows, DeltasOfRows, UNCHANGED <<csv, deltas, stats>>
  PROVE  LastOfRows' /\ DeltasOfRows'
BY DEF LastOfRows, DeltasOfRows, Positive

\* Before the messages, between them and after them.
LEMMA StepOutside ==
  ASSUME IInv,
         \/ ImportFails \/ Import \/ Matched \/ ScanStops \/ Processed \/ Closed \/ Report
         \/ AnalysisEnded
  PROVE  IInv'
<1>1. /\ UNCHANGED <<configVars, unmatched, handlers, read, todo, failed, rosoutVars, rateVars,
                     open, toClose>>
      /\ pc' \in {"import", "match", "read", "process", "close", "report"} \cup Ended
  BY DEF IInv, TypeOK, ImportFails, Import, Matched, ScanStops, Processed, Closed, Report,
     AnalysisEnded, vars, Ended
<1>2. TypeOK'
  BY <1>1 DEF IInv, TypeOK
<1>3. Handed' /\ Closing'
  BY <1>1 DEF IInv, Handed, Closing, ImportFails, Import, Matched, ScanStops, Processed, Closed,
     Closable, Report, AnalysisEnded, Ended, vars
<1>4. OpenIsToClose'
  BY <1>1 DEF IInv, OpenIsToClose
<1>5. LastOfRows' /\ DeltasOfRows'
  BY <1>1, RowsKept DEF IInv
<1>6. QED
  BY <1>2, <1>3, <1>4, <1>5 DEF IInv

LEMMA StepMatch ==
  ASSUME IInv, NEW t \in Topics, MatchTopic(t)
  PROVE  IInv'
<1>1. PICK matching \in {{}, { p \in enabled : Matches(p, t) }} :
        handlers' = [handlers EXCEPT ![t] = matching]
  BY DEF MatchTopic
<1>2. matching \subseteq enabled /\ enabled \subseteq Plugins
  BY DEF IInv, TypeOK
<1>3. \A u \in Topics : handlers'[u] = IF u = t THEN matching ELSE handlers[u]
  BY <1>1 DEF IInv, TypeOK
<1>4. /\ UNCHANGED <<pc, configVars, read, todo, failed, rosoutVars, rateVars, open, toClose>>
      /\ unmatched' = unmatched \ {t}
  BY DEF MatchTopic
<1>5. TypeOK'
  BY <1>1, <1>2, <1>4 DEF IInv, TypeOK
<1>6. Handed'
  BY <1>2, <1>3, <1>4 DEF IInv, Handed
<1>7. Closing' /\ OpenIsToClose'
  BY <1>4 DEF IInv, Closing, OpenIsToClose
<1>8. LastOfRows' /\ DeltasOfRows'
  BY <1>4, RowsKept DEF IInv
<1>9. QED
  BY <1>5, <1>6, <1>7, <1>8 DEF IInv

LEMMA StepRead ==
  ASSUME IInv, NEW m \in Message, ReadNext(m)
  PROVE  IInv'
<1>1. /\ UNCHANGED <<configVars, matchVars, failed, rosoutVars, rateVars, open, toClose>>
      /\ pc = "read" /\ pc' = "process" /\ todo' = handlers[m.topic] \ failed
      /\ read' = Append(read, m) /\ Len(read) < MaxMessages
  BY DEF ReadNext
<1>2. read \in Seq(Message) /\ Len(read) \in Nat /\ MaxMessages \in Nat
  BY BoundsAssumption DEF IInv, TypeOK
<1>3. read' \in Seq(Message) /\ Len(read') = Len(read) + 1 /\ read' # <<>>
  BY <1>1, <1>2
<1>4. m.topic \in Topics
  BY DEF Message
<1>5. todo' \subseteq enabled /\ enabled \subseteq Plugins
  BY <1>1, <1>4 DEF IInv, Handed, TypeOK
<1>6. Len(read') <= MaxMessages
  BY <1>1, <1>2, <1>3
<1>7. TypeOK'
  BY <1>1, <1>3, <1>5, <1>6 DEF IInv, TypeOK
<1>8. Handed' /\ Closing' /\ OpenIsToClose'
  BY <1>1, <1>3, <1>5 DEF IInv, Handed, Closing, OpenIsToClose
<1>9. LastOfRows' /\ DeltasOfRows'
  BY <1>1, RowsKept DEF IInv
<1>10. QED
  BY <1>7, <1>8, <1>9 DEF IInv

\* A plugin that has its turn is enabled, and closed later.
LEMMA TurnOf ==
  ASSUME IInv, NEW p, Turn(p)
  PROVE  /\ p \in Plugins /\ p \in toClose /\ toClose = enabled
         /\ Len(read) \in 1..MaxMessages /\ Current \in Message
<1>1. p \in todo /\ pc = "process"
  BY DEF Turn
<1>2. p \in Plugins /\ p \in toClose /\ toClose = enabled
  BY <1>1 DEF IInv, TypeOK, Handed, Closing
<1>3. read # <<>> /\ read \in Seq(Message) /\ Len(read) <= MaxMessages /\ MaxMessages \in Nat
  BY <1>1, BoundsAssumption DEF IInv, TypeOK, Handed
<1>4. QED
  BY <1>2, <1>3 DEF Current

LEMMA StepRosout ==
  ASSUME IInv, OpenTextFails \/ ProcessRosout
  PROVE  IInv'
<1>1. /\ UNCHANGED <<pc, configVars, matchVars, read, rateVars, toClose>>
      /\ Turn("rosout") /\ \E raises \in BOOLEAN : After("rosout", raises)
  BY DEF OpenTextFails, ProcessRosout
<1>2. /\ "rosout" \in Plugins /\ "rosout" \in toClose /\ Len(read) \in 1..MaxMessages
  BY <1>1, TurnOf
<1>3. todo' = todo \ {"rosout"} /\ failed' \subseteq Plugins
  BY <1>1, <1>2 DEF After, IInv, TypeOK
<1>4. /\ open' \subseteq open \cup {"rosout"}
      /\ counted' \in Nat /\ text' \in Seq(1..MaxMessages)
  <2>1. text \in Seq(1..MaxMessages) /\ counted \in Nat
    BY DEF IInv, TypeOK
  <2>2. CASE OpenTextFails
    BY <2>1, <2>2 DEF OpenTextFails
  <2>3. CASE ProcessRosout
    <3>1. Append(text, Len(read)) \in Seq(1..MaxMessages)
      BY <1>2, <2>1
    <3>2. text' \in {text, Append(text, Len(read))} /\ counted' = counted + 1
      BY <2>3 DEF ProcessRosout
    <3>3. open' = open \cup {"rosout"}
      BY <2>3 DEF ProcessRosout
    <3>4. text' \in Seq(1..MaxMessages)
      BY <2>1, <3>1, <3>2
    <3>5. counted' \in Nat
      BY <2>1, <3>2
    <3>6. QED
      BY <3>3, <3>4, <3>5
  <2>4. QED
    BY <2>2, <2>3
<1>5. TypeOK'
  BY <1>1, <1>3, <1>4 DEF IInv, TypeOK
<1>6. Handed' /\ Closing'
  BY <1>1, <1>3 DEF IInv, Handed, Closing
<1>7. OpenIsToClose'
  BY <1>1, <1>2, <1>4 DEF IInv, OpenIsToClose, FilesOf
<1>8. LastOfRows' /\ DeltasOfRows'
  BY <1>1, RowsKept DEF IInv
<1>9. QED
  BY <1>5, <1>6, <1>7, <1>8 DEF IInv

\* A rate keeps the figures of a topic what they are, the stamp is the last, and
\* a positive interval is counted.
LEMMA MeasuredType ==
  ASSUME NEW s \in Stats, NEW stamp \in 1..MaxStamp
  PROVE  /\ Measured(s, stamp) \in Stats /\ Measured(s, stamp).last = stamp
         /\ Measured(s, stamp).count =
              IF s.last # NoStamp /\ stamp > s.last THEN s.count + 1 ELSE s.count
<1>1. ASSUME NEW rate \in Int
      PROVE  Sampled(s, rate) \in Stats /\ Sampled(s, rate).count = s.count + 1
  <2> DEFINE n == s.count + 1
             step == (rate - s.mean) \div n
             mean == s.mean + step
  <2>1. s.count \in Nat /\ s.mean \in Int /\ s.m2 \in Int /\ s.last \in 1..MaxStamp \cup {NoStamp}
    BY DEF Stats
  <2>2. n \in Nat \ {0}
    BY <2>1
  <2>3. step \in Int
    BY <2>1, <2>2
  <2> HIDE DEF step
  <2>4. mean \in Int
    BY <2>1, <2>3
  <2> HIDE DEF mean
  <2>5. s.m2 + (rate - s.mean) * (rate - mean) \in Int
    BY <2>1, <2>4
  <2>6. Sampled(s, rate) = [last |-> s.last, count |-> n, mean |-> mean,
                            m2 |-> s.m2 + (rate - s.mean) * (rate - mean)]
    BY DEF Sampled, mean, step
  <2>7. QED
    BY <2>1, <2>2, <2>4, <2>5, <2>6 DEF Stats
<1> DEFINE interval == stamp - s.last
           sampled == IF s.last # NoStamp /\ interval > 0
                        THEN Sampled(s, RateUnit \div interval) ELSE s
<1>2. /\ sampled \in Stats
      /\ sampled.count = IF s.last # NoStamp /\ stamp > s.last THEN s.count + 1 ELSE s.count
  <2>0. stamp \in Int /\ (s.last # NoStamp => s.last \in Int)
    BY StampsAssumption DEF Stats
  <2>1. CASE s.last # NoStamp /\ interval > 0
    <3>1. s.last \in 1..MaxStamp /\ RateUnit \in Nat /\ MaxStamp \in Nat
      BY <2>1, BoundsAssumption, StampsAssumption DEF Stats
    <3>2. interval \in Nat \ {0} /\ stamp > s.last
      BY <2>1, <3>1
    <3> HIDE DEF interval
    <3>3. RateUnit \div interval \in Int
      BY <3>1, <3>2
    <3>4. sampled = Sampled(s, RateUnit \div interval)
      BY <2>1
    <3>5. QED
      BY <1>1, <2>1, <3>2, <3>3, <3>4
  <2>2. CASE ~(s.last # NoStamp /\ interval > 0)
    BY <2>0, <2>2
  <2>3. QED
    BY <2>1, <2>2
<1>3. Measured(s, stamp) = [sampled EXCEPT !.last = stamp]
  BY DEF Measured
<1> HIDE DEF sampled
<1>4. QED
  BY <1>2, <1>3 DEF Stats

\* A message without a stamp, or one whose row cannot be written.
LEMMA StepNoRow ==
  ASSUME IInv, ProcessUnstamped \/ ProcessRateFails
  PROVE  IInv'
<1>1. /\ UNCHANGED <<pc, configVars, matchVars, read, rosoutVars, csv, deltas, stats, toClose>>
      /\ Turn("rate") /\ \E raises \in BOOLEAN : After("rate", raises)
      /\ index' = [index EXCEPT ![Current.topic] = @ + 1]
      /\ open' \subseteq open \cup {Current.topic}
  BY DEF ProcessUnstamped, ProcessRateFails
<1>2. "rate" \in Plugins /\ "rate" \in toClose /\ Current.topic \in Topics
  BY <1>1, TurnOf DEF Message
<1>3. todo' = todo \ {"rate"} /\ failed' \subseteq Plugins
  BY <1>1, <1>2 DEF After, IInv, TypeOK
<1>4. index' \in [Topics -> Nat]
  BY <1>1, <1>2 DEF IInv, TypeOK
<1>5. TypeOK'
  BY <1>1, <1>2, <1>3, <1>4 DEF IInv, TypeOK
<1>6. Handed' /\ Closing'
  BY <1>1, <1>3 DEF IInv, Handed, Closing
<1>7. OpenIsToClose'
  BY <1>1, <1>2 DEF IInv, OpenIsToClose, FilesOf
<1>8. LastOfRows' /\ DeltasOfRows'
  BY <1>1, RowsKept DEF IInv
<1>9. QED
  BY <1>5, <1>6, <1>7, <1>8 DEF IInv

Row == [index : Nat, stamp : 1..MaxStamp]
PositiveOf(rows) == {i \in 2..Len(rows) : rows[i].stamp > rows[i-1].stamp}

\* A row adds an interval to the positive ones, or it does not.
LEMMA PositiveAppended ==
  ASSUME NEW rows \in Seq(Row), NEW row \in Row
  PROVE  Cardinality(PositiveOf(Append(rows, row))) =
           IF rows # <<>> /\ row.stamp > rows[Len(rows)].stamp
             THEN Cardinality(PositiveOf(rows)) + 1 ELSE Cardinality(PositiveOf(rows))
<1> DEFINE n == Len(rows)
           new == Append(rows, row)
           more == rows # <<>> /\ row.stamp > rows[n].stamp
<1>1. /\ n \in Nat /\ Len(new) = n + 1 /\ new[n + 1] = row
      /\ \A i \in 1..n : new[i] = rows[i]
      /\ rows # <<>> <=> n # 0
  OBVIOUS
<1> HIDE DEF new, n
<1>2. IsFiniteSet(PositiveOf(rows)) /\ n + 1 \notin PositiveOf(rows)
  <2>1. PositiveOf(rows) \subseteq 2..n
    BY DEF PositiveOf, n
  <2>2. IsFiniteSet(2..n)
    BY <1>1, FS_Interval
  <2>3. QED
    BY <1>1, <2>1, <2>2, FS_Subset
<1>3. \A i \in 2..n : new[i] = rows[i] /\ new[i-1] = rows[i-1]
  BY <1>1
<1>4. n # 0 => new[n] = rows[n]
  BY <1>1
<1>5. PositiveOf(new) = {i \in 2..n + 1 : new[i].stamp > new[i-1].stamp}
  BY <1>1 DEF PositiveOf
<1>6. PositiveOf(rows) = {i \in 2..n : rows[i].stamp > rows[i-1].stamp}
  BY DEF PositiveOf, n
<1>7. CASE more
  <2>1. PositiveOf(new) = PositiveOf(rows) \cup {n + 1}
    BY <1>1, <1>3, <1>4, <1>5, <1>6, <1>7
  <2>2. QED
    BY <1>2, <1>7, <2>1, FS_AddElement DEF n, new
<1>8. CASE ~more
  <2>1. PositiveOf(new) = PositiveOf(rows)
    BY <1>1, <1>3, <1>4, <1>5, <1>6, <1>8
  <2>2. QED
    BY <1>8, <2>1 DEF n, new
<1>9. QED
  BY <1>7, <1>8

LEMMA StepRow ==
  ASSUME IInv, ProcessRate
  PROVE  IInv'
<1> DEFINE t == Current.topic
           stamp == Current.stamp
           row == [index |-> index[t] + 1, stamp |-> stamp]
           rows == csv[t]
           gaps == deltas[t]
           last == stats[t].last
           newRows == Append(rows, row)
           newGaps == IF last = NoStamp THEN gaps ELSE Append(gaps, stamp - last)
<1>1. /\ UNCHANGED <<pc, configVars, matchVars, read, rosoutVars, toClose>>
      /\ Turn("rate") /\ After("rate", FALSE) /\ stamp # NoStamp
      /\ open' = open \cup {t}
      /\ index' = [index EXCEPT ![t] = @ + 1]
      /\ csv' = [csv EXCEPT ![t] = newRows]
      /\ deltas' = [deltas EXCEPT ![t] = newGaps]
      /\ stats' = [stats EXCEPT ![t] = Measured(stats[t], stamp)]
  BY DEF ProcessRate
<1>2. /\ "rate" \in Plugins /\ "rate" \in toClose
      /\ t \in Topics /\ stamp \in 1..MaxStamp
  BY <1>1, TurnOf DEF Message
<1>3. todo' = todo \ {"rate"} /\ failed' = failed
  BY <1>1 DEF After
<1>4. /\ csv \in [Topics -> Seq(Row)] /\ deltas \in [Topics -> Seq(Int)]
      /\ stats \in [Topics -> Stats] /\ index \in [Topics -> Nat]
  BY DEF IInv, TypeOK, Row
<1>5. /\ rows \in Seq(Row) /\ gaps \in Seq(Int) /\ stats[t] \in Stats
      /\ row \in Row /\ row.stamp = stamp
  <2>1. rows \in Seq(Row) /\ gaps \in Seq(Int) /\ stats[t] \in Stats /\ index[t] \in Nat
    BY <1>2, <1>4
  <2>2. row \in Row /\ row.stamp = stamp
    BY <1>2, <2>1 DEF Row
  <2>3. QED
    BY <2>1, <2>2
<1>6. /\ Measured(stats[t], stamp) \in Stats /\ Measured(stats[t], stamp).last = stamp
      /\ Measured(stats[t], stamp).count =
           IF last # NoStamp /\ stamp > last THEN stats[t].count + 1 ELSE stats[t].count
  BY <1>2, <1>5, MeasuredType
<1>7. /\ last = IF rows = <<>> THEN NoStamp ELSE rows[Len(rows)].stamp
      /\ Len(gaps) = IF rows = <<>> THEN 0 ELSE Len(rows) - 1
      /\ \A i \in 1..Len(gaps) : gaps[i] = rows[i+1].stamp - rows[i].stamp
      /\ stats[t].count = Cardinality(PositiveOf(rows))
  BY <1>2 DEF IInv, LastOfRows, DeltasOfRows, Positive, PositiveOf
<1> HIDE DEF t, stamp, row, rows, gaps, last
<1>8. /\ newRows \in Seq(Row) /\ newRows # <<>> /\ Len(newRows) = Len(rows) + 1
      /\ newRows[Len(newRows)] = row
      /\ \A i \in 1..Len(rows) : newRows[i] = rows[i]
  BY <1>5
<1>9. /\ newGaps \in Seq(Int) /\ Len(newGaps) = Len(newRows) - 1
      /\ \A i \in 1..Len(newGaps) : newGaps[i] = newRows[i+1].stamp - newRows[i].stamp
  <2> HIDE DEF newRows
  <2>1. CASE rows = <<>>
    <3>1. newGaps = gaps
      BY <1>7, <2>1
    <3>2. Len(gaps) = 0 /\ Len(newRows) = 1
      BY <1>7, <1>8, <2>1
    <3>3. QED
      BY <1>5, <3>1, <3>2
  <2>2. CASE rows # <<>>
    <3> DEFINE k == Len(rows)
    <3>1. k \in Nat \ {0} /\ rows[k] \in Row
      BY <1>5, <2>2
    <3>2. last = rows[k].stamp /\ last \in 1..MaxStamp
      BY <1>7, <2>2, <3>1 DEF Row
    <3>3. newGaps = Append(gaps, stamp - last) /\ stamp - last \in Int
      BY <1>2, <3>2, StampsAssumption
    <3>4. /\ newGaps \in Seq(Int) /\ Len(newGaps) = k /\ newGaps[k] = stamp - last
          /\ \A i \in 1..k - 1 : newGaps[i] = gaps[i]
      <4>1. Len(gaps) = k - 1
        BY <1>7, <2>2
      <4>2. QED
        BY <1>5, <3>1, <3>3, <4>1
    <3> HIDE DEF newGaps
    <3>5. ASSUME NEW i \in 1..k PROVE newGaps[i] = newRows[i+1].stamp - newRows[i].stamp
      <4>1. CASE i = k
        <5>1. newRows[k + 1] = row /\ newRows[k] = rows[k]
          BY <1>8, <3>1
        <5>2. QED
          BY <1>5, <3>2, <3>4, <4>1, <5>1
      <4>2. CASE i # k
        <5>1. i \in 1..k - 1 /\ i + 1 \in 1..k /\ i \in 1..Len(gaps)
          BY <1>7, <2>2, <3>1, <4>2
        <5>2. newRows[i + 1] = rows[i + 1] /\ newRows[i] = rows[i]
          BY <1>8, <5>1
        <5>3. QED
          BY <1>7, <3>4, <5>1, <5>2
      <4>3. QED
        BY <4>1, <4>2
    <3>6. Len(newGaps) = Len(newRows) - 1
      BY <1>8, <3>1, <3>4
    <3>7. QED
      BY <3>4, <3>5, <3>6
  <2>3. QED
    BY <2>1, <2>2
<1>9a. Measured(stats[t], stamp).count = Cardinality(PositiveOf(newRows))
  <2>1. last # NoStamp <=> rows # <<>>
    <3>1. rows # <<>> => rows[Len(rows)] \in Row
      BY <1>5
    <3>2. QED
      BY <1>7, <3>1, StampsAssumption DEF Row
  <2>2. rows # <<>> => last = rows[Len(rows)].stamp
    BY <1>7
  <2>3. QED
    BY <1>5, <1>6, <1>7, <2>1, <2>2, PositiveAppended
<1> HIDE DEF newRows, newGaps
<1>10. TypeOK'
  <2>1. csv' \in [Topics -> Seq(Row)] /\ deltas' \in [Topics -> Seq(Int)]
    BY <1>1, <1>4, <1>8, <1>9
  <2>2. stats' \in [Topics -> Stats]
    BY <1>1, <1>4, <1>6
  <2>3. index' \in [Topics -> Nat]
    BY <1>1, <1>2, <1>4
  <2>4. todo' \subseteq Plugins /\ open' \subseteq Topics \cup {"rosout"}
    BY <1>1, <1>2, <1>3 DEF IInv, TypeOK
  <2>5. UNCHANGED <<pc, configVars, matchVars, read, failed, rosoutVars, toClose>>
    BY <1>1, <1>3
  <2>6. QED
    BY <2>1, <2>2, <2>3, <2>4, <2>5 DEF IInv, TypeOK, Row
<1>11. Handed' /\ Closing'
  BY <1>1, <1>3 DEF IInv, Handed, Closing
<1>12. OpenIsToClose'
  BY <1>1, <1>2 DEF IInv, OpenIsToClose, FilesOf
<1>13. ASSUME NEW u \in Topics
       PROVE  /\ stats'[u].last = IF csv'[u] = <<>> THEN NoStamp ELSE csv'[u][Len(csv'[u])].stamp
              /\ Len(deltas'[u]) = IF csv'[u] = <<>> THEN 0 ELSE Len(csv'[u]) - 1
              /\ \A i \in 1..Len(deltas'[u]) :
                   deltas'[u][i] = csv'[u][i+1].stamp - csv'[u][i].stamp
              /\ stats'[u].count = Cardinality(PositiveOf(csv'[u]))
  <2>1. CASE u = t
    <3>1. csv'[u] = newRows /\ deltas'[u] = newGaps /\ stats'[u] = Measured(stats[t], stamp)
      BY <1>1, <1>2, <1>4, <2>1
    <3>2. QED
      BY <1>5, <1>6, <1>8, <1>9, <1>9a, <3>1
  <2>2. CASE u # t
    <3>1. csv'[u] = csv[u] /\ deltas'[u] = deltas[u] /\ stats'[u] = stats[u]
      BY <1>1, <1>4, <2>2
    <3>2. QED
      BY <3>1 DEF IInv, LastOfRows, DeltasOfRows, Positive, PositiveOf
  <2>3. QED
    BY <2>1, <2>2
<1>14. LastOfRows' /\ DeltasOfRows'
  BY <1>13 DEF LastOfRows, DeltasOfRows, Positive, PositiveOf
<1>15. QED
  BY <1>10, <1>11, <1>12, <1>14 DEF IInv

\* A plugin that is closed has no file open any more; one that raises stays.
LEMMA StepClose ==
  ASSUME IInv, NEW p \in Plugins, ClosePlugin(p)
  PROVE  IInv'
<1>1. /\ UNCHANGED <<configVars, matchVars, read, todo, failed, rosoutVars, rateVars>>
      /\ pc = "close"
      /\ \/ open' = open \ FilesOf(p) /\ toClose' = toClose \ {p} /\ pc' = pc
         \/ open' = open /\ toClose' = toClose /\ pc' = "raised"
  BY DEF ClosePlugin
<1>2. TypeOK'
  BY <1>1 DEF IInv, TypeOK, Ended
<1>3. Handed' /\ Closing'
  BY <1>1 DEF IInv, Handed, Closing
<1>4. OpenIsToClose'
  BY <1>1 DEF IInv, OpenIsToClose
<1>5. LastOfRows' /\ DeltasOfRows'
  BY <1>1, RowsKept DEF IInv
<1>6. QED
  BY <1>2, <1>3, <1>4, <1>5 DEF IInv

LEMMA IInvStep == IInv /\ [Next]_vars => IInv'
<1> SUFFICES ASSUME IInv, [Next]_vars PROVE IInv'
  OBVIOUS
<1>1. CASE UNCHANGED vars
  BY <1>1 DEF vars, IInv, TypeOK, Handed, Closing, OpenIsToClose, LastOfRows, DeltasOfRows,
     Positive
<1>2. CASE Next
  BY <1>2, StepOutside, StepMatch, StepRead, StepRosout, StepNoRow, StepRow, StepClose
     DEF Next, Scan
<1>3. QED
  BY <1>1, <1>2

LEMMA IInvHolds == Spec => []IInv
BY IInvInit, IInvStep, PTL DEF Spec

-----------------------------------------------------------------------------
(* One plugin's failure and the other's output.                            *)

\* A message that comes after those handled so far has the next place, and
\* leaves theirs as they are.
LEMMA PlaceGrown ==
  ASSUME NEW k \in Nat \ {0}, NEW handled \in SUBSET (1..k-1)
  PROVE  /\ Cardinality(handled) \in Nat
         /\ Cardinality(handled \cup {k}) = Cardinality(handled) + 1
         /\ Place(handled \cup {k}, k) = Cardinality(handled) + 1
         /\ \A i \in handled : /\ Place(handled \cup {k}, i) = Place(handled, i)
                               /\ Place(handled, i) \in 1..Cardinality(handled)
<1>1. IsFiniteSet(handled)
  <2>1. IsFiniteSet(1..k-1)
    BY FS_Interval
  <2>2. QED
    BY <2>1, FS_Subset
<1>2. Cardinality(handled) \in Nat
  BY <1>1, FS_CardinalityType
<1>3. Cardinality(handled \cup {k}) = Cardinality(handled) + 1
  <2>1. k \notin handled
    OBVIOUS
  <2>2. QED
    BY <1>1, <2>1, FS_AddElement
<1>4. Place(handled \cup {k}, k) = Cardinality(handled) + 1
  <2>1. \A j \in handled \cup {k} : j <= k
    OBVIOUS
  <2>2. {j \in handled \cup {k} : j <= k} = handled \cup {k}
    BY <2>1
  <2>3. QED
    BY <1>3, <2>2 DEF Place
<1>5. ASSUME NEW i \in handled
      PROVE  /\ Place(handled \cup {k}, i) = Place(handled, i)
             /\ Place(handled, i) \in 1..Cardinality(handled)
  <2> DEFINE upTo == {j \in handled : j <= i}
  <2>1. {j \in handled \cup {k} : j <= i} = upTo
    OBVIOUS
  <2>2. upTo \subseteq handled /\ i \in upTo
    OBVIOUS
  <2>3. IsFiniteSet(upTo) /\ Cardinality(upTo) <= Cardinality(handled)
    BY <1>1, <2>2, FS_Subset
  <2>4. Cardinality(upTo) \in Nat /\ Cardinality(upTo) # 0
    BY <2>2, <2>3, FS_CardinalityType, FS_EmptySet
  <2>5. Place(handled, i) = Cardinality(upTo)
    BY DEF Place
  <2> HIDE DEF upTo
  <2>6. QED
    BY <1>2, <2>1, <2>3, <2>4, <2>5 DEF Place
<1>6. QED
  BY <1>2, <1>3, <1>4, <1>5

\* What lists all numbers so far lists a first part of more of them.
LEMMA ListsGrown ==
  ASSUME NEW list, NEW numbers \in SUBSET Int, NEW all \in BOOLEAN, NEW n \in Int,
         Lists(list, numbers, all), \A m \in numbers : m < n
  PROVE  Lists(list, numbers \cup {n}, FALSE)
<1>1. \A i \in DOMAIN list : list[i] \in numbers /\ list[i] \in Int /\ list[i] < n
  BY DEF Lists
<1>2. ASSUME NEW m \in numbers \cup {n}, NEW i \in DOMAIN list, m < list[i]
      PROVE  \E j \in DOMAIN list : list[j] = m
  <2>1. m \in numbers
    BY <1>1, <1>2
  <2>2. QED
    BY <1>2, <2>1 DEF Lists
<1>3. QED
  BY <1>1, <1>2 DEF Lists

LEMMA ListsFirst ==
  ASSUME NEW list, NEW numbers, NEW all \in BOOLEAN, Lists(list, numbers, all)
  PROVE  Lists(list, numbers, FALSE)
BY DEF Lists

\* One more number at the end of a list of all of them.
LEMMA ListsAppended ==
  ASSUME NEW k \in Nat, NEW list, NEW longer, NEW numbers \in SUBSET Int, NEW n \in Int,
         DOMAIN list = 1..k, DOMAIN longer = 1..k+1,
         \A i \in 1..k : longer[i] = list[i], longer[k+1] = n,
         Lists(list, numbers, TRUE), \A m \in numbers : m < n
  PROVE  Lists(longer, numbers \cup {n}, TRUE)
<1>1. \A i \in 1..k : list[i] \in numbers
  BY DEF Lists
<1>2. ASSUME NEW i \in 1..k+1, NEW j \in 1..k+1, i < j
      PROVE  longer[i] < longer[j]
  <2>1. i \in 1..k
    BY <1>2
  <2>2. CASE j = k+1
    BY <1>1, <2>1, <2>2
  <2>3. CASE j # k+1
    <3>1. j \in 1..k
      BY <2>3
    <3>2. QED
      BY <1>2, <2>1, <3>1 DEF Lists
  <2>4. QED
    BY <2>2, <2>3
<1>3. ASSUME NEW i \in 1..k+1
      PROVE  longer[i] \in numbers \cup {n}
  <2>1. CASE i = k+1
    BY <2>1
  <2>2. CASE i # k+1
    BY <1>1, <2>2
  <2>3. QED
    BY <2>1, <2>2
<1>4. ASSUME NEW m \in numbers \cup {n}
      PROVE  \E i \in 1..k+1 : longer[i] = m
  <2>1. CASE m = n
    BY <2>1
  <2>2. CASE m # n
    <3>1. PICK i \in 1..k : list[i] = m
      BY <2>2 DEF Lists
    <3>2. i \in 1..k+1 /\ longer[i] = m
      BY <3>1
    <3>3. QED
      BY <3>2
  <2>3. QED
    BY <2>1, <2>2
<1>5. QED
  BY <1>2, <1>3, <1>4 DEF Lists

\* The rows say the same of messages that are read alike where they are handled.
LEMMA RowsSame ==
  ASSUME NEW rows, NEW handled, NEW messages, NEW more, NEW all,
         \A i \in handled : more[i] = messages[i], RowsOf(rows, handled, messages, all)
  PROVE  RowsOf(rows, handled, more, all)
<1>1. Stamped(handled, more) = Stamped(handled, messages)
  BY DEF Stamped
<1>2. \A i \in Stamped(handled, more) : more[i] = messages[i]
  BY DEF Stamped
<1>3. QED
  BY <1>1, <1>2 DEF RowsOf

LEMMA RowsFirst ==
  ASSUME NEW rows, NEW handled, NEW messages, NEW all \in BOOLEAN,
         RowsOf(rows, handled, messages, all)
  PROVE  RowsOf(rows, handled, messages, FALSE)
BY ListsFirst DEF RowsOf

\* The numbers of the messages with a stamp, when one more is handled.
LEMMA NumbersGrown ==
  ASSUME NEW k \in Nat \ {0}, NEW handled \in SUBSET (1..k-1), NEW messages
  PROVE  LET numbers == {Place(handled, i) : i \in Stamped(handled, messages)}
             grown   == {Place(handled \cup {k}, i) : i \in Stamped(handled \cup {k}, messages)}
         IN  /\ numbers \subseteq 1..Cardinality(handled)
             /\ messages[k].stamp = NoStamp => grown = numbers
             /\ messages[k].stamp # NoStamp => grown = numbers \cup {Cardinality(handled) + 1}
<1> DEFINE old == Stamped(handled, messages)
           new == Stamped(handled \cup {k}, messages)
<1>1. old \subseteq handled
  BY DEF Stamped
<1>2. \A i \in old : /\ Place(handled \cup {k}, i) = Place(handled, i)
                     /\ Place(handled, i) \in 1..Cardinality(handled)
  BY <1>1, PlaceGrown
<1>3. Place(handled \cup {k}, k) = Cardinality(handled) + 1
  BY PlaceGrown
<1>4. messages[k].stamp = NoStamp => new = old
  BY DEF Stamped
<1>5. messages[k].stamp # NoStamp => new = old \cup {k}
  BY DEF Stamped
<1> HIDE DEF old, new
<1>6. {Place(handled, i) : i \in old} \subseteq 1..Cardinality(handled)
  BY <1>2
<1>7. messages[k].stamp = NoStamp =>
        {Place(handled \cup {k}, i) : i \in new} = {Place(handled, i) : i \in old}
  BY <1>2, <1>4
<1>8. messages[k].stamp # NoStamp =>
        {Place(handled \cup {k}, i) : i \in new} =
        {Place(handled, i) : i \in old} \cup {Cardinality(handled) + 1}
  BY <1>2, <1>3, <1>5
<1>9. QED
  BY <1>6, <1>7, <1>8 DEF old, new

\* Rows that are those of the messages handled so far are a first part of those
\* of one message more, and all of them if it has no stamp.
LEMMA RowsGrown ==
  ASSUME NEW k \in Nat \ {0}, NEW handled \in SUBSET (1..k-1), NEW messages,
         NEW rows, NEW all \in BOOLEAN, RowsOf(rows, handled, messages, all)
  PROVE  /\ RowsOf(rows, handled \cup {k}, messages, FALSE)
         /\ messages[k].stamp = NoStamp => RowsOf(rows, handled \cup {k}, messages, all)
<1> DEFINE list == [q \in DOMAIN rows |-> rows[q].index]
           numbers == {Place(handled, i) : i \in Stamped(handled, messages)}
           grown == {Place(handled \cup {k}, i) : i \in Stamped(handled \cup {k}, messages)}
           size == Cardinality(handled)
<1>1. /\ numbers \subseteq 1..size
      /\ messages[k].stamp = NoStamp => grown = numbers
      /\ messages[k].stamp # NoStamp => grown = numbers \cup {size + 1}
  BY NumbersGrown
<1>2. /\ Lists(list, numbers, all)
      /\ \A q \in DOMAIN rows, i \in Stamped(handled, messages) :
           rows[q].index = Place(handled, i) => rows[q].stamp = messages[i].stamp
  BY DEF RowsOf
<1>3. size \in Nat
  BY PlaceGrown
<1> HIDE DEF numbers, grown, size
<1>4. \A q \in DOMAIN rows : rows[q].index \in 1..size
  <2>1. \A q \in DOMAIN list : list[q] \in numbers
    BY <1>2 DEF Lists
  <2>2. QED
    BY <1>1, <2>1
<1> HIDE DEF list
<1>5. ASSUME NEW q \in DOMAIN rows, NEW i \in Stamped(handled \cup {k}, messages),
             rows[q].index = Place(handled \cup {k}, i)
      PROVE  rows[q].stamp = messages[i].stamp
  <2>1. i # k
    BY <1>3, <1>4, <1>5, PlaceGrown DEF size
  <2>2. i \in Stamped(handled, messages) /\ i \in handled
    BY <2>1 DEF Stamped
  <2>3. Place(handled \cup {k}, i) = Place(handled, i)
    BY <2>2, PlaceGrown
  <2>4. QED
    BY <1>2, <1>5, <2>2, <2>3
<1>6. Lists(list, grown, FALSE)
  <2>1. CASE messages[k].stamp = NoStamp
    BY <1>1, <1>2, <2>1, ListsFirst
  <2>2. CASE messages[k].stamp # NoStamp
    <3>1. numbers \in SUBSET Int /\ size + 1 \in Int /\ \A m \in numbers : m < size + 1
      BY <1>1, <1>3
    <3> DEFINE next == size + 1
    <3> HIDE DEF next
    <3>2. Lists(list, numbers \cup {next}, FALSE)
      <4>1. next \in Int /\ \A m \in numbers : m < next
        BY <3>1 DEF next
      <4>2. QED
        BY <1>2, <3>1, <4>1, ListsGrown
    <3>3. QED
      BY <1>1, <2>2, <3>2 DEF next
  <2>3. QED
    BY <2>1, <2>2
<1>7. messages[k].stamp = NoStamp => Lists(list, grown, all)
  BY <1>1, <1>2
<1>8. QED
  BY <1>5, <1>6, <1>7 DEF RowsOf, list, grown

\* A message with a stamp adds a row with its number and its stamp.
LEMMA RowsAppended ==
  ASSUME NEW k \in Nat \ {0}, NEW handled \in SUBSET (1..k-1), NEW messages,
         NEW rows \in Seq(Row), NEW row \in Row, RowsOf(rows, handled, messages, TRUE),
         messages[k].stamp # NoStamp,
         row.index = Cardinality(handled) + 1, row.stamp = messages[k].stamp
  PROVE  RowsOf(Append(rows, row), handled \cup {k}, messages, TRUE)
<1> DEFINE longer == Append(rows, row)
           list == [q \in DOMAIN rows |-> rows[q].index]
           list2 == [q \in DOMAIN longer |-> longer[q].index]
           numbers == {Place(handled, i) : i \in Stamped(handled, messages)}
           grown == {Place(handled \cup {k}, i) : i \in Stamped(handled \cup {k}, messages)}
           size == Cardinality(handled)
           n == Len(rows)
<1>1. /\ n \in Nat /\ DOMAIN rows = 1..n /\ DOMAIN longer = 1..n+1
      /\ longer[n+1] = row /\ \A q \in 1..n : longer[q] = rows[q]
  OBVIOUS
<1> HIDE DEF longer, n
<1>2. numbers \subseteq 1..size /\ grown = numbers \cup {size + 1}
  BY NumbersGrown
<1>3. size \in Nat
  BY PlaceGrown
<1>4. /\ Lists(list, numbers, TRUE)
      /\ \A q \in DOMAIN rows, i \in Stamped(handled, messages) :
           rows[q].index = Place(handled, i) => rows[q].stamp = messages[i].stamp
  BY DEF RowsOf
<1> HIDE DEF numbers, grown
<1>5. /\ DOMAIN list = 1..n /\ DOMAIN list2 = 1..n+1 /\ list2[n+1] = size + 1
      /\ \A q \in 1..n : list2[q] = list[q]
  <2>1. n + 1 \in 1..n+1 /\ \A q \in 1..n : q \in 1..n+1
    BY <1>1
  <2>2. DOMAIN list = 1..n /\ DOMAIN list2 = 1..n+1 /\ list2[n+1] = size + 1
    BY <1>1, <2>1
  <2>3. QED
    BY <1>1, <2>1, <2>2
<1> HIDE DEF size
<1>6. \A q \in 1..n : list[q] \in numbers
  BY <1>4, <1>5 DEF Lists
<1>7. \A q \in 1..n : rows[q].index \in 1..size
  BY <1>1, <1>2, <1>6
<1> HIDE DEF list
<1>8. Lists(list2, grown, TRUE)
  <2> HIDE DEF list2
  <2>1. numbers \in SUBSET Int /\ size + 1 \in Int /\ \A m \in numbers : m < size + 1
    BY <1>2, <1>3
  <2>2. Lists(list2, numbers \cup {size + 1}, TRUE)
    BY <1>1, <1>4, <1>5, <2>1, ListsAppended
  <2>3. QED
    BY <1>2, <2>2
<1>9. ASSUME NEW q \in DOMAIN longer, NEW i \in Stamped(handled \cup {k}, messages),
             longer[q].index = Place(handled \cup {k}, i)
      PROVE  longer[q].stamp = messages[i].stamp
  <2>1. Place(handled \cup {k}, k) = size + 1
    BY PlaceGrown DEF size
  <2>2. i # k => /\ i \in Stamped(handled, messages)
                 /\ Place(handled \cup {k}, i) = Place(handled, i)
                 /\ Place(handled, i) \in 1..size
    BY PlaceGrown DEF Stamped, size
  <2>3. CASE q = n + 1
    <3>1. longer[q].index = size + 1 /\ longer[q].stamp = messages[k].stamp
      BY <1>1, <2>3 DEF size
    <3>2. i = k
      BY <1>3, <1>9, <2>2, <3>1
    <3>3. QED
      BY <3>1, <3>2
  <2>4. CASE q # n + 1
    <3>1. q \in 1..n /\ longer[q] = rows[q]
      BY <1>1, <2>4
    <3>2. i # k
      BY <1>3, <1>7, <1>9, <2>1, <3>1
    <3>3. QED
      BY <1>1, <1>4, <1>9, <2>2, <3>1, <3>2
  <2>5. QED
    BY <2>3, <2>4
<1>10. QED
  BY <1>8, <1>9 DEF RowsOf, list2, grown, longer

\* Plugins have turns only with a message that was read, and those that raised
\* have none.
Turns ==
  /\ pc # "process" => todo = {}
  /\ pc \in {"import", "match"} => read = <<>>
  /\ pc = "process" => todo \subseteq handlers[Current.topic] \ failed

\* A message index counts the messages of its topic that the plugin has seen.
Numbered ==
  "rate" \notin failed => \A t \in Topics : index[t] = Cardinality(HandledBy("rate", {t}))

ScanInv == Turns /\ Numbered /\ PluginsIsolated

\* A plugin has handled the message of its turn after it, and not before.
LEMMA HandledTurn ==
  ASSUME IInv, Turns, NEW p, Turn(p), NEW q, NEW t,
         read' = read, handlers' = handlers, todo' = todo \ {p}
  PROVE  /\ q # p => HandledBy(q, t)' = HandledBy(q, t)
         /\ Current.topic \notin t => HandledBy(p, t)' = HandledBy(p, t)
         /\ Current.topic \in t => HandledBy(p, t)' = HandledBy(p, t) \cup {Len(read)}
         /\ HandledBy(p, t) \in SUBSET (1..Len(read)-1) /\ Len(read) \in Nat \ {0}
<1> DEFINE k == Len(read)
<1>1. p \in todo /\ p \in handlers[read[k].topic]
  BY DEF Turn, Turns, Current
<1>2. k \in Nat \ {0} /\ k \in 1..k
  <2>1. k \in 1..MaxMessages /\ MaxMessages \in Nat
    BY TurnOf, BoundsAssumption
  <2>2. QED
    BY <2>1
<1> HIDE DEF k
<1>3. \A r, u : HandledBy(r, u) =
        {i \in 1..k : /\ read[i].topic \in u /\ r \in handlers[read[i].topic]
                      /\ ~(i = k /\ r \in todo)}
  BY DEF HandledBy, k
<1>4. \A r, u : HandledBy(r, u)' =
        {i \in 1..k : /\ read[i].topic \in u /\ r \in handlers[read[i].topic]
                      /\ ~(i = k /\ r \in todo \ {p})}
  BY DEF HandledBy, k
<1>5. q # p => HandledBy(q, t)' = HandledBy(q, t)
  BY <1>3, <1>4
<1>6. k \notin HandledBy(p, t)
  BY <1>1, <1>3
<1>7. read[k].topic \notin t => HandledBy(p, t)' = HandledBy(p, t)
  BY <1>3, <1>4
<1>8. read[k].topic \in t => HandledBy(p, t)' = HandledBy(p, t) \cup {k}
  BY <1>1, <1>2, <1>3, <1>4
<1>9. \A i \in HandledBy(p, t) : i \in 1..k-1
  BY <1>2, <1>3, <1>6
<1>10. QED
  BY <1>2, <1>5, <1>7, <1>8, <1>9 DEF k, Current

\* What is read is handled at once by the plugins that are skipped.
LEMMA HandledRead ==
  ASSUME IInv, Turns, NEW m \in Message, ReadNext(m), NEW p, NEW t
  PROVE  /\ HandledBy(p, t) \in SUBSET (1..Len(read)) /\ Len(read) \in Nat
         /\ p \notin failed => HandledBy(p, t)' = HandledBy(p, t)
         /\ HandledBy(p, t)' \in {HandledBy(p, t), HandledBy(p, t) \cup {Len(read) + 1}}
<1> DEFINE k == Len(read) + 1
           longer == Append(read, m)
<1>1. /\ todo = {} /\ read' = longer /\ handlers' = handlers /\ failed' = failed
      /\ todo' = handlers[m.topic] \ failed
  BY DEF ReadNext, Turns
<1>2. /\ Len(read) \in Nat /\ k \in Nat /\ Len(longer) = k /\ longer[k] = m
      /\ \A i \in 1..Len(read) : longer[i] = read[i]
  BY DEF IInv, TypeOK
<1>3. HandledBy(p, t) =
        {i \in 1..Len(read) : read[i].topic \in t /\ p \in handlers[read[i].topic]}
  BY <1>1 DEF HandledBy
<1> HIDE DEF longer
<1>4. HandledBy(p, t)' =
        {i \in 1..k : /\ longer[i].topic \in t /\ p \in handlers[longer[i].topic]
                      /\ ~(i = k /\ p \in handlers[m.topic] \ failed)}
  BY <1>1, <1>2 DEF HandledBy
<1>5. 1..k = 1..Len(read) \cup {k} /\ k \notin 1..Len(read)
  BY <1>2
<1> HIDE DEF k
<1>6. HandledBy(p, t) = HandledBy(p, t)' \ {k}
  BY <1>2, <1>3, <1>4, <1>5
<1>7. p \notin failed => k \notin HandledBy(p, t)'
  BY <1>2, <1>4
<1>8. QED
  BY <1>2, <1>3, <1>6, <1>7 DEF k

\* What has been handled, and the output, stay as they are.
LEMMA IsolatedKept ==
  ASSUME Numbered, PluginsIsolated, UNCHANGED <<read, failed, text, counted, index, csv>>,
         HandledBy("rosout", Topics)' = HandledBy("rosout", Topics),
         \A t \in Topics : HandledBy("rate", {t})' = HandledBy("rate", {t})
  PROVE  Numbered' /\ PluginsIsolated'
BY DEF Numbered, PluginsIsolated

LEMMA ScanInvOutside ==
  ASSUME IInv, ScanInv,
         \/ ImportFails \/ Import \/ Matched \/ ScanStops \/ Processed \/ Closed \/ Report
         \/ AnalysisEnded \/ (\E p \in Plugins : ClosePlugin(p)) \/ UNCHANGED vars
  PROVE  ScanInv'
<1>1. UNCHANGED <<read, handlers, todo, failed, text, counted, index, csv>>
  BY DEF ImportFails, Import, Matched, ScanStops, Processed, Closed, Report, AnalysisEnded,
     ClosePlugin, vars
<1>2. \/ pc' = pc
      \/ todo = {} /\ pc' # "process" /\ (pc' \in {"import", "match"} => pc = "import")
  BY DEF ScanInv, Turns, ImportFails, Import, Matched, ScanStops, Processed, Closed, Report,
     AnalysisEnded, ClosePlugin, vars, Ended
<1>3. Turns'
  BY <1>1, <1>2 DEF ScanInv, Turns, Current
<1>4. \A p, t : HandledBy(p, t)' = HandledBy(p, t)
  BY <1>1 DEF HandledBy
<1>5. Numbered' /\ PluginsIsolated'
  BY <1>1, <1>4, IsolatedKept DEF ScanInv
<1>6. QED
  BY <1>3, <1>5 DEF ScanInv

\* Nothing has been read while the topics are matched.
LEMMA ScanInvMatch ==
  ASSUME IInv, ScanInv, NEW u \in Topics, MatchTopic(u)
  PROVE  ScanInv'
<1>1. /\ pc = "match" /\ read = <<>>
      /\ UNCHANGED <<pc, read, todo, failed, text, counted, index, csv>>
  BY DEF MatchTopic, ScanInv, Turns
<1>2. Turns'
  BY <1>1 DEF ScanInv, Turns
<1>3. \A p, t : HandledBy(p, t) = {} /\ HandledBy(p, t)' = {}
  BY <1>1 DEF HandledBy
<1>4. Numbered' /\ PluginsIsolated'
  BY <1>1, <1>3, IsolatedKept DEF ScanInv
<1>5. QED
  BY <1>2, <1>4 DEF ScanInv

LEMMA ScanInvRead ==
  ASSUME IInv, ScanInv, NEW m \in Message, ReadNext(m)
  PROVE  ScanInv'
<1> DEFINE k == Len(read) + 1
<1>1. /\ UNCHANGED <<handlers, failed, text, counted, index, csv>>
      /\ pc' = "process" /\ todo' = handlers[m.topic] \ failed /\ read' = Append(read, m)
  BY DEF ReadNext
<1>2. /\ k \in Nat \ {0} /\ Len(read') = k /\ read'[k] = m
      /\ \A i \in 1..k-1 : read'[i] = read[i]
  BY <1>1 DEF IInv, TypeOK
<1>3. Turns'
  BY <1>1, <1>2 DEF Turns, Current
<1>4. ASSUME NEW p, NEW t
      PROVE  /\ HandledBy(p, t) \in SUBSET (1..k-1)
             /\ p \notin failed => HandledBy(p, t)' = HandledBy(p, t)
             /\ HandledBy(p, t)' \in {HandledBy(p, t), HandledBy(p, t) \cup {k}}
  <2>1. k - 1 = Len(read)
    BY DEF IInv, TypeOK
  <2>2. QED
    BY <2>1, HandledRead DEF ScanInv
<1> HIDE DEF k
<1>5. Numbered'
  BY <1>1, <1>4 DEF ScanInv, Numbered
<1>6. Lists(text, HandledBy("rosout", Topics)', "rosout" \notin failed)
  <2> DEFINE old == HandledBy("rosout", Topics)
             new == HandledBy("rosout", Topics)'
  <2>1. /\ old \in SUBSET (1..k-1) /\ new \in {old, old \cup {k}}
        /\ "rosout" \notin failed => new = old
    BY <1>4
  <2>2. Lists(text, old, "rosout" \notin failed)
    BY DEF ScanInv, PluginsIsolated
  <2> HIDE DEF old, new
  <2>3. Lists(text, old \cup {k}, FALSE)
    <3>1. old \in SUBSET Int /\ k \in Int /\ \A i \in old : i < k
      BY <1>2, <2>1
    <3>2. QED
      BY <2>2, <3>1, ListsGrown
  <2>4. Lists(text, new, "rosout" \notin failed)
    BY <2>1, <2>2, <2>3
  <2>5. QED
    BY <2>4 DEF new
<1>7. ASSUME NEW t \in Topics
      PROVE  RowsOf(csv[t], HandledBy("rate", {t})', read', "rate" \notin failed)
  <2> DEFINE old == HandledBy("rate", {t})
             new == HandledBy("rate", {t})'
             rows == csv[t]
             messages == read'
  <2>1. /\ old \in SUBSET (1..k-1) /\ new \in {old, old \cup {k}}
        /\ "rate" \notin failed => new = old
    BY <1>4
  <2>2. RowsOf(rows, old, read, "rate" \notin failed)
    BY DEF ScanInv, PluginsIsolated
  <2>3. \A i \in old : messages[i] = read[i]
    BY <1>2, <2>1
  <2> HIDE DEF old, new, rows, messages
  <2>4. RowsOf(rows, old, messages, "rate" \notin failed)
    BY <2>2, <2>3, RowsSame
  <2>5. RowsOf(rows, old \cup {k}, messages, FALSE)
    BY <1>2, <2>1, <2>4, RowsGrown
  <2>6. RowsOf(rows, new, messages, "rate" \notin failed)
    BY <2>1, <2>4, <2>5
  <2>7. QED
    BY <2>6 DEF new, rows, messages
<1>8. PluginsIsolated'
  BY <1>1, <1>6, <1>7 DEF ScanInv, PluginsIsolated
<1>9. QED
  BY <1>3, <1>5, <1>8 DEF ScanInv

LEMMA ScanInvRosout ==
  ASSUME IInv, ScanInv, OpenTextFails \/ ProcessRosout
  PROVE  ScanInv'
<1> DEFINE k == Len(read)
           old == HandledBy("rosout", Topics)
           new == HandledBy("rosout", Topics)'
<1>1. /\ UNCHANGED <<pc, read, handlers, index, csv>>
      /\ Turn("rosout") /\ todo' = todo \ {"rosout"}
      /\ \/ /\ failed' = failed /\ text' = Append(text, k) /\ counted' = counted + 1
         \/ /\ failed' = failed \cup {"rosout"} /\ text' = text
            /\ counted' \in {counted, counted + 1}
  BY DEF OpenTextFails, ProcessRosout, After
<1>2. Turns /\ Numbered /\ PluginsIsolated
  BY DEF ScanInv
<1>3. "rosout" \notin failed /\ pc = "process"
  BY <1>1, <1>2 DEF Turn, Turns
<1>4. Turns'
  BY <1>1, <1>2 DEF Turns, Current
<1>5. \A t \in Topics : HandledBy("rate", {t})' = HandledBy("rate", {t})
  BY <1>1, <1>2, HandledTurn
<1>6. new = old \cup {k} /\ old \in SUBSET (1..k-1) /\ k \in Nat \ {0}
  <2>1. Current.topic \in Topics
    BY <1>1, TurnOf DEF Message
  <2>2. QED
    BY <1>1, <1>2, <2>1, HandledTurn
<1>7. /\ Lists(text, old, TRUE) /\ counted - Len(text) \in {0}
      /\ text \in Seq(1..MaxMessages) /\ counted \in Nat
  BY <1>2, <1>3 DEF PluginsIsolated, IInv, TypeOK
<1> HIDE DEF k, old, new
<1>8. old \in SUBSET Int /\ k \in Int /\ \A i \in old : i < k
  BY <1>6
<1>9. counted = Len(text) /\ Len(text) \in Nat
  BY <1>7
<1>10. /\ Lists(text', new, "rosout" \notin failed')
       /\ counted' - Len(text') \in (IF "rosout" \in failed' THEN {0, 1} ELSE {0})
  <2>1. CASE failed' = failed
    <3> DEFINE longer == Append(text, k)
               n == Len(text)
    <3>1. text' = longer /\ counted' = counted + 1
      BY <1>1, <1>3, <2>1
    <3>2. /\ n \in Nat /\ DOMAIN text = 1..n /\ DOMAIN longer = 1..n+1 /\ Len(longer) = n + 1
          /\ \A i \in 1..n : longer[i] = text[i]
          /\ longer[n+1] = k
      BY <1>7
    <3>3. counted' - Len(text') = 0
      BY <1>9, <3>1, <3>2
    <3> HIDE DEF longer, n
    <3>4. Lists(longer, old \cup {k}, TRUE)
      BY <1>7, <1>8, <3>2, ListsAppended
    <3>5. QED
      BY <1>3, <1>6, <2>1, <3>1, <3>3, <3>4
  <2>2. CASE failed' # failed
    <3>1. /\ "rosout" \in failed' /\ text' = text
          /\ counted' \in {counted, counted + 1}
      BY <1>1, <2>2
    <3>2. counted' - Len(text') \in {0, 1}
      BY <1>9, <3>1
    <3>3. Lists(text, old \cup {k}, FALSE)
      BY <1>7, <1>8, ListsGrown
    <3>4. QED
      BY <1>6, <3>1, <3>2, <3>3
  <2>3. QED
    BY <2>1, <2>2
<1>11. "rate" \in failed' <=> "rate" \in failed
  BY <1>1
<1>12. Numbered'
  BY <1>1, <1>2, <1>5, <1>11 DEF Numbered
<1>13. PluginsIsolated'
  BY <1>1, <1>2, <1>5, <1>10, <1>11 DEF PluginsIsolated, new
<1>14. QED
  BY <1>4, <1>12, <1>13 DEF ScanInv

\* The turn of the rates, as far as the output of a topic depends on it: no row
\* for a message without a stamp, none when it raises, and else one with the
\* next number.
LEMMA ScanInvRate ==
  ASSUME IInv, ScanInv, ProcessUnstamped \/ ProcessRateFails \/ ProcessRate
  PROVE  ScanInv'
<1>0. PICK u \in Topics : u = Current.topic
  BY TurnOf DEF ProcessUnstamped, ProcessRateFails, ProcessRate, Message
<1> DEFINE k == Len(read)
           old == HandledBy("rate", {u})
           new == HandledBy("rate", {u})'
           row == [index |-> index[u] + 1, stamp |-> Current.stamp]
<1>1. /\ UNCHANGED <<pc, read, handlers, text, counted>>
      /\ Turn("rate") /\ todo' = todo \ {"rate"}
      /\ index' = [index EXCEPT ![u] = index[u] + 1]
      /\ \/ failed' = failed /\ csv' = csv /\ Current.stamp = NoStamp
         \/ failed' = failed \cup {"rate"} /\ csv' = csv
         \/ /\ failed' = failed /\ csv' = [csv EXCEPT ![u] = Append(csv[u], row)]
            /\ Current.stamp # NoStamp
  BY <1>0 DEF ProcessUnstamped, ProcessRateFails, ProcessRate, After
<1>2. Turns /\ Numbered /\ PluginsIsolated
  BY DEF ScanInv
<1>3. "rate" \notin failed /\ pc = "process"
  BY <1>1, <1>2 DEF Turn, Turns
<1>4. Turns'
  BY <1>1, <1>2 DEF Turns, Current
<1>5. Current \in Message /\ Current = read[k]
  BY <1>1, TurnOf DEF Current
<1>6. HandledBy("rosout", Topics)' = HandledBy("rosout", Topics)
  BY <1>1, <1>2, HandledTurn
<1>7. \A t \in Topics \ {u} : HandledBy("rate", {t})' = HandledBy("rate", {t})
  BY <1>0, <1>1, <1>2, HandledTurn
<1>8. new = old \cup {k} /\ old \in SUBSET (1..k-1) /\ k \in Nat \ {0}
  <2>1. u \in {u}
    OBVIOUS
  <2>2. QED
    BY <1>0, <1>1, <1>2, <2>1, HandledTurn
<1>9. /\ RowsOf(csv[u], old, read, TRUE) /\ csv[u] \in Seq(Row)
      /\ index[u] = Cardinality(old) /\ index[u] \in Nat
      /\ csv \in [Topics -> Seq(Row)] /\ index \in [Topics -> Nat]
  BY <1>2, <1>3, <1>5 DEF PluginsIsolated, Numbered, IInv, TypeOK, Row
<1>10. row \in Row \/ Current.stamp = NoStamp
  BY <1>5, <1>9 DEF Message, Row
<1>11. row.index = index[u] + 1 /\ row.stamp = Current.stamp
  OBVIOUS
<1>12. "rosout" \in failed' <=> "rosout" \in failed
  BY <1>1
<1> HIDE DEF k, old, new, row
<1>13. Numbered'
  <2>1. ASSUME NEW t \in Topics
        PROVE  index'[t] = Cardinality(HandledBy("rate", {t})')
    <3>1. CASE t = u
      <4>1. index'[t] = index[u] + 1
        BY <1>1, <1>9, <3>1
      <4>2. Cardinality(new) = Cardinality(old) + 1
        BY <1>8, PlaceGrown
      <4>3. QED
        BY <1>9, <3>1, <4>1, <4>2 DEF new
    <3>2. CASE t # u
      BY <1>1, <1>2, <1>3, <1>7, <1>9, <3>2 DEF Numbered
    <3>3. QED
      BY <3>1, <3>2
  <2>2. QED
    BY <2>1 DEF Numbered
<1>14. RowsOf(csv'[u], new, read, "rate" \notin failed')
  <2>1. CASE failed' = failed /\ csv' = csv /\ Current.stamp = NoStamp
    <3>1. RowsOf(csv[u], old \cup {k}, read, TRUE)
      BY <1>5, <1>8, <1>9, <2>1, RowsGrown
    <3>2. QED
      BY <1>3, <1>8, <2>1, <3>1
  <2>2. CASE failed' = failed \cup {"rate"} /\ csv' = csv
    <3>1. RowsOf(csv[u], old \cup {k}, read, FALSE)
      BY <1>8, <1>9, RowsGrown
    <3>2. "rate" \in failed'
      BY <2>2
    <3>3. QED
      BY <1>8, <2>2, <3>1, <3>2
  <2>3. CASE /\ failed' = failed /\ csv' = [csv EXCEPT ![u] = Append(csv[u], row)]
             /\ Current.stamp # NoStamp
    <3>1. RowsOf(Append(csv[u], row), old \cup {k}, read, TRUE)
      BY <1>5, <1>8, <1>9, <1>10, <1>11, <2>3, RowsAppended
    <3>2. csv'[u] = Append(csv[u], row)
      BY <1>5, <1>9, <2>3
    <3>3. QED
      BY <1>3, <1>8, <2>3, <3>1, <3>2
  <2>4. QED
    BY <1>1, <2>1, <2>2, <2>3
<1>15. ASSUME NEW t \in Topics
       PROVE  RowsOf(csv'[t], HandledBy("rate", {t})', read, "rate" \notin failed')
  <2>1. CASE t = u
    BY <1>14, <2>1 DEF new
  <2>2. CASE t # u
    <3>1. csv'[t] = csv[t]
      BY <1>1, <1>9, <2>2
    <3>2. RowsOf(csv[t], HandledBy("rate", {t}), read, TRUE)
      BY <1>2, <1>3 DEF PluginsIsolated
    <3>3. RowsOf(csv[t], HandledBy("rate", {t}), read, FALSE)
      BY <3>2, RowsFirst
    <3>4. QED
      BY <1>7, <2>2, <3>1, <3>2, <3>3
  <2>3. QED
    BY <2>1, <2>2
<1>16. PluginsIsolated'
  BY <1>1, <1>2, <1>6, <1>12, <1>15 DEF PluginsIsolated
<1>17. QED
  BY <1>4, <1>13, <1>16 DEF ScanInv

LEMMA ScanInvInit == Init => ScanInv
<1> SUFFICES ASSUME Init PROVE ScanInv
  OBVIOUS
<1>1. Turns
  BY DEF Init, Turns
<1>2. \A p, t : HandledBy(p, t) = {}
  BY DEF Init, HandledBy
<1>3. Numbered
  BY <1>2, FS_EmptySet DEF Init, Numbered
<1>4. \A all \in BOOLEAN : Lists(<<>>, {}, all)
  BY DEF Lists
<1>5. ASSUME NEW t \in Topics, NEW all \in BOOLEAN
      PROVE  RowsOf(<<>>, {}, read, all)
  <2>1. Stamped({}, read) = {} /\ {Place({}, i) : i \in {}} = {}
    BY DEF Stamped
  <2>2. [q \in DOMAIN <<>> |-> <<>>[q].index] = <<>>
    OBVIOUS
  <2>3. QED
    BY <1>4, <2>1, <2>2 DEF RowsOf
<1>6. PluginsIsolated
  <2>1. Lists(text, {}, "rosout" \notin failed) /\ counted - Len(text) \in {0} /\ failed = {}
    <3>1. text = <<>> /\ counted = 0 /\ failed = {}
      BY DEF Init
    <3>2. "rosout" \notin failed
      BY <3>1
    <3>3. Lists(<<>>, {}, TRUE)
      BY <1>4
    <3>4. counted - Len(text) = 0
      <4>1. Len(text) = 0 /\ counted = 0
        BY <3>1
      <4>2. QED
        BY <4>1
    <3>5. QED
      BY <3>1, <3>2, <3>3, <3>4
  <2>2. \A t \in Topics : csv[t] = <<>>
    BY DEF Init
  <2>3. ("rate" \notin failed) \in BOOLEAN
    OBVIOUS
  <2>4. \A t \in Topics : RowsOf(csv[t], {}, read, "rate" \notin failed)
    BY <1>5, <2>2, <2>3
  <2>5. QED
    BY <1>2, <2>1, <2>4 DEF PluginsIsolated
<1>7. QED
  BY <1>1, <1>3, <1>6 DEF ScanInv

LEMMA ScanInvStep == IInv /\ ScanInv /\ [Next]_vars => ScanInv'
BY ScanInvOutside, ScanInvMatch, ScanInvRead, ScanInvRosout, ScanInvRate DEF Next, Scan

\* The output of a plugin is complete up to the message at which it raised, for
\* any topics, any bag and whatever the other plugin did.
THEOREM PluginsApart == Spec => []PluginsIsolated
<1>1. Spec => []ScanInv
  BY IInvHolds, ScanInvInit, ScanInvStep, PTL DEF Spec
<1>2. ScanInv => PluginsIsolated
  BY DEF ScanInv
<1>3. QED
  BY <1>1, <1>2, PTL

-----------------------------------------------------------------------------
(* The rates: their sums, and the running figures of each topic.           *)

\* A set of numbers that has the next of each below k, and 0, has k.
LEMMA Upwards ==
  ASSUME NEW k \in Nat, NEW S, 0 \in S, \A i \in 0..k-1 : i \in S => i + 1 \in S
  PROVE  \A i \in 0..k : i \in S
<1> SUFFICES ASSUME NEW j \in 0..k, j \notin S PROVE FALSE
  OBVIOUS
<1> DEFINE D == {i \in 0..k : i \notin S}
<1>1. D \subseteq Nat /\ D # {}
  OBVIOUS
<1>2. PICK d \in D : \A e \in D : ~(<<e, d>> \in OpToRel(<, Nat))
  BY <1>1, NatLessThanWellFounded, WFMin
<1>3. d \in 0..k /\ d \notin S /\ d # 0
  OBVIOUS
<1>4. d - 1 \in 0..k /\ d - 1 \notin S
  <2>1. d - 1 \in 0..k-1 /\ (d - 1) + 1 = d
    BY <1>3
  <2>2. QED
    BY <1>3, <2>1
<1>5. <<d - 1, d>> \in OpToRel(<, Nat)
  BY <1>3, <1>4 DEF OpToRel
<1>6. QED
  BY <1>2, <1>4, <1>5

\* f adds up the first n numbers of s.
Adds(f, s, n) == \A i \in 0..n : f[i] = IF i = 0 THEN 0 ELSE f[i-1] + s[i]

LEMMA AddsUnique ==
  ASSUME NEW n \in Nat, NEW f, NEW g, NEW s, NEW u, Adds(f, s, n), Adds(g, u, n),
         \A i \in 1..n : s[i] = u[i]
  PROVE  \A i \in 0..n : f[i] = g[i]
<1> DEFINE S == {i \in 0..n : f[i] = g[i]}
<1>1. 0 \in S
  BY DEF Adds
<1>2. ASSUME NEW i \in 0..n-1, i \in S
      PROVE  i + 1 \in S
  <2>1. i + 1 \in 1..n /\ i + 1 \in 0..n /\ i + 1 # 0 /\ (i + 1) - 1 = i
    OBVIOUS
  <2>2. f[i+1] = f[i] + s[i+1] /\ g[i+1] = g[i] + u[i+1]
    BY <2>1 DEF Adds
  <2>3. f[i] = g[i] /\ s[i+1] = u[i+1]
    BY <1>2, <2>1
  <2>4. QED
    BY <2>1, <2>2, <2>3
<1> HIDE DEF S
<1>3. \A i \in 0..n : i \in S
  BY <1>1, <1>2, Upwards
<1>4. QED
  BY <1>3 DEF S

LEMMA AddsExists ==
  ASSUME NEW s \in Seq(Int)
  PROVE  \E f \in [0..Len(s) -> Int] : Adds(f, s, Len(s))
<1> DEFINE k == Len(s)
           S == {n \in 0..k : \E f \in [0..n -> Int] : Adds(f, s, n)}
<1>1. k \in Nat /\ \A i \in 1..k : s[i] \in Int
  OBVIOUS
<1> HIDE DEF k
<1>2. 0 \in S
  <2> DEFINE f == [i \in 0..0 |-> 0]
  <2>1. f \in [0..0 -> Int] /\ Adds(f, s, 0)
    BY DEF Adds
  <2> HIDE DEF f
  <2>2. QED
    BY <1>1, <2>1
<1>3. ASSUME NEW n \in 0..k-1, n \in S
      PROVE  n + 1 \in S
  <2>1. PICK f \in [0..n -> Int] : Adds(f, s, n)
    BY <1>3
  <2> DEFINE g == [i \in 0..n+1 |-> IF i = n + 1 THEN f[n] + s[n+1] ELSE f[i]]
  <2>2. n \in Nat /\ n + 1 \in 1..k /\ n + 1 \in 0..k
    BY <1>1
  <2>3. f[n] + s[n+1] \in Int
    BY <1>1, <2>1, <2>2
  <2>4. g \in [0..n+1 -> Int]
    BY <2>1, <2>2, <2>3
  <2>5. ASSUME NEW i \in 0..n+1
        PROVE  g[i] = IF i = 0 THEN 0 ELSE g[i-1] + s[i]
    <3>1. CASE i = n + 1
      <4>1. g[i] = f[n] + s[n+1] /\ i - 1 = n /\ n \in 0..n+1 /\ n # n + 1 /\ i # 0
        BY <2>2, <3>1
      <4>2. g[n] = f[n]
        BY <4>1
      <4>3. QED
        BY <3>1, <4>1, <4>2
    <3>2. CASE i # n + 1
      <4>1. i \in 0..n /\ g[i] = f[i]
        BY <2>2, <3>2
      <4>2. i # 0 => i - 1 \in 0..n+1 /\ i - 1 # n + 1
        BY <2>2, <4>1
      <4>3. i # 0 => g[i-1] = f[i-1]
        BY <4>2
      <4>4. QED
        BY <2>1, <4>1, <4>3 DEF Adds
    <3>3. QED
      BY <3>1, <3>2
  <2> HIDE DEF g
  <2>6. Adds(g, s, n + 1)
    BY <2>5 DEF Adds
  <2>7. QED
    BY <2>2, <2>4, <2>6
<1> HIDE DEF S
<1>4. \A n \in 0..k : n \in S
  BY <1>1, <1>2, <1>3, Upwards
<1>5. k \in S
  BY <1>1, <1>4
<1>6. QED
  BY <1>5 DEF S, k

\* A sum is that of the numbers before the last, and the last.
LEMMA SumAdds ==
  ASSUME NEW s \in Seq(Int)
  PROVE  \E f \in [0..Len(s) -> Int] : Adds(f, s, Len(s)) /\ SumOf(s) = f[Len(s)]
<1> DEFINE k == Len(s)
           Sum(f) == f = [i \in 0..k |-> IF i = 0 THEN 0 ELSE f[i-1] + s[i]]
<1>1. SumOf(s) = (CHOOSE f : Sum(f))[k]
  BY DEF SumOf
<1>2. PICK f \in [0..k -> Int] : Adds(f, s, k)
  BY AddsExists
<1>3. Sum(f)
  BY <1>2 DEF Adds
<1> DEFINE g == CHOOSE h : Sum(h)
<1> HIDE DEF k
<1>4. Sum(g)
  BY <1>3
<1> HIDE DEF g
<1>5. Adds(g, s, k)
  BY <1>4 DEF Adds
<1>6. \A i \in 0..k : f[i] = g[i]
  <2>1. k \in Nat
    BY DEF k
  <2>2. QED
    BY <1>2, <1>5, <2>1, AddsUnique
<1>7. k \in 0..k
  BY DEF k
<1>8. SumOf(s) = f[k]
  BY <1>1, <1>6, <1>7 DEF g
<1>9. QED
  BY <1>2, <1>8 DEF k

LEMMA SumAppended ==
  ASSUME NEW s \in Seq(Int), NEW x \in Int
  PROVE  /\ SumOf(s) \in Int
         /\ SumOf(Append(s, x)) = SumOf(s) + x
<1> DEFINE n == Len(s)
           longer == Append(s, x)
<1>1. /\ longer \in Seq(Int) /\ n \in Nat /\ Len(longer) = n + 1 /\ longer[n+1] = x
      /\ \A i \in 1..n : s[i] = longer[i]
  OBVIOUS
<1> HIDE DEF longer
<1>2. PICK f \in [0..n -> Int] : Adds(f, s, n) /\ SumOf(s) = f[n]
  BY SumAdds
<1>3. PICK g \in [0..n+1 -> Int] : Adds(g, longer, n + 1) /\ SumOf(longer) = g[n+1]
  BY <1>1, SumAdds
<1> HIDE DEF n
<1>4. Adds(g, longer, n)
  BY <1>1, <1>3 DEF Adds
<1>5. \A i \in 0..n : f[i] = g[i]
  BY <1>1, <1>2, <1>4, AddsUnique
<1>6. g[n+1] = g[n] + x
  <2>1. n + 1 \in 0..n+1 /\ n + 1 # 0 /\ (n + 1) - 1 = n
    BY <1>1
  <2>2. QED
    BY <1>1, <1>3, <2>1 DEF Adds
<1>7. n \in 0..n /\ f[n] \in Int
  BY <1>1, <1>2
<1>8. QED
  BY <1>2, <1>3, <1>5, <1>6, <1>7 DEF longer

LEMMA SumEmpty == SumOf(<<>>) = 0
<1>1. PICK f \in [0..0 -> Int] : Adds(f, <<>>, 0) /\ SumOf(<<>>) = f[0]
  <2>1. <<>> \in Seq(Int) /\ Len(<<>>) = 0
    OBVIOUS
  <2>2. QED
    BY <2>1, SumAdds
<1>2. QED
  BY <1>1 DEF Adds

\* A multiple of a number is divided by it exactly.
LEMMA DivExact ==
  ASSUME NEW n \in Nat \ {0}, NEW x \in Int
  PROVE  (n * x) \div n = x
<1> DEFINE q == (n * x) \div n
           r == (n * x) % n
<1>1. n * x \in Int
  OBVIOUS
<1>2. q \in Int /\ r \in 0..n-1 /\ n * x = n * q + r
  BY <1>1
<1> HIDE DEF q, r
<1>3. n * (x - q) = r
  BY <1>2
<1>4. ~(x - q >= 1)
  <2>1. SUFFICES ASSUME x - q >= 1 PROVE FALSE
    OBVIOUS
  <2>2. n * (x - q) >= n * 1
    BY <1>2, <2>1
  <2>3. QED
    BY <1>2, <1>3, <2>2
<1>5. ~(x - q <= -1)
  <2>1. SUFFICES ASSUME x - q <= -1 PROVE FALSE
    OBVIOUS
  <2>2. n * (x - q) <= n * (-1)
    BY <1>2, <2>1
  <2>3. QED
    BY <1>2, <1>3, <2>2
<1>6. q = x
  BY <1>2, <1>4, <1>5
<1>7. QED
  BY <1>6 DEF q

LEMMA Divides ==
  ASSUME NEW n \in Nat \ {0}, NEW a \in Int, a % n = 0
  PROVE  \E q \in Int : a = n * q
<1> DEFINE q == a \div n
           r == a % n
<1>1. q \in Int /\ r \in 0..n-1 /\ a = n * q + r
  OBVIOUS
<1>2. r = 0
  OBVIOUS
<1> HIDE DEF q, r
<1>3. n * q \in Int
  BY <1>1
<1>4. QED
  BY <1>1, <1>2, <1>3

\* The running figures after one more number, when the division is exact.
LEMMA RunningFigures ==
  ASSUME NEW count \in Nat, NEW mean \in Int, NEW m2 \in Int, NEW squares \in Int,
         NEW z \in Int, NEW rate \in Int,
         m2 = squares - count * (mean * mean),
         rate = (count + 1) * z - count * mean
  PROVE  /\ rate - mean = (count + 1) * (z - mean)
         /\ m2 + (rate - mean) * (rate - z) =
              (squares + rate * rate) - (count + 1) * (z * z)
<1>1. rate - mean = (count + 1) * (z - mean)
  OBVIOUS
<1>2. rate - z = count * (z - mean)
  OBVIOUS
<1>3. (rate - mean) * (rate - z) = rate * rate - rate * z - mean * rate + mean * z
  OBVIOUS
<1>4. mean * rate = (count + 1) * (mean * z) - count * (mean * mean)
  OBVIOUS
<1>5. rate * z = (count + 1) * (z * z) - count * (mean * z)
  OBVIOUS
<1>6. (count + 1) * (mean * z) = count * (mean * z) + mean * z
  OBVIOUS
<1>7. QED
  BY <1>1, <1>3, <1>4, <1>5, <1>6

RatesIn(rows) ==
  [i \in 1..Len(rows) |->
     IF i \in PositiveOf(rows) THEN RateUnit \div (rows[i].stamp - rows[i-1].stamp) ELSE 0]
SquaresOf(s) == [i \in DOMAIN s |-> s[i] * s[i]]

\* A factor of the unit that every rate and every number of rates in a mean divides.
IsWhole(w) ==
  \E d \in 1..RateUnit : /\ RateUnit = d * w
                         /\ \A i \in 1..MaxStamp-1 : d % i = 0
                         /\ \A n \in 1..MaxMessages-1 : w % n = 0
Whole == CHOOSE w \in 1..RateUnit : IsWhole(w)

LEMMA WholeUnit ==
  /\ Whole \in Nat
  /\ \A i \in 1..MaxStamp-1 : \E q \in Int : RateUnit \div i = Whole * q
  /\ \A n \in 1..MaxMessages-1 : \E q \in Int : Whole = n * q
<1>1. Whole \in 1..RateUnit /\ IsWhole(Whole)
  <2>1. \E w \in 1..RateUnit : IsWhole(w)
    BY UnitAssumption DEF IsWhole
  <2>2. QED
    BY <2>1 DEF Whole
<1>2. PICK d \in 1..RateUnit : /\ RateUnit = d * Whole
                               /\ \A i \in 1..MaxStamp-1 : d % i = 0
                               /\ \A n \in 1..MaxMessages-1 : Whole % n = 0
  BY <1>1 DEF IsWhole
<1>3. Whole \in Int /\ d \in Int /\ Whole \in Nat
  BY <1>1, BoundsAssumption
<1>4. ASSUME NEW i \in 1..MaxStamp-1
      PROVE  \E q \in Int : RateUnit \div i = Whole * q
  <2>0. i \in Nat \ {0}
    BY StampsAssumption
  <2>1. i \in Nat \ {0} /\ d % i = 0
    BY <1>2, <2>0
  <2>2. PICK q \in Int : d = i * q
    BY <1>3, <2>1, Divides
  <2>3. RateUnit = i * (Whole * q) /\ Whole * q \in Int
    BY <1>2, <1>3, <2>1, <2>2
  <2>4. RateUnit \div i = Whole * q
    BY <2>1, <2>3, DivExact
  <2>5. QED
    BY <2>4
<1>5. ASSUME NEW n \in 1..MaxMessages-1
      PROVE  \E q \in Int : Whole = n * q
  <2>0. n \in Nat \ {0}
    BY BoundsAssumption
  <2>1. n \in Nat \ {0} /\ Whole % n = 0
    BY <1>2, <2>0
  <2>2. QED
    BY <1>3, <2>1, Divides
<1>6. QED
  BY <1>3, <1>4, <1>5

LEMMA SquaresAppended ==
  ASSUME NEW s \in Seq(Int), NEW x \in Int
  PROVE  SquaresOf(s) \in Seq(Int) /\ SquaresOf(Append(s, x)) = Append(SquaresOf(s), x * x)
<1> DEFINE n == Len(s)
           longer == Append(s, x)
           old == SquaresOf(s)
           new == SquaresOf(longer)
<1>1. /\ n \in Nat /\ DOMAIN s = 1..n /\ DOMAIN longer = 1..n+1 /\ longer[n+1] = x
      /\ \A i \in 1..n : longer[i] = s[i] /\ s[i] \in Int
  OBVIOUS
<1> HIDE DEF n, longer
<1>2. old \in Seq(Int) /\ Len(old) = n /\ \A i \in 1..n : old[i] = s[i] * s[i]
  <2>1. old = [i \in 1..n |-> s[i] * s[i]]
    BY <1>1 DEF SquaresOf
  <2>2. \A i \in 1..n : s[i] * s[i] \in Int
    BY <1>1
  <2> HIDE DEF old
  <2>3. QED
    BY <1>1, <2>1, <2>2
<1>3. new = [i \in 1..n+1 |-> longer[i] * longer[i]]
  BY <1>1 DEF SquaresOf
<1> HIDE DEF old, new
<1>4. Append(old, x * x) = [i \in 1..n+1 |-> IF i = n + 1 THEN x * x ELSE old[i]]
  BY <1>1, <1>2
<1>5. \A i \in 1..n+1 : longer[i] * longer[i] = IF i = n + 1 THEN x * x ELSE old[i]
  BY <1>1, <1>2
<1>6. new = Append(old, x * x)
  BY <1>3, <1>4, <1>5
<1>7. QED
  BY <1>2, <1>6 DEF old, new, longer

RateAfter(rows, row) ==
  IF rows # <<>> /\ row.stamp > rows[Len(rows)].stamp
    THEN RateUnit \div (row.stamp - rows[Len(rows)].stamp) ELSE 0

LEMMA RateType ==
  ASSUME NEW r \in Row, NEW q \in Row, r.stamp > q.stamp
  PROVE  RateUnit \div (r.stamp - q.stamp) \in Int
<1> DEFINE i == r.stamp - q.stamp
<1>1. i \in Nat \ {0}
  BY StampsAssumption DEF Row
<1> HIDE DEF i
<1>2. RateUnit \div i \in Int
  BY <1>1, BoundsAssumption
<1>3. QED
  BY <1>2 DEF i

LEMMA RatesType ==
  ASSUME NEW rows \in Seq(Row)
  PROVE  RatesIn(rows) \in Seq(Int) /\ Len(RatesIn(rows)) = Len(rows)
<1> DEFINE n == Len(rows)
           rates == RatesIn(rows)
<1>1. n \in Nat /\ \A i \in 1..n : rows[i] \in Row
  OBVIOUS
<1>2. ASSUME NEW i \in PositiveOf(rows)
      PROVE  i \in 1..n /\ i - 1 \in 1..n /\ rows[i].stamp > rows[i-1].stamp
  BY <1>1 DEF PositiveOf
<1>3. rates = [i \in 1..n |-> IF i \in PositiveOf(rows)
                                THEN RateUnit \div (rows[i].stamp - rows[i-1].stamp) ELSE 0]
  BY DEF RatesIn
<1> HIDE DEF n, rates
<1>4. \A i \in 1..n : rates[i] \in Int
  BY <1>1, <1>2, <1>3, RateType
<1>5. rates \in Seq(Int) /\ Len(rates) = n
  BY <1>1, <1>3, <1>4
<1>6. QED
  BY <1>5 DEF n, rates

LEMMA RatesAppended ==
  ASSUME NEW rows \in Seq(Row), NEW row \in Row
  PROVE  /\ RatesIn(rows) \in Seq(Int) /\ RateAfter(rows, row) \in Int
         /\ RatesIn(Append(rows, row)) = Append(RatesIn(rows), RateAfter(rows, row))
<1> DEFINE n == Len(rows)
           longer == Append(rows, row)
           old == RatesIn(rows)
           x == RateAfter(rows, row)
<1>1. /\ n \in Nat /\ Len(longer) = n + 1 /\ longer[n+1] = row
      /\ \A i \in 1..n : longer[i] = rows[i] /\ rows[i] \in Row
      /\ rows # <<>> <=> n # 0
  OBVIOUS
<1>2. \A r \in Row : r.stamp \in Int
  BY StampsAssumption DEF Row
<1> HIDE DEF n, longer
<1>4. x \in Int
  <2>1. rows # <<>> => rows[n] \in Row
    BY <1>1
  <2>2. QED
    BY <2>1, RateType DEF RateAfter, n
<1>6. old = [i \in 1..n |-> IF i \in PositiveOf(rows)
                              THEN RateUnit \div (rows[i].stamp - rows[i-1].stamp) ELSE 0]
  BY DEF RatesIn, n
<1>8. old \in Seq(Int) /\ Len(old) = n
  BY RatesType DEF n
<1> HIDE DEF old, x
<1>9. RatesIn(longer) =
        [i \in 1..n+1 |-> IF i \in PositiveOf(longer)
                            THEN RateUnit \div (longer[i].stamp - longer[i-1].stamp) ELSE 0]
  BY <1>1 DEF RatesIn
<1>10. ASSUME NEW i \in 1..n+1
       PROVE  (IF i \in PositiveOf(longer)
                 THEN RateUnit \div (longer[i].stamp - longer[i-1].stamp) ELSE 0) =
              IF i = n + 1 THEN x ELSE old[i]
  <2>1. i \in PositiveOf(longer) <=> i \in 2..n+1 /\ longer[i].stamp > longer[i-1].stamp
    BY <1>1 DEF PositiveOf
  <2>2. CASE i = n + 1
    <3>1. longer[i] = row /\ i - 1 = n /\ (n # 0 => longer[n] = rows[n])
      BY <1>1, <2>2
    <3>2. i \in 2..n+1 <=> n # 0
      BY <1>1, <2>2
    <3>3. QED
      BY <1>1, <2>1, <2>2, <3>1, <3>2 DEF x, RateAfter, n
  <2>3. CASE i # n + 1
    <3>1. i \in 1..n /\ longer[i] = rows[i]
      BY <1>1, <2>3
    <3>2. i \in 2..n+1 <=> i \in 2..n
      BY <1>1, <3>1
    <3>3. i \in 2..n => longer[i-1] = rows[i-1]
      BY <1>1
    <3>4. i \in PositiveOf(rows) <=> i \in 2..n /\ rows[i].stamp > rows[i-1].stamp
      BY DEF PositiveOf, n
    <3>5. QED
      BY <1>6, <2>1, <2>3, <3>1, <3>2, <3>3, <3>4
  <2>4. QED
    BY <2>2, <2>3
<1>11. Append(old, x) = [i \in 1..n+1 |-> IF i = n + 1 THEN x ELSE old[i]]
  <2> DEFINE a == Append(old, x)
  <2>1. a \in Seq(Int) /\ Len(a) = n + 1 /\ a[n+1] = x /\ \A i \in 1..n : a[i] = old[i]
    BY <1>1, <1>4, <1>8
  <2> HIDE DEF a
  <2>2. a = [i \in 1..n+1 |-> a[i]]
    BY <2>1
  <2>3. \A i \in 1..n+1 : a[i] = IF i = n + 1 THEN x ELSE old[i]
    BY <1>1, <2>1
  <2> QED
    BY <2>2, <2>3 DEF a
<1>12. RatesIn(longer) = Append(old, x)
  BY <1>9, <1>10, <1>11
<1>13. QED
  BY <1>4, <1>8, <1>12 DEF old, x, longer

\* The running figures are those of the rows: the count times the mean is the
\* sum of the rates, which the unit divides, and the sum of squared deviations
\* is that of the squares less the count times the squared mean.
RunningOf(rows, s) ==
  /\ s.count * s.mean = SumOf(RatesIn(rows))
  /\ s.m2 = SumOf(SquaresOf(RatesIn(rows))) - s.count * (s.mean * s.mean)
  /\ \E q \in Int : SumOf(RatesIn(rows)) = Whole * q

LEMMA PositiveBound ==
  ASSUME NEW rows \in Seq(Row)
  PROVE  /\ Cardinality(PositiveOf(rows)) \in Nat
         /\ rows # <<>> => Cardinality(PositiveOf(rows)) <= Len(rows) - 1
<1> DEFINE n == Len(rows)
<1>1. n \in Nat /\ PositiveOf(rows) \subseteq 2..n /\ (rows # <<>> => n # 0)
  BY DEF PositiveOf
<1> HIDE DEF n
<1>2. IsFiniteSet(2..n) /\ (n # 0 => Cardinality(2..n) = n - 1)
  <2>1. IsFiniteSet(2..n) /\ Cardinality(2..n) = IF 2 > n THEN 0 ELSE n - 2 + 1
    BY <1>1, FS_Interval
  <2>2. QED
    BY <1>1, <2>1
<1>3. /\ IsFiniteSet(PositiveOf(rows))
      /\ Cardinality(PositiveOf(rows)) <= Cardinality(2..n)
  BY <1>1, <1>2, FS_Subset
<1>4. Cardinality(PositiveOf(rows)) \in Nat
  BY <1>3, FS_CardinalityType
<1>5. QED
  BY <1>1, <1>2, <1>3, <1>4 DEF n

LEMMA RunningAppended ==
  ASSUME NEW s \in Stats, NEW rows \in Seq(Row), NEW row \in Row, RunningOf(rows, s),
         s.last = IF rows = <<>> THEN NoStamp ELSE rows[Len(rows)].stamp,
         s.count = Cardinality(PositiveOf(rows)), Len(rows) < MaxMessages
  PROVE  RunningOf(Append(rows, row), Measured(s, row.stamp))
<1> DEFINE rates == RatesIn(rows)
           longer == RatesIn(Append(rows, row))
           x == RateAfter(rows, row)
           sum == SumOf(rates)
           squares == SumOf(SquaresOf(rates))
           new == Measured(s, row.stamp)
           interval == row.stamp - s.last
           more == s.last # NoStamp /\ interval > 0
<1>1. rates \in Seq(Int) /\ x \in Int /\ longer = Append(rates, x)
  BY RatesAppended
<1> HIDE DEF rates, x, longer
<1>2. sum \in Int /\ SumOf(longer) = sum + x
  BY <1>1, SumAppended
<1>3. squares \in Int /\ SumOf(SquaresOf(longer)) = squares + x * x
  <2>1. /\ SquaresOf(rates) \in Seq(Int)
        /\ SquaresOf(longer) = Append(SquaresOf(rates), x * x) /\ x * x \in Int
    BY <1>1, SquaresAppended
  <2>2. QED
    BY <2>1, SumAppended
<1> HIDE DEF sum, squares
<1>4. /\ s.count \in Nat /\ s.mean \in Int /\ s.m2 \in Int
      /\ s.last \in 1..MaxStamp \cup {NoStamp} /\ row.stamp \in 1..MaxStamp
  BY DEF Stats, Row
<1>5. /\ s.count * s.mean = sum
      /\ s.m2 = squares - s.count * (s.mean * s.mean)
      /\ \E q \in Int : sum = Whole * q
  BY DEF RunningOf, sum, squares, rates
<1>6. more => rows # <<>>
  OBVIOUS
<1>7. x = IF more THEN RateUnit \div interval ELSE 0
  <2>1. CASE rows = <<>>
    BY <2>1 DEF x, RateAfter
  <2>2. CASE rows # <<>>
    <3>1. rows[Len(rows)] \in Row /\ s.last = rows[Len(rows)].stamp
      BY <2>2
    <3>2. s.last \in Int /\ row.stamp \in Int /\ s.last # NoStamp
      BY <1>4, <3>1, StampsAssumption DEF Row
    <3>3. interval > 0 <=> row.stamp > rows[Len(rows)].stamp
      BY <3>1, <3>2
    <3>4. QED
      BY <2>2, <3>1, <3>2, <3>3 DEF x, RateAfter
  <2>3. QED
    BY <2>1, <2>2
<1>8. CASE ~more
  <2>1. new = [s EXCEPT !.last = row.stamp]
    BY <1>8 DEF Measured
  <2>2. new.count = s.count /\ new.mean = s.mean /\ new.m2 = s.m2
    BY <2>1 DEF Stats
  <2>3. x = 0
    BY <1>7, <1>8
  <2>4. SumOf(longer) = sum /\ SumOf(SquaresOf(longer)) = squares
    BY <1>2, <1>3, <2>3
  <2> HIDE DEF new
  <2>5. QED
    BY <1>5, <2>2, <2>4 DEF RunningOf, longer, new
<1>9. CASE more
  <2> DEFINE n == s.count + 1
             mean == s.mean + ((x - s.mean) \div n)
             m2 == s.m2 + (x - s.mean) * (x - mean)
  <2>1. new = [Sampled(s, x) EXCEPT !.last = row.stamp]
    BY <1>7, <1>9 DEF Measured
  <2>2. Sampled(s, x) = [last |-> s.last, count |-> n, mean |-> mean, m2 |-> m2]
    BY DEF Sampled
  <2>3. new.count = n /\ new.mean = mean /\ new.m2 = m2
    BY <2>1, <2>2
  <2> HIDE DEF new
  <2>4. n \in 1..MaxMessages-1
    <3>1. s.count <= Len(rows) - 1
      BY <1>6, <1>9, PositiveBound
    <3>2. Len(rows) \in Nat /\ MaxMessages \in Nat
      BY BoundsAssumption
    <3>3. QED
      BY <1>4, <3>1, <3>2
  <2>5. interval \in 1..MaxStamp-1
    <3>1. s.last \in 1..MaxStamp /\ MaxStamp \in Nat /\ interval > 0
      BY <1>4, <1>9, StampsAssumption
    <3>2. QED
      BY <1>4, <3>1
  <2> HIDE DEF n
  <2>6. PICK p \in Int : x = Whole * p
    <3> HIDE DEF interval
    <3>1. x = RateUnit \div interval
      BY <1>7, <1>9
    <3>2. QED
      BY <2>5, <3>1, WholeUnit
  <2>7. PICK q \in Int : sum = Whole * q
    BY <1>5
  <2>8. PICK y \in Int : Whole = n * y
    BY <2>4, WholeUnit
  <2> DEFINE z == y * (q + p)
  <2>9. n \in Nat \ {0} /\ n = s.count + 1
    BY <1>4, <2>4, BoundsAssumption DEF n
  <2>10. z \in Int /\ Whole \in Nat
    BY <2>6, <2>7, <2>8, WholeUnit
  <2>11. sum + x = Whole * (q + p)
    BY <2>6, <2>7, <2>10
  <2>12. sum + x = n * z
    BY <2>8, <2>9, <2>10, <2>11
  <2> HIDE DEF z
  <2>13. x = (s.count + 1) * z - s.count * s.mean
    BY <1>1, <1>2, <1>5, <2>9, <2>12
  <2>14. /\ x - s.mean = (s.count + 1) * (z - s.mean)
         /\ s.m2 + (x - s.mean) * (x - z) = (squares + x * x) - (s.count + 1) * (z * z)
    <3> DEFINE count == s.count
               oldMean == s.mean
               oldM2 == s.m2
    <3>1. /\ count \in Nat /\ oldMean \in Int /\ oldM2 \in Int
          /\ oldM2 = squares - count * (oldMean * oldMean)
          /\ x = (count + 1) * z - count * oldMean
      BY <1>4, <1>5, <2>13
    <3> HIDE DEF count, oldMean, oldM2
    <3>2. /\ x - oldMean = (count + 1) * (z - oldMean)
          /\ oldM2 + (x - oldMean) * (x - z) = (squares + x * x) - (count + 1) * (z * z)
      BY <1>1, <1>3, <2>10, <3>1, RunningFigures
    <3>3. QED
      BY <3>2 DEF count, oldMean, oldM2
  <2>15. (x - s.mean) \div n = z - s.mean
    <3>1. x - s.mean = n * (z - s.mean) /\ z - s.mean \in Int
      BY <1>4, <2>9, <2>10, <2>14
    <3>2. QED
      BY <2>9, <3>1, DivExact
  <2>16. mean = z
    BY <1>4, <2>10, <2>15
  <2> HIDE DEF mean
  <2>17. m2 = (squares + x * x) - n * (mean * mean)
    BY <2>9, <2>14, <2>16
  <2> HIDE DEF m2
  <2>18. new.count * new.mean = SumOf(longer)
    BY <1>2, <2>3, <2>12, <2>16
  <2>19. new.m2 = SumOf(SquaresOf(longer)) - new.count * (new.mean * new.mean)
    BY <1>3, <2>3, <2>17
  <2>20. \E r \in Int : SumOf(longer) = Whole * r
    <3>1. q + p \in Int
      OBVIOUS
    <3>2. QED
      BY <1>2, <2>11, <3>1
  <2>21. QED
    BY <2>18, <2>19, <2>20 DEF RunningOf, longer, new
<1>10. QED
  BY <1>8, <1>9

\* A topic has at most a row for each message that was read.
Bounded ==
  \A t \in Topics : Len(csv[t]) <= Len(read) /\ ("rate" \in todo => Len(csv[t]) < Len(read))

RatesInv == Bounded /\ \A t \in Topics : RunningOf(csv[t], stats[t])

LEMMA RatesInvInit == Init => RatesInv
<1> SUFFICES ASSUME Init PROVE RatesInv
  OBVIOUS
<1>1. Bounded
  BY DEF Init, Bounded
<1>2. PositiveOf(<<>>) = {} /\ RatesIn(<<>>) = <<>>
  BY DEF PositiveOf, RatesIn
<1>3. SquaresOf(<<>>) = <<>>
  BY DEF SquaresOf
<1>4. RunningOf(<<>>, NoStats)
  <2>1. Whole * 0 = 0
    BY WholeUnit
  <2>2. QED
    BY <1>2, <1>3, <2>1, SumEmpty DEF RunningOf, NoStats
<1>5. \A t \in Topics : csv[t] = <<>> /\ stats[t] = NoStats
  BY DEF Init
<1>6. QED
  BY <1>1, <1>4, <1>5 DEF RatesInv

LEMMA RatesInvRow ==
  ASSUME IInv, RatesInv, ProcessRate
  PROVE  RatesInv'
<1>1. PICK u \in Topics : u = Current.topic
  BY TurnOf DEF ProcessRate, Message
<1> DEFINE stamp == Current.stamp
           row == [index |-> index[u] + 1, stamp |-> stamp]
<1>2. /\ csv' = [csv EXCEPT ![u] = Append(csv[u], row)]
      /\ stats' = [stats EXCEPT ![u] = Measured(stats[u], stamp)]
      /\ read' = read /\ todo' = todo \ {"rate"}
      /\ "rate" \in todo /\ stamp # NoStamp
  BY <1>1 DEF ProcessRate, After, Turn
<1>3. /\ csv \in [Topics -> Seq(Row)] /\ stats \in [Topics -> Stats]
      /\ index[u] \in Nat /\ Len(read) \in Nat /\ Len(read) <= MaxMessages
  <2>1. csv \in [Topics -> Seq(Row)] /\ stats \in [Topics -> Stats]
    BY DEF IInv, TypeOK, Row
  <2>2. index[u] \in Nat
    BY DEF IInv, TypeOK
  <2>3. Len(read) \in Nat /\ Len(read) <= MaxMessages
    BY DEF IInv, TypeOK
  <2>4. QED
    BY <2>1, <2>2, <2>3
<1>4. stamp \in 1..MaxStamp
  BY <1>2, TurnOf DEF ProcessRate, Message
<1>5. row \in Row /\ row.stamp = stamp
  BY <1>3, <1>4 DEF Row
<1> HIDE DEF row, stamp
<1>6. Bounded'
  <2>1. ASSUME NEW t \in Topics
        PROVE  Len(csv'[t]) <= Len(read)
    <3>1. Len(csv[t]) < Len(read) /\ Len(csv[t]) \in Nat
      BY <1>2, <1>3 DEF RatesInv, Bounded
    <3>2. Len(csv'[t]) \in {Len(csv[t]), Len(csv[t]) + 1}
      <4>1. CASE t = u
        <5>1. csv'[t] = Append(csv[u], row) /\ csv[u] \in Seq(Row)
          BY <1>2, <1>3, <4>1
        <5>2. QED
          BY <1>5, <4>1, <5>1
      <4>2. CASE t # u
        BY <1>2, <1>3, <4>2
      <4>3. QED
        BY <4>1, <4>2
    <3>3. QED
      BY <1>3, <3>1, <3>2
  <2>2. "rate" \notin todo'
    BY <1>2
  <2>3. QED
    BY <1>2, <2>1, <2>2 DEF Bounded
<1>7. RunningOf(Append(csv[u], row), Measured(stats[u], stamp))
  <2> DEFINE rows == csv[u]
             s == stats[u]
  <2>1. rows \in Seq(Row) /\ s \in Stats
    BY <1>3
  <2>2. /\ s.last = IF rows = <<>> THEN NoStamp ELSE rows[Len(rows)].stamp
        /\ s.count = Cardinality(PositiveOf(rows))
    BY DEF IInv, LastOfRows, DeltasOfRows, Positive, PositiveOf
  <2>3. RunningOf(rows, s)
    BY DEF RatesInv
  <2>4. Len(rows) < MaxMessages
    <3>1. Len(rows) < Len(read) /\ Len(rows) \in Nat
      BY <1>2, <1>3 DEF RatesInv, Bounded
    <3>2. QED
      BY <1>3, <3>1, BoundsAssumption
  <2> HIDE DEF rows, s
  <2>5. RunningOf(Append(rows, row), Measured(s, row.stamp))
    BY <1>5, <2>1, <2>2, <2>3, <2>4, RunningAppended
  <2>6. QED
    BY <1>5, <2>5 DEF rows, s
<1>8. ASSUME NEW t \in Topics
      PROVE  RunningOf(csv'[t], stats'[t])
  <2>1. CASE t = u
    <3>1. csv'[t] = Append(csv[u], row) /\ stats'[t] = Measured(stats[u], stamp)
      BY <1>2, <1>3, <2>1
    <3>2. QED
      BY <1>7, <3>1
  <2>2. CASE t # u
    <3>1. csv'[t] = csv[t] /\ stats'[t] = stats[t]
      BY <1>2, <1>3, <2>2
    <3>2. QED
      BY <3>1 DEF RatesInv
  <2>3. QED
    BY <2>1, <2>2
<1>9. QED
  BY <1>6, <1>8 DEF RatesInv

LEMMA RatesInvRead ==
  ASSUME IInv, RatesInv, NEW m \in Message, ReadNext(m)
  PROVE  RatesInv'
<1>1. UNCHANGED <<csv, stats>> /\ read' = Append(read, m)
  BY DEF ReadNext
<1>2. Len(read) \in Nat /\ Len(read') = Len(read) + 1
  BY <1>1 DEF IInv, TypeOK
<1>3. \A t \in Topics : Len(csv[t]) \in Nat /\ Len(csv[t]) <= Len(read)
  BY DEF IInv, TypeOK, RatesInv, Bounded
<1>4. Bounded'
  BY <1>1, <1>2, <1>3 DEF Bounded
<1>5. QED
  BY <1>1, <1>4 DEF RatesInv

LEMMA RatesInvStep == IInv /\ RatesInv /\ [Next]_vars => RatesInv'
<1> SUFFICES ASSUME IInv, RatesInv, [Next]_vars PROVE RatesInv'
  OBVIOUS
<1>1. \/ ProcessRate \/ \E m \in Message : ReadNext(m)
      \/ UNCHANGED <<csv, stats, read>> /\ todo' \subseteq todo
  BY DEF Next, Scan, ImportFails, Import, Matched, ScanStops, Processed, Closed, Report, MatchTopic,
     OpenTextFails, ProcessRosout, ProcessUnstamped, ProcessRateFails, ClosePlugin, AnalysisEnded,
     After, vars
<1>2. CASE UNCHANGED <<csv, stats, read>> /\ todo' \subseteq todo
  BY <1>2 DEF RatesInv, Bounded
<1>3. QED
  BY <1>1, <1>2, RatesInvRow, RatesInvRead

\* The mean and the deviation that are kept message by message are those of all
\* the rates between the rows of the CSV, whatever the stamps, in a unit that
\* the divisions of the running mean leave whole.
THEOREM RunningIsOfRows == Spec => []RatesOfRows
<1>1. Spec => [](IInv /\ RatesInv)
  BY IInvInit, IInvStep, RatesInvInit, RatesInvStep, PTL DEF Spec
<1>2. ASSUME IInv, RatesInv, NEW t \in Topics
      PROVE  LET s == stats[t]
                 sum == SumOf(Rates(t))
                 squares == SumOf([i \in DOMAIN Rates(t) |-> Rates(t)[i] * Rates(t)[i]])
             IN  /\ s.count * s.mean = sum
                 /\ s.count * s.m2 = s.count * squares - sum * sum
  <2> DEFINE s == stats[t]
             rates == RatesIn(csv[t])
             sum == SumOf(rates)
             squares == SumOf(SquaresOf(rates))
  <2>1. Rates(t) = rates
    BY DEF Rates, RatesIn, Positive, PositiveOf
  <2>2. [i \in DOMAIN Rates(t) |-> Rates(t)[i] * Rates(t)[i]] = SquaresOf(rates)
    BY <2>1 DEF SquaresOf
  <2>3. s \in Stats /\ csv[t] \in Seq(Row)
    BY <1>2 DEF IInv, TypeOK, Row
  <2>4. /\ s.count * s.mean = sum
        /\ s.m2 = squares - s.count * (s.mean * s.mean)
    BY <1>2 DEF RatesInv, RunningOf
  <2>5. s.count \in Nat /\ s.mean \in Int /\ s.m2 \in Int
    BY <2>3 DEF Stats
  <2>6. squares \in Int
    <3>1. rates \in Seq(Int)
      BY <2>3, RatesType
    <3> HIDE DEF rates
    <3>2. SquaresOf(rates) \in Seq(Int)
      BY <3>1, SquaresAppended
    <3>3. QED
      BY <3>2, SumAppended
  <2> HIDE DEF s, rates, sum, squares
  <2>7. s.count * s.m2 = s.count * squares - sum * sum
    BY <2>4, <2>5, <2>6
  <2>8. QED
    BY <2>1, <2>2, <2>4, <2>7 DEF s, rates, sum, squares
<1>3. IInv /\ RatesInv => RatesOfRows
  BY <1>2 DEF RatesOfRows
<1>4. QED
  BY <1>1, <1>3, PTL

\* The state of a scan is well typed, whatever a bag holds and whatever fails.
THEOREM TypeCorrect == Spec => []TypeOK
<1>1. IInv => TypeOK
  BY DEF IInv
<1>2. QED
  BY <1>1, IInvHolds, PTL

\* No file is open when the reports are made from the files, whatever plugin
\* raised, and wherever reading ended.
THEOREM NoFileOpen == Spec => []FilesClosed
<1>1. IInv => FilesClosed
  BY DEF IInv, Closing, OpenIsToClose, FilesClosed
<1>2. QED
  BY <1>1, IInvHolds, PTL

\* What is plotted for a topic are the differences of the rows of its CSV, and
\* those that are positive are counted, for bags of any length and stamps in any
\* order.
THEOREM PlotShowsRows == Spec => []DeltasOfRows
<1>1. IInv => DeltasOfRows
  BY DEF IInv
<1>2. QED
  BY <1>1, IInvHolds, PTL

===============================================================================
