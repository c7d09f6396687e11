-------------------------------- MODULE PluginScan --------------------------------
(***************************************************************************)
(* run_analyzer_plugins() of Tools/LogAnalysis/scripts/log_analyzer.py     *)
(* with its two plugins, RosoutTextAnalyzer ("rosout") and                 *)
(* TimestampRateAnalyzer ("rate"): one pass over the messages of a bag,    *)
(* handed to the plugins that match their topic.  A plugin may raise in    *)
(* any message, a message may be undecodable, and the reader may fail.     *)
(*                                                                         *)
(* The text of a log message is its position in the bag, and a rate is in  *)
(* units of 1/RateUnit, so that the means of a short bag are integers.     *)
(***************************************************************************)
EXTENDS Integers, Sequences, FiniteSets

CONSTANTS
  Topics,       \* the topics of the bag
  LogTopics,    \* those named rosout, with messages of type Log
  MaxStamp,     \* bound: time stamps inside messages are 1..MaxStamp
  NoStamp,      \* a message without a time stamp
  RateUnit,     \* 1 Hz, in units of the model
  MaxMessages   \* bound: messages of the bag

ASSUME TopicsAssumption == LogTopics \subseteq Topics
ASSUME StampsAssumption == MaxStamp \in Nat /\ NoStamp \notin Int
ASSUME BoundsAssumption == RateUnit \in Nat /\ MaxMessages \in Nat

\* Every interval divides the unit, and so does the number of rates in a mean.
ASSUME UnitAssumption ==
  \E d, w \in 1..RateUnit : /\ RateUnit = d * w
                            /\ \A i \in 1..MaxStamp-1 : d % i = 0
                            /\ \A n \in 1..MaxMessages-1 : w % n = 0

VARIABLES
  pc,         \* where the scan is
  enabled,    \* ANALYZER_PLUGIN_CONFIG
  selected,   \* TIMESTAMP_ANALYSIS_TOPICS
  unmatched,  \* topics_and_types still to match
  handlers,   \* topic_plugins; none for a topic that is not in message_classes
  read,       \* the messages read so far
  todo,       \* plugins still to process the last of them
  failed,     \* failed_plugins
  text,       \* rosout.txt: the positions of its messages
  counted,    \* the sum of severity_counts
  index,      \* message_indices
  csv,        \* the rows of each topic's CSV: a message index and a time stamp
  deltas,     \* timestamp_deltas
  stats,      \* topic_stats
  open,       \* the open files: "rosout", and the topics whose CSV is open
  toClose     \* plugins still to close

configVars == <<enabled, selected>>
matchVars  == <<unmatched, handlers>>
rosoutVars == <<text, counted>>
rateVars   == <<index, csv, deltas, stats>>
vars == <<pc, configVars, matchVars, read, todo, failed, rosoutVars, rateVars, open, toClose>>

Plugins == {"rosout", "rate"}
Message == [topic : Topics, stamp : 1..MaxStamp \cup {NoStamp}]
Stats   == [last : 1..MaxStamp \cup {NoStamp}, count : Nat, mean : Int, m2 : Int]
NoStats == [last |-> NoStamp, count |-> 0, mean |-> 0, m2 |-> 0]
Ended   == {"reported", "raised"}

TypeOK ==
  /\ pc \in {"import", "match", "read", "process", "close", "report"} \cup Ended
  /\ enabled \subseteq Plugins /\ selected \subseteq Topics
  /\ unmatched \subseteq Topics /\ handlers \in [Topics -> SUBSET Plugins]
  /\ read \in Seq(Message) /\ Len(read) <= MaxMessages
  /\ todo \subseteq Plugins /\ failed \subseteq Plugins /\ toClose \subseteq Plugins
  /\ text \in Seq(1..MaxMessages) /\ counted \in Nat
  /\ index \in [Topics -> Nat]
  /\ csv \in [Topics -> Seq([index : Nat, stamp : 1..MaxStamp])]
  /\ deltas \in [Topics -> Seq(Int)]
  /\ stats \in [Topics -> Stats]
  /\ open \subseteq Topics \cup {"rosout"}

Init ==
  /\ pc = "import"
  /\ enabled \in SUBSET Plugins /\ selected \in SUBSET Topics
  /\ unmatched = Topics /\ handlers = [t \in Topics |-> {}]
  /\ read = <<>> /\ todo = {} /\ failed = {}
  /\ text = <<>> /\ counted = 0
  /\ index = [t \in Topics |-> 0]
  /\ csv = [t \in Topics |-> <<>>] /\ deltas = [t \in Topics |-> <<>>]
  /\ stats = [t \in Topics |-> NoStats]
  /\ open = {} /\ toClose = enabled

-----------------------------------------------------------------------------
(* Which topics are read, and for whom.                                    *)

Matches(p, t) == IF p = "rosout" THEN t \in LogTopics ELSE t \in selected

\* A ROS 2 module is missing: the plugins are closed and nothing is read.
ImportFails ==
  /\ pc = "import"
  /\ pc' = "close"
  /\ UNCHANGED <<configVars, matchVars, read, todo, failed, rosoutVars, rateVars, open, toClose>>

Import ==
  /\ pc = "import"
  /\ pc' = "match"
  /\ UNCHANGED <<configVars, matchVars, read, todo, failed, rosoutVars, rateVars, open, toClose>>

\* The plugins that match a topic, unless its message type is not known.
MatchTopic(t) ==
  /\ pc = "match" /\ t \in unmatched
  /\ unmatched' = unmatched \ {t}
  /\ \E matching \in {{}, { p \in enabled : Matches(p, t) }} :
       handlers' = [handlers EXCEPT ![t] = matching]
  /\ UNCHANGED <<pc, configVars, read, todo, failed, rosoutVars, rateVars, open, toClose>>

Matched ==
  /\ pc = "match" /\ unmatched = {}
  /\ pc' = IF \E t \in Topics : handlers[t] # {} THEN "read" ELSE "close"
  /\ UNCHANGED <<configVars, matchVars, read, todo, failed, rosoutVars, rateVars, open, toClose>>

-----------------------------------------------------------------------------
(* The scan.                                                               *)

\* The next message that passes the reader's filter; the plugins that failed
\* before are skipped.
ReadNext(m) ==
  /\ pc = "read" /\ Len(read) < MaxMessages /\ handlers[m.topic] # {}
  /\ read' = Append(read, m)
  /\ todo' = handlers[m.topic] \ failed
  /\ pc' = "process"
  /\ UNCHANGED <<configVars, matchVars, failed, rosoutVars, rateVars, open, toClose>>

\* Opening the bag, reading or decoding a message raises, or the bag ends.
ScanStops ==
  /\ pc = "read"
  /\ pc' = "close"
  /\ UNCHANGED <<configVars, matchVars, read, todo, failed, rosoutVars, rateVars, open, toClose>>

Current == read[Len(read)]

\* The plugins of a topic are called in their order in ANALYZER_PLUGINS.
Turn(p) == pc = "process" /\ p \in todo /\ (p = "rate" => "rosout" \notin todo)

\* Mutant: the loop over the plugins is left when one of them raises.
AfterOneStopsAll(p, raises) ==
  /\ failed' = IF raises THEN failed \cup {p} ELSE failed
  /\ todo' = IF raises THEN {} ELSE todo \ {p}

\* A plugin that raised is remembered, and the next one has its turn.
After(p, raises) ==
  /\ failed' = IF raises THEN failed \cup {p} ELSE failed
  /\ todo' = todo \ {p}

\* RosoutTextAnalyzer.process: open the file, count the severity, write.
OpenTextFails ==
  /\ Turn("rosout") /\ "rosout" \notin open
  /\ After("rosout", TRUE)
  /\ UNCHANGED <<pc, configVars, matchVars, read, rosoutVars, rateVars, open, toClose>>

ProcessRosout ==
  /\ Turn("rosout")
  /\ open' = open \cup {"rosout"}
  /\ counted' = counted + 1
  /\ \E raises \in BOOLEAN :
       /\ After("rosout", raises)
       /\ text' = IF raises THEN text ELSE Append(text, Len(read))
  /\ UNCHANGED <<pc, configVars, matchVars, read, rateVars, toClose>>

\* TimestampRateAnalyzer.process: only a message with a time stamp has a row.
ProcessUnstamped ==
  /\ Turn("rate") /\ Current.stamp = NoStamp
  /\ index' = [index EXCEPT ![Current.topic] = @ + 1]
  /\ After("rate", FALSE)
  /\ UNCHANGED <<pc, configVars, matchVars, read, rosoutVars, csv, deltas, stats, open, toClose>>

\* Making the directory, opening the CSV or writing to it raises.
ProcessRateFails ==
  /\ Turn("rate") /\ Current.stamp # NoStamp
  /\ index' = [index EXCEPT ![Current.topic] = @ + 1]
  /\ open' \in {open, open \cup {Current.topic}}
  /\ After("rate", TRUE)
  /\ UNCHANGED <<pc, configVars, matchVars, read, rosoutVars, csv, deltas, stats, toClose>>

\* Mutant: the deviation is taken twice from the new mean.
SampledFromNewMean(s, rate) ==
  LET n    == s.count + 1
      mean == s.mean + ((rate - s.mean) \div n)
  IN  [last |-> s.last, count |-> n, mean |-> mean,
       m2 |-> s.m2 + (rate - mean) * (rate - mean)]

\* One more rate in the running mean and sum of squared deviations.
Sampled(s, rate) ==
  LET n    == s.count + 1
      mean == s.mean + ((rate - s.mean) \div n)
  IN  [last |-> s.last, count |-> n, mean |-> mean,
       m2 |-> s.m2 + (rate - s.mean) * (rate - mean)]

\* Mutant: the interval is kept in the place of the stamp.
MeasuredInterval(s, stamp) ==
  [s EXCEPT !.last = IF s.last = NoStamp THEN stamp ELSE stamp - s.last]

\* Mutant: a stamp that is not later than the last one is passed over.
MeasuredForward(s, stamp) ==
  LET interval == stamp - s.last
      sampled  == IF s.last # NoStamp /\ interval > 0 THEN Sampled(s, RateUnit \div interval) ELSE s
  IN  [sampled EXCEPT !.last = IF s.last = NoStamp \/ interval > 0 THEN stamp ELSE @]

\* Only an interval that is positive has a rate.
Measured(s, stamp) ==
  LET interval == stamp - s.last
      sampled  == IF s.last # NoStamp /\ interval > 0 THEN Sampled(s, RateUnit \div interval) ELSE s
  IN  [sampled EXCEPT !.last = stamp]

ProcessRate ==
  /\ Turn("rate") /\ Current.stamp # NoStamp
  /\ LET t == Current.topic
         stamp == Current.stamp
     IN  /\ open' = open \cup {t}
         /\ index' = [index EXCEPT ![t] = @ + 1]
         /\ csv' = [csv EXCEPT ![t] = Append(@, [index |-> index[t] + 1, stamp |-> stamp])]
         /\ deltas' = [deltas EXCEPT ![t] = IF stats[t].last = NoStamp THEN @
                                            ELSE Append(@, stamp - stats[t].last)]
         /\ stats' = [stats EXCEPT ![t] = Measured(@, stamp)]
  /\ After("rate", FALSE)
  /\ UNCHANGED <<pc, configVars, matchVars, read, rosoutVars, toClose>>

Processed ==
  /\ pc = "process" /\ todo = {}
  /\ pc' = "read"
  /\ UNCHANGED <<configVars, matchVars, read, todo, failed, rosoutVars, rateVars, open, toClose>>

-----------------------------------------------------------------------------
(* The finally clause, then the reports of generate_metadata_summary.      *)

FilesOf(p) == IF p = "rosout" THEN {"rosout"} ELSE Topics

\* Mutant: only the plugins that did not raise are closed.
ClosableUnfailed == toClose \ failed

Closable == toClose

\* Closing a file writes what is buffered.  If that raises, in either plugin,
\* the exception ends the analysis of the bag, and the other is not closed.
ClosePlugin(p) ==
  /\ pc = "close" /\ p \in Closable /\ (p = "rate" => "rosout" \notin Closable)
  /\ \/ /\ open' = open \ FilesOf(p) /\ toClose' = toClose \ {p}
        /\ UNCHANGED pc
     \/ /\ FilesOf(p) \cap open # {} /\ pc' = "raised"
        /\ UNCHANGED <<open, toClose>>
  /\ UNCHANGED <<configVars, matchVars, read, todo, failed, rosoutVars, rateVars>>

Closed ==
  /\ pc = "close" /\ Closable = {}
  /\ pc' = "report"
  /\ UNCHANGED <<configVars, matchVars, read, todo, failed, rosoutVars, rateVars, open, toClose>>

\* The summary is written when every plugin has made its report; a plot that
\* cannot be made costs the whole summary, and its own file may not open.
Report ==
  /\ pc = "report"
  /\ pc' \in Ended
  /\ UNCHANGED <<configVars, matchVars, read, todo, failed, rosoutVars, rateVars, open, toClose>>

Scan ==
  \/ ImportFails \/ Import \/ Matched \/ ScanStops \/ Processed \/ Closed \/ Report
  \/ \E t \in Topics : MatchTopic(t)
  \/ \E m \in Message : ReadNext(m)
  \/ OpenTextFails \/ ProcessRosout \/ ProcessUnstamped \/ ProcessRateFails \/ ProcessRate
  \/ \E p \in Plugins : ClosePlugin(p)

AnalysisEnded == pc \in Ended /\ UNCHANGED vars

Next == Scan \/ AnalysisEnded

Spec == Init /\ [][Next]_vars

-----------------------------------------------------------------------------
(* Properties.                                                             *)

\* The positions of the messages that plugin p has had its turn with.
HandledBy(p, t) ==
  {i \in 1..Len(read) : /\ read[i].topic \in t /\ p \in handlers[read[i].topic]
                        /\ ~(i = Len(read) /\ p \in todo)}

\* The list has the first of the numbers in their order, or all of them.
Lists(list, numbers, all) ==
  /\ \A i, j \in DOMAIN list : i < j => list[i] < list[j]
  /\ \A i \in DOMAIN list : list[i] \in numbers
  /\ \A n \in numbers :
       all \/ (\E i \in DOMAIN list : n < list[i]) => \E i \in DOMAIN list : list[i] = n

\* The place of a message among those of its topic, and those that have a stamp.
Place(handled, i) == Cardinality({j \in handled : j <= i})
Stamped(handled, messages) == {i \in handled : messages[i].stamp # NoStamp}

\* There is a row for each message with a stamp, numbered by the message's
\* place among all messages of the topic.
RowsOf(rows, handled, messages, all) ==
  LET stamped == Stamped(handled, messages)
  IN  /\ Lists([k \in DOMAIN rows |-> rows[k].index], {Place(handled, i) : i \in stamped}, all)
      /\ \A k \in DOMAIN rows, i \in stamped :
           rows[k].index = Place(handled, i) => rows[k].stamp = messages[i].stamp

\* "Dispatch each selected bag message to its matching analyzer plugins": the
\* output of a plugin that has not raised is complete, and that of one that
\* has is a first part of it, whatever the other plugin did.  The severities
\* that the report counts are those of rosout.txt, but for the one message
\* whose text could not be written.
PluginsIsolated ==
  /\ Lists(text, HandledBy("rosout", Topics), "rosout" \notin failed)
  /\ counted - Len(text) \in (IF "rosout" \in failed THEN {0, 1} ELSE {0})
  /\ \A t \in Topics : RowsOf(csv[t], HandledBy("rate", {t}), read, "rate" \notin failed)

Positive(t) == { i \in 2..Len(csv[t]) : csv[t][i].stamp > csv[t][i-1].stamp }

\* The sum of a sequence, and the rates of a topic's rows: 0 where there is none.
SumOf(s) == LET sum[i \in 0..Len(s)] == IF i = 0 THEN 0 ELSE sum[i-1] + s[i]
            IN  sum[Len(s)]
Rates(t) == [i \in 1..Len(csv[t]) |->
               IF i \in Positive(t) THEN RateUnit \div (csv[t][i].stamp - csv[t][i-1].stamp)
                                   ELSE 0]

\* "Rates are the inverse of positive intervals between consecutive embedded
\* message timestamps.  Standard deviation is the population standard
\* deviation": the running figures are those of the rows in the CSV.
RatesOfRows ==
  \A t \in Topics :
    LET s == stats[t]
        sum == SumOf(Rates(t))
        squares == SumOf([i \in DOMAIN Rates(t) |-> Rates(t)[i] * Rates(t)[i]])
    IN  /\ s.count * s.mean = sum
        /\ s.count * s.m2 = s.count * squares - sum * sum

\* The plot shows the differences between the stamps of consecutive rows of the
\* CSV, those that are not positive too, although messages without a stamp come
\* between them and writing a row may raise; those that are positive are counted.
DeltasOfRows ==
  \A t \in Topics :
    /\ Len(deltas[t]) = IF csv[t] = <<>> THEN 0 ELSE Len(csv[t]) - 1
    /\ \A i \in 1..Len(deltas[t]) : deltas[t][i] = csv[t][i+1].stamp - csv[t][i].stamp
    /\ stats[t].count = Cardinality(Positive(t))

\* However the scan ended, no file is open when the reports are made.
FilesClosed == pc \in {"report", "reported"} => open = {}

===============================================================================
