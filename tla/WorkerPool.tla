------------------------------- MODULE WorkerPool -------------------------------
(***************************************************************************)
(* The main program of Tools/LogAnalysis/scripts/log_analyzer.py: a pool   *)
(* of worker processes analyses the bags, each worker streams what it      *)
(* prints through a WorkerOutputStream into one managed queue, and the     *)
(* parent prints the lines and collects the finished futures.  A worker    *)
(* process may die (the kernel kills it), which breaks the pool.           *)
(*                                                                         *)
(* What a worker prints is counted in chunks: one write() call each.       *)
(***************************************************************************)
EXTENDS Integers, FiniteSets, Sequences

CONSTANTS
  Bags,       \* find_bag_directories(root_path)
  Workers,    \* worker_count
  MaxChunks,  \* bound: chunks that the analysis of one bag prints
  MaxDeaths   \* bound: worker processes that die

ASSUME BagsAssumption == IsFiniteSet(Bags)
ASSUME BoundsAssumption == /\ Workers \in Nat \ {0}
                           /\ MaxChunks \in Nat
                           /\ MaxDeaths \in Nat

VARIABLES
  task,      \* what the worker of each bag does
  written,   \* chunks the worker has written
  buffer,    \* how many of them are in WorkerOutputStream.buffer
  queue,     \* output_queue: a line holds the chunks up to its number
  future,    \* the state of the bag's future
  dead,      \* the bags whose own worker process died
  broken,    \* the executor has noticed that a worker process died
  parent,    \* where the parent's loop is
  pending,   \* the bags whose future the parent has not collected
  printed    \* how many chunks of each bag the parent has printed

workerVars == <<task, written, buffer>>
poolVars   == <<future, dead, broken>>
parentVars == <<parent, pending, printed>>
vars == <<workerVars, queue, poolVars, parentVars>>

Line == [bag : Bags, upto : 0..MaxChunks]

TypeOK ==
  /\ task \in [Bags -> {"waiting", "running", "flushed", "returned", "gone"}]
  /\ written \in [Bags -> 0..MaxChunks]
  /\ buffer \in [Bags -> 0..MaxChunks]
  /\ queue \in Seq(Line)
  /\ future \in [Bags -> {"pending", "done", "broken"}]
  /\ dead \subseteq Bags
  /\ broken \in BOOLEAN
  /\ parent \in {"get", "collect", "drain", "done"}
  /\ pending \subseteq Bags
  /\ printed \in [Bags -> 0..MaxChunks]

Init ==
  /\ task = [b \in Bags |-> "waiting"]
  /\ written = [b \in Bags |-> 0]
  /\ buffer = [b \in Bags |-> 0]
  /\ queue = <<>>
  /\ future = [b \in Bags |-> "pending"]
  /\ dead = {} /\ broken = FALSE
  /\ parent = IF Bags = {} THEN "done" ELSE "get"
  /\ pending = Bags
  /\ printed = [b \in Bags |-> 0]

-----------------------------------------------------------------------------
(* A worker: process_bag_directory with its two output streams, which are  *)
(* alike and modelled as one.                                              *)

Put(b, upto) == queue' = Append(queue, [bag |-> b, upto |-> upto])

Busy == { b \in Bags : task[b] \in {"running", "flushed"} }

StartTask(b) ==
  /\ ~broken
  /\ task[b] = "waiting"
  /\ Cardinality(Busy) < Workers
  /\ task' = [task EXCEPT ![b] = "running"]
  /\ UNCHANGED <<written, buffer, queue, poolVars, parentVars>>

\* write(): a text with a line end puts what the buffer holds up to there ...
WriteLine(b) ==
  /\ task[b] = "running"
  /\ written[b] < MaxChunks
  /\ written' = [written EXCEPT ![b] = @ + 1]
  /\ buffer' = [buffer EXCEPT ![b] = 0]
  /\ Put(b, written'[b])
  /\ UNCHANGED <<task, poolVars, parentVars>>

\* ... and one without stays in the buffer.
WritePart(b) ==
  /\ task[b] = "running"
  /\ written[b] < MaxChunks
  /\ written' = [written EXCEPT ![b] = @ + 1]
  /\ buffer' = [buffer EXCEPT ![b] = @ + 1]
  /\ UNCHANGED <<task, queue, poolVars, parentVars>>

\* Mutant: the stream is not flushed in the finally clause.
LeaveUnflushed(b) ==
  /\ task[b] = "running"
  /\ task' = [task EXCEPT ![b] = "flushed"]
  /\ UNCHANGED <<written, buffer, queue, poolVars, parentVars>>

\* The analysis ends or raises: the finally clause flushes the stream.
Flush(b) ==
  /\ task[b] = "running"
  /\ task' = [task EXCEPT ![b] = "flushed"]
  /\ buffer' = [buffer EXCEPT ![b] = 0]
  /\ IF buffer[b] > 0 THEN Put(b, written[b]) ELSE UNCHANGED queue
  /\ UNCHANGED <<written, poolVars, parentVars>>

\* process_bag_directory returns and its future is done.
ReturnResult(b) ==
  /\ ~broken
  /\ task[b] = "flushed"
  /\ task' = [task EXCEPT ![b] = "returned"]
  /\ future' = [future EXCEPT ![b] = "done"]
  /\ UNCHANGED <<written, buffer, queue, dead, broken, parentVars>>

-----------------------------------------------------------------------------
(* The executor, when a worker process dies.                               *)

Die(b) ==
  /\ b \in Busy
  /\ Cardinality(dead) < MaxDeaths
  /\ task' = [task EXCEPT ![b] = "gone"]
  /\ dead' = dead \cup {b}
  /\ UNCHANGED <<written, buffer, queue, future, broken, parentVars>>

\* Every future that is not done gets a BrokenProcessPool exception ...
BreakFutures ==
  future' = [b \in Bags |-> IF future[b] = "pending" THEN "broken" ELSE future[b]]

BreakPool ==
  /\ ~broken /\ dead # {}
  /\ broken' = TRUE
  /\ BreakFutures
  /\ UNCHANGED <<workerVars, queue, dead, parentVars>>

\* ... and then the other workers are terminated.
Terminate(b) ==
  /\ broken /\ b \in Busy
  /\ task' = [task EXCEPT ![b] = "gone"]
  /\ UNCHANGED <<written, buffer, queue, poolVars, parentVars>>

-----------------------------------------------------------------------------
(* The parent: print a line, collect the futures that are done, and only   *)
(* then print all that is in the queue.                                    *)

\* Mutant: the stream's buffer is not cut, a line repeats the lines before it.
PrintAgain ==
  /\ queue # <<>>
  /\ printed' = [printed EXCEPT ![Head(queue).bag] = @ + Head(queue).upto]
  /\ queue' = Tail(queue)

\* Mutant: the newest line is taken.
PrintNewest ==
  /\ queue # <<>>
  /\ LET line == queue[Len(queue)]
     IN printed' = [printed EXCEPT ![line.bag] = line.upto]
  /\ queue' = SubSeq(queue, 1, Len(queue) - 1)

PrintOldest ==
  /\ queue # <<>>
  /\ printed' = [printed EXCEPT ![Head(queue).bag] = Head(queue).upto]
  /\ queue' = Tail(queue)

\* output_queue.get(timeout=0.1)
GetLine ==
  /\ parent = "get"
  /\ PrintOldest \/ (queue = <<>> /\ UNCHANGED <<queue, printed>>)
  /\ parent' = "collect"
  /\ UNCHANGED <<workerVars, poolVars, pending>>

\* Mutant: a future that is broken never counts as finished.
FinishedDone == { b \in pending : future[b] = "done" }

Finished == { b \in pending : future[b] # "pending" }

Collect ==
  /\ parent = "collect"
  /\ pending' = pending \ Finished
  /\ parent' = "drain"
  /\ UNCHANGED <<workerVars, queue, poolVars, printed>>

DrainLine ==
  /\ parent = "drain"
  /\ PrintOldest
  /\ UNCHANGED <<workerVars, poolVars, parent, pending>>

EndDrain ==
  /\ parent = "drain"
  /\ queue = <<>>
  /\ parent' = IF pending = {} THEN "done" ELSE "get"
  /\ UNCHANGED <<workerVars, queue, poolVars, pending, printed>>

-----------------------------------------------------------------------------
Work(b)  == WriteLine(b) \/ WritePart(b) \/ Flush(b) \/ ReturnResult(b)
Parent   == GetLine \/ Collect \/ DrainLine \/ EndDrain
Idle     == parent = "done" /\ Busy = {} /\ UNCHANGED vars

Next ==
  \/ \E b \in Bags : StartTask(b) \/ Work(b) \/ Die(b) \/ Terminate(b)
  \/ BreakPool \/ Parent \/ Idle

Spec == Init /\ [][Next]_vars

(***************************************************************************)
(* Every process is scheduled: a started analysis goes on (each prints     *)
(* finitely much), a free worker takes a bag that waits, the executor      *)
(* notices a death and the parent goes round its loop.                     *)
(***************************************************************************)
Fairness ==
  /\ \A b \in Bags : WF_vars(Work(b))
  /\ WF_vars(\E b \in Bags : StartTask(b))
  /\ WF_vars(BreakPool)
  /\ WF_vars(Parent)

FairSpec == Spec /\ Fairness

-----------------------------------------------------------------------------
(* Properties.                                                             *)

\* When the parent's loop ends, everything that a finished analysis printed
\* has been printed, whatever happened to the others: nothing is left in the
\* queue or in a stream's buffer.
OutputComplete ==
  parent = "done" => \A b \in Bags : future[b] = "done" => printed[b] = written[b]

\* A bag's lines come out in the order in which they were written, each once:
\* no line takes a bag back, and each line taken from the queue prints something.
OutputInOrder ==
  [][/\ \A b \in Bags : printed'[b] >= printed[b]
     /\ Len(queue') < Len(queue) => printed' # printed]_vars

\* The parent never waits for ever: not for a bag whose worker died, nor for
\* a bag that no worker will take any more.
ParentEnds == <>(parent = "done")

===============================================================================
