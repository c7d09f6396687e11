---------------------------- MODULE WorkerPoolProofs ----------------------------
(***************************************************************************)
(* Proofs about the module WorkerPool, for any bags, number of workers and *)
(* bounds.  A line that is in the queue is still to be printed, the lines  *)
(* of a bag grow along the queue, and the last of them ends where the      *)
(* bag's stream was cut: what a bag has written is printed, in the queue   *)
(* or in its worker's buffer.                                              *)
(***************************************************************************)
EXTENDS WorkerPool, TLAPS

\* What the worker of each bag has put into the queue so far.
Emitted == [b \in Bags |-> written[b] - buffer[b]]

\* Each line of the queue has something new, and no more than was put there.
FreshLines ==
  \A i \in 1..Len(queue) : /\ printed[queue[i].bag] < queue[i].upto
                           /\ queue[i].upto <= Emitted[queue[i].bag]

GrowingLines ==
  \A i, j \in 1..Len(queue) :
    i < j /\ queue[i].bag = queue[j].bag => queue[i].upto < queue[j].upto

\* All that was put there is printed, or a line of the queue reaches that far.
NoneLost ==
  \A b \in Bags : \/ printed[b] = Emitted[b]
                  \/ \E i \in 1..Len(queue) : queue[i].bag = b /\ queue[i].upto = Emitted[b]

\* Only a running analysis has text in its buffer.
Buffers ==
  \A b \in Bags : /\ buffer[b] <= written[b]
                  /\ task[b] \in {"waiting", "flushed", "returned"} => buffer[b] = 0

Futures ==
  \A b \in Bags : /\ future[b] = "done" => task[b] = "returned"
                  /\ future[b] = "broken" => broken
                  /\ b \notin pending => future[b] # "pending"

\* The parent ended on an empty queue, and only analyses that were broken off
\* can have put anything there since.
Ending ==
  parent = "done" => /\ pending = {}
                     /\ \A i \in 1..Len(queue) : future[queue[i].bag] # "done"

Lines == FreshLines /\ GrowingLines /\ NoneLost
IInv  == TypeOK /\ Lines /\ Buffers /\ Futures /\ Ending

-----------------------------------------------------------------------------
(* The queue.                                                              *)

LEMMA AppendFacts ==
  ASSUME NEW S, NEW q \in Seq(S), NEW e \in S
  PROVE  /\ Append(q, e) \in Seq(S) /\ Len(Append(q, e)) = Len(q) + 1
         /\ Append(q, e)[Len(q) + 1] = e
         /\ \A i \in 1..Len(q) : Append(q, e)[i] = q[i]
OBVIOUS

LEMMA TailFacts ==
  ASSUME NEW S, NEW q \in Seq(S), q # <<>>
  PROVE  /\ Tail(q) \in Seq(S) /\ Len(Tail(q)) = Len(q) - 1 /\ Len(q) \in Nat \ {0}
         /\ Head(q) = q[1] /\ q[1] \in S
         /\ \A i \in 1..Len(q) - 1 : Tail(q)[i] = q[i + 1]
OBVIOUS

\* A worker that puts a line which reaches further than its lines before.
LEMMA PutKeepsLines ==
  ASSUME TypeOK, Lines, NEW b \in Bags, NEW n \in 0..MaxChunks, Put(b, n),
         Emitted[b] < n, Emitted'[b] = n, UNCHANGED printed,
         \A c \in Bags \ {b} : Emitted'[c] = Emitted[c],
         \A c \in Bags : Emitted[c] \in Int
  PROVE  queue' \in Seq(Line) /\ Lines'
<1> DEFINE line == [bag |-> b, upto |-> n]
<1>1. line \in Line
  BY DEF Line
<1>2. queue \in Seq(Line) /\ printed \in [Bags -> 0..MaxChunks] /\ MaxChunks \in Nat
  BY BoundsAssumption DEF TypeOK
<1>3. /\ queue' \in Seq(Line) /\ Len(queue') = Len(queue) + 1 /\ queue'[Len(queue) + 1] = line
      /\ \A i \in 1..Len(queue) : queue'[i] = queue[i]
  BY <1>1, <1>2, AppendFacts DEF Put
<1>4. Len(queue) \in Nat /\ \A i \in 1..Len(queue) : queue[i] \in Line
  BY <1>2
<1>5. \A i \in 1..Len(queue) : queue[i].bag \in Bags /\ queue[i].upto \in Nat
  BY <1>2, <1>4 DEF Line
<1>6. printed[b] <= Emitted[b]
  <2>1. CASE printed[b] = Emitted[b]
    BY <2>1, <1>2
  <2>2. CASE \E i \in 1..Len(queue) : queue[i].bag = b /\ queue[i].upto = Emitted[b]
    BY <2>2, <1>2, <1>5 DEF Lines, FreshLines
  <2>3. QED
    BY <2>1, <2>2 DEF Lines, NoneLost
<1>7. \A i \in 1..Len(queue) : queue[i].bag = b => queue[i].upto < n
  BY <1>5 DEF Lines, FreshLines
<1>8. FreshLines'
  <2> SUFFICES ASSUME NEW i \in 1..Len(queue')
               PROVE  /\ printed'[queue'[i].bag] < queue'[i].upto
                      /\ queue'[i].upto <= Emitted'[queue'[i].bag]
    BY DEF FreshLines
  <2>1. CASE i \in 1..Len(queue)
    <3>1. queue'[i] = queue[i] /\ queue[i].bag \in Bags
      BY <2>1, <1>3, <1>5
    <3>2. Emitted[queue[i].bag] <= Emitted'[queue[i].bag]
      BY <3>1
    <3>3. QED
      BY <2>1, <3>1, <3>2, <1>5 DEF Lines, FreshLines
  <2>2. CASE i = Len(queue) + 1
    BY <2>2, <1>2, <1>3, <1>6
  <2>3. QED
    BY <2>1, <2>2, <1>3, <1>4
<1>9. GrowingLines'
  <2> SUFFICES ASSUME NEW i \in 1..Len(queue'), NEW j \in 1..Len(queue'),
                      i < j, queue'[i].bag = queue'[j].bag
               PROVE  queue'[i].upto < queue'[j].upto
    BY DEF GrowingLines
  <2>1. i \in 1..Len(queue) /\ queue'[i] = queue[i]
    BY <1>3, <1>4
  <2>2. CASE j \in 1..Len(queue)
    BY <2>1, <2>2, <1>3 DEF Lines, GrowingLines
  <2>3. CASE j = Len(queue) + 1
    BY <2>1, <2>3, <1>3, <1>7
  <2>4. QED
    BY <2>2, <2>3, <1>3, <1>4
<1>10. NoneLost'
  <2> SUFFICES ASSUME NEW c \in Bags
               PROVE  \/ printed'[c] = Emitted'[c]
                      \/ \E i \in 1..Len(queue') : queue'[i].bag = c /\ queue'[i].upto = Emitted'[c]
    BY DEF NoneLost
  <2>1. CASE c = b
    <3>1. Len(queue) + 1 \in 1..Len(queue')
      BY <1>3, <1>4
    <3>2. QED
      BY <2>1, <3>1, <1>3
  <2>2. CASE c # b
    <3>1. \A i \in 1..Len(queue) : i \in 1..Len(queue')
      BY <1>3, <1>4
    <3>2. QED
      BY <2>2, <3>1, <1>3 DEF Lines, NoneLost
  <2>3. QED
    BY <2>1, <2>2
<1>11. QED
  BY <1>3, <1>8, <1>9, <1>10 DEF Lines

\* The parent prints the oldest line.
LEMMA PrintKeepsLines ==
  ASSUME TypeOK, Lines, PrintOldest, UNCHANGED <<written, buffer>>
  PROVE  /\ queue' \in Seq(Line) /\ printed' \in [Bags -> 0..MaxChunks] /\ Lines'
         /\ \A b \in Bags : printed'[b] >= printed[b]
         /\ printed' # printed
         /\ \A i \in 1..Len(queue') : \E j \in 1..Len(queue) : queue'[i] = queue[j]
<1> DEFINE bag  == queue[1].bag
           upto == queue[1].upto
<1>1. queue \in Seq(Line) /\ queue # <<>> /\ MaxChunks \in Nat
      /\ printed \in [Bags -> 0..MaxChunks]
  BY BoundsAssumption DEF TypeOK, PrintOldest
<1>2. /\ queue' \in Seq(Line) /\ Len(queue') = Len(queue) - 1 /\ Len(queue) \in Nat \ {0}
      /\ Head(queue) = queue[1] /\ queue[1] \in Line
      /\ \A i \in 1..Len(queue) - 1 : queue'[i] = queue[i + 1]
  BY <1>1, TailFacts DEF PrintOldest
<1>3. bag \in Bags /\ upto \in 0..MaxChunks
  BY <1>2 DEF Line
<1>4. printed' = [printed EXCEPT ![bag] = upto]
  BY <1>2 DEF PrintOldest
<1>5. printed' \in [Bags -> 0..MaxChunks]
  BY <1>1, <1>3, <1>4
<1>6. printed[bag] < upto /\ upto <= Emitted[bag]
  BY <1>2 DEF Lines, FreshLines
<1>7. printed'[bag] = upto /\ \A b \in Bags \ {bag} : printed'[b] = printed[b]
  BY <1>1, <1>3, <1>4
<1>8. \A b \in Bags : printed'[b] >= printed[b]
  BY <1>1, <1>3, <1>6, <1>7
<1>9. printed' # printed
  BY <1>1, <1>3, <1>6, <1>7
<1>10. \A i \in 1..Len(queue') : /\ i \in 1..Len(queue) - 1
                                 /\ i + 1 \in 1..Len(queue) /\ 1 < i + 1
                                 /\ queue'[i] = queue[i + 1]
  BY <1>2
<1>11. \A i \in 1..Len(queue) : queue[i].bag \in Bags /\ queue[i].upto \in Nat
  <2>1. \A i \in 1..Len(queue) : queue[i] \in Line
    BY <1>1
  <2>2. QED
    BY <1>1, <2>1 DEF Line
<1>12. Emitted' = Emitted
  BY DEF Emitted
<1>13. FreshLines'
  <2> SUFFICES ASSUME NEW i \in 1..Len(queue')
               PROVE  /\ printed'[queue'[i].bag] < queue'[i].upto
                      /\ queue'[i].upto <= Emitted[queue'[i].bag]
    BY <1>12 DEF FreshLines
  <2>1. /\ i + 1 \in 1..Len(queue) /\ 1 < i + 1 /\ queue'[i] = queue[i + 1]
        /\ 1 \in 1..Len(queue)
    BY <1>2, <1>10
  <2>2. queue[i + 1].upto <= Emitted[queue[i + 1].bag]
        /\ printed[queue[i + 1].bag] < queue[i + 1].upto
    BY <2>1 DEF Lines, FreshLines
  <2>3. CASE queue[i + 1].bag = bag
    <3>1. upto < queue[i + 1].upto
      BY <2>1, <2>3 DEF Lines, GrowingLines
    <3>2. QED
      BY <2>1, <2>2, <2>3, <3>1, <1>7
  <2>4. CASE queue[i + 1].bag # bag
    BY <2>1, <2>2, <2>4, <1>7, <1>11
  <2>5. QED
    BY <2>3, <2>4
<1>14. GrowingLines'
  <2> SUFFICES ASSUME NEW i \in 1..Len(queue'), NEW j \in 1..Len(queue'),
                      i < j, queue'[i].bag = queue'[j].bag
               PROVE  queue'[i].upto < queue'[j].upto
    BY DEF GrowingLines
  <2>1. /\ i + 1 \in 1..Len(queue) /\ j + 1 \in 1..Len(queue) /\ i + 1 < j + 1
        /\ queue'[i] = queue[i + 1] /\ queue'[j] = queue[j + 1]
    BY <1>2, <1>10
  <2>2. QED
    BY <2>1 DEF Lines, GrowingLines
<1>15. NoneLost'
  <2> SUFFICES ASSUME NEW b \in Bags
               PROVE  \/ printed'[b] = Emitted[b]
                      \/ \E i \in 1..Len(queue') : queue'[i].bag = b /\ queue'[i].upto = Emitted[b]
    BY <1>12 DEF NoneLost
  <2>1. CASE printed[b] = Emitted[b]
    <3>1. b # bag
      BY <2>1, <1>1, <1>3, <1>6
    <3>2. QED
      BY <2>1, <3>1, <1>7
  <2>2. ASSUME NEW i \in 1..Len(queue), queue[i].bag = b, queue[i].upto = Emitted[b]
        PROVE  \/ printed'[b] = Emitted[b]
               \/ \E k \in 1..Len(queue') : queue'[k].bag = b /\ queue'[k].upto = Emitted[b]
    <3>1. CASE i = 1
      BY <2>2, <3>1, <1>7
    <3>2. CASE i # 1
      <4>1. i - 1 \in 1..Len(queue') /\ (i - 1) + 1 = i
        BY <3>2, <1>2
      <4>2. queue'[i - 1] = queue[i]
        BY <4>1, <1>10
      <4>3. QED
        BY <2>2, <4>1, <4>2
    <3>3. QED
      BY <3>1, <3>2
  <2>3. QED
    BY <2>1, <2>2 DEF Lines, NoneLost
<1>16. QED
  BY <1>2, <1>5, <1>8, <1>9, <1>10, <1>13, <1>14, <1>15 DEF Lines

\* A step that neither emits nor prints.
LEMMA LinesStay ==
  ASSUME Lines, UNCHANGED <<written, buffer, queue, printed>>
  PROVE  Lines'
BY DEF Lines, FreshLines, GrowingLines, NoneLost, Emitted

LEMMA EmittedIsInt ==
  ASSUME TypeOK
  PROVE  \A b \in Bags : Emitted[b] \in Int /\ Emitted[b] = written[b] - buffer[b]
BY BoundsAssumption DEF TypeOK, Emitted

-----------------------------------------------------------------------------
(* The workers.                                                            *)

\* The analysis of a bag puts a line while its future is pending.
LEMMA PutKeepsEnding ==
  ASSUME IInv, NEW b \in Bags, NEW n \in 0..MaxChunks, Put(b, n), task[b] = "running",
         UNCHANGED <<poolVars, parent, pending>>
  PROVE  Ending'
<1> SUFFICES ASSUME parent = "done", NEW i \in 1..Len(queue')
             PROVE  pending = {} /\ future[queue'[i].bag] # "done"
  BY DEF Ending, IInv, poolVars
<1>1. pending = {}
  BY DEF IInv, Ending
<1>2. future[b] # "done"
  BY DEF IInv, Futures
<1>3. [bag |-> b, upto |-> n] \in Line /\ queue \in Seq(Line)
  BY DEF Line, IInv, TypeOK
<1>4. /\ Len(queue') = Len(queue) + 1 /\ queue'[Len(queue) + 1] = [bag |-> b, upto |-> n]
      /\ \A k \in 1..Len(queue) : queue'[k] = queue[k]
  BY <1>3, AppendFacts DEF Put
<1>5. CASE i = Len(queue) + 1
  BY <1>1, <1>2, <1>4, <1>5
<1>6. CASE i \in 1..Len(queue)
  BY <1>1, <1>4, <1>6 DEF IInv, Ending
<1>7. Len(queue) \in Nat
  BY <1>3
<1>8. QED
  BY <1>4, <1>5, <1>6, <1>7

LEMMA WriteLineStep ==
  ASSUME IInv, NEW b \in Bags, WriteLine(b)
  PROVE  IInv'
<1> USE DEF IInv
<1>1. /\ written \in [Bags -> 0..MaxChunks] /\ buffer \in [Bags -> 0..MaxChunks]
      /\ MaxChunks \in Nat /\ buffer[b] <= written[b] /\ written[b] < MaxChunks
  BY BoundsAssumption DEF TypeOK, Buffers, WriteLine
<1>2. /\ written' = [written EXCEPT ![b] = written[b] + 1]
      /\ buffer' = [buffer EXCEPT ![b] = 0]
  BY DEF WriteLine
<1>3. /\ written' \in [Bags -> 0..MaxChunks] /\ buffer' \in [Bags -> 0..MaxChunks]
      /\ written'[b] = written[b] + 1 /\ buffer'[b] = 0
      /\ \A c \in Bags \ {b} : written'[c] = written[c] /\ buffer'[c] = buffer[c]
  BY <1>1, <1>2
<1>4. Put(b, written'[b]) /\ written'[b] \in 0..MaxChunks
  BY <1>3 DEF WriteLine
<1>5. /\ Emitted[b] < written'[b] /\ Emitted'[b] = written'[b]
      /\ \A c \in Bags \ {b} : Emitted'[c] = Emitted[c]
  BY <1>1, <1>3 DEF Emitted
<1>6. queue' \in Seq(Line) /\ Lines'
  BY <1>4, <1>5, EmittedIsInt, PutKeepsLines DEF WriteLine, parentVars
<1>7. TypeOK'
  BY <1>3, <1>6 DEF TypeOK, WriteLine, poolVars, parentVars
<1>8. Buffers'
  BY <1>1, <1>3 DEF Buffers, WriteLine
<1>9. Futures'
  BY DEF Futures, WriteLine, poolVars, parentVars
<1>10. Ending'
  BY <1>4, PutKeepsEnding DEF WriteLine, parentVars
<1>11. QED
  BY <1>6, <1>7, <1>8, <1>9, <1>10

LEMMA WritePartStep ==
  ASSUME IInv, NEW b \in Bags, WritePart(b)
  PROVE  IInv'
<1> USE DEF IInv
<1>1. /\ written \in [Bags -> 0..MaxChunks] /\ buffer \in [Bags -> 0..MaxChunks]
      /\ MaxChunks \in Nat /\ buffer[b] <= written[b] /\ written[b] < MaxChunks
  BY BoundsAssumption DEF TypeOK, Buffers, WritePart
<1>2. /\ written' = [written EXCEPT ![b] = written[b] + 1]
      /\ buffer' = [buffer EXCEPT ![b] = buffer[b] + 1]
  BY DEF WritePart
<1>3. /\ written' \in [Bags -> 0..MaxChunks] /\ buffer' \in [Bags -> 0..MaxChunks]
      /\ written'[b] = written[b] + 1 /\ buffer'[b] = buffer[b] + 1
      /\ \A c \in Bags \ {b} : written'[c] = written[c] /\ buffer'[c] = buffer[c]
  BY <1>1, <1>2
<1>4. \A c \in Bags : written'[c] - buffer'[c] = written[c] - buffer[c]
  BY <1>1, <1>3
<1>5. Emitted' = Emitted
  BY <1>4 DEF Emitted
<1>6. Lines'
  BY <1>5 DEF Lines, FreshLines, GrowingLines, NoneLost, WritePart, parentVars
<1>7. TypeOK'
  BY <1>3 DEF TypeOK, WritePart, poolVars, parentVars
<1>8. Buffers'
  BY <1>1, <1>3 DEF Buffers, WritePart
<1>9. Futures' /\ Ending'
  BY DEF Futures, Ending, WritePart, poolVars, parentVars
<1>10. QED
  BY <1>6, <1>7, <1>8, <1>9

LEMMA FlushStep ==
  ASSUME IInv, NEW b \in Bags, Flush(b)
  PROVE  IInv'
<1> USE DEF IInv
<1>1. /\ written \in [Bags -> 0..MaxChunks] /\ buffer \in [Bags -> 0..MaxChunks]
      /\ task \in [Bags -> {"waiting", "running", "flushed", "returned", "gone"}]
      /\ MaxChunks \in Nat /\ buffer[b] <= written[b] /\ task[b] = "running"
  BY BoundsAssumption DEF TypeOK, Buffers, Flush
<1>2. /\ task' = [task EXCEPT ![b] = "flushed"] /\ buffer' = [buffer EXCEPT ![b] = 0]
      /\ UNCHANGED <<written, poolVars, parentVars>>
  BY DEF Flush
<1>3. /\ task' \in [Bags -> {"waiting", "running", "flushed", "returned", "gone"}]
      /\ buffer' \in [Bags -> 0..MaxChunks] /\ buffer'[b] = 0 /\ task'[b] = "flushed"
      /\ \A c \in Bags \ {b} : task'[c] = task[c] /\ buffer'[c] = buffer[c]
  BY <1>1, <1>2
<1>4. queue' \in Seq(Line) /\ Lines' /\ Ending'
  <2>1. CASE buffer[b] > 0
    <3>1. Put(b, written[b]) /\ written[b] \in 0..MaxChunks
      BY <1>1, <2>1 DEF Flush
    <3>2. /\ Emitted[b] < written[b] /\ Emitted'[b] = written[b]
          /\ \A c \in Bags \ {b} : Emitted'[c] = Emitted[c]
      BY <1>1, <1>2, <1>3, <2>1 DEF Emitted
    <3>3. queue' \in Seq(Line) /\ Lines'
      BY <1>2, <3>1, <3>2, EmittedIsInt, PutKeepsLines DEF parentVars
    <3>4. Ending'
      BY <1>1, <1>2, <3>1, PutKeepsEnding DEF parentVars
    <3>5. QED
      BY <3>3, <3>4
  <2>2. CASE ~(buffer[b] > 0)
    <3>1. queue' = queue /\ buffer[b] = 0
      BY <1>1, <2>2 DEF Flush
    <3>2. buffer' = buffer
      BY <1>1, <1>2, <3>1
    <3>3. Lines'
      BY <1>2, <3>1, <3>2, LinesStay DEF parentVars
    <3>4. QED
      BY <1>2, <3>1, <3>3 DEF TypeOK, Ending, poolVars, parentVars
  <2>3. QED
    BY <2>1, <2>2
<1>5. TypeOK'
  BY <1>2, <1>3, <1>4 DEF TypeOK, poolVars, parentVars
<1>6. Buffers'
  BY <1>1, <1>2, <1>3 DEF Buffers
<1>7. Futures'
  <2>1. future[b] # "done"
    BY <1>1 DEF Futures
  <2>2. QED
    BY <1>2, <1>3, <2>1 DEF Futures, poolVars, parentVars
<1>8. QED
  BY <1>4, <1>5, <1>6, <1>7

LEMMA ReturnResultStep ==
  ASSUME IInv, NEW b \in Bags, ReturnResult(b)
  PROVE  IInv'
<1> USE DEF IInv
<1>1. /\ task \in [Bags -> {"waiting", "running", "flushed", "returned", "gone"}]
      /\ future \in [Bags -> {"pending", "done", "broken"}]
      /\ task[b] = "flushed" /\ ~broken
  BY DEF TypeOK, ReturnResult
<1>2. /\ task' = [task EXCEPT ![b] = "returned"] /\ future' = [future EXCEPT ![b] = "done"]
      /\ UNCHANGED <<written, buffer, queue, dead, broken, parentVars>>
  BY DEF ReturnResult
<1>3. Lines'
  BY <1>2, LinesStay DEF parentVars
<1>4. TypeOK'
  BY <1>1, <1>2 DEF TypeOK, parentVars
<1>5. Buffers'
  BY <1>1, <1>2 DEF Buffers
<1>6. Futures'
  BY <1>1, <1>2 DEF Futures, parentVars
<1>7. b \in pending
  BY <1>1 DEF Futures
<1>8. Ending'
  BY <1>2, <1>7 DEF Ending, parentVars
<1>9. QED
  BY <1>3, <1>4, <1>5, <1>6, <1>8

\* A bag is begun, or its worker is lost: nothing but its task changes.
LEMMA TaskStep ==
  ASSUME IInv, NEW b \in Bags, NEW t \in {"running", "gone"},
         task[b] \notin {"returned"}, task' = [task EXCEPT ![b] = t],
         UNCHANGED <<written, buffer, queue, future, broken, parentVars>>,
         dead' \subseteq Bags
  PROVE  IInv'
<1> USE DEF IInv
<1>1. task \in [Bags -> {"waiting", "running", "flushed", "returned", "gone"}]
  BY DEF TypeOK
<1>2. Lines'
  BY LinesStay DEF parentVars
<1>3. TypeOK'
  BY <1>1 DEF TypeOK, parentVars
<1>4. Buffers' /\ Futures' /\ Ending'
  BY <1>1 DEF Buffers, Futures, Ending, parentVars
<1>5. QED
  BY <1>2, <1>3, <1>4

LEMMA BreakPoolStep ==
  ASSUME IInv, BreakPool
  PROVE  IInv'
<1> USE DEF IInv
<1>1. future \in [Bags -> {"pending", "done", "broken"}]
  BY DEF TypeOK
<1>2. /\ future' = [b \in Bags |-> IF future[b] = "pending" THEN "broken" ELSE future[b]]
      /\ broken' = TRUE /\ UNCHANGED <<workerVars, queue, dead, parentVars>>
  BY DEF BreakPool, BreakFutures
<1>3. \A b \in Bags : /\ future'[b] \in {"done", "broken"}
                      /\ future'[b] = "done" => future[b] = "done"
  BY <1>1, <1>2
<1>4. Lines'
  BY <1>2, LinesStay DEF workerVars, parentVars
<1>5. TypeOK'
  BY <1>1, <1>2, <1>3 DEF TypeOK, workerVars, parentVars
<1>6. Buffers' /\ Futures'
  BY <1>2, <1>3 DEF Buffers, Futures, workerVars, parentVars
<1>7. \A i \in 1..Len(queue) : queue[i].bag \in Bags
  <2>1. \A i \in 1..Len(queue) : queue[i] \in Line
    BY DEF TypeOK
  <2>2. QED
    BY <2>1 DEF Line
<1>8. Ending'
  BY <1>2, <1>3, <1>7 DEF Ending, parentVars
<1>9. QED
  BY <1>4, <1>5, <1>6, <1>8

-----------------------------------------------------------------------------
(* The parent.                                                             *)

\* A line is printed, or not, before the parent is done.
LEMMA PrintStep ==
  ASSUME IInv, PrintOldest \/ UNCHANGED <<queue, printed>>, parent # "done",
         parent' \in {"collect", "drain"}, UNCHANGED <<workerVars, poolVars, pending>>
  PROVE  IInv'
<1> USE DEF IInv
<1>1. queue' \in Seq(Line) /\ printed' \in [Bags -> 0..MaxChunks] /\ Lines'
  <2>1. CASE PrintOldest
    BY <2>1, PrintKeepsLines DEF workerVars
  <2>2. CASE UNCHANGED <<queue, printed>>
    BY <2>2, LinesStay DEF workerVars, TypeOK
  <2>3. QED
    BY <2>1, <2>2
<1>2. TypeOK'
  BY <1>1 DEF TypeOK, workerVars, poolVars
<1>3. Buffers' /\ Futures' /\ Ending'
  BY DEF Buffers, Futures, Ending, workerVars, poolVars
<1>4. QED
  BY <1>1, <1>2, <1>3

LEMMA CollectStep ==
  ASSUME IInv, Collect
  PROVE  IInv'
<1> USE DEF IInv
<1>1. Lines'
  BY LinesStay DEF Collect, workerVars
<1>2. TypeOK'
  BY DEF TypeOK, Collect, workerVars, poolVars
<1>3. Buffers' /\ Ending'
  BY DEF Buffers, Ending, Collect, workerVars, poolVars
<1>4. Futures'
  BY DEF Futures, Collect, Finished, workerVars, poolVars
<1>5. QED
  BY <1>1, <1>2, <1>3, <1>4

LEMMA EndDrainStep ==
  ASSUME IInv, EndDrain
  PROVE  IInv'
<1> USE DEF IInv
<1>1. Lines'
  BY LinesStay DEF EndDrain, workerVars
<1>2. TypeOK'
  BY DEF TypeOK, EndDrain, workerVars, poolVars
<1>3. Buffers' /\ Futures'
  BY DEF Buffers, Futures, EndDrain, workerVars, poolVars
<1>4. queue' = <<>>
  BY DEF EndDrain
<1>5. \A i : i \notin 1..Len(queue')
  BY <1>4
<1>6. Ending'
  BY <1>5 DEF Ending, EndDrain
<1>7. QED
  BY <1>1, <1>2, <1>3, <1>6

-----------------------------------------------------------------------------
LEMMA IInvInit == Init => IInv
<1> SUFFICES ASSUME Init PROVE IInv
  OBVIOUS
<1>1. MaxChunks \in Nat
  BY BoundsAssumption
<1>2. queue = <<>> /\ queue \in Seq(Line) /\ \A i : i \notin 1..Len(queue)
  BY DEF Init
<1>3. TypeOK
  <2>1. 0 \in 0..MaxChunks
    BY <1>1
  <2>2. /\ task \in [Bags -> {"waiting", "running", "flushed", "returned", "gone"}]
        /\ written \in [Bags -> 0..MaxChunks] /\ buffer \in [Bags -> 0..MaxChunks]
        /\ future \in [Bags -> {"pending", "done", "broken"}]
        /\ printed \in [Bags -> 0..MaxChunks]
    BY <2>1 DEF Init
  <2>3. parent \in {"get", "collect", "drain", "done"} /\ pending \subseteq Bags
    BY DEF Init
  <2>4. broken \in BOOLEAN /\ dead \subseteq Bags
    BY DEF Init
  <2>5. QED
    BY <1>2, <2>2, <2>3, <2>4 DEF TypeOK
<1>4. FreshLines /\ GrowingLines
  BY <1>2 DEF FreshLines, GrowingLines
<1>5. NoneLost
  BY DEF Init, NoneLost, Emitted
<1>6. Buffers /\ Futures
  BY DEF Init, Buffers, Futures
<1>7. Ending
  BY <1>2 DEF Init, Ending
<1>8. QED
  BY <1>3, <1>4, <1>5, <1>6, <1>7 DEF IInv, Lines

LEMMA IInvStep == IInv /\ [Next]_vars => IInv'
<1> SUFFICES ASSUME IInv, [Next]_vars
             PROVE  IInv'
  OBVIOUS
<1> USE DEF Next, Work, Parent
<1>1. CASE \E b \in Bags : StartTask(b)
  BY <1>1, TaskStep DEF StartTask, poolVars, IInv, TypeOK
<1>2. CASE \E b \in Bags : WriteLine(b)
  BY <1>2, WriteLineStep
<1>3. CASE \E b \in Bags : WritePart(b)
  BY <1>3, WritePartStep
<1>4. CASE \E b \in Bags : Flush(b)
  BY <1>4, FlushStep
<1>5. CASE \E b \in Bags : ReturnResult(b)
  BY <1>5, ReturnResultStep
<1>6. CASE \E b \in Bags : Die(b)
  BY <1>6, TaskStep DEF Die, Busy, IInv, TypeOK
<1>7. CASE \E b \in Bags : Terminate(b)
  BY <1>7, TaskStep DEF Terminate, Busy, poolVars, IInv, TypeOK
<1>8. CASE BreakPool
  BY <1>8, BreakPoolStep
<1>9. CASE GetLine
  BY <1>9, PrintStep DEF GetLine
<1>10. CASE Collect
  BY <1>10, CollectStep
<1>11. CASE DrainLine
  BY <1>11, PrintStep DEF DrainLine
<1>12. CASE EndDrain
  BY <1>12, EndDrainStep
<1>13. CASE Idle \/ UNCHANGED vars
  <2>1. UNCHANGED vars
    BY <1>13 DEF Idle
  <2>2. Lines'
    BY <2>1, LinesStay DEF IInv, vars, workerVars, parentVars
  <2>3. TypeOK' /\ Buffers'
    BY <2>1 DEF IInv, TypeOK, Buffers, vars, workerVars, poolVars, parentVars
  <2>4. Futures' /\ Ending'
    BY <2>1 DEF IInv, Futures, Ending, vars, workerVars, poolVars, parentVars
  <2>5. QED
    BY <2>2, <2>3, <2>4 DEF IInv
<1>14. QED
  BY <1>1, <1>2, <1>3, <1>4, <1>5, <1>6, <1>7, <1>8, <1>9, <1>10, <1>11, <1>12, <1>13

LEMMA IInvHolds == Spec => []IInv
BY IInvInit, IInvStep, PTL DEF Spec

\* The state of the analyzer's main program is well typed.
THEOREM TypeCorrect == Spec => []TypeOK
<1>1. IInv => TypeOK
  BY DEF IInv
<1>2. QED
  BY <1>1, IInvHolds, PTL

\* When the parent has ended, all that a finished analysis printed is printed.
THEOREM NothingLeftOver == Spec => []OutputComplete
<1>1. IInv => OutputComplete
  <2> SUFFICES ASSUME IInv, parent = "done", NEW b \in Bags, future[b] = "done"
               PROVE  printed[b] = written[b]
    BY DEF OutputComplete
  <2>1. Emitted[b] = written[b]
    <3>1. buffer[b] = 0 /\ written[b] \in Nat
      BY BoundsAssumption DEF IInv, Buffers, Futures, TypeOK
    <3>2. QED
      BY <3>1 DEF Emitted
  <2>2. \A i \in 1..Len(queue) : queue[i].bag # b
    BY DEF IInv, Ending
  <2>3. QED
    BY <2>1, <2>2 DEF IInv, Lines, NoneLost
<1>2. QED
  BY <1>1, IInvHolds, PTL

\* The lines of a bag are printed in the order in which they were written, each
\* once.
THEOREM LinesInOrder == Spec => OutputInOrder
<1> DEFINE Ordered == /\ \A b \in Bags : printed'[b] >= printed[b]
                      /\ Len(queue') < Len(queue) => printed' # printed
<1>1. IInv /\ [Next]_vars => [Ordered]_vars
  <2> SUFFICES ASSUME IInv, Next PROVE Ordered
    OBVIOUS
  <2>1. printed \in [Bags -> 0..MaxChunks] /\ MaxChunks \in Nat /\ queue \in Seq(Line)
    BY BoundsAssumption DEF IInv, TypeOK
  <2>2. CASE (GetLine /\ PrintOldest) \/ DrainLine
    BY <2>2, PrintKeepsLines DEF IInv, GetLine, DrainLine, workerVars
  <2>3. CASE UNCHANGED <<queue, printed>>
    BY <2>1, <2>3
  <2>4. ASSUME NEW b \in Bags, NEW n \in 0..MaxChunks, Put(b, n), UNCHANGED printed
        PROVE  Ordered
    <3>1. [bag |-> b, upto |-> n] \in Line
      BY DEF Line
    <3>2. Len(queue') = Len(queue) + 1
      BY <2>1, <2>4, <3>1, AppendFacts DEF Put
    <3>3. QED
      BY <2>1, <2>4, <3>2
  <2>5. CASE \E b \in Bags : WriteLine(b)
    <3>1. PICK b \in Bags : WriteLine(b)
      BY <2>5
    <3>2. written'[b] \in 0..MaxChunks
      BY <2>1, <3>1 DEF IInv, TypeOK, WriteLine
    <3>3. QED
      BY <2>4, <3>1, <3>2 DEF WriteLine, parentVars
  <2>6. CASE \E b \in Bags : Flush(b)
    <3>1. PICK b \in Bags : Flush(b)
      BY <2>6
    <3>2. written[b] \in 0..MaxChunks /\ UNCHANGED printed
      BY <3>1 DEF IInv, TypeOK, Flush, parentVars
    <3>3. QED
      BY <2>3, <2>4, <3>1, <3>2 DEF Flush
  <2>7. CASE \E b \in Bags : StartTask(b) \/ WritePart(b) \/ ReturnResult(b) \/ Die(b) \/ Terminate(b)
    BY <2>3, <2>7 DEF StartTask, WritePart, ReturnResult, Die, Terminate, parentVars
  <2>8. CASE BreakPool \/ Collect \/ EndDrain \/ Idle \/ (GetLine /\ ~PrintOldest)
    BY <2>3, <2>8 DEF BreakPool, Collect, EndDrain, Idle, GetLine, vars, parentVars
  <2>9. QED
    BY <2>2, <2>5, <2>6, <2>7, <2>8 DEF Next, Work, Parent
<1>2. QED
  BY <1>1, IInvHolds, PTL DEF Spec, OutputInOrder

===============================================================================
