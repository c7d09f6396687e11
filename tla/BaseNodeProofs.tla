----------------------------- MODULE BaseNodeProofs -----------------------------
(***************************************************************************)
(* Theorems about BaseNode for every choice of rated loops, diagnostics    *)
(* and number of events.                                                   *)
(***************************************************************************)
EXTENDS BaseNode, TLAPS

AllVars == <<pc, running, initStep, nodeState, timers, loopOk, timing, unreported,
             diagnostics, readyToArm, beat, report, events>>

LEMMA VarsAreAll == UNCHANGED vars => UNCHANGED AllVars
BY DEF vars, AllVars, threadVars, timingVars, dataVars, topicVars

LEMMA TenSteps == Len(InitSteps) = 10
BY DEF InitSteps

-----------------------------------------------------------------------------
(* Type correctness.                                                       *)

LEMMA TimingTypes ==
  /\ NoError \in TimingDiagnostics
  /\ [message |-> "INITIALIZING", loop |-> "none"] \in TimingDiagnostics
  /\ \A l \in Loops : Overran(l) \in TimingDiagnostics
BY DEF NoError, Overran, TimingDiagnostics

LEMMA TypeInit == Init => TypeOK
<1> SUFFICES ASSUME Init PROVE TypeOK
  OBVIOUS
<1>1. timing \in TimingDiagnostics
  BY TimingTypes DEF Init
<1>2. report \in [diagnostics : DiagnosticLists, timing : TimingDiagnostics,
                  ready : BOOLEAN, stamp : Stamp]
  BY <1>1, DiagnosticsAssumption DEF Init, Stamp
<1>3. beat \in [state : NodeStates \cup {"none"}, stamp : Stamp]
  BY DEF Init, Stamp
<1>4. events \in 0..MaxEvents /\ initStep \in 0..10
  BY MaxEventsAssumption DEF Init
<1>5. /\ timers \in [Loops -> {"absent", "armed", "cancelled"}]
      /\ loopOk \in [Loops -> BOOLEAN]
      /\ unreported \subseteq Loops
  BY DEF Init
<1>6. /\ pc \in Places
      /\ running \in Loops \cup {"message", "none"}
      /\ nodeState \in NodeStates
      /\ diagnostics \in DiagnosticLists
      /\ readyToArm \in BOOLEAN
  BY DiagnosticsAssumption DEF Init, Places, NodeStates
<1>7. QED
  BY <1>1, <1>2, <1>3, <1>4, <1>5, <1>6 DEF TypeOK

LEMMA TypeMain == TypeOK /\ Main => TypeOK'
<1> SUFFICES ASSUME TypeOK, Main PROVE TypeOK'
  OBVIOUS
<1> USE DEF TypeOK, threadVars, timingVars, dataVars, topicVars, Places, NodeStates
<1>1. CASE BeginInit
  BY <1>1 DEF BeginInit, RequestNodeState
<1>2. CASE InitStepSucceeds
  BY <1>2, TenSteps DEF InitStepSucceeds
<1>3. CASE InitStepFails
  BY <1>3 DEF InitStepFails, Ended
<1>4. CASE Start
  BY <1>4 DEF Start, RequestNodeState, CreateTimers
<1>5. CASE StartSpinning
  BY <1>5 DEF StartSpinning, RequestNodeState
<1>6. QED
  BY <1>1, <1>2, <1>3, <1>4, <1>5 DEF Main

LEMMA TypeExecutor ==
  TypeOK /\ (Timer10Hz \/ Timer1Hz \/ (\E l \in OtherLoops : TimerOther(l)) \/ Message \/ Shutdown)
    => TypeOK'
<1> SUFFICES ASSUME TypeOK,
                    Timer10Hz \/ Timer1Hz \/ (\E l \in OtherLoops : TimerOther(l))
                      \/ Message \/ Shutdown
             PROVE  TypeOK'
  OBVIOUS
<1> USE DEF TypeOK, threadVars, timingVars, dataVars, topicVars, Places
<1>1. CASE Timer10Hz
  BY <1>1 DEF Timer10Hz, EnterTimer, EnterCallback, Stamp, Flip, Loops, BaseLoops
<1>2. CASE Timer1Hz
  <2>1. TimingSummary \in TimingDiagnostics
    BY TimingTypes DEF TimingSummary
  <2>2. Flip(report.stamp) \in Stamp
    BY DEF Stamp, Flip
  <2>3. QED
    BY <1>2, <2>1, <2>2 DEF Timer1Hz, EnterTimer, EnterCallback, Loops, BaseLoops
<1>3. CASE \E l \in OtherLoops : TimerOther(l)
  BY <1>3 DEF TimerOther, EnterTimer, EnterCallback, OtherLoops
<1>4. CASE Message
  BY <1>4 DEF Message, EnterCallback
<1>5. CASE Shutdown
  BY <1>5 DEF Shutdown, Ended
<1>6. QED
  BY <1>1, <1>2, <1>3, <1>4, <1>5

LEMMA DisturbCounts == events \in 0..MaxEvents /\ Disturb => events' \in 0..MaxEvents
BY MaxEventsAssumption DEF Disturb

LEMMA TypeUser == TypeOK /\ User => TypeOK'
<1> SUFFICES ASSUME TypeOK, User PROVE TypeOK'
  OBVIOUS
<1> USE DisturbCounts DEF TypeOK, threadVars, timingVars, dataVars, topicVars, Places
<1>1. ASSUME NEW d \in DiagnosticLists, SetDiagnostics(d) PROVE TypeOK'
  BY <1>1 DEF SetDiagnostics
<1>2. ASSUME NEW ready \in BOOLEAN, SetReadyToArm(ready) PROVE TypeOK'
  BY <1>2 DEF SetReadyToArm
<1>3. CASE ReturnFromMessage
  BY <1>3 DEF ReturnFromMessage, LeaveCallback
<1>4. ASSUME NEW l \in Loops, ReturnSlow(l) PROVE TypeOK'
  BY <1>4, TimingTypes DEF ReturnSlow, LeaveCallback, MeasureSlow
<1>5. ASSUME NEW l \in Loops, ReturnQuick(l) PROVE TypeOK'
  BY <1>5 DEF ReturnQuick, LeaveCallback, MeasureQuick
<1>6. CASE Throw
  BY <1>6 DEF Throw, Ended
<1>7. CASE InitAgain
  BY <1>7 DEF InitAgain, RequestNodeState, NodeStates, Ended
<1>8. CASE StartAgain
  BY <1>8 DEF StartAgain, RequestNodeState, NodeStates, Ended
<1>9. CASE Reset
  BY <1>9 DEF Reset, RequestNodeState, CancelTimers, NodeStates, InReset
<1>10. QED
  BY <1>1, <1>2, <1>3, <1>4, <1>5, <1>6, <1>7, <1>8, <1>9 DEF User, Return

LEMMA TypeReset == TypeOK /\ ContinueReset => TypeOK'
<1> SUFFICES ASSUME TypeOK, ContinueReset PROVE TypeOK'
  OBVIOUS
<1> USE DEF TypeOK, threadVars, timingVars, dataVars, topicVars, Places, InReset
<1>1. CASE ResetFails
  BY <1>1 DEF ResetFails
<1>2. CASE ResetProceeds
  BY <1>2 DEF ResetProceeds
<1>3. CASE ResetSucceeds
  BY <1>3 DEF ResetSucceeds, RequestNodeState, RearmTimers, NodeStates
<1>4. QED
  BY <1>1, <1>2, <1>3 DEF ContinueReset

\* The type invariant, for every node configuration.
THEOREM TypeCorrect == Spec => []TypeOK
<1>1. TypeOK /\ [Next]_vars => TypeOK'
  <2>1. TypeOK /\ UNCHANGED vars => TypeOK'
    BY VarsAreAll DEF AllVars, TypeOK
  <2>2. QED
    BY <2>1, TypeMain, TypeExecutor, TypeUser, TypeReset DEF Next, Finished
<1>2. QED
  BY TypeInit, <1>1, PTL DEF Spec

-----------------------------------------------------------------------------
(* Timers and node state.  What TimersFollowState says of a spinning node  *)
(* is not inductive: the strengthening says where the timers and the state *)
(* are at every place of the thread, inside init(), start() and reset().   *)

Created == BaseLoops \cup RatedLoops

TimersAre(condition) ==
  timers = [l \in Loops |-> IF l \in Created THEN condition ELSE "absent"]

Alive  == nodeState = "RUNNING" /\ TimersAre("armed")
Silent == nodeState = "STARTING" /\ TimersAre("cancelled")

IInv ==
  /\ pc = "constructed" => nodeState = "UNKNOWN"
  /\ pc \in {"init", "start"} => nodeState = "INITIALIZING"
  /\ pc = "timersCreated" => nodeState = "STARTING" /\ TimersAre("armed")
  /\ pc \in {"spin", "callback"} => Alive \/ Silent
  /\ pc \in InReset => Silent

LEMMA IInvImplies == IInv => TimersFollowState
BY DEF IInv, TimersFollowState, Alive, Silent, TimersAre, Created

LEMMA IInvInit == Init => IInv
BY DEF Init, IInv, InReset

LEMMA IInvStutter == IInv /\ UNCHANGED vars => IInv'
BY VarsAreAll DEF AllVars, IInv, Alive, Silent, TimersAre

LEMMA IInvMain == IInv /\ Main => IInv'
<1> SUFFICES ASSUME IInv, Main PROVE IInv'
  OBVIOUS
<1> USE DEF IInv, InReset, Alive, Silent, TimersAre
<1>1. CASE BeginInit
  BY <1>1 DEF BeginInit, RequestNodeState
<1>2. CASE InitStepSucceeds
  BY <1>2 DEF InitStepSucceeds
<1>3. CASE InitStepFails
  BY <1>3 DEF InitStepFails
<1>4. CASE Start
  BY <1>4 DEF Start, RequestNodeState, CreateTimers, Created
<1>5. CASE StartSpinning
  BY <1>5 DEF StartSpinning, RequestNodeState
<1>6. QED
  BY <1>1, <1>2, <1>3, <1>4, <1>5 DEF Main

LEMMA IInvExecutor ==
  IInv /\ (Timer10Hz \/ Timer1Hz \/ (\E l \in OtherLoops : TimerOther(l)) \/ Message \/ Shutdown)
    => IInv'
BY DEF Timer10Hz, Timer1Hz, TimerOther, Message, Shutdown, EnterTimer, EnterCallback,
       IInv, InReset, Alive, Silent, TimersAre

LEMMA IInvUser == IInv /\ User => IInv'
<1> SUFFICES ASSUME IInv, User PROVE IInv'
  OBVIOUS
<1> USE DEF IInv, InReset, Alive, Silent, TimersAre, threadVars
<1>1. ASSUME NEW d \in DiagnosticLists, SetDiagnostics(d) PROVE IInv'
  BY <1>1 DEF SetDiagnostics
<1>2. ASSUME NEW ready \in BOOLEAN, SetReadyToArm(ready) PROVE IInv'
  BY <1>2 DEF SetReadyToArm
<1>3. ASSUME LeaveCallback PROVE IInv'
  BY <1>3 DEF LeaveCallback
<1>4. CASE Return
  BY <1>3, <1>4 DEF Return, ReturnFromMessage, ReturnSlow, ReturnQuick
<1>5. CASE Throw
  BY <1>5 DEF Throw
<1>6. CASE InitAgain
  BY <1>6 DEF InitAgain, RequestNodeState
<1>7. CASE StartAgain
  BY <1>7 DEF StartAgain
<1>8. CASE Reset
  \* Alive or Silent, every timer that exists is cancelled.
  BY <1>8 DEF Reset, RequestNodeState, CancelTimers, Loops
<1>9. QED
  BY <1>1, <1>2, <1>4, <1>5, <1>6, <1>7, <1>8 DEF User

LEMMA IInvReset == IInv /\ ContinueReset => IInv'
<1> SUFFICES ASSUME IInv, ContinueReset PROVE IInv'
  OBVIOUS
<1> USE DEF IInv, InReset, Alive, Silent, TimersAre
<1>1. CASE ResetFails
  BY <1>1 DEF ResetFails
<1>2. CASE ResetProceeds
  BY <1>2 DEF ResetProceeds
<1>3. CASE ResetSucceeds
  BY <1>3 DEF ResetSucceeds, RequestNodeState, RearmTimers
<1>4. QED
  BY <1>1, <1>2, <1>3 DEF ContinueReset

LEMMA IInvStep == IInv /\ [Next]_vars => IInv'
BY IInvStutter, IInvMain, IInvExecutor, IInvUser, IInvReset DEF Next, Finished

LEMMA IInvHolds == Spec => []IInv
BY IInvInit, IInvStep, PTL DEF Spec

\* No reset(), failed, retried or repeated, leaves a spinning node with some
\* of its timers: RUNNING has them all, STARTING has none.
THEOREM TimersSafe == Spec => []TimersFollowState
BY IInvHolds, IInvImplies, PTL

-----------------------------------------------------------------------------
(* Publications.                                                           *)

LEMMA PublishedByTimers ==
  ASSUME [Next]_vars, topicVars' # topicVars
  PROVE  Timer10Hz \/ Timer1Hz
<1>1. Next
  BY DEF vars
<1>2. QED
  BY <1>1 DEF Next, Main, BeginInit, InitStepSucceeds, InitStepFails, Start, StartSpinning,
              TimerOther, Message, Shutdown, User, SetDiagnostics, SetReadyToArm, Return,
              ReturnFromMessage, ReturnSlow, ReturnQuick, LeaveCallback, Throw, InitAgain,
              StartAgain, Reset, ContinueReset, ResetFails, ResetProceeds, ResetSucceeds,
              Finished, vars

LEMMA OnlyTimersPublish ==
  ASSUME [Next]_vars, topicVars' # topicVars
  PROVE  pc = "spin" /\ \E l \in Loops : timers[l] = "armed"
BY PublishedByTimers DEF Timer10Hz, Timer1Hz, EnterTimer, EnterCallback, Loops, BaseLoops

\* Only a RUNNING node publishes.
THEOREM OnlyRunningPublishes == Spec => SilentUnlessRunning
<1>1. IInv /\ [Next]_vars => [topicVars' # topicVars => nodeState = "RUNNING"]_vars
  BY OnlyTimersPublish, IInvImplies DEF TimersFollowState
<1>2. QED
  BY <1>1, IInvHolds, PTL DEF Spec, SilentUnlessRunning

-----------------------------------------------------------------------------
(* The documented state machine.                                           *)

LEMMA NextStateChanges ==
  ASSUME IInv, [Next]_vars
  PROVE  UNCHANGED nodeState \/ <<nodeState, nodeState'>> \in AllowedChange
<1>1. CASE UNCHANGED vars
  BY <1>1, VarsAreAll DEF AllVars
<1>2. CASE \E new : RequestNodeState(new)
  BY <1>2 DEF RequestNodeState, CanChangeTo
<1>3. CASE Next
  BY <1>2, <1>3 DEF Next, Main, BeginInit, InitStepSucceeds, InitStepFails, Start,
        StartSpinning, Timer10Hz, Timer1Hz, TimerOther, Message, Shutdown, User,
        SetDiagnostics, SetReadyToArm, Return, ReturnFromMessage, ReturnSlow, ReturnQuick,
        LeaveCallback, Throw, InitAgain, StartAgain, Reset, ContinueReset, ResetFails,
        ResetProceeds, ResetSucceeds, Finished, vars
<1>4. QED
  BY <1>1, <1>3

\* The node implements the documented state machine: every step of it is an
\* arrow of the diagram or leaves the node where the diagram has it.
THEOREM ImplementsDocumentedStates == Spec => FollowsDocumentedStates
<1>1. Init => Documented!Init
  BY DEF Init, Documented!Init, DocumentedName
<1>2. IInv /\ [Next]_vars => [Documented!Next]_(DocumentedName(nodeState))
  <2> SUFFICES ASSUME IInv, [Next]_vars PROVE [Documented!Next]_(DocumentedName(nodeState))
    OBVIOUS
  <2>1. CASE UNCHANGED nodeState
    BY <2>1 DEF DocumentedName
  <2>2. CASE <<nodeState, nodeState'>> \in AllowedChange
    BY <2>2 DEF AllowedChange, Documented!Next, Documented!Edge, DocumentedName
  <2>3. QED
    BY <2>1, <2>2, NextStateChanges
<1>3. QED
  BY <1>1, <1>2, IInvHolds, PTL DEF Spec, FollowsDocumentedStates, Documented!Spec

-----------------------------------------------------------------------------
(* Overruns of Loop1Hz.  Between the overrun and the tick that reports it, *)
(* only run1Hz could clear the flag, and it runs after that tick.          *)

OneHzInv ==
  /\ running = "Loop1Hz" => "Loop1Hz" \notin unreported
  /\ "Loop1Hz" \in unreported => ~ loopOk["Loop1Hz"] /\ timing.message = "DIAGNOSTIC_FAILED"

LEMMA OneHzMeasured ==
  ASSUME TypeOK, OneHzInv, NEW l \in Loops, ReturnSlow(l) \/ ReturnQuick(l)
  PROVE  OneHzInv'
<1>1. CASE ReturnSlow(l)
  <2>1. running' = "none" /\ timing'.message = "DIAGNOSTIC_FAILED"
    BY <1>1 DEF ReturnSlow, LeaveCallback, MeasureSlow, Overran
  <2>2. "Loop1Hz" \in unreported' => ~ loopOk'["Loop1Hz"]
    BY <1>1 DEF ReturnSlow, MeasureSlow, OneHzInv, TypeOK, Loops, BaseLoops
  <2>3. QED
    BY <2>1, <2>2 DEF OneHzInv
<1>2. CASE ReturnQuick(l)
  BY <1>2 DEF ReturnQuick, LeaveCallback, MeasureQuick, OneHzInv, TypeOK
<1>3. QED
  BY <1>1, <1>2

LEMMA OneHzStep == TypeOK /\ OneHzInv /\ [Next]_vars => OneHzInv'
<1> SUFFICES ASSUME TypeOK, OneHzInv, [Next]_vars PROVE OneHzInv'
  OBVIOUS
<1>1. CASE UNCHANGED <<running, loopOk, timing, unreported>>
  BY <1>1 DEF OneHzInv
<1>2. CASE Timer1Hz
  BY <1>2 DEF Timer1Hz, OneHzInv
<1>3. CASE running' # "Loop1Hz" /\ UNCHANGED <<loopOk, timing, unreported>>
  BY <1>3 DEF OneHzInv
<1>4. CASE \E l \in Loops : ReturnSlow(l) \/ ReturnQuick(l)
  BY <1>4, OneHzMeasured
<1>5. CASE Timer10Hz \/ (\E l \in OtherLoops : TimerOther(l)) \/ Message
  BY <1>3, <1>5 DEF Timer10Hz, TimerOther, Message, EnterTimer, EnterCallback, OtherLoops,
                    timingVars
<1>6. CASE ReturnFromMessage
  BY <1>3, <1>6 DEF ReturnFromMessage, LeaveCallback, timingVars
<1>7. CASE Main \/ Shutdown \/ ContinueReset \/ Throw \/ InitAgain \/ StartAgain \/ Reset
  BY <1>1, <1>7 DEF Main, BeginInit, InitStepSucceeds, InitStepFails, Start, StartSpinning,
        Shutdown, ContinueReset, ResetFails, ResetProceeds, ResetSucceeds, Throw, InitAgain,
        StartAgain, Reset, timingVars
<1>8. CASE \/ \E d \in DiagnosticLists : SetDiagnostics(d)
           \/ \E ready \in BOOLEAN : SetReadyToArm(ready)
  BY <1>1, <1>8 DEF SetDiagnostics, SetReadyToArm, timingVars, threadVars
<1>9. CASE UNCHANGED vars
  BY <1>1, <1>9, VarsAreAll DEF AllVars
<1>10. QED
  BY <1>2, <1>4, <1>5, <1>6, <1>7, <1>8, <1>9 DEF Next, User, Return, Finished

LEMMA OneHzReported ==
  ASSUME OneHzInv, [Next]_vars, report' # report, "Loop1Hz" \in unreported
  PROVE  report'.timing.message = "DIAGNOSTIC_FAILED"
<1>1. CASE Timer1Hz
  <2>1. TimingSummary = timing
    BY DEF TimingSummary, OneHzInv, Loops, BaseLoops
  <2>2. report'.timing = timing
    BY <1>1, <2>1 DEF Timer1Hz
  <2>3. QED
    BY <2>2 DEF OneHzInv
<1>2. CASE Timer10Hz
  BY <1>2 DEF Timer10Hz
<1>3. topicVars' # topicVars
  BY DEF topicVars
<1>4. Timer1Hz \/ Timer10Hz
  BY <1>3, PublishedByTimers
<1>5. QED
  BY <1>1, <1>2, <1>4

\* An overrun of Loop1Hz is reported by the next 1 Hz tick, whatever the
\* other loops, the resets and the repeated calls in between.
THEOREM OneHzOverrunAlwaysReported == Spec => OneHzOverrunReported
<1>1. Init => OneHzInv
  BY DEF Init, OneHzInv
<1>2. Spec => []OneHzInv
  BY <1>1, OneHzStep, TypeCorrect, PTL DEF Spec
<1>3. OneHzInv /\ [Next]_vars
        => [report' # report /\ "Loop1Hz" \in unreported
              => report'.timing.message = "DIAGNOSTIC_FAILED"]_vars
  BY OneHzReported
<1>4. QED
  BY <1>2, <1>3, PTL DEF Spec, OneHzOverrunReported

===============================================================================
