-------------------------------- MODULE BaseNode --------------------------------
(***************************************************************************)
(* One node process: main(), the BaseNode base class and the user code of  *)
(* its subclass (core/BaseNode/BaseNode.cpp).                              *)
(*                                                                         *)
(* A node has one thread.  main() calls init(), then start(), then spins:  *)
(* the executor runs one callback at a time, to completion.  A callback is *)
(* either a timer of the base class (a base part, then the timed user      *)
(* function) or a subscription or service callback of the subclass.  User  *)
(* code is not known: it may set the diagnostics and the ready-to-arm      *)
(* status, take longer than its period, throw, and call the public         *)
(* init(), start() and reset() of its own base class.                      *)
(***************************************************************************)
EXTENDS Integers, Sequences

CONSTANTS
  RatedLoops,       \* user loops with a positive loop<i>_rate parameter
  DiagnosticLists,  \* the lists of diagnostics user code may report
  NoDiagnostics,    \* the empty list
  MaxEvents         \* bound: overruns, resets and data changes of a behaviour

BaseLoops == {"Loop100Hz", "Loop10Hz", "Loop1Hz", "Loop01Hz", "Loop001Hz"}
UserLoops == {"Loop1", "Loop2", "Loop3"}
Loops     == BaseLoops \cup UserLoops

ASSUME RatedLoopsAssumption == RatedLoops \subseteq UserLoops
ASSUME DiagnosticsAssumption == NoDiagnostics \in DiagnosticLists
ASSUME MaxEventsAssumption == MaxEvents \in Nat

VARIABLES
  pc,           \* where the node's thread is
  running,      \* the callback it is in
  initStep,     \* how many steps of init() have returned true
  nodeState,    \* m_nodeState.state
  timers,       \* m_timer...: absent, armed or cancelled
  loopOk,       \* m_loop...Ok
  timing,       \* m_timingDiagnostic: its message and the loop it describes
  diagnostics,  \* m_diagnostics
  readyToArm,   \* m_readyToArm.ready_to_arm
  beat,         \* the last heartbeat published
  report,       \* what the last 1 Hz tick published
  unreported,   \* history: loops that overran since the last 1 Hz tick
  events        \* how much of MaxEvents is used

threadVars == <<pc, running, initStep>>
timingVars == <<loopOk, timing, unreported>>
dataVars   == <<diagnostics, readyToArm>>
topicVars  == <<beat, report>>
vars == <<threadVars, nodeState, timers, timingVars, dataVars, topicVars, events>>

NodeStates == {"UNKNOWN", "INITIALIZING", "STARTING", "RUNNING"}

Ended == {"exited", "terminated"}
InReset == {"resetDiagnostics", "resetData", "rearm"}
Places == {"constructed", "init", "start", "timersCreated", "spin", "callback"}
            \cup InReset \cup Ended

\* A bit that changes with every publication stands for the time stamps.
Stamp == {0, 1}
Flip(bit) == 1 - bit

TimingDiagnostics ==
  [message : {"INITIALIZING", "NOERROR"}, loop : {"none"}]
    \cup [message : {"DIAGNOSTIC_FAILED"}, loop : Loops]

NoError    == [message |-> "NOERROR", loop |-> "none"]
Overran(l) == [message |-> "DIAGNOSTIC_FAILED", loop |-> l]

TypeOK ==
  /\ pc \in Places
  /\ running \in Loops \cup {"message", "none"}
  /\ initStep \in 0..10
  /\ nodeState \in NodeStates
  /\ timers \in [Loops -> {"absent", "armed", "cancelled"}]
  /\ loopOk \in [Loops -> BOOLEAN]
  /\ timing \in TimingDiagnostics
  /\ diagnostics \in DiagnosticLists
  /\ readyToArm \in BOOLEAN
  /\ beat \in [state : NodeStates \cup {"none"}, stamp : Stamp]
  /\ report \in [diagnostics : DiagnosticLists, timing : TimingDiagnostics,
                 ready : BOOLEAN, stamp : Stamp]
  /\ unreported \subseteq Loops
  /\ events \in 0..MaxEvents

Init ==
  /\ pc = "constructed"
  /\ running = "none"
  /\ initStep = 0
  /\ nodeState = "UNKNOWN"
  /\ timers = [l \in Loops |-> "absent"]
  /\ loopOk = [l \in Loops |-> TRUE]
  /\ timing = [message |-> "INITIALIZING", loop |-> "none"]
  /\ diagnostics = NoDiagnostics
  /\ readyToArm = FALSE
  /\ beat = [state |-> "none", stamp |-> 0]
  /\ report = [diagnostics |-> NoDiagnostics, timing |-> timing,
               ready |-> FALSE, stamp |-> 0]
  /\ unreported = {}
  /\ events = 0

Disturb == events < MaxEvents /\ events' = events + 1

-----------------------------------------------------------------------------
(* requestNodeStateChange(newState): asking for the current state succeeds. *)

AllowedChange == { <<"UNKNOWN", "INITIALIZING">>, <<"INITIALIZING", "STARTING">>,
                   <<"STARTING", "RUNNING">>, <<"RUNNING", "STARTING">> }

\* Mutant: every change is granted.
CanChangeToAnything(new) == new \in NodeStates

CanChangeTo(new) == nodeState = new \/ <<nodeState, new>> \in AllowedChange

RequestNodeState(new) == CanChangeTo(new) /\ nodeState' = new

-----------------------------------------------------------------------------
(* main(): init(), start(), spin.                                          *)

InitSteps == << "baseLoadConfig", "baseInitPubSubs", "baseInitServices",
                "baseInitDiagnostics", "baseInitData",
                "loadConfig", "initPubSubs", "initServices",
                "initDiagnostics", "initData" >>

\* The base class's steps always return true, but for baseLoadConfig.
FallibleSteps == { i \in 1..10 : i = 1 \/ i > 5 }

BeginInit ==
  /\ pc = "constructed"
  /\ RequestNodeState("INITIALIZING")
  /\ pc' = "init"
  /\ UNCHANGED <<running, initStep, timers, timingVars, dataVars, topicVars, events>>

\* Mutant: one step too many.
InitStepSucceedsTooOften ==
  /\ pc = "init"
  /\ initStep' = initStep + 1
  /\ pc' = IF initStep' > Len(InitSteps) THEN "start" ELSE "init"
  /\ UNCHANGED <<running, nodeState, timers, timingVars, dataVars, topicVars, events>>

InitStepSucceeds ==
  /\ pc = "init"
  /\ initStep < Len(InitSteps)
  /\ initStep' = initStep + 1
  /\ pc' = IF initStep' = Len(InitSteps) THEN "start" ELSE "init"
  /\ UNCHANGED <<running, nodeState, timers, timingVars, dataVars, topicVars, events>>

\* init() returns false and main() returns 1.
InitStepFails ==
  /\ pc = "init"
  /\ initStep + 1 \in FallibleSteps
  /\ pc' = "exited"
  /\ UNCHANGED <<running, initStep, nodeState, timers, timingVars, dataVars,
                 topicVars, events>>

CreateTimers ==
  timers' = [l \in Loops |-> IF l \in BaseLoops \cup RatedLoops THEN "armed" ELSE "absent"]

Start ==
  /\ pc = "start"
  /\ RequestNodeState("STARTING")
  /\ CreateTimers
  /\ pc' = "timersCreated"
  /\ UNCHANGED <<running, initStep, timingVars, dataVars, topicVars, events>>

StartSpinning ==
  /\ pc = "timersCreated"
  /\ RequestNodeState("RUNNING")
  /\ pc' = "spin"
  /\ UNCHANGED <<running, initStep, timers, timingVars, dataVars, topicVars, events>>

-----------------------------------------------------------------------------
(* The executor: timer callbacks up to their user function, and messages.  *)

EnterCallback(c) == pc = "spin" /\ pc' = "callback" /\ running' = c

EnterTimer(l) == timers[l] = "armed" /\ EnterCallback(l)

\* timer10HzCallback: baseRun10Hz publishes the heartbeat, then run10Hz.
Timer10Hz ==
  /\ EnterTimer("Loop10Hz")
  /\ beat' = [state |-> nodeState, stamp |-> Flip(beat.stamp)]
  /\ UNCHANGED <<initStep, nodeState, timers, timingVars, dataVars, report, events>>

\* Mutant: m_loop1HzOk is missing from the conjunction.
TimingSummaryOfOthers ==
  IF \A l \in Loops \ {"Loop1Hz"} : loopOk[l] THEN NoError ELSE timing

TimingSummary == IF \A l \in Loops : loopOk[l] THEN NoError ELSE timing

\* timer1HzCallback: baseRun1Hz publishes the diagnostics, the timing
\* diagnostic and the ready-to-arm status, then run1Hz.
Timer1Hz ==
  /\ EnterTimer("Loop1Hz")
  /\ timing' = TimingSummary
  /\ report' = [diagnostics |-> diagnostics, timing |-> timing',
                ready |-> readyToArm, stamp |-> Flip(report.stamp)]
  /\ unreported' = {}
  /\ UNCHANGED <<initStep, nodeState, timers, loopOk, dataVars, beat, events>>

\* The other timers have no base part.
TimerOther(l) ==
  /\ EnterTimer(l)
  /\ UNCHANGED <<initStep, nodeState, timers, timingVars, dataVars, topicVars, events>>

\* A subscription or service callback of the subclass.
Message ==
  /\ EnterCallback("message")
  /\ UNCHANGED <<initStep, nodeState, timers, timingVars, dataVars, topicVars, events>>

\* spin() returns when the process is asked to stop.
Shutdown ==
  /\ pc = "spin"
  /\ pc' = "exited"
  /\ UNCHANGED <<running, initStep, nodeState, timers, timingVars, dataVars,
                 topicVars, events>>

-----------------------------------------------------------------------------
(* User code: the virtual functions of the subclass and its callbacks.     *)

InUserCode ==
  \/ pc = "init" /\ initStep >= 5
  \/ pc \in {"callback", "resetDiagnostics", "resetData"}

SetDiagnostics(d) ==
  /\ InUserCode
  /\ d # diagnostics
  /\ Disturb
  /\ diagnostics' = d
  /\ UNCHANGED <<threadVars, nodeState, timers, timingVars, readyToArm, topicVars>>

SetReadyToArm(ready) ==
  /\ InUserCode
  /\ ready # readyToArm
  /\ Disturb
  /\ readyToArm' = ready
  /\ UNCHANGED <<threadVars, nodeState, timers, timingVars, diagnostics, topicVars>>

\* TimerLoopTiming::run after the callback: longer than the period, or not.
MeasureSlow(l) ==
  /\ Disturb
  /\ loopOk' = [loopOk EXCEPT ![l] = FALSE]
  /\ timing' = Overran(l)
  /\ unreported' = unreported \cup {l}

\* Mutant: no "loopOk = true" after a quick run.
MeasureQuickKeepsFlag(l) == l \in Loops /\ UNCHANGED <<timingVars, events>>

MeasureQuick(l) ==
  /\ loopOk' = [loopOk EXCEPT ![l] = TRUE]
  /\ UNCHANGED <<timing, unreported, events>>

LeaveCallback ==
  /\ pc = "callback"
  /\ pc' = "spin"
  /\ running' = "none"
  /\ UNCHANGED <<initStep, nodeState, timers, dataVars, topicVars>>

ReturnSlow(l)  == running = l /\ LeaveCallback /\ MeasureSlow(l)
ReturnQuick(l) == running = l /\ LeaveCallback /\ MeasureQuick(l)

ReturnFromMessage ==
  /\ running = "message"
  /\ LeaveCallback
  /\ UNCHANGED <<timingVars, events>>

\* An exception that nothing catches: it ends the process.
Throw ==
  /\ pc \in {"init", "callback", "resetDiagnostics", "resetData"}
  /\ pc' = "terminated"
  /\ UNCHANGED <<running, initStep, nodeState, timers, timingVars, dataVars,
                 topicVars, events>>

\* init() called again: the state change is refused and it returns false; were
\* it granted, declaring verbosity_level a second time would throw.
InitAgain ==
  /\ pc = "callback"
  /\ IF CanChangeTo("INITIALIZING")
       THEN RequestNodeState("INITIALIZING") /\ pc' = "terminated"
       ELSE UNCHANGED <<nodeState, pc>>
  /\ UNCHANGED <<running, initStep, timers, timingVars, dataVars, topicVars, events>>

\* start() called again: the state changes, the base timers are created
\* anew, and declaring loop1_rate a second time throws.
StartAgain ==
  /\ pc = "callback"
  /\ RequestNodeState("STARTING")
  /\ timers' = [l \in Loops |-> IF l \in BaseLoops THEN "armed" ELSE timers[l]]
  /\ pc' = "terminated"
  /\ UNCHANGED <<running, initStep, timingVars, dataVars, topicVars, events>>

-----------------------------------------------------------------------------
(* reset(), called from a callback.  Its result is the caller's to use.    *)

\* Mutant: m_timer1Hz is not cancelled.
CancelTimersBut1Hz ==
  timers' = [l \in Loops |-> IF timers[l] = "absent" \/ l = "Loop1Hz"
                              THEN timers[l] ELSE "cancelled"]

CancelTimers ==
  timers' = [l \in Loops |-> IF timers[l] = "absent" THEN "absent" ELSE "cancelled"]

\* Mutant: m_timer10Hz is not re-armed.
RearmTimersBut10Hz ==
  timers' = [l \in Loops |-> IF timers[l] = "absent" \/ l = "Loop10Hz"
                              THEN timers[l] ELSE "armed"]

RearmTimers ==
  timers' = [l \in Loops |-> IF timers[l] = "absent" THEN "absent" ELSE "armed"]

Reset ==
  /\ pc = "callback"
  /\ Disturb
  /\ RequestNodeState("STARTING")
  /\ CancelTimers
  /\ pc' = "resetDiagnostics"
  /\ UNCHANGED <<running, initStep, timingVars, dataVars, topicVars>>

\* reset() returns false: the timers stay cancelled and the state STARTING.
ResetFails ==
  /\ pc \in {"resetDiagnostics", "resetData"}
  /\ pc' = "callback"
  /\ UNCHANGED <<running, initStep, nodeState, timers, timingVars, dataVars,
                 topicVars, events>>

ResetProceeds ==
  /\ \/ pc = "resetDiagnostics" /\ pc' = "resetData"
     \/ pc = "resetData" /\ pc' = "rearm"
  /\ UNCHANGED <<running, initStep, nodeState, timers, timingVars, dataVars,
                 topicVars, events>>

ResetSucceeds ==
  /\ pc = "rearm"
  /\ RequestNodeState("RUNNING")
  /\ RearmTimers
  /\ pc' = "callback"
  /\ UNCHANGED <<running, initStep, timingVars, dataVars, topicVars, events>>

-----------------------------------------------------------------------------
\* The process is gone.
Finished == pc \in Ended /\ UNCHANGED vars

OtherLoops == Loops \ {"Loop10Hz", "Loop1Hz"}

Main == BeginInit \/ InitStepSucceeds \/ InitStepFails \/ Start \/ StartSpinning

Return == ReturnFromMessage \/ \E l \in Loops : ReturnSlow(l) \/ ReturnQuick(l)

User ==
  \/ \E d \in DiagnosticLists : SetDiagnostics(d)
  \/ \E ready \in BOOLEAN : SetReadyToArm(ready)
  \/ Return \/ Throw \/ InitAgain \/ StartAgain \/ Reset

ContinueReset == ResetFails \/ ResetProceeds \/ ResetSucceeds

Next ==
  \/ Main
  \/ Timer10Hz \/ Timer1Hz \/ \E l \in OtherLoops : TimerOther(l)
  \/ Message \/ Shutdown
  \/ User \/ ContinueReset
  \/ Finished

Spec == Init /\ [][Next]_vars

(***************************************************************************)
(* Fairness.  main() and reset() are straight-line code.  User functions   *)
(* return (a node whose callback blocks for ever is out of scope).  The    *)
(* executor waits for the timers that are due and serves each of them once *)
(* before it waits again, so a timer that stays armed is served for ever;  *)
(* it is not enabled while another callback runs, hence strong fairness.   *)
(***************************************************************************)
Fairness ==
  /\ WF_vars(Main)
  /\ WF_vars(Return)
  /\ WF_vars(ContinueReset)
  /\ SF_vars(Timer10Hz)
  /\ SF_vars(Timer1Hz)
  /\ \A l \in OtherLoops : SF_vars(TimerOther(l))

FairSpec == Spec /\ Fairness

-----------------------------------------------------------------------------
(* Properties.                                                             *)

\* While the executor spins, a RUNNING node has all of its timers armed and a
\* STARTING node (its last reset() failed) has none: no reset() leaves the
\* node half alive.  (reset(), cancel and reset of the eight timers.)
TimersFollowState ==
  pc = "spin" =>
    \/ /\ nodeState = "RUNNING"
       /\ \A l \in Loops : timers[l] = IF l \in BaseLoops \cup RatedLoops
                                         THEN "armed" ELSE "absent"
    \/ /\ nodeState = "STARTING"
       /\ \A l \in Loops : timers[l] # "armed"

\* Nothing is published by a node that is not RUNNING: what other nodes hear
\* never comes from a node in the middle of init(), start() or a reset(), nor
\* from one whose reset() failed.  (baseRun10Hz, baseRun1Hz.)
SilentUnlessRunning == [][topicVars' # topicVars => nodeState = "RUNNING"]_vars

\* An overrun of Loop1Hz is never forgotten: the tick that follows it reports
\* a failure, whatever the other loops did meanwhile.  (baseRun1Hz comes
\* before the measurement of run1Hz, and no other loop clears its flag.)
OneHzOverrunReported ==
  [][report' # report /\ "Loop1Hz" \in unreported
       => report'.timing.message = "DIAGNOSTIC_FAILED"]_vars

\* BaseNode.md: "If a loop's user callback takes longer than its configured
\* period, the Base Node logs a timing diagnostic and publishes the failed
\* timing status with its regular 1 Hz diagnostics."
OverrunReported ==
  [][report' # report /\ unreported # {}
       => report'.timing.message = "DIAGNOSTIC_FAILED"]_vars

\* The node's life follows the documented state machine, in every
\* interleaving of resets, failures and repeated calls.  (requestNodeStateChange)
DocumentedName(s) ==
  CASE s = "INITIALIZING" -> "INITIALIZED"
    [] s = "STARTING"     -> "START"
    [] OTHER              -> s

Documented == INSTANCE NodeStateMachine WITH state <- DocumentedName(nodeState)

FollowsDocumentedStates == Documented!Spec

\* A node that goes on being RUNNING goes on publishing heartbeats, whatever
\* resets and overruns it went through.  (timer10HzCallback, reset())
KeepsRunning == []<>(pc = "spin" /\ nodeState = "RUNNING")

HeartbeatsContinue ==
  KeepsRunning => []<>(beat.stamp = 0) /\ []<>(beat.stamp = 1)

\* Once overruns, resets and data changes stop, the 1 Hz report of a RUNNING
\* node says what is true: no timing error, and the data last set.
ReportIsTrue ==
  report.timing = NoError /\ report.diagnostics = diagnostics /\ report.ready = readyToArm

ReportCatchesUp == KeepsRunning => <>[]ReportIsTrue

===============================================================================
