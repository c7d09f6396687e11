---------------------------- MODULE ReindexBagProofs ----------------------------
(***************************************************************************)
(* Theorems about ReindexBag for every set of files, every number of runs  *)
(* and every number of failed moves and kills.                             *)
(***************************************************************************)
EXTENDS ReindexBag, TLAPS

AllVars == <<pc, moving, quarantined, created, success, restoreOk, raised, kind, copies,
             metadata, outcome, present, disturbed, interrupted, runs, faults>>

LEMMA VarsAreAll == UNCHANGED vars => UNCHANGED AllVars
BY DEF vars, AllVars, localVars, diskVars, atBegin, boundVars

LEMMA FaultCounts ==
  faults \in 0..MaxFaults /\ Fault => faults' \in 0..MaxFaults /\ runs' = runs
BY BoundsAssumption DEF Fault

LEMMA RunCounts ==
  runs \in 0..MaxRuns /\ runs < MaxRuns /\ runs' = runs + 1 => runs' \in 0..MaxRuns
BY BoundsAssumption

-----------------------------------------------------------------------------
(* Type correctness.                                                       *)

LEMMA TypePython == TypeOK /\ Python => TypeOK'
<1> SUFFICES ASSUME TypeOK, Python PROVE TypeOK'
  OBVIOUS
<1> USE FaultCounts DEF TypeOK, RunPlaces, localVars, diskVars, atBegin, boundVars
<1>1. ASSUME NEW f \in Files, MoveToQuarantine(f) PROVE TypeOK'
  BY <1>1 DEF MoveToQuarantine, Forget, Directories
<1>2. ASSUME NEW f \in Files, MoveRaises(f) PROVE TypeOK'
  BY <1>2 DEF MoveRaises, Directories
<1>3. CASE Record
  BY <1>3 DEF Record
<1>4. CASE RefuseToQuarantine
  BY <1>4 DEF RefuseToQuarantine
<1>5. CASE ReindexFails
  BY <1>5 DEF ReindexFails
<1>6. CASE ToolRaises
  BY <1>6 DEF ToolRaises
<1>7. CASE ReindexCompletes
  BY <1>7 DEF ReindexCompletes
<1>8. ASSUME NEW f \in Files, RestoreFile(f) PROVE TypeOK'
  BY <1>8 DEF RestoreFile, Forget, Directories
<1>9. ASSUME NEW f \in Files, RestoreFails(f) PROVE TypeOK'
  BY <1>9 DEF RestoreFails, Directories
<1>10. CASE Restored
  BY <1>10 DEF Restored
<1>11. CASE EndRun
  BY <1>11 DEF EndRun, CleanQuarantine, RemoveQuarantine, Forget, Outcomes
<1>12. QED
  BY <1>1, <1>2, <1>3, <1>4, <1>5, <1>6, <1>7, <1>8, <1>9, <1>10, <1>11 DEF Python

LEMMA TypeStep == TypeOK /\ [Next]_vars => TypeOK'
<1> SUFFICES ASSUME TypeOK, [Next]_vars PROVE TypeOK'
  OBVIOUS
<1> USE FaultCounts, RunCounts DEF TypeOK, RunPlaces, localVars, diskVars, atBegin, boundVars
<1>1. CASE SkipReindex
  BY <1>1 DEF SkipReindex, Outcomes
<1>2. CASE BeginReindex
  BY <1>2 DEF BeginReindex, Forget, Directories, Outcomes
<1>3. CASE Kill
  BY <1>3 DEF Kill, ToolMayWrite, MayClean, CleanQuarantine, RemoveQuarantine,
                   Forget, Outcomes
<1>4. CASE Interrupt
  BY <1>4 DEF Interrupt, ToolMayWrite, MayClean, CleanQuarantine, RemoveQuarantine,
                   Forget, Outcomes
<1>5. CASE UNCHANGED vars
  BY <1>5, VarsAreAll DEF AllVars
<1>6. QED
  BY <1>1, <1>2, <1>3, <1>4, <1>5, TypePython DEF Next, AllRunsDone

LEMMA TypeInit == Init => TypeOK
<1> SUFFICES ASSUME Init PROVE TypeOK
  OBVIOUS
<1>1. copies \in [Files -> SUBSET Directories] /\ kind \in [Files -> Kinds]
  BY DEF Init, Directories
<1>2. runs \in 0..MaxRuns /\ faults \in 0..MaxFaults
  BY BoundsAssumption DEF Init
<1>3. /\ metadata \in BOOLEAN /\ created \in BOOLEAN /\ success \in BOOLEAN
      /\ restoreOk \in BOOLEAN /\ raised \in BOOLEAN /\ disturbed \in BOOLEAN
  BY Zenon DEF Init
<1>4. /\ moving \subseteq Files /\ quarantined \subseteq Files /\ present \subseteq Files
      /\ outcome \in Outcomes
      /\ pc \in RunPlaces /\ interrupted \subseteq RunPlaces
  BY DEF Init, Outcomes, RunPlaces
<1>5. QED
  BY <1>1, <1>2, <1>3, <1>4 DEF TypeOK

\* The type invariant, for every bag and every bound.
THEOREM TypeCorrect == Spec => []TypeOK
BY TypeInit, TypeStep, PTL DEF Spec

-----------------------------------------------------------------------------
(* Where the files are.  During a run, a file whose only copy is in the    *)
(* quarantine directory is one that the finally clause knows of, unless a  *)
(* restore has failed already, and then the directory is kept.  An         *)
(* interrupt between the move of a file and its record, which also sets    *)
(* raised, breaks this until the next run.                                 *)

Uninterrupted == ~raised \/ "record" \notin interrupted

Known == quarantined \cup moving

Accounted ==
  pc # "idle" /\ restoreOk /\ Uninterrupted =>
    \A f \in Files : /\ copies[f] = {"quarantine"} => f \in Known
                     /\ f \in present => InBag(f) \/ f \in Known

Places ==
  /\ pc \in {"run", "restore", "cleanup"} /\ Uninterrupted => moving = {}
  /\ pc = "cleanup" => quarantined = {}
  /\ pc # "idle" => outcome = "none"

\* As long as no earlier run was disturbed the bag is whole when a run begins,
\* and again after every run that is not disturbed itself.
Undisturbed ==
  /\ pc # "idle" /\ ~disturbed => Files \subseteq present
  /\ pc = "idle" /\ ~disturbed /\ ~Disturbance => \A f \in Files : InBag(f)

Metadata == success /\ pc # "idle" => metadata

IInv ==
  /\ TypeOK /\ Accounted /\ Places /\ Metadata /\ Undisturbed
  /\ OnlyUnrecordedLost /\ EverythingPutBack /\ AnalysedMeansWhole

\* Removing the quarantine directory at the end leaves a file in the bag there,
\* and takes the only copy of none.
LEMMA CleaningKeeps ==
  ASSUME IInv, pc = "cleanup", CleanQuarantine, NEW f \in Files
  PROVE  /\ "bag" \in copies[f] => "bag" \in copies'[f]
         /\ "record" \notin interrupted => copies'[f] # {}
<1>1. \/ copies'[f] = copies[f]
      \/ restoreOk /\ copies'[f] = copies[f] \ {"quarantine"}
  BY DEF CleanQuarantine, RemoveQuarantine, Forget
<1>2. ASSUME "record" \notin interrupted PROVE copies'[f] # {}
  <2>1. copies[f] # {}
    BY <1>2 DEF IInv, OnlyUnrecordedLost, NoFileLost
  <2>2. restoreOk => copies[f] # {"quarantine"}
    BY <1>2 DEF IInv, Accounted, Known, Places, Uninterrupted
  <2>3. QED
    BY <1>1, <2>1, <2>2
<1>3. QED
  BY <1>1, <1>2

\* What is still in the bag, or was put back, is in the bag afterwards.
LEMMA CleaningRestores ==
  ASSUME IInv, pc = "cleanup", CleanQuarantine, restoreOk, Uninterrupted, NEW f \in present
  PROVE  "bag" \in copies'[f]
<1>1. f \in Files
  BY DEF IInv, TypeOK
<1>2. "bag" \in copies[f]
  BY <1>1 DEF IInv, Accounted, Known, Places, InBag
<1>3. QED
  BY <1>1, <1>2, CleaningKeeps

LEMMA IInvEnd == IInv /\ EndRun => IInv'
<1> SUFFICES ASSUME IInv, EndRun PROVE IInv'
  OBVIOUS
<1>1. TypeOK'
  BY TypePython DEF IInv, Python
<1>2. /\ pc = "cleanup" /\ pc' = "idle" /\ CleanQuarantine
      /\ UNCHANGED <<interrupted, present, disturbed, metadata, restoreOk, success, raised>>
      /\ outcome' = IF raised THEN "raised" ELSE IF ReindexResult THEN "true" ELSE "false"
  BY DEF EndRun, localVars, atBegin, boundVars
<1>3. Accounted' /\ Places' /\ Metadata'
  BY <1>2 DEF Accounted, Places, Metadata
<1>4. OnlyUnrecordedLost'
  BY <1>2, CleaningKeeps DEF OnlyUnrecordedLost, NoFileLost
<1>5. EverythingPutBack'
  <2>1. ASSUME restoreOk, interrupted \cap {"record", "restore"} = {}, NEW f \in present
        PROVE  "bag" \in copies'[f]
    BY <1>2, <2>1, CleaningRestores DEF Uninterrupted
  <2>2. QED
    BY <1>2, <2>1 DEF EverythingPutBack, InBag
<1>6. Undisturbed'
  <2>1. ASSUME ~disturbed, ~Disturbance', NEW f \in Files PROVE "bag" \in copies'[f]
    <3>1. f \in present /\ restoreOk /\ "record" \notin interrupted
      BY <1>2, <2>1 DEF IInv, Undisturbed, Disturbance
    <3>2. QED
      BY <1>2, <3>1, CleaningRestores DEF Uninterrupted
  <2>2. QED
    BY <1>2, <2>1 DEF Undisturbed, InBag
<1>7. AnalysedMeansWhole'
  <2>1. ASSUME outcome' = "true" PROVE ~raised /\ success /\ restoreOk /\ metadata
    BY <1>2, <2>1 DEF ReindexResult, IInv, Metadata
  <2>2. ASSUME outcome' = "true", NEW f \in present PROVE "bag" \in copies'[f]
    BY <1>2, <2>1, <2>2, CleaningRestores DEF Uninterrupted
  <2>3. ASSUME outcome' = "true", ~disturbed, NEW f \in Files PROVE "bag" \in copies'[f]
    <3>1. f \in present
      BY <1>2, <2>3 DEF IInv, Undisturbed
    <3>2. QED
      BY <2>2, <2>3, <3>1
  <2>4. outcome' # "skipped"
    BY <1>2
  <2>5. QED
    BY <1>2, <2>1, <2>2, <2>3, <2>4 DEF AnalysedMeansWhole, InBag
<1>8. QED
  BY <1>1, <1>3, <1>4, <1>5, <1>6, <1>7 DEF IInv

LEMMA IInvInterrupt == IInv /\ Interrupt => IInv'
<1> SUFFICES ASSUME IInv, Interrupt PROVE IInv'
  OBVIOUS
<1>1. TypeOK'
  BY TypeStep DEF IInv, Next
<1>2. /\ interrupted' = interrupted \cup {pc} /\ raised' = TRUE
      /\ UNCHANGED <<moving, quarantined, restoreOk, success, present, disturbed>>
      /\ metadata => metadata'
      /\ pc # "idle"
  BY DEF Interrupt, ToolMayWrite, atBegin
<1>3. CASE pc = "cleanup"
  <2>1. CleanQuarantine /\ pc' = "idle" /\ outcome' = "raised"
    BY <1>3 DEF Interrupt, MayClean
  <2>2. OnlyUnrecordedLost'
    BY <1>2, <1>3, <2>1, CleaningKeeps DEF OnlyUnrecordedLost, NoFileLost
  <2>3. ASSUME restoreOk, interrupted' \cap {"record", "restore"} = {}, NEW f \in present
        PROVE  "bag" \in copies'[f]
    BY <1>2, <1>3, <2>1, <2>3, CleaningRestores DEF Uninterrupted
  <2>4. EverythingPutBack' /\ AnalysedMeansWhole'
    BY <1>2, <2>1, <2>3 DEF EverythingPutBack, AnalysedMeansWhole, InBag
  <2>5. ASSUME ~disturbed, ~Disturbance', NEW f \in Files PROVE "bag" \in copies'[f]
    <3>1. f \in present /\ restoreOk /\ "record" \notin interrupted
      BY <1>2, <2>5 DEF IInv, Undisturbed, Disturbance
    <3>2. QED
      BY <1>3, <2>1, <3>1, CleaningRestores DEF Uninterrupted
  <2>6. Undisturbed'
    BY <1>2, <2>1, <2>5 DEF Undisturbed, InBag
  <2>7. QED
    BY <1>1, <2>1, <2>2, <2>4, <2>6 DEF IInv, Accounted, Places, Metadata
<1>4. CASE pc # "cleanup"
  <2>1. UNCHANGED copies
    BY <1>4 DEF Interrupt, MayClean
  <2>2. \/ pc \in {"run", "record"} /\ pc' = "restore" /\ UNCHANGED outcome
        \/ pc = "restore" /\ pc' = "idle" /\ outcome' = "raised"
    BY <1>2, <1>4 DEF Interrupt, IInv, TypeOK, RunPlaces
  <2>3. OnlyUnrecordedLost' /\ Metadata'
    BY <1>2, <2>1, <2>2 DEF IInv, OnlyUnrecordedLost, NoFileLost, Metadata
  <2>4. Accounted' /\ Places'
    BY <1>2, <2>1, <2>2
    DEF IInv, Accounted, Places, Uninterrupted, Known, InBag
  <2>5. EverythingPutBack' /\ AnalysedMeansWhole'
    BY <1>2, <2>1, <2>2
    DEF IInv, EverythingPutBack, AnalysedMeansWhole, Places, InBag
  <2>6. Undisturbed'
    <3>1. pc = "restore" => Disturbance'
      BY <1>2 DEF Disturbance
    <3>2. QED
      BY <1>2, <2>2, <3>1 DEF IInv, Undisturbed
  <2>7. QED
    BY <1>1, <2>3, <2>4, <2>5, <2>6 DEF IInv
<1>5. QED
  BY <1>3, <1>4

LEMMA IInvPython == IInv /\ Python => IInv'
<1> SUFFICES ASSUME IInv, Python PROVE IInv'
  OBVIOUS
<1>0. TypeOK'
  BY TypePython DEF IInv
<1> USE <1>0 DEF IInv, NoFileLost, Accounted, Places, Metadata, Undisturbed, EverythingPutBack,
                 AnalysedMeansWhole, OnlyUnrecordedLost, Fault, Uninterrupted, Known, InBag, Forget,
                 localVars, diskVars, atBegin, boundVars
<1>1. ASSUME NEW f \in Files, MoveToQuarantine(f) PROVE IInv'
  BY <1>1 DEF MoveToQuarantine, TypeOK
<1>2. ASSUME NEW f \in Files, MoveRaises(f) PROVE IInv'
  <2>1. "bag" \in copies[f]
    BY <1>2 DEF MoveRaises, ToQuarantine, EmptyFiles, ShortFiles
  <2>2. QED
    BY <1>2, <2>1 DEF MoveRaises, TypeOK
<1>3. CASE Record
  BY <1>3 DEF Record
<1>4. CASE RefuseToQuarantine
  BY <1>4 DEF RefuseToQuarantine
<1>5. CASE ReindexFails
  BY <1>5 DEF ReindexFails, TypeOK
<1>6. CASE ToolRaises
  BY <1>6 DEF ToolRaises
<1>7. CASE ReindexCompletes
  BY <1>7 DEF ReindexCompletes
<1>8. ASSUME NEW f \in Files, RestoreFile(f) PROVE IInv'
  BY <1>8 DEF RestoreFile, TypeOK
<1>9. ASSUME NEW f \in Files, RestoreFails(f) PROVE IInv'
  BY <1>9 DEF RestoreFails, TypeOK
<1>10. CASE Restored
  BY <1>10 DEF Restored
<1>11. CASE EndRun
  BY <1>11, IInvEnd
<1>12. QED
  BY <1>1, <1>2, <1>3, <1>4, <1>5, <1>6, <1>7, <1>8, <1>9, <1>10, <1>11 DEF Python

LEMMA IInvStep == IInv /\ [Next]_vars => IInv'
<1> SUFFICES ASSUME IInv, [Next]_vars PROVE IInv'
  OBVIOUS
<1>0. TypeOK'
  BY TypeStep DEF IInv
<1> USE <1>0 DEF IInv, NoFileLost, Accounted, Places, Metadata, Undisturbed, EverythingPutBack,
                 AnalysedMeansWhole, OnlyUnrecordedLost, Fault, Uninterrupted, Known, InBag, Forget,
                 localVars, diskVars, atBegin, boundVars
<1>1. CASE SkipReindex
  BY <1>1 DEF SkipReindex, Disturbance
<1>2. CASE BeginReindex
  BY <1>2 DEF BeginReindex, TypeOK
<1>3. CASE Kill
  BY <1>3 DEF Kill, ToolMayWrite, MayClean, CleanQuarantine, RemoveQuarantine, TypeOK,
              Disturbance
<1>4. CASE Interrupt
  BY <1>4, IInvInterrupt
<1>5. CASE UNCHANGED vars
  BY <1>5, VarsAreAll DEF AllVars, Disturbance
<1>6. QED
  BY <1>1, <1>2, <1>3, <1>4, <1>5, IInvPython DEF Next, AllRunsDone

LEMMA IInvHolds == Spec => []IInv
<1>1. Init => IInv
  <2>1. Init => TypeOK
    BY TypeInit
  <2>2. QED
    BY <2>1 DEF Init, IInv, NoFileLost, Accounted, Places, Metadata, Undisturbed, EverythingPutBack,
                AnalysedMeansWhole, OnlyUnrecordedLost, InBag
<1>2. QED
  BY <1>1, IInvStep, PTL DEF Spec

\* No file of the bag is ever lost, however many moves fail and whenever the
\* process is killed or interrupted, but for the window between move and record.
THEOREM FilesAreKept == Spec => []OnlyUnrecordedLost
<1>1. IInv => OnlyUnrecordedLost
  BY DEF IInv
<1>2. QED
  BY <1>1, IInvHolds, PTL

\* A run whose restores succeed leaves the bag as it found it, whether it
\* returns True, returns False or raises, unless it was interrupted between move
\* and record or in the finally clause.
THEOREM BagIsRestored == Spec => []EverythingPutBack
<1>1. IInv => EverythingPutBack
  BY DEF IInv
<1>2. QED
  BY <1>1, IInvHolds, PTL

\* An analysis goes on only with metadata and, as long as no earlier run was
\* killed, interrupted in the window or the finally clause, or unable to restore,
\* with every file of the bag: whatever else fails, and in whatever run.
THEOREM AnalysedIsWhole == Spec => []AnalysedMeansWhole
<1>1. IInv => AnalysedMeansWhole
  BY DEF IInv
<1>2. QED
  BY <1>1, IInvHolds, PTL

===============================================================================
