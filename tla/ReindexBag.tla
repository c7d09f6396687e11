------------------------------- MODULE ReindexBag -------------------------------
(***************************************************************************)
(* reindex_bag() of Tools/LogAnalysis/scripts/log_analyzer.py, run again   *)
(* and again on one bag, as generate_metadata_summary() does: empty or     *)
(* unreadable MCAP files are moved out of the bag into a quarantine        *)
(* directory, `ros2 bag reindex` writes metadata.yaml, and the files are   *)
(* moved back.  Any move may fail, and the process may be killed at any    *)
(* point or interrupted (KeyboardInterrupt).                               *)
(***************************************************************************)
EXTENDS Integers, FiniteSets

CONSTANTS
  Files,       \* the MCAP files of the bag
  MaxRuns,     \* bound: runs of the analyzer over the bag
  MaxFaults    \* bound: failed moves, kills and interrupts of a behaviour

ASSUME FilesAssumption == IsFiniteSet(Files)
ASSUME BoundsAssumption == MaxRuns \in Nat /\ MaxFaults \in Nat

VARIABLES
  pc,           \* where the run is
  kind,         \* what each file is
  copies,       \* the directories that hold a complete copy of each file
  moving,       \* the file that was moved and is not yet recorded
  quarantined,  \* quarantined_files; while restoring, those still to restore
  created,      \* quarantine_dir is not None
  metadata,     \* metadata.yaml exists
  success,      \* the local variable of that name
  restoreOk,    \* restore_ok
  raised,       \* an exception is on its way out
  outcome,      \* how the last run ended
  present,      \* history: the files in the bag when the run began
  disturbed,    \* history: an earlier run may have left files out of the bag
  interrupted,  \* history: where a KeyboardInterrupt has hit
  runs, faults

localVars == <<moving, quarantined, created, success, restoreOk, raised>>
diskVars  == <<kind, copies, metadata>>
boundVars == <<interrupted, runs, faults>>
atBegin   == <<present, disturbed>>
vars == <<pc, localVars, diskVars, outcome, atBegin, boundVars>>

\* "quarantine" is the directory of this run; "leftover" stands for those that
\* earlier runs left behind beside the bag.  No later run looks there for the
\* files of this bag (find_bag_directories takes one for a bag of its own).
Directories == {"bag", "quarantine", "leftover"}

\* An "empty" file has no byte, a "short" one too few to be opened, and a
\* "link" is empty and really lies outside the bag.
Kinds == {"good", "empty", "short", "link"}

Outcomes == {"none", "true", "false", "raised", "killed", "skipped"}

RunPlaces == {"idle", "run", "record", "restore", "cleanup"}

\* Among the rest: no step leaves a copy of a file anywhere but in the bag and in
\* the quarantine directories, so a restore takes it back to where it came from.
TypeOK ==
  /\ pc \in RunPlaces /\ interrupted \subseteq RunPlaces
  /\ kind \in [Files -> Kinds]
  /\ copies \in [Files -> SUBSET Directories]
  /\ moving \subseteq Files
  /\ quarantined \subseteq Files
  /\ created \in BOOLEAN
  /\ metadata \in BOOLEAN
  /\ success \in BOOLEAN
  /\ restoreOk \in BOOLEAN
  /\ raised \in BOOLEAN
  /\ outcome \in Outcomes
  /\ present \subseteq Files
  /\ disturbed \in BOOLEAN
  /\ runs \in 0..MaxRuns
  /\ faults \in 0..MaxFaults

Init ==
  /\ pc = "idle"
  /\ kind \in [Files -> Kinds]
  /\ copies = [f \in Files |-> {"bag"}]
  /\ metadata = FALSE
  /\ moving = {} /\ quarantined = {} /\ created = FALSE
  /\ success = FALSE /\ restoreOk = TRUE /\ raised = FALSE
  /\ outcome = "none" /\ present = {} /\ disturbed = FALSE
  /\ interrupted = {} /\ runs = 0 /\ faults = 0

Fault == faults < MaxFaults /\ faults' = faults + 1 /\ UNCHANGED runs

InBag(f)    == "bag" \in copies[f]
EmptyFiles  == { f \in Files : InBag(f) /\ kind[f] = "empty" }
EmptyLinks  == { f \in Files : InBag(f) /\ kind[f] = "link" }
ShortFiles  == { f \in Files : InBag(f) /\ kind[f] = "short" }

Forget(f, d) == copies[f] \ {d}

-----------------------------------------------------------------------------
\* The last run was killed, was interrupted before it had put back all that it
\* moved, or could not put it back.
Disturbance == outcome = "killed" \/ ~restoreOk \/ interrupted \cap {"record", "restore"} # {}

\* generate_metadata_summary reindexes only a bag without metadata.yaml.
SkipReindex ==
  /\ pc = "idle" /\ runs < MaxRuns /\ metadata
  /\ runs' = runs + 1
  /\ outcome' = "skipped"
  /\ disturbed' = (disturbed \/ Disturbance)
  /\ UNCHANGED <<pc, localVars, diskVars, present, interrupted, faults>>

\* A fresh quarantine directory: what is in an old one stays there.
BeginReindex ==
  /\ pc = "idle" /\ runs < MaxRuns /\ ~metadata
  /\ runs' = runs + 1
  /\ pc' = "run"
  /\ moving' = {} /\ quarantined' = {} /\ created' = FALSE
  /\ success' = FALSE /\ restoreOk' = TRUE /\ raised' = FALSE
  /\ copies' = [f \in Files |-> IF "quarantine" \in copies[f]
                                  THEN Forget(f, "quarantine") \cup {"leftover"}
                                  ELSE copies[f]]
  /\ outcome' = "none"
  /\ present' = { f \in Files : InBag(f) }
  /\ disturbed' = (disturbed \/ Disturbance)
  /\ UNCHANGED <<kind, metadata, interrupted, faults>>

-----------------------------------------------------------------------------
(* The files to skip: first those the scan finds empty, in any order, then *)
(* those that reindex says it could not open.                              *)

ToQuarantine == IF EmptyFiles \cup EmptyLinks # {} THEN EmptyFiles ELSE ShortFiles

\* Mutant: the file is copied, not moved.
CopyToQuarantine(f) ==
  /\ pc = "run" /\ f \in ToQuarantine
  /\ created' = TRUE
  /\ copies' = [copies EXCEPT ![f] = @ \cup {"quarantine"}]
  /\ moving' = {f}
  /\ pc' = "record"
  /\ UNCHANGED <<kind, metadata, quarantined, success, restoreOk, raised, outcome,
                 atBegin, boundVars>>

\* quarantine_file moves the file ...
MoveToQuarantine(f) ==
  /\ pc = "run" /\ f \in ToQuarantine
  /\ created' = TRUE
  /\ copies' = [copies EXCEPT ![f] = Forget(f, "bag") \cup {"quarantine"}]
  /\ moving' = {f}
  /\ pc' = "record"
  /\ UNCHANGED <<kind, metadata, quarantined, success, restoreOk, raised, outcome,
                 atBegin, boundVars>>

\* ... then records it for the finally clause, and the loop goes on.
Record ==
  /\ pc = "record"
  /\ quarantined' = quarantined \cup moving
  /\ moving' = {}
  /\ pc' = "run"
  /\ UNCHANGED <<diskVars, created, success, restoreOk, raised, outcome, atBegin, boundVars>>

\* Making the directory or moving the file raises: the file stays in the bag,
\* and a move between file systems may have left a copy.
MoveRaises(f) ==
  /\ pc = "run" /\ f \in ToQuarantine
  /\ Fault
  /\ created' \in {created, TRUE}
  /\ \/ UNCHANGED copies
     \/ created' /\ copies' = [copies EXCEPT ![f] = @ \cup {"quarantine"}]
  /\ raised' = TRUE
  /\ pc' = "restore"
  /\ UNCHANGED <<kind, metadata, moving, quarantined, success, restoreOk, outcome,
                 atBegin, interrupted>>

\* quarantine_file refuses: an empty file outside the bag, or reindex names
\* a file that is not in the bag.
RefuseToQuarantine ==
  /\ pc = "run" /\ (EmptyFiles = {} \/ EmptyLinks # {})
  /\ pc' = "restore"
  /\ UNCHANGED <<localVars, diskVars, outcome, atBegin, boundVars>>

\* The tool fails, is missing or times out; it may have written the metadata.
ReindexFails ==
  /\ pc = "run" /\ EmptyFiles \cup EmptyLinks = {}
  /\ metadata' \in {metadata, TRUE}
  /\ pc' = "restore"
  /\ UNCHANGED <<localVars, kind, copies, outcome, atBegin, boundVars>>

\* Scanning the bag or running the tool raises what nothing handles.
ToolRaises ==
  /\ pc = "run"
  /\ Fault
  /\ raised' = TRUE
  /\ pc' = "restore"
  /\ UNCHANGED <<diskVars, moving, quarantined, created, success, restoreOk, outcome,
                 atBegin, interrupted>>

\* The tool exits with 0, which does not by itself mean that it wrote metadata.
ReindexCompletes ==
  /\ pc = "run" /\ EmptyFiles \cup EmptyLinks \cup ShortFiles = {}
  /\ metadata' \in {metadata, TRUE}
  /\ success' = metadata'
  /\ pc' = "restore"
  /\ UNCHANGED <<moving, quarantined, created, restoreOk, raised, kind, copies, outcome,
                 atBegin, boundVars>>

-----------------------------------------------------------------------------
(* The finally clause.                                                     *)

\* Mutant: the path is taken from the directory around the bag, where the
\* quarantine directory is, not from the bag: the file lands beside it.
RestoreFileBeside(f) ==
  /\ pc = "restore" /\ f \in quarantined
  /\ copies' = [copies EXCEPT ![f] = Forget(f, "quarantine") \cup {"beside"}]
  /\ quarantined' = quarantined \ {f}
  /\ UNCHANGED <<pc, kind, metadata, moving, created, success, restoreOk, raised,
                 outcome, atBegin, boundVars>>

\* Mutant: the file is put back by name only, not by its path in the bag.
RestoreFileElsewhere(f) ==
  /\ pc = "restore" /\ f \in quarantined
  /\ copies' = [copies EXCEPT ![f] = Forget(f, "quarantine") \cup {"leftover"}]
  /\ quarantined' = quarantined \ {f}
  /\ UNCHANGED <<pc, kind, metadata, moving, created, success, restoreOk, raised,
                 outcome, atBegin, boundVars>>

RestoreFile(f) ==
  /\ pc = "restore" /\ f \in quarantined
  /\ copies' = [copies EXCEPT ![f] = Forget(f, "quarantine") \cup {"bag"}]
  /\ quarantined' = quarantined \ {f}
  /\ UNCHANGED <<pc, kind, metadata, moving, created, success, restoreOk, raised,
                 outcome, atBegin, boundVars>>

RestoreFails(f) ==
  /\ pc = "restore" /\ f \in quarantined
  /\ Fault
  /\ \/ UNCHANGED copies
     \/ copies' = [copies EXCEPT ![f] = @ \cup {"bag"}]
  /\ quarantined' = quarantined \ {f}
  /\ restoreOk' = FALSE
  /\ UNCHANGED <<pc, kind, metadata, moving, created, success, raised, outcome,
                 atBegin, interrupted>>

Restored ==
  /\ pc = "restore" /\ quarantined = {}
  /\ pc' = "cleanup"
  /\ UNCHANGED <<localVars, diskVars, outcome, atBegin, boundVars>>

\* rmtree, with its errors ignored: it may leave some of the directory.
RemoveQuarantine ==
  \E left \in SUBSET Files :
    copies' = [f \in Files |-> IF f \in left THEN copies[f] ELSE Forget(f, "quarantine")]

\* Mutant: the quarantine directory is removed whatever restore_ok says.
RemoveQuarantineAlways ==
  IF created THEN RemoveQuarantine ELSE UNCHANGED copies

CleanQuarantine ==
  IF created /\ restoreOk THEN RemoveQuarantine ELSE UNCHANGED copies

\* Mutant: "return success".
ReindexResultWithoutRestore == success

ReindexResult == success /\ restoreOk

EndRun ==
  /\ pc = "cleanup"
  /\ CleanQuarantine
  /\ outcome' = IF raised THEN "raised" ELSE IF ReindexResult THEN "true" ELSE "false"
  /\ pc' = "idle"
  /\ UNCHANGED <<localVars, kind, metadata, atBegin, boundVars>>

-----------------------------------------------------------------------------
(* What happens to the process.                                            *)

\* A tool that is stopped, or left behind, may still have written the metadata.
ToolMayWrite == metadata' \in {metadata, metadata \/ pc = "run"}

\* rmtree may be under way.
MayClean == IF pc = "cleanup" THEN CleanQuarantine ELSE UNCHANGED copies

\* SIGKILL or a power loss: the finally clause does not run.
Kill ==
  /\ pc # "idle"
  /\ Fault
  /\ ToolMayWrite
  /\ MayClean
  /\ outcome' = "killed"
  /\ pc' = "idle"
  /\ UNCHANGED <<localVars, kind, atBegin, interrupted>>

\* KeyboardInterrupt, between any two steps of Python: the finally clause runs,
\* but for an interrupt of the clause itself, which is not an OSError.
Interrupt ==
  /\ pc # "idle"
  /\ Fault
  /\ interrupted' = interrupted \cup {pc}
  /\ ToolMayWrite
  /\ MayClean
  /\ raised' = TRUE
  /\ IF pc \in {"run", "record"} THEN pc' = "restore" /\ UNCHANGED outcome
     ELSE pc' = "idle" /\ outcome' = "raised"
  /\ UNCHANGED <<kind, moving, quarantined, created, success, restoreOk, atBegin>>

-----------------------------------------------------------------------------
Python ==
  \/ \E f \in Files : MoveToQuarantine(f) \/ MoveRaises(f)
  \/ Record \/ RefuseToQuarantine \/ ReindexFails \/ ToolRaises \/ ReindexCompletes
  \/ \E f \in Files : RestoreFile(f) \/ RestoreFails(f)
  \/ Restored \/ EndRun

AllRunsDone == pc = "idle" /\ runs = MaxRuns /\ UNCHANGED vars

Next == SkipReindex \/ BeginReindex \/ Python \/ Kill \/ Interrupt \/ AllRunsDone

Spec == Init /\ [][Next]_vars

\* The code is straight-line but for its loop, and the tool is stopped after
\* 300 seconds: a run that is not killed keeps taking steps.
FairSpec == Spec /\ WF_vars(Python)

-----------------------------------------------------------------------------
(* Properties.                                                             *)

\* "Reindex a bag, temporarily skipping empty or unreadable MCAP files": no
\* failure leaves a recorded file without a copy on the disk.
NoFileLost == \A f \in Files : copies[f] # {}

\* The one window in which a file can get lost: no failed move, no kill and no
\* interrupt leaves a file without a copy, but for an interrupt that hits
\* between the move of a file and its record.
OnlyUnrecordedLost == "record" \notin interrupted => NoFileLost

\* A run that ends without a failed restore has put back every file that it
\* found in the bag, also when it returns False, raises or is interrupted
\* before the finally clause and outside of that window.
EverythingPutBack ==
  pc = "idle" /\ outcome \in {"true", "false", "raised"} /\ restoreOk
      /\ interrupted \cap {"record", "restore"} = {}
    => \A f \in present : InBag(f)

\* The analysis goes on, after a True or because metadata.yaml is there already,
\* with metadata.yaml and with every file of the bag in it, unless an earlier
\* run was killed, interrupted while files were out of the bag, or failed to
\* put one back.  What such a run left in its quarantine directory stays there,
\* and neither True nor the later runs tell; even then True says that this run
\* has left everything in the bag that it found there.
AnalysedMeansWhole ==
  /\ outcome \in {"true", "skipped"} =>
       metadata /\ (~disturbed => \A f \in Files : InBag(f))
  /\ outcome = "true" => \A f \in present : InBag(f)

\* The loop ends: a file is skipped at most once, so every run that is not
\* killed comes to its end, whatever the tool reports.
RunsEnd == pc # "idle" ~> pc = "idle"

===============================================================================
