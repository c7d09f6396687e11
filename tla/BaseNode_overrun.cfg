CONSTANTS
  RatedLoops = {"Loop1"}
  DiagnosticLists = {none, faults}
  NoDiagnostics = none
  MaxEvents = 3
SPECIFICATION Spec
PROPERTIES OverrunReported
