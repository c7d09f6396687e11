CONSTANTS
  RatedLoops = {}
  DiagnosticLists = {none,faults}
  NoDiagnostics = none
  MaxEvents = 2
SPECIFICATION FairSpec
INVARIANTS TypeOK TimersFollowState
PROPERTIES SilentUnlessRunning OneHzOverrunReported FollowsDocumentedStates HeartbeatsContinue ReportCatchesUp
