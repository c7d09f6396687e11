CONSTANTS
  Nodes = {1, 2, 3}
  None = none
  ShowTicks = 2
SPECIFICATION Spec
INVARIANTS TypeOK
PROPERTIES RequestsGoToMarked MarkerMovesByKey DiagnosticsFollow
