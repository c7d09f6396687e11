CONSTANTS
  Nodes = {n1}
  Timeout = 1
  Depth = 2
  MaxChanges = 3
  Widths = {80, 172, 173, 240}
  Heights = {10, 24, 59, 60, 200, 20000}
  Ids = {0, 8, 9, 27, 28, 29, 102, 103, 9999, 10000}
  NameLengths = {30, 200}
  Silences = {0, 1700000000}
SPECIFICATION FairSpec
INVARIANTS TypeOK SilenceShows 
PROPERTIES DeadNodeShown LiveNodeShown
