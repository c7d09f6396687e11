CONSTANTS
  Files = {f1, f2, f3}
  MaxRuns = 2
  MaxFaults = 2
SPECIFICATION FairSpec
INVARIANTS TypeOK OnlyUnrecordedLost EverythingPutBack AnalysedMeansWhole
PROPERTIES RunsEnd
