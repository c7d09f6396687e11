CONSTANTS
  Bags = {b1, b2, b3}
  Workers = 2
  MaxChunks = 2
  MaxDeaths = 1
SPECIFICATION FairSpec
INVARIANTS TypeOK OutputComplete
PROPERTIES OutputInOrder ParentEnds
