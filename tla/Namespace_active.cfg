CONSTANTS
  InodeCount = 3
  Names = {"a", "b"}
  DirItems = 4
  MaxItems = 4
  Unusual = {"kill"}
SPECIFICATION Spec
INVARIANTS ActiveMeansLost
