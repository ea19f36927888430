CONSTANTS
  InodeCount = 4
  Names = {"a", "b"}
  DirItems = 3
  MaxItems = 7
  Unusual = {}
SPECIFICATION Spec
INVARIANTS TreeWhole NoErrorLeft
PROPERTIES ImplementsTree
