CONSTANTS
  InodeCount = 2
  Names = {"a", "b"}
  DirItems = 3
  MaxItems = 6
  Unusual = {"nospace"}
SPECIFICATION Spec
INVARIANTS NoRecordOfNothing
