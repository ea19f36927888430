CONSTANTS
  InodeCount = 3
  Names = {"a", "lost+found"}
  DirItems = 4
  MaxItems = 4
  Unusual = {"corrupt", "load", "kill", "nospace", "empty", "infile", "nodir", "rmcwd", "data"}
SPECIFICATION Spec
CONSTRAINT Untangled
INVARIANTS TypeOK NamesUnique
PROPERTY NothingFallsOut
