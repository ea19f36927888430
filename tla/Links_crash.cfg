CONSTANTS
  CountDirect = 1
  CountLinks = 2
  WordMod = 16
  BlockCount = 5
  InodeCount = 3
  MaxCrashes = 1
  StackWords = {}
SPECIFICATION Spec
CONSTRAINT Untorn
INVARIANTS LinkedIsAllocated Contiguous FreeInodeLinksNothing LinkedOnce
PROPERTIES ImplementsAllocation
