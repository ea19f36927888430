CONSTANTS
  CountDirect = 1
  CountLinks = 2
  WordMod = 16
  BlockCount = 6
  InodeCount = 2
  MaxCrashes = 0
  StackWords = {}
SPECIFICATION Spec
INVARIANT FailedCreateFreesLinks
