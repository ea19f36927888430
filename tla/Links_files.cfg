CONSTANTS
  CountDirect = 1
  CountLinks = 2
  WordMod = 16
  BlockCount = 10
  InodeCount = 2
  MaxCrashes = 0
  StackWords = {}
SPECIFICATION FairSpec
INVARIANTS TypeOK NoLeak SizeBacked ExhaustionFindsNothing InodeBitsAgree
PROPERTIES CommandsEnd
