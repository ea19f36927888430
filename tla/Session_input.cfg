SPECIFICATION Spec
CONSTANTS
    Length = 10
    FsSizes = {1}
    Directories = {}
    MaxKills = 0
INVARIANT ShortLinesHeard
