SPECIFICATION Spec
CONSTANTS
    Length = 7
    FsSizes = {1, 4, 8}
    Directories <- UpToThree
    MaxKills = 1
INVARIANTS TypeOK SeeksInside FormatIsWhole PromptIsCwd CutExactly AtMostTwoBefore
