\* The bound on host files leaves nothing to do once they are used and removed.
CONSTANTS
    CountDirect = 1
    CountLinks = 2
    WordMod = 16
    MaxEmpty = 10
    Files = {1, 2}
    BlockCount = 10
    BlockSize = 2
    HostSizes = {0, 3, 7}
    HostZeros = {0, 2}
    MaxVersions = 3
    MaxKills = 1
SPECIFICATION Spec
INVARIANTS TypeOK AcceptedFits ClosedForm RoundTrip CatAgrees NothingForeign
CHECK_DEADLOCK FALSE
