\* The InodeCache as the code has it: no lock around its operations.
CONSTANTS
    t1 = t1  t2 = t2
    kRoot = kRoot  kUp = kUp  kA = kA  kM = kM
    dot = dot  dotdot = dotdot  a = a  b = b  m = m
    NoReq = NoReq  NoKey = NoKey  NoLoad = NoLoad
    Threads <- MCThreads
    Keys <- MCKeys
    Entries <- MCEntries
    DotNames <- MCDotNames
    CrossDev <- MCCrossDev
    CacheLocked = FALSE
    MaxRequests = 2

SPECIFICATION Spec
INVARIANT RefcountCoversHolders
CHECK_DEADLOCK FALSE
