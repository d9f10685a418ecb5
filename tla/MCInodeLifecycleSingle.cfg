\* fuse_session_loop (the -s option): one thread, the cache unlocked.
CONSTANTS
    t1 = t1  t2 = t2
    kRoot = kRoot  kUp = kUp  kA = kA  kM = kM
    dot = dot  dotdot = dotdot  a = a  b = b  m = m
    NoReq = NoReq  NoKey = NoKey  NoLoad = NoLoad
    Threads <- MCSingleThread
    Keys <- MCKeys
    Entries <- MCEntries
    DotNames <- MCDotNames
    CrossDev <- MCCrossDev
    CacheLocked = FALSE
    MaxRequests = 4

SPECIFICATION Spec
INVARIANT TypeOK
INVARIANT RefcountCoversHolders
PROPERTY RequestsComplete
 
\* The server idles when the kernel sends nothing more.
CHECK_DEADLOCK FALSE
