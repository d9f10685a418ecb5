\* ReadDirPlus of a directory holding a mount point of another device.
\* The -s loop: one thread, the cache unlocked as in inode.cc.
CONSTANTS
    t1 = t1  t2 = t2
    kRoot = kRoot  kUp = kUp  kA = kA  kM = kM
    dot = dot  dotdot = dotdot  a = a  b = b  m = m
    NoReq = NoReq  NoKey = NoKey  NoLoad = NoLoad
    Threads <- MCSingleThread
    Keys <- MCKeys
    Entries <- MCEntries
    DotNames <- MCDotNames
    CrossDev <- MCCrossDev
    CacheLocked = FALSE
    MaxRequests = 2

SPECIFICATION Spec
INVARIANT NoCrossDeviceHandle
CHECK_DEADLOCK FALSE
