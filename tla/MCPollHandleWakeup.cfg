\* The single-threaded loop (-s), two open files of one inode polled by
\* two waiting processes, then a write.
CONSTANTS
    t1 = t1  t2 = t2  h1 = h1  h2 = h2  h3 = h3  f1 = f1  f2 = f2
    NoHandle = NoHandle
    Threads <- MCSingleThread
    Handles <- MCHandles
    Files <- MCTwoFiles
    MaxRequests = 4

SPECIFICATION Spec
PROPERTY WriteWakesPollers
\* After MaxRequests requests the kernel sends nothing more.
CHECK_DEADLOCK FALSE
