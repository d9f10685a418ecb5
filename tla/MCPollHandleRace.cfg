\* Two worker threads, one open file: a Poll replaces the handle a
\* WriteBuf is notifying.
CONSTANTS
    t1 = t1  t2 = t2  h1 = h1  h2 = h2  h3 = h3  f1 = f1  f2 = f2
    NoHandle = NoHandle
    Threads <- MCThreads
    Handles <- MCHandles
    Files <- MCOneFile
    MaxRequests = 4

SPECIFICATION Spec
INVARIANT NotifyOnLiveHandle
\* After MaxRequests requests the kernel sends nothing more.
CHECK_DEADLOCK FALSE
