\* Every handler; replies may fail to reach the kernel; FuseBufCopy succeeds
\* (fr_writebuf takes its failure).
CONSTANTS
    f1 = f1  f2 = f2  h1 = h1  h2 = h2
    NoOp = NoOp  NoFh = NoFh  NoHandle = NoHandle
    PollHandles <- MCPollHandles
    Fhs <- MCFhs
    Ops <- MCAllOps
    ReplyCanFail = TRUE
    MaxRequests = 6
    SetLkCanSucceed = FALSE
    BufCopyCanFail = FALSE
    SetAttrByPath = FALSE

SPECIFICATION Spec
INVARIANT ReplyExactlyOnce
INVARIANT SuccessNotReportedAsError
INVARIANT KernelHandlesOpen
INVARIANT NoStaleMount
PROPERTY SignalUnmounts
INVARIANT NotifyOnLiveHandle
INVARIANT NoPollHandleLeak
\* After MaxRequests requests the kernel sends nothing more.
CHECK_DEADLOCK FALSE
