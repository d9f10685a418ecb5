\* chmod, chown, utimes or truncate of a path under the mount point: does
\* the server outlive a SETATTR without FATTR_FH?
CONSTANTS
    f1 = f1  f2 = f2  h1 = h1  h2 = h2
    NoOp = NoOp  NoFh = NoFh  NoHandle = NoHandle
    PollHandles <- MCPollHandles
    Fhs <- MCFhs
    Ops <- MCAllOps
    ReplyCanFail = TRUE
    MaxRequests = 3
    SetLkCanSucceed = FALSE
    BufCopyCanFail = TRUE
    SetAttrByPath = TRUE

SPECIFICATION Spec
INVARIANT NoStaleMount
CHECK_DEADLOCK FALSE
