\* Every handler: is every request but FORGET answered?
CONSTANTS
    f1 = f1  f2 = f2  h1 = h1  h2 = h2
    NoOp = NoOp  NoFh = NoFh  NoHandle = NoHandle
    PollHandles <- MCPollHandles
    Fhs <- MCFhs
    Ops <- MCAllOps
    ReplyCanFail = TRUE
    MaxRequests = 4
    SetLkCanSucceed = FALSE
    BufCopyCanFail = TRUE
    SetAttrByPath = FALSE

SPECIFICATION Spec
INVARIANT ReplyExactlyOnce
CHECK_DEADLOCK FALSE
