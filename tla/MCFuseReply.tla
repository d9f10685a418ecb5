---------------------------- MODULE MCFuseReply ----------------------------
EXTENDS FuseReply

CONSTANTS f1, f2, h1, h2

MCFhs == {f1, f2}
MCPollHandles == {h1, h2}
MCAllOps == AllOps
=============================================================================
