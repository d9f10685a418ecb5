---------------------------- MODULE MCPollHandle ----------------------------
EXTENDS PollHandle

CONSTANTS t1, t2, h1, h2, h3, f1, f2

MCThreads == {t1, t2}
MCSingleThread == {t1}
MCHandles == {h1, h2, h3}
MCOneFile == {f1}
MCTwoFiles == {f1, f2}
====
