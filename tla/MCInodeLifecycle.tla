------------------------- MODULE MCInodeLifecycle --------------------------
(***************************************************************************)
(* A source root holding ".", "..", a file reachable by two hard links    *)
(* "a" and "b", and a mount point "m" of another device.  kRoot is the    *)
(* root itself (reached only through "."), kUp the directory above it.     *)
(***************************************************************************)
EXTENDS InodeLifecycle

CONSTANTS t1, t2, kRoot, kUp, kA, kM, dot, dotdot, a, b, m

MCThreads == {t1, t2}
MCSingleThread == {t1}
MCKeys == {kRoot, kUp, kA, kM}
MCEntries == << [name |-> dot,    key |-> kRoot],
                [name |-> dotdot, key |-> kUp],
                [name |-> a,      key |-> kA],
                [name |-> b,      key |-> kA],
                [name |-> m,      key |-> kM] >>
MCDotNames == {dot, dotdot}
MCCrossDev == {kM}
=============================================================================
