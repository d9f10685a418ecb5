-------------------------------- MODULE XAttr --------------------------------
(***************************************************************************)
(* Extended attributes through pagealignfs: the SetXAttr, GetXAttr,        *)
(* ListXAttr and RemoveXAttr handlers (src/pafs/page_align_fs.cc) over the *)
(* syscall wrappers of src/pafs/syscalls.cc, their dispatchers             *)
(* (src/pafs/fuse_ops.h) and the errno conversion of ErrnoMapping.         *)
(*                                                                         *)
(* One request at a time: a user's xattr syscall on the mount is one step  *)
(* made of the kernel's request, the handler on the source inode           *)
(* (/proc/self/fd/<fd>), the reply and the kernel's reading of it.  The    *)
(* kernel is the environment: a size-0 GETXATTR/LISTXATTR asks for the     *)
(* length and expects a fuse_getxattr_out (8 bytes); a reply of another    *)
(* length is an EIO; ENOSYS disables the operation for the whole mount.    *)
(***************************************************************************)
EXTENDS Naturals, FiniteSets, Folds

CONSTANTS
    ErrnoOf, StrErrorName, AbslErrnoToStatusCode,  \* see ErrnoMapping
    Names,        \* attribute names in namespaces the source supports
    BadNames,     \* names in a namespace it does not (EOPNOTSUPP)
    NameBytes,    \* Names -> length of the name plus its NUL in a list
    Lengths,      \* value lengths
    Sizes,        \* buffer sizes a caller passes (0 asks for the length)
    MaxCalls,     \* bound on the user's xattr calls
    Absent        \* an attribute the inode does not have

ASSUME /\ Absent \notin Lengths /\ MaxCalls \in Nat
       /\ NameBytes \in [Names -> Nat \ {0}]

Errno == INSTANCE ErrnoMapping

E(n) == ErrnoOf[n]

\* Results of a syscall: a byte count or an errno.
Ret(n) == [ok |-> TRUE, n |-> n]
Fail(e) == [ok |-> FALSE, n |-> e]

\* The flags of setxattr(2).
Flags == {"0", "XATTR_CREATE", "XATTR_REPLACE"}

\* The kernel's size of a fuse_getxattr_out.
GetXAttrOutSize == 8

VARIABLES
    xattrs,   \* the source inode's attributes: name -> length or Absent
    latched,  \* operations the kernel has marked unimplemented (fc->no_*)
    alive,    \* the server has not aborted on a CHECK
    last,     \* the last call: what the source returns, what the user got
    calls

vars == <<xattrs, latched, alive, last, calls>>

-----------------------------------------------------------------------------
(* The source filesystem, as reached through /proc/self/fd/<fd>.           *)

Present == {n \in Names : xattrs[n] # Absent}

\* The length of the list listxattr(2) returns: each name and its NUL.
ListBytes ==
    MapThenFoldSet(+, 0, LAMBDA n : NameBytes[n],
                   LAMBDA s : CHOOSE x \in s : TRUE, Present)

\* getxattr(2) with a buffer of size bytes; size 0 returns the length.
SysGetXAttr(n, size) ==
    CASE n \in BadNames            -> Fail(E("EOPNOTSUPP"))
      [] xattrs[n] = Absent        -> Fail(E("ENODATA"))
      [] size > 0 /\ xattrs[n] > size -> Fail(E("ERANGE"))
      [] OTHER                     -> Ret(xattrs[n])

\* listxattr(2) with a buffer of size bytes; size 0 returns the length.
SysListXAttr(size) ==
    IF size > 0 /\ ListBytes > size THEN Fail(E("ERANGE")) ELSE Ret(ListBytes)

SysSetXAttr(n, len, fl) ==
    CASE n \in BadNames                             -> Fail(E("EOPNOTSUPP"))
      [] fl = "XATTR_CREATE" /\ xattrs[n] # Absent  -> Fail(E("EEXIST"))
      [] fl = "XATTR_REPLACE" /\ xattrs[n] = Absent -> Fail(E("ENODATA"))
      [] OTHER                                      -> Ret(0)

SysRemoveXAttr(n) ==
    CASE n \in BadNames     -> Fail(E("EOPNOTSUPP"))
      [] xattrs[n] = Absent -> Fail(E("ENODATA"))
      [] OTHER              -> Ret(0)

-----------------------------------------------------------------------------
(* The server: what each handler sends back.  A reply is an errno, a       *)
(* buffer of b bytes, or nothing when the server aborts.                   *)

ErrReply(e) == [kind |-> "err", n |-> e]
BufReply(b) == [kind |-> "buf", n |-> b]
Abort == [kind |-> "abort", n |-> 0]

\* A failed status through FuseRequest::ReplyFailure.
FailureReply(r) == ErrReply(Errno!ReplyFailureErrno(Errno!ErrnoToStatus(r.n)))

\* SetXAttr and RemoveXAttr under ReplyAlwaysAndLogIfNotOk: 0 or the failure.
StatusReply(r) == IF r.ok THEN ErrReply(0) ELSE FailureReply(r)

\* A failed CHECK: the process aborts.
CheckFailed == [abort |-> TRUE]

\* syscalls::getxattr(path, name, maxsize): getxattr(2) into a vector of
\* maxsize bytes, CHECK_LE(nb, maxsize), then resize(nb).
GetXAttrVector(n, maxsize) ==
    LET r == SysGetXAttr(n, maxsize)
    IN IF r.ok /\ r.n > maxsize THEN CheckFailed ELSE r

\* GetXAttr: the vector of at most size bytes, then ReplyBuf.
GetXAttr(n, size) ==
    LET r == GetXAttrVector(n, size)
    IN CASE r = CheckFailed -> Abort
         [] ~r.ok           -> FailureReply(r)
         [] OTHER           -> BufReply(r.n)

\* ListXAttr: buf(size), listxattr(2), buf.resize(nb) (zero-filled), then
\* ReplyBuf of all nb bytes.
ListXAttr(size) ==
    LET r == SysListXAttr(size)
    IN IF r.ok THEN BufReply(r.n) ELSE FailureReply(r)

-----------------------------------------------------------------------------
(* The kernel (fs/fuse/xattr.c, dev.c): the result the user's syscall gets *)
(* from a reply.  ENOSYS latches fc->no_<op> and becomes EOPNOTSUPP.  A     *)
(* reply after an abort never comes: the connection is gone (ENOTCONN).    *)

UserResult(rep, size) ==
    CASE rep.kind = "abort"                        -> Fail(E("ENOTCONN"))
      [] rep.kind = "err" /\ rep.n = E("ENOSYS")   -> Fail(E("EOPNOTSUPP"))
      [] rep.kind = "err" /\ rep.n # 0             -> Fail(rep.n)
      [] rep.kind = "err"                          -> Ret(0)
      \* size 0: the 8 bytes are a fuse_getxattr_out; its size field is 0
      \* in the zero-filled buffer ListXAttr sends.
      [] size = 0 /\ rep.n = GetXAttrOutSize       -> Ret(0)
      [] size = 0                                  -> Fail(E("EIO"))
      [] rep.n > size                              -> Fail(E("EIO"))
      [] OTHER                                     -> Ret(rep.n)

Latches(op, rep) ==
    latched' = IF rep.kind = "err" /\ rep.n = E("ENOSYS")
               THEN latched \cup {op} ELSE latched

\* One call of the user's: the kernel answers EOPNOTSUPP itself once the
\* operation is latched, ENOTCONN once the server is gone; otherwise the
\* server handles the request.
Call(op, expected, rep, size, xattrsAfter) ==
    /\ calls < MaxCalls
    /\ calls' = calls + 1
    /\ IF ~alive
       THEN /\ last' = [op |-> op, expected |-> expected,
                        got |-> Fail(E("ENOTCONN"))]
            /\ UNCHANGED <<xattrs, latched, alive>>
       ELSE IF op \in latched
       THEN /\ last' = [op |-> op, expected |-> expected,
                        got |-> Fail(E("EOPNOTSUPP"))]
            /\ UNCHANGED <<xattrs, latched, alive>>
       ELSE /\ last' = [op |-> op, expected |-> expected,
                        got |-> UserResult(rep, size)]
            /\ Latches(op, rep)
            /\ alive' = (rep.kind # "abort")
            /\ xattrs' = xattrsAfter

-----------------------------------------------------------------------------
DoSetXAttr ==
    \E n \in Names \cup BadNames, len \in Lengths, fl \in Flags :
        LET r == SysSetXAttr(n, len, fl)
        IN Call("setxattr", r, StatusReply(r), 1,
                IF r.ok THEN [xattrs EXCEPT ![n] = len] ELSE xattrs)

DoGetXAttr ==
    \E n \in Names \cup BadNames, size \in Sizes :
        Call("getxattr", SysGetXAttr(n, size), GetXAttr(n, size), size, xattrs)

DoListXAttr ==
    \E size \in Sizes :
        Call("listxattr", SysListXAttr(size), ListXAttr(size), size, xattrs)

DoRemoveXAttr ==
    \E n \in Names \cup BadNames :
        LET r == SysRemoveXAttr(n)
        IN Call("removexattr", r, StatusReply(r), 1,
                IF r.ok THEN [xattrs EXCEPT ![n] = Absent] ELSE xattrs)

Init ==
    /\ xattrs \in [Names -> Lengths \cup {Absent}]
    /\ latched = {}
    /\ alive = TRUE
    /\ last = [op |-> "none", expected |-> Ret(0), got |-> Ret(0)]
    /\ calls = 0

Next == DoSetXAttr \/ DoGetXAttr \/ DoListXAttr \/ DoRemoveXAttr

Spec == Init /\ [][Next]_vars

-----------------------------------------------------------------------------
(* Every xattr call on the mount gets what the same call on the source     *)
(* returns: the length for a size-0 query, the value's or the list's size, *)
(* or the same errno.  This is what a passthrough promises, and the        *)
(* size-0 path of GetXAttr and ListXAttr is marked untested in the code.   *)
XAttrPassthrough == last.got = last.expected

====
