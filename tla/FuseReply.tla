----------------------------- MODULE FuseReply -----------------------------
(***************************************************************************)
(* How a request of the kernel is answered: the FuseRequest reply token    *)
(* (src/pafs/fuse.h, fuse.cc), the dispatcher lambdas of                   *)
(* src/pafs/fuse_ops.h that wrap every handler with a reply policy, the    *)
(* reply shape of each handler of src/pafs/page_align_fs.cc, and the file  *)
(* and directory handles (fi.fh) that Open, Create and OpenDir hand to the *)
(* kernel and Release and ReleaseDir take back.                            *)
(*                                                                         *)
(* One worker thread handles one request at a time: the token belongs to   *)
(* the request alone, so requests on other threads do not interleave with  *)
(* it.  A handler's syscalls are nondeterministic successes or failures;   *)
(* a reply written to /dev/fuse may fail to reach the kernel (ENOENT for an *)
(* interrupted request), after which libfuse has freed the request.        *)
(*                                                                         *)
(* Poll and WriteBuf share the Inode's poll handle (PollHandle): a POLL   *)
(* of an open file the kernel holds stores the handle, a WRITE notifies   *)
(* it.  The one worker is the single-threaded session loop.                *)
(*                                                                         *)
(* Requests come only while the Session serves: from the kernel's INIT to  *)
(* a termination signal or an unmount; Main's cleanups run once no request *)
(* is being handled.                                                       *)
(***************************************************************************)
EXTENDS Naturals, Sequences, FiniteSets, Session

CONSTANTS
    Ops,           \* the opcodes the kernel sends in this model
    Fhs,           \* descriptors the server may open for fi.fh
    ReplyCanFail,  \* TRUE: a reply may fail to reach the kernel
    MaxRequests,   \* bound on the number of requests
    SetLkCanSucceed, \* FALSE: fcntl F_SETLK on the inode's O_PATH fd is EBADF
    BufCopyCanFail,  \* TRUE: WriteBuf's FuseBufCopy may fail
    SetAttrByPath,   \* TRUE: the kernel sends SETATTR without FATTR_FH
    PollHandles,   \* fuse_pollhandle allocations libfuse can make
    NoOp, NoFh, NoHandle

VARIABLES
    op,      \* the opcode of the request being handled, NoOp when idle
    pc,      \* "idle", "handler", "dispatch", "dtor"; "aborted" after a CHECK
    token,   \* FuseRequest::req_ is engaged: nobody has replied yet
    sent,    \* replies written to /dev/fuse for this request, in order
    status,  \* the absl::Status the handler returned: "ok" or "err"
    fh,      \* fi.fh of the request, NoFh when it names no handle
    sfiles,  \* file descriptors the server holds open for file handles
    sdirs,   \* directory descriptors the server holds open
    kfiles,  \* file handles the kernel holds (a delivered open/create reply)
    kdirs,   \* directory handles the kernel holds
    count,   \* requests received so far
    slot, live, used, ppc, param, old, reg, kh, waiting  \* PollHandle's

replyVars == <<op, pc, token, sent, status, fh, sfiles, sdirs, kfiles, kdirs,
               count>>

pollVars == <<slot, live, used, ppc, param, old, reg, kh, waiting>>

vars == <<replyVars, sessionVars, pollVars>>

\* The worker thread of the single-threaded loop.
Worker == "worker"

\* The poll handle of the one inode whose files the kernel opens; its
\* requests are the worker's, counted with the others.
PH == INSTANCE PollHandle
        WITH Threads <- {Worker}, Handles <- PollHandles, Files <- Fhs,
             pc <- ppc, issued <- count

-----------------------------------------------------------------------------
(* The reply policy each dispatcher lambda of fuse_ops.h applies to the    *)
(* status its handler returns.                                             *)

FailurePolicyOps ==
    {"Lookup", "GetAttr", "SetAttr", "ReadLink", "Mknod", "Mkdir", "Symlink",
     "Link", "Open", "OpenDir", "StatFS", "GetXAttr", "ListXAttr", "Create",
     "GetLk", "SetLk", "Poll", "CopyFileRange", "LSeek"}
AlwaysPolicyOps ==
    {"Unlink", "Rmdir", "Rename", "Read", "Flush", "Release", "FSync",
     "ReadDir", "ReleaseDir", "FSyncDir", "SetXAttr", "RemoveXAttr", "Access",
     "FLock", "FAllocate", "ReadDirPlus"}
NonePolicyOps == {"Forget", "ForgetMulti", "WriteBuf"}

AllOps == FailurePolicyOps \cup AlwaysPolicyOps \cup NonePolicyOps

\* The opcodes the kernel expects no reply to (fuse_lowlevel.h).
NoReplyOps == {"Forget", "ForgetMulti"}

\* Opcodes whose fi.fh names an open file, or an open directory.
FileFhOps == {"Read", "WriteBuf", "Flush", "Release", "FSync"}
DirFhOps == {"ReadDir", "ReadDirPlus", "FSyncDir", "ReleaseDir"}

ASSUME Ops \subseteq AllOps /\ MaxRequests \in Nat
ASSUME NoFh \notin Fhs /\ ReplyCanFail \in BOOLEAN
ASSUME SetLkCanSucceed \in BOOLEAN /\ BufCopyCanFail \in BOOLEAN
ASSUME SetAttrByPath \in BOOLEAN

Delivery == IF ReplyCanFail THEN BOOLEAN ELSE {TRUE}

-----------------------------------------------------------------------------
(* FuseRequest::Reply*: when the token is engaged, write the reply, spend  *)
(* the token and return the write's status; otherwise return OkStatus.    *)
(* `delivered` is FALSE when fuse_reply_* returned an error.               *)

\* (Mutant) a reply method without the `if (!req_) return OkStatus();`.
SendUnchecked(kind, delivered) ==
    /\ token' = FALSE
    /\ sent' = Append(sent, [kind |-> kind, delivered |-> delivered])

Send(kind, delivered) ==
    /\ token' = FALSE
    /\ sent' = IF token THEN Append(sent, [kind |-> kind,
                                           delivered |-> delivered])
               ELSE sent

SendResult(delivered) ==
    IF token /\ ~delivered THEN "err" ELSE "ok"

\* A reply of the handler's own kind (ReplyAttr, ReplyEntry, ReplyOpen,
\* ReplyBuf, ReplyData, ReplyWrite, ...): the handler returns its status.
HandlerReplies ==
    \E d \in Delivery :
        /\ Send("typed", d)
        /\ status' = SendResult(d)

Returns(s) == /\ status' = s /\ UNCHANGED <<token, sent>>

Handler(o) == pc = "handler" /\ op = o

ToDispatch == pc' = "dispatch"

FilesUnchanged == UNCHANGED <<sfiles, sdirs, kfiles, kdirs>>

-----------------------------------------------------------------------------
(* Handler shapes.  A handler of SyscallOnly shape performs syscalls and   *)
(* returns their status, leaving the reply to the dispatcher; one of       *)
(* SyscallThenReply shape returns early on a failed syscall and otherwise  *)
(* replies with its own kind and returns that reply's status.              *)

SyscallOnly(o) ==
    /\ Handler(o)
    /\ \E s \in {"ok", "err"} : Returns(s)
    /\ ToDispatch
    /\ FilesUnchanged
    /\ UNCHANGED <<op, fh, count>>

SyscallThenReply(o) ==
    /\ Handler(o)
    /\ Returns("err") \/ HandlerReplies
    /\ ToDispatch
    /\ FilesUnchanged
    /\ UNCHANGED <<op, fh, count>>

\* Descriptors not in use: open() and openat() hand out one of these, and
\* fail with EMFILE when there is none.
FreeFhs == Fhs \ (sfiles \cup sdirs)

\* The FileDescriptor of descriptor f at the end of its scope: released
\* (Release() &&) once the reply reached the kernel, else closed by its
\* destructor.
FdReleasedIf(f, replied) ==
    sfiles' = IF replied THEN sfiles \cup {f} ELSE sfiles

\* syscalls::close releases the descriptor before ::close, so it is gone
\* whatever close returns.
SysClose(f) == sfiles' = sfiles \ {f}

\* syscalls::fdopendir releases the descriptor before ::fdopendir: it stays
\* open inside the DIR, or with nobody to close it when fdopendir fails.
FdOpenDirRelease(f) == sdirs' = sdirs \cup {f}

\* ~Directory: closedir, whose failure is only logged.
DirectoryClose(f) == sdirs' = sdirs \ {f}

Lookup == SyscallThenReply("Lookup")       \* ReplyWithLookup
GetAttr == SyscallThenReply("GetAttr")     \* ReplyWithAttrs: Stat, ReplyAttr
ReadLink == SyscallThenReply("ReadLink")   \* readlinkat, ENAMETOOLONG
Mknod == SyscallThenReply("Mknod")         \* mknodat, ReplyWithLookup
Mkdir == SyscallThenReply("Mkdir")         \* mkdirat, ReplyWithLookup
Symlink == SyscallThenReply("Symlink")     \* symlinkat, ReplyWithLookup
Link == SyscallThenReply("Link")           \* linkat, ReplyWithLookup
StatFS == SyscallThenReply("StatFS")       \* fstatvfs, ReplyStatFS
GetXAttr == SyscallThenReply("GetXAttr")   \* getxattr, ReplyBuf
ListXAttr == SyscallThenReply("ListXAttr") \* listxattr, ReplyBuf
CopyFileRange == SyscallThenReply("CopyFileRange") \* ReplyWrite
LSeek == SyscallThenReply("LSeek")         \* lseek, ReplyLSeek
ReadDir == SyscallThenReply("ReadDir")     \* ReadDirInternal, dirs.Reply()
ReadDirPlus == SyscallThenReply("ReadDirPlus")

\* (Mutant) a GetLk that forgets its ReplyLock.
GetLkNoReply == SyscallOnly("GetLk")

GetLk == SyscallThenReply("GetLk")         \* fcntl F_GETLK, ReplyLock

Unlink == SyscallOnly("Unlink")            \* unlinkat
Rmdir == SyscallOnly("Rmdir")              \* unlinkat AT_REMOVEDIR
Rename == SyscallOnly("Rename")            \* renameat2
FSync == SyscallOnly("FSync")              \* fsync / fdatasync
FSyncDir == SyscallOnly("FSyncDir")        \* dirfd, fsync / fdatasync
SetXAttr == SyscallOnly("SetXAttr")        \* setxattr
RemoveXAttr == SyscallOnly("RemoveXAttr")  \* removexattr
Access == SyscallOnly("Access")            \* access
FLock == SyscallOnly("FLock")              \* flock
FAllocate == SyscallOnly("FAllocate")      \* fallocate
Flush == SyscallOnly("Flush")              \* dup, then close of the dup
Forget == SyscallOnly("Forget")            \* InodeCache::Unref
ForgetMulti == SyscallOnly("ForgetMulti")  \* Unref per entry

\* SetLk: fcntl(inode.GetFD(), F_SETLK(W)) and return its status, no reply.
\* The fd is the inode's O_PATH descriptor, on which Linux refuses locks.
SetLk ==
    /\ Handler("SetLk")
    /\ \E s \in IF SetLkCanSucceed THEN {"ok", "err"} ELSE {"err"} : Returns(s)
    /\ ToDispatch
    /\ FilesUnchanged
    /\ UNCHANGED <<op, fh, count>>

\* Read: ReplyData of a buffer that libfuse fills from fi.fh (splice or
\* read); a failing read is a failing reply.
Read ==
    /\ Handler("Read")
    /\ HandlerReplies
    /\ ToDispatch
    /\ FilesUnchanged
    /\ UNCHANGED <<op, fh, count>>

\* SetAttr.  The set_attr lambda first does CHECK_NE(fi, nullptr), and
\* libfuse's do_setattr passes a file_info only with FATTR_FH: a SETATTR
\* by path (chmod, chown, utimes, truncate) aborts the process where it
\* stands, mount and all.  With a handle, fd = fi.fh (never 0, so the
\* /proc/self/fd open is not taken); fchmod, fchownat, ftruncate, futimens
\* each return early on failure, then ReplyWithAttrs.
SetAttrFiNull == fh = NoFh

SetAttr ==
    /\ Handler("SetAttr")
    /\ \/ /\ SetAttrFiNull
          /\ pc' = "aborted" /\ phase' = "exited"
          /\ UNCHANGED <<token, sent, status, mounted, handlers, exitReq,
                         gotInit>>
       \/ /\ ~SetAttrFiNull
          /\ Returns("err") \/ HandlerReplies
          /\ ToDispatch
          /\ UNCHANGED sessionVars
    /\ FilesUnchanged
    /\ UNCHANGED <<op, fh, count, pollVars>>

\* Poll: once AddPollHandle is done, poll(2) and ReplyPoll(revents).
Poll == SyscallThenReply("Poll") /\ PH!PollReply(Worker)

\* WriteBuf: FuseBufCopy into fi.fh; ReplyWrite; then NotifyPollEvent,
\* logged, whatever ReplyWrite returned.
WriteBuf ==
    /\ Handler("WriteBuf")
    /\ \/ BufCopyCanFail /\ Returns("err") /\ PH!WbCopy(Worker, FALSE)
       \/ HandlerReplies /\ PH!WbCopy(Worker, TRUE)
    /\ ToDispatch
    /\ FilesUnchanged
    /\ UNCHANGED <<op, fh, count>>

-----------------------------------------------------------------------------
(* The handlers that open or close a handle the kernel holds.              *)

\* (Mutant) Open without `std::move(fd).Release()`: the FileDescriptor
\* closes the descriptor the kernel was just given.
OpenNoRelease ==
    /\ Handler("Open")
    /\ \/ Returns("err") /\ FilesUnchanged
       \/ \E f \in FreeFhs, d \in Delivery :
            /\ Send("typed", d) /\ status' = SendResult(d)
            /\ kfiles' = IF d THEN kfiles \cup {f} ELSE kfiles
            /\ UNCHANGED <<sfiles, sdirs, kdirs>>
    /\ ToDispatch
    /\ UNCHANGED <<op, fh, count>>

\* Open: open("/proc/self/fd/N"), set fi.fh, ReplyOpen.  The descriptor is
\* released to the kernel only after a successful reply; on a failed one
\* the FileDescriptor closes it.
Open ==
    /\ Handler("Open")
    /\ \/ Returns("err") /\ FilesUnchanged                  \* open failed
       \/ \E f \in FreeFhs, d \in Delivery :
            /\ Send("typed", d) /\ status' = SendResult(d)
            /\ FdReleasedIf(f, d)
            /\ kfiles' = IF d THEN kfiles \cup {f} ELSE kfiles
            /\ UNCHANGED <<sdirs, kdirs>>
    /\ ToDispatch
    /\ UNCHANGED <<op, fh, count>>

\* Create: openat(O_CREAT), set fi.fh, ReplyWithCreate, which may fail
\* before its ReplyCreate (FindOrCreateInode, another device, stat, Ref);
\* the descriptor is released only after a successful reply.
Create ==
    /\ Handler("Create")
    /\ \/ Returns("err") /\ FilesUnchanged                  \* openat failed
       \/ \E f \in FreeFhs :
            /\ Returns("err") /\ FilesUnchanged             \* before reply
       \/ \E f \in FreeFhs, d \in Delivery :
            /\ Send("typed", d) /\ status' = SendResult(d)
            /\ FdReleasedIf(f, d)
            /\ kfiles' = IF d THEN kfiles \cup {f} ELSE kfiles
            /\ UNCHANGED <<sdirs, kdirs>>
    /\ ToDispatch
    /\ UNCHANGED <<op, fh, count>>

\* OpenDir: openat(".", O_DIRECTORY), Directory::Create (fdopendir), then
\* `new Directory`, fi.fh, ReplyOpen.  fdopendir is given the released
\* descriptor, which nobody closes when it fails; the Directory of a
\* failed ReplyOpen is not deleted.
OpenDir ==
    /\ Handler("OpenDir")
    /\ \/ Returns("err") /\ FilesUnchanged                  \* openat failed
       \/ \E f \in FreeFhs :                                \* fdopendir failed
            /\ Returns("err")
            /\ FdOpenDirRelease(f)
            /\ UNCHANGED <<sfiles, kfiles, kdirs>>
       \/ \E f \in FreeFhs, d \in Delivery :
            /\ Send("typed", d) /\ status' = SendResult(d)
            /\ FdOpenDirRelease(f)
            /\ kdirs' = IF d THEN kdirs \cup {f} ELSE kdirs
            /\ UNCHANGED <<sfiles, kfiles>>
    /\ ToDispatch
    /\ UNCHANGED <<op, fh, count>>

\* Release: close(FileDescriptor(fi.fh)); the descriptor is gone whatever
\* close returns.
Release ==
    /\ Handler("Release")
    /\ \E s \in {"ok", "err"} : Returns(s)
    /\ SysClose(fh)
    /\ ToDispatch
    /\ UNCHANGED <<sdirs, kfiles, kdirs, op, fh, count>>

\* ReleaseDir: delete the Directory (closedir, logged); returns OkStatus.
ReleaseDir ==
    /\ Handler("ReleaseDir")
    /\ Returns("ok")
    /\ DirectoryClose(fh)
    /\ ToDispatch
    /\ UNCHANGED <<sfiles, kfiles, kdirs, op, fh, count>>

-----------------------------------------------------------------------------
(* libfuse hands a request to a fuse_lowlevel_ops entry; the dispatcher    *)
(* lambda wraps it in a FuseRequest.  The kernel sends requests on a       *)
(* handle only while it holds the handle, and forgets a handle when it      *)
(* sends its RELEASE or RELEASEDIR; a file a process waits on in poll is   *)
(* not released before the wait ends.  POLL names an open file too (the    *)
(* poll handle carries its kh), and libfuse allocates its poll handle.     *)
Receive ==
    /\ Serving
    /\ pc = "idle" /\ count < MaxRequests
    /\ \E o \in Ops :
         /\ op' = o
         /\ \/ /\ o \notin FileFhOps \cup DirFhOps \cup {"Poll", "SetAttr"}
               /\ fh' = NoFh
               /\ UNCHANGED <<kfiles, kdirs, pollVars>>
            \/ /\ o \in FileFhOps
               /\ \E f \in kfiles :
                    /\ o = "Release" => f \notin waiting
                    /\ fh' = f
                    /\ kfiles' = IF o = "Release" THEN kfiles \ {f} ELSE kfiles
               /\ IF o = "WriteBuf" THEN PH!RecvWrite(Worker)
                                    ELSE UNCHANGED pollVars
               /\ UNCHANGED kdirs
            \/ /\ o \in DirFhOps
               /\ \E f \in kdirs :
                    /\ fh' = f
                    /\ kdirs' = IF o = "ReleaseDir" THEN kdirs \ {f} ELSE kdirs
               /\ UNCHANGED <<kfiles, pollVars>>
            \/ /\ o = "SetAttr"        \* FATTR_FH: ftruncate, open(O_TRUNC)
               /\ \/ \E f \in kfiles : fh' = f
                  \/ SetAttrByPath /\ fh' = NoFh
               /\ UNCHANGED <<kfiles, kdirs, pollVars>>
            \/ /\ o = "Poll"
               /\ \E f \in kfiles : fh' = f /\ PH!RecvPoll(Worker, f)
               /\ UNCHANGED <<kfiles, kdirs>>
    /\ pc' = "handler" /\ token' = TRUE /\ sent' = <<>> /\ status' = "none"
    /\ count' = count + 1
    /\ UNCHANGED <<sfiles, sdirs>>

\* The dispatcher's reply after the handler returns:
\* ReplyFailureAndLogIfNotOk replies only to an error, ReplyAlwaysAndLogIfNotOk
\* replies ReplyErrno(0) or ReplyFailure, and the forget and write_buf
\* lambdas call ReplyNone.  Each reply is a no-op when the token is spent.
Dispatch ==
    /\ pc = "dispatch" /\ ppc[Worker] = "idle"    \* the handler has returned
    /\ \/ /\ op \in FailurePolicyOps /\ status = "ok"
          /\ UNCHANGED <<token, sent>>
       \/ /\ op \in FailurePolicyOps \cup AlwaysPolicyOps /\ status = "err"
          /\ \E d \in Delivery : Send("err", d)
       \/ /\ op \in AlwaysPolicyOps /\ status = "ok"
          /\ \E d \in Delivery : Send("ok", d)
       \/ /\ op \in NonePolicyOps
          /\ Send("none", TRUE)
    /\ pc' = "dtor"
    /\ UNCHANGED <<op, status, fh, sfiles, sdirs, kfiles, kdirs, count>>

\* ~FuseRequest: a request nobody replied to is answered ReplyErrno(ECOMM).
Destroy ==
    /\ pc = "dtor"
    /\ \E d \in Delivery : Send("ecomm", d)
    /\ pc' = "idle"
    /\ UNCHANGED <<op, status, fh, sfiles, sdirs, kfiles, kdirs, count>>

Init ==
    /\ op = NoOp /\ pc = "idle" /\ token = FALSE /\ sent = <<>>
    /\ status = "none" /\ fh = NoFh
    /\ sfiles = {} /\ sdirs = {} /\ kfiles = {} /\ kdirs = {}
    /\ count = 0
    /\ SessionInit
    /\ PH!Init

HandlerStep ==
    \/ Lookup \/ GetAttr \/ ReadLink \/ Mknod \/ Mkdir
    \/ Symlink \/ Link \/ StatFS \/ GetXAttr \/ ListXAttr \/ CopyFileRange
    \/ LSeek \/ ReadDir \/ ReadDirPlus \/ GetLk \/ Unlink \/ Rmdir
    \/ Rename \/ FSync \/ FSyncDir \/ SetXAttr \/ RemoveXAttr \/ Access
    \/ FLock \/ FAllocate \/ SetLk \/ Flush \/ Forget \/ ForgetMulti \/ Read
    \/ Open \/ Create \/ OpenDir \/ Release \/ ReleaseDir

\* AddPollHandle and NotifyPollEvent inside the Poll and WriteBuf handlers.
PollHandleStep ==
    /\ \/ PH!ApLoad(Worker) \/ PH!ApStore(Worker) \/ PH!ApDestroy(Worker)
       \/ PH!WbLoad(Worker) \/ PH!WbNotify(Worker)
    /\ UNCHANGED replyVars

\* The worker's steps on a request it has taken.
ReplyStep ==
    /\ \/ (HandlerStep \/ Dispatch \/ Destroy) /\ UNCHANGED pollVars
       \/ Poll \/ WriteBuf \/ PollHandleStep
    /\ UNCHANGED sessionVars

\* The worker's steps, SetAttr's abort included.
WorkerStep == ReplyStep \/ SetAttr

\* Main's own steps; its session loop returns only when no request is being
\* handled.
MainThread == MainStep(pc = "idle") /\ UNCHANGED <<replyVars, pollVars>>

\* The environment: the user's signals and fusermount -u (refused while
\* the kernel holds a handle open), the kernel's INIT, and the end of a
\* process's wait in poll.
Environment ==
    \/ /\ Signal \/ UserUnmount(kfiles \cup kdirs # {}) \/ RecvInit
       /\ UNCHANGED <<replyVars, pollVars>>
    \/ /\ \E f \in Fhs : PH!WaitEnds(f)
       /\ UNCHANGED <<replyVars, sessionVars>>

Next ==
    \/ Receive /\ UNCHANGED sessionVars
    \/ WorkerStep
    \/ MainThread
    \/ Environment

\* The worker and Main's thread run on; the kernel and the user need not
\* send anything.
Spec == Init /\ [][Next]_vars /\ WF_vars(WorkerStep) /\ WF_vars(MainThread)

-----------------------------------------------------------------------------
Finished == pc = "idle" /\ op # NoOp

(* When a request is finished, the server has written exactly one reply to *)
(* /dev/fuse for it, between the handler's own reply, the dispatcher's     *)
(* policy reply and the FuseRequest destructor: a second one would be a use *)
(* of the request libfuse freed at the first, none leaves the caller in    *)
(* the kernel waiting forever.  FORGET and BATCH_FORGET take fuse_reply_none *)
(* and every other opcode a real reply.                                     *)
ReplyExactlyOnce ==
    Finished =>
        /\ Len(sent) = 1
        /\ (sent[1].kind = "none") <=> (op \in NoReplyOps)

(* A handler that reports success never has its request answered with an   *)
(* error: neither the dispatcher's failure reply nor the destructor's ECOMM *)
(* follows a successful operation.                                         *)
SuccessNotReportedAsError ==
    (Finished /\ status = "ok") =>
        \A i \in DOMAIN sent : sent[i].kind \notin {"err", "ecomm"}

(* Every handle the kernel holds names a descriptor the server still has   *)
(* open: READ, WRITE, FLUSH, READDIR and friends never reach a closed (or   *)
(* reused) descriptor.                                                     *)
KernelHandlesOpen ==
    kfiles \subseteq sfiles /\ kdirs \subseteq sdirs

(* Between requests, every descriptor the server holds open for a handle is *)
(* one the kernel holds and will RELEASE: no open or opendir leaks one.      *)
NoHandleLeak ==
    pc = "idle" => sfiles \subseteq kfiles /\ sdirs \subseteq kdirs

(* A server process never ends with its filesystem still mounted: on every *)
(* path out of Main after fuse_session_mount, and on a signal at any point, *)
(* the mount is removed first.  A mount left behind by a dead server        *)
(* answers every access under the mount point with ENOTCONN until someone   *)
(* runs fusermount -u.                                                      *)
NoStaleMount == phase = "exited" => ~mounted

(* A termination signal caught by libfuse's handler eventually ends the     *)
(* process with the filesystem unmounted: the loop returns once the request *)
(* in hand is answered, and the cleanups run.                               *)
SignalUnmounts == exitReq ~> (phase = "exited" /\ ~mounted)

(* In the single-threaded loop, WriteBuf's NotifyPollEvent never hands     *)
(* fuse_lowlevel_notify_poll a handle that a Poll's AddPollHandle has       *)
(* already destroyed.                                                       *)
NotifyOnLiveHandle == PH!NotifyOnLiveHandle

(* Between requests the only poll handle libfuse allocated and nobody has   *)
(* destroyed is the one in Inode::poll_handle_: the FusePollHandle swap     *)
(* destroys every handle a Poll replaces, whatever the reply did.           *)
NoPollHandleLeak == PH!NoPollHandleLeak

====
