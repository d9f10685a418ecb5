----------------------------- MODULE PollHandle -----------------------------
(***************************************************************************)
(* The poll handle of one Inode (src/pafs/inode.cc, fuse.cc) shared by the *)
(* Poll and WriteBuf handlers of src/pafs/page_align_fs.cc.                *)
(*                                                                         *)
(* A POLL request that asks for a notification carries a fuse_pollhandle   *)
(* that libfuse allocated; FusePollHandle owns it and destroys it in its   *)
(* destructor.  Poll moves it into Inode::poll_handle_ by a swap, and the  *)
(* parameter, now holding the previous handle, destroys that one.          *)
(* WriteBuf, after its reply, calls fuse_lowlevel_notify_poll on the       *)
(* handle it finds there.  Neither takes a lock.                          *)
(*                                                                         *)
(* The kernel is the environment.  It polls an open file (fuse_file_poll): *)
(* when a process waits on the file it asks for a notification, and the    *)
(* handle libfuse allocates carries that file's kh; a notification wakes   *)
(* the waiters of the file whose kh it carries.  Poll answers with the     *)
(* revents of poll(2) on the inode's O_PATH descriptor, which are POLLNVAL, *)
(* an event no waiter asked for: the waiter keeps waiting until it is      *)
(* notified or its timeout ends the wait.                                  *)
(***************************************************************************)
EXTENDS Naturals, FiniteSets

CONSTANTS
    Threads,      \* worker threads of the session loop
    Handles,      \* fuse_pollhandle allocations libfuse can make
    Files,        \* the kernel's open files of the inode (their kh)
    MaxRequests,  \* bound on POLL and WRITE requests
    NoHandle      \* a null fuse_pollhandle pointer

ASSUME NoHandle \notin Handles /\ MaxRequests \in Nat

VARIABLES
    slot,     \* Inode::poll_handle_.handle_
    live,     \* handles allocated and not yet fuse_pollhandle_destroy'ed
    used,     \* handles libfuse has allocated so far
    pc,       \* where in its handler each thread is
    param,    \* the handle held by Poll's FusePollHandle parameter
    old,      \* the value swap() loaded from poll_handle_
    reg,      \* the pointer Notify() loaded from poll_handle_
    issued,   \* requests received so far
    kh,       \* the open file whose kh each allocated handle carries
    waiting   \* open files with a process waiting in poll for a wakeup

vars == <<slot, live, used, pc, param, old, reg, issued, kh, waiting>>

FreshHandles == Handles \ used

Labels == {"idle", "ap_load", "ap_store", "ap_destroy", "poll",
           "wb_copy", "wb_check", "wb_load", "wb_notify"}

Goto(t, l) == pc' = [pc EXCEPT ![t] = l]

Kernel == <<kh, waiting>>

-----------------------------------------------------------------------------
(* The kernel polls open file f.  With a process waiting on f it sets      *)
(* FUSE_POLL_SCHEDULE_NOTIFY and libfuse allocates a handle carrying f's   *)
(* kh; otherwise the handle is NULL.  The dispatcher wraps it in a         *)
(* FusePollHandle.                                                         *)
RecvPoll(t, f) ==
    /\ pc[t] = "idle" /\ issued < MaxRequests
    /\ \/ /\ param' = [param EXCEPT ![t] = NoHandle]
          /\ Goto(t, "poll")                 \* AddPollHandle: if (!handle)
          /\ UNCHANGED <<used, live, Kernel>>
       \/ \E h \in FreshHandles :
            /\ param' = [param EXCEPT ![t] = h]
            /\ used' = used \cup {h}
            /\ live' = live \cup {h}
            /\ kh' = [x \in used' |-> IF x = h THEN f ELSE kh[x]]
            /\ waiting' = waiting \cup {f}
            /\ Goto(t, "ap_load")
    /\ issued' = issued + 1
    /\ UNCHANGED <<slot, old, reg>>

\* The kernel sends WRITE.
RecvWrite(t) ==
    /\ pc[t] = "idle" /\ issued < MaxRequests
    /\ Goto(t, "wb_copy")
    /\ issued' = issued + 1
    /\ UNCHANGED <<slot, live, used, param, old, reg, Kernel>>

\* The waiting process's poll timeout, or a signal, ends its wait.
WaitEnds(f) ==
    /\ f \in waiting
    /\ waiting' = waiting \ {f}
    /\ UNCHANGED <<slot, live, used, pc, param, old, reg, issued, kh>>

-----------------------------------------------------------------------------
(* Inode::AddPollHandle: poll_handle_ = std::move(handle), i.e.            *)
(* swap(handle_, o.handle_), then the parameter's destructor.              *)

ApLoad(t) ==
    /\ pc[t] = "ap_load"
    /\ old' = [old EXCEPT ![t] = slot]
    /\ Goto(t, "ap_store")
    /\ UNCHANGED <<slot, live, param, reg, used, issued, Kernel>>

\* (Mutant) a move assignment that copies the pointer instead of swapping.
ApStoreCopy(t) ==
    /\ pc[t] = "ap_store"
    /\ slot' = param[t]
    /\ Goto(t, "ap_destroy")
    /\ UNCHANGED <<live, param, old, reg, used, issued, Kernel>>

ApStore(t) ==
    /\ pc[t] = "ap_store"
    /\ slot' = param[t]
    /\ param' = [param EXCEPT ![t] = old[t]]
    /\ Goto(t, "ap_destroy")
    /\ UNCHANGED <<live, old, reg, used, issued, Kernel>>

\* (Mutant) a FusePollHandle destructor that does not destroy the handle.
ApDestroyNone(t) ==
    /\ pc[t] = "ap_destroy"
    /\ param' = [param EXCEPT ![t] = NoHandle]
    /\ Goto(t, "poll")
    /\ UNCHANGED <<slot, live, old, reg, used, issued, Kernel>>

\* ~FusePollHandle: fuse_pollhandle_destroy unless null.  The replaced
\* handle is freed without a notification.
ApDestroy(t) ==
    /\ pc[t] = "ap_destroy"
    /\ live' = live \ {param[t]}
    /\ param' = [param EXCEPT ![t] = NoHandle]
    /\ Goto(t, "poll")
    /\ UNCHANGED <<slot, old, reg, used, issued, Kernel>>

\* poll(2) with a zero timeout on the inode's O_PATH descriptor, which
\* reports POLLNVAL, then ReplyPoll(revents) or the error; neither touches
\* the poll handle nor ends a wait.
PollReply(t) ==
    /\ pc[t] = "poll"
    /\ Goto(t, "idle")
    /\ UNCHANGED <<slot, live, param, old, reg, used, issued, Kernel>>

-----------------------------------------------------------------------------
(* PageAlignFS::WriteBuf after FuseBufCopy, then Inode::NotifyPollEvent.   *)

\* FuseBufCopy fails (ok = FALSE): return, no notification; else
\* ReplyWrite, and notify whatever the reply's status.
WbCopy(t, ok) ==
    /\ pc[t] = "wb_copy"
    /\ Goto(t, IF ok THEN "wb_load" ELSE "idle")
    /\ UNCHANGED <<slot, live, param, old, reg, used, issued, Kernel>>

\* if (!poll_handle_) return; then Notify() loads handle_.  The two reads
\* are one step: no handler ever stores a null handle back.
WbLoad(t) ==
    /\ pc[t] = "wb_load"
    /\ reg' = [reg EXCEPT ![t] = slot]
    /\ Goto(t, IF slot = NoHandle THEN "idle" ELSE "wb_notify")
    /\ UNCHANGED <<slot, live, param, old, used, issued, Kernel>>

\* fuse_lowlevel_notify_poll(handle) writes FUSE_NOTIFY_POLL with the
\* handle's kh; the kernel wakes the waiters of that one file.
WbNotify(t) ==
    /\ pc[t] = "wb_notify"
    /\ waiting' = waiting \ {kh[reg[t]]}
    /\ Goto(t, "idle")
    /\ UNCHANGED <<slot, live, param, old, reg, used, issued, kh>>

-----------------------------------------------------------------------------
Init ==
    /\ slot = NoHandle
    /\ live = {}
    /\ used = {}
    /\ pc = [t \in Threads |-> "idle"]
    /\ param = [t \in Threads |-> NoHandle]
    /\ old = [t \in Threads |-> NoHandle]
    /\ reg = [t \in Threads |-> NoHandle]
    /\ issued = 0
    /\ kh = [h \in {} |-> NoHandle]
    /\ waiting = {}

Step(t) ==
    \/ ApLoad(t) \/ ApStore(t) \/ ApDestroy(t) \/ PollReply(t)
    \/ \E ok \in BOOLEAN : WbCopy(t, ok)
    \/ WbLoad(t) \/ WbNotify(t)

Next ==
    \/ \E t \in Threads :
          \/ \E f \in Files : RecvPoll(t, f)
          \/ RecvWrite(t)
          \/ Step(t)
    \/ \E f \in Files : WaitEnds(f)

Spec == Init /\ [][Next]_vars

-----------------------------------------------------------------------------
(* WriteBuf's NotifyPollEvent never hands fuse_lowlevel_notify_poll a      *)
(* handle that fuse_pollhandle_destroy has already freed (a Poll on        *)
(* another thread replaces poll_handle_ and destroys the old one).         *)
NotifyOnLiveHandle ==
    \A t \in Threads : pc[t] = "wb_notify" => reg[t] \in live

(* Between requests the only allocated poll handle is the one in           *)
(* poll_handle_: every handle a Poll replaced has been destroyed.          *)
NoPollHandleLeak ==
    (\A t \in Threads : pc[t] = "idle") => live \subseteq {slot}

(* A write into the inode wakes every process waiting in poll on one of its *)
(* open files: once WriteBuf's NotifyPollEvent has sent its notification,  *)
(* no open file of the inode still has a waiter that asked to be woken.    *)
WriteWakesPollers ==
    [][\A t \in Threads :
          (pc[t] = "wb_notify" /\ pc'[t] = "idle") => waiting' = {}]_vars

====
