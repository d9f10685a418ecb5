--------------------------- MODULE InodeLifecycle ---------------------------
(***************************************************************************)
(* Reference counting of inode records across the handlers of PageAlignFS *)
(* (src/pafs/page_align_fs.cc) that hand inode handles to the kernel or    *)
(* take them back: ReplyWithLookup (Lookup, Mknod, Mkdir, Symlink, Link),  *)
(* Create with ReplyWithCreate, ReadDirInternal (ReadDir, ReadDirPlus),    *)
(* Forget and ForgetMulti.                                                 *)
(*                                                                         *)
(* Worker threads of the fuse multi-threaded loop each run one request at  *)
(* a time; their steps interleave at the operations on the shared          *)
(* InodeCache.  Each thread's locals are the ones of the C++ handler: the  *)
(* shared_ptr of the current inode (cur), the vector of shared_ptrs kept   *)
(* by ReadDirPlus (vec), the references taken on behalf of the kernel and  *)
(* guarded by a cleanup until the reply (kref), and the Unrefs that run at *)
(* scope exit (drop), in the order C++ destroys them.                      *)
(*                                                                         *)
(* The kernel is the environment: nlookup[k] is its lookup count of the    *)
(* handle of key k.  It grows when an entry reply reaches it (a lookup     *)
(* reply, or a ReadDirPlus entry other than "." and "..", which the        *)
(* kernel's fuse_direntplus_link skips) and drops to 0 when it sends the   *)
(* FORGET carrying the whole count.  A reply may fail to reach it          *)
(* (interrupted request, aborted connection).                              *)
(***************************************************************************)
EXTENDS Naturals, Sequences, FiniteSets, SequencesExt, Functions, InodeCache

CONSTANTS
    Threads,      \* worker threads of fuse_session_loop_mt
    Keys,         \* (device, inode-number) pairs of source objects
    Entries,      \* the source root directory as readdir returns it
    DotNames,     \* the names "." and ".."
    CrossDev,     \* keys on another device than the source root
    CacheLocked,  \* TRUE: each cache operation is atomic (spec.md sec. 5)
    MaxRequests,  \* bound on Lookup, ReadDir and ReadDirPlus requests
    NoReq, NoKey, NoLoad

ASSUME Threads # {} /\ MaxRequests \in Nat /\ CacheLocked \in BOOLEAN
ASSUME \A i \in DOMAIN Entries : Entries[i].key \in Keys
ASSUME CrossDev \subseteq Keys /\ NoKey \notin Keys

VARIABLES
    inodes,   \* InodeCache::inodes_: key -> refcnt
    nlookup,  \* the kernel's lookup count per key
    req,      \* the request a thread is handling
    pc,       \* where in its handler the thread is
    todo,     \* readdir: entries the directory stream has still to return
    cur,      \* the shared_ptr<Inode> of the current scope
    vec,      \* ReadDirInternal's vector `inodes` (entries, with names)
    kref,     \* refs taken for the kernel, undone by a cleanup on failure
    drop,     \* Unrefs still to run at scope exit, in destruction order
    loaded,   \* refcount a thread has loaded, when the cache is unlocked
    issued,   \* requests of bounded kinds received so far
    crashed   \* a CHECK failed and aborted the process

vars == <<inodes, nlookup, req, pc, todo, cur, vec, kref, drop, loaded,
          issued, crashed>>

Labels == {"idle", "cr_open", "lk_insert", "lk_param", "lk_reply", "rd_next",
           "rd_add", "rd_reply", "fg_unref", "drop"}

LookupEntries == {Entries[i] : i \in {j \in DOMAIN Entries :
                                        Entries[j].name \notin DotNames}}

VecKeys(t) == [i \in DOMAIN vec[t] |-> vec[t][i].key]

-----------------------------------------------------------------------------
(* The cache as thread t sees it when it updates key k: the current map,  *)
(* except that without a lock k's refcount is the one t loaded earlier.   *)

View(t, k) ==
    IF CacheLocked THEN inodes
    ELSE IF loaded[t].present THEN SetCount(inodes, k, loaded[t].n)
    ELSE [x \in DOMAIN inodes \ {k} |-> inodes[x]]

CacheReady(t) == CacheLocked \/ loaded[t] # NoLoad

\* The key of the cache operation thread t performs next, if any.
OpKey(t) ==
    CASE pc[t] = "lk_insert"           -> req[t].key
      [] pc[t] \in {"lk_param", "rd_add"} -> cur[t]
      [] pc[t] = "rd_next" /\ todo[t] # <<>> -> Head(todo[t]).key
      [] pc[t] = "fg_unref"            -> Head(req[t].batch).key
      [] pc[t] = "drop"                -> Head(drop[t])
      [] OTHER                         -> NoKey

\* Unsynchronised cache: the load half of a refcount update.
Load(t) ==
    /\ ~CacheLocked /\ ~crashed
    /\ loaded[t] = NoLoad /\ OpKey(t) # NoKey
    /\ loaded' = [loaded EXCEPT ![t] =
                    [present |-> OpKey(t) \in DOMAIN inodes,
                     n |-> RefCount(inodes, OpKey(t))]]
    /\ UNCHANGED <<inodes, nlookup, req, pc, todo, cur, vec, kref, drop,
                   issued, crashed>>

\* Unref(k, n) by thread t, as the callers that log its status do it: an
\* absent entry is logged, an underflow aborts on CHECK_GE.
DoUnref(t, k, n) ==
    LET m == View(t, k) IN
    /\ inodes' = IF UnrefMissing(m, k) \/ UnrefUnderflows(m, k, n)
                 THEN inodes ELSE Unref(m, k, n)
    /\ crashed' = UnrefUnderflows(m, k, n)

\* The thread leaves its handler scope: its locals are destroyed, which
\* queues the Unrefs d in destruction order; they run, then the
\* dispatcher's reply (a failure reply on error paths), and the thread idles.
Leave(t, d) ==
    /\ drop' = [drop EXCEPT ![t] = d]
    /\ pc' = [pc EXCEPT ![t] = IF d = <<>> THEN "idle" ELSE "drop"]
    /\ req' = [req EXCEPT ![t] = IF d = <<>> THEN NoReq ELSE @]
    /\ cur' = [cur EXCEPT ![t] = NoKey]
    /\ vec' = [vec EXCEPT ![t] = <<>>]
    /\ kref' = [kref EXCEPT ![t] = <<>>]
    /\ todo' = [todo EXCEPT ![t] = <<>>]

Locals == <<req, cur, vec, kref, todo, drop>>

Goto(t, l) == pc' = [pc EXCEPT ![t] = l]

Done(t) == loaded' = [loaded EXCEPT ![t] = NoLoad]

-----------------------------------------------------------------------------
(* The kernel sends a request and an idle worker thread picks it up.      *)

RecvLookup(t) ==
    /\ pc[t] = "idle" /\ issued < MaxRequests
    /\ \E e \in LookupEntries :
         req' = [req EXCEPT ![t] = [op |-> "lookup", key |-> e.key]]
    /\ Goto(t, "lk_insert")
    /\ issued' = issued + 1
    /\ UNCHANGED <<inodes, nlookup, todo, cur, vec, kref, drop, loaded,
                   crashed>>

RecvCreate(t) ==
    /\ pc[t] = "idle" /\ issued < MaxRequests
    /\ \E e \in LookupEntries :
         req' = [req EXCEPT ![t] = [op |-> "create", key |-> e.key]]
    /\ Goto(t, "cr_open")
    /\ issued' = issued + 1
    /\ UNCHANGED <<inodes, nlookup, todo, cur, vec, kref, drop, loaded,
                   crashed>>

RecvReadDir(t) ==
    /\ pc[t] = "idle" /\ issued < MaxRequests
    /\ \E plus \in BOOLEAN, off \in 1..Len(Entries) :
         /\ req' = [req EXCEPT ![t] = [op |-> "readdir", plus |-> plus]]
         /\ todo' = [todo EXCEPT ![t] = SubSeq(Entries, off, Len(Entries))]
    /\ Goto(t, "rd_next")
    /\ issued' = issued + 1
    /\ UNCHANGED <<inodes, nlookup, cur, vec, kref, drop, loaded, crashed>>

\* FORGET or BATCH_FORGET: the kernel evicts the handles of keys S and
\* sends their whole lookup counts.
RecvForget(t) ==
    /\ pc[t] = "idle"
    /\ \E S \in SUBSET {k \in Keys : nlookup[k] > 0} :
         /\ S # {}
         /\ req' = [req EXCEPT ![t] =
                      [op |-> "forget", multi |-> Cardinality(S) > 1,
                       batch |-> [i \in 1..Cardinality(S) |->
                                    LET k == SetToSeq(S)[i]
                                    IN [key |-> k, n |-> nlookup[k]]]]]
         /\ nlookup' = [k \in Keys |-> IF k \in S THEN 0 ELSE nlookup[k]]
    /\ Goto(t, "fg_unref")
    /\ UNCHANGED <<inodes, todo, cur, vec, kref, drop, loaded, issued,
                   crashed>>

-----------------------------------------------------------------------------
(* Create(req, ino, name, mode, fi), page_align_fs.cc 450-469: openat with *)
(* O_CREAT, then ReplyWithCreate (663-690), whose steps are the ones of    *)
(* ReplyWithLookup below with ReplyCreate for ReplyEntry.  The descriptor  *)
(* it opens for fi.fh is FuseReply's concern.                              *)

CreateOpen(t) ==
    /\ pc[t] = "cr_open"
    /\ \/ Leave(t, <<>>)                      \* openat failed
       \/ /\ Goto(t, "lk_insert")
          /\ UNCHANGED Locals
    /\ UNCHANGED <<inodes, nlookup, loaded, issued, crashed>>

-----------------------------------------------------------------------------
(* ReplyWithLookup(req, parent, name), page_align_fs.cc 692-718.          *)

\* FindOrCreateInode: Inode::Create (openat O_PATH, fstatat) then Insert.
LookupInsert(t) ==
    /\ pc[t] = "lk_insert" /\ CacheReady(t)
    /\ \/ /\ Leave(t, <<>>)                    \* openat/fstatat failed
          /\ UNCHANGED inodes
       \/ /\ inodes' = Insert(View(t, req[t].key), req[t].key)
          /\ cur' = [cur EXCEPT ![t] = req[t].key]
          /\ Goto(t, "lk_param")
          /\ UNCHANGED <<req, vec, kref, todo, drop>>
    /\ Done(t)
    /\ UNCHANGED <<nlookup, issued, crashed>>

\* A child on another device, or a failed stat / FS_IOC_GETVERSION in
\* CreateFuseEntryParam: return an error; the shared_ptr's deleter Unrefs.
LookupReject(t) ==
    /\ pc[t] = "lk_param" /\ CacheReady(t)
    /\ Leave(t, <<cur[t]>>)
    /\ Done(t)
    /\ UNCHANGED <<inodes, nlookup, issued, crashed>>

\* Increment the refcnt on behalf of the kernel, guarded by a cleanup.
LookupRef(t) ==
    /\ pc[t] = "lk_param" /\ CacheReady(t)
    /\ cur[t] \notin CrossDev
    /\ LET m == View(t, cur[t]) IN
       IF RefFails(m, cur[t])
       THEN /\ Leave(t, <<cur[t]>>)
            /\ UNCHANGED inodes
       ELSE /\ inodes' = Ref(m, cur[t], 1)
            /\ kref' = [kref EXCEPT ![t] = <<cur[t]>>]
            /\ Goto(t, "lk_reply")
            /\ UNCHANGED <<req, cur, vec, todo, drop>>
    /\ Done(t)
    /\ UNCHANGED <<nlookup, issued, crashed>>

LookupReply(t) ==
    /\ pc[t] = "lk_reply"
    /\ \/ /\ nlookup' = [nlookup EXCEPT ![cur[t]] = @ + 1]
          /\ Leave(t, <<cur[t]>>)
       \/ /\ Leave(t, <<cur[t]>> \o kref[t])
          /\ UNCHANGED nlookup
    /\ UNCHANGED <<inodes, loaded, issued, crashed>>

-----------------------------------------------------------------------------
(* ReadDirInternal(req, dir, size, off, fi, plus), page_align_fs.cc       *)
(* 583-626, after seekdir(off).                                            *)

\* The scope exits with an error: the cleanup unref_inodes, then the
\* vector `inodes` (declared first, destroyed last).
ReadDirAbort(t) == kref[t] \o VecKeys(t)

\* (Mutant) the loop without the `if (entry == nullptr) break;`.
ReadDirNextNoEnd(t) ==
    /\ pc[t] = "rd_next" /\ todo[t] = <<>>
    /\ UNCHANGED vars

\* readdir(); at the end of the stream, go reply.  Otherwise
\* FindOrCreateInode(dir, d_name), which fails when the name is gone, as a
\* failing readdir() does.
ReadDirNext(t) ==
    /\ pc[t] = "rd_next"
    /\ \/ /\ todo[t] = <<>>
          /\ Goto(t, "rd_reply")
          /\ UNCHANGED <<inodes, loaded>>
          /\ UNCHANGED Locals
       \/ /\ todo[t] # <<>> /\ CacheReady(t)
          /\ Leave(t, ReadDirAbort(t))
          /\ UNCHANGED inodes
          /\ Done(t)
       \/ /\ todo[t] # <<>> /\ CacheReady(t)
          /\ inodes' = Insert(View(t, OpKey(t)), OpKey(t))
          /\ cur' = [cur EXCEPT ![t] = OpKey(t)]
          /\ Goto(t, "rd_add")
          /\ UNCHANGED <<req, vec, kref, todo, drop>>
          /\ Done(t)
    /\ UNCHANGED <<nlookup, issued, crashed>>

\* CreateFuseEntryParam, then AddDirEntry; ReadDirPlus Refs the entry on
\* behalf of the kernel and keeps its shared_ptr in the vector; otherwise
\* the shared_ptr of the iteration is destroyed at its end.
ReadDirAdd(t) ==
    /\ pc[t] = "rd_add" /\ CacheReady(t)
    /\ LET e == Head(todo[t])
           m == View(t, cur[t])
       IN
       \/ /\ Leave(t, <<cur[t]>> \o ReadDirAbort(t))   \* stat failed
          /\ UNCHANGED <<inodes, crashed>>
       \/ /\ DoUnref(t, cur[t], 1)                     \* buffer full: break
          /\ cur' = [cur EXCEPT ![t] = NoKey]
          /\ Goto(t, "rd_reply")
          /\ UNCHANGED <<req, todo, vec, kref, drop>>
       \/ /\ ~req[t].plus
          /\ DoUnref(t, cur[t], 1)
          /\ cur' = [cur EXCEPT ![t] = NoKey]
          /\ todo' = [todo EXCEPT ![t] = Tail(@)]
          /\ Goto(t, "rd_next")
          /\ UNCHANGED <<req, vec, kref, drop>>
       \/ /\ req[t].plus
          /\ IF RefFails(m, cur[t])
             THEN /\ Leave(t, <<cur[t]>> \o ReadDirAbort(t))
                  /\ UNCHANGED <<inodes, crashed>>
             ELSE /\ inodes' = Ref(m, cur[t], 1)
                  /\ vec' = [vec EXCEPT ![t] = Append(@, e)]
                  /\ kref' = [kref EXCEPT ![t] = Append(@, cur[t])]
                  /\ todo' = [todo EXCEPT ![t] = Tail(@)]
                  /\ cur' = [cur EXCEPT ![t] = NoKey]
                  /\ Goto(t, "rd_next")
                  /\ UNCHANGED <<req, drop, crashed>>
    /\ Done(t)
    /\ UNCHANGED <<nlookup, issued>>

\* The kernel's count grows for each ReadDirPlus entry it links.
LinkedBy(entries, k) ==
    Cardinality({i \in DOMAIN entries :
                   entries[i].key = k /\ entries[i].name \notin DotNames})

\* dirs.Reply(): ReplyBuf; on success the cleanup is cancelled and only the
\* vector's shared_ptrs Unref, on failure the cleanup Unrefs every kernel
\* ref first.
ReadDirReply(t) ==
    /\ pc[t] = "rd_reply"
    /\ \/ /\ nlookup' = [k \in Keys |-> nlookup[k] + LinkedBy(vec[t], k)]
          /\ Leave(t, VecKeys(t))
       \/ /\ Leave(t, ReadDirAbort(t))
          /\ UNCHANGED nlookup
    /\ UNCHANGED <<inodes, loaded, issued, crashed>>

-----------------------------------------------------------------------------
(* Forget (page_align_fs.cc 60-65) and ForgetMulti (197-205).             *)

\* Unref(GetInode(ino), nlookup).  An absent entry is an InternalError:
\* Forget logs it; ForgetMulti returns it and skips the rest of the batch.
ForgetUnref(t) ==
    /\ pc[t] = "fg_unref" /\ CacheReady(t)
    /\ LET f == Head(req[t].batch)
           m == View(t, f.key)
           rest == Tail(req[t].batch)
       IN
       /\ DoUnref(t, f.key, f.n)
       /\ IF UnrefMissing(m, f.key) \/ rest = <<>>
          THEN Leave(t, <<>>)
          ELSE /\ req' = [req EXCEPT ![t].batch = rest]
               /\ UNCHANGED <<pc, cur, vec, kref, todo, drop>>
    /\ Done(t)
    /\ UNCHANGED <<nlookup, issued>>

\* One destructor or cleanup at scope exit: the shared_ptr deleter's
\* LOG_IF_ERROR(WARNING, Unref(*i)) or the cleanup's Unref(inode).
DropRef(t) ==
    /\ pc[t] = "drop" /\ CacheReady(t)
    /\ DoUnref(t, Head(drop[t]), 1)
    /\ Leave(t, Tail(drop[t]))
    /\ Done(t)
    /\ UNCHANGED <<nlookup, issued>>

-----------------------------------------------------------------------------
Init ==
    /\ inodes = [k \in {} |-> 0]
    /\ nlookup = [k \in Keys |-> 0]
    /\ req = [t \in Threads |-> NoReq]
    /\ pc = [t \in Threads |-> "idle"]
    /\ todo = [t \in Threads |-> <<>>]
    /\ cur = [t \in Threads |-> NoKey]
    /\ vec = [t \in Threads |-> <<>>]
    /\ kref = [t \in Threads |-> <<>>]
    /\ drop = [t \in Threads |-> <<>>]
    /\ loaded = [t \in Threads |-> NoLoad]
    /\ issued = 0
    /\ crashed = FALSE

\* The steps of a thread inside a handler.
Step(t) ==
    \/ Load(t) \/ CreateOpen(t)
    \/ LookupInsert(t) \/ LookupReject(t) \/ LookupRef(t) \/ LookupReply(t)
    \/ ReadDirNext(t) \/ ReadDirAdd(t) \/ ReadDirReply(t)
    \/ ForgetUnref(t) \/ DropRef(t)

Receive(t) ==
    RecvLookup(t) \/ RecvCreate(t) \/ RecvReadDir(t) \/ RecvForget(t)

Next == ~crashed /\ \E t \in Threads : Receive(t) \/ Step(t)

\* A worker thread runs its handler to the end: handlers never wait on one
\* another, and every syscall they make returns.
Fairness == \A t \in Threads : WF_vars(~crashed /\ Step(t))

Spec == Init /\ [][Next]_vars /\ Fairness

-----------------------------------------------------------------------------
Copies(k, s) == Cardinality({i \in DOMAIN s : s[i] = k})

\* What the kernel sent back in a FORGET the thread has not applied yet.
ForgetOwed(t, k) ==
    IF req[t] = NoReq \/ req[t].op # "forget" THEN 0
    ELSE LET B == {i \in DOMAIN req[t].batch : req[t].batch[i].key = k}
         IN IF B = {} THEN 0 ELSE req[t].batch[CHOOSE i \in B : TRUE].n

\* Every reference to k that somebody may still give back: the kernel's
\* count, the counts in FORGETs being applied, and each live shared_ptr,
\* kernel ref under a cleanup, and queued Unref of every thread.
Holders(k) ==
    nlookup[k] +
    SumFunction([t \in Threads |->
        ForgetOwed(t, k) + Copies(k, kref[t]) + Copies(k, drop[t])
        + Copies(k, VecKeys(t)) + (IF cur[t] = k THEN 1 ELSE 0)])

TypeOK ==
    /\ DOMAIN inodes \subseteq Keys
    /\ \A k \in DOMAIN inodes : inodes[k] \in Nat \ {0}
    /\ nlookup \in [Keys -> Nat]
    /\ pc \in [Threads -> Labels]
    /\ cur \in [Threads -> Keys \cup {NoKey}]
    /\ \A t \in Threads :
          /\ kref[t] \in Seq(Keys) /\ drop[t] \in Seq(Keys)
          /\ loaded[t] \in [present : BOOLEAN, n : Nat] \cup {NoLoad}
    /\ issued \in 0..MaxRequests
    /\ crashed \in BOOLEAN

(* The cache never counts fewer references to an inode than are held:    *)
(* by the kernel (lookup counts and unapplied FORGETs) and by the          *)
(* handlers in flight.  Otherwise an Unref frees the Inode (closing its    *)
(* O_PATH fd) while the kernel still sends its address as fuse_ino_t, or a *)
(* later Unref fails CHECK_GE in InodeCache::Unref and aborts the server.  *)
RefcountCoversHolders ==
    \A k \in Keys : RefCount(inodes, k) >= Holders(k)

(* Once no handler runs, the cache's count of every inode is the kernel's *)
(* lookup count (spec.md sec. 8): each reference a handler took either     *)
(* reached the kernel, which gives it back by FORGET, or was given back by  *)
(* the handler; in particular an inode the kernel has forgotten has no     *)
(* cache entry and no open O_PATH fd.                                      *)
RefcountIsKernelCount ==
    (\A t \in Threads : pc[t] = "idle") =>
        \A k \in Keys : RefCount(inodes, k) = nlookup[k]

(* The kernel never holds a handle of an inode on another device than the *)
(* source root: ReplyWithLookup refuses such a child with                  *)
(* FailedPrecondition ("cannot span multiple source mounts").             *)
NoCrossDeviceHandle ==
    \A k \in CrossDev : nlookup[k] = 0

\* The cache seen as HandleAccounting: an object is cached while the cache
\* has an entry for its key.
Abs == INSTANCE HandleAccounting WITH cached <- DOMAIN inodes

RequestsComplete ==
    \A t \in Threads : (req[t] # NoReq) ~> (req[t] = NoReq)

=============================================================================
