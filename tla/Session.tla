------------------------------ MODULE Session ------------------------------
(***************************************************************************)
(* The life of the server process, pafs::Main (src/pafs/main.cc): parse   *)
(* the command line, PageAlignFS::Create on the mount point, make the fuse *)
(* session, install libfuse's signal handlers, mount, run the session loop *)
(* and, on the way out, run the absl::Cleanups in reverse order of their   *)
(* declaration: unmount, remove the signal handlers, destroy the session   *)
(* (which calls PageAlignFS::Destroy when INIT was received), and destroy  *)
(* the PageAlignFS.  Every setup step may fail, and returns from Main with *)
(* the cleanups declared so far.                                           *)
(*                                                                         *)
(* The user is the environment: a SIGINT, SIGTERM or SIGHUP either runs    *)
(* libfuse's exit_handler (fuse_session_exit) or, with no handler          *)
(* installed, terminates the process; fusermount -u unmounts the           *)
(* filesystem when no file of it is open, and the session loop then reads  *)
(* ENODEV.  The session loop returns once the session has exited and no    *)
(* handler is running (fuse_session_loop_mt joins its workers).            *)
(***************************************************************************)

VARIABLES
    phase,     \* where Main is; "exited" once the process has ended
    mounted,   \* the kernel has the fuse filesystem mounted on the target
    handlers,  \* libfuse's exit_handler is installed for the signals
    exitReq,   \* fuse_session_exit was called (se->exited)
    gotInit    \* the kernel's INIT reached the session (se->got_init)

sessionVars == <<phase, mounted, handlers, exitReq, gotInit>>

Phases == {"parse", "create_fs", "session_new", "set_signals", "mount",
           "loop", "unmount", "remove_signals", "destroy_session",
           "destroy_fs", "exited"}

SessionInit ==
    /\ phase = "parse"
    /\ mounted = FALSE /\ handlers = FALSE
    /\ exitReq = FALSE /\ gotInit = FALSE

Goto(p) == phase' = p

-----------------------------------------------------------------------------
(* Main's setup, main.cc 36-102.  An early return runs the cleanups        *)
(* declared before it.                                                      *)

\* fuse_parse_cmdline; -h, -V and a missing mount point also return.
ParseCommandLine ==
    /\ phase = "parse"
    /\ Goto("exited") \/ Goto("create_fs")
    /\ UNCHANGED <<mounted, handlers, exitReq, gotInit>>

\* PageAlignFS::Create (page_align_fs.cc 628-636): Inode::Create of the
\* mount point, its Stat, and the S_ISDIR check; RETURN_IF_ERROR.
CreateFs ==
    /\ phase = "create_fs"
    /\ Goto("exited") \/ Goto("session_new")
    /\ UNCHANGED <<mounted, handlers, exitReq, gotInit>>

\* fuse_session_new; nullptr returns EXIT_FAILURE and destroys the
\* PageAlignFS.
SessionNew ==
    /\ phase = "session_new"
    /\ Goto("destroy_fs") \/ Goto("set_signals")
    /\ UNCHANGED <<mounted, handlers, exitReq, gotInit>>

\* (Mutant) Main without fuse_set_signal_handlers.
SetSignalHandlersSkipped ==
    /\ phase = "set_signals"
    /\ Goto("destroy_session") \/ Goto("mount")
    /\ UNCHANGED <<mounted, handlers, exitReq, gotInit>>

SetSignalHandlers ==
    /\ phase = "set_signals"
    /\ \/ /\ Goto("destroy_session")
          /\ UNCHANGED handlers
       \/ /\ Goto("mount")
          /\ handlers' = TRUE
    /\ UNCHANGED <<mounted, exitReq, gotInit>>

\* fuse_session_mount, then fuse_daemonize (whose parent _exits at once,
\* leaving this process to serve).
SessionMount ==
    /\ phase = "mount"
    /\ \/ /\ Goto("remove_signals")
          /\ UNCHANGED mounted
       \/ /\ Goto("loop")
          /\ mounted' = TRUE
    /\ UNCHANGED <<handlers, exitReq, gotInit>>

-----------------------------------------------------------------------------
(* The session loop, main.cc 104-116, and the cleanups.                     *)

\* fuse_session_loop or fuse_session_loop_mt returns, once the session has
\* exited or the kernel has unmounted it, and no handler is running.
SessionLoop(idle) ==
    /\ phase = "loop" /\ idle
    /\ exitReq \/ ~mounted
    /\ Goto("unmount")
    /\ UNCHANGED <<mounted, handlers, exitReq, gotInit>>

\* (Mutant) without cleanup_fuse_mount.
SessionUnmountMissing ==
    /\ phase = "unmount"
    /\ Goto("remove_signals")
    /\ UNCHANGED <<mounted, handlers, exitReq, gotInit>>

\* cleanup_fuse_mount: fuse_session_unmount (nothing to do when the user
\* has unmounted already).
SessionUnmount ==
    /\ phase = "unmount"
    /\ Goto("remove_signals")
    /\ mounted' = FALSE
    /\ UNCHANGED <<handlers, exitReq, gotInit>>

RemoveSignalHandlers ==
    /\ phase = "remove_signals"
    /\ Goto("destroy_session")
    /\ handlers' = FALSE
    /\ UNCHANGED <<mounted, exitReq, gotInit>>

\* cleanup_fuse_session: fuse_session_destroy, which calls the destroy op
\* (GetFuseDestroyOp, PageAlignFS::Destroy: logging only) if INIT came.
SessionDestroy ==
    /\ phase = "destroy_session"
    /\ Goto("destroy_fs")
    /\ UNCHANGED <<mounted, handlers, exitReq, gotInit>>

\* ~StatusOr<PageAlignFS>: the root Inode closes its descriptor.
DestroyFs ==
    /\ phase = "destroy_fs"
    /\ Goto("exited")
    /\ UNCHANGED <<mounted, handlers, exitReq, gotInit>>

-----------------------------------------------------------------------------
(* The environment.                                                        *)

\* A termination signal: exit_handler sets se->exited; without a handler
\* the default action ends the process where it is.
Signal ==
    /\ phase # "exited"
    /\ ~(handlers /\ exitReq)
    /\ IF handlers
       THEN /\ exitReq' = TRUE
            /\ UNCHANGED phase
       ELSE /\ Goto("exited")
            /\ UNCHANGED exitReq
    /\ UNCHANGED <<mounted, handlers, gotInit>>

\* fusermount -u by the user; it fails with EBUSY while a file is open.
UserUnmount(busy) ==
    /\ mounted /\ ~busy
    /\ mounted' = FALSE
    /\ UNCHANGED <<phase, handlers, exitReq, gotInit>>

\* The kernel's INIT: libfuse replies to it and calls the init op
\* (GetFuseInitOp, PageAlignFS::Init: logging only).
RecvInit ==
    /\ phase = "loop" /\ mounted /\ ~exitReq /\ ~gotInit
    /\ gotInit' = TRUE
    /\ UNCHANGED <<phase, mounted, handlers, exitReq>>

\* The session serves requests: the loop runs, INIT has come, and it has
\* neither exited nor been unmounted.
Serving == phase = "loop" /\ gotInit /\ ~exitReq /\ mounted

\* The steps of Main's own thread.
MainStep(idle) ==
    \/ ParseCommandLine \/ CreateFs \/ SessionNew \/ SetSignalHandlers
    \/ SessionMount \/ SessionLoop(idle) \/ SessionUnmount
    \/ RemoveSignalHandlers \/ SessionDestroy \/ DestroyFs

====
