--------------------------- MODULE MCErrnoMapping ---------------------------
(***************************************************************************)
(* The errno round trip of ErrnoMapping over the platform tables of        *)
(* LinuxErrnoTable, for every errno a syscall can fail with.               *)
(***************************************************************************)
EXTENDS ErrnoMapping, LinuxErrnoTable

-----------------------------------------------------------------------------
\* The errno of the failed syscall whose status a handler returns.
VARIABLE failed

Init == failed \in Errnos

Next == UNCHANGED failed

Spec == Init /\ [][Next]_failed

(* ErrnoToStatus followed by FuseRequest::ReplyFailure answers the kernel  *)
(* with the errno the syscall failed with: the payload "preserves the      *)
(* exact system error" and errno name <-> number is a round trip.          *)
ErrnoPreserved == ReplyFailureErrno(ErrnoToStatus(failed)) = failed

====
