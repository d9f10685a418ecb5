---------------------------- MODULE ErrnoMapping ----------------------------
(***************************************************************************)
(* How an errno travels from a failed syscall to the kernel's reply:       *)
(* pafs::ErrnoToStatus (src/pafs/status.cc) makes an absl::Status whose    *)
(* code is absl's and whose payload under kErrnoTypeUrl is the errno's     *)
(* name (ErrnoToErrorName, src/pafs/errno.cc); FuseRequest::ReplyFailure  *)
(* (src/pafs/fuse.cc) reads the payload back with ErrorNameToErrno and,    *)
(* when that fails, falls back to StatusCodeToErrno of the code.           *)
(*                                                                         *)
(* The platform is a set of constants: the <errno.h> macros, glibc's       *)
(* strerrorname_np and absl::ErrnoToStatusCode.                            *)
(***************************************************************************)
EXTENDS Naturals

CONSTANTS
    ErrnoOf,                \* <errno.h>: macro name -> number
    StrErrorName,           \* strerrorname_np, on the errnos it names
    AbslErrnoToStatusCode   \* absl::ErrnoToStatusCode: errno -> code

\* The errno numbers of the platform (0 is success).
Errnos == DOMAIN AbslErrnoToStatusCode \ {0}

\* The payload: an errno's name, or "UNKNOWN (<n>)" for a number glibc has
\* no name for; the text is abstracted to what ErrorNameToErrno parses.
Named(s) == [kind |-> "name", name |-> s]
UnknownNumber(n) == [kind |-> "unknown", n |-> n]
NoPayload == [kind |-> "none"]

\* absl::StatusOr<int>.
Ok(v) == [ok |-> TRUE, value |-> v]
NotFoundError == [ok |-> FALSE, value |-> 0]

ErrnoToErrorName(e) ==
    IF e = 0 THEN Named("OK")
    ELSE IF e \in DOMAIN StrErrorName THEN Named(StrErrorName[e])
    ELSE UnknownNumber(e)

\* The keys of kNamesToErrors: E(n) maps the macro's name to its value.
KNamesToErrors ==
    {"OK", "EINVAL", "ENAMETOOLONG", "E2BIG", "EDESTADDRREQ", "EDOM",
     "EFAULT", "EILSEQ", "ENOPROTOOPT", "ENOSTR", "ENOTSOCK", "ENOTTY",
     "EPROTOTYPE", "ESPIPE", "ETIMEDOUT", "ETIME", "ENODEV", "ENOENT",
     "ENOMEDIUM", "ENXIO", "ESRCH", "EEXIST", "EADDRNOTAVAIL", "EALREADY",
     "ENOTUNIQ", "EPERM", "EACCES", "ENOKEY", "EROFS", "ENOTEMPTY", "EISDIR",
     "ENOTDIR", "EADDRINUSE", "EBADF", "EBADFD", "EBUSY", "ECHILD",
     "EISCONN", "EISNAM", "ENOTBLK", "ENOTCONN", "EPIPE", "ESHUTDOWN",
     "ETXTBSY", "EUNATCH", "ENOSPC", "EDQUOT", "EMFILE", "EMLINK", "ENFILE",
     "ENOBUFS", "ENODATA", "ENOMEM", "ENOSR", "EUSERS", "ECHRNG", "EFBIG",
     "EOVERFLOW", "ERANGE", "ENOPKG", "ENOSYS", "ENOTSUP", "EAFNOSUPPORT",
     "EPFNOSUPPORT", "EPROTONOSUPPORT", "ESOCKTNOSUPPORT", "EXDEV", "EAGAIN",
     "ECOMM", "ECONNREFUSED", "ECONNABORTED", "ECONNRESET", "EINTR",
     "EHOSTDOWN", "EHOSTUNREACH", "ENETDOWN", "ENETRESET", "ENETUNREACH",
     "ENOLCK", "ENOLINK", "ENONET", "EDEADLK", "ESTALE", "ECANCELED"}

ErrorNameToErrno(p) ==
    CASE p.kind = "unknown" -> Ok(p.n)
      [] p.kind = "name" /\ p.name \in KNamesToErrors ->
            Ok(IF p.name = "OK" THEN 0 ELSE ErrnoOf[p.name])
      [] OTHER -> NotFoundError

ErrnoToStatus(e) ==
    [code |-> AbslErrnoToStatusCode[e], payload |-> ErrnoToErrorName(e)]

GetErrnoFromStatus(s) ==
    IF s.payload = NoPayload THEN NotFoundError
    ELSE ErrorNameToErrno(s.payload)

StatusCodeToErrno(c) ==
    CASE c = "kOk"                 -> 0
      [] c = "kInvalidArgument"    -> ErrnoOf["EINVAL"]
      [] c = "kDeadlineExceeded"   -> ErrnoOf["ETIMEDOUT"]
      [] c = "kNotFound"           -> ErrnoOf["ENOENT"]
      [] c = "kAlreadyExists"      -> ErrnoOf["EEXIST"]
      [] c \in {"kPermissionDenied", "kUnauthenticated"} -> ErrnoOf["EPERM"]
      [] c = "kOutOfRange"         -> ErrnoOf["ERANGE"]
      [] c = "kFailedPrecondition" -> ErrnoOf["EBUSY"]
      [] c = "kResourceExhausted"  -> ErrnoOf["ENOSPC"]
      [] c = "kCancelled"          -> ErrnoOf["ECANCELED"]
      [] c = "kAborted"            -> ErrnoOf["EDEADLK"]
      [] c = "kUnimplemented"      -> ErrnoOf["ENOSYS"]
      [] c = "kUnavailable"        -> ErrnoOf["EAGAIN"]
      [] c = "kDataLoss"           -> ErrnoOf["ENOTRECOVERABLE"]
      [] c = "kInternal"           -> ErrnoOf["ELIBBAD"]
      [] OTHER                     -> ErrnoOf["EPROTO"]

\* The errno FuseRequest::ReplyFailure sends for a failed status.
ReplyFailureErrno(s) ==
    LET r == GetErrnoFromStatus(s)
    IN IF r.ok THEN r.value ELSE StatusCodeToErrno(s.code)

====
