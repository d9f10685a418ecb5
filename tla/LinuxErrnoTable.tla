---------------------------- MODULE LinuxErrnoTable ----------------------------
(***************************************************************************)
(* The platform the errno conversion runs on: x86-64 Linux, glibc 2.32 or  *)
(* later (strerrorname_np) and Abseil's absl::ErrnoToStatusCode.  The      *)
(* errnos are every number glibc defines (1..133), plus 200, a number      *)
(* strerrorname_np has no name for.                                        *)
(***************************************************************************)
EXTENDS Naturals

\* <errno.h>, the macros the code and absl::ErrnoToStatusCode name.
MCErrnoOf ==
    [EPERM |-> 1, ENOENT |-> 2, ESRCH |-> 3, EINTR |-> 4, EIO |-> 5, ENXIO |-> 6, E2BIG
     |-> 7, EBADF |-> 9, ECHILD |-> 10, EAGAIN |-> 11, ENOMEM |-> 12, EACCES
     |-> 13, EFAULT |-> 14, ENOTBLK |-> 15, EBUSY |-> 16, EEXIST |-> 17,
     EXDEV |-> 18, ENODEV |-> 19, ENOTDIR |-> 20, EISDIR |-> 21, EINVAL |->
     22, ENFILE |-> 23, EMFILE |-> 24, ENOTTY |-> 25, ETXTBSY |-> 26, EFBIG
     |-> 27, ENOSPC |-> 28, ESPIPE |-> 29, EROFS |-> 30, EMLINK |-> 31,
     EPIPE |-> 32, EDOM |-> 33, ERANGE |-> 34, EDEADLK |-> 35, ENAMETOOLONG
     |-> 36, ENOLCK |-> 37, ENOSYS |-> 38, ENOTEMPTY |-> 39, ECHRNG |-> 44,
     EUNATCH |-> 49, ENOSTR |-> 60, ENODATA |-> 61, ETIME |-> 62, ENOSR |->
     63, ENONET |-> 64, ENOPKG |-> 65, ENOLINK |-> 67, ECOMM |-> 70, EPROTO
     |-> 71, EOVERFLOW |-> 75, ENOTUNIQ |-> 76, EBADFD |-> 77, ELIBBAD |->
     80, EILSEQ |-> 84, EUSERS |-> 87, ENOTSOCK |-> 88, EDESTADDRREQ |-> 89,
     EPROTOTYPE |-> 91, ENOPROTOOPT |-> 92, EPROTONOSUPPORT |-> 93,
     ESOCKTNOSUPPORT |-> 94, ENOTSUP |-> 95, EOPNOTSUPP |-> 95, EPFNOSUPPORT |-> 96,
     EAFNOSUPPORT |-> 97, EADDRINUSE |-> 98, EADDRNOTAVAIL |-> 99, ENETDOWN
     |-> 100, ENETUNREACH |-> 101, ENETRESET |-> 102, ECONNABORTED |-> 103,
     ECONNRESET |-> 104, ENOBUFS |-> 105, EISCONN |-> 106, ENOTCONN |-> 107,
     ESHUTDOWN |-> 108, ETIMEDOUT |-> 110, ECONNREFUSED |-> 111, EHOSTDOWN
     |-> 112, EHOSTUNREACH |-> 113, EALREADY |-> 114, ESTALE |-> 116, EISNAM
     |-> 120, EDQUOT |-> 122, ENOMEDIUM |-> 123, ECANCELED |-> 125, ENOKEY
     |-> 126, ENOTRECOVERABLE |-> 131]

\* strerrorname_np(e) for e in 1..133; "" where it returns NULL.
GlibcNames ==
    <<"EPERM", "ENOENT", "ESRCH", "EINTR", "EIO", "ENXIO", "E2BIG",
     "ENOEXEC", "EBADF", "ECHILD", "EAGAIN", "ENOMEM", "EACCES", "EFAULT",
     "ENOTBLK", "EBUSY", "EEXIST", "EXDEV", "ENODEV", "ENOTDIR", "EISDIR",
     "EINVAL", "ENFILE", "EMFILE", "ENOTTY", "ETXTBSY", "EFBIG", "ENOSPC",
     "ESPIPE", "EROFS", "EMLINK", "EPIPE", "EDOM", "ERANGE", "EDEADLK",
     "ENAMETOOLONG", "ENOLCK", "ENOSYS", "ENOTEMPTY", "ELOOP", "", "ENOMSG",
     "EIDRM", "ECHRNG", "EL2NSYNC", "EL3HLT", "EL3RST", "ELNRNG", "EUNATCH",
     "ENOCSI", "EL2HLT", "EBADE", "EBADR", "EXFULL", "ENOANO", "EBADRQC",
     "EBADSLT", "", "EBFONT", "ENOSTR", "ENODATA", "ETIME", "ENOSR",
     "ENONET", "ENOPKG", "EREMOTE", "ENOLINK", "EADV", "ESRMNT", "ECOMM",
     "EPROTO", "EMULTIHOP", "EDOTDOT", "EBADMSG", "EOVERFLOW", "ENOTUNIQ",
     "EBADFD", "EREMCHG", "ELIBACC", "ELIBBAD", "ELIBSCN", "ELIBMAX",
     "ELIBEXEC", "EILSEQ", "ERESTART", "ESTRPIPE", "EUSERS", "ENOTSOCK",
     "EDESTADDRREQ", "EMSGSIZE", "EPROTOTYPE", "ENOPROTOOPT",
     "EPROTONOSUPPORT", "ESOCKTNOSUPPORT", "EOPNOTSUPP", "EPFNOSUPPORT",
     "EAFNOSUPPORT", "EADDRINUSE", "EADDRNOTAVAIL", "ENETDOWN",
     "ENETUNREACH", "ENETRESET", "ECONNABORTED", "ECONNRESET", "ENOBUFS",
     "EISCONN", "ENOTCONN", "ESHUTDOWN", "ETOOMANYREFS", "ETIMEDOUT",
     "ECONNREFUSED", "EHOSTDOWN", "EHOSTUNREACH", "EALREADY", "EINPROGRESS",
     "ESTALE", "EUCLEAN", "ENOTNAM", "ENAVAIL", "EISNAM", "EREMOTEIO",
     "EDQUOT", "ENOMEDIUM", "EMEDIUMTYPE", "ECANCELED", "ENOKEY",
     "EKEYEXPIRED", "EKEYREVOKED", "EKEYREJECTED", "EOWNERDEAD",
     "ENOTRECOVERABLE", "ERFKILL", "EHWPOISON">>

MCStrErrorName ==
    [e \in {n \in 1..133 : GlibcNames[n] # ""} |-> GlibcNames[e]]

\* absl::ErrnoToStatusCode (absl/status/status.cc): its case groups.
AbslGroups ==
    <<
     <<"kInvalidArgument", {"EINVAL", "ENAMETOOLONG", "E2BIG",
         "EDESTADDRREQ", "EDOM", "EFAULT", "EILSEQ", "ENOPROTOOPT", "ENOSTR",
         "ENOTSOCK", "ENOTTY", "EPROTOTYPE", "ESPIPE"}>>,
     <<"kDeadlineExceeded", {"ETIMEDOUT", "ETIME"}>>,
     <<"kNotFound", {"ENODEV", "ENOENT", "ENOMEDIUM", "ENXIO", "ESRCH"}>>,
     <<"kAlreadyExists", {"EEXIST", "EADDRNOTAVAIL", "EALREADY",
         "ENOTUNIQ"}>>,
     <<"kPermissionDenied", {"EPERM", "EACCES", "ENOKEY", "EROFS"}>>,
     <<"kFailedPrecondition", {"ENOTEMPTY", "EISDIR", "ENOTDIR",
         "EADDRINUSE", "EBADF", "EBADFD", "EBUSY", "ECHILD", "EISCONN",
         "EISNAM", "ENOTBLK", "ENOTCONN", "EPIPE", "ESHUTDOWN", "ETXTBSY",
         "EUNATCH"}>>,
     <<"kResourceExhausted", {"ENOSPC", "EDQUOT", "EMFILE", "EMLINK",
         "ENFILE", "ENOBUFS", "ENODATA", "ENOMEM", "ENOSR", "EUSERS"}>>,
     <<"kOutOfRange", {"ECHRNG", "EFBIG", "EOVERFLOW", "ERANGE"}>>,
     <<"kUnimplemented", {"ENOPKG", "ENOSYS", "ENOTSUP", "EAFNOSUPPORT",
         "EPFNOSUPPORT", "EPROTONOSUPPORT", "ESOCKTNOSUPPORT", "EXDEV"}>>,
     <<"kUnavailable", {"EAGAIN", "ECOMM", "ECONNREFUSED", "ECONNABORTED",
         "ECONNRESET", "EINTR", "EHOSTDOWN", "EHOSTUNREACH", "ENETDOWN",
         "ENETRESET", "ENETUNREACH", "ENOLCK", "ENOLINK", "ENONET"}>>,
     <<"kAborted", {"EDEADLK", "ESTALE"}>>,
     <<"kCancelled", {"ECANCELED"}>>
    >>

MCAbslErrnoToStatusCode ==
    [e \in 0..133 \cup {200} |->
        IF e = 0 THEN "kOk"
        ELSE LET gs == {i \in DOMAIN AbslGroups :
                          \E n \in AbslGroups[i][2] : MCErrnoOf[n] = e}
             IN IF gs = {} THEN "kUnknown"
                ELSE AbslGroups[CHOOSE i \in gs : TRUE][1]]

====
