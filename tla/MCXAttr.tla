------------------------------- MODULE MCXAttr -------------------------------
(***************************************************************************)
(* One inode of the source with two user.* attribute names whose list     *)
(* entries take 7 and 8 bytes (so a list of one name can be exactly the    *)
(* 8 bytes of a fuse_getxattr_out), and one name in a namespace the source *)
(* filesystem rejects.                                                     *)
(***************************************************************************)
EXTENDS XAttr, LinuxErrnoTable

MCNames == {"user.a", "user.ab"}

MCBadNames == {"bogus.a"}

MCNameBytes == [n \in MCNames |-> IF n = "user.a" THEN 7 ELSE 8]

====
