---------------------------- MODULE InodeCache ----------------------------
(***************************************************************************)
(* The InodeCache of src/pafs/inode.h and src/pafs/inode.cc, as operators *)
(* on the value of its map `inodes_`.  The map's key is the (device,       *)
(* inode-number) pair of a source object, here an element of a set of      *)
(* keys; its value is the pair (refcnt, Inode), of which only the refcnt   *)
(* matters to the properties, so the map is a function key -> refcnt.      *)
(* The Inode part (its O_PATH descriptor) lives exactly as long as the     *)
(* entry: erasing an entry closes the descriptor.                          *)
(*                                                                         *)
(* The code does not lock the map.  A composing module performs each       *)
(* operation either atomically (the synchronisation spec.md section 5      *)
(* requires) or as a load of the refcount followed by a store of the       *)
(* updated value (what an unsynchronised refcnt++ / refcnt -= n compiles   *)
(* to), using RefCount for the load and SetCount for the store.            *)
(***************************************************************************)
EXTENDS Naturals

\* The refcount of key k in the map m; an absent key reads as 0.
RefCount(m, k) == IF k \in DOMAIN m THEN m[k] ELSE 0

\* The map m with k's refcount set to v: the entry is created if absent
\* (emplace with refcnt 0, then the update) and erased when v is 0.
SetCount(m, k, v) ==
    IF v = 0
    THEN [x \in DOMAIN m \ {k} |-> m[x]]
    ELSE [x \in DOMAIN m \cup {k} |-> IF x = k THEN v ELSE m[x]]

\* (Mutant) emplace that overwrites the count instead of incrementing it.
InsertFresh(m, k) == SetCount(m, k, 1)

\* Insert(inode): find the key, emplace it with refcnt 0 when absent, then
\* refcnt++ unconditionally.  The returned shared_ptr owns that reference.
Insert(m, k) == SetCount(m, k, RefCount(m, k) + 1)

\* Ref(inode, n): InternalError when the key is absent, else refcnt += n.
RefFails(m, k) == k \notin DOMAIN m
Ref(m, k, n) == SetCount(m, k, m[k] + n)

\* (Mutant) decrement without `if (refcnt == 0) inodes_.erase(iter)`.
UnrefNoErase(m, k, n) == [x \in DOMAIN m |-> IF x = k THEN m[x] - n ELSE m[x]]

\* Unref(inode, n): InternalError when the key is absent; CHECK_GE(refcnt,
\* n) aborts the process; else refcnt -= n and the entry is erased at 0.
UnrefMissing(m, k) == k \notin DOMAIN m
UnrefUnderflows(m, k, n) == k \in DOMAIN m /\ m[k] < n
Unref(m, k, n) == SetCount(m, k, m[k] - n)
=============================================================================
