-------------------------- MODULE HandleAccounting --------------------------
(***************************************************************************)
(* What the inode cache promises the kernel, with threads, shared_ptrs and *)
(* cleanups abstracted away (spec.md sec. 8): the kernel counts the        *)
(* handles it holds of each source object (nlookup); the server keeps a    *)
(* record of an object (cached) from before it first hands the kernel a    *)
(* handle of it until after the kernel has forgotten every one.  Each      *)
(* step either hands out handles of cached objects, takes back the whole   *)
(* count of some objects (FORGET), creates a record, or drops the record   *)
(* of an object the kernel holds no handle of.                             *)
(***************************************************************************)
EXTENDS Naturals

CONSTANT Keys

VARIABLES cached, nlookup

vars == <<cached, nlookup>>

Init ==
    /\ cached = {}
    /\ nlookup = [k \in Keys |-> 0]

\* An entry reply: the kernel's count grows, only for cached objects.
Vend ==
    /\ nlookup' \in [Keys -> Nat]
    /\ nlookup' # nlookup
    /\ \A k \in Keys : nlookup'[k] >= nlookup[k]
    /\ \A k \in Keys \ cached : nlookup'[k] = nlookup[k]
    /\ UNCHANGED cached

\* FORGET / BATCH_FORGET: the kernel gives back the whole count of S.
Forget ==
    /\ \E S \in SUBSET Keys :
         nlookup' = [k \in Keys |-> IF k \in S THEN 0 ELSE nlookup[k]]
    /\ UNCHANGED cached

Cache ==
    /\ \E k \in Keys \ cached : cached' = cached \cup {k}
    /\ UNCHANGED nlookup

Evict ==
    /\ \E k \in cached : nlookup[k] = 0 /\ cached' = cached \ {k}
    /\ UNCHANGED nlookup

Next == Vend \/ Forget \/ Cache \/ Evict

Spec == Init /\ [][Next]_vars

====
