------------------------- MODULE StaticStlAllocator -------------------------
(****************************************************************************)
(* src/tasks/set_allocator/static_stl_allocator.h: an allocator for the     *)
(* standard containers that cuts its memory off a fixed pool and never      *)
(* takes it back.  Every allocator, also one made by copying, assigning or  *)
(* rebinding, has an offset_ of its own into the pool.                      *)
(*                                                                          *)
(* The program keeps to what that asks for: it allocates through one        *)
(* allocator at a time (that of its container, `owner`), and goes on with   *)
(* a copy only if it stops using the one copied, as a container does that   *)
(* rebinds the allocator it is given.  A count of objects times their size  *)
(* does not wrap, and is at most the pool's size.                           *)
(* An operator named X_Y is a slip Y in X that the properties must notice.  *)
(****************************************************************************)
EXTENDS Integers

CONSTANTS
    Allocators,
    PoolSize,       \* size_
    Sizes,          \* the sizes of what is allocated, in bytes
    NotMade         \* an allocator that does not exist

PoolAssumption ==
    Allocators # {} /\ PoolSize \in Nat /\ Sizes \subseteq 1 .. PoolSize /\ NotMade \notin Nat

VARIABLES
    offset_,        \* offset_[a]
    owner,          \* the allocator that the program allocates through
    regions         \* the memory that was handed out and not deallocated

poolvars == <<offset_, owner, regions>>

Init ==
    /\ owner = CHOOSE a \in Allocators : TRUE
    /\ offset_ = [a \in Allocators |-> IF a = owner THEN 0 ELSE NotMade]
    /\ regions = {}

Copy_FromStart(a, b) ==
    /\ offset_[a] # NotMade /\ b \notin {a, owner}
    /\ offset_' = [offset_ EXCEPT ![b] = 0]
    /\ owner' \in IF a = owner THEN {a, b} ELSE {owner}
    /\ UNCHANGED regions

(* b becomes a copy of a: the copy constructor, the copy assignment, the    *)
(* conversion from an allocator of another type.                            *)
Copy(a, b) ==
    /\ offset_[a] # NotMade /\ b \notin {a, owner}
    /\ offset_' = [offset_ EXCEPT ![b] = offset_[a]]
    /\ owner' \in IF a = owner THEN {a, b} ELSE {owner}
    /\ UNCHANGED regions

(* allocate: the region, or std::bad_alloc.                                 *)
Allocate(bytes) ==
    /\ offset_[owner] + bytes <= PoolSize
    /\ regions' = regions \union {[at |-> offset_[owner], size |-> bytes]}
    /\ offset_' = [offset_ EXCEPT ![owner] = @ + bytes]
    /\ UNCHANGED owner

BadAlloc(bytes) == offset_[owner] + bytes > PoolSize /\ UNCHANGED poolvars

(* deallocate does nothing; the program lets go of the region.              *)
Deallocate(r) == regions' = regions \ {r} /\ UNCHANGED <<offset_, owner>>

Next ==
    \/ \E a, b \in Allocators : Copy(a, b)
    \/ \E bytes \in Sizes : Allocate(bytes) \/ BadAlloc(bytes)
    \/ \E r \in regions : Deallocate(r)

Spec == Init /\ [][Next]_poolvars

-----------------------------------------------------------------------------
Ends(r) == r.at + r.size

(* What was handed out lies in the pool, and no two regions share a byte,   *)
(* whichever copies of the allocator the program went through.              *)
RegionsApart ==
    /\ \A r \in regions : r.at >= 0 /\ Ends(r) <= PoolSize
    /\ \A r, s \in regions : r # s => Ends(r) <= s.at \/ Ends(s) <= r.at
=============================================================================
