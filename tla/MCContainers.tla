---------------------------- MODULE MCContainers ----------------------------
(* One program for the sequential containers: it uses one of them, chosen   *)
(* at the start, in every way.  The state spaces of the components add up.  *)
EXTENDS Integers, Sequences, FiniteSets

CONSTANTS
    Deques, Values, InitLists, Unwritten, BLOCK_SIZE, SizeRange, SizeBound, BlockBound,
    Lists, Elements, nullptr, MayMoveEmpty,
    Vectors, Default, StringBound,
    count,
    Allocators, PoolSize, Sizes, NotMade,
    SmallVectors, N, SmallLists, Trivial, MayPushOwn, MayRelocate, Raw, SmallBound

VARIABLES
    using,
    deque, heap, undefined,
    prev_, next_, clearing, source,
    data_, data,
    free_indexes_, active_, objects, lost, phantoms, destroyed,
    offset_, owner, regions,
    vector, memory, misused

D == INSTANCE Deque
L == INSTANCE IntrusiveList
V == INSTANCE COWVector WITH SizeBound <- StringBound
A == INSTANCE StaticAllocator
P == INSTANCE StaticStlAllocator
S == INSTANCE SmallVector WITH SizeBound <- SmallBound, Lists <- SmallLists

ASSUME ContainersAssumption ==
    D!DequeAssumption /\ L!ListAssumption /\ V!VectorAssumption
    /\ A!AllocatorAssumption /\ P!PoolAssumption /\ S!SmallVectorAssumption

deques == <<deque, heap, undefined>>
lists == <<prev_, next_, clearing, source>>
cows == <<data_, data>>
slots == <<free_indexes_, active_, objects, lost, phantoms, destroyed>>
pool == <<offset_, owner, regions>>
smalls == <<vector, memory, misused>>
vars == <<using, deques, lists, cows, slots, pool, smalls>>

Init ==
    /\ using \in {"Deque", "IntrusiveList", "COWVector", "StaticAllocator", "StaticStlAllocator",
                  "SmallVector"}
    /\ D!Init /\ L!Init /\ V!Init /\ A!Init /\ P!Init /\ S!Init

Next ==
    /\ UNCHANGED using
    /\ \/ using = "Deque" /\ D!Next /\ UNCHANGED <<lists, cows, slots, pool, smalls>>
       \/ using = "IntrusiveList" /\ L!Next /\ UNCHANGED <<deques, cows, slots, pool, smalls>>
       \/ using = "COWVector" /\ V!Next /\ UNCHANGED <<deques, lists, slots, pool, smalls>>
       \/ using = "StaticAllocator" /\ A!Next /\ UNCHANGED <<deques, lists, cows, pool, smalls>>
       \/ using = "StaticStlAllocator" /\ P!Next /\ UNCHANGED <<deques, lists, cows, slots, smalls>>
       \/ using = "SmallVector" /\ S!Next /\ UNCHANGED <<deques, lists, cows, slots, pool>>

Spec == Init /\ [][Next]_vars

(* The addresses of a deque's blocks and of a small vector's buffers make   *)
(* no difference to what they do, nor do the cells outside their ranges.    *)
View ==
    <<using, undefined, D!Contents, Cardinality(DOMAIN heap),
      [d \in Deques |-> [deque[d] EXCEPT !.storage_ = Len(@)]],
      lists, cows, slots, pool, misused, S!AllContents, Cardinality(DOMAIN memory),
      [v \in SmallVectors |-> [vector[v] EXCEPT !.start_ = S!Room(v)]]>>

(* Initializer lists; a block holds two.                                    *)
Inexact == {<<1>>, <<1, 2, 2>>}
ExactAndEmpty == {<<>>, <<1>>, <<1, 2>>}
OneToThree == {<<>>, <<1>>, <<1, 2>>, <<1, 2, 2>>}

(* Deque: no block leaks, is shared or is deleted in use, and the end that  *)
(* tail_block_ and tail_index_ keep is the one that the size gives.         *)
DequeLayout == D!Layout

(* The refinements below are those of the modules (DequeImplements and so   *)
(* on), evaluated for the container in use: the others stutter.             *)

(* Deque: every call is the call of the same name on a sequence.            *)
DequeImplements == D!C!Init /\ [][using = "Deque" => D!DequeStep]_vars

(* IntrusiveList: neighbours point at each other, in rings through one list *)
(* each, and IsLinked tells whether a hook is in one.                       *)
Rings == L!Rings

(* IntrusiveList: every call is the call of the same name on a sequence.    *)
ListImplements == L!C!Init /\ [][using = "IntrusiveList" => L!ListStep]_vars

(* COWVector: a Data lives while vectors use it, and counts them.           *)
RefCountsExact == V!RefCountsExact

(* COWVector: every call is the call of the same name on a vector of one's  *)
(* own, whatever is shared.                                                 *)
COWImplements == V!C!Init /\ [][using = "COWVector" => V!COWStep]_vars

(* The allocators: every slot of StaticAllocator is free, once, or in use   *)
(* or lost to a constructor that threw; and the regions that                *)
(* StaticStlAllocator hands out lie in its pool and apart.                  *)
MemoryAccounted == A!SlotsAccounted /\ P!RegionsApart

(* ~T is called and values are assigned where an object lives, and nowhere  *)
(* else: by the destructor of StaticAllocator, which "should destroy all    *)
(* the currently alive allocated objects" (readme.md), and by SmallVector.  *)
OnlyObjectsUsed == A!AliveDestroyed /\ S!Lifetimes

(* SmallVector: no object is used before its construction or after its end, *)
(* none is forgotten, and no buffer leaks, is shared or is deleted twice.   *)
Lifetimes == S!Lifetimes

(* SmallVector: every call is the call of the same name on a sequence,      *)
(* wherever the elements are stored.                                        *)
SmallImplements == S!C!Init /\ [][using = "SmallVector" => S!SmallStep]_vars
=============================================================================
