--------------------------- MODULE ContainersProofs ---------------------------
(****************************************************************************)
(* The program of MCContainers, for every value of its constants.           *)
(*                                                                          *)
(* StaticStlAllocator: RegionsApart is not inductive; what keeps the next   *)
(* region clear of the others is that the offset of the allocator in use is *)
(* behind all of them.  StaticAllocator: SlotsAccounted is inductive once   *)
(* it is known what the variables hold.  COWVector: its theorems hold here, *)
(* since the program takes its steps only.  IntrusiveList: the walk that    *)
(* its contents are is a recursion, about which NatSetInduction proves what *)
(* it visits; in the invariant the hooks are laid out along the contents.   *)
(* SmallVector: in the invariant every room, own or on the heap, holds the  *)
(* contents of one vector and behind them nothing alive; a copy is a fold   *)
(* of pushes, about which NatSetInduction proves what it has pushed.        *)
(****************************************************************************)
EXTENDS MCContainers, SequenceTheorems, FiniteSetTheorems, WellFoundedInduction, TLAPS

PoolTypeOK ==
    /\ owner \in Allocators
    /\ offset_ \in [Allocators -> 0 .. PoolSize \union {NotMade}]
    /\ regions \subseteq [at : 0 .. PoolSize, size : Sizes]

(* The allocator in use exists, and everything handed out lies below it.    *)
OwnerBehind ==
    /\ offset_[owner] \in 0 .. PoolSize
    /\ \A r \in regions : P!Ends(r) <= offset_[owner]

PoolInv == PoolTypeOK /\ OwnerBehind /\ P!RegionsApart

LEMMA PoolInit == ASSUME P!PoolAssumption PROVE P!Init => PoolInv
<1> SUFFICES ASSUME P!PoolAssumption, P!Init PROVE PoolInv
  OBVIOUS
<1>1. owner \in Allocators
  BY DEF P!Init, P!PoolAssumption
<1>2. regions = {} /\ offset_ = [a \in Allocators |-> IF a = owner THEN 0 ELSE NotMade]
  BY DEF P!Init
<1>3. PoolSize \in Nat
  BY DEF P!PoolAssumption
<1>4. offset_ \in [Allocators -> 0 .. PoolSize \union {NotMade}] /\ offset_[owner] = 0
  BY <1>1, <1>2, <1>3
<1> QED
  BY <1>1, <1>2, <1>3, <1>4 DEF PoolInv, PoolTypeOK, OwnerBehind, P!RegionsApart

LEMMA PoolNext == ASSUME P!PoolAssumption PROVE PoolInv /\ [P!Next]_P!poolvars => PoolInv'
<1> SUFFICES ASSUME P!PoolAssumption, PoolInv, [P!Next]_P!poolvars PROVE PoolInv'
  OBVIOUS
<1> USE DEF PoolInv, PoolTypeOK, OwnerBehind, P!RegionsApart, P!Ends
<1>1. ASSUME NEW a \in Allocators, NEW b \in Allocators, P!Copy(a, b) PROVE PoolInv'
  <2>1. b # owner /\ offset_'[b] = offset_[a] /\ offset_'[owner] = offset_[owner]
    BY <1>1 DEF P!Copy
  <2>2. owner' \in Allocators /\ offset_'[owner'] = offset_[owner]
    BY <1>1, <2>1 DEF P!Copy
  <2>3. offset_' \in [Allocators -> 0 .. PoolSize \union {NotMade}]
    BY <1>1 DEF P!Copy
  <2> QED
    BY <1>1, <2>2, <2>3 DEF P!Copy
<1>2. ASSUME NEW bytes \in Sizes, P!Allocate(bytes) PROVE PoolInv'
  <2> DEFINE r == [at |-> offset_[owner], size |-> bytes]
  <2>1. /\ bytes \in 1 .. PoolSize /\ PoolSize \in Nat
        /\ offset_[owner] \in 0 .. PoolSize /\ offset_[owner] + bytes <= PoolSize
    BY <1>2 DEF P!Allocate, P!PoolAssumption
  <2>2. /\ offset_'[owner'] = offset_[owner] + bytes
        /\ offset_' \in [Allocators -> 0 .. PoolSize \union {NotMade}]
        /\ owner' = owner
    BY <1>2, <2>1 DEF P!Allocate
  <2>3. regions' = regions \union {r} /\ r \in [at : 0 .. PoolSize, size : Sizes]
    BY <1>2 DEF P!Allocate
  <2>4. \A s \in regions : s.at \in 0 .. PoolSize /\ s.size \in 1 .. PoolSize
    BY Zenon DEF P!PoolAssumption
  <2>5. OwnerBehind'
    BY <2>1, <2>2, <2>3, <2>4
  <2>6. P!RegionsApart'
    BY <2>1, <2>3, <2>4
  <2> QED
    BY <2>2, <2>3, <2>5, <2>6
<1>3. ASSUME NEW r \in regions, P!Deallocate(r) PROVE PoolInv'
  BY <1>3 DEF P!Deallocate
<1>4. CASE UNCHANGED P!poolvars
  BY <1>4 DEF P!poolvars
<1> QED
  BY <1>1, <1>2, <1>3, <1>4 DEF P!Next, P!BadAlloc

-----------------------------------------------------------------------------
SlotsTypeOK ==
    /\ free_indexes_ \in Seq(A!Slots)
    /\ active_ \in [A!Slots -> BOOLEAN]
    /\ objects \subseteq A!Slots /\ lost \subseteq A!Slots
    /\ destroyed \in BOOLEAN

SlotsInv == SlotsTypeOK /\ A!SlotsAccounted

Unused == {s \in A!Slots : ~active_[s]}
OnStack == {free_indexes_[k] : k \in DOMAIN free_indexes_}

LEMMA SlotsInit == ASSUME A!AllocatorAssumption PROVE A!Init => SlotsInv
<1> SUFFICES ASSUME A!AllocatorAssumption, A!Init PROVE SlotsInv
  OBVIOUS
<1> DEFINE f == [k \in 1 .. count |-> count - k]
<1>1. count \in Nat /\ free_indexes_ = f
  BY DEF A!Init, A!AllocatorAssumption
<1>2. \A k \in 1 .. count : count - k \in A!Slots
  BY <1>1 DEF A!Slots
<1>3. f \in Seq(A!Slots) /\ DOMAIN f = 1 .. count
  BY <1>1, <1>2
<1>4. \A s \in A!Slots : count - s \in 1 .. count /\ f[count - s] = s
  BY <1>1 DEF A!Slots
<1>5. \A k, l \in 1 .. count : f[k] = f[l] => k = l
  BY <1>1
<1>6. A!SlotsAccounted
  <2>1. {f[k] : k \in DOMAIN f} = A!Slots
    BY <1>2, <1>3, <1>4, Zenon
  <2>2. active_ = [s \in A!Slots |-> FALSE] /\ objects = {} /\ lost = {} /\ phantoms = {} /\ ~destroyed
    BY DEF A!Init
  <2>3. A!Active = {} /\ {s \in A!Slots : ~active_[s]} = A!Slots
    BY <2>2 DEF A!Active
  <2>4. \A k, l \in DOMAIN free_indexes_ : free_indexes_[k] = free_indexes_[l] => k = l
    BY <1>1, <1>3, <1>5
  <2> HIDE DEF f
  <2> QED
    BY <1>1, <2>1, <2>2, <2>3, <2>4 DEF A!SlotsAccounted
<1> QED
  BY <1>1, <1>3, <1>6, Zenon DEF A!Init, SlotsInv, SlotsTypeOK

(* What a New takes off the stack.                                          *)
LEMMA Taken ==
  ASSUME SlotsInv, A!Take
  PROVE  /\ A!Top \in A!Slots /\ ~active_[A!Top]
         /\ A!Top \notin objects \union lost
         /\ free_indexes_' \in Seq(A!Slots)
         /\ OnStack' = OnStack \ {A!Top}
         /\ \A k, l \in DOMAIN free_indexes_' : free_indexes_'[k] = free_indexes_'[l] => k = l
         /\ active_' \in [A!Slots -> BOOLEAN]
         /\ A!Active' = A!Active \union {A!Top} /\ Unused' = Unused \ {A!Top}
<1> DEFINE n == Len(free_indexes_)
<1>1. /\ free_indexes_ \in Seq(A!Slots) /\ n \in Nat \ {0}
      /\ DOMAIN free_indexes_ = 1 .. n
  BY DEF SlotsInv, SlotsTypeOK, A!Take
<1>2. A!Top = free_indexes_[n] /\ A!Top \in A!Slots /\ A!Top \in OnStack
  BY <1>1 DEF A!Top, OnStack
<1>3. ~active_[A!Top] /\ A!Top \notin objects \union lost
  BY <1>2 DEF SlotsInv, A!SlotsAccounted, A!Take, OnStack, A!Active
<1>4. /\ free_indexes_' \in Seq(A!Slots) /\ DOMAIN free_indexes_' = 1 .. n - 1
      /\ \A k \in 1 .. n - 1 : free_indexes_'[k] = free_indexes_[k]
  BY <1>1 DEF A!Take
<1>5. \A k, l \in 1 .. n : free_indexes_[k] = free_indexes_[l] => k = l
  BY <1>1 DEF SlotsInv, A!SlotsAccounted
<1>6. OnStack' = {free_indexes_[k] : k \in 1 .. n - 1}
  BY <1>4 DEF OnStack
<1> HIDE DEF n
<1>7. OnStack' = OnStack \ {A!Top}
  <2>1. OnStack = {free_indexes_[k] : k \in 1 .. n} /\ n \in 1 .. n
    BY <1>1 DEF OnStack
  <2>2. ASSUME NEW k \in 1 .. n - 1 PROVE free_indexes_[k] \in OnStack \ {A!Top}
    <3>1. k \in 1 .. n /\ k # n
      BY <1>1, <2>2
    <3> QED
      BY <1>2, <1>5, <2>1, <3>1
  <2>3. ASSUME NEW k \in 1 .. n, free_indexes_[k] # A!Top PROVE k \in 1 .. n - 1
    BY <1>1, <1>2, <2>3
  <2> QED
    BY <1>6, <2>1, <2>2, <2>3
<1>8. /\ active_' \in [A!Slots -> BOOLEAN]
      /\ A!Active' = A!Active \union {A!Top} /\ Unused' = Unused \ {A!Top}
  <2>1. active_ \in [A!Slots -> BOOLEAN] /\ active_' = [active_ EXCEPT ![A!Top] = TRUE]
    BY DEF SlotsInv, SlotsTypeOK, A!Take
  <2>2. active_'[A!Top] /\ \A s \in A!Slots \ {A!Top} : active_'[s] = active_[s]
    BY <1>2, <2>1, Zenon
  <2> QED
    BY <1>2, <2>1, <2>2, Zenon DEF A!Active, Unused
<1> QED
  BY <1>1, <1>2, <1>3, <1>4, <1>5, <1>7, <1>8

LEMMA SlotsNext == SlotsInv /\ [A!Next]_A!allocvars => SlotsInv'
<1> SUFFICES ASSUME SlotsInv, [A!Next]_A!allocvars PROVE SlotsInv'
  OBVIOUS
<1> USE DEF SlotsInv, SlotsTypeOK
<1>1. ASSUME NEW s \in A!Slots, A!New(s) PROVE SlotsInv'
  <2>1. A!Take /\ s = A!Top /\ objects' = objects \union {s} /\ lost' = lost
    BY <1>1 DEF A!New
  <2>2. ~destroyed /\ destroyed' = destroyed /\ phantoms = {} /\ phantoms' = {}
    BY <2>1 DEF A!Take, A!SlotsAccounted
  <2>3. OnStack = Unused /\ objects \union lost = A!Active /\ objects \intersect lost = {}
    BY <2>2 DEF A!SlotsAccounted, OnStack, Unused
  <2>4. OnStack' = Unused' /\ (objects \union lost)' = A!Active' /\ (objects \intersect lost)' = {}
    <3>1. /\ OnStack' = OnStack \ {s} /\ s \notin objects \union lost
          /\ A!Active' = A!Active \union {s} /\ Unused' = Unused \ {s}
      BY <2>1, Taken
    <3> QED
      BY <2>1, <2>3, <3>1
  <2>5. A!SlotsAccounted'
    BY <2>1, <2>2, <2>4, Taken DEF A!SlotsAccounted, OnStack, Unused
  <2> QED
    BY <2>1, <2>2, <2>5, Taken
<1>2. ASSUME A!NewThrows PROVE SlotsInv'
  <2>1. A!Take /\ lost' = lost \union {A!Top} /\ objects' = objects
    BY <1>2 DEF A!NewThrows
  <2>2. ~destroyed /\ destroyed' = destroyed /\ phantoms = {} /\ phantoms' = {}
    BY <2>1 DEF A!Take, A!SlotsAccounted
  <2>3. OnStack = Unused /\ objects \union lost = A!Active /\ objects \intersect lost = {}
    BY <2>2 DEF A!SlotsAccounted, OnStack, Unused
  <2>4. OnStack' = Unused' /\ (objects \union lost)' = A!Active' /\ (objects \intersect lost)' = {}
    <3>1. /\ OnStack' = OnStack \ {A!Top} /\ A!Top \notin objects \union lost
          /\ A!Active' = A!Active \union {A!Top} /\ Unused' = Unused \ {A!Top}
      BY <2>1, Taken
    <3> QED
      BY <2>1, <2>3, <3>1
  <2>5. A!SlotsAccounted'
    BY <2>1, <2>2, <2>4, Taken DEF A!SlotsAccounted, OnStack, Unused
  <2> QED
    BY <2>1, <2>2, <2>5, Taken
<1>3. ASSUME NEW s \in A!Slots, A!Delete(s) PROVE SlotsInv'
  <2> DEFINE n == Len(free_indexes_)
  <2>1. /\ n \in Nat /\ DOMAIN free_indexes_ = 1 .. n
        /\ free_indexes_' \in Seq(A!Slots) /\ DOMAIN free_indexes_' = 1 .. n + 1
        /\ \A k \in 1 .. n : free_indexes_'[k] = free_indexes_[k]
        /\ free_indexes_'[n + 1] = s
    BY <1>3 DEF A!Delete
  <2>2. s \in objects /\ s \notin lost /\ active_[s] /\ s \notin OnStack
    BY <1>3 DEF A!Delete, A!SlotsAccounted, OnStack, A!Active
  <2>3. OnStack' = OnStack \union {s}
    BY <2>1 DEF OnStack
  <2>4. \A k, l \in DOMAIN free_indexes_' : free_indexes_'[k] = free_indexes_'[l] => k = l
    BY <2>1, <2>2 DEF A!SlotsAccounted, OnStack
  <2>5. /\ active_' = [active_ EXCEPT ![s] = FALSE]
        /\ objects' = objects \ {s} /\ lost' = lost /\ ~destroyed /\ destroyed' = destroyed
        /\ phantoms' = phantoms
    BY <1>3 DEF A!Delete
  <2>6. A!Active' = A!Active \ {s}
    BY <2>5 DEF A!Active
  <2> QED
    BY <2>1, <2>2, <2>3, <2>4, <2>5, <2>6 DEF A!SlotsAccounted, OnStack
<1>4. ASSUME A!Destroy PROVE SlotsInv'
  <2>1. /\ objects \union lost = A!Active /\ objects \intersect lost = {}
        /\ objects' = objects \ A!Active /\ phantoms' = A!Active \ objects
    BY <1>4 DEF A!Destroy, A!SlotsAccounted
  <2>2. objects' = {} /\ phantoms' = lost
    BY <2>1
  <2> QED
    BY <1>4, <2>2 DEF A!Destroy, A!SlotsAccounted
<1>5. CASE UNCHANGED A!allocvars
  BY <1>5 DEF A!allocvars, A!SlotsAccounted, A!Active
<1> QED
  BY <1>1, <1>2, <1>3, <1>4, <1>5 DEF A!Next, A!NewNull

-----------------------------------------------------------------------------
(* Every slot of StaticAllocator is on the stack, once, or holds one object *)
(* or was lost to a constructor that threw, and its destructor ends every   *)
(* object and calls ~T besides on the lost slots only; what allocate of     *)
(* StaticStlAllocator hands out to one user at a time lies in its pool and  *)
(* shares no byte with what is still in use.                                *)
THEOREM MemoryNeverShared == Spec => []MemoryAccounted
<1>1. A!AllocatorAssumption /\ P!PoolAssumption
  BY ContainersAssumption
<1>2. Init => SlotsInv /\ PoolInv
  BY <1>1, SlotsInit, PoolInit DEF Init
<1>3. [Next]_vars => [A!Next]_A!allocvars /\ [P!Next]_P!poolvars
  BY DEF Next, vars, slots, pool, A!allocvars, P!poolvars
<1>4. (SlotsInv /\ PoolInv) /\ [Next]_vars => (SlotsInv /\ PoolInv)'
  BY <1>1, <1>3, SlotsNext, PoolNext
<1>5. SlotsInv /\ PoolInv => MemoryAccounted
  BY DEF SlotsInv, PoolInv, MemoryAccounted
<1> QED
  BY <1>2, <1>4, <1>5, PTL DEF Spec

-----------------------------------------------------------------------------
(* COWVector.  The calls give storage back, share it and make it anew, one  *)
(* after the other; between two of these a vector has none.  So the         *)
(* invariant is about a set of vectors that have their storage:             *)
(* CountedFor(f, h, Owners) says that the heap h is exact for them.  There  *)
(* is a lemma for each of Released, Retained and New, and each call is a    *)
(* composition of these.                                                    *)

LEMMA VectorSets ==
  \A Any : V!Cardinality(Any) = Cardinality(Any) /\ (V!IsFiniteSet(Any) <=> IsFiniteSet(Any))
<1>1. \A Any : V!IsFiniteSet(Any) <=> IsFiniteSet(Any)
  BY DEF V!IsFiniteSet, IsFiniteSet
<1>2. \A Any : V!Cardinality(Any) = Cardinality(Any)
  BY Zenon DEF V!Cardinality, Cardinality
<1> QED
  BY <1>1, <1>2

(* What VectorAssumption and Addresses say, with the Cardinality of here.   *)
LEMMA VectorConstants ==
  /\ V!VectorAssumption => /\ IsFiniteSet(Vectors) /\ Vectors # {}
                           /\ Default \in Values /\ StringBound \in Nat
  /\ V!Addresses = 0 .. Cardinality(Vectors)
  BY VectorSets DEF V!VectorAssumption, V!Addresses

DataRecord == [storage_ : Seq(Values), ref_count_ : Nat]
Users(f, Owners, p) == {v \in Owners : f[v] = p}

CountedFor(f, h, Owners) ==
    /\ f \in [Vectors -> V!Addresses]
    /\ h \in [{f[v] : v \in Owners} -> DataRecord]
    /\ \A p \in {f[v] : v \in Owners} : h[p].ref_count_ = Cardinality(Users(f, Owners, p))

LEMMA UsersFinite ==
  ASSUME V!VectorAssumption, NEW f, NEW Owners \in SUBSET Vectors, NEW p
  PROVE  IsFiniteSet(Users(f, Owners, p)) /\ Cardinality(Users(f, Owners, p)) \in Nat
<1>1. Users(f, Owners, p) \in SUBSET Vectors
  BY DEF Users
<1> QED
  BY <1>1, FS_Subset, FS_CardinalityType, VectorConstants

(* There are more addresses than vectors.                                   *)
LEMMA FreshThere ==
  ASSUME V!VectorAssumption, NEW Owners \in SUBSET Vectors, NEW f, NEW h, CountedFor(f, h,
         Owners)
  PROVE  V!Fresh(h) \in V!Addresses \ DOMAIN h
<1> DEFINE n == Cardinality(Vectors)
<1>1. n \in Nat /\ IsFiniteSet(Vectors)
  BY FS_CardinalityType, VectorConstants
<1>2. IsFiniteSet(V!Addresses) /\ Cardinality(V!Addresses) = n + 1
  BY <1>1, FS_Interval, VectorConstants
<1>3. /\ DOMAIN h \subseteq V!Addresses /\ DOMAIN h = {f[v] : v \in Owners}
      /\ f \in [Vectors -> V!Addresses]
  BY DEF CountedFor
<1>4. ASSUME V!Addresses \ DOMAIN h = {} PROVE FALSE
  <2>1. f \in Surjection(Vectors, V!Addresses)
    BY <1>3, <1>4 DEF Surjection
  <2> QED
    BY <1>1, <1>2, <2>1, FS_Surjection
<1> QED
  BY <1>4 DEF V!Fresh

LEMMA ReleaseCounts ==
  ASSUME V!VectorAssumption, NEW Owners \in SUBSET Vectors, NEW f, NEW h, CountedFor(f, h,
         Owners),
         NEW v \in Owners
  PROVE  CountedFor(f, V!Released(h, f[v]), Owners \ {v})
<1> DEFINE p == f[v]
           T == Owners \ {v}
           r == V!Released(h, p)
<1>1. /\ f \in [Vectors -> V!Addresses] /\ h \in [{f[u] : u \in Owners} -> DataRecord]
      /\ p \in {f[u] : u \in Owners} /\ h[p].ref_count_ = Cardinality(Users(f, Owners, p))
      /\ h[p] \in DataRecord
  BY DEF CountedFor
<1>2. Users(f, T, p) = Users(f, Owners, p) \ {v} /\ v \in Users(f, Owners, p)
  BY DEF Users
<1>3. /\ Cardinality(Users(f, T, p)) = h[p].ref_count_ - 1
      /\ h[p].ref_count_ \in Nat \ {0}
  <2>1. IsFiniteSet(Users(f, Owners, p))
    BY UsersFinite
  <2> HIDE DEF p, T
  <2>2. Cardinality(Users(f, T, p)) = Cardinality(Users(f, Owners, p)) - 1
    BY <1>2, <2>1, FS_RemoveElement, Zenon
  <2>3. Cardinality(Users(f, Owners, p)) \in Nat
    BY UsersFinite
  <2>4. Cardinality(Users(f, Owners, p)) # 0
    BY <1>2, <2>1, FS_EmptySet
  <2> QED
    BY <1>1, <2>2, <2>3, <2>4
<1>4. \A q : q # p => Users(f, T, q) = Users(f, Owners, q)
  BY DEF Users
<1>5. T \in SUBSET Vectors /\ \A q : IsFiniteSet(Users(f, T, q))
  BY UsersFinite
<1>6. {f[u] : u \in T} =
        IF h[p].ref_count_ = 1 THEN {f[u] : u \in Owners} \ {p} ELSE {f[u] : u \in Owners}
  <2>1. CASE h[p].ref_count_ = 1
    <3>1. Users(f, T, p) = {}
      BY <1>3, <1>5, <2>1, FS_EmptySet
    <3>2. \A u \in T : f[u] # p
      BY <3>1 DEF Users
    <3> QED
      BY <2>1, <3>2
  <2>2. CASE h[p].ref_count_ # 1
    <3>1. Users(f, T, p) # {}
      <4> HIDE DEF p, T
      <4>1. Cardinality(Users(f, T, p)) # 0
        BY <1>3, <2>2
      <4> QED
        BY <4>1, FS_EmptySet
    <3>2. \E u \in T : f[u] = p
      BY <3>1 DEF Users
    <3> QED
      BY <2>2, <3>2
  <2> QED
    BY <2>1, <2>2
<1>7. CASE h[p].ref_count_ = 1
  <2>1. r = [q \in {f[u] : u \in T} |-> h[q]]
    BY <1>1, <1>6, <1>7 DEF V!Released
  <2>2. \A q \in {f[u] : u \in T} : q # p /\ q \in {f[u] : u \in Owners}
    BY <1>6, <1>7
  <2> HIDE DEF r, p, T
  <2>3. r \in [{f[u] : u \in T} -> DataRecord]
    BY <1>1, <2>1, <2>2
  <2>4. \A q \in {f[u] : u \in T} : r[q].ref_count_ = Cardinality(Users(f, T, q))
    BY <1>4, <2>1, <2>2, Zenon DEF CountedFor
  <2> QED
    BY <1>1, <2>3, <2>4, Zenon DEF CountedFor, r, p, T
<1>8. CASE h[p].ref_count_ # 1
  <2>1. r = [h EXCEPT ![p].ref_count_ = @ - 1] /\ {f[u] : u \in T} = {f[u] : u \in Owners}
    BY <1>6, <1>8 DEF V!Released
  <2>2. /\ r \in [{f[u] : u \in T} -> DataRecord] /\ r[p].ref_count_ = h[p].ref_count_ - 1
        /\ \A q \in {f[u] : u \in T} \ {p} : r[q] = h[q]
    <3> HIDE DEF r, p, T
    <3>1. h[p].ref_count_ - 1 \in Nat
      BY <1>3
    <3>2. [h[p] EXCEPT !.ref_count_ = @ - 1] \in DataRecord
      BY <1>1, <3>1 DEF DataRecord
    <3>3. [h[p] EXCEPT !.ref_count_ = @ - 1].ref_count_ = h[p].ref_count_ - 1
      BY <1>1 DEF DataRecord
    <3>4. r = [h EXCEPT ![p] = [h[p] EXCEPT !.ref_count_ = @ - 1]]
      BY <1>1, <2>1
    <3> QED
      BY <1>1, <2>1, <3>2, <3>3, <3>4, Zenon
  <2> HIDE DEF r, p, T
  <2>3. \A q \in {f[u] : u \in T} : r[q].ref_count_ = Cardinality(Users(f, T, q))
    BY <1>3, <1>4, <2>1, <2>2, Zenon DEF CountedFor
  <2> QED
    BY <1>1, <2>2, <2>3, Zenon DEF CountedFor, r, p, T
<1> QED
  BY <1>7, <1>8

(* A vector without storage shares that of w.                               *)
LEMMA RetainCounts ==
  ASSUME V!VectorAssumption, NEW Owners \in SUBSET Vectors, NEW f, NEW h, CountedFor(f, h,
         Owners),
         NEW w \in Owners, NEW v \in Vectors \ Owners
  PROVE  CountedFor([f EXCEPT ![v] = f[w]], V!Retained(h, f[w]), Owners \union {v})
<1> DEFINE q == f[w]
           T == Owners \union {v}
           g == [f EXCEPT ![v] = q]
           r == V!Retained(h, q)
<1>1. /\ f \in [Vectors -> V!Addresses] /\ h \in [{f[u] : u \in Owners} -> DataRecord]
      /\ q \in {f[u] : u \in Owners} /\ h[q].ref_count_ = Cardinality(Users(f, Owners, q))
      /\ h[q] \in DataRecord /\ q \in V!Addresses
  BY DEF CountedFor
<1>2. g \in [Vectors -> V!Addresses] /\ g[v] = q /\ \A u \in Owners : g[u] = f[u]
  BY <1>1
<1>3. {g[u] : u \in T} = {f[u] : u \in Owners}
  BY <1>2
<1>4. Users(g, T, q) = Users(f, Owners, q) \union {v} /\ v \notin Users(f, Owners, q)
  BY <1>2 DEF Users
<1>5. Cardinality(Users(g, T, q)) = h[q].ref_count_ + 1
  <2>1. IsFiniteSet(Users(f, Owners, q))
    BY UsersFinite
  <2> HIDE DEF g, T, q
  <2>2. Cardinality(Users(f, Owners, q) \union {v}) = Cardinality(Users(f, Owners, q)) + 1
    BY <1>4, <2>1, FS_AddElement, Zenon
  <2> QED
    BY <1>1, <1>4, <2>2
<1>6. \A p : p # q => Users(g, T, p) = Users(f, Owners, p)
  BY <1>2 DEF Users
<1>7. /\ r \in [{f[u] : u \in Owners} -> DataRecord] /\ r[q].ref_count_ = h[q].ref_count_ + 1
      /\ \A p \in {f[u] : u \in Owners} \ {q} : r[p] = h[p]
  <2>1. r = [h EXCEPT ![q] = [h[q] EXCEPT !.ref_count_ = @ + 1]]
    BY <1>1 DEF V!Retained
  <2>2. /\ [h[q] EXCEPT !.ref_count_ = @ + 1] \in DataRecord
        /\ [h[q] EXCEPT !.ref_count_ = @ + 1].ref_count_ = h[q].ref_count_ + 1
    BY <1>1 DEF DataRecord
  <2> HIDE DEF r, q
  <2> QED
    BY <1>1, <2>1, <2>2
<1> HIDE DEF g, r, q, T
<1>8. \A p \in {g[u] : u \in T} : r[p].ref_count_ = Cardinality(Users(g, T, p))
  BY <1>3, <1>5, <1>6, <1>7 DEF CountedFor
<1>9. CountedFor(g, r, T)
  BY <1>2, <1>3, <1>7, <1>8, Zenon DEF CountedFor
<1> QED
  BY <1>9 DEF g, r, q, T

(* A vector without storage gets a Data of its own at p.                    *)
LEMMA NewCounts ==
  ASSUME V!VectorAssumption, NEW Owners \in SUBSET Vectors, NEW f, NEW h, CountedFor(f, h,
         Owners),
         NEW v \in Vectors \ Owners, NEW p \in V!Addresses \ DOMAIN h, NEW s \in Seq(Values)
  PROVE  CountedFor([f EXCEPT ![v] = p], V!New(h, p, [storage_ |-> s, ref_count_ |-> 1]),
                    Owners \union {v})
<1> DEFINE x == [storage_ |-> s, ref_count_ |-> 1]
           T == Owners \union {v}
           g == [f EXCEPT ![v] = p]
           r == V!New(h, p, x)
<1>1. /\ f \in [Vectors -> V!Addresses] /\ h \in [{f[u] : u \in Owners} -> DataRecord]
      /\ p \notin {f[u] : u \in Owners} /\ DOMAIN h = {f[u] : u \in Owners}
      /\ x \in DataRecord /\ x.ref_count_ = 1
  BY DEF CountedFor, DataRecord
<1>2. g \in [Vectors -> V!Addresses] /\ g[v] = p /\ \A u \in Owners : g[u] = f[u]
  BY <1>1
<1>3. {g[u] : u \in T} = {f[u] : u \in Owners} \union {p}
  BY <1>2
<1>4. Users(g, T, p) = {v}
  BY <1>1, <1>2 DEF Users
<1>5. Cardinality(Users(g, T, p)) = 1
  BY <1>4, FS_Singleton, Zenon
<1>6. \A q : q # p => Users(g, T, q) = Users(f, Owners, q)
  BY <1>2 DEF Users
<1>7. r = [q \in {f[u] : u \in Owners} \union {p} |-> IF q = p THEN x ELSE h[q]]
  BY <1>1 DEF V!New
<1> HIDE DEF g, r, x, T
<1>8. r \in [{g[u] : u \in T} -> DataRecord]
  BY <1>1, <1>3, <1>7, Zenon
<1>9. \A q \in {g[u] : u \in T} : r[q].ref_count_ = Cardinality(Users(g, T, q))
  BY <1>1, <1>3, <1>5, <1>6, <1>7, Zenon DEF CountedFor
<1>10. CountedFor(g, r, T)
  BY <1>2, <1>8, <1>9 DEF CountedFor
<1> QED
  BY <1>10 DEF g, r, x, T

(* A vector that shares with nobody writes in place.                        *)
LEMMA WriteCounts ==
  ASSUME NEW f, NEW h, CountedFor(f, h, Vectors), NEW v \in Vectors, NEW s \in Seq(Values),
         h[f[v]].ref_count_ = 1
  PROVE  CountedFor(f, V!New(h, f[v], [storage_ |-> s, ref_count_ |-> 1]), Vectors)
<1> DEFINE x == [storage_ |-> s, ref_count_ |-> 1]
           p == f[v]
           Used == {f[u] : u \in Vectors}
           r == V!New(h, p, x)
<1>1. /\ f \in [Vectors -> V!Addresses] /\ h \in [Used -> DataRecord] /\ p \in Used
      /\ x \in DataRecord /\ x.ref_count_ = 1 /\ h[p].ref_count_ = 1
  BY DEF CountedFor, DataRecord
<1>2. r = [q \in Used |-> IF q = p THEN x ELSE h[q]]
  <2>1. DOMAIN h \union {p} = Used
    BY <1>1
  <2> QED
    BY <2>1 DEF V!New
<1> HIDE DEF r, x, p
<1>3. r \in [Used -> DataRecord] /\ \A q \in Used : r[q].ref_count_ = h[q].ref_count_
  BY <1>1, <1>2
<1>4. CountedFor(f, r, Vectors)
  BY <1>1, <1>3 DEF CountedFor
<1> QED
  BY <1>4 DEF r, x, p

(* v takes over what w holds, and w is left without.                        *)
LEMMA TakeOverCounts ==
  ASSUME V!VectorAssumption, NEW f, NEW h, NEW v \in Vectors, NEW w \in Vectors \ {v},
         CountedFor(f, h, Vectors \ {v})
  PROVE  CountedFor([f EXCEPT ![v] = f[w]], h, Vectors \ {w})
<1> DEFINE Owners == Vectors \ {v}
           T == Vectors \ {w}
           g == [f EXCEPT ![v] = f[w]]
<1>1. /\ f \in [Vectors -> V!Addresses] /\ h \in [{f[u] : u \in Owners} -> DataRecord]
      /\ \A p \in {f[u] : u \in Owners} : h[p].ref_count_ = Cardinality(Users(f, Owners, p))
  BY Zenon DEF CountedFor
<1>2. /\ g \in [Vectors -> V!Addresses] /\ g[v] = f[w]
      /\ \A u \in Vectors \ {v} : g[u] = f[u]
  BY <1>1
<1>3. {g[u] : u \in T} = {f[u] : u \in Owners}
  BY <1>2
<1>4. ASSUME NEW p PROVE Cardinality(Users(g, T, p)) = Cardinality(Users(f, Owners, p))
  <2>1. CASE p = f[w]
    <3>1. Users(g, T, p) = (Users(f, Owners, p) \ {w}) \union {v} /\ w \in Users(f, Owners, p)
      BY <1>2, <2>1 DEF Users
    <3>2. Owners \in SUBSET Vectors /\ v \notin Users(f, Owners, p) \ {w}
      BY DEF Users
    <3>3. IsFiniteSet(Users(f, Owners, p)) /\ Cardinality(Users(f, Owners, p)) \in Nat
      BY <3>2, UsersFinite
    <3>4. /\ IsFiniteSet(Users(f, Owners, p) \ {w})
          /\ Cardinality(Users(f, Owners, p) \ {w}) = Cardinality(Users(f, Owners, p)) - 1
      BY <3>1, <3>3, FS_RemoveElement, Zenon
    <3>5. Cardinality(Users(g, T, p)) = Cardinality(Users(f, Owners, p) \ {w}) + 1
      BY <3>1, <3>2, <3>4, FS_AddElement, Zenon
    <3> QED
      BY <3>3, <3>4, <3>5
  <2>2. CASE p # f[w]
    <3>1. Users(g, T, p) = Users(f, Owners, p)
      BY <1>2, <2>2 DEF Users
    <3> QED
      BY <3>1
  <2> QED
    BY <2>1, <2>2
<1> HIDE DEF g, Owners, T
<1>5. CountedFor(g, h, T)
  BY <1>1, <1>2, <1>3, <1>4, Zenon DEF CountedFor
<1> QED
  BY <1>5 DEF g, Owners, T

-----------------------------------------------------------------------------
VectorInv == CountedFor(data_, data, Vectors)

LEMMA DetachStep ==
  ASSUME V!VectorAssumption, VectorInv, NEW v \in Vectors, NEW s \in Seq(Values), V!DetachAndWrite(v,
         s)
  PROVE  VectorInv'
<1> DEFINE p == data_[v]
           rest == V!Released(data, p)
           x == [storage_ |-> s, ref_count_ |-> 1]
<1>1. /\ data_ \in [Vectors -> V!Addresses] /\ data[p].ref_count_ \in Nat \ {0}
      /\ DOMAIN data = {data_[u] : u \in Vectors}
  <2>1. v \in Users(data_, Vectors, p)
    BY DEF Users
  <2>2. Vectors \in SUBSET Vectors
    OBVIOUS
  <2>3. Cardinality(Users(data_, Vectors, p)) \in Nat \ {0}
    BY <2>1, <2>2, UsersFinite, FS_EmptySet
  <2> QED
    BY <2>3 DEF VectorInv, CountedFor
<1>2. CASE data[p].ref_count_ > 1
  <2>1. data' = V!New(rest, V!Fresh(data), x) /\ data_' = [data_ EXCEPT ![v] = V!Fresh(data)]
    BY <1>2, Zenon DEF V!DetachAndWrite
  <2>2. CountedFor(data_, rest, Vectors \ {v})
    BY ReleaseCounts, Zenon DEF VectorInv
  <2>3. V!Fresh(data) \in V!Addresses \ DOMAIN data
    BY FreshThere DEF VectorInv
  <2>4. DOMAIN rest = {data_[u] : u \in Vectors \ {v}}
    BY <2>2 DEF CountedFor
  <2>5. V!Fresh(data) \in V!Addresses \ DOMAIN rest
    BY <1>1, <2>3, <2>4
  <2>6. CountedFor(data_', data', (Vectors \ {v}) \union {v})
    <3>1. Vectors \ {v} \in SUBSET Vectors /\ v \in Vectors \ (Vectors \ {v})
      OBVIOUS
    <3> HIDE DEF rest
    <3> QED
      BY <2>1, <2>2, <2>5, <3>1, NewCounts, Zenon
  <2>7. (Vectors \ {v}) \union {v} = Vectors
    OBVIOUS
  <2> QED
    BY <2>6, <2>7, Zenon DEF VectorInv
<1>3. CASE ~(data[p].ref_count_ > 1)
  <2>1. data' = V!New(data, p, x) /\ data_' = [data_ EXCEPT ![v] = p]
    BY <1>3, Zenon DEF V!DetachAndWrite
  <2>2. data_' = data_ /\ data[p].ref_count_ = 1
    BY <1>1, <1>3, <2>1
  <2> QED
    BY <2>1, <2>2, WriteCounts DEF VectorInv
<1> QED
  BY <1>2, <1>3

LEMMA ConstructStep ==
  ASSUME V!VectorAssumption, VectorInv, NEW v \in Vectors, V!Construct(v) PROVE VectorInv'
<1> DEFINE rest == V!Released(data, data_[v])
<1>1. /\ data' = V!New(rest, V!Fresh(rest), [storage_ |-> <<>>, ref_count_ |-> 1])
      /\ data_' = [data_ EXCEPT ![v] = V!Fresh(rest)]
  BY DEF V!Construct, V!NewData
<1>2. CountedFor(data_, rest, Vectors \ {v})
  BY ReleaseCounts DEF VectorInv
<1> HIDE DEF rest
<1>3. /\ Vectors \ {v} \in SUBSET Vectors /\ v \in Vectors \ (Vectors \ {v})
      /\ (Vectors \ {v}) \union {v} = Vectors /\ <<>> \in Seq(Values)
  OBVIOUS
<1>4. V!Fresh(rest) \in V!Addresses \ DOMAIN rest
  BY <1>2, <1>3, FreshThere
<1>5. CountedFor(data_', data', (Vectors \ {v}) \union {v})
  BY <1>1, <1>2, <1>3, <1>4, NewCounts, Zenon
<1> QED
  BY <1>3, <1>5 DEF VectorInv

(* The storage of other, given to v in the order of the copy constructor.   *)
LEMMA ShareStep ==
  ASSUME V!VectorAssumption, VectorInv, NEW v \in Vectors, NEW other \in Vectors \ {v},
         data' = V!Retained(V!Released(data, data_[v]), data_[other]),
         data_' = [data_ EXCEPT ![v] = data_[other]]
  PROVE  VectorInv'
<1>1. CountedFor(data_, V!Released(data, data_[v]), Vectors \ {v})
  BY ReleaseCounts DEF VectorInv
<1>2. /\ Vectors \ {v} \in SUBSET Vectors /\ v \in Vectors \ (Vectors \ {v})
      /\ (Vectors \ {v}) \union {v} = Vectors /\ other \in Vectors \ {v}
  OBVIOUS
<1>3. CountedFor(data_', data', (Vectors \ {v}) \union {v})
  BY <1>1, <1>2, RetainCounts, Zenon
<1> QED
  BY <1>2, <1>3 DEF VectorInv

LEMMA CopyAssignStep ==
  ASSUME V!VectorAssumption, VectorInv, NEW v \in Vectors, NEW other \in Vectors, V!CopyAssign(v,
         other)
  PROVE  VectorInv'
<1> DEFINE p == data_[v]
           q == data_[other]
           Used == {data_[u] : u \in Vectors}
           more(x) == [x EXCEPT !.ref_count_ = @ + 1]
           less(x) == [x EXCEPT !.ref_count_ = @ - 1]
<1>1. /\ v # other /\ data' = V!Released(V!Retained(data, q), p)
      /\ data_' = [data_ EXCEPT ![v] = q]
  BY DEF V!CopyAssign
<1>2. /\ data_ \in [Vectors -> V!Addresses] /\ data \in [Used -> DataRecord]
      /\ p \in Used /\ q \in Used /\ data[q] \in DataRecord /\ data[q].ref_count_ \in Nat
      /\ data[q].ref_count_ # 0
  <2>1. other \in Users(data_, Vectors, q) /\ Vectors \in SUBSET Vectors
    BY DEF Users
  <2>2. Cardinality(Users(data_, Vectors, q)) # 0
    BY <2>1, UsersFinite, FS_EmptySet
  <2> QED
    BY <2>2 DEF VectorInv, CountedFor, DataRecord
<1>3. V!Retained(data, q) = [data EXCEPT ![q] = more(data[q])]
  BY <1>2 DEF V!Retained
<1>4. /\ more(data[q]).ref_count_ = data[q].ref_count_ + 1
      /\ less(more(data[q])) = data[q] /\ more(data[q]) \in DataRecord
  <2> SUFFICES ASSUME NEW x \in DataRecord
               PROVE  /\ more(x).ref_count_ = x.ref_count_ + 1
                      /\ less(more(x)) = x /\ more(x) \in DataRecord
    BY <1>2, Zenon
  <2>1. PICK s \in Seq(Values), n \in Nat : x = [storage_ |-> s, ref_count_ |-> n]
    BY DEF DataRecord
  <2>2. more(x) = [storage_ |-> s, ref_count_ |-> n + 1]
    BY <2>1
  <2>3. less([storage_ |-> s, ref_count_ |-> n + 1]) = [storage_ |-> s, ref_count_ |-> n]
    <3>1. n + 1 - 1 = n
      BY <2>1
    <3>2. less([storage_ |-> s, ref_count_ |-> n + 1]) =
            [storage_ |-> s, ref_count_ |-> n + 1 - 1]
      OBVIOUS
    <3> QED
      BY <3>1, <3>2
  <2>4. more(x) \in DataRecord
    BY <2>1, <2>2 DEF DataRecord
  <2> QED
    BY <2>1, <2>2, <2>3, <2>4, Zenon
<1> HIDE DEF more
<1>5. CASE p = q
  <2>1. V!Retained(data, q)[p] = more(data[q]) /\ DOMAIN V!Retained(data, q) = Used
    BY <1>2, <1>3, <1>5
  <2>2. more(data[q]).ref_count_ # 1
    BY <1>2, <1>4
  <2>3. data' = [V!Retained(data, q) EXCEPT ![p] = less(more(data[q]))]
    BY <1>1, <2>1, <2>2 DEF V!Released
  <2> HIDE DEF p, q, less
  <2>4. data' = data
    BY <1>2, <1>3, <1>4, <1>5, <2>3
  <2>5. data_' = data_
    BY <1>1, <1>2, <1>5 DEF p, q
  <2> QED
    BY <2>4, <2>5 DEF VectorInv
<1>6. CASE p # q
  <2>1. data' = V!Retained(V!Released(data, p), q)
    <3>1. V!Retained(data, q)[p] = data[p] /\ DOMAIN V!Retained(data, q) = Used
      BY <1>2, <1>3, <1>6
    <3>2. CASE data[p].ref_count_ = 1
      <4>1. /\ data' = [a \in Used \ {p} |-> V!Retained(data, q)[a]]
            /\ V!Released(data, p) = [a \in Used \ {p} |-> data[a]]
        BY <1>1, <1>2, <3>1, <3>2 DEF V!Released
      <4>2. V!Retained(V!Released(data, p), q)
              = [[a \in Used \ {p} |-> data[a]] EXCEPT ![q] = more(data[q])]
        BY <1>2, <1>6, <4>1, Zenon DEF V!Retained, more
      <4> HIDE DEF p, q, Used
      <4> QED
        BY <1>2, <1>3, <1>6, <4>1, <4>2, Zenon
    <3>3. CASE data[p].ref_count_ # 1
      <4>1. /\ data' = [V!Retained(data, q) EXCEPT ![p] = less(data[p])]
            /\ V!Released(data, p) = [data EXCEPT ![p] = less(data[p])]
        BY <1>1, <1>2, <3>1, <3>3 DEF V!Released
      <4>2. V!Retained(V!Released(data, p), q)
              = [[data EXCEPT ![p] = less(data[p])] EXCEPT ![q] = more(data[q])]
        BY <1>2, <1>6, <4>1, Zenon DEF V!Retained, more
      <4> HIDE DEF p, q, Used, less
      <4> QED
        BY <1>2, <1>3, <1>6, <4>1, <4>2, Zenon
    <3> QED
      BY <3>2, <3>3
  <2> QED
    BY <1>1, <2>1, ShareStep, Zenon
<1> QED
  BY <1>5, <1>6

LEMMA MoveAssignStep ==
  ASSUME V!VectorAssumption, VectorInv, NEW v \in Vectors, NEW other \in Vectors, V!MoveAssign(v,
         other)
  PROVE  VectorInv'
<1> DEFINE rest == V!Released(data, data_[v])
           f == [data_ EXCEPT ![v] = data_[other]]
           p == V!Fresh(rest)
<1>1. /\ v # other /\ data' = V!New(rest, p, [storage_ |-> <<>>, ref_count_ |-> 1])
      /\ data_' = [f EXCEPT ![other] = p]
  BY DEF V!MoveAssign, V!NewData
<1>2. CountedFor(data_, rest, Vectors \ {v})
  BY ReleaseCounts DEF VectorInv
<1> HIDE DEF rest
<1>3. CountedFor(f, rest, Vectors \ {other})
  BY <1>1, <1>2, TakeOverCounts, Zenon
<1> HIDE DEF f
<1>4. /\ Vectors \ {other} \in SUBSET Vectors /\ other \in Vectors \ (Vectors \ {other})
      /\ (Vectors \ {other}) \union {other} = Vectors /\ <<>> \in Seq(Values)
  OBVIOUS
<1>5. p \in V!Addresses \ DOMAIN rest
  BY <1>3, <1>4, FreshThere
<1>6. CountedFor(data_', data', (Vectors \ {other}) \union {other})
  BY <1>1, <1>3, <1>4, <1>5, NewCounts, Zenon
<1> QED
  BY <1>4, <1>6 DEF VectorInv

LEMMA ChangedSeq ==
  ASSUME NEW Elem, NEW s \in Seq(Elem), NEW x \in Elem, NEW k
  PROVE  [s EXCEPT ![k] = x] \in Seq(Elem)
<1>1. Len(s) \in Nat /\ s \in [1 .. Len(s) -> Elem]
  OBVIOUS
<1>2. [s EXCEPT ![k] = x] \in [1 .. Len(s) -> Elem]
  BY <1>1, Zenon
<1> QED
  BY <1>1, <1>2

LEMMA VectorInvNext ==
  ASSUME V!VectorAssumption
  PROVE  VectorInv /\ [V!Next]_V!cowvars => VectorInv'
<1> SUFFICES ASSUME V!VectorAssumption, VectorInv, [V!Next]_V!cowvars PROVE VectorInv'
  OBVIOUS
<1>1. CASE UNCHANGED V!cowvars
  BY <1>1 DEF V!cowvars, VectorInv
<1>2. \A v \in Vectors : V!Strings(v) \in Seq(Values)
  BY DEF VectorInv, CountedFor, DataRecord, V!Strings
<1>3. ASSUME NEW v \in Vectors, NEW n \in 0 .. StringBound, V!Resize(v, n) PROVE VectorInv'
  <2> DEFINE s == [i \in 1 .. n |-> IF i <= Len(V!Strings(v)) THEN V!Strings(v)[i] ELSE Default]
  <2>1. n \in Nat /\ Default \in Values
    BY VectorConstants
  <2>2. \A i \in 1 .. n : s[i] \in Values
    BY <1>2, <2>1
  <2>3. s \in Seq(Values)
    BY <2>1, <2>2
  <2>4. V!DetachAndWrite(v, s)
    BY <1>3 DEF V!Resize
  <2> HIDE DEF s
  <2> QED
    BY <2>3, <2>4, DetachStep
<1>4. ASSUME NEW v \in Vectors, NEW x \in Values, V!PushBack(v, x) PROVE VectorInv'
  <2>1. Append(V!Strings(v), x) \in Seq(Values)
    BY <1>2
  <2> QED
    BY <1>4, <2>1, DetachStep, Zenon DEF V!PushBack
<1>5. ASSUME NEW v \in Vectors, NEW x \in Values, NEW at \in 0 .. StringBound - 1,
             V!Set(v, at, x)
      PROVE VectorInv'
  <2>1. [V!Strings(v) EXCEPT ![at + 1] = x] \in Seq(Values)
    BY <1>2, ChangedSeq
  <2> QED
    BY <1>5, <2>1, DetachStep DEF V!Set
<1>6. ASSUME NEW v \in Vectors, NEW other \in Vectors, V!CopyConstruct(v, other)
      PROVE  VectorInv'
  BY <1>6, ShareStep, Zenon DEF V!CopyConstruct
<1> QED
  BY <1>1, <1>3, <1>4, <1>5, <1>6, ConstructStep, CopyAssignStep, MoveAssignStep DEF V!Next

(* The program begins with a Data for each vector.                          *)
LEMMA VectorInvInit == ASSUME V!VectorAssumption PROVE V!Init => VectorInv
<1> SUFFICES ASSUME V!VectorAssumption, V!Init PROVE VectorInv
  OBVIOUS
<1> DEFINE n == Cardinality(Vectors)
           apart(f) == \A v, w \in Vectors : f[v] = f[w] => v = w
           Used == {data_[v] : v \in Vectors}
<1>1. \E f \in [Vectors -> V!Addresses] : apart(f)
  <2>1. n \in Nat /\ ExistsBijection(1 .. n, Vectors)
    BY FS_CardinalityType, VectorConstants
  <2>2. PICK b \in Bijection(1 .. n, Vectors) : TRUE
    BY <2>1 DEF ExistsBijection
  <2> DEFINE f == [v \in Vectors |-> CHOOSE k \in 1 .. n : b[k] = v]
  <2>3. \A v \in Vectors : f[v] \in 1 .. n /\ b[f[v]] = v
    BY <2>2 DEF Bijection, Surjection
  <2> HIDE DEF f
  <2>4. \A v \in Vectors : f[v] \in V!Addresses
    BY <2>1, <2>3, VectorConstants
  <2>5. apart(f)
    BY <2>3
  <2>6. f \in [Vectors -> V!Addresses]
    BY <2>4 DEF f
  <2> QED
    BY <2>5, <2>6
<1>2. data_ \in [Vectors -> V!Addresses] /\ apart(data_)
  BY <1>1 DEF V!Init
<1>3. data = [p \in Used |-> V!NewData] /\ V!NewData \in DataRecord /\ V!NewData.ref_count_ = 1
  <2>1. <<>> \in Seq(Values)
    OBVIOUS
  <2> QED
    BY <2>1 DEF V!Init, V!NewData, DataRecord
<1>4. ASSUME NEW p \in Used PROVE Cardinality(Users(data_, Vectors, p)) = 1
  <2>1. PICK v \in Vectors : data_[v] = p
    OBVIOUS
  <2>2. Users(data_, Vectors, p) = {v}
    BY <1>2, <2>1 DEF Users
  <2> QED
    BY <2>2, FS_Singleton, Zenon
<1>5. data \in [Used -> DataRecord] /\ \A p \in Used : data[p].ref_count_ = 1
  BY <1>3
<1> QED
  BY <1>2, <1>4, <1>5 DEF VectorInv, CountedFor

LEMMA VectorInvKept == Spec => []VectorInv
<1>1. V!VectorAssumption
  BY ContainersAssumption
<1>2. Init => VectorInv
  BY <1>1, VectorInvInit DEF Init
<1>3. [Next]_vars => [V!Next]_V!cowvars
  BY DEF Next, vars, cows, V!cowvars
<1>4. VectorInv /\ [Next]_vars => VectorInv'
  BY <1>1, <1>3, VectorInvNext
<1> QED
  BY <1>2, <1>4, PTL DEF Spec

(* Every Data lives exactly while vectors use it and counts them: no leak,  *)
(* no use after the last one's end, for any number of vectors.              *)
THEOREM CountersExact == Spec => []RefCountsExact
<1>1. VectorInv => RefCountsExact
  BY VectorSets DEF VectorInv, CountedFor, RefCountsExact, V!RefCountsExact, Users
<1> QED
  BY <1>1, VectorInvKept, PTL

-----------------------------------------------------------------------------
(* What vectors show.  No operation on the heap changes the strings of a    *)
(* Data that a vector goes on using.                                        *)
LEMMA ReleasedKeeps ==
  ASSUME V!VectorAssumption, NEW Owners \in SUBSET Vectors, NEW f, NEW h, CountedFor(f, h,
         Owners),
         NEW v \in Owners, NEW w \in Owners \ {v}
  PROVE  V!Released(h, f[v])[f[w]].storage_ = h[f[w]].storage_
<1> DEFINE p == f[v]
           r == V!Released(h, p)
           Used == {f[u] : u \in Owners}
<1>1. h \in [Used -> DataRecord] /\ p \in Used /\ f[w] \in Used /\ DOMAIN h = Used
  BY DEF CountedFor
<1>2. f[w] \in DOMAIN r
  <2>1. CountedFor(f, r, Owners \ {v})
    BY ReleaseCounts
  <2> QED
    BY <2>1 DEF CountedFor
<1>3. CASE h[p].ref_count_ = 1
  <2>1. r = [q \in Used \ {p} |-> h[q]]
    BY <1>1, <1>3 DEF V!Released
  <2> HIDE DEF r, p, Used
  <2>2. r[f[w]] = h[f[w]]
    BY <1>2, <2>1
  <2> QED
    BY <2>2 DEF r, p
<1>4. CASE h[p].ref_count_ # 1
  <2>1. r = [h EXCEPT ![p] = [h[p] EXCEPT !.ref_count_ = h[p].ref_count_ - 1]]
    BY <1>1, <1>4 DEF V!Released
  <2>2. [h[p] EXCEPT !.ref_count_ = h[p].ref_count_ - 1].storage_ = h[p].storage_
    BY <1>1 DEF DataRecord
  <2> HIDE DEF r, p, Used
  <2>3. r[f[w]].storage_ = h[f[w]].storage_
    BY <1>1, <2>1, <2>2
  <2> QED
    BY <2>3 DEF r, p
<1> QED
  BY <1>3, <1>4

LEMMA RetainedKeeps ==
  ASSUME NEW Owners, NEW f, NEW h, CountedFor(f, h, Owners), NEW v \in Owners, NEW w \in Owners
  PROVE  V!Retained(h, f[v])[f[w]].storage_ = h[f[w]].storage_
<1> DEFINE p == f[v]
<1>1. /\ h \in [{f[u] : u \in Owners} -> DataRecord] /\ h[p] \in DataRecord
      /\ p \in DOMAIN h /\ f[w] \in DOMAIN h
  BY DEF CountedFor
<1>2. V!Retained(h, p) = [h EXCEPT ![p] = [h[p] EXCEPT !.ref_count_ = h[p].ref_count_ + 1]]
  BY <1>1 DEF V!Retained
<1>3. [h[p] EXCEPT !.ref_count_ = h[p].ref_count_ + 1].storage_ = h[p].storage_
  BY <1>1 DEF DataRecord
<1> HIDE DEF p
<1>4. V!Retained(h, p)[f[w]].storage_ = h[f[w]].storage_
  BY <1>1, <1>2, <1>3
<1> QED
  BY <1>4 DEF p

LEMMA RestKeeps ==
  ASSUME V!VectorAssumption, VectorInv, NEW v \in Vectors
  PROVE  \A w \in Vectors \ {v} :
           V!Released(data, data_[v])[data_[w]].storage_ = data[data_[w]].storage_
<1>1. Vectors \in SUBSET Vectors /\ CountedFor(data_, data, Vectors)
  BY DEF VectorInv
<1> TAKE w \in Vectors \ {v}
<1> QED
  BY <1>1, ReleasedKeeps

LEMMA BecomesContents ==
  ASSUME NEW v \in Vectors, NEW s, data'[data_'[v]].storage_ = s,
         \A w \in Vectors \ {v} : data'[data_'[w]].storage_ = data[data_[w]].storage_
  PROVE  V!C!Becomes(v, s)
BY Zenon DEF V!C!Becomes, V!Contents, V!Strings

LEMMA DetachContents ==
  ASSUME V!VectorAssumption, VectorInv, NEW v \in Vectors, NEW s, V!DetachAndWrite(v, s)
  PROVE  V!C!Becomes(v, s)
<1> DEFINE p == data_[v]
           rest == V!Released(data, p)
           x == [storage_ |-> s, ref_count_ |-> 1]
<1>1. /\ data_ \in [Vectors -> V!Addresses] /\ DOMAIN data = {data_[u] : u \in Vectors}
      /\ Vectors \in SUBSET Vectors
  BY DEF VectorInv, CountedFor
<1>2. CASE data[p].ref_count_ > 1
  <2>1. data' = V!New(rest, V!Fresh(data), x) /\ data_' = [data_ EXCEPT ![v] = V!Fresh(data)]
    BY <1>2, Zenon DEF V!DetachAndWrite
  <2>2. CountedFor(data_, rest, Vectors \ {v})
    BY <1>1, ReleaseCounts, Zenon DEF VectorInv
  <2>3. V!Fresh(data) \in V!Addresses \ DOMAIN data
    BY <1>1, FreshThere DEF VectorInv
  <2>4. data'[data_'[v]].storage_ = s
    BY <1>1, <2>1 DEF V!New
  <2>5. ASSUME NEW w \in Vectors \ {v}
        PROVE  data'[data_'[w]].storage_ = data[data_[w]].storage_
    <3>1. data_'[w] = data_[w] /\ data_[w] # V!Fresh(data) /\ data_[w] \in DOMAIN rest
      BY <1>1, <2>1, <2>2, <2>3 DEF CountedFor
    <3>2. rest[data_[w]].storage_ = data[data_[w]].storage_
      BY RestKeeps
    <3> HIDE DEF rest
    <3> QED
      BY <2>1, <3>1, <3>2 DEF V!New
  <2> QED
    BY <2>4, <2>5, BecomesContents
<1>3. CASE ~(data[p].ref_count_ > 1)
  <2>1. data' = V!New(data, p, x) /\ data_' = [data_ EXCEPT ![v] = p]
    BY <1>3, Zenon DEF V!DetachAndWrite
  <2>2. data_' = data_
    BY <1>1, <2>1
  <2>3. data'[data_'[v]].storage_ = s
    BY <2>1, <2>2 DEF V!New
  <2>4. ASSUME NEW w \in Vectors \ {v}, data[p].ref_count_ = 1
        PROVE  data_[w] # p
    <3>1. CASE data_[w] = p
      <4> DEFINE U == Users(data_, Vectors, p)
      <4>1. Cardinality(U) = 1 /\ IsFiniteSet(U)
        BY <1>1, <2>4, UsersFinite DEF VectorInv, CountedFor
      <4>2. v \in U /\ w \in U \ {v}
        BY <3>1 DEF Users
      <4> HIDE DEF U
      <4>3. Cardinality(U \ {v}) = 0 /\ IsFiniteSet(U \ {v})
        BY <4>1, <4>2, FS_RemoveElement
      <4> QED
        BY <4>2, <4>3, FS_EmptySet
    <3> QED
      BY <3>1
  <2>5. data[p].ref_count_ = 1
    <3>1. v \in Users(data_, Vectors, p)
      BY DEF Users
    <3>2. Cardinality(Users(data_, Vectors, p)) \in Nat \ {0}
      BY <1>1, <3>1, UsersFinite, FS_EmptySet
    <3>3. data[p].ref_count_ = Cardinality(Users(data_, Vectors, p))
      BY DEF VectorInv, CountedFor
    <3> QED
      BY <1>3, <3>2, <3>3
  <2>6. ASSUME NEW w \in Vectors \ {v}
        PROVE  data'[data_'[w]].storage_ = data[data_[w]].storage_
    BY <1>1, <2>1, <2>2, <2>4, <2>5 DEF V!New
  <2> QED
    BY <2>3, <2>6, BecomesContents
<1> QED
  BY <1>2, <1>3

LEMMA ConstructContents ==
  ASSUME V!VectorAssumption, VectorInv, NEW v \in Vectors, V!Construct(v)
  PROVE  V!C!Becomes(v, <<>>)
<1> DEFINE rest == V!Released(data, data_[v])
<1>1. /\ data' = V!New(rest, V!Fresh(rest), V!NewData)
      /\ data_' = [data_ EXCEPT ![v] = V!Fresh(rest)]
      /\ data_ \in [Vectors -> V!Addresses] /\ V!NewData.storage_ = <<>>
      /\ Vectors \in SUBSET Vectors /\ Vectors \ {v} \in SUBSET Vectors
  BY DEF V!Construct, V!NewData, VectorInv, CountedFor
<1>2. CountedFor(data_, rest, Vectors \ {v})
  BY <1>1, ReleaseCounts, Zenon DEF VectorInv
<1>3. \A w \in Vectors \ {v} : rest[data_[w]].storage_ = data[data_[w]].storage_
  BY RestKeeps
<1> HIDE DEF rest
<1>4. V!Fresh(rest) \notin DOMAIN rest
  BY <1>1, <1>2, FreshThere
<1>5. data'[data_'[v]].storage_ = <<>>
  BY <1>1 DEF V!New
<1>6. ASSUME NEW w \in Vectors \ {v}
      PROVE  data'[data_'[w]].storage_ = data[data_[w]].storage_
  <2>1. data_'[w] = data_[w] /\ data_[w] \in DOMAIN rest
    BY <1>1, <1>2 DEF CountedFor
  <2> QED
    BY <1>1, <1>3, <1>4, <2>1 DEF V!New
<1> QED
  BY <1>5, <1>6, BecomesContents

LEMMA CopyConstructContents ==
  ASSUME V!VectorAssumption, VectorInv, NEW v \in Vectors, NEW other \in Vectors, V!CopyConstruct(v,
         other)
  PROVE  V!C!Becomes(v, data[data_[other]].storage_)
<1> DEFINE rest == V!Released(data, data_[v])
<1>1. /\ v # other /\ data' = V!Retained(rest, data_[other])
      /\ data_' = [data_ EXCEPT ![v] = data_[other]] /\ data_ \in [Vectors -> V!Addresses]
      /\ Vectors \in SUBSET Vectors
  BY DEF V!CopyConstruct, VectorInv, CountedFor
<1>2. CountedFor(data_, rest, Vectors \ {v})
  BY <1>1, ReleaseCounts, Zenon DEF VectorInv
<1>3. \A w \in Vectors \ {v} : rest[data_[w]].storage_ = data[data_[w]].storage_
  BY RestKeeps
<1> HIDE DEF rest
<1>4. \A w \in Vectors \ {v} : data'[data_[w]].storage_ = data[data_[w]].storage_
  BY <1>1, <1>2, <1>3, RetainedKeeps
<1>5. data_'[v] = data_[other] /\ \A w \in Vectors \ {v} : data_'[w] = data_[w]
  BY <1>1
<1> QED
  BY <1>1, <1>4, <1>5, BecomesContents

LEMMA CopyAssignContents ==
  ASSUME V!VectorAssumption, VectorInv, VectorInv', NEW v \in Vectors, NEW other \in Vectors,
         V!CopyAssign(v, other)
  PROVE  V!C!Becomes(v, data[data_[other]].storage_)
<1> DEFINE more == V!Retained(data, data_[other])
<1>1. /\ v # other /\ data' = V!Released(more, data_[v])
      /\ data_' = [data_ EXCEPT ![v] = data_[other]] /\ data_ \in [Vectors -> V!Addresses]
  BY DEF V!CopyAssign, VectorInv, CountedFor
<1>2. \A w \in Vectors : more[data_[w]].storage_ = data[data_[w]].storage_
  BY RetainedKeeps DEF VectorInv
<1>3. /\ DOMAIN more = DOMAIN data /\ more[data_[v]] \in DataRecord /\ data_[v] \in DOMAIN more
  <2>1. data \in [{data_[u] : u \in Vectors} -> DataRecord]
    BY DEF VectorInv, CountedFor
  <2>2. [data[data_[other]] EXCEPT !.ref_count_ = @ + 1] \in DataRecord
    <3>1. data[data_[other]] \in DataRecord /\ data[data_[other]].ref_count_ + 1 \in Nat
      BY <2>1 DEF DataRecord
    <3> QED
      BY <3>1 DEF DataRecord
  <2>3. more = [data EXCEPT ![data_[other]] = [data[data_[other]] EXCEPT !.ref_count_ = @ + 1]]
    BY <2>1 DEF V!Retained
  <2> QED
    BY <2>1, <2>2, <2>3
<1> HIDE DEF more
<1>4. \A q \in DOMAIN data' : data'[q].storage_ = more[q].storage_
  <2>1. CASE more[data_[v]].ref_count_ = 1
    BY <1>1, <2>1 DEF V!Released
  <2>2. CASE more[data_[v]].ref_count_ # 1
    <3> DEFINE x == [more[data_[v]] EXCEPT !.ref_count_ = more[data_[v]].ref_count_ - 1]
    <3>1. data' = [more EXCEPT ![data_[v]] = x]
      BY <1>1, <1>3, <2>2 DEF V!Released
    <3>2. x.storage_ = more[data_[v]].storage_
      BY <1>3 DEF DataRecord
    <3> HIDE DEF x
    <3> QED
      BY <1>3, <3>1, <3>2
  <2> QED
    BY <2>1, <2>2
<1>5. \A w \in Vectors : data_'[w] \in DOMAIN data'
  BY DEF VectorInv, CountedFor
<1>6. data_'[v] = data_[other] /\ \A w \in Vectors \ {v} : data_'[w] = data_[w]
  BY <1>1
<1> QED
  BY <1>2, <1>4, <1>5, <1>6, BecomesContents

LEMMA MoveContents ==
  ASSUME V!VectorAssumption, VectorInv, NEW v \in Vectors, NEW other \in Vectors, V!MoveAssign(v,
         other)
  PROVE  V!C!Move(v, other)
<1> DEFINE rest == V!Released(data, data_[v])
<1>1. /\ v # other /\ data' = V!New(rest, V!Fresh(rest), V!NewData)
      /\ data_' = [data_ EXCEPT ![v] = data_[other], ![other] = V!Fresh(rest)]
      /\ data_ \in [Vectors -> V!Addresses] /\ V!NewData.storage_ = <<>>
      /\ Vectors \in SUBSET Vectors /\ Vectors \ {v} \in SUBSET Vectors
  BY DEF V!MoveAssign, V!NewData, VectorInv, CountedFor
<1>2. CountedFor(data_, rest, Vectors \ {v})
  BY <1>1, ReleaseCounts, Zenon DEF VectorInv
<1>3. \A w \in Vectors \ {v} : rest[data_[w]].storage_ = data[data_[w]].storage_
  BY RestKeeps
<1> HIDE DEF rest
<1>4. V!Fresh(rest) \notin DOMAIN rest
  BY <1>1, <1>2, FreshThere
<1>5. \A w \in Vectors \ {v} : data'[data_[w]].storage_ = data[data_[w]].storage_
  <2>1. \A w \in Vectors \ {v} : data_[w] \in DOMAIN rest
    BY <1>2 DEF CountedFor
  <2> QED
    BY <1>1, <1>3, <1>4, <2>1 DEF V!New
<1>6. /\ data_'[v] = data_[other] /\ data_'[other] = V!Fresh(rest)
      /\ \A w \in Vectors \ {v, other} : data_'[w] = data_[w]
  BY <1>1
<1>7. data'[V!Fresh(rest)].storage_ = <<>>
  BY <1>1 DEF V!New
<1>8. \A w \in Vectors : V!Contents'[w] = IF w = other THEN <<>>
                                        ELSE IF w = v THEN V!Contents[other] ELSE V!Contents[w]
  BY <1>1, <1>5, <1>6, <1>7 DEF V!Contents, V!Strings
<1> QED
  BY <1>1, <1>8, Zenon DEF V!C!Move, V!Contents

(* Every call is the call of the same name on a vector of one's own: with   *)
(* any number of vectors no write is seen through another vector, whatever  *)
(* storage they share.                                                      *)
THEOREM VectorsImplemented == Spec => COWImplements
<1> V!VectorAssumption
  BY ContainersAssumption
<1>1. VectorInv /\ VectorInv' => V!COWStep
  <2> SUFFICES ASSUME VectorInv, VectorInv', NEW v \in Vectors
               PROVE  /\ \A n \in 0 .. StringBound : V!Resize(v, n) => V!C!Resize(v, n, Default)
                      /\ \A x \in Values :
                           /\ V!PushBack(v, x) => V!C!PushBack(v, x)
                           /\ \A at \in 0 .. StringBound - 1 :
                                V!Set(v, at, x) => V!C!Set(v, at + 1, x)
                      /\ V!Construct(v) => V!C!Clear(v)
                      /\ \A other \in Vectors :
                           /\ V!CopyConstruct(v, other) \/ V!CopyAssign(v, other) => V!C!Copy(v, other)
                           /\ V!MoveAssign(v, other) => V!C!Move(v, other)
    BY DEF V!COWStep
  <2>1. \A w \in Vectors :
          V!Contents[w] = V!Strings(w) /\ V!Strings(w) = data[data_[w]].storage_
    BY DEF V!Contents, V!Strings
  <2>2. ASSUME NEW n \in 0 .. StringBound, V!Resize(v, n) PROVE V!C!Resize(v, n, Default)
    BY <2>1, <2>2, DetachContents DEF V!Resize, V!C!Resize
  <2>3. ASSUME NEW x \in Values, V!PushBack(v, x) PROVE V!C!PushBack(v, x)
    BY <2>1, <2>3, DetachContents DEF V!PushBack, V!C!PushBack
  <2>4. ASSUME NEW x \in Values, NEW at \in 0 .. StringBound - 1, V!Set(v, at, x)
        PROVE  V!C!Set(v, at + 1, x)
    <3>1. at + 1 \in 1 .. Len(V!Contents[v])
      <4>1. V!Strings(v) \in Seq(Values)
        BY DEF VectorInv, CountedFor, DataRecord, V!Strings
      <4> QED
        BY <2>1, <2>4, <4>1 DEF V!Set, V!VectorAssumption
    <3> QED
      BY <2>1, <2>4, <3>1, DetachContents DEF V!Set, V!C!Set
  <2>5. V!Construct(v) => V!C!Clear(v)
    BY ConstructContents DEF V!C!Clear
  <2>6. ASSUME NEW other \in Vectors, V!CopyConstruct(v, other) \/ V!CopyAssign(v, other)
        PROVE  V!C!Copy(v, other)
    BY <2>1, <2>6, CopyConstructContents, CopyAssignContents DEF V!C!Copy
  <2> QED
    BY <2>2, <2>3, <2>4, <2>5, <2>6, MoveContents
<1>2. V!Init => V!C!Init
  <2> SUFFICES ASSUME V!Init PROVE V!C!Init
    OBVIOUS
  <2>1. \A v \in Vectors : data[data_[v]] = V!NewData
    BY Zenon DEF V!Init
  <2> QED
    BY <2>1 DEF V!C!Init, V!Contents, V!Strings, V!NewData
<1>3. VectorInv /\ VectorInv' => (using = "COWVector" => V!COWStep)
  BY <1>1
<1>4. Init => V!C!Init
  BY <1>2 DEF Init
<1> QED
  BY <1>3, <1>4, VectorInvKept, PTL DEF Spec, COWImplements

-----------------------------------------------------------------------------
(* Induction over the natural numbers, as a fact about sets.                *)
LEMMA NatSetInduction ==
  ASSUME NEW Held, 0 \in Held, \A n \in Nat : n \in Held => n + 1 \in Held
  PROVE  Nat \subseteq Held
<1> DEFINE T == Nat \ Held
           R == {ss \in Nat \X Nat : ss[1] < ss[2]}
<1>1. SUFFICES ASSUME T # {} PROVE FALSE
  OBVIOUS
<1>2. IsWellFoundedOn(R, Nat)
  <2>1. OpToRel(<, Nat) = R
    BY DEF OpToRel
  <2> QED
    BY <2>1, NatLessThanWellFounded, Zenon
<1>3. PICK x \in T : \A y \in T : ~(<<y, x>> \in R)
  <2> HIDE DEF R
  <2> T \subseteq Nat
    OBVIOUS
  <2> HIDE DEF T
  <2> QED
    BY <1>1, <1>2, WFMin, Zenon
<1>4. x \in Nat /\ x \notin Held
  OBVIOUS
<1>5. x # 0 /\ x - 1 \in Nat
  BY <1>4
<1>6. <<x - 1, x>> \in R
  BY <1>4, <1>5
<1>7. x - 1 \in Held
  <2> HIDE DEF R
  <2> QED
    BY <1>3, <1>5, <1>6
<1> QED
  BY <1>4, <1>5, <1>7

IsWalk(l, w, m) == w = [n \in 0 .. m |-> IF n = 0 THEN <<>> ELSE L!OneMore(l, w[n - 1])]

LEMMA WalkExists == \A l : \A m \in Nat : \E w : IsWalk(l, w, m)
<1> SUFFICES ASSUME NEW l, NEW m \in Nat PROVE \E w : IsWalk(l, w, m)
  OBVIOUS
<1> DEFINE Held == {k \in Nat : \E w : IsWalk(l, w, k)}
<1>1. 0 \in Held
  <2> DEFINE w == [n \in 0 .. 0 |-> <<>>]
  <2>1. w = [n \in 0 .. 0 |-> IF n = 0 THEN <<>> ELSE L!OneMore(l, w[n - 1])]
    OBVIOUS
  <2> QED
    BY <2>1, Zenon DEF IsWalk
<1>2. ASSUME NEW k \in Nat, k \in Held PROVE k + 1 \in Held
  <2>1. PICK w : IsWalk(l, w, k)
    BY <1>2
  <2> DEFINE v == [n \in 0 .. k + 1 |-> IF n <= k THEN w[n] ELSE L!OneMore(l, w[k])]
  <2>2. ASSUME NEW n \in 0 .. k + 1
        PROVE  v[n] = IF n = 0 THEN <<>> ELSE L!OneMore(l, v[n - 1])
    <3>1. CASE n = 0
      BY <2>1, <3>1 DEF IsWalk
    <3>2. CASE n \in 1 .. k
      <4>1. w[n] = L!OneMore(l, w[n - 1])
        BY <2>1, <3>2 DEF IsWalk
      <4> QED
        BY <3>2, <4>1
    <3>3. CASE n = k + 1
      BY <3>3
    <3> QED
      BY <3>1, <3>2, <3>3
  <2>3. v = [n \in 0 .. k + 1 |-> v[n]]
    OBVIOUS
  <2> HIDE DEF v
  <2> QED
    BY <2>2, <2>3 DEF IsWalk
<1>3. Nat \subseteq Held
  <2> HIDE DEF Held
  <2> QED
    BY <1>1, <1>2, NatSetInduction
<1> QED
  BY <1>3

(* The hook at place i of the ring of l that s stands for.                  *)
At(l, s, i) == IF i \in 1 .. Len(s) THEN s[i] ELSE l

LEMMA WalkIs ==
  ASSUME NEW l \in Lists, NEW s \in Seq(Elements), L!ListAssumption,
         \A i \in 0 .. Len(s) : next_[At(l, s, i)] = At(l, s, i + 1),
         L!Cardinality(L!Hooks) \in Nat, Len(s) <= L!Cardinality(L!Hooks)
  PROVE  L!Walk(l) = s
<1> DEFINE m == L!Cardinality(L!Hooks)
           w == CHOOSE f : IsWalk(l, f, m)
           part(n) == SubSeq(s, 1, IF n <= Len(s) THEN n ELSE Len(s))
<1>1. L!Walk(l) = w[m]
  BY DEF L!Walk, IsWalk
<1>2. IsWalk(l, w, m)
  BY WalkExists, Zenon
<1>a. m \in Nat /\ Len(s) \in Nat /\ Len(s) <= m
  OBVIOUS
<1> HIDE DEF w, m
<1>3. \A n \in 0 .. Len(s) : part(n) \in Seq(Elements) /\ Len(part(n)) = n
                             /\ \A i \in 1 .. n : part(n)[i] = s[i]
  <2> SUFFICES ASSUME NEW n \in 0 .. Len(s)
               PROVE  part(n) \in Seq(Elements) /\ Len(part(n)) = n
                      /\ \A i \in 1 .. n : part(n)[i] = s[i]
    OBVIOUS
  <2>1. part(n) = SubSeq(s, 1, n)
    OBVIOUS
  <2>2. \A i \in 1 .. n : s[i] \in Elements
    OBVIOUS
  <2> HIDE DEF part
  <2> QED
    BY <2>1, <2>2, SubSeqProperties
<1>4. part(0) = <<>> /\ part(Len(s)) = s
  <2>1. Len(s) \in Nat
    OBVIOUS
  <2>2. part(Len(s)) = s
    <3>1. Len(part(Len(s))) = Len(s) /\ part(Len(s)) \in Seq(Elements)
          /\ \A i \in 1 .. Len(s) : part(Len(s))[i] = s[i]
      BY <1>3, <2>1
    <3> HIDE DEF part
    <3> QED
      BY <3>1, SeqEqual
  <2>3. part(0) = <<>>
    <3>1. part(0) \in Seq(Elements) /\ Len(part(0)) = 0
      BY <1>3, <2>1
    <3> HIDE DEF part
    <3> QED
      BY <3>1, EmptySeq
  <2> QED
    BY <2>2, <2>3
<1>5. ASSUME NEW n \in 0 .. Len(s)
      PROVE  L!OneMore(l, part(n)) = IF n < Len(s) THEN part(n + 1) ELSE s
  <2> DEFINE p == part(n)
  <2>1. p \in Seq(Elements) /\ Len(p) = n /\ \A i \in 1 .. n : p[i] = s[i]
    BY <1>3
  <2>2. (IF p = <<>> THEN l ELSE p[Len(p)]) = At(l, s, n)
    BY <2>1 DEF At
  <2>3. next_[IF p = <<>> THEN l ELSE p[Len(p)]] = At(l, s, n + 1)
    BY <2>2, Zenon
  <2>4. CASE n < Len(s)
    <3>1. n + 1 \in 0 .. Len(s) /\ At(l, s, n + 1) = s[n + 1] /\ s[n + 1] \in Elements
      BY <2>4 DEF At
    <3>2. s[n + 1] \notin {l, nullptr}
      BY <3>1 DEF L!ListAssumption
    <3>3. L!OneMore(l, p) = Append(p, s[n + 1])
      <4> HIDE DEF p
      <4> QED
        BY <2>3, <3>1, <3>2 DEF L!OneMore
    <3>4. part(n + 1) \in Seq(Elements) /\ Len(part(n + 1)) = n + 1
          /\ \A i \in 1 .. n + 1 : part(n + 1)[i] = s[i]
      BY <1>3, <3>1
    <3>5. Append(p, s[n + 1]) = part(n + 1)
      <4> DEFINE q == Append(p, s[n + 1])
                 r == part(n + 1)
      <4> HIDE DEF part
      <4>1. /\ q \in Seq(Elements) /\ Len(q) = n + 1
            /\ \A i \in 1 .. n + 1 : q[i] = IF i <= n THEN p[i] ELSE s[n + 1]
        <5> HIDE DEF p
        <5> QED
          BY <2>1, <3>1, AppendProperties
      <4>2. r \in Seq(Elements) /\ Len(r) = n + 1 /\ \A i \in 1 .. n + 1 : r[i] = s[i]
        BY <3>4
      <4>3. \A i \in 1 .. n + 1 : q[i] = r[i]
        <5> HIDE DEF p, q, r
        <5> QED
          BY <2>1, <4>1, <4>2
      <4>4. Len(q) = Len(r)
        BY <4>1, <4>2
      <4>5. \A i \in 1 .. Len(q) : q[i] = r[i]
        BY <4>1, <4>3
      <4> HIDE DEF q, r
      <4>6. q = r
        BY <4>1, <4>2, <4>4, <4>5, SeqEqual
      <4> QED
        BY <4>6 DEF q, r
    <3> QED
      BY <2>4, <3>3, <3>5, Zenon
  <2>5. CASE n = Len(s)
    <3>1. At(l, s, n + 1) = l
      BY <2>5 DEF At
    <3>2. L!OneMore(l, p) = p
      <4> HIDE DEF p
      <4> QED
        BY <2>3, <3>1 DEF L!OneMore
    <3> QED
      BY <1>4, <2>5, <3>2
  <2> QED
    BY <2>4, <2>5
<1>b. ASSUME NEW n \in Nat, n >= Len(s) PROVE part(n) = s
  <2>1. (IF n <= Len(s) THEN n ELSE Len(s)) = Len(s)
    BY <1>b, <1>a
  <2>2. part(n) = part(Len(s))
    BY <2>1
  <2> HIDE DEF part
  <2> QED
    BY <1>4, <2>2
<1> HIDE DEF part
<1> DEFINE Held == {n \in Nat : n <= m => w[n] = part(n)}
<1>6. 0 \in Held
  BY <1>2, <1>4, <1>a DEF IsWalk
<1>7. ASSUME NEW n \in Nat, n \in Held PROVE n + 1 \in Held
  <2> SUFFICES ASSUME n + 1 <= m PROVE w[n + 1] = part(n + 1)
    OBVIOUS
  <2>1. n \in 0 .. m /\ n + 1 \in 0 .. m /\ w[n] = part(n)
    BY <1>7, <1>a
  <2>2. w[n + 1] = L!OneMore(l, w[n])
    <3> HIDE DEF w, m
    <3> QED
      BY <1>2, <2>1 DEF IsWalk
  <2>3. CASE n < Len(s)
    <3>1. n \in 0 .. Len(s)
      BY <2>3
    <3> QED
      BY <1>5, <2>1, <2>2, <2>3, <3>1
  <2>4. CASE ~(n < Len(s))
    <3>1. part(n) = s /\ part(n + 1) = s
      BY <1>b, <2>4, <1>a
    <3>2. L!OneMore(l, s) = s
      BY <1>4, <1>5, <1>a
    <3> QED
      BY <2>1, <2>2, <3>1, <3>2
  <2> QED
    BY <2>3, <2>4
<1>8. Nat \subseteq Held
  <2> HIDE DEF Held
  <2> QED
    BY <1>6, <1>7, NatSetInduction
<1>9. w[m] = part(m)
  BY <1>8, <1>a
<1>10. part(m) = s
  BY <1>b, <1>a
<1> QED
  BY <1>1, <1>9, <1>10

-----------------------------------------------------------------------------
Ends == L!Hooks \union {nullptr}

(* In the hooks nx and pv, q are the elements of the lists in order.        *)
Joined(q, nx, pv) ==
    \A l \in Lists : \A i \in 0 .. Len(q[l]) :
        /\ nx[At(l, q[l], i)] = At(l, q[l], i + 1)
        /\ pv[At(l, q[l], i + 1)] = At(l, q[l], i)

Apart(q) ==
    \A l, m \in Lists : \A i \in 1 .. Len(q[l]), j \in 1 .. Len(q[m]) :
        q[l][i] = q[m][j] => l = m /\ i = j

Loose(q, nx, pv) ==
    \A e \in Elements :
        (\A l \in Lists : \A i \in 1 .. Len(q[l]) : q[l][i] # e) => nx[e] = nullptr /\ pv[e] = nullptr

Linked(q, nx, pv) ==
    /\ q \in [Lists -> Seq(Elements)]
    /\ nx \in [L!Hooks -> Ends] /\ pv \in [L!Hooks -> Ends]
    /\ Joined(q, nx, pv) /\ Apart(q) /\ Loose(q, nx, pv)

LEMMA ListConstants ==
  /\ Lists \intersect Elements = {}
  /\ L!Hooks = Lists \union Elements /\ nullptr \notin L!Hooks
  /\ Lists \subseteq L!Hooks /\ Elements \subseteq L!Hooks
BY ContainersAssumption DEF L!ListAssumption, L!Hooks

(* A place of a ring.                                                       *)
LEMMA AtIs ==
  ASSUME NEW l \in Lists, NEW s \in Seq(Elements), NEW i \in Nat
  PROVE  /\ i \in 1 .. Len(s) => At(l, s, i) = s[i] /\ s[i] \in Elements
         /\ i \notin 1 .. Len(s) => At(l, s, i) = l
         /\ At(l, s, i) \in L!Hooks /\ At(l, s, i) # nullptr
         /\ At(l, s, i) \in Elements <=> i \in 1 .. Len(s)
<1>1. i \in 1 .. Len(s) => s[i] \in Elements
  OBVIOUS
<1> QED
  BY <1>1, ListConstants DEF At

(* The places of the rings are hooks of their own: once around each.        *)
LEMMA PlacesApart ==
  ASSUME NEW q \in [Lists -> Seq(Elements)], Apart(q),
         NEW l \in Lists, NEW m \in Lists, NEW i \in Nat, NEW j \in Nat,
         At(l, q[l], i) = At(m, q[m], j)
  PROVE  /\ l = m
         /\ i = j \/ (i \notin 1 .. Len(q[l]) /\ j \notin 1 .. Len(q[l]))
<1> DEFINE x == At(l, q[l], i)
           y == At(m, q[m], j)
<1>1. /\ q[l] \in Seq(Elements) /\ q[m] \in Seq(Elements)
      /\ Len(q[l]) \in Nat /\ Len(q[m]) \in Nat
  OBVIOUS
<1>2. /\ i \in 1 .. Len(q[l]) => x = q[l][i] /\ x \in Elements
      /\ i \notin 1 .. Len(q[l]) => x = l
  BY <1>1, AtIs
<1>3. /\ j \in 1 .. Len(q[m]) => y = q[m][j] /\ y \in Elements
      /\ j \notin 1 .. Len(q[m]) => y = m
  BY <1>1, AtIs
<1>4. x = y /\ l \notin Elements /\ m \notin Elements
  BY ListConstants
<1> HIDE DEF x, y
<1>5. CASE i \in 1 .. Len(q[l])
  <2>1. j \in 1 .. Len(q[m]) /\ q[l][i] = q[m][j]
    BY <1>2, <1>3, <1>4, <1>5
  <2>2. \A a \in 1 .. Len(q[l]), b \in 1 .. Len(q[m]) : q[l][a] = q[m][b] => l = m /\ a = b
    BY DEF Apart
  <2>3. q[l][i] = q[m][j] => l = m /\ i = j
    BY <1>5, <2>1, <2>2
  <2> QED
    BY <2>1, <2>3
<1>6. CASE i \notin 1 .. Len(q[l])
  <2>1. j \notin 1 .. Len(q[m]) /\ l = m
    BY <1>2, <1>3, <1>4, <1>6
  <2> QED
    BY <1>1, <1>6, <2>1
<1> QED
  BY <1>5, <1>6

LEMMA PlacesOnce ==
  ASSUME NEW q \in [Lists -> Seq(Elements)], Apart(q)
  PROVE  \A l, m \in Lists : \A i \in 0 .. Len(q[l]), j \in 0 .. Len(q[m]) :
           /\ At(l, q[l], i) = At(m, q[m], j) => l = m /\ i = j
           /\ At(l, q[l], i + 1) = At(m, q[m], j + 1) => l = m /\ i = j
<1> SUFFICES ASSUME NEW l \in Lists, NEW m \in Lists,
                    NEW i \in 0 .. Len(q[l]), NEW j \in 0 .. Len(q[m])
             PROVE  /\ At(l, q[l], i) = At(m, q[m], j) => l = m /\ i = j
                    /\ At(l, q[l], i + 1) = At(m, q[m], j + 1) => l = m /\ i = j
  OBVIOUS
<1>1. Len(q[l]) \in Nat /\ Len(q[m]) \in Nat /\ i \in Nat /\ j \in Nat
  OBVIOUS
<1>2. /\ i <= Len(q[l]) /\ j <= Len(q[m]) /\ i + 1 \in Nat /\ j + 1 \in Nat
      /\ i + 1 \in 1 .. Len(q[l]) + 1 /\ j + 1 \in 1 .. Len(q[m]) + 1
  BY <1>1
<1>3. ASSUME At(l, q[l], i) = At(m, q[m], j) PROVE l = m /\ i = j
  <2>1. l = m /\ (i = j \/ (i \notin 1 .. Len(q[l]) /\ j \notin 1 .. Len(q[l])))
    BY <1>1, <1>3, PlacesApart
  <2> QED
    BY <1>1, <1>2, <2>1
<1>4. At(l, q[l], i + 1) = At(m, q[m], j + 1) => l = m /\ i + 1 = j + 1
  <2> DEFINE a == i + 1
             b == j + 1
  <2>1. a \in Nat /\ b \in Nat /\ a \in 1 .. Len(q[l]) + 1 /\ b \in 1 .. Len(q[m]) + 1
    BY <1>2
  <2> HIDE DEF a, b
  <2>2. ASSUME At(l, q[l], a) = At(m, q[m], b) PROVE l = m /\ a = b
    <3>1. l = m /\ (a = b \/ (a \notin 1 .. Len(q[l]) /\ b \notin 1 .. Len(q[l])))
      BY <2>1, <2>2, PlacesApart
    <3> QED
      BY <1>1, <2>1, <3>1
  <2> QED
    BY <2>2 DEF a, b
<1> QED
  BY <1>1, <1>3, <1>4

-----------------------------------------------------------------------------
(* What a place has next to it.                                             *)
LEMMA Neighbours ==
  ASSUME NEW q, NEW nx, NEW pv, Linked(q, nx, pv), NEW l \in Lists, NEW i \in 0 .. Len(q[l])
  PROVE  /\ nx[At(l, q[l], i)] = At(l, q[l], i + 1) /\ pv[At(l, q[l], i + 1)] = At(l, q[l], i)
         /\ At(l, q[l], i) \in L!Hooks /\ At(l, q[l], i + 1) \in L!Hooks
         /\ i \in Nat /\ i + 1 \in Nat /\ q[l] \in Seq(Elements) /\ Len(q[l]) \in Nat
<1>1. i \in Nat /\ i + 1 \in Nat /\ q[l] \in Seq(Elements) /\ Len(q[l]) \in Nat
  BY DEF Linked
<1> QED
  BY <1>1, AtIs DEF Linked, Joined

(* An element that is not linked is in no ring.                             *)
LEMMA NotThere ==
  ASSUME NEW q, NEW nx, NEW pv, Linked(q, nx, pv), NEW e \in Elements,
         nx[e] = nullptr \/ pv[e] = nullptr
  PROVE  \A m \in Lists : \A j \in Nat : At(m, q[m], j) # e
<1> SUFFICES ASSUME NEW m \in Lists, NEW j \in Nat, At(m, q[m], j) = e PROVE FALSE
  OBVIOUS
<1>1. q[m] \in Seq(Elements) /\ Len(q[m]) \in Nat
  BY DEF Linked
<1>2. j \in 1 .. Len(q[m])
  BY <1>1, AtIs
<1>3. j \in 0 .. Len(q[m]) /\ j - 1 \in 0 .. Len(q[m]) /\ (j - 1) + 1 = j
  BY <1>1, <1>2
<1>4. \A k \in 0 .. Len(q[m]) :
        nx[At(m, q[m], k)] \in L!Hooks /\ pv[At(m, q[m], k + 1)] \in L!Hooks
  BY Neighbours
<1>5. nx[At(m, q[m], j)] \in L!Hooks /\ pv[At(m, q[m], (j - 1) + 1)] \in L!Hooks
  BY <1>3, <1>4
<1> QED
  BY <1>3, <1>4, <1>5, ListConstants

IsInserted(t, s, i, e) ==
    /\ t \in Seq(Elements) /\ Len(t) = Len(s) + 1
    /\ \A j \in 1 .. Len(s) + 1 :
          t[j] = IF j <= i THEN s[j] ELSE IF j = i + 1 THEN e ELSE s[j - 1]

LEMMA InsertedPlaces ==
  ASSUME NEW l \in Lists, NEW s \in Seq(Elements), NEW e \in Elements, NEW i \in 0 .. Len(s),
         NEW t, IsInserted(t, s, i, e)
  PROVE  \A j \in 0 .. Len(s) + 2 :
           At(l, t, j) = IF j <= i THEN At(l, s, j) ELSE IF j = i + 1 THEN e ELSE At(l, s, j - 1)
<1>1. Len(s) \in Nat /\ Len(t) = Len(s) + 1
  BY DEF IsInserted
<1> SUFFICES ASSUME NEW j \in 0 .. Len(s) + 2
             PROVE At(l, t, j) = IF j <= i THEN At(l, s, j)
                                 ELSE IF j = i + 1 THEN e ELSE At(l, s, j - 1)
  OBVIOUS
<1>2. CASE j \in 1 .. Len(s) + 1
  <2>1. At(l, t, j) = t[j]
    BY <1>1, <1>2 DEF At
  <2>2. t[j] = IF j <= i THEN s[j] ELSE IF j = i + 1 THEN e ELSE s[j - 1]
    BY <1>2 DEF IsInserted
  <2>3. j <= i => At(l, s, j) = s[j]
    BY <1>1, <1>2 DEF At
  <2>4. j > i + 1 => At(l, s, j - 1) = s[j - 1]
    BY <1>1, <1>2 DEF At
  <2> QED
    BY <1>1, <2>1, <2>2, <2>3, <2>4
<1>3. CASE j \notin 1 .. Len(s) + 1
  <2>1. At(l, t, j) = l
    BY <1>1, <1>3 DEF At
  <2>2. j = 0 \/ j = Len(s) + 2
    BY <1>1, <1>3
  <2>3. At(l, s, 0) = l /\ At(l, s, Len(s) + 1) = l
    BY <1>1 DEF At
  <2>4. j = Len(s) + 2 => j - 1 = Len(s) + 1 /\ ~(j <= i) /\ j # i + 1
    BY <1>1
  <2> QED
    BY <1>1, <2>1, <2>2, <2>3, <2>4
<1> QED
  BY <1>2, <1>3

LEMMA Inserted ==
  ASSUME NEW q, NEW nx, NEW pv, Linked(q, nx, pv), NEW l \in Lists, NEW i \in 0 .. Len(q[l]),
         NEW e \in Elements, nx[e] = nullptr \/ pv[e] = nullptr,
         NEW t, IsInserted(t, q[l], i, e), NEW h, h = At(l, q[l], i + 1)
  PROVE  Linked([q EXCEPT ![l] = t], [nx EXCEPT ![e] = h, ![pv[h]] = e],
                [pv EXCEPT ![e] = pv[h], ![h] = e])
<1> DEFINE was(m, j) == At(m, q[m], j)
           p == [q EXCEPT ![l] = t]
           now(m, j) == At(m, p[m], j)
           n == Len(q[l])
           g == was(l, i)
           x == [nx EXCEPT ![e] = h, ![pv[h]] = e]
           y == [pv EXCEPT ![e] = pv[h], ![h] = e]
<1>1. /\ q \in [Lists -> Seq(Elements)] /\ nx \in [L!Hooks -> Ends] /\ pv \in [L!Hooks -> Ends]
      /\ Joined(q, nx, pv) /\ Apart(q) /\ Loose(q, nx, pv)
  BY DEF Linked
<1>2. /\ n \in Nat /\ i \in Nat /\ i <= n /\ i + 1 \in Nat
      /\ g \in L!Hooks /\ h \in L!Hooks /\ pv[h] = g /\ nx[g] = h /\ h = was(l, i + 1)
  BY Neighbours
<1>3. \A m \in Lists : \A j \in Nat : was(m, j) # e
  BY NotThere
<1>4. /\ p \in [Lists -> Seq(Elements)] /\ p[l] = t /\ Len(p[l]) = n + 1
      /\ \A m \in Lists : m # l => p[m] = q[m]
  BY <1>1 DEF IsInserted
<1>5. \A j \in 0 .. n + 2 : now(l, j) = IF j <= i THEN was(l, j) ELSE IF j = i + 1 THEN e ELSE was(l, j - 1)
  BY <1>1, <1>4, InsertedPlaces
<1>6. \A m \in Lists : m # l => Len(p[m]) = Len(q[m]) /\ \A j \in Nat : now(m, j) = was(m, j)
  BY <1>4
<1>7. e \in L!Hooks /\ e # g /\ e # h
  BY <1>2, <1>3, ListConstants
<1>8. /\ x[e] = h /\ x[g] = e /\ y[e] = g /\ y[h] = e
      /\ \A z \in L!Hooks : z \notin {e, g} => x[z] = nx[z]
      /\ \A z \in L!Hooks : z \notin {e, h} => y[z] = pv[z]
      /\ x \in [L!Hooks -> Ends] /\ y \in [L!Hooks -> Ends]
  <2>1. e \in Ends /\ g \in Ends /\ h \in Ends
    BY <1>2, <1>7 DEF Ends
  <2> HIDE DEF g
  <2> QED
    BY <1>1, <1>2, <1>7, <2>1, Zenon
<1>9. \A m \in Lists : \A j \in 0 .. Len(q[m]) :
        /\ nx[was(m, j)] = was(m, j + 1) /\ pv[was(m, j + 1)] = was(m, j)
        /\ was(m, j) \in L!Hooks /\ was(m, j + 1) \in L!Hooks /\ j \in Nat /\ j + 1 \in Nat
  BY Neighbours
<1>10. \A m \in Lists : \A j \in 0 .. Len(q[m]) :
         /\ was(m, j) = g => m = l /\ j = i
         /\ was(m, j + 1) = h => m = l /\ j = i
  BY <1>1, <1>2, PlacesOnce
<1> HIDE DEF was, now, p, x, y, n, g
<1>12. Joined(p, x, y)
  <2> SUFFICES ASSUME NEW m \in Lists, NEW j \in 0 .. Len(p[m])
               PROVE  x[now(m, j)] = now(m, j + 1) /\ y[now(m, j + 1)] = now(m, j)
    BY DEF Joined, now
  <2>1. CASE m # l
    <3>1. j \in 0 .. Len(q[m]) /\ now(m, j) = was(m, j) /\ now(m, j + 1) = was(m, j + 1)
      BY <1>1, <1>6, <1>9, <2>1
    <3>2. was(m, j) \notin {e, g} /\ was(m, j + 1) \notin {e, h}
      BY <1>3, <1>9, <1>10, <2>1, <3>1
    <3> QED
      BY <1>8, <1>9, <3>1, <3>2
  <2>2. CASE m = l /\ j < i
    <3>1. j \in 0 .. Len(q[l]) /\ now(m, j) = was(l, j) /\ now(m, j + 1) = was(l, j + 1)
      BY <1>2, <1>4, <1>5, <2>2 DEF n
    <3>2. was(l, j) \notin {e, g} /\ was(l, j + 1) \notin {e, h}
      BY <1>2, <1>3, <1>9, <1>10, <2>2, <3>1
    <3> QED
      BY <1>8, <1>9, <3>1, <3>2
  <2>3. CASE m = l /\ j = i
    <3>1. now(m, j) = g /\ now(m, j + 1) = e
      BY <1>2, <1>5, <2>3 DEF g
    <3> QED
      BY <1>8, <3>1
  <2>4. CASE m = l /\ j = i + 1
    <3>1. now(m, j) = e /\ now(m, j + 1) = h
      BY <1>2, <1>5, <2>4
    <3> QED
      BY <1>8, <3>1
  <2>5. CASE m = l /\ j > i + 1
    <3>1. j - 1 \in 0 .. Len(q[l]) /\ j - 1 # i /\ (j - 1) + 1 = j
          /\ now(m, j) = was(l, j - 1) /\ now(m, j + 1) = was(l, (j - 1) + 1)
      BY <1>2, <1>4, <1>5, <2>5 DEF n
    <3>2. was(l, j - 1) \notin {e, g} /\ was(l, (j - 1) + 1) \notin {e, h}
      BY <1>3, <1>9, <1>10, <3>1
    <3> QED
      BY <1>8, <1>9, <3>1, <3>2
  <2>6. j < i \/ j = i \/ j = i + 1 \/ j > i + 1
    BY <1>2
  <2> QED
    BY <2>1, <2>2, <2>3, <2>4, <2>5, <2>6
<1>13. \A j \in 1 .. n + 1 : t[j] = IF j <= i THEN q[l][j] ELSE IF j = i + 1 THEN e ELSE q[l][j - 1]
  BY DEF IsInserted, n
<1>14. \A m \in Lists : \A j \in 1 .. Len(q[m]) : q[m][j] # e
  <2> SUFFICES ASSUME NEW m \in Lists, NEW j \in 1 .. Len(q[m]) PROVE q[m][j] # e
    OBVIOUS
  <2>1. j \in Nat /\ was(m, j) = q[m][j]
    BY <1>1 DEF was, At
  <2> QED
    BY <2>1, <1>3
<1>15. Apart(p)
  (* Where an element of p was before, but for e.                           *)
  <2> DEFINE old(m, j) == IF m = l /\ j > i THEN j - 1 ELSE j
  <2>1. ASSUME NEW m \in Lists, NEW j \in 1 .. Len(p[m]), p[m][j] # e
        PROVE  /\ old(m, j) \in 1 .. Len(q[m]) /\ p[m][j] = q[m][old(m, j)]
               /\ m = l => j # i + 1
    <3>1. CASE m = l
      <4>1. j \in 1 .. n + 1 /\ p[m][j] = t[j]
        BY <1>4, <3>1
      <4>2. j # i + 1
        BY <1>2, <1>13, <2>1, <4>1
      <4> QED
        BY <1>2, <1>13, <3>1, <4>1, <4>2 DEF n
    <3>2. CASE m # l
      BY <1>4, <3>2
    <3> QED
      BY <3>1, <3>2
  <2>2. ASSUME NEW m \in Lists, NEW j \in 1 .. Len(p[m]), p[m][j] = e
        PROVE  m = l /\ j = i + 1
    <3>1. m = l
      BY <1>4, <1>14, <2>2
    <3>2. j \in 1 .. n + 1 /\ t[j] = e
      BY <1>4, <2>2, <3>1
    <3>3. j <= i => j \in 1 .. Len(q[l])
      BY <1>2, <3>2 DEF n
    <3>4. j > i + 1 => j - 1 \in 1 .. Len(q[l])
      BY <1>2, <3>2 DEF n
    <3> QED
      BY <1>2, <1>13, <1>14, <3>1, <3>2, <3>3, <3>4
  <2> SUFFICES ASSUME NEW m \in Lists, NEW k \in Lists, NEW j \in 1 .. Len(p[m]),
                      NEW c \in 1 .. Len(p[k]), p[m][j] = p[k][c]
               PROVE  m = k /\ j = c
    BY Zenon DEF Apart
  <2>3. CASE p[m][j] = e
    BY <2>2, <2>3, Zenon
  <2>4. CASE p[m][j] # e
    <3>1. /\ old(m, j) \in 1 .. Len(q[m]) /\ p[m][j] = q[m][old(m, j)] /\ (m = l => j # i + 1)
          /\ old(k, c) \in 1 .. Len(q[k]) /\ p[k][c] = q[k][old(k, c)] /\ (k = l => c # i + 1)
      BY <2>1, <2>4
    <3>2. m = k /\ old(m, j) = old(k, c)
      <4>1. \A a \in 1 .. Len(q[m]), b \in 1 .. Len(q[k]) : q[m][a] = q[k][b] => m = k /\ a = b
        BY <1>1, Zenon DEF Apart
      <4> HIDE DEF old
      <4> QED
        BY <3>1, <4>1, Zenon
    <3>3. j \in Int /\ c \in Int /\ i \in Int
      BY <1>2
    <3> QED
      BY <3>1, <3>2, <3>3
  <2> QED
    BY <2>3, <2>4
<1>16. Loose(p, x, y)
  <2> SUFFICES ASSUME NEW z \in Elements,
                      \A m \in Lists : \A j \in 1 .. Len(p[m]) : p[m][j] # z
               PROVE  x[z] = nullptr /\ y[z] = nullptr
    BY DEF Loose
  <2>1. \A m \in Lists : \A j \in 1 .. Len(q[m]) : q[m][j] # z
    <3> SUFFICES ASSUME NEW m \in Lists, NEW j \in 1 .. Len(q[m]) PROVE q[m][j] # z
      OBVIOUS
    <3>1. CASE m # l
      BY <1>4, <3>1
    <3>2. CASE m = l /\ j <= i
      <4>1. j \in 1 .. Len(p[l]) /\ p[l][j] = q[l][j]
        BY <1>2, <1>4, <1>13, <3>2 DEF n
      <4> QED
        BY <3>2, <4>1
    <3>3. CASE m = l /\ j > i
      <4>1. j + 1 \in 1 .. Len(p[l]) /\ p[l][j + 1] = q[l][j]
        BY <1>2, <1>4, <1>13, <3>3 DEF n
      <4> QED
        BY <3>3, <4>1
    <3> QED
      BY <1>2, <3>1, <3>2, <3>3
  <2>2. z # e
    <3>1. i + 1 \in 1 .. n + 1 /\ t[i + 1] = e
      BY <1>2, <1>13
    <3> QED
      BY <1>4, <3>1
  <2>3. nx[z] = nullptr /\ pv[z] = nullptr
    BY <1>1, <2>1, Zenon DEF Loose
  <2>4. z \in L!Hooks /\ z \notin {g, h}
    <3>1. h # nullptr /\ nx[g] = h /\ pv[h] = g /\ g # nullptr
      BY <1>2, ListConstants
    <3> QED
      BY <2>3, <3>1, ListConstants
  <2> QED
    BY <1>8, <2>2, <2>3, <2>4
<1> QED
  <2>1. Linked(p, x, y)
    BY <1>4, <1>8, <1>12, <1>15, <1>16 DEF Linked
  <2> QED
    BY <2>1 DEF p, x, y

IsRemoved(t, s, i) ==
    /\ t \in Seq(Elements) /\ Len(t) = Len(s) - 1
    /\ \A j \in 1 .. Len(s) - 1 : t[j] = IF j < i THEN s[j] ELSE s[j + 1]

LEMMA RemovedPlaces ==
  ASSUME NEW l \in Lists, NEW s \in Seq(Elements), NEW i \in 1 .. Len(s),
         NEW t, IsRemoved(t, s, i)
  PROVE  \A j \in 0 .. Len(s) : At(l, t, j) = IF j < i THEN At(l, s, j) ELSE At(l, s, j + 1)
<1>1. Len(s) \in Nat /\ Len(t) = Len(s) - 1
  BY DEF IsRemoved
<1> SUFFICES ASSUME NEW j \in 0 .. Len(s)
             PROVE At(l, t, j) = IF j < i THEN At(l, s, j) ELSE At(l, s, j + 1)
  OBVIOUS
<1>2. CASE j \in 1 .. Len(s) - 1
  <2>1. At(l, t, j) = t[j]
    BY <1>1, <1>2 DEF At
  <2>2. t[j] = IF j < i THEN s[j] ELSE s[j + 1]
    BY <1>2, Zenon DEF IsRemoved
  <2>3. At(l, s, j) = s[j] /\ At(l, s, j + 1) = s[j + 1]
    BY <1>1, <1>2 DEF At
  <2> QED
    BY <2>1, <2>2, <2>3
<1>3. CASE j \notin 1 .. Len(s) - 1
  <2>1. At(l, t, j) = l
    BY <1>1, <1>3 DEF At
  <2>2. j = 0 \/ j = Len(s)
    BY <1>1, <1>3
  <2>3. At(l, s, 0) = l /\ At(l, s, Len(s) + 1) = l
    BY <1>1 DEF At
  <2> QED
    BY <1>1, <2>1, <2>2, <2>3
<1> QED
  BY <1>2, <1>3

LEMMA Removed ==
  ASSUME NEW q, NEW nx, NEW pv, Linked(q, nx, pv), NEW l \in Lists, NEW i \in 1 .. Len(q[l]),
         NEW t, IsRemoved(t, q[l], i), NEW e, e = q[l][i]
  PROVE  /\ Linked([q EXCEPT ![l] = t], [nx EXCEPT ![pv[e]] = nx[e], ![e] = nullptr],
                   [pv EXCEPT ![nx[e]] = pv[e], ![e] = nullptr])
         /\ e \in Elements /\ nx[e] # nullptr /\ pv[e] # nullptr
<1> DEFINE was(m, j) == At(m, q[m], j)
           p == [q EXCEPT ![l] = t]
           now(m, j) == At(m, p[m], j)
           n == Len(q[l])
           g == was(l, i - 1)
           h == was(l, i + 1)
           x == [nx EXCEPT ![pv[e]] = nx[e], ![e] = nullptr]
           y == [pv EXCEPT ![nx[e]] = pv[e], ![e] = nullptr]
<1>1. /\ q \in [Lists -> Seq(Elements)] /\ nx \in [L!Hooks -> Ends] /\ pv \in [L!Hooks -> Ends]
      /\ Joined(q, nx, pv) /\ Apart(q) /\ Loose(q, nx, pv)
  BY DEF Linked
<1>2. /\ n \in Nat /\ i \in Nat /\ i <= n /\ i + 1 \in Nat /\ i - 1 \in Nat
      /\ i \in 0 .. n /\ i - 1 \in 0 .. n /\ (i - 1) + 1 = i
  BY <1>1
<1>3. \A m \in Lists : \A j \in 0 .. Len(q[m]) :
        /\ nx[was(m, j)] = was(m, j + 1) /\ pv[was(m, j + 1)] = was(m, j)
        /\ was(m, j) \in L!Hooks /\ was(m, j + 1) \in L!Hooks /\ j \in Nat /\ j + 1 \in Nat
  BY Neighbours
<1>4. was(l, i) = e /\ e \in Elements
  BY <1>1, <1>2 DEF At
<1>5. /\ nx[g] = e /\ pv[e] = g /\ nx[e] = h /\ pv[h] = e /\ g \in L!Hooks /\ h \in L!Hooks
  <2> HIDE DEF was
  <2> QED
    BY <1>2, <1>3, <1>4
<1>6. /\ p \in [Lists -> Seq(Elements)] /\ p[l] = t /\ Len(p[l]) = n - 1
      /\ \A m \in Lists : m # l => p[m] = q[m]
  BY <1>1 DEF IsRemoved
<1>7. \A j \in 0 .. n : now(l, j) = IF j < i THEN was(l, j) ELSE was(l, j + 1)
  BY <1>1, <1>6, RemovedPlaces
<1>8. \A m \in Lists : m # l => Len(p[m]) = Len(q[m]) /\ \A j \in Nat : now(m, j) = was(m, j)
  BY <1>6
<1>9. \A m \in Lists : \A j \in 0 .. Len(q[m]) :
         /\ was(m, j) = e => m = l /\ j = i
         /\ was(m, j) = g => m = l /\ j = i - 1
         /\ was(m, j + 1) = e => m = l /\ j = i - 1
         /\ was(m, j + 1) = h => m = l /\ j = i
  <2>1. \A m, k \in Lists : \A j \in 0 .. Len(q[m]), c \in 0 .. Len(q[k]) :
           /\ was(m, j) = was(k, c) => m = k /\ j = c
           /\ was(m, j + 1) = was(k, c + 1) => m = k /\ j = c
    BY <1>1, PlacesOnce, Zenon
  <2>2. was(l, (i - 1) + 1) = e
    BY <1>2, <1>4
  <2> HIDE DEF was
  <2>3. \A m \in Lists : \A j \in 0 .. Len(q[m]) :
           /\ was(m, j) = was(l, i) => m = l /\ j = i
           /\ was(m, j + 1) = was(l, i + 1) => m = l /\ j = i
    BY <1>2, <2>1
  <2>4. \A m \in Lists : \A j \in 0 .. Len(q[m]) :
           /\ was(m, j) = was(l, i - 1) => m = l /\ j = i - 1
           /\ was(m, j + 1) = was(l, (i - 1) + 1) => m = l /\ j = i - 1
    <3> DEFINE c == i - 1
    <3>1. c \in 0 .. Len(q[l])
      BY <1>2
    <3> HIDE DEF c
    <3>2. \A m \in Lists : \A j \in 0 .. Len(q[m]) :
             /\ was(m, j) = was(l, c) => m = l /\ j = c
             /\ was(m, j + 1) = was(l, c + 1) => m = l /\ j = c
      BY <2>1, <3>1
    <3> QED
      BY <3>2 DEF c
  <2> HIDE DEF n
  <2> QED
    BY <1>4, <2>2, <2>3, <2>4
<1>10. e \in L!Hooks /\ e # g /\ e # h
  <2>1. was(l, i - 1) # e
    <3> HIDE DEF was
    <3> QED
      BY <1>2, <1>9
  <2>2. was(l, i + 1) # e
    <3> HIDE DEF was
    <3> QED
      BY <1>2, <1>9
  <2> QED
    BY <1>4, <2>1, <2>2, ListConstants
<1>11. /\ x[e] = nullptr /\ x[g] = h /\ y[e] = nullptr /\ y[h] = g
       /\ \A z \in L!Hooks : z \notin {e, g} => x[z] = nx[z]
       /\ \A z \in L!Hooks : z \notin {e, h} => y[z] = pv[z]
       /\ x \in [L!Hooks -> Ends] /\ y \in [L!Hooks -> Ends]
  <2>1. nullptr \in Ends /\ g \in Ends /\ h \in Ends
    BY <1>5 DEF Ends
  <2> HIDE DEF g, h
  <2> QED
    BY <1>1, <1>5, <1>10, <2>1, Zenon
<1> HIDE DEF was, now, p, x, y, n, g, h
<1>12. Joined(p, x, y)
  <2> SUFFICES ASSUME NEW m \in Lists, NEW j \in 0 .. Len(p[m])
               PROVE  x[now(m, j)] = now(m, j + 1) /\ y[now(m, j + 1)] = now(m, j)
    BY DEF Joined, now
  <2>1. CASE m # l
    <3>1. j \in 0 .. Len(q[m]) /\ now(m, j) = was(m, j) /\ now(m, j + 1) = was(m, j + 1)
      BY <1>1, <1>3, <1>8, <2>1
    <3>2. was(m, j) \notin {e, g} /\ was(m, j + 1) \notin {e, h}
      BY <1>9, <2>1, <3>1
    <3> QED
      BY <1>3, <1>11, <3>1, <3>2
  <2>2. CASE m = l /\ j < i - 1
    <3>1. j \in 0 .. Len(q[l]) /\ now(m, j) = was(l, j) /\ now(m, j + 1) = was(l, j + 1)
      BY <1>2, <1>6, <1>7, <2>2 DEF n
    <3>2. was(l, j) \notin {e, g} /\ was(l, j + 1) \notin {e, h}
      BY <1>2, <1>9, <2>2, <3>1
    <3>3. /\ nx[was(l, j)] = was(l, j + 1) /\ pv[was(l, j + 1)] = was(l, j)
          /\ was(l, j) \in L!Hooks /\ was(l, j + 1) \in L!Hooks
      BY <1>3, <3>1
    <3> QED
      BY <1>11, <3>1, <3>2, <3>3
  <2>3. CASE m = l /\ j = i - 1
    <3>1. now(m, j) = g /\ now(m, j + 1) = h
      BY <1>2, <1>7, <2>3 DEF g, h
    <3> QED
      BY <1>11, <3>1
  <2>4. CASE m = l /\ j > i - 1
    <3>1. j + 1 \in 0 .. Len(q[l]) /\ j + 1 # i /\ j + 1 # i - 1
          /\ now(m, j) = was(l, j + 1) /\ now(m, j + 1) = was(l, (j + 1) + 1)
      BY <1>2, <1>6, <1>7, <2>4 DEF n
    <3>2. was(l, j + 1) \notin {e, g} /\ was(l, (j + 1) + 1) \notin {e, h}
      BY <1>9, <3>1
    <3> QED
      BY <1>3, <1>11, <3>1, <3>2
  <2>5. j < i - 1 \/ j = i - 1 \/ j > i - 1
    BY <1>2
  <2> QED
    BY <2>1, <2>2, <2>3, <2>4, <2>5
<1>13. \A j \in 1 .. n - 1 : t[j] = IF j < i THEN q[l][j] ELSE q[l][j + 1]
  BY Zenon DEF IsRemoved, n
(* Where an element of p was before.                                        *)
<1> DEFINE old(m, j) == IF m = l /\ j >= i THEN j + 1 ELSE j
<1>14. ASSUME NEW m \in Lists, NEW j \in 1 .. Len(p[m])
       PROVE  old(m, j) \in 1 .. Len(q[m]) /\ p[m][j] = q[m][old(m, j)] /\ j \in Int
  <2>1. CASE m = l
    <3>1. j \in 1 .. n - 1 /\ p[m][j] = t[j]
      BY <1>6, <2>1
    <3> QED
      BY <1>2, <1>13, <2>1, <3>1 DEF n
  <2>2. CASE m # l
    BY <1>6, <2>2
  <2> QED
    BY <2>1, <2>2
<1>15. Apart(p)
  <2> SUFFICES ASSUME NEW m \in Lists, NEW k \in Lists, NEW j \in 1 .. Len(p[m]),
                      NEW c \in 1 .. Len(p[k]), p[m][j] = p[k][c]
               PROVE  m = k /\ j = c
    BY DEF Apart
  <2>1. m = k /\ old(m, j) = old(k, c)
    <3>1. \A a \in 1 .. Len(q[m]), b \in 1 .. Len(q[k]) : q[m][a] = q[k][b] => m = k /\ a = b
      BY <1>1 DEF Apart
    <3>2. old(m, j) \in 1 .. Len(q[m]) /\ old(k, c) \in 1 .. Len(q[k])
      BY <1>14
    <3>3. q[m][old(m, j)] = q[k][old(k, c)]
      BY <1>14
    <3> HIDE DEF old
    <3> QED
      BY <3>1, <3>2, <3>3, Zenon
  <2>2. j \in Int /\ c \in Int /\ i \in Int
    BY <1>2, <1>14
  <2> QED
    BY <2>1, <2>2
<1>16. Loose(p, x, y)
  <2> SUFFICES ASSUME NEW z \in Elements, z # e,
                      \A m \in Lists : \A j \in 1 .. Len(p[m]) : p[m][j] # z
               PROVE  x[z] = nullptr /\ y[z] = nullptr
    BY <1>11 DEF Loose
  <2>1. \A m \in Lists : \A j \in 1 .. Len(q[m]) : q[m][j] # z
    <3> SUFFICES ASSUME NEW m \in Lists, NEW j \in 1 .. Len(q[m]) PROVE q[m][j] # z
      OBVIOUS
    <3>1. CASE m # l
      BY <1>6, <3>1
    <3>2. CASE m = l /\ j < i
      <4>1. j \in 1 .. Len(p[l]) /\ p[l][j] = q[l][j]
        BY <1>2, <1>6, <1>13, <3>2 DEF n
      <4> QED
        BY <3>2, <4>1
    <3>3. CASE m = l /\ j = i
      BY <3>3
    <3>4. CASE m = l /\ j > i
      <4>1. j - 1 \in 1 .. Len(p[l]) /\ p[l][j - 1] = q[l][j]
        <5>1. j - 1 \in 1 .. n - 1 /\ ~(j - 1 < i) /\ (j - 1) + 1 = j
          BY <1>2, <3>4 DEF n
        <5> QED
          BY <1>6, <1>13, <5>1
      <4> QED
        BY <3>4, <4>1
    <3> QED
      BY <1>2, <3>1, <3>2, <3>3, <3>4
  <2>2. nx[z] = nullptr /\ pv[z] = nullptr
    BY <1>1, <2>1 DEF Loose
  <2>3. z \in L!Hooks /\ z \notin {g, h}
    BY <1>5, <1>10, <2>2, ListConstants
  <2> QED
    BY <1>11, <2>2, <2>3
<1> QED
  <2>1. Linked(p, x, y)
    BY <1>6, <1>11, <1>12, <1>15, <1>16 DEF Linked
  <2>2. Linked([q EXCEPT ![l] = t], [nx EXCEPT ![pv[e]] = nx[e], ![e] = nullptr],
               [pv EXCEPT ![nx[e]] = pv[e], ![e] = nullptr])
    BY <2>1 DEF p, x, y
  <2> QED
    BY <1>4, <1>5, <2>2, ListConstants

LEMMA TakenOver ==
  ASSUME NEW q, NEW nx, NEW pv, Linked(q, nx, pv), NEW l \in Lists, NEW o \in Lists, l # o,
         Len(q[l]) = 0, Len(q[o]) > 0
  PROVE  Linked([q EXCEPT ![l] = q[o], ![o] = <<>>],
                [nx EXCEPT ![l] = nx[o], ![pv[o]] = l, ![o] = o],
                [pv EXCEPT ![l] = pv[o], ![nx[o]] = l, ![o] = o])
<1> DEFINE was(m, j) == At(m, q[m], j)
           p == [q EXCEPT ![l] = q[o], ![o] = <<>>]
           now(m, j) == At(m, p[m], j)
           n == Len(q[o])
           first == was(o, 0 + 1)
           last == was(o, n)
           x == [nx EXCEPT ![l] = nx[o], ![pv[o]] = l, ![o] = o]
           y == [pv EXCEPT ![l] = pv[o], ![nx[o]] = l, ![o] = o]
<1>1. /\ q \in [Lists -> Seq(Elements)] /\ nx \in [L!Hooks -> Ends] /\ pv \in [L!Hooks -> Ends]
      /\ Joined(q, nx, pv) /\ Apart(q) /\ Loose(q, nx, pv)
  BY DEF Linked
<1>2. n \in Nat /\ n > 0 /\ n \in 0 .. n /\ 0 \in 0 .. n
  BY <1>1
<1>3. \A m \in Lists : \A j \in 0 .. Len(q[m]) :
        /\ nx[was(m, j)] = was(m, j + 1) /\ pv[was(m, j + 1)] = was(m, j)
        /\ was(m, j) \in L!Hooks /\ was(m, j + 1) \in L!Hooks /\ j \in Nat /\ j + 1 \in Nat
  BY Neighbours
<1>4. was(l, 0) = l /\ was(l, 0 + 1) = l /\ was(o, 0) = o /\ was(o, n + 1) = o
  BY <1>1, <1>2 DEF At
<1>5. first \in Elements /\ last \in Elements
  BY <1>1, <1>2, AtIs
<1>6. nx[o] = first /\ pv[o] = last /\ nx[last] = o /\ pv[first] = o
  <2>1. \A j \in 0 .. n : nx[was(o, j)] = was(o, j + 1) /\ pv[was(o, j + 1)] = was(o, j)
    BY <1>3
  <2> HIDE DEF was, n
  <2> QED
    BY <1>2, <1>4, <2>1
<1>7. /\ l \in L!Hooks /\ o \in L!Hooks /\ first \in L!Hooks /\ last \in L!Hooks
      /\ l \notin {first, last} /\ o \notin {first, last}
  BY <1>5, ListConstants
<1>8. /\ p \in [Lists -> Seq(Elements)] /\ p[l] = q[o] /\ p[o] = <<>> /\ Len(p[o]) = 0
      /\ Len(p[l]) = n /\ \A m \in Lists : m \notin {l, o} => p[m] = q[m]
  BY <1>1
<1>9. /\ \A j \in Nat : now(l, j) = IF j \in 1 .. n THEN was(o, j) ELSE l
      /\ \A j \in Nat : now(o, j) = o
      /\ \A m \in Lists : m \notin {l, o} => \A j \in Nat : now(m, j) = was(m, j)
  <2>1. \A j \in Nat : j \notin 1 .. 0
    OBVIOUS
  <2> QED
    BY <1>8, <2>1 DEF At
<1>10. \A m \in Lists : \A j \in 0 .. Len(q[m]) :
         /\ was(m, j) = l => m = l
         /\ was(m, j) = o => m = o /\ j = 0
         /\ was(m, j) = last => m = o /\ j = n
         /\ was(m, j + 1) = l => m = l
         /\ was(m, j + 1) = o => m = o /\ j = n
         /\ was(m, j + 1) = first => m = o /\ j = 0
  <2>1. \A m, k \in Lists : \A j \in 0 .. Len(q[m]), c \in 0 .. Len(q[k]) :
           /\ was(m, j) = was(k, c) => m = k /\ j = c
           /\ was(m, j + 1) = was(k, c + 1) => m = k /\ j = c
    BY <1>1, PlacesOnce, Zenon
  <2>2. 0 \in 0 .. Len(q[l]) /\ 0 \in 0 .. Len(q[o]) /\ n \in 0 .. Len(q[o])
    BY <1>2
  <2> HIDE DEF was
  <2>3. \A m \in Lists : \A j \in 0 .. Len(q[m]) :
           /\ was(m, j) = was(l, 0) => m = l
           /\ was(m, j + 1) = was(l, 0 + 1) => m = l
    BY <2>1, <2>2
  <2>4. \A m \in Lists : \A j \in 0 .. Len(q[m]) :
           /\ was(m, j) = was(o, 0) => m = o /\ j = 0
           /\ was(m, j + 1) = was(o, 0 + 1) => m = o /\ j = 0
    BY <2>1, <2>2
  <2> HIDE DEF n
  <2>5. \A m \in Lists : \A j \in 0 .. Len(q[m]) :
           /\ was(m, j) = was(o, n) => m = o /\ j = n
           /\ was(m, j + 1) = was(o, n + 1) => m = o /\ j = n
    BY <2>1, <2>2
  <2> QED
    BY <1>4, <2>3, <2>4, <2>5
<1>11. /\ x[l] = first /\ x[last] = l /\ x[o] = o /\ y[l] = last /\ y[first] = l /\ y[o] = o
       /\ \A z \in L!Hooks : z \notin {l, o, last} => x[z] = nx[z]
       /\ \A z \in L!Hooks : z \notin {l, o, first} => y[z] = pv[z]
       /\ x \in [L!Hooks -> Ends] /\ y \in [L!Hooks -> Ends]
  <2>1. l \in Ends /\ o \in Ends /\ first \in Ends /\ last \in Ends
    BY <1>7 DEF Ends
  <2> HIDE DEF first, last
  <2> QED
    BY <1>1, <1>6, <1>7, <2>1, Zenon
<1> HIDE DEF was, now, p, x, y, n, first, last
<1>12. Joined(p, x, y)
  <2> SUFFICES ASSUME NEW m \in Lists, NEW j \in 0 .. Len(p[m])
               PROVE  x[now(m, j)] = now(m, j + 1) /\ y[now(m, j + 1)] = now(m, j)
    BY DEF Joined, now
  <2>1. CASE m \notin {l, o}
    <3>1. j \in 0 .. Len(q[m]) /\ now(m, j) = was(m, j) /\ now(m, j + 1) = was(m, j + 1)
      BY <1>3, <1>8, <1>9, <2>1
    <3>2. was(m, j) \notin {l, o, last} /\ was(m, j + 1) \notin {l, o, first}
      BY <1>10, <2>1, <3>1
    <3>3. /\ nx[was(m, j)] = was(m, j + 1) /\ pv[was(m, j + 1)] = was(m, j)
          /\ was(m, j) \in L!Hooks /\ was(m, j + 1) \in L!Hooks
      BY <1>3, <3>1
    <3> QED
      BY <1>11, <3>1, <3>2, <3>3
  <2>2. CASE m = o
    <3>1. j \in Nat /\ j + 1 \in Nat
      BY <1>8, <2>2
    <3> QED
      BY <1>9, <1>11, <2>2, <3>1
  <2>3. CASE m = l
    <3>1. j \in 0 .. n /\ j \in Nat /\ j + 1 \in Nat /\ j \in 0 .. Len(q[o])
      BY <1>2, <1>8, <2>3 DEF n
    <3>2. now(l, 0) = l /\ now(l, n + 1) = l /\ now(l, 1) = first /\ now(l, n) = last
      BY <1>2, <1>9 DEF first, last
    <3>3. CASE j = 0
      BY <1>11, <2>3, <3>2, <3>3
    <3>4. CASE j = n
      BY <1>11, <2>3, <3>2, <3>4
    <3>5. CASE j # 0 /\ j # n
      <4>1. now(l, j) = was(o, j) /\ now(l, j + 1) = was(o, j + 1)
        BY <1>2, <1>9, <3>1, <3>5
      <4>2. was(o, j) \notin {l, o, last} /\ was(o, j + 1) \notin {l, o, first}
        BY <1>10, <3>1, <3>5
      <4>3. /\ nx[was(o, j)] = was(o, j + 1) /\ pv[was(o, j + 1)] = was(o, j)
            /\ was(o, j) \in L!Hooks /\ was(o, j + 1) \in L!Hooks
        BY <1>3, <3>1
      <4> QED
        BY <1>11, <2>3, <4>1, <4>2, <4>3
    <3> QED
      BY <3>3, <3>4, <3>5
  <2> QED
    BY <2>1, <2>2, <2>3
(* Where an element of p was before.                                        *)
<1> DEFINE home(m) == IF m = l THEN o ELSE m
<1>13. ASSUME NEW m \in Lists, NEW j \in 1 .. Len(p[m])
       PROVE  /\ m # o /\ home(m) \in Lists /\ j \in 1 .. Len(q[home(m)])
              /\ p[m][j] = q[home(m)][j]
  <2>1. m # o
    BY <1>8
  <2> QED
    BY <1>8, <2>1 DEF n
<1>14. Apart(p)
  <2> SUFFICES ASSUME NEW m \in Lists, NEW k \in Lists, NEW j \in 1 .. Len(p[m]),
                      NEW c \in 1 .. Len(p[k]), p[m][j] = p[k][c]
               PROVE  m = k /\ j = c
    BY DEF Apart
  <2>1. \A u, v \in Lists : \A a \in 1 .. Len(q[u]), b \in 1 .. Len(q[v]) :
           q[u][a] = q[v][b] => u = v /\ a = b
    BY <1>1 DEF Apart
  <2>2. /\ home(m) \in Lists /\ j \in 1 .. Len(q[home(m)])
        /\ home(k) \in Lists /\ c \in 1 .. Len(q[home(k)])
        /\ q[home(m)][j] = q[home(k)][c] /\ m # o /\ k # o
    BY <1>13
  <2>3. home(m) = home(k) /\ j = c
    <3> HIDE DEF home
    <3> QED
      BY <2>1, <2>2
  <2> QED
    BY <2>2, <2>3
<1>15. Loose(p, x, y)
  <2> SUFFICES ASSUME NEW z \in Elements,
                      \A m \in Lists : \A j \in 1 .. Len(p[m]) : p[m][j] # z
               PROVE  x[z] = nullptr /\ y[z] = nullptr
    BY DEF Loose
  <2>1. \A m \in Lists : \A j \in 1 .. Len(q[m]) : q[m][j] # z
    <3> SUFFICES ASSUME NEW m \in Lists, NEW j \in 1 .. Len(q[m]) PROVE q[m][j] # z
      OBVIOUS
    <3>1. m # l
      BY <1>1
    <3>2. CASE m = o
      BY <1>8, <3>2
    <3>3. CASE m # o
      BY <1>8, <3>1, <3>3
    <3> QED
      BY <3>2, <3>3
  <2>2. nx[z] = nullptr /\ pv[z] = nullptr
    BY <1>1, <2>1 DEF Loose
  <2>3. z \in L!Hooks /\ z \notin {l, o, first, last}
    BY <1>6, <1>7, <2>2, ListConstants
  <2> QED
    BY <1>11, <2>2, <2>3
<1> QED
  <2>1. Linked(p, x, y)
    BY <1>8, <1>11, <1>12, <1>14, <1>15 DEF Linked
  <2> QED
    BY <2>1 DEF p, x, y

-----------------------------------------------------------------------------
LEMMA ListSets ==
  \A Any : L!Cardinality(Any) = Cardinality(Any) /\ (L!IsFiniteSet(Any) <=> IsFiniteSet(Any))
<1>1. \A Any : L!IsFiniteSet(Any) <=> IsFiniteSet(Any)
  BY DEF L!IsFiniteSet, IsFiniteSet
<1>2. \A Any : L!Cardinality(Any) = Cardinality(Any)
  BY Zenon DEF L!Cardinality, Cardinality
<1> QED
  BY <1>1, <1>2

(* No ring is longer than there are hooks, so that a walk sees all of it.   *)
LEMMA RingFits ==
  ASSUME NEW q, NEW nx, NEW pv, Linked(q, nx, pv), NEW l \in Lists
  PROVE  L!Cardinality(L!Hooks) \in Nat /\ Len(q[l]) <= L!Cardinality(L!Hooks)
<1>1. q[l] \in Seq(Elements) /\ Len(q[l]) \in Nat
  BY DEF Linked
<1>2. IsFiniteSet(L!Hooks)
  BY ContainersAssumption, ListSets DEF L!ListAssumption, L!Hooks
<1>3. q[l] \in Injection(1 .. Len(q[l]), L!Hooks)
  <2>1. q[l] \in [1 .. Len(q[l]) -> L!Hooks]
    BY <1>1, ListConstants
  <2>2. \A i, j \in 1 .. Len(q[l]) : q[l][i] = q[l][j] => i = j
    BY DEF Linked, Apart
  <2>3. DOMAIN q[l] = 1 .. Len(q[l])
    BY <1>1
  <2> QED
    BY <2>1, <2>2, <2>3 DEF Injection, IsInjective
<1>4. IsFiniteSet(1 .. Len(q[l])) /\ Cardinality(1 .. Len(q[l])) = Len(q[l])
  <2> DEFINE n == Len(q[l])
  <2>1. n \in Nat /\ n \in Int /\ 1 \in Int
    BY <1>1
  <2> HIDE DEF n
  <2>2. IsFiniteSet(1 .. n) /\ Cardinality(1 .. n) = IF 1 > n THEN 0 ELSE n - 1 + 1
    BY <2>1, FS_Interval
  <2> QED
    BY <2>1, <2>2 DEF n
<1>5. Cardinality(1 .. Len(q[l])) <= Cardinality(L!Hooks)
  BY <1>2, <1>3, FS_Injection
<1>6. Cardinality(L!Hooks) \in Nat
  BY <1>2, FS_CardinalityType
<1> QED
  BY <1>4, <1>5, <1>6, ListSets

LEMMA ContentsAre == \A q : Linked(q, next_, prev_) => L!Contents = q
<1> SUFFICES ASSUME NEW q, Linked(q, next_, prev_) PROVE L!Contents = q
  OBVIOUS
<1>1. L!ListAssumption
  BY ContainersAssumption
<1>2. q \in [Lists -> Seq(Elements)]
  BY DEF Linked
<1>3. \A l \in Lists : L!Walk(l) = q[l]
  <2> SUFFICES ASSUME NEW l \in Lists PROVE L!Walk(l) = q[l]
    OBVIOUS
  <2>1. q[l] \in Seq(Elements)
    BY <1>2
  <2>2. \A i \in 0 .. Len(q[l]) : next_[At(l, q[l], i)] = At(l, q[l], i + 1)
    BY DEF Linked, Joined
  <2>3. L!Cardinality(L!Hooks) \in Nat /\ Len(q[l]) <= L!Cardinality(L!Hooks)
    BY RingFits
  <2> QED
    BY <1>1, <2>1, <2>2, <2>3, WalkIs, Zenon
<1> QED
  BY <1>2, <1>3 DEF L!Contents

LEMMA ContentsBecome == \A q : Linked(q, next_', prev_') => L!Contents' = q
<1>1. (\A q : Linked(q, next_, prev_) => L!Contents = q)'
  BY ContentsAre, PTL
<1> QED
  BY <1>1

-----------------------------------------------------------------------------
(* Between two pops of an assignment the list it takes from is another one, *)
(* and not empty.                                                           *)
Clearing ==
    /\ clearing \in Lists \union {nullptr}
    /\ clearing = nullptr => source = nullptr
    /\ source # nullptr => source \in Lists /\ source # clearing /\ L!Contents[source] # <<>>

ListInv == Linked(L!Contents, next_, prev_) /\ Clearing

(* The hooks of the next state hold the sequences q.                        *)
HooksBecome(q) == Linked(q, next_', prev_') /\ L!Contents' = q

LEMMA ListFacts ==
  ASSUME ListInv
  PROVE  /\ L!Contents \in [Lists -> Seq(Elements)]
         /\ next_ \in [L!Hooks -> Ends] /\ prev_ \in [L!Hooks -> Ends]
         /\ \A l \in Lists :
              /\ Len(L!Contents[l]) \in Nat
              /\ next_[l] = At(l, L!Contents[l], 0 + 1)
              /\ prev_[l] = At(l, L!Contents[l], Len(L!Contents[l]))
              /\ L!IsLinked(l)
              /\ L!IsEmpty(l) <=> Len(L!Contents[l]) = 0
              /\ L!IsEmpty(l) <=> L!Contents[l] = <<>>
<1> DEFINE q == L!Contents
<1>1. /\ q \in [Lists -> Seq(Elements)] /\ Linked(q, next_, prev_)
      /\ next_ \in [L!Hooks -> Ends] /\ prev_ \in [L!Hooks -> Ends]
  BY DEF ListInv, Linked
<1>2. ASSUME NEW l \in Lists
      PROVE  /\ Len(q[l]) \in Nat /\ next_[l] = At(l, q[l], 0 + 1) /\ prev_[l] = At(l, q[l], Len(q[l]))
             /\ L!IsLinked(l) /\ (L!IsEmpty(l) <=> Len(q[l]) = 0) /\ (L!IsEmpty(l) <=> q[l] = <<>>)
  <2> DEFINE s == q[l]
             n == Len(s)
  <2>1. s \in Seq(Elements) /\ n \in Nat /\ 0 \in 0 .. n /\ n \in 0 .. n
    BY <1>1
  <2>2. At(l, s, 0) = l /\ At(l, s, n + 1) = l
    BY <2>1 DEF At
  <2>3. \A i \in 0 .. n : /\ next_[At(l, s, i)] = At(l, s, i + 1) /\ prev_[At(l, s, i + 1)] = At(l, s, i)
                          /\ At(l, s, i) \in L!Hooks /\ At(l, s, i + 1) \in L!Hooks
    <3> HIDE DEF q
    <3> QED
      BY <1>1, Neighbours
  <2>4. /\ next_[l] = At(l, s, 0 + 1) /\ prev_[l] = At(l, s, n)
        /\ At(l, s, 0 + 1) \in L!Hooks /\ At(l, s, n) \in L!Hooks
    <3> HIDE DEF s, n
    <3> QED
      BY <2>1, <2>2, <2>3
  <2>5. L!IsLinked(l)
    BY <2>4, ListConstants DEF L!IsLinked
  <2>6. At(l, s, 0 + 1) = l <=> n = 0
    <3>1. CASE n = 0
      BY <3>1 DEF At
    <3>2. CASE n # 0
      <4>1. s[1] \in Elements /\ At(l, s, 0 + 1) = s[1]
        BY <2>1, <3>2 DEF At
      <4> QED
        BY <3>2, <4>1, ListConstants
    <3> QED
      BY <3>1, <3>2
  <2>7. n = 0 <=> s = <<>>
    <3> HIDE DEF s
    <3> QED
      BY <2>1, EmptySeq
  <2> QED
    BY <2>1, <2>4, <2>5, <2>6, <2>7 DEF L!IsEmpty
<1> QED
  BY <1>1, <1>2

LEMMA PushBackHooks ==
  ASSUME ListInv, NEW l \in Lists, NEW e \in Elements, L!PushBack(l, e)
  PROVE  HooksBecome([L!Contents EXCEPT ![l] = Append(@, e)])
<1> DEFINE q == L!Contents
           s == q[l]
           t == Append(s, e)
<1>1. q \in [Lists -> Seq(Elements)] /\ Linked(q, next_, prev_) /\ s \in Seq(Elements) /\ Len(s) \in Nat
  BY ListFacts DEF ListInv
<1>2. next_[e] = nullptr \/ prev_[e] = nullptr
  BY DEF L!PushBack, L!IsLinked
<1>3. /\ next_' = [next_ EXCEPT ![e] = l, ![prev_[l]] = e]
      /\ prev_' = [prev_ EXCEPT ![e] = prev_[l], ![l] = e]
  BY DEF L!PushBack, L!LinkBefore
<1>4. IsInserted(t, s, Len(s), e)
  <2> HIDE DEF s
  <2>1. t \in Seq(Elements) /\ Len(t) = Len(s) + 1
        /\ \A j \in 1 .. Len(s) + 1 : t[j] = IF j <= Len(s) THEN s[j] ELSE e
    BY <1>1, AppendProperties
  <2> HIDE DEF t
  <2> QED
    BY <1>1, <2>1 DEF IsInserted
<1>5. Len(s) \in 0 .. Len(s) /\ l = At(l, s, Len(s) + 1)
  BY <1>1 DEF At
<1>6. Linked([q EXCEPT ![l] = t], next_', prev_')
  <2> HIDE DEF q, t
  <2> QED
    BY <1>1, <1>2, <1>3, <1>4, <1>5, Inserted, Zenon
<1>7. HooksBecome([q EXCEPT ![l] = t])
  BY <1>6, ContentsBecome DEF HooksBecome
<1> QED
  BY <1>7

LEMMA PushFrontHooks ==
  ASSUME ListInv, NEW l \in Lists, NEW e \in Elements, L!PushFront(l, e)
  PROVE  HooksBecome([L!Contents EXCEPT ![l] = <<e>> \o @])
<1> DEFINE q == L!Contents
           s == q[l]
           t == <<e>> \o s
           h == next_[l]
<1>1. q \in [Lists -> Seq(Elements)] /\ Linked(q, next_, prev_) /\ s \in Seq(Elements) /\ Len(s) \in Nat
  BY ListFacts DEF ListInv
<1>2. next_[e] = nullptr \/ prev_[e] = nullptr
  BY DEF L!PushFront, L!IsLinked
<1>3. /\ next_' = [next_ EXCEPT ![e] = h, ![prev_[h]] = e]
      /\ prev_' = [prev_ EXCEPT ![e] = prev_[h], ![h] = e]
  BY DEF L!PushFront, L!LinkBefore
<1>4. IsInserted(t, s, 0, e)
  <2> DEFINE u == <<e>>
  <2>1. u \in Seq(Elements) /\ Len(u) = 1 /\ u[1] = e
    OBVIOUS
  <2> HIDE DEF s, u
  <2>2. /\ u \o s \in Seq(Elements) /\ Len(u \o s) = Len(u) + Len(s)
        /\ \A j \in 1 .. Len(u) + Len(s) : (u \o s)[j] = IF j <= Len(u) THEN u[j] ELSE s[j - Len(u)]
    BY <1>1, <2>1, ConcatProperties, Zenon
  <2>3. t = u \o s
    BY DEF u
  <2> HIDE DEF t
  <2> QED
    BY <1>1, <2>1, <2>2, <2>3 DEF IsInserted
<1>5. 0 \in 0 .. Len(s) /\ h = At(l, s, 0 + 1)
  BY <1>1, ListFacts
<1>6. Linked([q EXCEPT ![l] = t], next_', prev_')
  <2> HIDE DEF q, t, h
  <2> QED
    BY <1>1, <1>2, <1>3, <1>4, <1>5, Inserted, Zenon
<1>7. HooksBecome([q EXCEPT ![l] = t])
  BY <1>6, ContentsBecome DEF HooksBecome
<1> QED
  BY <1>7

LEMMA UnlinkHooks ==
  ASSUME ListInv, NEW l \in Lists, NEW i \in 1 .. Len(L!Contents[l]),
         L!Unlink(L!Contents[l][i]), NEW t, IsRemoved(t, L!Contents[l], i)
  PROVE  HooksBecome([L!Contents EXCEPT ![l] = t])
<1> DEFINE q == L!Contents
           e == q[l][i]
<1>1. q \in [Lists -> Seq(Elements)] /\ Linked(q, next_, prev_)
  BY ListFacts DEF ListInv
<1>2. /\ Linked([q EXCEPT ![l] = t], [next_ EXCEPT ![prev_[e]] = next_[e], ![e] = nullptr],
                 [prev_ EXCEPT ![next_[e]] = prev_[e], ![e] = nullptr])
      /\ next_[e] # nullptr /\ prev_[e] # nullptr
  <2> HIDE DEF q
  <2> QED
    BY <1>1, Removed, Zenon DEF q
<1>3. /\ next_' = [next_ EXCEPT ![prev_[e]] = next_[e], ![e] = nullptr]
      /\ prev_' = [prev_ EXCEPT ![next_[e]] = prev_[e], ![e] = nullptr]
  BY <1>2 DEF L!Unlink, L!IsLinked
<1>4. Linked([q EXCEPT ![l] = t], next_', prev_')
  BY <1>2, <1>3
<1> QED
  BY <1>4, ContentsBecome DEF HooksBecome

LEMMA TakenHooks ==
  ASSUME ListInv, NEW l \in Lists, NEW o \in Lists, l # o, L!IsEmpty(l), ~L!IsEmpty(o),
         L!Taken(l, o)
  PROVE  HooksBecome([L!Contents EXCEPT ![l] = L!Contents[o], ![o] = <<>>])
<1> DEFINE q == L!Contents
<1>1. q \in [Lists -> Seq(Elements)] /\ Linked(q, next_, prev_)
  BY ListFacts DEF ListInv
<1>2. Len(q[l]) = 0 /\ Len(q[o]) > 0
  BY ListFacts
<1>3. /\ next_' = [next_ EXCEPT ![l] = next_[o], ![prev_[o]] = l, ![o] = o]
      /\ prev_' = [prev_ EXCEPT ![l] = prev_[o], ![next_[o]] = l, ![o] = o]
  BY DEF L!Taken
<1>4. Linked([q EXCEPT ![l] = q[o], ![o] = <<>>], next_', prev_')
  <2> HIDE DEF q
  <2> QED
    BY <1>1, <1>2, <1>3, TakenOver, Zenon
<1> QED
  BY <1>4, ContentsBecome DEF HooksBecome

LEMMA SameHooks == ASSUME ListInv, UNCHANGED <<next_, prev_>> PROVE HooksBecome(L!Contents)
<1>1. Linked(L!Contents, next_', prev_')
  BY DEF ListInv
<1> QED
  BY <1>1, ContentsBecome DEF HooksBecome

LEMMA EndsRemoved ==
  ASSUME NEW s \in Seq(Elements), NEW i \in 1 .. Len(s)
  PROVE  /\ IsRemoved(L!C!RemoveAt(s, i), s, i)
         /\ IsRemoved(Tail(s), s, 1)
         /\ IsRemoved(L!C!Front(s), s, Len(s))
<1> DEFINE n == Len(s)
           u == SubSeq(s, 1, i - 1)
           v == SubSeq(s, i + 1, n)
<1>1. n \in Nat /\ s # <<>> /\ n > 0 /\ i \in 1 .. n /\ i \in Nat
  OBVIOUS
<1>2. \A j \in 1 .. n : s[j] \in Elements
  OBVIOUS
<1>3. /\ u \in Seq(Elements) /\ Len(u) = i - 1 /\ \A j \in 1 .. i - 1 : u[j] = s[j]
  <2> DEFINE k == i - 1
  <2>1. k \in Int /\ 1 \in Int /\ \A j \in 1 .. k : s[j] \in Elements
    BY <1>1, <1>2
  <2> HIDE DEF k
  <2>2. /\ SubSeq(s, 1, k) \in Seq(Elements) /\ Len(SubSeq(s, 1, k)) = IF 1 <= k THEN k - 1 + 1 ELSE 0
        /\ \A j \in 1 .. k - 1 + 1 : SubSeq(s, 1, k)[j] = s[1 + j - 1]
    BY <2>1, SubSeqProperties
  <2>3. k \in Nat /\ k - 1 + 1 = k /\ (IF 1 <= k THEN k ELSE 0) = k /\ \A j \in Int : 1 + j - 1 = j
    BY <1>1 DEF k
  <2> QED
    BY <2>2, <2>3 DEF k
<1>4. /\ v \in Seq(Elements) /\ Len(v) = n - i /\ \A j \in 1 .. n - i : v[j] = s[i + j]
  <2> DEFINE k == i + 1
  <2>1. k \in Int /\ n \in Int /\ \A j \in k .. n : s[j] \in Elements
    BY <1>1, <1>2
  <2> HIDE DEF k, n
  <2>2. /\ SubSeq(s, k, n) \in Seq(Elements) /\ Len(SubSeq(s, k, n)) = IF k <= n THEN n - k + 1 ELSE 0
        /\ \A j \in 1 .. n - k + 1 : SubSeq(s, k, n)[j] = s[k + j - 1]
    BY <2>1, SubSeqProperties
  <2>3. n - k + 1 = n - i /\ (IF k <= n THEN n - i ELSE 0) = n - i /\ \A j \in Int : k + j - 1 = i + j
    BY <1>1 DEF k
  <2> QED
    BY <2>2, <2>3 DEF k
<1>5. IsRemoved(L!C!RemoveAt(s, i), s, i)
  <2> HIDE DEF u, v, n
  <2>1. /\ u \o v \in Seq(Elements) /\ Len(u \o v) = Len(u) + Len(v)
        /\ \A j \in 1 .. Len(u) + Len(v) : (u \o v)[j] = IF j <= Len(u) THEN u[j] ELSE v[j - Len(u)]
    BY <1>3, <1>4, ConcatProperties, Zenon
  <2>2. Len(u) + Len(v) = n - 1
    BY <1>1, <1>3, <1>4
  <2>3. ASSUME NEW j \in 1 .. n - 1 PROVE (u \o v)[j] = IF j < i THEN s[j] ELSE s[j + 1]
    <3>1. CASE j < i
      BY <1>1, <1>3, <2>1, <2>2, <3>1
    <3>2. CASE j >= i
      <4>1. j - (i - 1) \in 1 .. n - i /\ i + (j - (i - 1)) = j + 1 /\ ~(j <= i - 1)
        BY <1>1, <3>2
      <4>2. (u \o v)[j] = v[j - (i - 1)]
        BY <1>3, <2>1, <2>2, <4>1
      <4>3. v[j - (i - 1)] = s[j + 1]
        BY <1>4, <4>1
      <4> QED
        BY <1>1, <3>2, <4>2, <4>3
    <3>3. j < i \/ j >= i
      BY <1>1
    <3> QED
      BY <3>1, <3>2, <3>3, Zenon
  <2>4. L!C!RemoveAt(s, i) = u \o v
    BY DEF L!C!RemoveAt, u, v, n
  <2> QED
    BY <2>1, <2>2, <2>3, <2>4 DEF IsRemoved, n
<1>6. IsRemoved(Tail(s), s, 1)
  <2>1. /\ Tail(s) \in Seq(Elements) /\ Len(Tail(s)) = n - 1
        /\ \A j \in 1 .. Len(Tail(s)) : Tail(s)[j] = s[j + 1]
    BY <1>1, HeadTailProperties
  <2> QED
    BY <1>1, <2>1 DEF IsRemoved
<1>7. IsRemoved(L!C!Front(s), s, n)
  <2> DEFINE k == n - 1
  <2>1. k \in Int /\ 1 \in Int /\ \A j \in 1 .. k : s[j] \in Elements
    BY <1>1, <1>2
  <2> HIDE DEF k
  <2>2. /\ SubSeq(s, 1, k) \in Seq(Elements) /\ Len(SubSeq(s, 1, k)) = IF 1 <= k THEN k - 1 + 1 ELSE 0
        /\ \A j \in 1 .. k - 1 + 1 : SubSeq(s, 1, k)[j] = s[1 + j - 1]
    BY <2>1, SubSeqProperties
  <2>3. /\ k \in Nat /\ k - 1 + 1 = k /\ (IF 1 <= k THEN k ELSE 0) = k /\ (\A j \in Int : 1 + j - 1 = j)
        /\ \A j \in 1 .. k : j < n
    <3>1. k \in Nat /\ n \in Nat /\ k = n - 1
      BY <1>1 DEF k
    <3> HIDE DEF n
    <3> QED
      BY <3>1
  <2>4. L!C!Front(s) = SubSeq(s, 1, k)
    BY DEF L!C!Front, k
  <2>5. /\ L!C!Front(s) \in Seq(Elements) /\ Len(L!C!Front(s)) = n - 1
        /\ \A j \in 1 .. n - 1 : L!C!Front(s)[j] = s[j] /\ j < n
    BY <2>2, <2>3, <2>4 DEF k
  <2> QED
    BY <2>5 DEF IsRemoved
<1> QED
  BY <1>5, <1>6, <1>7

-----------------------------------------------------------------------------
(* The pops and the unlinking of an element.                                *)
LEMMA PopFrontHooks ==
  ASSUME ListInv, NEW l \in Lists, ~L!IsEmpty(l), L!Unlink(next_[l])
  PROVE  L!C!PopFront(l, next_[l]) /\ HooksBecome([L!Contents EXCEPT ![l] = Tail(@)])
<1> DEFINE q == L!Contents
           s == q[l]
<1>1. q \in [Lists -> Seq(Elements)] /\ s \in Seq(Elements) /\ Len(s) \in Nat /\ Len(s) # 0 /\ s # <<>>
  BY ListFacts
<1>2. 1 \in 1 .. Len(s) /\ next_[l] = s[1]
  BY <1>1, ListFacts DEF At
<1>3. HooksBecome([q EXCEPT ![l] = Tail(s)])
  <2>1. IsRemoved(Tail(s), s, 1)
    <3> HIDE DEF s
    <3> QED
      BY <1>1, <1>2, EndsRemoved
  <2> QED
    BY <1>2, <2>1, UnlinkHooks, Zenon
<1>4. s[1] = Head(s)
  BY <1>1
<1>5. L!C!PopFront(l, next_[l])
  BY <1>1, <1>2, <1>3, <1>4 DEF L!C!PopFront, L!C!Becomes, HooksBecome
<1> QED
  BY <1>3, <1>5

LEMMA PopBackHooks ==
  ASSUME ListInv, NEW l \in Lists, ~L!IsEmpty(l), L!Unlink(prev_[l])
  PROVE  /\ L!C!PopBack(l, prev_[l])
         /\ HooksBecome([L!Contents EXCEPT ![l] = L!C!Front(@)])
<1> DEFINE q == L!Contents
           s == q[l]
<1>1. q \in [Lists -> Seq(Elements)] /\ s \in Seq(Elements) /\ Len(s) \in Nat /\ Len(s) # 0 /\ s # <<>>
  BY ListFacts
<1>2. Len(s) \in 1 .. Len(s) /\ prev_[l] = s[Len(s)]
  BY <1>1, ListFacts DEF At
<1>3. HooksBecome([q EXCEPT ![l] = L!C!Front(s)])
  <2>1. IsRemoved(L!C!Front(s), s, Len(s))
    <3> HIDE DEF s
    <3> QED
      BY <1>1, <1>2, EndsRemoved
  <2> QED
    BY <1>2, <2>1, UnlinkHooks, Zenon
<1>4. s[Len(s)] = L!C!Last(s)
  BY DEF L!C!Last
<1>5. L!C!PopBack(l, prev_[l])
  BY <1>1, <1>2, <1>3, <1>4 DEF L!C!PopBack, L!C!Becomes, HooksBecome
<1> QED
  BY <1>3, <1>5

LEMMA UnlinkElementHooks ==
  ASSUME ListInv, NEW e \in Elements, L!UnlinkElement(e)
  PROVE  \E l \in Lists : \E i \in DOMAIN L!Contents[l] :
           /\ L!Contents[l][i] = e /\ L!C!Erase(l, i)
           /\ HooksBecome([L!Contents EXCEPT ![l] = L!C!RemoveAt(@, i)])
<1> DEFINE q == L!Contents
<1>1. next_[e] # nullptr /\ L!Unlink(e)
  BY DEF L!UnlinkElement, L!IsLinked
<1>2. PICK l \in Lists : \E i \in 1 .. Len(q[l]) : q[l][i] = e
  BY <1>1 DEF ListInv, Linked, Loose
<1>3. PICK i \in 1 .. Len(q[l]) : q[l][i] = e
  BY <1>2
<1>4. q \in [Lists -> Seq(Elements)] /\ q[l] \in Seq(Elements) /\ DOMAIN q[l] = 1 .. Len(q[l])
  BY ListFacts
<1>5. HooksBecome([q EXCEPT ![l] = L!C!RemoveAt(q[l], i)])
  <2>1. IsRemoved(L!C!RemoveAt(q[l], i), q[l], i)
    <3> HIDE DEF q
    <3> QED
      BY <1>4, EndsRemoved
  <2> QED
    BY <1>1, <1>3, <2>1, UnlinkHooks
<1>6. L!C!Erase(l, i)
  BY <1>5 DEF L!C!Erase, L!C!Becomes, HooksBecome
<1> QED
  BY <1>3, <1>4, <1>5, <1>6, Zenon

LEMMA MoveHooks ==
  ASSUME ListInv, NEW l \in Lists, NEW o \in Lists, L!AssignEnd(l, o) \/ L!MoveConstruct(l, o)
  PROVE  HooksBecome([L!Contents EXCEPT ![l] = L!Contents[o], ![o] = <<>>])
<1>1. L!IsEmpty(l) /\ l # o
  <2>1. o # nullptr
    BY ListConstants
  <2> QED
    BY <2>1 DEF L!AssignEnd, L!MoveConstruct, ListInv, Clearing
<1>2. CASE L!Taken(l, o) /\ ~L!IsEmpty(o)
  BY <1>1, <1>2, TakenHooks
<1>3. CASE L!IsEmpty(o) /\ UNCHANGED <<next_, prev_>>
  <2> DEFINE q == L!Contents
  <2>1. q \in [Lists -> Seq(Elements)] /\ q[l] = <<>> /\ q[o] = <<>>
    BY <1>1, <1>3, ListFacts
  <2>2. [q EXCEPT ![l] = q[o], ![o] = <<>>] = q
    <3> HIDE DEF q
    <3> QED
      BY <2>1
  <2> QED
    BY <1>3, <2>2, SameHooks
<1>4. L!AssignEnd(l, o) => L!Taken(l, o) /\ ~L!IsEmpty(o)
  <2>1. L!AssignEnd(l, o) => source # nullptr /\ source = o
    BY ListConstants DEF L!AssignEnd
  <2> QED
    BY <2>1, ListFacts DEF L!AssignEnd, ListInv, Clearing
<1> QED
  BY <1>2, <1>3, <1>4 DEF L!MoveConstruct

LEMMA ListStepIs == ListInv => L!ListStep
<1> SUFFICES ASSUME ListInv PROVE L!ListStep
  OBVIOUS
<1>1. ASSUME NEW l \in Lists, NEW e \in Elements
      PROVE  /\ L!PushBack(l, e) => L!C!PushBack(l, e)
             /\ L!PushFront(l, e) => L!C!PushFront(l, e)
  BY PushBackHooks, PushFrontHooks, Zenon DEF HooksBecome, L!C!PushBack, L!C!PushFront, L!C!Becomes
<1>2. ASSUME NEW l \in Lists
      PROVE  /\ L!PopBack(l) => L!C!PopBack(l, prev_[l])
             /\ L!PopFront(l) \/ L!ClearStep(l) => L!C!PopFront(l, next_[l])
  BY PopBackHooks, PopFrontHooks, Zenon DEF L!PopBack, L!PopFront, L!ClearStep
<1>3. ASSUME NEW l \in Lists
      PROVE  /\ L!Clear(l) \/ L!ClearEnd(l) => UNCHANGED L!Contents
             /\ L!ClearEnd(l) => L!Contents[l] = <<>>
             /\ \A o \in Lists : L!MoveAssign(l, o) => UNCHANGED L!Contents
  BY SameHooks, ListFacts DEF HooksBecome, L!Clear, L!ClearEnd, L!MoveAssign
<1>4. ASSUME NEW l \in Lists, NEW o \in Lists, L!AssignEnd(l, o) \/ L!MoveConstruct(l, o)
      PROVE  L!C!Move(l, o)
  BY <1>4, MoveHooks, Zenon DEF HooksBecome, L!C!Move
<1>5. ASSUME NEW e \in Elements, L!UnlinkElement(e)
      PROVE  \E l \in Lists : \E i \in DOMAIN L!Contents[l] :
               L!Contents[l][i] = e /\ L!C!Erase(l, i)
  BY <1>5, UnlinkElementHooks, Zenon
<1> QED
  BY <1>1, <1>2, <1>3, <1>4, <1>5 DEF L!ListStep

LEMMA RingsAre == ListInv => L!Rings
<1> SUFFICES ASSUME ListInv PROVE L!Rings
  OBVIOUS
<1> DEFINE q == L!Contents
<1>1. /\ q \in [Lists -> Seq(Elements)] /\ Linked(q, next_, prev_)
      /\ \A l \in Lists : DOMAIN q[l] = 1 .. Len(q[l]) /\ Len(q[l]) \in Nat /\ q[l] \in Seq(Elements)
  BY ListFacts DEF ListInv
<1> HIDE DEF q
<1>2. ASSUME NEW l \in Lists, NEW i \in 1 .. Len(q[l])
      PROVE  /\ q[l][i] \in Elements /\ next_[q[l][i]] # nullptr /\ prev_[q[l][i]] # nullptr
             /\ prev_[next_[q[l][i]]] = q[l][i] /\ next_[prev_[q[l][i]]] = q[l][i]
  <2>1. i \in 0 .. Len(q[l]) /\ i - 1 \in 0 .. Len(q[l]) /\ (i - 1) + 1 = i
    BY <1>1
  <2>2. At(l, q[l], i) = q[l][i] /\ q[l][i] \in Elements
    BY <1>1 DEF At
  <2>3. \A j \in 0 .. Len(q[l]) :
           /\ next_[At(l, q[l], j)] = At(l, q[l], j + 1) /\ prev_[At(l, q[l], j + 1)] = At(l, q[l], j)
           /\ At(l, q[l], j) \in L!Hooks /\ At(l, q[l], j + 1) \in L!Hooks
    BY <1>1, Neighbours
  <2>4. /\ next_[At(l, q[l], i)] = At(l, q[l], i + 1) /\ prev_[At(l, q[l], i + 1)] = At(l, q[l], i)
        /\ At(l, q[l], i + 1) \in L!Hooks
    BY <2>1, <2>3
  <2>5. /\ next_[At(l, q[l], i - 1)] = At(l, q[l], (i - 1) + 1)
        /\ prev_[At(l, q[l], (i - 1) + 1)] = At(l, q[l], i - 1)
        /\ At(l, q[l], i - 1) \in L!Hooks
    BY <2>1, <2>3
  <2> QED
    BY <2>1, <2>2, <2>4, <2>5, ListConstants
<1>3. ASSUME NEW l \in Lists
      PROVE  L!IsLinked(l) /\ prev_[next_[l]] = l /\ next_[prev_[l]] = l
  <2>1. 0 \in 0 .. Len(q[l]) /\ Len(q[l]) \in 0 .. Len(q[l])
    BY <1>1
  <2>2. At(l, q[l], 0) = l /\ At(l, q[l], Len(q[l]) + 1) = l
    BY <1>1 DEF At
  <2>3. \A j \in 0 .. Len(q[l]) :
           next_[At(l, q[l], j)] = At(l, q[l], j + 1) /\ prev_[At(l, q[l], j + 1)] = At(l, q[l], j)
    BY <1>1, Neighbours
  <2>4. next_[l] = At(l, q[l], 0 + 1) /\ prev_[At(l, q[l], 0 + 1)] = l
    BY <2>1, <2>2, <2>3
  <2>5. next_[At(l, q[l], Len(q[l]))] = l /\ prev_[l] = At(l, q[l], Len(q[l]))
    BY <2>1, <2>2, <2>3
  <2>6. L!IsLinked(l)
    BY ListFacts
  <2> QED
    BY <2>4, <2>5, <2>6
<1>4. ASSUME NEW e \in Elements, \A l \in Lists : \A i \in 1 .. Len(q[l]) : q[l][i] # e
      PROVE  next_[e] = nullptr /\ prev_[e] = nullptr
  BY <1>1, <1>4 DEF Linked, Loose
<1>5. ASSUME NEW h \in L!Hooks
      PROVE  /\ next_[h] = nullptr <=> prev_[h] = nullptr
             /\ L!IsLinked(h) => prev_[next_[h]] = h /\ next_[prev_[h]] = h
             /\ h \in Elements =>
                  (L!IsLinked(h) <=> \E l \in Lists : \E i \in 1 .. Len(q[l]) : q[l][i] = h)
  <2>1. CASE h \in Lists
    BY <1>3, <2>1, ListConstants DEF L!IsLinked
  <2>2. CASE h \in Elements /\ \E l \in Lists : \E i \in 1 .. Len(q[l]) : q[l][i] = h
    BY <1>2, <2>2 DEF L!IsLinked
  <2>3. CASE h \in Elements /\ ~\E l \in Lists : \E i \in 1 .. Len(q[l]) : q[l][i] = h
    BY <1>4, <2>3 DEF L!IsLinked
  <2> QED
    BY <2>1, <2>2, <2>3, ListConstants
<1>6. \A e \in Elements :
        L!IsLinked(e) <=> \E l \in Lists : \E i \in DOMAIN q[l] : q[l][i] = e
  BY <1>1, <1>5, ListConstants
<1>7. \A l \in Lists : L!IsLinked(l) /\ \A i \in DOMAIN q[l] : q[l][i] \in Elements
  BY <1>1, <1>2, <1>3
<1> QED
  BY <1>5, <1>6, <1>7 DEF L!Rings, q

-----------------------------------------------------------------------------
LEMMA ListInvInit == L!Init => ListInv /\ L!C!Init
<1> SUFFICES ASSUME L!Init PROVE ListInv /\ L!C!Init
  OBVIOUS
<1> DEFINE q == [l \in Lists |-> <<>>]
<1>1. q \in [Lists -> Seq(Elements)] /\ \A l \in Lists : q[l] = <<>> /\ Len(q[l]) = 0
  OBVIOUS
<1>2. /\ next_ \in [L!Hooks -> Ends] /\ prev_ \in [L!Hooks -> Ends]
      /\ \A l \in Lists : next_[l] = l /\ prev_[l] = l
      /\ \A e \in Elements : next_[e] = nullptr /\ prev_[e] = nullptr
  BY ListConstants DEF L!Init, Ends
<1>3. \A l \in Lists : \A i \in 0 .. Len(q[l]) : At(l, q[l], i) = l /\ At(l, q[l], i + 1) = l
  BY <1>1 DEF At
<1> HIDE DEF q
<1>4. Linked(q, next_, prev_)
  <2>1. Joined(q, next_, prev_)
    BY <1>2, <1>3 DEF Joined
  <2>2. Apart(q)
    BY <1>1 DEF Apart
  <2>3. Loose(q, next_, prev_)
    BY <1>2 DEF Loose
  <2> QED
    BY <1>1, <1>2, <2>1, <2>2, <2>3 DEF Linked
<1>5. L!Contents = q
  BY <1>4, ContentsAre
<1>6. Clearing
  BY DEF L!Init, Clearing
<1>7. L!C!Init
  BY <1>5 DEF L!C!Init, q
<1> QED
  BY <1>4, <1>5, <1>6, <1>7 DEF ListInv

(* Nobody assigns from an empty list.                                       *)
NeverFromEmpty == ~MayMoveEmpty

LEMMA ListInvNext == ASSUME NeverFromEmpty PROVE ListInv /\ [L!Next]_lists => ListInv'
<1> SUFFICES ASSUME ListInv, [L!Next]_lists PROVE ListInv'
  OBVIOUS
<1>1. ASSUME NEW q, HooksBecome(q), Clearing' PROVE ListInv'
  BY <1>1 DEF HooksBecome, ListInv
<1>2. ASSUME NEW q, HooksBecome(q), clearing = nullptr, UNCHANGED <<clearing, source>>
      PROVE  ListInv'
  <2>1. Clearing'
    BY <1>2 DEF ListInv, Clearing
  <2> QED
    BY <1>1, <1>2, <2>1
<1>3. CASE UNCHANGED lists
  <2>1. HooksBecome(L!Contents) /\ L!Contents' = L!Contents
    BY <1>3, SameHooks DEF lists, HooksBecome
  <2>2. Clearing'
    BY <1>3, <2>1 DEF lists, ListInv, Clearing
  <2> QED
    BY <1>1, <2>1, <2>2
<1>4. ASSUME NEW l \in Lists, NEW e \in Elements, L!PushBack(l, e) \/ L!PushFront(l, e)
      PROVE  ListInv'
  <2>1. clearing = nullptr /\ UNCHANGED <<clearing, source>>
    BY <1>4 DEF L!PushBack, L!PushFront, L!Idle
  <2> QED
    BY <1>2, <1>4, <2>1, PushBackHooks, PushFrontHooks, Zenon
<1>5. ASSUME NEW l \in Lists, L!PopBack(l) \/ L!PopFront(l) PROVE ListInv'
  <2>1. clearing = nullptr /\ UNCHANGED <<clearing, source>> /\ ~L!IsEmpty(l)
    BY <1>5 DEF L!PopBack, L!PopFront, L!Idle
  <2>2. L!PopBack(l) => HooksBecome([L!Contents EXCEPT ![l] = L!C!Front(@)])
    BY <2>1, PopBackHooks DEF L!PopBack
  <2>3. L!PopFront(l) => HooksBecome([L!Contents EXCEPT ![l] = Tail(@)])
    BY <2>1, PopFrontHooks DEF L!PopFront
  <2> QED
    BY <1>2, <1>5, <2>1, <2>2, <2>3
<1>6. ASSUME NEW l \in Lists, L!Clear(l) \/ L!ClearEnd(l) PROVE ListInv'
  <2>1. HooksBecome(L!Contents)
    BY <1>6, SameHooks DEF L!Clear, L!ClearEnd
  <2>2. Clearing'
    BY <1>6 DEF L!Clear, L!ClearEnd, ListInv, Clearing
  <2> QED
    BY <1>1, <2>1, <2>2
<1>7. ASSUME NEW l \in Lists, L!ClearStep(l) PROVE ListInv'
  <2>1. HooksBecome([L!Contents EXCEPT ![l] = Tail(@)])
    BY <1>7, PopFrontHooks DEF L!ClearStep
  <2>2. clearing' = l /\ clearing = l /\ source' = source
    BY <1>7 DEF L!ClearStep
  <2>3. \A o \in Lists : o # l => L!Contents'[o] = L!Contents[o]
    BY <2>1, ListFacts DEF HooksBecome
  <2>4. Clearing'
    BY <2>2, <2>3, ListConstants DEF ListInv, Clearing
  <2> QED
    BY <1>1, <2>1, <2>4
<1>8. ASSUME NEW l \in Lists, NEW o \in Lists, L!MoveAssign(l, o) PROVE ListInv'
  <2>1. HooksBecome(L!Contents)
    BY <1>8, SameHooks DEF L!MoveAssign
  <2>2. L!Contents[o] # <<>> /\ L!Contents' = L!Contents
    BY <1>8, <2>1, ListFacts DEF L!MoveAssign, NeverFromEmpty, HooksBecome
  <2>3. Clearing'
    BY <1>8, <2>2, ListConstants DEF L!MoveAssign, ListInv, Clearing
  <2> QED
    BY <1>1, <2>1, <2>3
<1>9. ASSUME NEW l \in Lists, NEW o \in Lists, L!AssignEnd(l, o) \/ L!MoveConstruct(l, o)
      PROVE  ListInv'
  <2>1. HooksBecome([L!Contents EXCEPT ![l] = L!Contents[o], ![o] = <<>>])
    BY <1>9, MoveHooks
  <2>2. Clearing'
    BY <1>9 DEF L!AssignEnd, L!MoveConstruct, L!Idle, ListInv, Clearing
  <2> QED
    BY <1>1, <2>1, <2>2
<1>10. ASSUME NEW e \in Elements, L!UnlinkElement(e) PROVE ListInv'
  <2>1. clearing = nullptr /\ UNCHANGED <<clearing, source>>
    BY <1>10 DEF L!UnlinkElement, L!Idle
  <2>2. PICK l \in Lists : \E i \in DOMAIN L!Contents[l] :
          HooksBecome([L!Contents EXCEPT ![l] = L!C!RemoveAt(@, i)])
    BY <1>10, UnlinkElementHooks
  <2> QED
    BY <1>2, <2>1, <2>2
<1> QED
  BY <1>3, <1>4, <1>5, <1>6, <1>7, <1>8, <1>9, <1>10 DEF L!Next

LEMMA ListInvKept == ASSUME NeverFromEmpty PROVE (Init => ListInv) /\ (ListInv /\ [Next]_vars => ListInv')
<1>1. Init => ListInv
  BY ListInvInit DEF Init
<1>2. ASSUME ListInv, [Next]_vars PROVE ListInv'
  <2>1. [L!Next]_lists
    BY <1>2 DEF Next, vars, lists
  <2> QED
    BY <1>2, <2>1, ListInvNext
<1> QED
  BY <1>1, <1>2

(* The hooks of the intrusive lists stay well formed, whatever lists,       *)
(* elements and calls there are: neighbours point at each other, an element *)
(* is in one ring at most, at one place, and IsLinked says whether it is in *)
(* one (intrusive_list.h:9-42, 93-210); also between the pops of a Clear.   *)
(* For programs that never assign from an empty list.                       *)
THEOREM RingsIntact == ASSUME NeverFromEmpty PROVE Spec => []Rings
<1>1. (Init => ListInv) /\ (ListInv /\ [Next]_vars => ListInv')
  BY ListInvKept
<1>2. ListInv => Rings
  BY RingsAre DEF Rings
<1> QED
  BY <1>1, <1>2, PTL DEF Spec

(* Every call of an intrusive list is the call of the same name on the      *)
(* sequence that iteration visits, and changes no other list                *)
(* (intrusive_list.h:93-210); again without assignment from an empty list.  *)
THEOREM ListsImplemented == ASSUME NeverFromEmpty PROVE Spec => ListImplements
<1>1. (Init => ListInv) /\ (ListInv /\ [Next]_vars => ListInv')
  BY ListInvKept
<1>2. Init => L!C!Init
  BY ListInvInit DEF Init
<1>3. ListInv /\ [Next]_vars => [using = "IntrusiveList" => L!ListStep]_vars
  BY ListStepIs
<1> QED
  BY <1>1, <1>2, <1>3, PTL DEF Spec, ListImplements

-----------------------------------------------------------------------------
(* SmallVector.  PushedAll is a fold over the elements; what is pushed     *)
(* after the places t of l is a recursion on the greatest place.            *)
Greatest(t) == CHOOSE m \in t : \A y \in t : m >= y

(* What a fold of pushBackPf has pushed after the places t.                 *)
IsFold(w, s, v, l, T) ==
    w = [t \in SUBSET T |-> IF t = {} THEN s
                            ELSE S!PushedBack(w[t \ {Greatest(t)}], v, l[Greatest(t)])]

LEMMA FoldIs == \A s, v, l : S!PushedAll(s, v, l) = (CHOOSE w : IsFold(w, s, v, l, DOMAIN l))[DOMAIN l]
BY DEF S!PushedAll, S!FoldLeft, S!MapThenFoldSet, S!Max, IsFold, Greatest

LEMMA GreatestIs ==
  ASSUME NEW k \in Nat, NEW t \in SUBSET (1 .. k + 1), k + 1 \in t
  PROVE  Greatest(t) = k + 1
<1>1. \A m \in t : (\A y \in t : m >= y) => m = k + 1
  OBVIOUS
<1>2. \E m \in t : \A y \in t : m >= y
  OBVIOUS
<1> QED
  BY <1>1, <1>2, Zenon DEF Greatest

LEMMA FoldExists ==
  ASSUME NEW s, NEW v, NEW l
  PROVE  \A m \in Nat : \E w : IsFold(w, s, v, l, 1 .. m)
<1> DEFINE held == {m \in Nat : \E w : IsFold(w, s, v, l, 1 .. m)}
<1>1. 0 \in held
  <2> DEFINE w == [t \in SUBSET (1 .. 0) |-> s]
  <2>1. \A t \in SUBSET (1 .. 0) : t = {}
    OBVIOUS
  <2>2. IsFold(w, s, v, l, 1 .. 0)
    BY <2>1 DEF IsFold
  <2> QED
    BY <2>2
<1>2. ASSUME NEW k \in Nat, k \in held PROVE k + 1 \in held
  <2>1. PICK w : IsFold(w, s, v, l, 1 .. k)
    BY <1>2
  <2> DEFINE f(g, t) == IF t = {} THEN s ELSE S!PushedBack(g[t \ {Greatest(t)}], v, l[Greatest(t)])
             u == [t \in SUBSET (1 .. k + 1) |->
                     IF t \subseteq 1 .. k THEN w[t] ELSE S!PushedBack(w[t \ {k + 1}], v, l[k + 1])]
  <2>2. ASSUME NEW t \in SUBSET (1 .. k + 1) PROVE u[t] = f(u, t)
    <3>1. CASE t \subseteq 1 .. k
      <4>1. u[t] = w[t] /\ w[t] = f(w, t)
        BY <2>1, <3>1, Zenon DEF IsFold
      <4>2. t \ {Greatest(t)} \subseteq 1 .. k /\ t \ {Greatest(t)} \in SUBSET (1 .. k + 1)
        BY <3>1, Zenon
      <4>3. u[t \ {Greatest(t)}] = w[t \ {Greatest(t)}]
        BY <4>2
      <4> HIDE DEF u
      <4> QED
        BY <4>1, <4>3
    <3>2. CASE ~(t \subseteq 1 .. k)
      <4>1. k + 1 \in t /\ t # {}
        BY <3>2
      <4>2. Greatest(t) = k + 1
        BY <4>1, GreatestIs
      <4>3. t \ {k + 1} \subseteq 1 .. k /\ t \ {k + 1} \in SUBSET (1 .. k + 1)
        OBVIOUS
      <4>4. u[t \ {k + 1}] = w[t \ {k + 1}] /\ u[t] = S!PushedBack(w[t \ {k + 1}], v, l[k + 1])
        BY <3>2, <4>3
      <4> HIDE DEF u
      <4> QED
        BY <4>1, <4>2, <4>4
    <3> QED
      BY <3>1, <3>2
  <2>3. u = [t \in SUBSET (1 .. k + 1) |-> u[t]]
    OBVIOUS
  <2> HIDE DEF u
  <2>4. u = [t \in SUBSET (1 .. k + 1) |-> f(u, t)]
    BY <2>2, <2>3, Zenon
  <2> QED
    BY <2>4 DEF IsFold
<1>3. Nat \subseteq held
  <2> HIDE DEF held
  <2> QED
    BY <1>1, <1>2, NatSetInduction
<1> QED
  BY <1>3

(* PushedAll pushes the elements of l one after the other.                  *)
LEMMA PushedOneByOne ==
  ASSUME NEW s, NEW v, NEW l \in Seq(Values)
  PROVE  \E r : /\ r[0] = s /\ r[Len(l)] = S!PushedAll(s, v, l)
                /\ \A k \in 0 .. Len(l) - 1 : r[k + 1] = S!PushedBack(r[k], v, l[k + 1])
<1> DEFINE n == Len(l)
           w == CHOOSE f : IsFold(f, s, v, l, 1 .. n)
           r == [k \in 0 .. n |-> w[1 .. k]]
<1>1. n \in Nat /\ DOMAIN l = 1 .. n
  OBVIOUS
<1>2. IsFold(w, s, v, l, 1 .. n)
  BY <1>1, FoldExists, Zenon
<1>3. S!PushedAll(s, v, l) = w[1 .. n]
  BY <1>1, FoldIs
<1> HIDE DEF w, n
<1>4. r[0] = s
  <2>1. 1 .. 0 = {} /\ {} \in SUBSET (1 .. n) /\ 0 \in 0 .. n
    <3>1. \A j : j \notin 1 .. 0
      OBVIOUS
    <3>2. 1 .. 0 = {}
      BY <3>1
    <3>3. {} \in SUBSET (1 .. n)
      OBVIOUS
    <3>4. 0 \in 0 .. n
      BY <1>1
    <3> QED
      BY <3>2, <3>3, <3>4
  <2>2. w[{}] = s
    BY <1>2, <2>1 DEF IsFold
  <2> QED
    BY <2>1, <2>2
<1>5. ASSUME NEW k \in 0 .. n - 1 PROVE r[k + 1] = S!PushedBack(r[k], v, l[k + 1])
  <2>1. /\ k \in Nat /\ k \in 0 .. n /\ k + 1 \in 0 .. n /\ 1 .. k + 1 \in SUBSET (1 .. n)
        /\ 1 .. k + 1 # {} /\ (1 .. k + 1) \ {k + 1} = 1 .. k
    <3>1. k \in Nat /\ k \in 0 .. n /\ k + 1 \in 0 .. n
      BY <1>1
    <3>2. \A j \in 1 .. k + 1 : j \in 1 .. n
      BY <1>1, <3>1
    <3>3. k + 1 \in 1 .. k + 1 /\ \A j : j \in (1 .. k + 1) \ {k + 1} <=> j \in 1 .. k
      BY <3>1
    <3> QED
      BY <3>1, <3>2, <3>3, Zenon
  <2>2. Greatest(1 .. k + 1) = k + 1
    BY <2>1, GreatestIs
  <2>3. w[1 .. k + 1] = S!PushedBack(w[1 .. k], v, l[k + 1])
    BY <1>2, <2>1, <2>2, Zenon DEF IsFold
  <2> QED
    BY <2>1, <2>3
<1>6. r[n] = S!PushedAll(s, v, l)
  BY <1>1, <1>3
<1> HIDE DEF r
<1> QED
  BY <1>4, <1>5, <1>6 DEF n

(* SmallVector.  Members f and memory m, of which nothing is misused.       *)
NoMisuse == FALSE
StateOf(f, m) == [vector |-> f, memory |-> m, misused |-> NoMisuse]

(* The n cells in which the elements of c live, and no more.                *)
Cells(c, n) == [i \in 1 .. n |-> IF i <= Len(c) THEN c[i] ELSE Raw]

Whole(m) == m = [p \in DOMAIN m |-> m[p]]

(* v's members r, in the memory m, stand for c.                             *)
Houses(r, m, v, c) ==
  /\ r = S!Pointers(r.start_, Len(c), r.end_buffer_)
  /\ r.start_ \in {v, nullptr} \union S!Addresses
  /\ r.end_buffer_ \in Nat /\ Len(c) <= r.end_buffer_
  /\ r.start_ = nullptr => r.end_buffer_ = 0
  /\ r.start_ = v => r.end_buffer_ = N
  /\ r.start_ # nullptr => m[r.start_] = Cells(c, r.end_buffer_)
  /\ r.start_ # v => m[v] = Cells(<<>>, N)

Housed(f, m, q) ==
  /\ f = [v \in SmallVectors |-> f[v]]
  /\ Whole(m)
  /\ q \in [SmallVectors -> Seq(Values)]
  /\ DOMAIN m = SmallVectors \union ({f[v].start_ : v \in SmallVectors} \ {nullptr})
  /\ \A v \in SmallVectors : Houses(f[v], m, v, q[v])
  /\ \A v, w \in SmallVectors : f[v].start_ = f[w].start_ /\ f[v].start_ # nullptr => v = w

HousedIn(s, q) == s = StateOf(s.vector, s.memory) /\ Housed(s.vector, s.memory, q)

SmallAssumed ==
  /\ N \in Nat \ {0}
  /\ IsFiniteSet(SmallVectors) /\ nullptr \notin SmallVectors
  /\ SmallLists \subseteq Seq(Values)
  /\ Raw \notin Values
  /\ (SmallVectors \union {nullptr}) \intersect S!Addresses = {}

LEMMA Assumed == SmallAssumed
<1>1. \A s : S!IsFiniteSet(s) <=> IsFiniteSet(s)
  BY DEF S!IsFiniteSet, IsFiniteSet
<1>2. S!SmallVectorAssumption
  BY ContainersAssumption DEF ContainersAssumption
<1> QED
  BY <1>1, <1>2 DEF SmallAssumed, S!SmallVectorAssumption

LEMMA HousedAt ==
  ASSUME NEW f, NEW m, NEW q, Housed(f, m, q)
  PROVE  HousedIn(StateOf(f, m), q)
BY DEF HousedIn, StateOf

(* One vector comes to stand for c, in a room of its own or at p.           *)
LEMMA OneHoused ==
  ASSUME NEW f, NEW m, NEW q, Housed(f, m, q), NEW v \in SmallVectors,
         NEW c \in Seq(Values), NEW p, NEW n, NEW k, Whole(k),
         p \in {v, nullptr, f[v].start_} \union (S!Addresses \ DOMAIN m),
         DOMAIN k = (DOMAIN m \ ({f[v].start_} \ {v})) \union ({p} \ {nullptr}),
         \A a \in DOMAIN m \ {v, f[v].start_} : a \in DOMAIN k => k[a] = m[a],
         Houses(S!Pointers(p, Len(c), n), k, v, c)
  PROVE  Housed([f EXCEPT ![v] = S!Pointers(p, Len(c), n)], k, [q EXCEPT ![v] = c])
<1> DEFINE o == f[v].start_
           r == S!Pointers(p, Len(c), n)
           g == [f EXCEPT ![v] = r]
           h == [q EXCEPT ![v] = c]
<1>1. /\ g = [w \in SmallVectors |-> g[w]] /\ h \in [SmallVectors -> Seq(Values)]
      /\ g[v] = r /\ h[v] = c /\ r.start_ = p
      /\ \A w \in SmallVectors \ {v} : g[w] = f[w] /\ h[w] = q[w]
  BY Zenon DEF Housed, S!Pointers
<1>2. /\ nullptr \notin SmallVectors /\ \A w \in SmallVectors : w \notin S!Addresses
      /\ nullptr \notin S!Addresses
  BY Assumed DEF SmallAssumed
<1>3. /\ \A w \in SmallVectors : f[w].start_ \in {w, nullptr} \union S!Addresses
      /\ \A w \in SmallVectors : f[w].start_ # nullptr => f[w].start_ \in DOMAIN m
      /\ \A w \in SmallVectors : w \in DOMAIN m
      /\ \A w \in SmallVectors \ {v} : f[w].start_ = o => o = nullptr
  BY DEF Housed, Houses
<1>4. ASSUME NEW w \in SmallVectors \ {v} PROVE Houses(g[w], k, w, h[w])
  <2> DEFINE a == f[w].start_
  <2>1. Houses(f[w], m, w, q[w])
    BY DEF Housed
  <2>2. w \in DOMAIN m \ {v, o} /\ w \in DOMAIN k /\ k[w] = m[w]
    BY <1>2, <1>3
  <2>3. a # nullptr => a \in DOMAIN m \ {v, o} /\ a \in DOMAIN k /\ k[a] = m[a]
    BY <1>2, <1>3
  <2> QED
    BY <1>1, <2>1, <2>2, <2>3 DEF Houses
<1>5. DOMAIN k = SmallVectors \union ({g[w].start_ : w \in SmallVectors} \ {nullptr})
  <2>1. ASSUME NEW a \in DOMAIN k
        PROVE  a \in SmallVectors \union ({g[w].start_ : w \in SmallVectors} \ {nullptr})
    <3>1. CASE a = p /\ p # nullptr
      BY <1>1, <3>1
    <3>2. CASE a \in DOMAIN m /\ (a # o \/ a = v)
      <4>1. a \in SmallVectors \/ \E w \in SmallVectors : a = f[w].start_ /\ a # nullptr
        BY <3>2 DEF Housed
      <4>2. a \in SmallVectors \/ \E w \in SmallVectors \ {v} : a = f[w].start_ /\ a # nullptr
        BY <3>2, <4>1
      <4> QED
        BY <1>1, <4>2
    <3> QED
      BY <3>1, <3>2
  <2>2. ASSUME NEW a \in SmallVectors PROVE a \in DOMAIN k
    BY <1>2, <1>3
  <2>3. ASSUME NEW w \in SmallVectors, g[w].start_ # nullptr PROVE g[w].start_ \in DOMAIN k
    <3>1. CASE w = v
      BY <1>1, <2>3, <3>1
    <3>2. CASE w # v
      <4>1. g[w].start_ = f[w].start_ /\ f[w].start_ \in DOMAIN m /\ f[w].start_ # o
        BY <1>1, <1>3, <2>3, <3>2
      <4> QED
        BY <4>1
    <3> QED
      BY <3>1, <3>2
  <2> HIDE DEF g
  <2> QED
    BY <2>1, <2>2, <2>3
<1>6. ASSUME NEW u \in SmallVectors, NEW w \in SmallVectors,
             g[u].start_ = g[w].start_, g[u].start_ # nullptr
      PROVE  u = w
  <2>1. ASSUME NEW y \in SmallVectors \ {v}, f[y].start_ = p PROVE p = nullptr
    BY <1>2, <1>3, <2>1
  <2>2. CASE u # v /\ w # v
    BY <1>1, <1>6, <2>2 DEF Housed
  <2>3. CASE u = v \/ w = v
    BY <1>1, <1>6, <2>1, <2>3
  <2> QED
    BY <2>2, <2>3
<1> HIDE DEF g, h, r
<1>7. Houses(g[v], k, v, h[v])
  BY <1>1 DEF r
<1>8. \A w \in SmallVectors : Houses(g[w], k, w, h[w])
  BY <1>4, <1>7
<1>9. Housed(g, k, h)
  BY <1>1, <1>5, <1>6, <1>8, Zenon DEF Housed
<1> QED
  BY <1>9 DEF g, h, r

(* The elements of v.                                                       *)
LEMMA HousedContents ==
  ASSUME NEW f, NEW m, NEW q, Housed(f, m, q), NEW v \in SmallVectors
  PROVE  S!Contents(StateOf(f, m), v) = q[v]
<1>1. Houses(f[v], m, v, q[v]) /\ q[v] \in Seq(Values)
  BY DEF Housed
<1>2. f[v].end_ = Len(q[v]) /\ q[v] = [i \in 1 .. Len(q[v]) |-> q[v][i]]
  BY <1>1 DEF Houses, S!Pointers
<1>3. S!Contents(StateOf(f, m), v) = [i \in 1 .. Len(q[v]) |-> m[f[v].start_][i]]
  BY <1>2 DEF S!Contents, StateOf
<1>4. ASSUME NEW i \in 1 .. Len(q[v]) PROVE m[f[v].start_][i] = q[v][i]
  <2>1. Len(q[v]) \in Nat /\ f[v].end_buffer_ \in Nat /\ Len(q[v]) <= f[v].end_buffer_
    BY <1>1 DEF Houses
  <2>2. f[v].start_ # nullptr
    BY <1>1, <2>1 DEF Houses
  <2>3. i \in 1 .. f[v].end_buffer_ /\ i <= Len(q[v])
    BY <2>1
  <2> QED
    BY <1>1, <2>2, <2>3 DEF Houses, Cells
<1> QED
  BY <1>2, <1>3, <1>4, Zenon

-----------------------------------------------------------------------------
(* The steps that the calls are built from.                                 *)
LEMMA CellsLonger ==
  ASSUME NEW c \in Seq(Values), NEW n \in Nat, Len(c) < n, NEW x \in Values
  PROVE  /\ Cells(c, n)[Len(c) + 1] = Raw
         /\ [Cells(c, n) EXCEPT ![Len(c) + 1] = x] = Cells(Append(c, x), n)
<1>1. Len(c) + 1 \in 1 .. n /\ Len(Append(c, x)) = Len(c) + 1
  OBVIOUS
<1>2. Cells(c, n)[Len(c) + 1] = Raw
  BY <1>1 DEF Cells
<1>3. \A i \in 1 .. n : [Cells(c, n) EXCEPT ![Len(c) + 1] = x][i] = Cells(Append(c, x), n)[i]
  BY <1>1 DEF Cells
<1>4. /\ [Cells(c, n) EXCEPT ![Len(c) + 1] = x] = [i \in 1 .. n |-> [Cells(c, n) EXCEPT ![Len(c) + 1] = x][i]]
      /\ Cells(Append(c, x), n) = [i \in 1 .. n |-> Cells(Append(c, x), n)[i]]
  BY Zenon DEF Cells
<1> QED
  BY <1>2, <1>3, <1>4, Zenon

LEMMA NotWrong ==
  ASSUME NEW f, NEW m, NEW b \in BOOLEAN, ~b
  PROVE  S!Wrong(StateOf(f, m), b) = StateOf(f, m)
<1>1. StateOf(f, m).misused = NoMisuse
  BY DEF StateOf
<1>2. (StateOf(f, m).misused \/ b) = NoMisuse
  BY <1>1, Zenon DEF NoMisuse
<1>3. S!Wrong(StateOf(f, m), b) = [StateOf(f, m) EXCEPT !.misused = NoMisuse]
  BY <1>2, Zenon DEF S!Wrong
<1>4. [StateOf(f, m) EXCEPT !.misused = NoMisuse] = StateOf(f, m)
  BY DEF StateOf
<1> QED
  BY <1>3, <1>4

LEMMA ConstructIs ==
  ASSUME NEW f, NEW m, Whole(m), NEW p \in DOMAIN m, NEW c \in Seq(Values),
         NEW n \in Nat, Len(c) < n, m[p] = Cells(c, n), NEW x \in Values
  PROVE  S!Construct(StateOf(f, m), p, Len(c) + 1, x) = StateOf(f, [m EXCEPT ![p] = Cells(Append(c, x), n)])
<1> DEFINE i == Len(c) + 1
<1>1. m[p][i] = Raw /\ [m[p] EXCEPT ![i] = x] = Cells(Append(c, x), n)
  BY CellsLonger
<1> HIDE DEF i
<1>2. S!Wrong(StateOf(f, m), m[p][i] # Raw) = StateOf(f, m)
  BY <1>1, NotWrong, Zenon
<1>3. StateOf(f, m).memory = m
  BY DEF StateOf
<1>4. S!Construct(StateOf(f, m), p, i, x) = [StateOf(f, m) EXCEPT !.memory[p][i] = x]
  BY <1>2, <1>3 DEF S!Construct
<1>5. S!Construct(StateOf(f, m), p, i, x) = StateOf(f, [m EXCEPT ![p] = [m[p] EXCEPT ![i] = x]])
  BY <1>4, Zenon DEF StateOf
<1> QED
  BY <1>1, <1>5, Zenon DEF i

LEMMA DestroyedIs ==
  ASSUME NEW f, NEW m, Whole(m), NEW p \in DOMAIN m, NEW c \in Seq(Values),
         NEW n \in Nat, Len(c) <= n, m[p] = Cells(c, n)
  PROVE  S!Destroyed(StateOf(f, m), p, Len(c)) = StateOf(f, [m EXCEPT ![p] = Cells(<<>>, n)])
<1> DEFINE e == [j \in DOMAIN m[p] |-> IF j <= Len(c) THEN Raw ELSE m[p][j]]
<1>1. Len(c) \in Nat /\ \A j \in 1 .. Len(c) : m[p][j] # Raw
  <2>1. \A j \in 1 .. Len(c) : m[p][j] = c[j] /\ c[j] \in Values
    BY DEF Cells
  <2> QED
    BY <2>1, Assumed DEF SmallAssumed
<1>2. Cells(<<>>, n) = [j \in 1 .. n |-> Raw]
  BY DEF Cells
<1>3. e = Cells(<<>>, n)
  BY <1>2 DEF Cells
<1>4. CASE Len(c) = 0
  <2>1. m[p] = Cells(<<>>, n)
    BY <1>2, <1>4 DEF Cells
  <2>2. [m EXCEPT ![p] = m[p]] = m
    BY DEF Whole
  <2> QED
    BY <1>4, <2>1, <2>2 DEF S!Destroyed
<1>5. CASE Len(c) # 0
  <2> DEFINE b == \E j \in 1 .. Len(c) : m[p][j] = Raw
  <2>2. S!Wrong(StateOf(f, m), b) = StateOf(f, m)
    BY <1>1, NotWrong, Zenon
  <2>3. StateOf(f, m).memory = m
    BY DEF StateOf
  <2>4. S!Destroyed(StateOf(f, m), p, Len(c)) = [StateOf(f, m) EXCEPT !.memory[p] = e]
    BY <1>1, <1>5, <2>2, <2>3, Zenon DEF S!Destroyed
  <2> HIDE DEF e
  <2>1. S!Destroyed(StateOf(f, m), p, Len(c)) = StateOf(f, [m EXCEPT ![p] = e])
    BY <2>4 DEF StateOf
  <2> QED
    BY <1>3, <2>1
<1> QED
  BY <1>4, <1>5

LEMMA DeletedIs ==
  ASSUME NEW f, NEW m, Whole(m), NEW p \in DOMAIN m, NEW n \in Nat, m[p] = Cells(<<>>, n)
  PROVE  S!Deleted(StateOf(f, m), p) = StateOf(f, [a \in DOMAIN m \ {p} |-> m[a]])
<1>1. \A x \in S!Range(m[p]) : x = Raw
  BY DEF S!Range, Cells
<1> DEFINE b == p # nullptr /\ (p \notin DOMAIN m \/ \E x \in S!Range(m[p]) : x # Raw)
<1>2. S!Wrong(StateOf(f, m), b) = StateOf(f, m)
  BY <1>1, NotWrong, Zenon
<1>3. StateOf(f, m).memory = m
  BY DEF StateOf
<1>4. S!Deleted(StateOf(f, m), p) = [StateOf(f, m) EXCEPT !.memory = [a \in DOMAIN m \ {p} |-> m[a]]]
  BY <1>2, <1>3 DEF S!Deleted, StateOf
<1> QED
  BY <1>4 DEF StateOf

LEMMA DeletedNull ==
  ASSUME NEW f, NEW m, Whole(m), nullptr \notin DOMAIN m
  PROVE  S!Deleted(StateOf(f, m), nullptr) = StateOf(f, m)
<1>1. DOMAIN m \ {nullptr} = DOMAIN m
  OBVIOUS
<1> DEFINE b == nullptr # nullptr /\ (nullptr \notin DOMAIN m \/ \E x \in S!Range(m[nullptr]) : x # Raw)
<1>2. S!Wrong(StateOf(f, m), b) = StateOf(f, m)
  BY NotWrong, Zenon
<1>3. StateOf(f, m).memory = m
  BY DEF StateOf
<1>4. S!Deleted(StateOf(f, m), nullptr) = [StateOf(f, m) EXCEPT !.memory = m]
  BY <1>1, <1>2, <1>3 DEF S!Deleted, StateOf, Whole
<1> QED
  BY <1>4 DEF StateOf

(* Growing finds an address.                                                *)
LEMMA FreshIs ==
  ASSUME NEW f, NEW m, NEW q, Housed(f, m, q)
  PROVE  S!Fresh(StateOf(f, m)) \in S!Addresses \ DOMAIN m
<1> DEFINE vs == SmallVectors
           starts == {f[v].start_ : v \in vs}
<1>1. IsFiniteSet(vs) /\ Cardinality(vs) \in Nat /\ vs \intersect S!Addresses = {} /\ nullptr \notin S!Addresses
  BY Assumed, FS_CardinalityType DEF SmallAssumed
<1>2. IsFiniteSet(starts) /\ Cardinality(starts) <= Cardinality(vs)
  <2> DEFINE g == [v \in vs |-> f[v].start_]
  <2>1. g \in Surjection(vs, starts)
    BY DEF Surjection
  <2> HIDE DEF g, starts
  <2> QED
    BY <1>1, <2>1, FS_Surjection
<1>3. IsFiniteSet(S!Addresses) /\ Cardinality(S!Addresses) = Cardinality(vs) + 1
  <2> DEFINE n == Cardinality(vs)
  <2>1. S!Addresses = 0 .. n /\ n \in Nat
    BY <1>1 DEF S!Addresses, S!Cardinality, Cardinality, S!IsFiniteSet, IsFiniteSet
  <2> HIDE DEF n
  <2>2. IsFiniteSet(0 .. n) /\ Cardinality(0 .. n) = n - 0 + 1
    BY <2>1, FS_Interval
  <2> QED
    BY <2>1, <2>2 DEF n
<1>4. ASSUME S!Addresses \subseteq DOMAIN m PROVE FALSE
  <2>1. S!Addresses \subseteq starts
    BY <1>1, <1>4 DEF Housed
  <2>2. Cardinality(S!Addresses) <= Cardinality(starts)
    <3> HIDE DEF starts
    <3> QED
      BY <1>2, <2>1, FS_Subset
  <2>3. Cardinality(starts) \in Nat
    <3> HIDE DEF starts
    <3> QED
      BY <1>2, FS_CardinalityType
  <2> QED
    BY <1>1, <1>2, <1>3, <2>2, <2>3
<1>5. PICK a : a \in S!Addresses \ DOMAIN m
  BY <1>4
<1> QED
  BY <1>5 DEF S!Fresh, StateOf

LEMMA ReassignedIs ==
  ASSUME NEW f, NEW m, NEW v, NEW r
  PROVE  [StateOf(f, m) EXCEPT !.vector[v] = r] = StateOf([f EXCEPT ![v] = r], m)
BY DEF StateOf

(* clear(): the elements end, the room stays.                               *)
LEMMA ClearedIs ==
  ASSUME NEW f, NEW m, NEW q, Housed(f, m, q), NEW v \in SmallVectors
  PROVE  \E k : /\ S!Cleared(StateOf(f, m), v)
                     = StateOf([f EXCEPT ![v] = S!Pointers(f[v].start_, 0, f[v].end_buffer_)], k)
                /\ Housed([f EXCEPT ![v] = S!Pointers(f[v].start_, 0, f[v].end_buffer_)], k,
                          [q EXCEPT ![v] = <<>>])
<1> DEFINE o == f[v].start_
           c == q[v]
           n == f[v].end_buffer_
           k == IF o = nullptr THEN m ELSE [m EXCEPT ![o] = Cells(<<>>, n)]
           g == [f EXCEPT ![v] = S!Pointers(o, 0, n)]
<1>1. /\ Houses(f[v], m, v, c) /\ c \in Seq(Values) /\ Whole(m) /\ Len(c) \in Nat /\ n \in Nat
      /\ f[v].end_ = Len(c) /\ Len(c) <= n /\ f = [w \in SmallVectors |-> f[w]]
      /\ f[v] = S!Pointers(o, Len(c), n)
      /\ o # nullptr => o \in DOMAIN m /\ m[o] = Cells(c, n)
      /\ o = nullptr => n = 0 /\ Len(c) = 0
      /\ Whole(k) /\ DOMAIN k = DOMAIN m /\ nullptr \notin DOMAIN m
  <2>1. /\ Houses(f[v], m, v, c) /\ c \in Seq(Values) /\ Whole(m) /\ f = [w \in SmallVectors |-> f[w]]
        /\ o # nullptr => o \in DOMAIN m
        /\ nullptr \notin DOMAIN m
    BY Assumed DEF Housed, SmallAssumed
  <2>2. Len(c) \in Nat
    BY <2>1
  <2>3. /\ n \in Nat /\ Len(c) <= n /\ f[v] = S!Pointers(o, Len(c), n)
        /\ o # nullptr => m[o] = Cells(c, n)
        /\ o = nullptr => n = 0
    BY <2>1 DEF Houses
  <2>4. f[v].end_ = Len(c)
    BY <2>3 DEF S!Pointers
  <2>5. Whole(k) /\ DOMAIN k = DOMAIN m
    BY <2>1 DEF Whole
  <2>6. o = nullptr => Len(c) = 0
    BY <2>2, <2>3
  <2> HIDE DEF o, c, n, k
  <2> QED
    BY <2>1, <2>2, <2>3, <2>4, <2>5, <2>6
<1>2. S!Destroyed(StateOf(f, m), o, Len(c)) = StateOf(f, k)
  <2>1. CASE o = nullptr
    BY <1>1, <2>1, Zenon DEF S!Destroyed
  <2>2. CASE o # nullptr
    BY <1>1, <2>2, DestroyedIs
  <2> QED
    BY <2>1, <2>2
<1>3. S!Cleared(StateOf(f, m), v) = StateOf(g, k)
  <2>1. StateOf(f, m).vector[v].start_ = o /\ StateOf(f, m).vector[v].end_ = Len(c)
    BY <1>1 DEF StateOf
  <2>2. S!Cleared(StateOf(f, m), v) = [StateOf(f, k) EXCEPT !.vector[v].end_ = 0]
    BY <1>2, <2>1, Zenon DEF S!Cleared
  <2>3. [f[v] EXCEPT !.end_ = 0] = S!Pointers(o, 0, n)
    BY <1>1 DEF S!Pointers
  <2>4. [StateOf(f, k) EXCEPT !.vector[v].end_ = 0] = StateOf([f EXCEPT ![v] = [f[v] EXCEPT !.end_ = 0]], k)
    BY DEF StateOf
  <2> QED
    BY <2>2, <2>3, <2>4, Zenon
<1>4. Housed(g, k, [q EXCEPT ![v] = <<>>])
  <2>1. Houses(S!Pointers(o, 0, n), k, v, <<>>)
    BY <1>1 DEF Houses, S!Pointers, Housed
  <2>2. DOMAIN k = (DOMAIN m \ ({o} \ {v})) \union ({o} \ {nullptr})
    <3>1. v \in DOMAIN m
      BY DEF Housed
    <3> HIDE DEF o, k
    <3> QED
      BY <1>1, <3>1, Zenon
  <2>3. \A a \in DOMAIN m \ {v, o} : k[a] = m[a]
    OBVIOUS
  <2>4. Len(<<>>) = 0 /\ <<>> \in Seq(Values)
    OBVIOUS
  <2> HIDE DEF k, n
  <2>6. Whole(k) /\ o \in {v, nullptr, o} \union (S!Addresses \ DOMAIN m)
    BY <1>1
  <2>7. Houses(S!Pointers(o, Len(<<>>), n), k, v, <<>>)
    BY <2>1, <2>4
  <2>5. Housed([f EXCEPT ![v] = S!Pointers(o, Len(<<>>), n)], k, [q EXCEPT ![v] = <<>>])
    BY <2>7, <2>6, <2>2, <2>3, <2>4, OneHoused, Zenon
  <2> QED
    BY <2>4, <2>5
<1> HIDE DEF k, g
<1> QED
  BY <1>3, <1>4 DEF g

(* ~VectorBase: what is left is as for a vector that has no room.           *)
LEMMA EndedIs ==
  ASSUME NEW f, NEW m, NEW q, Housed(f, m, q), NEW v \in SmallVectors
  PROVE  \E r, k : /\ S!Ended(StateOf(f, m), v) = StateOf([f EXCEPT ![v] = r], k)
                   /\ Housed([f EXCEPT ![v] = S!Pointers(nullptr, 0, 0)], k, [q EXCEPT ![v] = <<>>])
<1> DEFINE o == f[v].start_
           n == f[v].end_buffer_
           r == S!Pointers(o, 0, n)
           g == [f EXCEPT ![v] = r]
           h == [q EXCEPT ![v] = <<>>]
           l == [f EXCEPT ![v] = S!Pointers(nullptr, 0, 0)]
<1>1. PICK k : S!Cleared(StateOf(f, m), v) = StateOf(g, k) /\ Housed(g, k, h)
  BY ClearedIs, Zenon
<1>2. /\ f = [w \in SmallVectors |-> f[w]] /\ q \in [SmallVectors -> Seq(Values)]
      /\ g[v] = r /\ r.start_ = o /\ r.end_buffer_ = n /\ h[v] = <<>>
      /\ l = [g EXCEPT ![v] = S!Pointers(nullptr, 0, 0)] /\ h = [h EXCEPT ![v] = <<>>]
  BY Zenon DEF Housed, S!Pointers
<1>3. /\ Whole(k) /\ Houses(r, k, v, <<>>) /\ v \in DOMAIN k
      /\ o # nullptr => o \in DOMAIN k
  BY <1>1, <1>2 DEF Housed
<1>4. /\ n \in Nat
      /\ o # nullptr => k[o] = Cells(<<>>, n)
      /\ o \in {v, nullptr} \union S!Addresses
      /\ o = v => n = N
      /\ o # v => k[v] = Cells(<<>>, N)
  BY <1>2, <1>3 DEF Houses
<1>5. v # nullptr /\ nullptr \notin DOMAIN k
  BY <1>1, Assumed DEF SmallAssumed, Housed
<1>6. StateOf(g, k).vector[v].start_ = o
  BY <1>2 DEF StateOf
<1>7. Len(<<>>) = 0 /\ <<>> \in Seq(Values)
  OBVIOUS
<1>8. ASSUME NEW j, Whole(j), DOMAIN j = DOMAIN k \ ({o} \ {v}),
             \A a \in DOMAIN k \ {o} : j[a] = k[a], j[v] = Cells(<<>>, N)
      PROVE  Housed(l, j, h)
  <2>1. Houses(S!Pointers(nullptr, 0, 0), j, v, <<>>)
    BY <1>5, <1>7, <1>8 DEF Houses, S!Pointers
  <2>2. DOMAIN j = (DOMAIN k \ ({g[v].start_} \ {v})) \union ({nullptr} \ {nullptr})
    BY <1>2, <1>8
  <2>3. \A a \in DOMAIN k \ {v, g[v].start_} : j[a] = k[a]
    BY <1>2, <1>8
  <2> HIDE DEF g, h, l, r, o, n
  <2>4. Housed([g EXCEPT ![v] = S!Pointers(nullptr, Len(<<>>), 0)], j, [h EXCEPT ![v] = <<>>])
    BY <1>1, <1>7, <1>8, <2>1, <2>2, <2>3, OneHoused, Zenon
  <2> QED
    BY <1>2, <1>7, <2>4
<1> HIDE DEF g, h, l, r, n
<1>9. CASE o = v
  <2>1. S!Ended(StateOf(f, m), v) = StateOf(g, k)
    BY <1>1, <1>6, <1>9 DEF S!Ended, S!DeletedUnlessSmall, S!IsSmall
  <2>3. DOMAIN k = DOMAIN k \ ({o} \ {v}) /\ k[v] = Cells(<<>>, N)
    BY <1>4, <1>5, <1>9, Zenon
  <2> HIDE DEF o
  <2>2. Housed(l, k, h)
    BY <1>3, <1>8, <2>3
  <2> QED
    BY <2>1, <2>2, Zenon DEF g, l, h
<1>10. CASE o = nullptr
  <2>1. S!Ended(StateOf(f, m), v) = S!Deleted(StateOf(g, k), nullptr)
    BY <1>1, <1>5, <1>6, <1>10 DEF S!Ended, S!DeletedUnlessSmall, S!IsSmall
  <2>2. S!Deleted(StateOf(g, k), nullptr) = StateOf(g, k)
    BY <1>3, <1>5, DeletedNull
  <2>3. Housed(l, k, h)
    BY <1>3, <1>4, <1>5, <1>8, <1>10, Zenon
  <2> QED
    BY <2>1, <2>2, <2>3, Zenon DEF g, l, h
<1>11. CASE o # v /\ o # nullptr
  <2> DEFINE j == [a \in DOMAIN k \ {o} |-> k[a]]
  <2>1. S!Ended(StateOf(f, m), v) = S!Deleted(StateOf(g, k), o)
    BY <1>1, <1>5, <1>6, <1>11 DEF S!Ended, S!DeletedUnlessSmall, S!IsSmall
  <2>2. S!Deleted(StateOf(g, k), o) = StateOf(g, j)
    <3> HIDE DEF o
    <3> QED
      <4>1. o \in DOMAIN k /\ k[o] = Cells(<<>>, n) /\ n \in Nat /\ Whole(k)
        BY <1>3, <1>4, <1>11
      <4>2. S!Deleted(StateOf(g, k), o) = StateOf(g, [a \in DOMAIN k \ {o} |-> k[a]])
        BY <4>1, DeletedIs
      <4> QED
        BY <4>2
  <2>3. Whole(j) /\ DOMAIN j = DOMAIN k \ {o} /\ \A a \in DOMAIN k \ {o} : j[a] = k[a]
    BY DEF Whole
  <2> HIDE DEF j
  <2>4. Housed(l, j, h)
    BY <1>3, <1>4, <1>5, <1>8, <1>11, <2>3, Zenon
  <2> QED
    BY <2>1, <2>2, <2>4, Zenon DEF g, l, h
<1> QED
  BY <1>9, <1>10, <1>11, Zenon

(* What is left in v's pointers then makes no difference.                   *)
SameBut(v, f, g) ==
  /\ DOMAIN f = SmallVectors /\ DOMAIN g = SmallVectors
  /\ \A w \in SmallVectors \ {v} : f[w] = g[w]

LEMMA ReassignedForgets ==
  ASSUME NEW v \in SmallVectors, NEW f, NEW g, SameBut(v, f, g)
  PROVE  \A k, p, n, c : S!Reassigned(StateOf(f, k), v, p, n, c) = S!Reassigned(StateOf(g, k), v, p, n, c)
<1> SUFFICES ASSUME NEW k, NEW p, NEW n, NEW c
             PROVE  S!Reassigned(StateOf(f, k), v, p, n, c) = S!Reassigned(StateOf(g, k), v, p, n, c)
  OBVIOUS
<1> DEFINE x == S!Pointers(p, n, c)
<1> HIDE DEF x
<1>1. [f EXCEPT ![v] = x] = [g EXCEPT ![v] = x]
  BY Zenon DEF SameBut
<1>2. [StateOf(f, k) EXCEPT !.vector[v] = x] = [StateOf(g, k) EXCEPT !.vector[v] = x]
  BY <1>1 DEF StateOf
<1> QED
  BY <1>2 DEF S!Reassigned, x

LEMMA OwnRoomForgets ==
  ASSUME NEW v \in SmallVectors, NEW f, NEW g, SameBut(v, f, g), NEW k
  PROVE  S!OwnRoom(StateOf(f, k), v) = S!OwnRoom(StateOf(g, k), v)
BY ReassignedForgets DEF S!OwnRoom

LEMMA ReservedForgets ==
  ASSUME NEW v \in SmallVectors, NEW f, NEW g, SameBut(v, f, g), NEW k, NEW n
  PROVE  S!Reserved(StateOf(f, k), v, n) = S!Reserved(StateOf(g, k), v, n)
<1> DEFINE a == StateOf(f, k)
           b == StateOf(g, k)
           p == S!Fresh(a)
           j == [c \in DOMAIN k \union {p} |-> IF c \in DOMAIN k THEN k[c] ELSE S!Blank(n)]
<1>1. a.memory = k /\ b.memory = k
  BY DEF StateOf
<1>2. S!Fresh(a) = S!Fresh(b)
  BY <1>1 DEF S!Fresh
<1>3. S!Allocated(a, n) = StateOf(f, j) /\ S!Allocated(b, n) = StateOf(g, j)
  <2> HIDE DEF p
  <2> QED
    BY <1>2 DEF S!Allocated, StateOf, p
<1>4. \A c, d, e : S!Reassigned(S!Allocated(a, n), v, c, d, e) = S!Reassigned(S!Allocated(b, n), v, c, d, e)
  <2> HIDE DEF j
  <2> QED
    BY <1>3, ReassignedForgets
<1>5. S!OwnRoom(a, v) = S!OwnRoom(b, v)
  BY OwnRoomForgets
<1> HIDE DEF a, b
<1>6. S!Reserved(a, v, n) = S!Reserved(b, v, n)
  BY <1>2, <1>4, <1>5 DEF S!Reserved
<1> QED
  BY <1>6 DEF a, b

LEMMA TakenForgets ==
  ASSUME NEW v \in SmallVectors, NEW f, NEW g, SameBut(v, f, g), NEW k,
         NEW other \in SmallVectors \ {v}, NEW e
  PROVE  S!Taken(StateOf(f, k), v, other, e) = S!Taken(StateOf(g, k), v, other, e)
<1> DEFINE a == StateOf(f, k)
           b == StateOf(g, k)
<1>1. a.vector[other] = f[other] /\ b.vector[other] = f[other]
  BY DEF StateOf, SameBut
<1>2. [a EXCEPT !.vector[v] = f[other], !.vector[other] = e]
      = [b EXCEPT !.vector[v] = f[other], !.vector[other] = e]
  <2>1. /\ [a EXCEPT !.vector[v] = f[other], !.vector[other] = e]
           = [[a EXCEPT !.vector[v] = f[other]] EXCEPT !.vector[other] = e]
        /\ [b EXCEPT !.vector[v] = f[other], !.vector[other] = e]
           = [[b EXCEPT !.vector[v] = f[other]] EXCEPT !.vector[other] = e]
    BY DEF StateOf
  <2>2. [a EXCEPT !.vector[v] = f[other]] = [b EXCEPT !.vector[v] = f[other]]
    <3> DEFINE x == f[other]
    <3> HIDE DEF x
    <3>1. [f EXCEPT ![v] = x] = [g EXCEPT ![v] = x]
      BY Zenon DEF SameBut
    <3>2. [StateOf(f, k) EXCEPT !.vector[v] = x] = [StateOf(g, k) EXCEPT !.vector[v] = x]
      BY <3>1 DEF StateOf
    <3> QED
      BY <3>2 DEF x
  <2> HIDE DEF a, b
  <2> QED
    BY <2>1, <2>2, Zenon
<1>3. /\ [a EXCEPT !.vector[v] = a.vector[other], !.vector[other] = e]
         = [a EXCEPT !.vector[v] = f[other], !.vector[other] = e]
      /\ [b EXCEPT !.vector[v] = b.vector[other], !.vector[other] = e]
         = [b EXCEPT !.vector[v] = f[other], !.vector[other] = e]
  BY <1>1
<1>4. S!IsSmall(a, other) <=> S!IsSmall(b, other)
  BY <1>1 DEF S!IsSmall
<1>5. S!OwnRoom(a, v) = S!OwnRoom(b, v)
  BY OwnRoomForgets
<1> HIDE DEF a, b
<1>6. S!Taken(a, v, other, e) = S!Taken(b, v, other, e)
  BY <1>2, <1>3, <1>4, <1>5 DEF S!Taken
<1> QED
  BY <1>6 DEF a, b

(* What the members of a vector that stands for c say of memory.            *)
LEMMA HousedFacts ==
  ASSUME NEW f, NEW m, NEW q, Housed(f, m, q), NEW v \in SmallVectors
  PROVE  LET o == f[v].start_
             n == f[v].end_buffer_
             c == q[v] IN
         /\ Whole(m) /\ f = [w \in SmallVectors |-> f[w]] /\ q \in [SmallVectors -> Seq(Values)]
         /\ c \in Seq(Values) /\ Len(c) \in Nat /\ n \in Nat /\ Len(c) <= n
         /\ f[v] = S!Pointers(o, Len(c), n) /\ f[v].end_ = Len(c)
         /\ o \in {v, nullptr} \union S!Addresses /\ v \in DOMAIN m
         /\ o # nullptr => o \in DOMAIN m /\ m[o] = Cells(c, n)
         /\ o = nullptr => n = 0 /\ Len(c) = 0
         /\ o = v => n = N
         /\ o # v => m[v] = Cells(<<>>, N)
         /\ nullptr \notin DOMAIN m /\ v # nullptr /\ v \notin S!Addresses
<1> DEFINE o == f[v].start_
           n == f[v].end_buffer_
           c == q[v]
<1>1. /\ Houses(f[v], m, v, c) /\ c \in Seq(Values) /\ Whole(m) /\ f = [w \in SmallVectors |-> f[w]]
      /\ q \in [SmallVectors -> Seq(Values)]
      /\ o # nullptr => o \in DOMAIN m
      /\ nullptr \notin DOMAIN m /\ v \in DOMAIN m /\ v # nullptr /\ v \notin S!Addresses
  BY Assumed DEF Housed, SmallAssumed
<1>2. Len(c) \in Nat
  BY <1>1
<1>3. /\ n \in Nat /\ Len(c) <= n /\ f[v] = S!Pointers(o, Len(c), n)
      /\ o \in {v, nullptr} \union S!Addresses
      /\ o # nullptr => m[o] = Cells(c, n)
      /\ o = nullptr => n = 0
      /\ o = v => n = N
      /\ o # v => m[v] = Cells(<<>>, N)
  BY <1>1 DEF Houses
<1>4. f[v].end_ = Len(c)
  BY <1>3 DEF S!Pointers
<1>5. o = nullptr => Len(c) = 0
  BY <1>2, <1>3
<1> HIDE DEF o, c, n
<1> QED
  BY <1>1, <1>2, <1>3, <1>4, <1>5 DEF o, c, n

LEMMA HousesIs ==
  ASSUME NEW v \in SmallVectors, NEW p, NEW n \in Nat, NEW k, NEW c \in Seq(Values),
         p \in {v, nullptr} \union S!Addresses, Len(c) <= n,
         p = nullptr => n = 0, p = v => n = N,
         p # nullptr => k[p] = Cells(c, n), p # v => k[v] = Cells(<<>>, N)
  PROVE  Houses(S!Pointers(p, Len(c), n), k, v, c)
BY DEF Houses, S!Pointers

LEMMA OwnRoomIs ==
  ASSUME NEW f, NEW m, NEW q, Housed(f, m, q), NEW v \in SmallVectors,
         f[v] = S!Pointers(nullptr, 0, 0), q[v] = <<>>
  PROVE  HousedIn(S!OwnRoom(StateOf(f, m), v), q)
<1> DEFINE g == [f EXCEPT ![v] = S!Pointers(v, 0, N)]
<1>1. S!OwnRoom(StateOf(f, m), v) = StateOf(g, m)
  BY DEF S!OwnRoom, S!Reassigned, StateOf
<1>2. f[v].start_ = nullptr
  BY DEF S!Pointers
<1>3. /\ Whole(m) /\ nullptr \notin DOMAIN m /\ v # nullptr /\ v \in DOMAIN m
      /\ m[v] = Cells(<<>>, N) /\ q \in [SmallVectors -> Seq(Values)]
  BY <1>2, HousedFacts
<1>4. Len(<<>>) = 0 /\ <<>> \in Seq(Values) /\ N \in Nat /\ 0 <= N
  BY Assumed DEF SmallAssumed
<1>5. Houses(S!Pointers(v, Len(<<>>), N), m, v, <<>>)
  BY <1>3, <1>4, HousesIs, Zenon
<1>6. DOMAIN m = (DOMAIN m \ ({f[v].start_} \ {v})) \union ({v} \ {nullptr})
  BY <1>2, <1>3, Zenon
<1>7. Housed([f EXCEPT ![v] = S!Pointers(v, Len(<<>>), N)], m, [q EXCEPT ![v] = <<>>])
  BY <1>3, <1>4, <1>5, <1>6, OneHoused, Zenon
<1>8. [q EXCEPT ![v] = <<>>] = q
  BY <1>3
<1> QED
  BY <1>1, <1>4, <1>7, <1>8, HousedAt

(* operator new.                                                            *)
Enlarged(m, p, n) ==
  [a \in DOMAIN m \union {p} |-> IF a \in DOMAIN m THEN m[a] ELSE Cells(<<>>, n)]

LEMMA AllocatedIs ==
  ASSUME NEW f, NEW m, NEW n
  PROVE  S!Allocated(StateOf(f, m), n) = StateOf(f, Enlarged(m, S!Fresh(StateOf(f, m)), n))
<1> DEFINE p == S!Fresh(StateOf(f, m))
<1>1. S!Blank(n) = Cells(<<>>, n)
  <2>1. \A i \in 1 .. n : ~(i <= Len(<<>>))
    OBVIOUS
  <2> QED
    BY <2>1 DEF S!Blank, Cells
<1>2. StateOf(f, m).memory = m
  BY DEF StateOf
<1>3. S!Allocated(StateOf(f, m), n) = [StateOf(f, m) EXCEPT !.memory = Enlarged(m, p, n)]
  BY <1>1, <1>2 DEF S!Allocated, Enlarged
<1> HIDE DEF p
<1> QED
  BY <1>3 DEF StateOf, p

LEMMA ReservedIs ==
  ASSUME NEW f, NEW m, NEW q, Housed(f, m, q), NEW v \in SmallVectors,
         f[v] = S!Pointers(nullptr, 0, 0), q[v] = <<>>, NEW n \in Nat
  PROVE  HousedIn(S!Reserved(StateOf(f, m), v, n), q)
<1>1. CASE ~(n > N)
  BY <1>1, OwnRoomIs DEF S!Reserved
<1>2. CASE n > N
  <2> DEFINE p == S!Fresh(StateOf(f, m))
             k == Enlarged(m, p, n)
  <2>1. p \in S!Addresses \ DOMAIN m
    BY FreshIs
  <2>2. S!Allocated(StateOf(f, m), n) = StateOf(f, k)
    BY AllocatedIs
  <2>3. /\ Whole(m) /\ nullptr \notin DOMAIN m /\ v # nullptr /\ v \in DOMAIN m
        /\ m[v] = Cells(<<>>, N) /\ q \in [SmallVectors -> Seq(Values)] /\ f[v].start_ = nullptr
    BY HousedFacts DEF S!Pointers
  <2> HIDE DEF p
  <2>4. /\ Whole(k) /\ k[v] = Cells(<<>>, N) /\ k[p] = Cells(<<>>, n) /\ p # nullptr /\ p # v
        /\ DOMAIN k = DOMAIN m \union {p} /\ \A a \in DOMAIN m : k[a] = m[a]
    BY <2>1, <2>3, Assumed DEF Whole, SmallAssumed, Enlarged
  <2> HIDE DEF k
  <2>5. Len(<<>>) = 0 /\ <<>> \in Seq(Values) /\ 0 <= n
    OBVIOUS
  <2>6. Houses(S!Pointers(p, Len(<<>>), n), k, v, <<>>)
    BY <2>1, <2>4, <2>5, HousesIs, Zenon
  <2>7. DOMAIN k = (DOMAIN m \ ({f[v].start_} \ {v})) \union ({p} \ {nullptr})
    BY <2>3, <2>4
  <2>8. Housed([f EXCEPT ![v] = S!Pointers(p, Len(<<>>), n)], k, [q EXCEPT ![v] = <<>>])
    BY <2>1, <2>4, <2>5, <2>6, <2>7, OneHoused, Zenon
  <2>9. [q EXCEPT ![v] = <<>>] = q
    BY <2>3
  <2>10. S!Reserved(StateOf(f, m), v, n) = StateOf([f EXCEPT ![v] = S!Pointers(p, 0, n)], k)
    <3>1. S!Reserved(StateOf(f, m), v, n) = [StateOf(f, k) EXCEPT !.vector[v] = S!Pointers(p, 0, n)]
      BY <1>2, <2>2 DEF S!Reserved, S!Reassigned, p
    <3> QED
      BY <3>1 DEF StateOf
  <2> QED
    BY <2>5, <2>8, <2>9, <2>10, HousedAt
<1> QED
  BY <1>1, <1>2

-----------------------------------------------------------------------------
(* push_back, with room and without.                                        *)
LEMMA PushedInPlace ==
  ASSUME NEW f, NEW m, NEW q, Housed(f, m, q), NEW v \in SmallVectors, NEW x \in Values,
         f[v].end_ # f[v].end_buffer_
  PROVE  HousedIn(S!PushedBack(StateOf(f, m), v, x), [q EXCEPT ![v] = Append(q[v], x)])
<1> DEFINE o == f[v].start_
           n == f[v].end_buffer_
           c == q[v]
           e == Append(c, x)
           k == [m EXCEPT ![o] = Cells(e, n)]
           i == Len(c) + 1
<1>1. /\ Whole(m) /\ f = [w \in SmallVectors |-> f[w]] /\ q \in [SmallVectors -> Seq(Values)]
      /\ c \in Seq(Values) /\ Len(c) \in Nat /\ n \in Nat /\ Len(c) <= n
      /\ f[v] = S!Pointers(o, Len(c), n) /\ f[v].end_ = Len(c)
      /\ o \in {v, nullptr} \union S!Addresses /\ v \in DOMAIN m
      /\ o # nullptr => o \in DOMAIN m /\ m[o] = Cells(c, n)
      /\ o = nullptr => n = 0 /\ Len(c) = 0
      /\ o = v => n = N
      /\ o # v => m[v] = Cells(<<>>, N)
      /\ nullptr \notin DOMAIN m /\ v # nullptr /\ v \notin S!Addresses
  BY HousedFacts
<1>2. /\ Len(c) < n /\ o # nullptr /\ o \in DOMAIN m /\ m[o] = Cells(c, n)
      /\ e \in Seq(Values) /\ Len(e) = i /\ Len(e) <= n /\ f[v].end_ + 1 = Len(e)
  BY <1>1
<1>3. S!Construct(StateOf(f, m), o, i, x) = StateOf(f, k)
  BY <1>1, <1>2, ConstructIs
<1>4. S!PushedBack(StateOf(f, m), v, x) = [S!Construct(StateOf(f, m), o, i, x) EXCEPT !.vector[v].end_ = @ + 1]
  <2>1. /\ StateOf(f, m).vector[v].start_ = o /\ StateOf(f, m).vector[v].end_ = Len(c)
        /\ StateOf(f, m).vector[v].end_buffer_ = n
    BY <1>1 DEF StateOf
  <2>2. Len(c) # n
    BY <1>1
  <2> HIDE DEF o, n, c
  <2> QED
    BY <2>1, <2>2 DEF S!PushedBack
<1>5. [f[v] EXCEPT !.end_ = @ + 1] = S!Pointers(o, Len(e), n)
  <2>1. [f[v] EXCEPT !.end_ = @ + 1] = [f[v] EXCEPT !.end_ = Len(e)]
    BY <1>2
  <2> HIDE DEF o, n, c, e
  <2> QED
    BY <1>1, <2>1 DEF S!Pointers
<1>6. S!PushedBack(StateOf(f, m), v, x) = StateOf([f EXCEPT ![v] = S!Pointers(o, Len(e), n)], k)
  <2>1. [StateOf(f, k) EXCEPT !.vector[v].end_ = @ + 1] = StateOf([f EXCEPT ![v] = [f[v] EXCEPT !.end_ = @ + 1]], k)
    BY DEF StateOf
  <2> HIDE DEF o, n, c, e, k, i
  <2> QED
    BY <1>3, <1>4, <1>5, <2>1, Zenon
<1>7. Whole(k) /\ DOMAIN k = DOMAIN m /\ k[o] = Cells(e, n) /\ \A a \in DOMAIN m \ {o} : k[a] = m[a]
  BY <1>2 DEF Whole
<1>8. Houses(S!Pointers(o, Len(e), n), k, v, e)
  <2> HIDE DEF k, o, n, c, e
  <2> QED
    BY <1>1, <1>2, <1>7, HousesIs
<1>9. DOMAIN k = (DOMAIN m \ ({f[v].start_} \ {v})) \union ({o} \ {nullptr})
  <2> HIDE DEF k
  <2> QED
    BY <1>1, <1>2, <1>7, Zenon
<1>10. Housed([f EXCEPT ![v] = S!Pointers(o, Len(e), n)], k, [q EXCEPT ![v] = e])
  <2> HIDE DEF k, n, e
  <2>1. /\ Whole(k) /\ o \in {v, nullptr, o} \union (S!Addresses \ DOMAIN m)
        /\ \A a \in DOMAIN m \ {v, o} : a \in DOMAIN k => k[a] = m[a]
    BY <1>7
  <2>2. e \in Seq(Values)
    BY <1>2
  <2> QED
    BY <2>1, <2>2, <1>8, <1>9, OneHoused, Zenon
<1> HIDE DEF k, o, n
<1> QED
  BY <1>6, <1>10, HousedAt

(* The elements of v moved to a buffer at p.                                *)
MovedInto(s, v, p, capacity) ==
  [S!Allocated(s, capacity) EXCEPT !.memory[p] =
     [i \in DOMAIN @ |-> IF i <= s.vector[v].end_ THEN s.memory[s.vector[v].start_][i] ELSE Raw]]

LEMMA PushedFull ==
  ASSUME NEW s, NEW v, NEW x, s.vector[v].end_ = s.vector[v].end_buffer_, NEW capacity,
         capacity = IF s.vector[v].end_buffer_ > 0 THEN 2 * s.vector[v].end_buffer_ ELSE 1
  PROVE  S!PushedBack(s, v, x)
         = S!Reassigned(S!DeletedUnlessSmall(
             S!Construct(S!Destroyed(MovedInto(s, v, S!Fresh(s), capacity),
                                     s.vector[v].start_, s.vector[v].end_),
                         S!Fresh(s), s.vector[v].end_ + 1, x), v),
             v, S!Fresh(s), s.vector[v].end_ + 1, capacity)
BY DEF S!PushedBack, MovedInto

LEMMA PushedToGrown ==
  ASSUME NEW f, NEW m, NEW q, Housed(f, m, q), NEW v \in SmallVectors, NEW x \in Values,
         f[v].end_ = f[v].end_buffer_
  PROVE  HousedIn(S!PushedBack(StateOf(f, m), v, x), [q EXCEPT ![v] = Append(q[v], x)])
<1> DEFINE o == f[v].start_
           n == f[v].end_buffer_
           c == q[v]
           e == Append(c, x)
           size == Len(c)
           i == size + 1
           big == IF n > 0 THEN 2 * n ELSE 1
           p == S!Fresh(StateOf(f, m))
           m1 == Enlarged(m, p, big)
           m2 == [m1 EXCEPT ![p] = Cells(c, big)]
           m3 == IF o = nullptr THEN m2 ELSE [m2 EXCEPT ![o] = Cells(<<>>, n)]
           m4 == [m3 EXCEPT ![p] = Cells(e, big)]
           m5 == [a \in DOMAIN m4 \ ({o} \ {v}) |-> m4[a]]
<1>1. /\ Whole(m) /\ f = [w \in SmallVectors |-> f[w]] /\ q \in [SmallVectors -> Seq(Values)]
      /\ c \in Seq(Values) /\ size \in Nat /\ n \in Nat /\ size = n
      /\ f[v] = S!Pointers(o, size, n) /\ f[v].end_ = size
      /\ o \in {v, nullptr} \union S!Addresses /\ v \in DOMAIN m
      /\ o # nullptr => o \in DOMAIN m /\ m[o] = Cells(c, n)
      /\ o = nullptr => n = 0 /\ size = 0
      /\ o = v => n = N
      /\ o # v => m[v] = Cells(<<>>, N)
      /\ nullptr \notin DOMAIN m /\ v # nullptr /\ v \notin S!Addresses
  BY HousedFacts
<1>2. /\ p \in S!Addresses \ DOMAIN m /\ p # nullptr /\ p # v /\ p # o
  BY <1>1, FreshIs, Assumed DEF SmallAssumed
<1>3. /\ big \in Nat /\ size < big /\ e \in Seq(Values) /\ Len(e) = i /\ Len(e) <= big
  BY <1>1
<1>4. /\ StateOf(f, m).vector[v].start_ = o /\ StateOf(f, m).vector[v].end_ = size
      /\ StateOf(f, m).vector[v].end_buffer_ = n /\ StateOf(f, m).memory = m
  BY <1>1 DEF StateOf
<1>5. S!Allocated(StateOf(f, m), big) = StateOf(f, m1)
  BY AllocatedIs
<1>6. MovedInto(StateOf(f, m), v, p, big) = StateOf(f, m2)
  <2>1. m1[p] = Cells(<<>>, big)
    <3> HIDE DEF p, big
    <3> QED
      BY <1>2 DEF Enlarged
  <2>2. [j \in DOMAIN m1[p] |-> IF j <= size THEN m[o][j] ELSE Raw] = Cells(c, big)
    <3>1. DOMAIN m1[p] = 1 .. big
      <4> HIDE DEF m1, big
      <4> QED
        BY <2>1 DEF Cells
    <3>2. \A j \in 1 .. big : j <= size => m[o][j] = c[j]
      <4> HIDE DEF o, c, n, big
      <4>1. ASSUME NEW j \in 1 .. big, j <= size PROVE m[o][j] = c[j]
        <5>1. j \in 1 .. n /\ o # nullptr
          BY <1>1, <1>3, <4>1
        <5> QED
          BY <1>1, <4>1, <5>1 DEF Cells
      <4> QED
        BY <4>1
    <3> HIDE DEF m1, big
    <3> QED
      BY <3>1, <3>2 DEF Cells
  <2>3. MovedInto(StateOf(f, m), v, p, big)
        = [StateOf(f, m1) EXCEPT !.memory[p] = [j \in DOMAIN @ |-> IF j <= size THEN m[o][j] ELSE Raw]]
    <3> HIDE DEF p, big, o, m1, size
    <3> QED
      BY <1>4, <1>5 DEF MovedInto
  <2> HIDE DEF m1, p, big, o, c
  <2> QED
    BY <2>2, <2>3 DEF StateOf
<1> HIDE DEF p, big
<1>7. /\ Whole(m2) /\ DOMAIN m2 = DOMAIN m \union {p} /\ m2[p] = Cells(c, big)
      /\ \A a \in DOMAIN m : m2[a] = m[a]
  BY <1>2, Zenon DEF Whole, Enlarged
<1> HIDE DEF m2
<1>8. S!Destroyed(StateOf(f, m2), o, size) = StateOf(f, m3)
  <2>1. CASE o = nullptr
    BY <1>1, <2>1, Zenon DEF S!Destroyed
  <2>2. CASE o # nullptr
    <3>1. o \in DOMAIN m2 /\ m2[o] = Cells(c, n)
      BY <1>1, <1>7, <2>2
    <3> HIDE DEF o, n, c
    <3>3. Len(c) <= n /\ n \in Nat /\ c \in Seq(Values) /\ Whole(m2)
      BY <1>1, <1>7
    <3>2. S!Destroyed(StateOf(f, m2), o, Len(c)) = StateOf(f, [m2 EXCEPT ![o] = Cells(<<>>, n)])
      BY <3>3, <3>1, DestroyedIs
    <3> QED
      BY <2>2, <3>2
  <2> QED
    BY <2>1, <2>2
<1>9. /\ Whole(m3) /\ DOMAIN m3 = DOMAIN m \union {p} /\ m3[p] = Cells(c, big)
      /\ o # nullptr => m3[o] = Cells(<<>>, n)
      /\ \A a \in DOMAIN m \ {o} : m3[a] = m[a]
  <2>1. CASE o = nullptr
    BY <1>1, <1>2, <1>7, <2>1
  <2>2. CASE o # nullptr
    <3>1. m3 = [m2 EXCEPT ![o] = Cells(<<>>, n)] /\ o \in DOMAIN m2
      BY <1>1, <1>7, <2>2
    <3>2. o \in DOMAIN m
      BY <1>1, <2>2
    <3> HIDE DEF o, n, m3
    <3>3. Whole(m3) /\ DOMAIN m3 = DOMAIN m \union {p}
      BY <1>7, <3>1, Zenon DEF Whole
    <3>4. m3[p] = m2[p] /\ m3[o] = Cells(<<>>, n) /\ \A a \in DOMAIN m \ {o} : m3[a] = m2[a]
      BY <1>2, <1>7, <3>1
    <3> QED
      BY <1>7, <3>3, <3>4
  <2> QED
    BY <2>1, <2>2
<1> HIDE DEF m3
<1>10. S!Construct(StateOf(f, m3), p, i, x) = StateOf(f, m4)
  <2>1. p \in DOMAIN m3
    BY <1>9
  <2> QED
    <3> HIDE DEF c
    <3>1. S!Construct(StateOf(f, m3), p, Len(c) + 1, x) = StateOf(f, [m3 EXCEPT ![p] = Cells(Append(c, x), big)])
      <4>1. Len(c) < big /\ big \in Nat /\ c \in Seq(Values) /\ Whole(m3) /\ m3[p] = Cells(c, big)
        BY <1>1, <1>3, <1>9
      <4> QED
        BY <2>1, <4>1, ConstructIs
    <3> QED
      BY <3>1
<1>11. /\ Whole(m4) /\ DOMAIN m4 = DOMAIN m \union {p} /\ m4[p] = Cells(e, big)
       /\ o # nullptr => m4[o] = Cells(<<>>, n)
       /\ \A a \in DOMAIN m \ {o} : m4[a] = m[a]
  <2> HIDE DEF o, n, e
  <2> QED
    BY <1>1, <1>2, <1>9, Zenon DEF Whole
<1> HIDE DEF m4
<1>12. S!DeletedUnlessSmall(StateOf(f, m4), v) = StateOf(f, m5)
  <2>1. StateOf(f, m4).vector[v].start_ = o
    BY DEF StateOf
  <2>2. CASE o = v
    <3>1. m5 = m4
      BY <1>11, <2>2 DEF Whole
    <3> QED
      BY <2>1, <2>2, <3>1 DEF S!DeletedUnlessSmall, S!IsSmall
  <2>3. CASE o = nullptr
    <3>1. nullptr \notin DOMAIN m4
      BY <1>1, <1>2, <1>11
    <3>2. m5 = m4
      BY <1>11, <2>3, <3>1 DEF Whole
    <3>3. S!Deleted(StateOf(f, m4), nullptr) = StateOf(f, m4)
      BY <1>11, <3>1, DeletedNull
    <3> QED
      BY <1>1, <2>1, <2>3, <3>2, <3>3 DEF S!DeletedUnlessSmall, S!IsSmall
  <2>4. CASE o # v /\ o # nullptr
    <3>1. o \in DOMAIN m4 /\ m4[o] = Cells(<<>>, n) /\ n \in Nat /\ Whole(m4)
      BY <1>1, <1>11, <2>4
    <3>2. DOMAIN m4 \ ({o} \ {v}) = DOMAIN m4 \ {o}
      BY <2>4
    <3> HIDE DEF o, n
    <3>3. S!Deleted(StateOf(f, m4), o) = StateOf(f, [a \in DOMAIN m4 \ {o} |-> m4[a]])
      BY <3>1, DeletedIs
    <3> QED
      BY <2>1, <2>4, <3>2, <3>3 DEF S!DeletedUnlessSmall, S!IsSmall
  <2> QED
    BY <2>2, <2>3, <2>4
<1>13. S!PushedBack(StateOf(f, m), v, x) = StateOf([f EXCEPT ![v] = S!Pointers(p, i, big)], m5)
  <2> HIDE DEF m1, m5, o, n, size, i
  <2>1. S!PushedBack(StateOf(f, m), v, x) = S!Reassigned(StateOf(f, m5), v, p, i, big)
    <3>1. big = IF StateOf(f, m).vector[v].end_buffer_ > 0 THEN 2 * StateOf(f, m).vector[v].end_buffer_ ELSE 1
      BY <1>4 DEF big
    <3>2. S!PushedBack(StateOf(f, m), v, x)
          = S!Reassigned(S!DeletedUnlessSmall(
              S!Construct(S!Destroyed(MovedInto(StateOf(f, m), v, p, big), o, size), p, i, x), v), v, p, i, big)
      BY <1>1, <1>4, <3>1, PushedFull DEF p, i
    <3> QED
      BY <1>6, <1>8, <1>10, <1>12, <3>2
  <2> QED
    BY <2>1, ReassignedIs DEF S!Reassigned
<1>14. /\ Whole(m5) /\ DOMAIN m5 = (DOMAIN m \ ({o} \ {v})) \union ({p} \ {nullptr})
       /\ m5[p] = Cells(e, big) /\ m5[v] = Cells(<<>>, N)
       /\ \A a \in DOMAIN m \ {v, o} : m5[a] = m[a]
  <2> HIDE DEF o, n, e
  <2>1. DOMAIN m5 = (DOMAIN m \ ({o} \ {v})) \union ({p} \ {nullptr})
    BY <1>2, <1>11
  <2>2. p \in DOMAIN m5 /\ v \in DOMAIN m5
    BY <1>1, <1>2, <2>1
  <2>3. \A a \in DOMAIN m5 : m5[a] = m4[a]
    OBVIOUS
  <2>4. Whole(m5)
    BY DEF Whole
  <2>5. \A a \in DOMAIN m \ {v, o} : a \in DOMAIN m5
    BY <2>1
  <2>6. m4[v] = Cells(<<>>, N)
    BY <1>1, <1>11
  <2> HIDE DEF m5
  <2> QED
    BY <1>11, <2>1, <2>2, <2>3, <2>4, <2>5, <2>6
<1> HIDE DEF m5, e
<1>15. Houses(S!Pointers(p, Len(e), big), m5, v, e)
  BY <1>2, <1>3, <1>14, HousesIs
<1>16. Housed([f EXCEPT ![v] = S!Pointers(p, Len(e), big)], m5, [q EXCEPT ![v] = e])
  BY <1>2, <1>3, <1>14, <1>15, OneHoused, Zenon
<1> QED
  BY <1>3, <1>13, <1>16, HousedAt DEF e

LEMMA PushedBackIs ==
  ASSUME NEW f, NEW m, NEW q, Housed(f, m, q), NEW v \in SmallVectors, NEW x \in Values
  PROVE  HousedIn(S!PushedBack(StateOf(f, m), v, x), [q EXCEPT ![v] = Append(q[v], x)])
BY PushedInPlace, PushedToGrown

(* copyRange.                                                               *)
LEMMA PushedAllIs ==
  ASSUME NEW f, NEW m, NEW q, Housed(f, m, q), NEW v \in SmallVectors, NEW l \in Seq(Values)
  PROVE  HousedIn(S!PushedAll(StateOf(f, m), v, l), [q EXCEPT ![v] = q[v] \o l])
<1> DEFINE c == q[v]
           h(k) == [q EXCEPT ![v] = c \o SubSeq(l, 1, k)]
<1>1. PICK r : /\ r[0] = StateOf(f, m) /\ r[Len(l)] = S!PushedAll(StateOf(f, m), v, l)
               /\ \A k \in 0 .. Len(l) - 1 : r[k + 1] = S!PushedBack(r[k], v, l[k + 1])
  BY PushedOneByOne
<1>2. /\ q \in [SmallVectors -> Seq(Values)] /\ c \in Seq(Values) /\ Len(l) \in Nat
  BY DEF Housed
<1> DEFINE held == {k \in Nat : k <= Len(l) => HousedIn(r[k], h(k))}
<1>3. 0 \in held
  <2>1. c \o SubSeq(l, 1, 0) = c
    BY <1>2
  <2>2. h(0) = q
    BY <1>2, <2>1
  <2> HIDE DEF h
  <2> QED
    BY <1>1, <2>2, HousedAt
<1>4. ASSUME NEW k \in Nat, k \in held PROVE k + 1 \in held
  <2>1. CASE ~(k + 1 <= Len(l))
    BY <2>1
  <2>2. CASE k + 1 <= Len(l)
    <3>1. HousedIn(r[k], h(k)) /\ k \in 0 .. Len(l) - 1 /\ k + 1 \in 1 .. Len(l)
      BY <1>2, <1>4, <2>2
    <3>2. l[k + 1] \in Values /\ r[k + 1] = S!PushedBack(r[k], v, l[k + 1])
      BY <1>1, <3>1
    <3> DEFINE g == r[k].vector
               j == r[k].memory
    <3>3. r[k] = StateOf(g, j) /\ Housed(g, j, h(k))
      BY <3>1 DEF HousedIn
    <3>4. h(k + 1) = [h(k) EXCEPT ![v] = Append(h(k)[v], l[k + 1])]
      <4>1. h(k)[v] = c \o SubSeq(l, 1, k)
        BY <1>2
      <4>2. Append(c \o SubSeq(l, 1, k), l[k + 1]) = c \o SubSeq(l, 1, k + 1)
        <5>1. SubSeq(l, 1, k) \in Seq(Values) /\ SubSeq(l, 1, k + 1) = Append(SubSeq(l, 1, k), l[k + 1])
          BY <1>2, <3>1
        <5> HIDE DEF c
        <5> DEFINE s == SubSeq(l, 1, k)
                   y == l[k + 1]
        <5>2. c \o s \in Seq(Values) /\ <<y>> \in Seq(Values)
          BY <1>2, <3>2, <5>1
        <5>3. Append(c \o s, y) = (c \o s) \o <<y>> /\ Append(s, y) = s \o <<y>>
          <6> HIDE DEF s, y
          <6> QED
            BY <3>2, <5>1, <5>2, AppendIsConcat DEF s, y
        <5>4. (c \o s) \o <<y>> = c \o (s \o <<y>>)
          <6>1. c \in Seq(Values) /\ s \in Seq(Values) /\ <<y>> \in Seq(Values)
            BY <1>2, <5>1, <5>2
          <6> HIDE DEF s, y
          <6> DEFINE t == <<y>>
          <6> HIDE DEF t
          <6>2. (c \o s) \o t = c \o (s \o t)
            BY <6>1, ConcatAssociative DEF t
          <6> QED
            BY <6>2 DEF t
        <5> QED
          BY <5>1, <5>3, <5>4, Zenon
      <4> QED
        BY <1>2, <4>1, <4>2
    <3> HIDE DEF g, j, h
    <3>5. HousedIn(S!PushedBack(StateOf(g, j), v, l[k + 1]), [h(k) EXCEPT ![v] = Append(h(k)[v], l[k + 1])])
      BY <3>2, <3>3, PushedBackIs
    <3> QED
      BY <2>2, <3>2, <3>3, <3>4, <3>5
  <2> QED
    BY <2>1, <2>2
<1>5. Nat \subseteq held
  <2> HIDE DEF held
  <2> QED
    BY <1>3, <1>4, NatSetInduction
<1>6. HousedIn(r[Len(l)], h(Len(l)))
  <2> HIDE DEF h
  <2> QED
    BY <1>2, <1>5
<1>7. SubSeq(l, 1, Len(l)) = l
  BY <1>2
<1> QED
  BY <1>1, <1>6, <1>7, Zenon

(* Taking over, into a vector that has no room.                             *)
LEMMA TakenSmall ==
  ASSUME NEW f, NEW m, NEW q, Housed(f, m, q), NEW v \in SmallVectors,
         f[v] = S!Pointers(nullptr, 0, 0), q[v] = <<>>,
         NEW other \in SmallVectors \ {v}, NEW emptied, f[other].start_ = other
  PROVE  HousedIn(S!Taken(StateOf(f, m), v, other, emptied), [q EXCEPT ![v] = q[other], ![other] = <<>>])
<1> DEFINE c == q[other]
           s1 == S!OwnRoom(StateOf(f, m), v)
           s2 == S!PushedAll(s1, v, c)
           h == [q EXCEPT ![v] = c]
<1>1. q \in [SmallVectors -> Seq(Values)] /\ c \in Seq(Values)
  BY DEF Housed
<1>2. HousedIn(s1, q)
  BY OwnRoomIs
<1>3. s1 = StateOf(s1.vector, s1.memory) /\ Housed(s1.vector, s1.memory, q)
  BY <1>2 DEF HousedIn
<1>4. S!Taken(StateOf(f, m), v, other, emptied) = S!Cleared(S!PushedAll(s1, v, S!Contents(s1, other)), other)
  <2>1. StateOf(f, m).vector[other].start_ = other
    BY DEF StateOf
  <2> QED
    BY <2>1 DEF S!Taken, S!IsSmall, S!MovedAll
<1> HIDE DEF s1
<1>5. S!Contents(s1, other) = c
  <2>1. S!Contents(StateOf(s1.vector, s1.memory), other) = c
    BY <1>3, HousedContents
  <2> QED
    BY <1>3, <2>1
<1>6. HousedIn(s2, h)
  <2>1. HousedIn(S!PushedAll(StateOf(s1.vector, s1.memory), v, c), [q EXCEPT ![v] = q[v] \o c])
    <3> HIDE DEF c
    <3> QED
      BY <1>1, <1>3, PushedAllIs, Zenon
  <2>2. q[v] \o c = c
    BY <1>1
  <2> HIDE DEF c
  <2> QED
    BY <1>3, <2>1, <2>2
<1>7. s2 = StateOf(s2.vector, s2.memory) /\ Housed(s2.vector, s2.memory, h)
  BY <1>6 DEF HousedIn
<1> HIDE DEF s2, h
<1>8. HousedIn(S!Cleared(s2, other), [h EXCEPT ![other] = <<>>])
  <2> DEFINE x == s2.vector
             g == [x EXCEPT ![other] = S!Pointers(x[other].start_, 0, x[other].end_buffer_)]
  <2>1. PICK k : /\ S!Cleared(StateOf(x, s2.memory), other) = StateOf(g, k)
                 /\ Housed(g, k, [h EXCEPT ![other] = <<>>])
    BY <1>7, ClearedIs, Zenon
  <2> HIDE DEF g
  <2> QED
    BY <1>7, <2>1, HousedAt
<1>9. [h EXCEPT ![other] = <<>>] = [q EXCEPT ![v] = c, ![other] = <<>>]
  BY DEF h
<1> QED
  BY <1>4, <1>5, <1>8, <1>9 DEF s2

LEMMA TakenHeap ==
  ASSUME NEW f, NEW m, NEW q, Housed(f, m, q), NEW v \in SmallVectors,
         f[v] = S!Pointers(nullptr, 0, 0), q[v] = <<>>,
         NEW other \in SmallVectors \ {v},
         NEW emptied \in {S!Pointers(other, 0, N), S!Pointers(nullptr, 0, 0)}, f[other].start_ # other
  PROVE  HousedIn(S!Taken(StateOf(f, m), v, other, emptied), [q EXCEPT ![v] = q[other], ![other] = <<>>])
<1> DEFINE c == q[other]
           o == f[other].start_
           n == f[other].end_buffer_
           g == [f EXCEPT ![v] = f[other], ![other] = emptied]
           h == [q EXCEPT ![v] = c, ![other] = <<>>]
<1>1. S!Taken(StateOf(f, m), v, other, emptied) = StateOf(g, m)
  <2>1. StateOf(f, m).vector[other] = f[other]
    BY DEF StateOf
  <2>2. S!Taken(StateOf(f, m), v, other, emptied)
        = [StateOf(f, m) EXCEPT !.vector[v] = f[other], !.vector[other] = emptied]
    BY <2>1 DEF S!Taken, S!IsSmall
  <2> QED
    BY <2>2, Zenon DEF StateOf
<1>2. /\ f = [w \in SmallVectors |-> f[w]] /\ Whole(m) /\ q \in [SmallVectors -> Seq(Values)]
      /\ c \in Seq(Values) /\ Houses(f[other], m, other, c) /\ Houses(f[v], m, v, <<>>)
  BY DEF Housed
<1>3. /\ g = [w \in SmallVectors |-> g[w]] /\ h \in [SmallVectors -> Seq(Values)]
      /\ g[v] = f[other] /\ g[other] = emptied /\ h[v] = c /\ h[other] = <<>>
      /\ \A w \in SmallVectors \ {v, other} : g[w] = f[w] /\ h[w] = q[w]
  BY <1>2, Zenon
<1>4. f[v].start_ = nullptr /\ emptied.start_ \in {other, nullptr}
  BY DEF S!Pointers
<1>5. /\ nullptr \notin SmallVectors /\ \A w \in SmallVectors : w \notin S!Addresses
      /\ nullptr \notin S!Addresses
  BY Assumed DEF SmallAssumed
<1>6. /\ \A w \in SmallVectors : f[w].start_ \in {w, nullptr} \union S!Addresses
      /\ o \in {nullptr} \union S!Addresses
  BY DEF Housed, Houses
<1>7. Houses(g[v], m, v, h[v])
  <2>1. m[v] = Cells(<<>>, N)
    BY <1>2, <1>4, <1>5 DEF Houses
  <2> HIDE DEF c, g, h
  <2> QED
    BY <1>2, <1>3, <1>5, <1>6, <2>1 DEF Houses
<1>8. Houses(g[other], m, other, h[other])
  <2>1. m[other] = Cells(<<>>, N)
    BY <1>2 DEF Houses
  <2>2. Len(<<>>) = 0 /\ <<>> \in Seq(Values) /\ N \in Nat /\ 0 <= N /\ other # nullptr
    BY <1>5, Assumed DEF SmallAssumed
  <2>3. Houses(S!Pointers(other, Len(<<>>), N), m, other, <<>>)
    BY <2>1, <2>2, HousesIs, Zenon
  <2>4. Houses(S!Pointers(nullptr, Len(<<>>), 0), m, other, <<>>)
    <3>1. 0 \in Nat /\ Len(<<>>) <= 0 /\ nullptr # other
      BY <2>2
    <3> QED
      BY <2>1, <2>2, <3>1, HousesIs, Zenon
  <2> HIDE DEF g, h
  <2> QED
    BY <1>3, <2>2, <2>3, <2>4
<1>9. DOMAIN m = SmallVectors \union ({g[w].start_ : w \in SmallVectors} \ {nullptr})
  <2>1. ASSUME NEW w \in SmallVectors, g[w].start_ # nullptr PROVE g[w].start_ \in DOMAIN m
    <3>1. CASE w = other
      BY <1>3, <1>4, <2>1, <3>1 DEF Housed
    <3>2. CASE w = v
      BY <1>3, <2>1, <3>2 DEF Housed
    <3>3. CASE w # v /\ w # other
      BY <1>3, <2>1, <3>3 DEF Housed
    <3> QED
      BY <3>1, <3>2, <3>3
  <2>4. ASSUME NEW a \in DOMAIN m, a \notin SmallVectors
        PROVE  \E w \in SmallVectors : a = g[w].start_ /\ a # nullptr
    <3>1. PICK w \in SmallVectors : a = f[w].start_ /\ a # nullptr
      BY <2>4 DEF Housed
    <3>2. CASE w = other
      BY <1>3, <3>1, <3>2
    <3>3. CASE w # other
      BY <1>3, <1>4, <3>1, <3>3, Zenon
    <3> QED
      BY <3>2, <3>3, Zenon
  <2>2. ASSUME NEW a \in DOMAIN m
        PROVE  a \in SmallVectors \union ({g[w].start_ : w \in SmallVectors} \ {nullptr})
    <3> HIDE DEF g
    <3> QED
      BY <2>4
  <2>3. SmallVectors \subseteq DOMAIN m
    BY DEF Housed
  <2> HIDE DEF g
  <2> QED
    BY <2>1, <2>2, <2>3, Zenon
<1>10. ASSUME NEW u \in SmallVectors, NEW w \in SmallVectors,
              g[u].start_ = g[w].start_, g[u].start_ # nullptr
       PROVE  u = w
  <2> DEFINE back(y) == IF y = v THEN other ELSE y
  <2>1. ASSUME NEW y \in SmallVectors, NEW z \in SmallVectors, y # other, z # other,
               g[y].start_ = g[z].start_, g[y].start_ # nullptr
        PROVE  y = z
    <3>1. /\ g[y].start_ = f[back(y)].start_ /\ back(y) \in SmallVectors
          /\ g[z].start_ = f[back(z)].start_ /\ back(z) \in SmallVectors
      BY <1>3, <2>1, Zenon
    <3>2. back(y) = back(z)
      <4> HIDE DEF back
      <4> QED
        BY <2>1, <3>1 DEF Housed
    <3> QED
      BY <2>1, <3>2
  <2>2. ASSUME NEW y \in SmallVectors, y # other, g[y].start_ = other PROVE FALSE
    BY <1>3, <1>5, <1>6, <2>2
  <2>3. g[other].start_ # nullptr => g[other].start_ = other
    BY <1>3, <1>4
  <2> HIDE DEF g
  <2> QED
    BY <1>10, <2>1, <2>2, <2>3
<1>11. \A w \in SmallVectors : Houses(g[w], m, w, h[w])
  <2>1. ASSUME NEW w \in SmallVectors \ {v, other} PROVE Houses(g[w], m, w, h[w])
    BY <1>3 DEF Housed
  <2> HIDE DEF g, h
  <2> QED
    BY <1>7, <1>8, <2>1
<1> HIDE DEF g, h
<1>12. Housed(g, m, h)
  BY <1>2, <1>3, <1>9, <1>10, <1>11, Zenon DEF Housed
<1> QED
  BY <1>1, <1>12, HousedAt DEF h

-----------------------------------------------------------------------------
(* The calls that change one cell, and reset_small.                         *)
LEMMA OneCell ==
  ASSUME NEW f, NEW m, NEW q, Housed(f, m, q), NEW v \in SmallVectors, NEW c \in Seq(Values),
         Len(c) <= f[v].end_buffer_
  PROVE  Housed([f EXCEPT ![v] = S!Pointers(f[v].start_, Len(c), f[v].end_buffer_)],
                IF f[v].start_ = nullptr THEN m
                ELSE [m EXCEPT ![f[v].start_] = Cells(c, f[v].end_buffer_)],
                [q EXCEPT ![v] = c])
<1> DEFINE o == f[v].start_
           n == f[v].end_buffer_
           k == IF o = nullptr THEN m ELSE [m EXCEPT ![o] = Cells(c, n)]
<1>1. /\ Whole(m) /\ n \in Nat /\ o \in {v, nullptr} \union S!Addresses /\ v \in DOMAIN m
      /\ o # nullptr => o \in DOMAIN m
      /\ o = nullptr => n = 0
      /\ o = v => n = N
      /\ o # v => m[v] = Cells(<<>>, N)
      /\ nullptr \notin DOMAIN m /\ v # nullptr
  BY HousedFacts
<1>2. /\ Whole(k) /\ DOMAIN k = DOMAIN m
      /\ o # nullptr => k[o] = Cells(c, n)
      /\ \A a \in DOMAIN m \ {o} : k[a] = m[a]
  BY <1>1 DEF Whole
<1> HIDE DEF k
<1>3. Houses(S!Pointers(o, Len(c), n), k, v, c)
  <2> HIDE DEF o, n
  <2>1. o # v => k[v] = Cells(<<>>, N)
    BY <1>1, <1>2
  <2> QED
    BY <1>1, <1>2, <2>1, HousesIs, Zenon DEF n
<1>4. DOMAIN k = (DOMAIN m \ ({o} \ {v})) \union ({o} \ {nullptr})
  <2> HIDE DEF o
  <2> QED
    BY <1>1, <1>2, Zenon
<1>5. /\ Whole(k) /\ o \in {v, nullptr, o} \union (S!Addresses \ DOMAIN m)
      /\ \A a \in DOMAIN m \ {v, o} : a \in DOMAIN k => k[a] = m[a]
  BY <1>2
<1> HIDE DEF n
<1>6. Housed([f EXCEPT ![v] = S!Pointers(o, Len(c), n)], k, [q EXCEPT ![v] = c])
  BY <1>3, <1>4, <1>5, OneHoused, Zenon
<1> QED
  BY <1>6 DEF k, n

LEMMA SetIs ==
  ASSUME NEW f, NEW m, NEW q, Housed(f, m, q), NEW v \in SmallVectors,
         NEW i \in 1 .. f[v].end_, NEW x \in Values
  PROVE  HousedIn([StateOf(f, m) EXCEPT !.memory[f[v].start_][i] = x], [q EXCEPT ![v][i] = x])
<1> DEFINE o == f[v].start_
           n == f[v].end_buffer_
           c == q[v]
           e == [c EXCEPT ![i] = x]
           k == [m EXCEPT ![o] = Cells(e, n)]
<1>1. /\ f = [w \in SmallVectors |-> f[w]] /\ q \in [SmallVectors -> Seq(Values)]
      /\ c \in Seq(Values) /\ Len(c) \in Nat /\ n \in Nat /\ Len(c) <= n
      /\ f[v] = S!Pointers(o, Len(c), n) /\ f[v].end_ = Len(c)
      /\ o # nullptr => o \in DOMAIN m /\ m[o] = Cells(c, n)
      /\ o = nullptr => n = 0 /\ Len(c) = 0
  BY HousedFacts
<1>2. i \in 1 .. Len(c) /\ i \in 1 .. n /\ o # nullptr
  BY <1>1
<1>3. e \in Seq(Values) /\ Len(e) = Len(c)
  BY <1>1, <1>2
<1>4. [m[o] EXCEPT ![i] = x] = Cells(e, n)
  <2>1. \A j \in 1 .. n : [Cells(c, n) EXCEPT ![i] = x][j] = Cells(e, n)[j]
    <3> HIDE DEF c, n
    <3>1. \A j \in 1 .. n : j <= Len(c) => j \in 1 .. Len(c)
      BY <1>1
    <3>2. \A j \in 1 .. Len(c) : e[j] = IF j = i THEN x ELSE c[j]
      BY <1>1
    <3>3. i <= Len(c)
      BY <1>1, <1>2
    <3> HIDE DEF e
    <3> QED
      BY <1>3, <3>1, <3>2, <3>3 DEF Cells
  <2>2. /\ [Cells(c, n) EXCEPT ![i] = x] = [j \in 1 .. n |-> [Cells(c, n) EXCEPT ![i] = x][j]]
        /\ Cells(e, n) = [j \in 1 .. n |-> Cells(e, n)[j]]
    <3> HIDE DEF c, n, e
    <3> QED
      BY Zenon DEF Cells
  <2>3. m[o] = Cells(c, n)
    BY <1>1, <1>2
  <2> HIDE DEF c, n, e, o
  <2> QED
    BY <2>1, <2>2, <2>3, Zenon
<1>5. [StateOf(f, m) EXCEPT !.memory[o][i] = x] = StateOf(f, k)
  <2>1. [StateOf(f, m) EXCEPT !.memory[o][i] = x] = StateOf(f, [m EXCEPT ![o] = [m[o] EXCEPT ![i] = x]])
    BY DEF StateOf
  <2> HIDE DEF o, e, n
  <2> QED
    BY <1>4, <2>1, Zenon
<1>6. Housed([f EXCEPT ![v] = S!Pointers(o, Len(e), n)], IF o = nullptr THEN m ELSE k, [q EXCEPT ![v] = e])
  <2>1. Len(e) <= f[v].end_buffer_
    BY <1>1, <1>3
  <2> HIDE DEF e
  <2> QED
    BY <1>3, <2>1, OneCell, Zenon
<1>7. [f EXCEPT ![v] = S!Pointers(o, Len(e), n)] = f
  <2> HIDE DEF o, e, n, c
  <2> QED
    BY <1>1, <1>3
<1>8. (IF o = nullptr THEN m ELSE k) = k
  BY <1>2
<1>9. Housed(f, k, [q EXCEPT ![v] = e])
  <2> HIDE DEF o, e, n, c, k
  <2> QED
    BY <1>6, <1>7, <1>8
<1>10. [q EXCEPT ![v] = e] = [q EXCEPT ![v][i] = x]
  OBVIOUS
<1> HIDE DEF k, e
<1> QED
  BY <1>5, <1>9, <1>10, HousedAt

LEMMA PopBackIs ==
  ASSUME NEW f, NEW m, NEW q, Housed(f, m, q), NEW v \in SmallVectors, f[v].end_ > 0
  PROVE  HousedIn([S!Wrong(StateOf(f, m), m[f[v].start_][f[v].end_] = Raw)
                     EXCEPT !.memory[f[v].start_][f[v].end_] = Raw, !.vector[v].end_ = @ - 1],
                  [q EXCEPT ![v] = S!Front(q[v])])
<1> DEFINE o == f[v].start_
           n == f[v].end_buffer_
           c == q[v]
           i == f[v].end_
           e == S!Front(c)
           k == [m EXCEPT ![o] = Cells(e, n)]
<1>1. /\ f = [w \in SmallVectors |-> f[w]] /\ q \in [SmallVectors -> Seq(Values)]
      /\ c \in Seq(Values) /\ Len(c) \in Nat /\ n \in Nat /\ Len(c) <= n
      /\ f[v] = S!Pointers(o, Len(c), n) /\ f[v].end_ = Len(c)
      /\ o # nullptr => o \in DOMAIN m /\ m[o] = Cells(c, n)
      /\ o = nullptr => n = 0 /\ Len(c) = 0
  BY HousedFacts
<1>2. i = Len(c) /\ i \in 1 .. Len(c) /\ i \in 1 .. n /\ o # nullptr /\ m[o] = Cells(c, n)
  BY <1>1
<1>3. /\ e \in Seq(Values) /\ Len(e) = Len(c) - 1 /\ Len(e) <= n
      /\ \A j \in 1 .. Len(c) - 1 : e[j] = c[j]
  <2> HIDE DEF c, n
  <2>1. e = SubSeq(c, 1, Len(c) - 1)
    BY DEF S!Front
  <2>2. SubSeq(c, 1, Len(c) - 1) = [j \in 1 .. Len(c) - 1 |-> c[j]]
    BY <1>1, <1>2
  <2>3. \A j \in 1 .. Len(c) - 1 : c[j] \in Values
    BY <1>1
  <2>4. Len(c) - 1 \in Nat
    BY <1>1, <1>2
  <2> HIDE DEF e
  <2>5. e = [j \in 1 .. Len(c) - 1 |-> c[j]]
    BY <2>1, <2>2
  <2>6. e \in Seq(Values) /\ Len(e) = Len(c) - 1
    BY <2>3, <2>4, <2>5
  <2> QED
    BY <1>1, <2>5, <2>6
<1>4. m[o][i] # Raw
  <2>1. m[o][i] = c[i] /\ c[i] \in Values
    BY <1>1, <1>2 DEF Cells
  <2> QED
    BY <2>1, Assumed DEF SmallAssumed
<1>5. [m[o] EXCEPT ![i] = Raw] = Cells(e, n)
  <2>1. \A j \in 1 .. n : [Cells(c, n) EXCEPT ![i] = Raw][j] = Cells(e, n)[j]
    <3> HIDE DEF c, n, e, i
    <3>1. \A j \in 1 .. n : j # i /\ j <= Len(c) <=> j \in 1 .. Len(c) - 1
      BY <1>1, <1>2
    <3>2. \A j \in 1 .. n : j <= Len(e) <=> j \in 1 .. Len(c) - 1
      BY <1>1, <1>3
    <3>3. ~(i <= Len(e)) /\ i <= Len(c)
      BY <1>1, <1>2, <1>3
    <3> QED
      BY <1>3, <3>1, <3>2, <3>3 DEF Cells
  <2>2. /\ [Cells(c, n) EXCEPT ![i] = Raw] = [j \in 1 .. n |-> [Cells(c, n) EXCEPT ![i] = Raw][j]]
        /\ Cells(e, n) = [j \in 1 .. n |-> Cells(e, n)[j]]
    BY Zenon DEF Cells
  <2> HIDE DEF c, n, e, o, i
  <2> QED
    BY <1>2, <2>1, <2>2, Zenon
<1>6. S!Wrong(StateOf(f, m), m[o][i] = Raw) = StateOf(f, m)
  BY <1>4, NotWrong, Zenon
<1>7. [StateOf(f, m) EXCEPT !.memory[o][i] = Raw, !.vector[v].end_ = @ - 1]
      = StateOf([f EXCEPT ![v] = S!Pointers(o, Len(e), n)], k)
  <2>1. [f[v] EXCEPT !.end_ = f[v].end_ - 1] = S!Pointers(o, Len(e), n)
    <3>1. f[v].end_ - 1 = Len(e)
      BY <1>1, <1>3
    <3> HIDE DEF o, e, n, c
    <3> QED
      BY <1>1, <3>1 DEF S!Pointers
  <2>2. [StateOf(f, m) EXCEPT !.memory[o][i] = Raw, !.vector[v].end_ = @ - 1]
        = StateOf([f EXCEPT ![v] = [f[v] EXCEPT !.end_ = f[v].end_ - 1]],
             [m EXCEPT ![o] = [m[o] EXCEPT ![i] = Raw]])
    <3> HIDE DEF o, i
    <3>1. [StateOf(f, m) EXCEPT !.memory[o][i] = Raw] = StateOf(f, [m EXCEPT ![o] = [m[o] EXCEPT ![i] = Raw]])
      BY DEF StateOf
    <3>2. \A y : [StateOf(f, y) EXCEPT !.vector[v].end_ = @ - 1]
                = StateOf([f EXCEPT ![v] = [f[v] EXCEPT !.end_ = f[v].end_ - 1]], y)
      BY DEF StateOf
    <3>3. [StateOf(f, m) EXCEPT !.memory[o][i] = Raw, !.vector[v].end_ = @ - 1]
          = [[StateOf(f, m) EXCEPT !.memory[o][i] = Raw] EXCEPT !.vector[v].end_ = @ - 1]
      OBVIOUS
    <3> QED
      BY <3>1, <3>2, <3>3, Zenon
  <2> HIDE DEF o, e, n, i
  <2> QED
    BY <1>5, <2>1, <2>2, Zenon
<1>8. Housed([f EXCEPT ![v] = S!Pointers(o, Len(e), n)], IF o = nullptr THEN m ELSE k, [q EXCEPT ![v] = e])
  <2> HIDE DEF e
  <2> QED
    BY <1>3, OneCell, Zenon
<1>9. (IF o = nullptr THEN m ELSE k) = k
  BY <1>2
<1>10. HousedIn(StateOf([f EXCEPT ![v] = S!Pointers(o, Len(e), n)], k), [q EXCEPT ![v] = e])
  <2> HIDE DEF o, e, n, k
  <2> QED
    BY <1>8, <1>9, HousedAt
<1> QED
  BY <1>6, <1>7, <1>10, Zenon

LEMMA ResetSmallIs ==
  ASSUME NEW f, NEW m, NEW q, Housed(f, m, q), NEW v \in SmallVectors,
         f[v].end_ <= N, f[v].start_ # v, Trivial \/ f[v].end_ = 0
  PROVE  LET start == f[v].start_
             size == f[v].end_
             ontoRaw == \E i \in 1 .. size : m[v][i] = Raw
             assigned == [S!Wrong(StateOf(f, m), ontoRaw /\ ~Trivial) EXCEPT !.memory[v] =
                            [i \in 1 .. N |-> IF i <= size THEN m[start][i] ELSE @[i]]] IN
         HousedIn(S!Reassigned(S!Deleted(S!Destroyed(assigned, start, size), start), v, v, size, N), q)
<1> DEFINE o == f[v].start_
           n == f[v].end_buffer_
           c == q[v]
           size == f[v].end_
           m1 == [m EXCEPT ![v] = Cells(c, N)]
           m2 == IF o = nullptr THEN m1 ELSE [m1 EXCEPT ![o] = Cells(<<>>, n)]
           m3 == [a \in DOMAIN m2 \ {o} |-> m2[a]]
           filled == [i \in 1 .. N |-> IF i <= size THEN m[o][i] ELSE m[v][i]]
           ontoRaw == \E i \in 1 .. size : m[v][i] = Raw
           assigned == [S!Wrong(StateOf(f, m), ontoRaw /\ ~Trivial) EXCEPT !.memory[v] =
                          [i \in 1 .. N |-> IF i <= size THEN m[o][i] ELSE @[i]]]
<1>1. /\ Whole(m) /\ q \in [SmallVectors -> Seq(Values)]
      /\ c \in Seq(Values) /\ size \in Nat /\ n \in Nat /\ size = Len(c) /\ size <= n
      /\ o \in {nullptr} \union S!Addresses /\ v \in DOMAIN m
      /\ o # nullptr => o \in DOMAIN m /\ m[o] = Cells(c, n)
      /\ o = nullptr => size = 0
      /\ m[v] = Cells(<<>>, N)
      /\ nullptr \notin DOMAIN m /\ v # nullptr /\ o # v
  BY HousedFacts
<1>2. N \in Nat /\ size <= N
  BY Assumed DEF SmallAssumed
<1>3. filled = Cells(c, N)
  <2>1. ASSUME NEW i \in 1 .. N
        PROVE  filled[i] = Cells(c, N)[i]
    <3>1. CASE i <= size
      <4>1. o # nullptr /\ i \in 1 .. n /\ m[o] = Cells(c, n) /\ i <= Len(c)
        BY <1>1, <1>2, <3>1
      <4>2. m[o][i] = c[i]
        <5> HIDE DEF o, n, c
        <5> QED
          BY <4>1 DEF Cells
      <4> HIDE DEF o, c, size
      <4> QED
        BY <3>1, <4>1, <4>2 DEF Cells
    <3>2. CASE ~(i <= size)
      <4>1. m[v][i] = Raw
        BY <1>1, <1>2 DEF Cells
      <4>2. ~(i <= Len(c))
        BY <1>1, <3>2
      <4> HIDE DEF o, c, size
      <4> QED
        BY <3>2, <4>1, <4>2 DEF Cells
    <3> QED
      BY <3>1, <3>2
  <2>2. filled = [i \in 1 .. N |-> filled[i]] /\ Cells(c, N) = [i \in 1 .. N |-> Cells(c, N)[i]]
    BY DEF Cells
  <2> HIDE DEF filled, c
  <2> QED
    BY <2>1, <2>2
<1>4. assigned = StateOf(f, m1)
  <2>1. S!Wrong(StateOf(f, m), ontoRaw /\ ~Trivial) = StateOf(f, m)
    <3>1. Trivial \/ 1 .. size = {}
      BY <1>1
    <3>2. (ontoRaw /\ ~Trivial) \in BOOLEAN /\ ~(ontoRaw /\ ~Trivial)
      BY <3>1
    <3> HIDE DEF ontoRaw
    <3> QED
      BY <3>2, NotWrong, Zenon
  <2>2. assigned = [StateOf(f, m) EXCEPT !.memory[v] = [i \in 1 .. N |-> IF i <= size THEN m[o][i] ELSE @[i]]]
    <3> HIDE DEF o, size, ontoRaw
    <3> QED
      BY <2>1, Zenon
  <2>3. [StateOf(f, m) EXCEPT !.memory[v] = [i \in 1 .. N |-> IF i <= size THEN m[o][i] ELSE @[i]]]
        = StateOf(f, [m EXCEPT ![v] = filled])
    <3> HIDE DEF o, size
    <3>1. StateOf(f, m).memory = m
      BY DEF StateOf
    <3>2. [StateOf(f, m) EXCEPT !.memory[v] = [i \in 1 .. N |-> IF i <= size THEN m[o][i] ELSE @[i]]]
          = [StateOf(f, m) EXCEPT !.memory[v] = filled]
      BY <3>1
    <3> HIDE DEF filled
    <3> QED
      BY <3>2 DEF StateOf
  <2> HIDE DEF assigned, filled, c
  <2> QED
    BY <1>3, <2>2, <2>3
<1> HIDE DEF assigned, filled
<1>5. /\ Whole(m1) /\ DOMAIN m1 = DOMAIN m /\ m1[v] = Cells(c, N)
      /\ \A a \in DOMAIN m \ {v} : m1[a] = m[a]
  BY <1>1 DEF Whole
<1> HIDE DEF m1
<1>6. S!Destroyed(StateOf(f, m1), o, size) = StateOf(f, m2)
  <2>1. CASE o = nullptr
    BY <1>1, <2>1 DEF S!Destroyed
  <2>2. CASE o # nullptr
    <3>1. o \in DOMAIN m1 /\ m1[o] = Cells(c, n)
      BY <1>1, <1>5, <2>2
    <3>2. Len(c) <= n /\ n \in Nat /\ c \in Seq(Values) /\ Whole(m1) /\ size = Len(c)
      BY <1>1, <1>5
    <3> HIDE DEF o, n, c, size
    <3>3. S!Destroyed(StateOf(f, m1), o, Len(c)) = StateOf(f, [m1 EXCEPT ![o] = Cells(<<>>, n)])
      BY <3>1, <3>2, DestroyedIs
    <3> QED
      BY <2>2, <3>2, <3>3
  <2> QED
    BY <2>1, <2>2
<1>7. /\ Whole(m2) /\ DOMAIN m2 = DOMAIN m /\ m2[v] = Cells(c, N)
      /\ o # nullptr => m2[o] = Cells(<<>>, n)
      /\ \A a \in DOMAIN m \ {v, o} : m2[a] = m[a]
  <2>1. CASE o = nullptr
    BY <1>1, <1>5, <2>1
  <2>2. CASE o # nullptr
    <3>1. m2 = [m1 EXCEPT ![o] = Cells(<<>>, n)] /\ o \in DOMAIN m1 /\ o # v
      BY <1>1, <1>5, <2>2
    <3>2. v \in DOMAIN m
      BY <1>1
    <3> HIDE DEF o, n, m2, c
    <3>3. Whole(m2) /\ DOMAIN m2 = DOMAIN m
      BY <1>5, <3>1, Zenon DEF Whole
    <3>4. m2[v] = m1[v] /\ m2[o] = Cells(<<>>, n) /\ \A a \in DOMAIN m \ {o} : m2[a] = m1[a]
      BY <1>5, <3>1, <3>2
    <3> QED
      BY <1>5, <3>3, <3>4
  <2> QED
    BY <2>1, <2>2
<1> HIDE DEF m2
<1>8. S!Deleted(StateOf(f, m2), o) = StateOf(f, m3)
  <2>1. CASE o = nullptr
    <3>1. nullptr \notin DOMAIN m2
      BY <1>1, <1>7
    <3>2. m3 = m2
      BY <1>7, <2>1, <3>1 DEF Whole
    <3>3. S!Deleted(StateOf(f, m2), nullptr) = StateOf(f, m2)
      BY <1>7, <3>1, DeletedNull
    <3> QED
      BY <2>1, <3>2, <3>3
  <2>2. CASE o # nullptr
    <3>1. o \in DOMAIN m2 /\ m2[o] = Cells(<<>>, n) /\ n \in Nat /\ Whole(m2)
      BY <1>1, <1>7, <2>2
    <3> HIDE DEF o, n
    <3> QED
      BY <3>1, DeletedIs
  <2> QED
    BY <2>1, <2>2
<1>9. /\ Whole(m3) /\ DOMAIN m3 = (DOMAIN m \ ({o} \ {v})) \union ({v} \ {nullptr})
      /\ m3[v] = Cells(c, N)
      /\ \A a \in DOMAIN m \ {v, o} : m3[a] = m[a]
  <2> HIDE DEF o, c
  <2>1. Whole(m3)
    BY DEF Whole
  <2>2. DOMAIN m3 = (DOMAIN m \ ({o} \ {v})) \union ({v} \ {nullptr})
    BY <1>1, <1>7
  <2>3. \A a \in DOMAIN m2 \ {o} : m3[a] = m2[a]
    OBVIOUS
  <2> HIDE DEF m3
  <2> QED
    BY <1>1, <1>7, <2>1, <2>2, <2>3
<1> HIDE DEF m3
<1>10. Houses(S!Pointers(v, Len(c), N), m3, v, c)
  <2>1. Len(c) <= N /\ v # nullptr
    BY <1>1, <1>2
  <2> HIDE DEF c
  <2> QED
    BY <1>1, <1>2, <1>9, <2>1, HousesIs, Zenon
<1>11. Housed([f EXCEPT ![v] = S!Pointers(v, Len(c), N)], m3, [q EXCEPT ![v] = c])
  <2>1. \A a \in DOMAIN m \ {v, o} : a \in DOMAIN m3 => m3[a] = m[a]
    BY <1>9
  <2>2. c \in Seq(Values)
    BY <1>1
  <2> HIDE DEF c
  <2> QED
    BY <1>9, <1>10, <2>1, <2>2, OneHoused, Zenon
<1>12. [q EXCEPT ![v] = c] = q
  BY <1>1
<1>13. S!Reassigned(StateOf(f, m3), v, v, Len(c), N) = StateOf([f EXCEPT ![v] = S!Pointers(v, Len(c), N)], m3)
  BY DEF S!Reassigned, StateOf
<1>14. HousedIn(S!Reassigned(S!Deleted(S!Destroyed(assigned, o, size), o), v, v, size, N), q)
  <2>1. size = Len(c)
    BY <1>1
  <2> HIDE DEF o, c, size
  <2> QED
    BY <1>4, <1>6, <1>8, <1>11, <1>12, <1>13, <2>1, HousedAt
<1> QED
  BY <1>14 DEF assigned

(* The constructors and assignments.                                        *)
LEMMA DefaultIs ==
  ASSUME NEW f, NEW m, NEW q, Housed(f, m, q), NEW v \in SmallVectors
  PROVE  HousedIn(S!OwnRoom(S!Ended(StateOf(f, m), v), v), [q EXCEPT ![v] = <<>>])
<1> DEFINE l == [f EXCEPT ![v] = S!Pointers(nullptr, 0, 0)]
           h == [q EXCEPT ![v] = <<>>]
<1>1. PICK r, k : S!Ended(StateOf(f, m), v) = StateOf([f EXCEPT ![v] = r], k) /\ Housed(l, k, h)
  BY EndedIs, Zenon
<1>2. /\ DOMAIN f = SmallVectors /\ q \in [SmallVectors -> Seq(Values)]
      /\ l[v] = S!Pointers(nullptr, 0, 0) /\ h[v] = <<>>
  BY DEF Housed
<1>3. S!OwnRoom(StateOf([f EXCEPT ![v] = r], k), v) = S!OwnRoom(StateOf(l, k), v)
  <2> DEFINE d == [f EXCEPT ![v] = r]
  <2>1. SameBut(v, d, l)
    BY <1>2 DEF SameBut
  <2> HIDE DEF d, l
  <2>2. S!OwnRoom(StateOf(d, k), v) = S!OwnRoom(StateOf(l, k), v)
    BY <2>1, OwnRoomForgets
  <2> QED
    BY <2>2 DEF d, l
<1> HIDE DEF l, h
<1>4. HousedIn(S!OwnRoom(StateOf(l, k), v), h)
  BY <1>1, <1>2, OwnRoomIs
<1> QED
  BY <1>1, <1>3, <1>4 DEF h

LEMMA FromIs ==
  ASSUME NEW f, NEW m, NEW q, Housed(f, m, q), NEW v \in SmallVectors, NEW c \in Seq(Values)
  PROVE  HousedIn(S!PushedAll(S!Reserved(S!Ended(StateOf(f, m), v), v, Len(c)), v, c), [q EXCEPT ![v] = c])
<1> DEFINE l == [f EXCEPT ![v] = S!Pointers(nullptr, 0, 0)]
           h == [q EXCEPT ![v] = <<>>]
<1>1. PICK r, k : S!Ended(StateOf(f, m), v) = StateOf([f EXCEPT ![v] = r], k) /\ Housed(l, k, h)
  BY EndedIs, Zenon
<1>2. /\ DOMAIN f = SmallVectors /\ q \in [SmallVectors -> Seq(Values)]
      /\ l[v] = S!Pointers(nullptr, 0, 0) /\ h[v] = <<>> /\ Len(c) \in Nat
  BY DEF Housed
<1>3. S!Reserved(StateOf([f EXCEPT ![v] = r], k), v, Len(c)) = S!Reserved(StateOf(l, k), v, Len(c))
  <2> DEFINE d == [f EXCEPT ![v] = r]
  <2>1. SameBut(v, d, l)
    BY <1>2 DEF SameBut
  <2> HIDE DEF d, l
  <2>2. S!Reserved(StateOf(d, k), v, Len(c)) = S!Reserved(StateOf(l, k), v, Len(c))
    BY <2>1, ReservedForgets
  <2> QED
    BY <2>2 DEF d, l
<1> HIDE DEF l
<1> DEFINE s == S!Reserved(StateOf(l, k), v, Len(c))
<1>4. HousedIn(s, h)
  <2> HIDE DEF h
  <2> QED
    BY <1>1, <1>2, ReservedIs
<1> HIDE DEF s
<1>5. s = StateOf(s.vector, s.memory) /\ Housed(s.vector, s.memory, h)
  BY <1>4 DEF HousedIn
<1>6. [h EXCEPT ![v] = h[v] \o c] = [q EXCEPT ![v] = c]
  <2>1. h[v] \o c = c
    BY <1>2
  <2> QED
    BY <1>2, <2>1, Zenon
<1>7. HousedIn(S!PushedAll(StateOf(s.vector, s.memory), v, c), [h EXCEPT ![v] = h[v] \o c])
  <2> HIDE DEF h
  <2> QED
    BY <1>5, PushedAllIs
<1> HIDE DEF h
<1> QED
  BY <1>1, <1>3, <1>5, <1>6, <1>7 DEF s

LEMMA MovedIs ==
  ASSUME NEW f, NEW m, NEW q, Housed(f, m, q), NEW v \in SmallVectors,
         NEW other \in SmallVectors \ {v},
         NEW emptied \in {S!Pointers(other, 0, N), S!Pointers(nullptr, 0, 0)}
  PROVE  HousedIn(S!Taken(S!Ended(StateOf(f, m), v), v, other, emptied),
                  [q EXCEPT ![v] = q[other], ![other] = <<>>])
<1> DEFINE l == [f EXCEPT ![v] = S!Pointers(nullptr, 0, 0)]
           h == [q EXCEPT ![v] = <<>>]
<1>1. PICK r, k : S!Ended(StateOf(f, m), v) = StateOf([f EXCEPT ![v] = r], k) /\ Housed(l, k, h)
  BY EndedIs, Zenon
<1>2. /\ DOMAIN f = SmallVectors /\ q \in [SmallVectors -> Seq(Values)]
      /\ l[v] = S!Pointers(nullptr, 0, 0) /\ h[v] = <<>> /\ h[other] = q[other]
      /\ [h EXCEPT ![v] = h[other], ![other] = <<>>] = [q EXCEPT ![v] = q[other], ![other] = <<>>]
  BY Zenon DEF Housed
<1>3. S!Taken(StateOf([f EXCEPT ![v] = r], k), v, other, emptied) = S!Taken(StateOf(l, k), v, other, emptied)
  <2> DEFINE d == [f EXCEPT ![v] = r]
  <2>1. SameBut(v, d, l)
    BY <1>2 DEF SameBut
  <2> HIDE DEF d, l
  <2>2. S!Taken(StateOf(d, k), v, other, emptied) = S!Taken(StateOf(l, k), v, other, emptied)
    BY <2>1, TakenForgets
  <2> QED
    BY <2>2 DEF d, l
<1> HIDE DEF l, h
<1>4. HousedIn(S!Taken(StateOf(l, k), v, other, emptied), [h EXCEPT ![v] = h[other], ![other] = <<>>])
  BY <1>1, <1>2, TakenSmall, TakenHeap, Zenon
<1> QED
  BY <1>1, <1>2, <1>3, <1>4

LEMMA CopyAssignedIs ==
  ASSUME NEW f, NEW m, NEW q, Housed(f, m, q), NEW v \in SmallVectors, NEW c \in Seq(Values)
  PROVE  HousedIn(S!PushedAll(S!Cleared(StateOf(f, m), v), v, c), [q EXCEPT ![v] = c])
<1> DEFINE g == [f EXCEPT ![v] = S!Pointers(f[v].start_, 0, f[v].end_buffer_)]
           h == [q EXCEPT ![v] = <<>>]
<1>1. PICK k : S!Cleared(StateOf(f, m), v) = StateOf(g, k) /\ Housed(g, k, h)
  BY ClearedIs
<1>2. q \in [SmallVectors -> Seq(Values)]
  BY DEF Housed
<1>3. [h EXCEPT ![v] = h[v] \o c] = [q EXCEPT ![v] = c]
  <2>1. h[v] \o c = c
    BY <1>2
  <2> QED
    BY <1>2, <2>1, Zenon
<1> HIDE DEF g, h
<1> QED
  BY <1>1, <1>3, PushedAllIs

-----------------------------------------------------------------------------
(* The objects, buffers and pointers are as the contents say.               *)
SmallInv == HousedIn(S!Now, S!AllContents)

LEMMA SmallBecomes ==
  ASSUME NEW s, NEW q, HousedIn(s, q), S!Become(s)
  PROVE  SmallInv' /\ S!AllContents' = q
<1>1. s = StateOf(s.vector, s.memory) /\ Housed(s.vector, s.memory, q)
  BY DEF HousedIn
<1>2. S!Now' = s
  BY <1>1 DEF S!Now, S!Become, StateOf
<1>3. \A v \in SmallVectors : S!Contents(s, v) = q[v]
  BY <1>1, HousedContents
<1>4. q = [v \in SmallVectors |-> q[v]]
  BY <1>1 DEF Housed
<1>5. S!AllContents' = [v \in SmallVectors |-> S!Contents(s, v)]
  BY <1>2 DEF S!AllContents
<1>6. S!AllContents' = q
  BY <1>3, <1>4, <1>5
<1> QED
  BY <1>2, <1>6 DEF SmallInv

LEMMA SmallNow ==
  ASSUME SmallInv
  PROVE  /\ S!Now = StateOf(vector, memory) /\ Housed(vector, memory, S!AllContents)
         /\ S!AllContents \in [SmallVectors -> Seq(Values)]
         /\ \A v \in SmallVectors : /\ S!Contents(S!Now, v) = S!AllContents[v]
                                    /\ vector[v].end_ = Len(S!AllContents[v])
<1>1. S!Now.vector = vector /\ S!Now.memory = memory
  BY DEF S!Now
<1>2. S!Now = StateOf(vector, memory) /\ Housed(vector, memory, S!AllContents)
  BY <1>1 DEF SmallInv, HousedIn
<1>3. S!AllContents \in [SmallVectors -> Seq(Values)]
  BY <1>2 DEF Housed
<1>4. \A v \in SmallVectors : vector[v].end_ = Len(S!AllContents[v])
  BY <1>2, HousedFacts
<1>5. \A v \in SmallVectors : S!Contents(S!Now, v) = S!AllContents[v]
  BY <1>2, HousedContents
<1> QED
  BY <1>2, <1>3, <1>4, <1>5

(* Nobody pushes an element of a full vector to itself, and where           *)
(* reset_small has elements to move, an assignment may begin their lifetime.*)
NoStaleElements == (Trivial \/ ~MayRelocate) /\ ~MayPushOwn

(* What every call does to the contents.                                    *)
Effect(q) == SmallInv' /\ S!AllContents' = q

LEMMA SmallEffects ==
  ASSUME SmallInv, NoStaleElements, NEW v \in SmallVectors
  PROVE  LET q == S!AllContents IN
         /\ S!DefaultConstruct(v) \/ S!Clear(v) => Effect([q EXCEPT ![v] = <<>>])
         /\ S!PopBack(v) => q[v] # <<>> /\ Effect([q EXCEPT ![v] = S!Front(q[v])])
         /\ S!ResetSmall(v) => Effect(q)
         /\ \A l \in SmallLists : S!ConstructFrom(v, l) => Effect([q EXCEPT ![v] = l])
         /\ \A other \in SmallVectors :
              /\ S!CopyConstruct(v, other) \/ S!CopyAssign(v, other) => Effect([q EXCEPT ![v] = q[other]])
              /\ S!MoveConstruct(v, other) => v # other /\ Effect([q EXCEPT ![v] = q[other], ![other] = <<>>])
              /\ S!MoveAssign(v, other) =>
                   IF v = other THEN Effect(q) ELSE Effect([q EXCEPT ![v] = q[other], ![other] = <<>>])
         /\ \A x \in Values : S!PushBack(v, x) => Effect([q EXCEPT ![v] = Append(q[v], x)])
         /\ \A i \in Nat \ {0} :
              /\ S!PushBackOwn(v, i) => i \in 1 .. Len(q[v]) /\ Effect([q EXCEPT ![v] = Append(q[v], q[v][i])])
              /\ \A x \in Values : S!Set(v, i, x) => i \in 1 .. Len(q[v]) /\ Effect([q EXCEPT ![v][i] = x])
<1> DEFINE f == vector
           m == memory
           q == S!AllContents
<1>1. /\ S!Now = StateOf(f, m) /\ Housed(f, m, q) /\ q \in [SmallVectors -> Seq(Values)]
      /\ \A w \in SmallVectors : S!Contents(S!Now, w) = q[w] /\ f[w].end_ = Len(q[w])
  BY SmallNow
<1>2. ASSUME NEW s, NEW h, HousedIn(s, h), S!Become(s) PROVE Effect(h)
  BY <1>2, SmallBecomes DEF Effect
<1>3. \A w \in SmallVectors : q[w] \in Seq(Values) /\ Len(q[w]) \in Nat
  BY <1>1
<1>4. HousedIn(S!Now, q)
  BY <1>1, HousedAt
<1> HIDE DEF f, m, q
<1>5. /\ HousedIn(S!OwnRoom(S!Ended(S!Now, v), v), [q EXCEPT ![v] = <<>>])
      /\ HousedIn(S!Cleared(S!Now, v), [q EXCEPT ![v] = <<>>])
  <2>1. HousedIn(S!OwnRoom(S!Ended(StateOf(f, m), v), v), [q EXCEPT ![v] = <<>>])
    BY <1>1, DefaultIs, Zenon
  <2> DEFINE g == [f EXCEPT ![v] = S!Pointers(f[v].start_, 0, f[v].end_buffer_)]
  <2>2. PICK k : S!Cleared(StateOf(f, m), v) = StateOf(g, k) /\ Housed(g, k, [q EXCEPT ![v] = <<>>])
    BY <1>1, ClearedIs, Zenon
  <2> HIDE DEF g
  <2> QED
    BY <1>1, <2>1, <2>2, HousedAt
<1>6. S!DefaultConstruct(v) \/ S!Clear(v) => Effect([q EXCEPT ![v] = <<>>])
  BY <1>2, <1>5 DEF S!DefaultConstruct, S!Clear
<1>7. S!PopBack(v) => q[v] # <<>> /\ Effect([q EXCEPT ![v] = S!Front(q[v])])
  <2> SUFFICES ASSUME S!PopBack(v) PROVE q[v] # <<>> /\ Effect([q EXCEPT ![v] = S!Front(q[v])])
    OBVIOUS
  <2> DEFINE s == [S!Wrong(StateOf(f, m), m[f[v].start_][f[v].end_] = Raw)
                     EXCEPT !.memory[f[v].start_][f[v].end_] = Raw, !.vector[v].end_ = @ - 1]
  <2>1. f[v].end_ > 0 /\ S!Become(s)
    BY <1>1, Zenon DEF S!PopBack, f, m
  <2>2. HousedIn(s, [q EXCEPT ![v] = S!Front(q[v])])
    BY <1>1, <2>1, PopBackIs, Zenon
  <2>3. q[v] # <<>>
    <3>3. f[v].end_ = Len(q[v]) /\ Len(q[v]) \in Nat
      BY <1>1, <1>3
    <3>4. f[v].end_ > 0
      BY <2>1
    <3>1. Len(q[v]) # 0
      BY <3>3, <3>4
    <3>2. Len(<<>>) = 0
      OBVIOUS
    <3> QED
      BY <3>1, <3>2
  <2> HIDE DEF s
  <2> QED
    BY <1>2, <2>1, <2>2, <2>3
<1>8. S!ResetSmall(v) => Effect(q)
  <2> SUFFICES ASSUME S!ResetSmall(v) PROVE Effect(q)
    OBVIOUS
  <2> DEFINE start == f[v].start_
             size == f[v].end_
             ontoRaw == \E i \in 1 .. size : m[v][i] = Raw
             assigned == [S!Wrong(StateOf(f, m), ontoRaw /\ ~Trivial) EXCEPT !.memory[v] =
                            [i \in 1 .. N |-> IF i <= size THEN m[start][i] ELSE @[i]]]
             s == S!Reassigned(S!Deleted(S!Destroyed(assigned, start, size), start), v, v, size, N)
  <2>1. /\ S!Become(IF size > N \/ start = v THEN S!Now ELSE s)
        /\ start # v /\ size \in 1 .. N => MayRelocate
    BY <1>1 DEF S!ResetSmall, f, m
  <2>2. CASE size > N \/ start = v
    BY <1>2, <1>4, <2>1, <2>2
  <2>3. CASE ~(size > N \/ start = v)
    <3>1. size <= N /\ start # v /\ (Trivial \/ size = 0)
      BY <1>1, <1>3, <2>1, <2>3, Assumed DEF SmallAssumed, NoStaleElements
    <3>2. HousedIn(s, q)
      BY <1>1, <3>1, ResetSmallIs, Zenon
    <3>3. S!Become(s)
      BY <2>1, <2>3
    <3> HIDE DEF s
    <3> QED
      BY <1>2, <3>2, <3>3
  <2> QED
    BY <2>2, <2>3
<1>9. ASSUME NEW l \in Seq(Values)
      PROVE  HousedIn(S!PushedAll(S!Reserved(S!Ended(S!Now, v), v, Len(l)), v, l), [q EXCEPT ![v] = l])
  BY <1>1, FromIs, Zenon
<1>10. ASSUME NEW l \in SmallLists, S!ConstructFrom(v, l) PROVE Effect([q EXCEPT ![v] = l])
  <2>1. l \in Seq(Values)
    BY Assumed DEF SmallAssumed
  <2> QED
    BY <1>2, <1>9, <1>10, <2>1, Zenon DEF S!ConstructFrom
<1>11. ASSUME NEW other \in SmallVectors
       PROVE  /\ S!CopyConstruct(v, other) => Effect([q EXCEPT ![v] = q[other]])
              /\ S!CopyAssign(v, other) => Effect([q EXCEPT ![v] = q[other]])
              /\ S!MoveConstruct(v, other) => v # other /\ Effect([q EXCEPT ![v] = q[other], ![other] = <<>>])
              /\ S!MoveAssign(v, other) =>
                   IF v = other THEN Effect(q) ELSE Effect([q EXCEPT ![v] = q[other], ![other] = <<>>])
  <2>1. q[other] \in Seq(Values) /\ S!Contents(S!Now, other) = q[other]
    BY <1>1, <1>3
  <2>2. S!CopyConstruct(v, other) => Effect([q EXCEPT ![v] = q[other]])
    BY <1>2, <1>9, <2>1 DEF S!CopyConstruct
  <2>3. S!CopyAssign(v, other) => Effect([q EXCEPT ![v] = q[other]])
    <3>1. CASE v = other
      <4>1. [q EXCEPT ![v] = q[other]] = q
        BY <1>1, <3>1
      <4> QED
        BY <1>2, <1>4, <3>1, <4>1 DEF S!CopyAssign
    <3>2. CASE v # other
      <4>1. HousedIn(S!PushedAll(S!Cleared(S!Now, v), v, q[other]), [q EXCEPT ![v] = q[other]])
        BY <1>1, <2>1, CopyAssignedIs, Zenon
      <4> QED
        BY <1>2, <2>1, <3>2, <4>1 DEF S!CopyAssign
    <3> QED
      BY <3>1, <3>2
  <2>4. ASSUME NEW e \in {S!Pointers(other, 0, N), S!Pointers(nullptr, 0, 0)}, v # other
        PROVE  HousedIn(S!Taken(S!Ended(S!Now, v), v, other, e), [q EXCEPT ![v] = q[other], ![other] = <<>>])
    BY <1>1, <2>4, MovedIs, Zenon
  <2>5. S!MoveConstruct(v, other) => v # other /\ Effect([q EXCEPT ![v] = q[other], ![other] = <<>>])
    BY <1>2, <2>4 DEF S!MoveConstruct
  <2>6. S!MoveAssign(v, other) =>
          IF v = other THEN Effect(q) ELSE Effect([q EXCEPT ![v] = q[other], ![other] = <<>>])
    BY <1>2, <1>4, <2>4 DEF S!MoveAssign
  <2> QED
    BY <2>2, <2>3, <2>5, <2>6
<1>12. ASSUME NEW x \in Values
       PROVE  HousedIn(S!PushedBack(S!Now, v, x), [q EXCEPT ![v] = Append(q[v], x)])
  BY <1>1, PushedBackIs, Zenon
<1>13. ASSUME NEW x \in Values, S!PushBack(v, x) PROVE Effect([q EXCEPT ![v] = Append(q[v], x)])
  BY <1>2, <1>12, <1>13, Zenon DEF S!PushBack
<1>14. ASSUME NEW i \in Nat \ {0}, S!PushBackOwn(v, i)
       PROVE  i \in 1 .. Len(q[v]) /\ Effect([q EXCEPT ![v] = Append(q[v], q[v][i])])
  <2> DEFINE s == S!PushedBack(S!Now, v, q[v][i])
             full == f[v].end_ = f[v].end_buffer_
  <2>1. i <= f[v].end_ /\ ~full /\ S!Become(S!Wrong(s, full))
    BY <1>1, <1>14 DEF S!PushBackOwn, NoStaleElements, f
  <2>2. i \in 1 .. Len(q[v]) /\ q[v][i] \in Values
    BY <1>1, <1>3, <2>1
  <2>3. HousedIn(s, [q EXCEPT ![v] = Append(q[v], q[v][i])])
    BY <1>12, <2>2
  <2> HIDE DEF s, full
  <2>4. s = StateOf(s.vector, s.memory)
    BY <2>3 DEF HousedIn
  <2>5. S!Wrong(s, full) = s
    BY <2>1, <2>4, NotWrong, Zenon DEF full
  <2> QED
    BY <1>2, <2>1, <2>2, <2>3, <2>5
<1>15. ASSUME NEW i \in Nat \ {0}, NEW x \in Values, S!Set(v, i, x)
       PROVE  i \in 1 .. Len(q[v]) /\ Effect([q EXCEPT ![v][i] = x])
  <2> DEFINE s == [StateOf(f, m) EXCEPT !.memory[f[v].start_][i] = x]
  <2>1. i <= f[v].end_ /\ S!Become(s)
    BY <1>1, <1>15 DEF S!Set, f, m
  <2>2. i \in 1 .. Len(q[v]) /\ i \in 1 .. f[v].end_
    BY <1>1, <1>3, <2>1
  <2>3. HousedIn(s, [q EXCEPT ![v][i] = x])
    BY <1>1, <2>2, SetIs, Zenon
  <2> HIDE DEF s
  <2> QED
    BY <1>2, <2>1, <2>2, <2>3
<1> QED
  BY <1>6, <1>7, <1>8, <1>10, <1>11, <1>13, <1>14, <1>15, Zenon DEF q

LEMMA SmallStepIs == ASSUME NoStaleElements, SmallInv PROVE S!SmallStep
<1> SUFFICES ASSUME NEW v \in SmallVectors
             PROVE
               /\ S!DefaultConstruct(v) \/ S!Clear(v) => S!C!Clear(v)
               /\ S!PopBack(v) => S!C!PopBack(v, S!Last(S!AllContents[v]))
               /\ S!ResetSmall(v) => S!C!Copy(v, v)
               /\ \A l \in SmallLists : S!ConstructFrom(v, l) => S!C!Assign(v, l)
               /\ \A other \in SmallVectors :
                    /\ S!CopyConstruct(v, other) \/ S!CopyAssign(v, other) => S!C!Copy(v, other)
                    /\ S!MoveConstruct(v, other) => S!C!Move(v, other)
                    /\ S!MoveAssign(v, other) =>
                         IF v = other THEN S!C!Copy(v, v) ELSE S!C!Move(v, other)
               /\ \A x \in Values : S!PushBack(v, x) => S!C!PushBack(v, x)
               /\ \A i \in 1 .. vector[v].end_ :
                    /\ S!PushBackOwn(v, i) => S!C!PushBack(v, S!AllContents[v][i])
                    /\ \A x \in Values : S!Set(v, i, x) => S!C!Set(v, i, x)
  BY DEF S!SmallStep
<1> DEFINE q == S!AllContents
<1>1. q \in [SmallVectors -> Seq(Values)] /\ vector[v].end_ = Len(q[v]) /\ Len(q[v]) \in Nat
  BY SmallNow
<1>2. \A h : Effect(h) => q' = h
  BY DEF Effect
<1>3. [q EXCEPT ![v] = q[v]] = q
  BY <1>1
<1>4. S!DefaultConstruct(v) \/ S!Clear(v) => S!C!Clear(v)
  BY <1>2, SmallEffects, Zenon DEF S!C!Clear, S!C!Becomes
<1>5. S!PopBack(v) => S!C!PopBack(v, S!Last(q[v]))
  BY <1>2, SmallEffects, Zenon DEF S!C!PopBack, S!C!Becomes, S!C!Last, S!Last, S!C!Front, S!Front
<1>6. S!ResetSmall(v) => S!C!Copy(v, v)
  BY <1>2, <1>3, SmallEffects, Zenon DEF S!C!Copy, S!C!Becomes
<1>7. \A l \in SmallLists : S!ConstructFrom(v, l) => S!C!Assign(v, l)
  BY <1>2, SmallEffects, Zenon DEF S!C!Assign, S!C!Becomes
<1>8. ASSUME NEW other \in SmallVectors
      PROVE  /\ S!CopyConstruct(v, other) \/ S!CopyAssign(v, other) => S!C!Copy(v, other)
             /\ S!MoveConstruct(v, other) => S!C!Move(v, other)
             /\ S!MoveAssign(v, other) =>
                  IF v = other THEN S!C!Copy(v, v) ELSE S!C!Move(v, other)
  BY <1>2, <1>3, SmallEffects, Zenon DEF S!C!Copy, S!C!Move, S!C!Becomes
<1>9. \A x \in Values : S!PushBack(v, x) => S!C!PushBack(v, x)
  BY <1>2, SmallEffects, Zenon DEF S!C!PushBack, S!C!Becomes
<1>10. ASSUME NEW i \in 1 .. vector[v].end_
       PROVE  /\ S!PushBackOwn(v, i) => S!C!PushBack(v, q[v][i])
              /\ \A x \in Values : S!Set(v, i, x) => S!C!Set(v, i, x)
  <2>1. i \in Nat \ {0} /\ i \in 1 .. Len(q[v])
    BY <1>1
  <2>2. S!PushBackOwn(v, i) => S!C!PushBack(v, q[v][i])
    <3>1. S!PushBackOwn(v, i) => Effect([q EXCEPT ![v] = Append(q[v], q[v][i])])
      BY <2>1, SmallEffects, Zenon
    <3> QED
      BY <1>2, <3>1 DEF S!C!PushBack, S!C!Becomes
  <2>3. ASSUME NEW x \in Values, S!Set(v, i, x) PROVE S!C!Set(v, i, x)
    <3>1. Effect([q EXCEPT ![v][i] = x])
      BY <2>1, <2>3, SmallEffects, Zenon
    <3>2. q' = [q EXCEPT ![v][i] = x]
      BY <1>2, <3>1
    <3> QED
      BY <2>1, <3>2 DEF S!C!Set, S!C!Becomes
  <2> QED
    BY <2>2, <2>3
<1> QED
  BY <1>4, <1>5, <1>6, <1>7, <1>8, <1>9, <1>10

LEMMA SmallInvNext == ASSUME NoStaleElements PROVE SmallInv /\ [S!Next]_smalls => SmallInv'
<1> SUFFICES ASSUME SmallInv, [S!Next]_smalls PROVE SmallInv'
  OBVIOUS
<1>1. CASE UNCHANGED smalls
  BY <1>1 DEF smalls, SmallInv, S!Now, S!AllContents
<1>2. ASSUME NEW h, Effect(h) PROVE SmallInv'
  BY <1>2 DEF Effect
<1>3. CASE S!Next
  <2>1. PICK v \in SmallVectors :
          \/ S!DefaultConstruct(v) \/ S!Clear(v) \/ S!PopBack(v) \/ S!ResetSmall(v)
          \/ \E l \in SmallLists : S!ConstructFrom(v, l)
          \/ \E other \in SmallVectors :
               S!CopyConstruct(v, other) \/ S!MoveConstruct(v, other)
               \/ S!CopyAssign(v, other) \/ S!MoveAssign(v, other)
          \/ \E x \in Values : S!PushBack(v, x)
          \/ \E i \in 1 .. SmallBound : S!PushBackOwn(v, i) \/ \E x \in Values : S!Set(v, i, x)
    BY <1>3 DEF S!Next
  <2>2. ASSUME NEW i \in 1 .. SmallBound PROVE i \in Nat \ {0}
    OBVIOUS
  <2> QED
    BY <1>2, <2>1, <2>2, SmallEffects, Zenon
<1> QED
  BY <1>1, <1>3

LEMMA SmallInvInit == S!Init => SmallInv /\ S!C!Init
<1> SUFFICES ASSUME S!Init PROVE SmallInv /\ S!C!Init
  OBVIOUS
<1> DEFINE q == [v \in SmallVectors |-> <<>>]
<1>1. /\ vector = [v \in SmallVectors |-> S!Pointers(v, 0, N)]
      /\ memory = [v \in SmallVectors |-> S!Blank(N)] /\ ~misused
  BY DEF S!Init
<1>2. S!Now = StateOf(vector, memory)
  BY Zenon DEF S!Init, S!Now, StateOf, NoMisuse
<1>3. S!Blank(N) = Cells(<<>>, N) /\ N \in Nat /\ nullptr \notin SmallVectors
  <2>1. \A i \in 1 .. N : ~(i <= Len(<<>>))
    OBVIOUS
  <2> QED
    BY <2>1, Assumed DEF S!Blank, Cells, SmallAssumed
<1>4. \A v \in SmallVectors : vector[v] = S!Pointers(v, Len(<<>>), N) /\ memory[v] = Cells(<<>>, N)
                              /\ vector[v].start_ = v
  BY <1>1, <1>3 DEF S!Pointers
<1>5. <<>> \in Seq(Values) /\ Len(<<>>) = 0 /\ q \in [SmallVectors -> Seq(Values)]
  OBVIOUS
<1>6. ASSUME NEW v \in SmallVectors PROVE Houses(vector[v], memory, v, q[v])
  <2>1. v # nullptr /\ Len(<<>>) <= N
    BY <1>3, <1>5
  <2>2. Houses(S!Pointers(v, Len(<<>>), N), memory, v, <<>>)
    BY <1>3, <1>4, <1>5, <2>1, HousesIs, Zenon
  <2> QED
    BY <1>4, <2>2
<1>7. /\ vector = [v \in SmallVectors |-> vector[v]] /\ Whole(memory)
      /\ DOMAIN memory = SmallVectors \union ({vector[v].start_ : v \in SmallVectors} \ {nullptr})
  <2>1. vector = [v \in SmallVectors |-> vector[v]] /\ Whole(memory) /\ DOMAIN memory = SmallVectors
    BY <1>1 DEF Whole
  <2>2. {vector[v].start_ : v \in SmallVectors} \ {nullptr} \subseteq SmallVectors
    BY <1>4
  <2> QED
    BY <2>1, <2>2
<1> HIDE DEF q
<1>8. Housed(vector, memory, q)
  BY <1>4, <1>5, <1>6, <1>7 DEF Housed
<1>9. S!AllContents = q
  <2>1. \A v \in SmallVectors : S!Contents(S!Now, v) = q[v]
    BY <1>2, <1>8, HousedContents
  <2> QED
    BY <2>1 DEF S!AllContents, q
<1>10. SmallInv
  BY <1>2, <1>8, <1>9, HousedAt DEF SmallInv
<1>11. S!C!Init
  BY <1>9 DEF S!C!Init, q
<1> QED
  BY <1>10, <1>11

LEMMA LifetimesAre == SmallInv => S!Lifetimes
<1> SUFFICES ASSUME SmallInv PROVE S!Lifetimes
  OBVIOUS
<1> DEFINE q == S!AllContents
           o(v) == vector[v].start_
           n(v) == vector[v].end_buffer_
<1>1. S!Now = StateOf(vector, memory) /\ Housed(vector, memory, q)
  BY SmallNow
<1>2. ~misused
  BY <1>1, Zenon DEF S!Now, StateOf, NoMisuse
<1>3. ASSUME NEW v \in SmallVectors
      PROVE  /\ q[v] \in Seq(Values) /\ Len(q[v]) \in Nat /\ n(v) \in Nat /\ Len(q[v]) <= n(v)
             /\ vector[v].end_ = Len(q[v])
             /\ o(v) \in {v, nullptr} \union S!Addresses /\ v \in DOMAIN memory
             /\ o(v) # nullptr => o(v) \in DOMAIN memory /\ memory[o(v)] = Cells(q[v], n(v))
             /\ o(v) = nullptr => n(v) = 0 /\ Len(q[v]) = 0
             /\ o(v) = v => n(v) = N
             /\ o(v) # v => memory[v] = Cells(<<>>, N)
             /\ v # nullptr /\ v \notin S!Addresses
  BY <1>1, HousedFacts
<1>4. DOMAIN memory = SmallVectors \union ({o(v) : v \in SmallVectors} \ {nullptr})
  BY <1>1 DEF Housed
<1>5. \A v, w \in SmallVectors : o(v) = o(w) /\ o(v) # nullptr => v = w
  BY <1>1 DEF Housed
<1>6. \A v, w \in SmallVectors : o(v) \in {w, o(w)} \ {nullptr} => v = w
  <2> HIDE DEF o, n, q
  <2> QED
    BY <1>3, <1>5
<1> HIDE DEF o, n, q
<1>7. N \in Nat /\ nullptr \notin DOMAIN memory
  BY <1>3, <1>4, Assumed DEF SmallAssumed
<1>8. ASSUME NEW v \in SmallVectors, NEW i \in 1 .. n(v)
      PROVE  Cells(q[v], n(v))[i] # Raw <=> i <= vector[v].end_
  <2>1. i <= Len(q[v]) => q[v][i] \in Values
    BY <1>3, <1>8
  <2> QED
    BY <1>3, <2>1, Assumed, Zenon DEF SmallAssumed, Cells
<1>9. ASSUME NEW p \in DOMAIN memory, NEW i \in DOMAIN memory[p]
      PROVE  memory[p][i] # Raw <=> \E v \in SmallVectors : o(v) = p /\ i <= vector[v].end_
  <2>1. p # nullptr
    BY <1>7
  <2>2. CASE \E v \in SmallVectors : o(v) = p
    <3>1. PICK v \in SmallVectors : o(v) = p
      BY <2>2
    <3>2. memory[p] = Cells(q[v], n(v))
      BY <1>3, <2>1, <3>1
    <3>3. i \in 1 .. n(v)
      BY <3>2 DEF Cells
    <3>4. memory[p][i] # Raw <=> i <= vector[v].end_
      BY <1>8, <3>2, <3>3
    <3>5. \A w \in SmallVectors : o(w) = p => w = v
      BY <1>5, <2>1, <3>1
    <3> QED
      BY <3>1, <3>4, <3>5
  <2>3. CASE ~\E v \in SmallVectors : o(v) = p
    <3>1. p \in SmallVectors /\ o(p) # p
      BY <1>4, <2>3
    <3>2. memory[p] = Cells(<<>>, N)
      BY <1>3, <3>1
    <3>3. memory[p][i] = Raw
      <4>1. i \in 1 .. N /\ ~(i <= Len(<<>>))
        BY <3>2 DEF Cells
      <4> QED
        BY <3>2, <4>1 DEF Cells
    <3> QED
      BY <2>3, <3>3
  <2> QED
    BY <2>2, <2>3
<1>10. ASSUME NEW v \in SmallVectors
       PROVE  IF o(v) = nullptr THEN vector[v].end_ = 0 /\ n(v) = 0
              ELSE n(v) = Len(memory[o(v)])
  <2>1. CASE o(v) = nullptr
    BY <1>3, <2>1
  <2>2. CASE o(v) # nullptr
    <3>1. memory[o(v)] = Cells(q[v], n(v)) /\ n(v) \in Nat
      BY <1>3, <2>2
    <3>2. Len(Cells(q[v], n(v))) = n(v)
      BY <3>1 DEF Cells
    <3> QED
      BY <2>2, <3>1, <3>2
  <2> QED
    BY <2>1, <2>2
<1> QED
  BY <1>2, <1>4, <1>6, <1>9, <1>10 DEF S!Lifetimes, o, n

LEMMA SmallInvKept ==
  ASSUME NoStaleElements PROVE (Init => SmallInv) /\ (SmallInv /\ [Next]_vars => SmallInv')
<1>1. Init => SmallInv
  BY SmallInvInit DEF Init
<1>2. ASSUME SmallInv, [Next]_vars PROVE SmallInv'
  <2>1. [S!Next]_smalls
    BY <1>2 DEF Next, vars, smalls
  <2> QED
    BY <1>2, <2>1, SmallInvNext
<1> QED
  BY <1>1, <1>2

(* For any number of small vectors, any inline room N and any calls,        *)
(* constructions and destructions: an object is used from its construction  *)
(* to its destruction and no longer, none is forgotten, and every buffer    *)
(* has one vector and is deleted once (small_vector.h:22-58, 84-244).  For  *)
(* elements with destructors, too, as long as reset_small has none to move  *)
(* (line 233), and if no vector is pushed an element of its own as it grows *)
(* (line 141).                                                              *)
THEOREM ObjectsLive == ASSUME NoStaleElements PROVE Spec => []Lifetimes
<1>1. (Init => SmallInv) /\ (SmallInv /\ [Next]_vars => SmallInv')
  BY SmallInvKept
<1>2. SmallInv => Lifetimes
  BY LifetimesAre DEF Lifetimes
<1> QED
  BY <1>1, <1>2, PTL DEF Spec

(* Every call of a small vector is the call of the same name on a sequence  *)
(* of its own, whether the elements are inline or on the heap before it and *)
(* after it, and changes no other vector (small_vector.h:22-244); again for *)
(* the programs and elements of NoStaleElements.                            *)
THEOREM SmallVectorsImplemented == ASSUME NoStaleElements PROVE Spec => SmallImplements
<1>1. (Init => SmallInv) /\ (SmallInv /\ [Next]_vars => SmallInv')
  BY SmallInvKept
<1>2. Init => S!C!Init
  BY SmallInvInit DEF Init
<1>3. SmallInv /\ [Next]_vars => [using = "SmallVector" => S!SmallStep]_vars
  BY SmallStepIs
<1> QED
  BY <1>1, <1>2, <1>3, PTL DEF Spec, SmallImplements
=============================================================================
