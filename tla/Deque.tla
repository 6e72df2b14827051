-------------------------------- MODULE Deque --------------------------------
(****************************************************************************)
(* src/tasks/deque/deque.h: a deque of ints in blocks of BLOCK_SIZE, as a   *)
(* vector of pointers to blocks, the place of the first element             *)
(* (head_index_, in the first block), the place behind the last one         *)
(* (tail_block_, tail_index_) and the size.  Blocks live on a heap, so that *)
(* a shared, leaked or deleted block is visible.  Single-threaded: a call   *)
(* is one step.  Two of the program's variables hold deques; constructing   *)
(* one anew destroys the old one first.                                     *)
(*                                                                          *)
(* An access outside a block, outside storage_ or through a deleted block   *)
(* is undefined behaviour and ends the model with `undefined`.  A call that *)
(* throws (pop of an empty deque, bad index) changes nothing and is left    *)
(* out.  An operator named X_Y is a slip Y in X.                            *)
(****************************************************************************)
EXTENDS Integers, Sequences, FiniteSets

CONSTANTS
    Deques, Values,
    BLOCK_SIZE,
    SizeRange,      \* size_t counts modulo SizeRange
    InitLists,      \* the initializer lists the program uses
    Unwritten,      \* what `new std::array` leaves in a cell
    SizeBound,      \* bound: elements of all deques together
    BlockBound      \* bound: blocks of all deques together

(* What the constants must satisfy.                                         *)
DequeAssumption ==
    /\ BLOCK_SIZE \in Nat \ {0} /\ SizeRange \in Nat \ {0} /\ SizeBound \in Nat
    /\ BlockBound \in Nat
    /\ BlockBound + 1 < SizeRange      \* size_t counts the blocks that fit the memory
    /\ InitLists \subseteq Seq(Values) /\ Unwritten \notin Values

VARIABLES
    deque,      \* deque[d]: the members of d
    heap,       \* heap[b]: the cells of the allocated block b
    undefined

dequevars == <<deque, heap, undefined>>

Index == 0 .. BLOCK_SIZE - 1

EmptyDeque ==
    [storage_ |-> <<>>, head_index_ |-> 0, tail_block_ |-> 0, tail_index_ |-> 0, size_ |-> 0]

Init ==
    /\ deque = [d \in Deques |-> EmptyDeque]
    /\ heap = <<>>
    /\ undefined = FALSE

Wrap(n) == n % SizeRange

-----------------------------------------------------------------------------
(* The heap: `new` takes free addresses, `delete` gives addresses back.     *)

BlocksOf(storage) == {storage[k] : k \in DOMAIN storage}

(* n new blocks, none of them in h.                                         *)
NewBlocks(n, h) ==
    LET free == (0 .. Cardinality(DOMAIN h) + n - 1) \ DOMAIN h
    IN  CHOOSE s \in [1 .. n -> free] : \A i, j \in 1 .. n : s[i] = s[j] => i = j

(* The heap h with the blocks of storage; the k-th, if new, holds cells[k]. *)
Allocate(h, storage, cells) ==
    [b \in DOMAIN h \union BlocksOf(storage) |->
        IF b \in DOMAIN h THEN h[b]
        ELSE cells[CHOOSE k \in DOMAIN storage : storage[k] = b]]

Delete(h, storage) == [b \in DOMAIN h \ BlocksOf(storage) |-> h[b]]

Blank(storage) == [k \in DOMAIN storage |-> [i \in Index |-> Unwritten]]

(* Deque d becomes x with heap h, if cell i of block x.storage_[k] may be   *)
(* accessed on the way, and the access is undefined otherwise.              *)
Access(d, x, k, i, h) ==
    IF k < Len(x.storage_) /\ x.storage_[k + 1] \in DOMAIN h /\ i < BLOCK_SIZE
    THEN /\ deque' = [deque EXCEPT ![d] = x]
         /\ UNCHANGED undefined
    ELSE /\ undefined' = TRUE
         /\ UNCHANGED <<deque, heap>>

Write(d, x, k, i, h, v) ==
    /\ Access(d, x, k, i, h)
    /\ ~undefined' => heap' = [h EXCEPT ![x.storage_[k + 1]][i] = v]

Empty(d) == deque[d].size_ = 0

-----------------------------------------------------------------------------
(* Pushes and pops                                                          *)

PushBack(d, v) ==
    LET x == deque[d]
        new == IF x.tail_block_ >= Len(x.storage_) THEN NewBlocks(1, heap) ELSE <<>>
        grown == [x EXCEPT !.storage_ = @ \o new, !.size_ = @ + 1]
    IN  Write(d, IF x.tail_index_ + 1 >= BLOCK_SIZE
                 THEN [grown EXCEPT !.tail_index_ = 0, !.tail_block_ = Wrap(@ + 1)]
                 ELSE [grown EXCEPT !.tail_index_ = @ + 1],
              x.tail_block_, x.tail_index_, Allocate(heap, grown.storage_, Blank(grown.storage_)), v)

(* The last block goes when it is the second behind the last element's.     *)
Spare_OffByOne(x, block) ==
    IF Wrap(block + 1) = Len(x.storage_) THEN <<x.storage_[Len(x.storage_)]>> ELSE <<>>

Spare(x, block) ==
    IF Wrap(block + 1) = Wrap(Len(x.storage_) - 1) THEN <<x.storage_[Len(x.storage_)]>> ELSE <<>>

PopBack(d, v) ==
    LET x == deque[d]
        block == IF x.tail_index_ = 0 THEN Wrap(x.tail_block_ - 1) ELSE x.tail_block_
        index == IF x.tail_index_ = 0 THEN BLOCK_SIZE - 1 ELSE x.tail_index_ - 1
        spare == Spare(x, block)
        shrunk == [x EXCEPT !.storage_ = SubSeq(@, 1, Len(@) - Len(spare)), !.size_ = @ - 1,
                            !.tail_block_ = block, !.tail_index_ = index]
    IN  /\ ~Empty(d)
        /\ Access(d, shrunk, block, index, Delete(heap, spare))
        /\ ~undefined' => v = heap[shrunk.storage_[block + 1]][index]
                          /\ heap' = Delete(heap, spare)

PushFront(d, v) ==
    LET x == deque[d]
        new == IF x.head_index_ = 0 THEN NewBlocks(1, heap) ELSE <<>>
        head == IF x.head_index_ = 0 THEN BLOCK_SIZE - 1 ELSE x.head_index_ - 1
        grown == [x EXCEPT !.storage_ = new \o @, !.head_index_ = head, !.size_ = @ + 1,
                           !.tail_block_ = Wrap(@ + Len(new))]
    IN  Write(d, grown, 0, head, Allocate(heap, grown.storage_, Blank(grown.storage_)), v)

PopFront(d, v) ==
    LET x == deque[d]
        used == IF x.head_index_ + 1 >= BLOCK_SIZE THEN <<x.storage_[1]>> ELSE <<>>
    IN  /\ ~Empty(d)
        /\ v = heap[x.storage_[1]][x.head_index_]
        /\ heap' = Delete(heap, used)
        /\ deque' = [deque EXCEPT ![d] =
                [x EXCEPT !.storage_ = SubSeq(@, 1 + Len(used), Len(@)), !.size_ = @ - 1,
                          !.head_index_ = IF used = <<>> THEN @ + 1 ELSE 0,
                          !.tail_block_ = Wrap(@ - Len(used))]]
        /\ UNCHANGED undefined

(* d[index] = v; indices count from 0.                                      *)
SetAt(d, index, v) ==
    LET offset == deque[d].head_index_ + index
    IN  /\ index < deque[d].size_
        /\ Write(d, deque[d], offset \div BLOCK_SIZE, offset % BLOCK_SIZE, heap, v)

-----------------------------------------------------------------------------
(* Whole deques.  Clear keeps the blocks; a constructor comes after the     *)
(* destructor ~Deque of what the variable held before.                      *)

Clear(d) ==
    /\ deque' = [deque EXCEPT ![d] = [EmptyDeque EXCEPT !.storage_ = deque[d].storage_]]
    /\ UNCHANGED <<heap, undefined>>

Swap(d, o) ==
    /\ deque' = [deque EXCEPT ![d] = deque[o], ![o] = deque[d]]
    /\ UNCHANGED <<heap, undefined>>

Rest(d) == Delete(heap, deque[d].storage_)      \* the heap after ~Deque

Become(d, x, h) ==
    /\ deque' = [deque EXCEPT ![d] = x]
    /\ heap' = h
    /\ UNCHANGED undefined

Construct(d) == Become(d, EmptyDeque, Rest(d))

ConstructFrom(d, list) ==
    LET n == Len(list)
        needed == (n + BLOCK_SIZE - 1) \div BLOCK_SIZE
        exact == n % BLOCK_SIZE = 0 /\ n # 0
        storage == NewBlocks(needed, Rest(d))
        value(j) == IF j < n THEN list[j + 1] ELSE Unwritten
        cells == [k \in 1 .. needed |-> [i \in Index |-> value((k - 1) * BLOCK_SIZE + i)]]
    IN  Become(d, [storage_ |-> storage, head_index_ |-> 0, size_ |-> n,
                   tail_block_ |-> IF exact THEN needed ELSE Wrap(needed - 1),
                   tail_index_ |-> IF exact THEN BLOCK_SIZE ELSE n % BLOCK_SIZE],
               Allocate(Rest(d), storage, cells))

(* The blocks that d gets for a copy of o.                                  *)
CopyOf_Shared(d, o) == deque[o].storage_

CopyOf(d, o) == NewBlocks(Len(deque[o].storage_), Rest(d))

(* The copy assignment, also from an rvalue; to itself it does nothing.     *)
CopyAssign(d, o) ==
    LET cells == [k \in DOMAIN deque[o].storage_ |-> heap[deque[o].storage_[k]]]
    IN  /\ d # o
        /\ Become(d, [deque[o] EXCEPT !.storage_ = CopyOf(d, o)],
                  Allocate(Rest(d), CopyOf(d, o), cells))

(* The copy constructor takes over no reserve from an empty deque.          *)
CopyConstruct(d, o) ==
    /\ d # o
    /\ IF Empty(o) THEN Construct(d) ELSE CopyAssign(d, o)

MoveConstruct(d, o) ==
    /\ d # o
    /\ heap' = Rest(d)
    /\ deque' = [deque EXCEPT ![d] = deque[o], ![o] = EmptyDeque]
    /\ UNCHANGED undefined

-----------------------------------------------------------------------------
Total(D) ==
    LET sum[S \in SUBSET Deques] ==
            IF S = {} THEN 0
            ELSE LET d == CHOOSE d \in S : TRUE IN D[d].size_ + sum[S \ {d}]
    IN sum[Deques]

Cells == Values \union {Unwritten}

Step ==
    \E d \in Deques :
        \/ \E v \in Values : PushBack(d, v) \/ PushFront(d, v)
        \/ \E v \in Cells : PopBack(d, v) \/ PopFront(d, v)
        \/ \E i \in 0 .. SizeBound - 1, v \in Values : SetAt(d, i, v)
        \/ Clear(d)
        \/ Construct(d)
        \/ \E list \in InitLists : ConstructFrom(d, list)
        \/ \E o \in Deques :
             Swap(d, o) \/ CopyConstruct(d, o) \/ MoveConstruct(d, o) \/ CopyAssign(d, o)

Next ==
    /\ ~undefined
    /\ Step
    /\ Total(deque') <= SizeBound
    /\ Cardinality(DOMAIN heap') <= BlockBound

Spec == Init /\ [][Next]_dequevars

-----------------------------------------------------------------------------
(* Every allocated block belongs to exactly one place of one deque: none    *)
(* leaks, none is shared, none is deleted while it is in use.  And the end  *)
(* of a deque, where tail_block_ and tail_index_ put it, is where the front *)
(* and the size put it.                                                     *)
Layout ==
    LET places == UNION {{d} \X DOMAIN deque[d].storage_ : d \in Deques}
    IN  /\ {deque[p[1]].storage_[p[2]] : p \in places} = DOMAIN heap
        /\ Cardinality(places) = Cardinality(DOMAIN heap)
        /\ \A d \in Deques :
             /\ deque[d].head_index_ \in Index /\ deque[d].tail_index_ \in Index
             /\ deque[d].tail_block_ * BLOCK_SIZE + deque[d].tail_index_
                  = deque[d].head_index_ + deque[d].size_
             /\ deque[d].head_index_ + deque[d].size_ <= Len(deque[d].storage_) * BLOCK_SIZE

(* The sequence a deque stands for: what operator[] returns (lines 164-178, *)
(* 213-218).                                                                *)
At(d, offset) ==
    LET k == offset \div BLOCK_SIZE + 1
    IN  IF k \in DOMAIN deque[d].storage_ /\ deque[d].storage_[k] \in DOMAIN heap
        THEN heap[deque[d].storage_[k]][offset % BLOCK_SIZE]
        ELSE Unwritten

Contents ==
    [d \in Deques |-> [i \in 1 .. deque[d].size_ |-> At(d, deque[d].head_index_ + i - 1)]]

C == INSTANCE Container WITH Objects <- Deques, contents <- Contents

(* Every call of the code is the call of the same name on that sequence,    *)
(* with its result, and leaves every other deque alone.                     *)
DequeStep ==
    \A d \in Deques :
        /\ \A v \in Cells :
             /\ PushBack(d, v) => C!PushBack(d, v)
             /\ PushFront(d, v) => C!PushFront(d, v)
             /\ PopBack(d, v) => C!PopBack(d, v)
             /\ PopFront(d, v) => C!PopFront(d, v)
             /\ \A i \in 0 .. SizeBound - 1 : SetAt(d, i, v) => C!Set(d, i + 1, v)
        /\ Clear(d) \/ Construct(d) => C!Clear(d)
        /\ \A list \in InitLists : ConstructFrom(d, list) => C!Assign(d, list)
        /\ \A o \in Deques :
             /\ Swap(d, o) => C!Swap(d, o)
             /\ CopyConstruct(d, o) \/ CopyAssign(d, o) => C!Copy(d, o)
             /\ MoveConstruct(d, o) => C!Move(d, o)

DequeImplements == C!Init /\ [][DequeStep]_dequevars
=============================================================================
