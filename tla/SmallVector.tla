----------------------------- MODULE SmallVector -----------------------------
(****************************************************************************)
(* src/tasks/small-vector/small_vector.h: vectors with room for N elements  *)
(* in the object itself and a heap buffer for more.  The address of v's own *)
(* room is v, so that is_small() is start_ = v; nullptr is the storage of a *)
(* vector that was moved from by assignment.  end_ and end_buffer_ count    *)
(* cells from start_, and cells count from 1.  The program's variables hold *)
(* vectors; constructing one anew destroys the old one first.  Single-      *)
(* threaded: a call is one step.  An operator X_Y is a slip Y in X.         *)
(****************************************************************************)
EXTENDS Integers, SequencesExt, FiniteSets

CONSTANTS
    SmallVectors, Values,
    N,
    Lists,          \* what initializer lists and ranges hold
    Trivial,        \* whether T is trivial, so that assignment may begin a lifetime
    MayPushOwn,     \* whether the program pushes an element of a full vector to itself
    MayRelocate,    \* whether the program calls reset_small where it moves elements
    nullptr,
    Raw,            \* a cell in which no object lives
    SizeBound       \* bound: elements of a vector

(* Growing takes a buffer before it gives one back.                         *)
Addresses == 0 .. Cardinality(SmallVectors)

(* What the constants must satisfy.                                         *)
SmallVectorAssumption ==
    /\ IsFiniteSet(SmallVectors) /\ SmallVectors # {}
    /\ N \in Nat \ {0} /\ SizeBound \in Nat
    /\ Lists \subseteq Seq(Values)
    /\ Trivial \in BOOLEAN /\ MayPushOwn \in BOOLEAN /\ MayRelocate \in BOOLEAN
    /\ Raw \notin Values
    /\ nullptr \notin SmallVectors
    /\ (SmallVectors \union {nullptr}) \intersect Addresses = {}

VARIABLES
    vector,         \* vector[v]: v's three pointers
    memory,         \* memory[p]: the cells at p, of every own room and living buffer
    misused         \* whether a cell was used against its state

smallvars == <<vector, memory, misused>>

Blank(n) == [i \in 1 .. n |-> Raw]

Pointers(p, n, capacity) == [start_ |-> p, end_ |-> n, end_buffer_ |-> capacity]

Init ==
    /\ vector = [v \in SmallVectors |-> Pointers(v, 0, N)]
    /\ memory = [v \in SmallVectors |-> Blank(N)]
    /\ misused = FALSE

-----------------------------------------------------------------------------
(* The calls are built from what they do to a state s of the three          *)
(* variables.                                                               *)
Now == [vector |-> vector, memory |-> memory, misused |-> misused]

Become(s) == vector' = s.vector /\ memory' = s.memory /\ misused' = s.misused

Wrong(s, b) == [s EXCEPT !.misused = @ \/ b]

(* new (p + i) T(x): nothing lives there yet.                               *)
Construct(s, p, i, x) == [Wrong(s, s.memory[p][i] # Raw) EXCEPT !.memory[p][i] = x]

(* ~T() for the first n cells at p: an object lives in each.                *)
Destroyed(s, p, n) ==
    IF n = 0 THEN s
    ELSE [Wrong(s, \E i \in 1 .. n : s.memory[p][i] = Raw)
            EXCEPT !.memory[p] = [i \in DOMAIN @ |-> IF i <= n THEN Raw ELSE @[i]]]

(* allocateSz: s with a buffer at Fresh(s).                                 *)
Fresh(s) == CHOOSE p \in Addresses \ DOMAIN s.memory : TRUE
Allocated(s, n) ==
    [s EXCEPT !.memory = [p \in DOMAIN @ \union {Fresh(s)} |->
                            IF p \in DOMAIN @ THEN @[p] ELSE Blank(n)]]

(* operator delete(p): a buffer with nothing alive in it, or nullptr.       *)
Deleted(s, p) ==
    [Wrong(s, p # nullptr /\ (p \notin DOMAIN s.memory \/ \E c \in Range(s.memory[p]) : c # Raw))
        EXCEPT !.memory = [q \in DOMAIN @ \ {p} |-> @[q]]]

IsSmall(s, v) == s.vector[v].start_ = v

DeletedUnlessSmall(s, v) == IF IsSmall(s, v) THEN s ELSE Deleted(s, s.vector[v].start_)

Reassigned(s, v, p, n, capacity) == [s EXCEPT !.vector[v] = Pointers(p, n, capacity)]

OwnRoom(s, v) == Reassigned(s, v, v, 0, N)

Cleared(s, v) ==
    [Destroyed(s, s.vector[v].start_, s.vector[v].end_) EXCEPT !.vector[v].end_ = 0]

(* ~VectorBase.                                                             *)
Ended(s, v) == DeletedUnlessSmall(Cleared(s, v), v)

(* reserveStorage.                                                          *)
Reserved(s, v, n) ==
    IF n > N THEN Reassigned(Allocated(s, n), v, Fresh(s), 0, n) ELSE OwnRoom(s, v)

(* pushBackPf: the elements move to a buffer twice as large when v is full. *)
PushedBack(s, v, x) ==
    LET start == s.vector[v].start_
        size == s.vector[v].end_
        room == s.vector[v].end_buffer_
        capacity == IF room > 0 THEN 2 * room ELSE 1
        p == Fresh(s)
        moved == Destroyed([Allocated(s, capacity) EXCEPT !.memory[p] =
                               [i \in DOMAIN @ |-> IF i <= size THEN s.memory[start][i] ELSE Raw]],
                           start, size)
    IN  IF size = room
        THEN Reassigned(DeletedUnlessSmall(Construct(moved, p, size + 1, x), v),
                        v, p, size + 1, capacity)
        ELSE [Construct(s, start, size + 1, x) EXCEPT !.vector[v].end_ = @ + 1]

(* copyRange, and the loops of the constructors.                            *)
PushedAll(s, v, l) == FoldLeft(LAMBDA t, x : PushedBack(t, v, x), s, l)

Contents(s, v) == [i \in 1 .. s.vector[v].end_ |-> s.memory[s.vector[v].start_][i]]

(* moveRange: the objects moved out of live until other's clear().          *)
MovedAll(s, v, other) == Cleared(PushedAll(s, v, Contents(s, other)), other)

-----------------------------------------------------------------------------
(* SmallVector(), with ~VectorBase of what v held.                          *)
DefaultConstruct(v) == Become(OwnRoom(Ended(Now, v), v))

(* The constructors from n copies, an initializer list and two iterators.   *)
ConstructFrom(v, l) == Become(PushedAll(Reserved(Ended(Now, v), v, Len(l)), v, l))

CopyConstruct(v, other) ==
    /\ v # other
    /\ LET l == Contents(Now, other) IN
       Become(PushedAll(Reserved(Ended(Now, v), v, Len(l)), v, l))

(* Takes over other's pointers or elements into v, which holds nothing, and *)
(* leaves other as `emptied` says.                                          *)
Taken(s, v, other, emptied) ==
    IF IsSmall(s, other)
    THEN MovedAll(OwnRoom(s, v), v, other)
    ELSE [s EXCEPT !.vector[v] = s.vector[other], !.vector[other] = emptied]

MoveConstruct(v, other) ==
    v # other /\ Become(Taken(Ended(Now, v), v, other, Pointers(other, 0, N)))

CopyAssign_NoClear(v, other) ==
    Become(IF v = other THEN Now ELSE PushedAll(Now, v, Contents(Now, other)))

CopyAssign(v, other) ==
    Become(IF v = other THEN Now ELSE PushedAll(Cleared(Now, v), v, Contents(Now, other)))

MoveAssign(v, other) ==
    Become(IF v = other THEN Now
           ELSE Taken(Ended(Now, v), v, other, Pointers(nullptr, 0, 0)))

Clear(v) == Become(Cleared(Now, v))

(* push_back of a value from elsewhere.                                     *)
PushBack(v, x) == Become(PushedBack(Now, v, x))

(* push_back of v's own element i: when v grows, the element is moved away  *)
(* and destroyed before it is copied.                                       *)
PushBackOwn(v, i) ==
    LET full == vector[v].end_ = vector[v].end_buffer_ IN
    /\ i <= vector[v].end_
    /\ full => MayPushOwn
    /\ Become(Wrong(PushedBack(Now, v, Contents(Now, v)[i]), full))

(* On an empty vector pop_back throws and changes nothing.                  *)
PopBack(v) ==
    LET r == vector[v] IN
    /\ r.end_ > 0
    /\ Become([Wrong(Now, memory[r.start_][r.end_] = Raw)
                  EXCEPT !.memory[r.start_][r.end_] = Raw, !.vector[v].end_ = @ - 1])

(* A write through operator[].                                              *)
Set(v, i, x) ==
    /\ i <= vector[v].end_
    /\ Become([Now EXCEPT !.memory[vector[v].start_][i] = x])

ResetSmall_KeepsBuffer(v) ==
    LET start == vector[v].start_
        size == vector[v].end_
        assigned == [Now EXCEPT !.memory[v] =
                        [i \in 1 .. N |-> IF i <= size THEN memory[start][i] ELSE @[i]]]
    IN  Become(IF size > N \/ start = v THEN Now
               ELSE Reassigned(Destroyed(assigned, start, size), v, v, size, N))

(* reset_small assigns to the cells of v's own room, in which nothing       *)
(* lives: undefined unless T is trivial.                                    *)
ResetSmall(v) ==
    LET start == vector[v].start_
        size == vector[v].end_
        ontoRaw == \E i \in 1 .. size : memory[v][i] = Raw
        assigned == [Wrong(Now, ontoRaw /\ ~Trivial) EXCEPT !.memory[v] =
                        [i \in 1 .. N |-> IF i <= size THEN memory[start][i] ELSE @[i]]]
    IN  /\ start # v /\ size \in 1 .. N => MayRelocate
        /\ Become(IF size > N \/ start = v THEN Now
                  ELSE Reassigned(Deleted(Destroyed(assigned, start, size), start),
                                  v, v, size, N))

Next ==
    \E v \in SmallVectors :
        \/ DefaultConstruct(v) \/ Clear(v) \/ PopBack(v) \/ ResetSmall(v)
        \/ \E l \in Lists : ConstructFrom(v, l)
        \/ \E other \in SmallVectors :
             CopyConstruct(v, other) \/ MoveConstruct(v, other)
             \/ CopyAssign(v, other) \/ MoveAssign(v, other)
        \/ vector[v].end_ < SizeBound /\ \E x \in Values : PushBack(v, x)
        \/ \E i \in 1 .. SizeBound :
             \/ vector[v].end_ < SizeBound /\ PushBackOwn(v, i)
             \/ \E x \in Values : Set(v, i, x)

Spec == Init /\ [][Next]_smallvars

-----------------------------------------------------------------------------
(* No object is used before its construction or after its destruction and   *)
(* none is forgotten: the living ones are those between start_ and end_ of  *)
(* one vector.  No buffer leaks, is deleted twice or has two vectors, and   *)
(* end_buffer_ is where it ends.                                            *)
Lifetimes ==
    /\ ~misused
    /\ DOMAIN memory = SmallVectors \union ({vector[v].start_ : v \in SmallVectors} \ {nullptr})
    /\ \A v, w \in SmallVectors :
         vector[v].start_ \in {w, vector[w].start_} \ {nullptr} => v = w
    /\ \A p \in DOMAIN memory : \A i \in DOMAIN memory[p] :
         memory[p][i] # Raw
             <=> \E v \in SmallVectors : vector[v].start_ = p /\ i <= vector[v].end_
    /\ \A v \in SmallVectors :
         IF vector[v].start_ = nullptr
         THEN vector[v].end_ = 0 /\ vector[v].end_buffer_ = 0
         ELSE vector[v].end_buffer_ = Len(memory[vector[v].start_])

(* Where v's elements are.                                                  *)
Room(v) == IF vector[v].start_ \in {v, nullptr} THEN vector[v].start_ ELSE "heap"

AllContents == [v \in SmallVectors |-> Contents(Now, v)]

C == INSTANCE Container WITH Objects <- SmallVectors, contents <- AllContents

(* Every call is the call of the same name on a sequence of one's own,      *)
(* wherever the elements are stored before and after it.                    *)
SmallStep ==
    \A v \in SmallVectors :
        /\ DefaultConstruct(v) \/ Clear(v) => C!Clear(v)
        /\ PopBack(v) => C!PopBack(v, Last(AllContents[v]))
        /\ ResetSmall(v) => C!Copy(v, v)
        /\ \A l \in Lists : ConstructFrom(v, l) => C!Assign(v, l)
        /\ \A other \in SmallVectors :
             /\ CopyConstruct(v, other) \/ CopyAssign(v, other) => C!Copy(v, other)
             /\ MoveConstruct(v, other) => C!Move(v, other)
             /\ MoveAssign(v, other) => IF v = other THEN C!Copy(v, v) ELSE C!Move(v, other)
        /\ \A x \in Values : PushBack(v, x) => C!PushBack(v, x)
        /\ \A i \in 1 .. vector[v].end_ :
             /\ PushBackOwn(v, i) => C!PushBack(v, AllContents[v][i])
             /\ \A x \in Values : Set(v, i, x) => C!Set(v, i, x)

SmallImplements == C!Init /\ [][SmallStep]_smallvars
=============================================================================
