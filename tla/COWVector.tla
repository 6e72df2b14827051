------------------------------ MODULE COWVector ------------------------------
(****************************************************************************)
(* src/tasks/cow-vector/cow_vector.h: vectors of strings that share their   *)
(* storage until one of them writes.  The program's variables hold vectors; *)
(* constructing one anew destroys the old one first.  Single-threaded: a    *)
(* call is one step.  Data records live on a heap, so that a leak, a record *)
(* deleted under a vector and a wrong reference count are visible.  Indices *)
(* count from 0 and are in range, as for std::vector.  An operator named    *)
(* X_Y is a slip Y in X.                                                    *)
(****************************************************************************)
EXTENDS Integers, Sequences, FiniteSets

CONSTANTS
    Vectors, Values,
    Default,        \* the empty string that Resize fills with
    SizeBound       \* bound: elements of a vector

(* What the constants must satisfy.                                         *)
VectorAssumption ==
    IsFiniteSet(Vectors) /\ Vectors # {} /\ Default \in Values /\ SizeBound \in Nat

(* Addresses: while every vector has its Data there is room for one more.   *)
Addresses == 0 .. Cardinality(Vectors)

VARIABLES
    data_,          \* data_[v]: the address of v's Data
    data            \* data[p]: the Data at p, with its string vector and counter

cowvars == <<data_, data>>

NewData == [storage_ |-> <<>>, ref_count_ |-> 1]

Init ==
    /\ data_ = CHOOSE f \in [Vectors -> Addresses] :
                    \A v, w \in Vectors : f[v] = f[w] => v = w
    /\ data = [p \in {data_[v] : v \in Vectors} |-> NewData]

-----------------------------------------------------------------------------
Fresh(h) == CHOOSE p \in Addresses \ DOMAIN h : TRUE

New(h, p, x) == [q \in DOMAIN h \union {p} |-> IF q = p THEN x ELSE h[q]]

(* clear(): the last one out deletes the Data.                              *)
Released(h, p) ==
    IF h[p].ref_count_ = 1
    THEN [q \in DOMAIN h \ {p} |-> h[q]]
    ELSE [h EXCEPT ![p].ref_count_ = @ - 1]

Retained(h, p) == [h EXCEPT ![p].ref_count_ = @ + 1]

Strings(v) == data[data_[v]].storage_

(* detach(), then the write that leaves the strings s in v.                 *)
DetachAndWrite_Shared(v, s) ==
    /\ data' = [data EXCEPT ![data_[v]].storage_ = s]
    /\ UNCHANGED data_

DetachAndWrite(v, s) ==
    LET shared == data[data_[v]].ref_count_ > 1
        p == IF shared THEN Fresh(data) ELSE data_[v]
    IN  /\ data' = New(IF shared THEN Released(data, data_[v]) ELSE data,
                       p, [storage_ |-> s, ref_count_ |-> 1])
        /\ data_' = [data_ EXCEPT ![v] = p]

-----------------------------------------------------------------------------
Resize(v, n) ==
    DetachAndWrite(v, [i \in 1 .. n |-> IF i <= Len(Strings(v)) THEN Strings(v)[i] ELSE Default])

PushBack(v, x) == DetachAndWrite(v, Append(Strings(v), x))

Set(v, at, x) ==
    /\ at < Len(Strings(v))
    /\ DetachAndWrite(v, [Strings(v) EXCEPT ![at + 1] = x])

(* ~COWVector and the constructors.                                         *)
Construct(v) ==
    LET rest == Released(data, data_[v]) IN
    /\ data' = New(rest, Fresh(rest), NewData)
    /\ data_' = [data_ EXCEPT ![v] = Fresh(rest)]

CopyConstruct(v, other) ==
    /\ v # other
    /\ data' = Retained(Released(data, data_[v]), data_[other])
    /\ data_' = [data_ EXCEPT ![v] = data_[other]]

(* operator= from a const reference, by a temporary copy and swap.          *)
CopyAssign(v, other) ==
    /\ v # other
    /\ data' = Released(Retained(data, data_[other]), data_[v])
    /\ data_' = [data_ EXCEPT ![v] = data_[other]]

MoveAssign_Leak(v, other) ==
    /\ v # other
    /\ data' = New(data, Fresh(data), NewData)
    /\ data_' = [data_ EXCEPT ![v] = data_[other], ![other] = Fresh(data)]

(* The move constructor and operator= from an rvalue: what v held is given  *)
(* back before v takes other's Data, which may be the same.                 *)
MoveAssign(v, other) ==
    LET rest == Released(data, data_[v]) IN
    /\ v # other
    /\ data' = New(rest, Fresh(rest), NewData)
    /\ data_' = [data_ EXCEPT ![v] = data_[other], ![other] = Fresh(rest)]

Next ==
    \E v \in Vectors :
        \/ \E n \in 0 .. SizeBound : Resize(v, n)
        \/ \E x \in Values :
             \/ Len(Strings(v)) < SizeBound /\ PushBack(v, x)
             \/ \E at \in 0 .. SizeBound - 1 : Set(v, at, x)
        \/ Construct(v)
        \/ \E other \in Vectors :
             CopyConstruct(v, other) \/ CopyAssign(v, other) \/ MoveAssign(v, other)

Spec == Init /\ [][Next]_cowvars

-----------------------------------------------------------------------------
(* Every Data is counted exactly: it lives as long as a vector uses it, and *)
(* its counter is the number of these vectors (what RefCount() returns, and *)
(* what detach() and clear() decide by).                                    *)
RefCountsExact ==
    /\ DOMAIN data = {data_[v] : v \in Vectors}
    /\ \A p \in DOMAIN data :
         data[p].ref_count_ = Cardinality({v \in Vectors : data_[v] = p})

Contents == [v \in Vectors |-> Strings(v)]

C == INSTANCE Container WITH Objects <- Vectors, contents <- Contents

(* Every call is the call of the same name on a vector of one's own: no     *)
(* write is seen through another vector, whatever they share.               *)
COWStep ==
    \A v \in Vectors :
        /\ \A n \in 0 .. SizeBound : Resize(v, n) => C!Resize(v, n, Default)
        /\ \A x \in Values :
             /\ PushBack(v, x) => C!PushBack(v, x)
             /\ \A at \in 0 .. SizeBound - 1 : Set(v, at, x) => C!Set(v, at + 1, x)
        /\ Construct(v) => C!Clear(v)
        /\ \A other \in Vectors :
             /\ CopyConstruct(v, other) \/ CopyAssign(v, other) => C!Copy(v, other)
             /\ MoveAssign(v, other) => C!Move(v, other)

COWImplements == C!Init /\ [][COWStep]_cowvars
=============================================================================
