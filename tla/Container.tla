------------------------------ MODULE Container ------------------------------
(****************************************************************************)
(* What the repository's containers promise: every object stands for a      *)
(* sequence of its own, and a call changes the sequences of the objects it  *)
(* names and of no other.  The detailed modules (Deque, IntrusiveList,      *)
(* COWVector) map their pointers, blocks and counters to `contents` and     *)
(* show that each of their calls is the call of the same name here.         *)
(****************************************************************************)
EXTENDS Integers, SequencesExt

CONSTANTS Objects, Values

VARIABLE contents   \* contents[o]: the sequence object o stands for

Init == contents = [o \in Objects |-> <<>>]

Becomes(o, s) == contents' = [contents EXCEPT ![o] = s]

PushBack(o, v) == Becomes(o, Append(contents[o], v))
PushFront(o, v) == Becomes(o, <<v>> \o contents[o])

(* The pops return v.                                                       *)
PopBack(o, v) == contents[o] # <<>> /\ v = Last(contents[o]) /\ Becomes(o, Front(contents[o]))
PopFront(o, v) == contents[o] # <<>> /\ v = Head(contents[o]) /\ Becomes(o, Tail(contents[o]))

Set(o, i, v) == i \in 1 .. Len(contents[o]) /\ Becomes(o, [contents[o] EXCEPT ![i] = v])
Erase(o, i) == i \in 1 .. Len(contents[o]) /\ Becomes(o, RemoveAt(contents[o], i))

(* The first n elements stay; what is missing is filled with v.             *)
Resize(o, n, v) ==
    Becomes(o, [i \in 1 .. n |-> IF i <= Len(contents[o]) THEN contents[o][i] ELSE v])

Clear(o) == Becomes(o, <<>>)
Assign(o, s) == Becomes(o, s)
Copy(o, p) == Becomes(o, contents[p])
Move(o, p) == contents' = [contents EXCEPT ![o] = contents[p], ![p] = <<>>]
Swap(o, p) == contents' = [contents EXCEPT ![o] = contents[p], ![p] = contents[o]]
=============================================================================
