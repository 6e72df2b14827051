--------------------------- MODULE StaticAllocator ---------------------------
(****************************************************************************)
(* src/tasks/static_allocator/static_allocator.h: a pool of `count` slots   *)
(* with a stack of free indices and a flag per slot.  The program that uses *)
(* it follows the contract of readme.md: it deletes what New gave it, once; *)
(* a constructor of T may throw.  Single-threaded: a call is one step.  A   *)
(* destructor called where no object lives is undefined: phantoms has the   *)
(* slots on which that was done.                                            *)
(****************************************************************************)
EXTENDS Integers, Sequences, FiniteSets

CONSTANT count

(* What the constant must satisfy.                                          *)
AllocatorAssumption == count \in Nat

Slots == 0 .. count - 1

VARIABLES
    free_indexes_,  \* the stack; the top is its last element
    active_,
    objects,        \* the slots in which an object of T lives
    lost,           \* the slots whose constructor threw
    phantoms,       \* the slots on which ~T was called, and no object was there
    destroyed       \* whether ~StaticAllocator has run

allocvars == <<free_indexes_, active_, objects, lost, phantoms, destroyed>>

Init ==
    /\ free_indexes_ = [i \in 1 .. count |-> count - i]
    /\ active_ = [s \in Slots |-> FALSE]
    /\ objects = {} /\ lost = {} /\ phantoms = {}
    /\ destroyed = FALSE

Top == free_indexes_[Len(free_indexes_)]

Take ==
    /\ ~destroyed
    /\ free_indexes_ # <<>>
    /\ free_indexes_' = SubSeq(free_indexes_, 1, Len(free_indexes_) - 1)
    /\ active_' = [active_ EXCEPT ![Top] = TRUE]
    /\ UNCHANGED <<phantoms, destroyed>>

(* New returns slot s.                                                      *)
New(s) == Take /\ s = Top /\ objects' = objects \union {s} /\ UNCHANGED lost

(* The constructor throws out of New, after the slot was marked: nobody     *)
(* gets it and nobody can delete it.                                        *)
NewThrows == Take /\ lost' = lost \union {Top} /\ UNCHANGED objects

(* New returns nullptr.                                                     *)
NewNull == ~destroyed /\ free_indexes_ = <<>> /\ UNCHANGED allocvars

Delete_KeepsFlag(s) ==
    /\ ~destroyed
    /\ s \in objects
    /\ objects' = objects \ {s}
    /\ free_indexes_' = Append(free_indexes_, s)
    /\ UNCHANGED <<active_, lost, phantoms, destroyed>>

Delete(s) ==
    /\ ~destroyed
    /\ s \in objects
    /\ objects' = objects \ {s}
    /\ active_' = [active_ EXCEPT ![s] = FALSE]
    /\ free_indexes_' = Append(free_indexes_, s)
    /\ UNCHANGED <<lost, phantoms, destroyed>>

Active == {s \in Slots : active_[s]}

(* ~StaticAllocator calls ~T on every active slot, whatever is there.       *)
Destroy ==
    /\ ~destroyed
    /\ destroyed' = TRUE
    /\ objects' = objects \ Active
    /\ phantoms' = Active \ objects
    /\ UNCHANGED <<free_indexes_, active_, lost>>

Next ==
    \/ \E s \in Slots : New(s) \/ Delete(s)
    \/ NewThrows
    \/ NewNull
    \/ Destroy
    \/ destroyed /\ UNCHANGED allocvars

Spec == Init /\ [][Next]_allocvars

-----------------------------------------------------------------------------
(* The three accounts of the pool agree after any sequence of New, also one *)
(* whose constructor throws, and Delete: every slot is either on the stack, *)
(* once, or active; and the active slots are those with an object in them   *)
(* and those lost to a throwing constructor, never both.  So New never      *)
(* gives out memory in use, nullptr means that no slot is free or lost, and *)
(* the destructor leaves no object behind; where it calls ~T and no object  *)
(* is, the slot was lost.                                                   *)
SlotsAccounted ==
    /\ \A i, j \in DOMAIN free_indexes_ : free_indexes_[i] = free_indexes_[j] => i = j
    /\ {free_indexes_[i] : i \in DOMAIN free_indexes_} = {s \in Slots : ~active_[s]}
    /\ IF destroyed THEN objects = {} /\ phantoms = lost
       ELSE /\ objects \union lost = Active /\ objects \intersect lost = {}
            /\ phantoms = {}

(* What readme.md asks of the destructor, to destroy all the currently      *)
(* alive objects, and what C++ asks of it: ~T runs where an object lives.   *)
AliveDestroyed == phantoms = {}
=============================================================================
