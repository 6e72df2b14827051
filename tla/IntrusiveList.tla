---------------------------- MODULE IntrusiveList ----------------------------
(****************************************************************************)
(* src/tasks/intrusive-list/intrusive_list.h: doubly linked rings through   *)
(* the hooks inside the elements, closed by a dummy hook inside each list.  *)
(* A list and its dummy are one model value.  Single-threaded: a call is    *)
(* one step, except that Clear, the assignment and the destructor pop the   *)
(* elements one by one, and may never come to an end on a broken ring.      *)
(* The caller keeps the contract of an intrusive container: it links an     *)
(* element that is in no list, and pops the front of a list that has one.   *)
(* An operator named X_Y is a slip Y in X.                                  *)
(****************************************************************************)
EXTENDS Integers, Sequences, FiniteSets

CONSTANTS
    Lists, Elements,
    nullptr,
    MayMoveEmpty    \* whether the program assigns from an empty list

(* What the constants must satisfy.                                         *)
ListAssumption ==
    /\ IsFiniteSet(Lists \union Elements) /\ Lists \intersect Elements = {}
    /\ nullptr \notin Lists \union Elements /\ MayMoveEmpty \in BOOLEAN

Hooks == Lists \union Elements

VARIABLES
    prev_, next_,   \* the members of every hook
    clearing,       \* the list whose Clear is running, or nullptr
    source          \* the list that is assigned from after the Clear, or nullptr

listvars == <<prev_, next_, clearing, source>>

Init ==
    /\ prev_ = [h \in Hooks |-> IF h \in Lists THEN h ELSE nullptr]
    /\ next_ = [h \in Hooks |-> IF h \in Lists THEN h ELSE nullptr]
    /\ clearing = nullptr
    /\ source = nullptr

IsLinked(h) == prev_[h] # nullptr /\ next_[h] # nullptr

IsEmpty(l) == next_[l] = l

-----------------------------------------------------------------------------
(* The hooks.  A step through nullptr does not exist: the program would end *)
(* there.                                                                   *)

LinkBefore(h, other) ==
    /\ other # nullptr
    /\ next_' = [next_ EXCEPT ![h] = other, ![prev_[other]] = h]
    /\ prev_' = [prev_ EXCEPT ![h] = prev_[other], ![other] = h]

Unlink_OneWay(h) ==
    /\ h # nullptr
    /\ IF IsLinked(h)
       THEN /\ next_' = [next_ EXCEPT ![prev_[h]] = next_[h], ![h] = nullptr]
            /\ prev_' = [prev_ EXCEPT ![h] = nullptr]
       ELSE UNCHANGED <<prev_, next_>>

Unlink(h) ==
    /\ h # nullptr
    /\ IF IsLinked(h)
       THEN /\ next_' = [next_ EXCEPT ![prev_[h]] = next_[h], ![h] = nullptr]
            /\ prev_' = [prev_ EXCEPT ![next_[h]] = prev_[h], ![h] = nullptr]
       ELSE UNCHANGED <<prev_, next_>>

-----------------------------------------------------------------------------
(* The calls                                                                *)

Idle == clearing = nullptr /\ UNCHANGED <<clearing, source>>

PushBack(l, e) == Idle /\ ~IsLinked(e) /\ LinkBefore(e, l)
PushFront(l, e) == Idle /\ ~IsLinked(e) /\ LinkBefore(e, next_[l])
PopBack(l) == Idle /\ ~IsEmpty(l) /\ Unlink(prev_[l])
PopFront(l) == Idle /\ ~IsEmpty(l) /\ Unlink(next_[l])

(* Unlink called by the owner of the element, or by its destructor.         *)
UnlinkElement(e) == Idle /\ IsLinked(e) /\ Unlink(e)

(* Clear, the destructor and the assignment from list o.                    *)
Clear(l) ==
    /\ clearing = nullptr
    /\ clearing' = l
    /\ UNCHANGED <<prev_, next_, source>>

MoveAssign(l, o) ==
    /\ clearing = nullptr
    /\ l # o
    /\ IsEmpty(o) => MayMoveEmpty
    /\ clearing' = l
    /\ source' = o
    /\ UNCHANGED <<prev_, next_>>

ClearStep(l) ==
    /\ clearing = l
    /\ ~IsEmpty(l)
    /\ Unlink(next_[l])
    /\ UNCHANGED <<clearing, source>>

(* The private swap: l takes o's ring over and o becomes empty.  The four   *)
(* lines run in this order, the third and fourth through l's new pointers.  *)
Taken_NoRelink(l, o) ==
    /\ IsLinked(o)
    /\ next_' = [next_ EXCEPT ![l] = next_[o], ![o] = o]
    /\ prev_' = [prev_ EXCEPT ![l] = prev_[o], ![o] = o]

Taken(l, o) ==
    /\ IsLinked(o)
    /\ next_' = [next_ EXCEPT ![l] = next_[o], ![prev_[o]] = l, ![o] = o]
    /\ prev_' = [prev_ EXCEPT ![l] = prev_[o], ![next_[o]] = l, ![o] = o]

ClearEnd(l) ==
    /\ clearing = l /\ source = nullptr
    /\ IsEmpty(l)
    /\ clearing' = nullptr
    /\ UNCHANGED <<prev_, next_, source>>

AssignEnd(l, o) ==
    /\ clearing = l /\ source = o
    /\ IsEmpty(l)
    /\ Taken(l, o)
    /\ clearing' = nullptr
    /\ source' = nullptr

(* The move constructor, for a list that was destroyed before.              *)
MoveConstruct(l, o) ==
    /\ Idle
    /\ l # o
    /\ IsEmpty(l)
    /\ IF IsEmpty(o) THEN UNCHANGED <<prev_, next_>> ELSE Taken(l, o)

Next ==
    \/ \E l \in Lists :
         \/ \E e \in Elements : PushBack(l, e) \/ PushFront(l, e)
         \/ PopBack(l)
         \/ PopFront(l)
         \/ Clear(l)
         \/ ClearStep(l)
         \/ ClearEnd(l)
         \/ \E o \in Lists : MoveAssign(l, o) \/ AssignEnd(l, o) \/ MoveConstruct(l, o)
    \/ \E e \in Elements : UnlinkElement(e)

Spec == Init /\ [][Next]_listvars

-----------------------------------------------------------------------------
(* What a walk along next_ visits: the sequence a list stands for, and of a *)
(* ring that does not lead back to the list as much as there are hooks.     *)
OneMore(l, visited) ==
    LET h == next_[IF visited = <<>> THEN l ELSE visited[Len(visited)]] IN
    IF h \in {l, nullptr} THEN visited ELSE Append(visited, h)

Walk(l) ==
    LET walk[n \in 0 .. Cardinality(Hooks)] == IF n = 0 THEN <<>> ELSE OneMore(l, walk[n - 1])
    IN  walk[Cardinality(Hooks)]

Contents == [l \in Lists |-> Walk(l)]

(* Every hook in a list points at its neighbours and they point back; a     *)
(* hook is in at most one list, and IsLinked says whether it is in one.     *)
Rings ==
    /\ \A h \in Hooks : next_[h] = nullptr <=> prev_[h] = nullptr
    /\ \A h \in Hooks : IsLinked(h) => prev_[next_[h]] = h /\ next_[prev_[h]] = h
    /\ \A e \in Elements :
         IsLinked(e) <=> \E l \in Lists : \E i \in DOMAIN Contents[l] : Contents[l][i] = e
    /\ \A l \in Lists : IsLinked(l) /\ \A i \in DOMAIN Contents[l] : Contents[l][i] \in Elements

C == INSTANCE Container WITH Objects <- Lists, Values <- Elements, contents <- Contents

(* Every call is the call of the same name on the sequence that iteration   *)
(* visits, and changes no other list.  The move of the elements happens at  *)
(* the end of an assignment; until then it only pops.                       *)
ListStep ==
    /\ \A l \in Lists :
         /\ \A e \in Elements :
              /\ PushBack(l, e) => C!PushBack(l, e)
              /\ PushFront(l, e) => C!PushFront(l, e)
         /\ PopBack(l) => C!PopBack(l, prev_[l])
         /\ PopFront(l) \/ ClearStep(l) => C!PopFront(l, next_[l])
         /\ Clear(l) \/ ClearEnd(l) => UNCHANGED Contents
         /\ ClearEnd(l) => Contents[l] = <<>>
         /\ \A o \in Lists :
              /\ AssignEnd(l, o) \/ MoveConstruct(l, o) => C!Move(l, o)
              /\ MoveAssign(l, o) => UNCHANGED Contents
    /\ \A e \in Elements : UnlinkElement(e) =>
         \E l \in Lists : \E i \in DOMAIN Contents[l] : Contents[l][i] = e /\ C!Erase(l, i)

ListImplements == C!Init /\ [][ListStep]_listvars
=============================================================================
