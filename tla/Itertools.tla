------------------------------ MODULE Itertools ------------------------------
(****************************************************************************)
(* src/tasks/itertools/itertools.h: Range, Group and Zip, each of them gone *)
(* through as a range-based for loop does: begin(), end(), !=, *, ++.       *)
(*                                                                          *)
(* An iterable is a record whose `kind` says what it is; a vector's         *)
(* iterator is an index from 0, a Range's its current number, modulo        *)
(* SizeRange, a Group's the two ends of its present group, and a Zip's the  *)
(* iterators of its two sequences.  step is 1 or more.                      *)
(* An operator named X_Y is a slip Y in X that the properties must notice.  *)
(****************************************************************************)
EXTENDS Integers, Sequences, SequencesExt

CONSTANTS
    Loops,          \* the iterables that are gone through
    SizeRange       \* 2^64: how many values a size_t has

(* A sequence: a vector, or a Range.                                        *)
Sequence(s) ==
    \/ /\ s.kind = "Vector"
       /\ s.items \in Seq({s.items[k] : k \in DOMAIN s.items})
    \/ /\ s.kind = "Range"
       /\ s.from \in 0 .. SizeRange - 1 /\ s.to \in 0 .. SizeRange - 1
       /\ s.step \in 1 .. SizeRange - 1

(* What the constants must satisfy.                                         *)
ItertoolsAssumption ==
    /\ SizeRange \in Nat \ {0}
    /\ \A l \in Loops :
         \/ l.kind \in {"Vector", "Range"} /\ Sequence(l)
         \/ l.kind = "Group" /\ l.over.kind = "Vector" /\ Sequence(l.over)
         \/ l.kind = "Zip" /\ Sequence(l.first) /\ Sequence(l.second)

(* A size_t holds the numbers of a Range and the step past the last one.    *)
StepsFit(s) == s.kind = "Range" => s.to + s.step <= SizeRange

NoneWraps ==
    \A l \in Loops :
        /\ l.kind \in {"Vector", "Range"} => StepsFit(l)
        /\ l.kind = "Zip" => StepsFit(l.first) /\ StepsFit(l.second)

VARIABLES
    loop,           \* the iterable
    it,             \* __begin of the for loop
    out,            \* what the body has seen
    ipc

vars == <<loop, it, out, ipc>>

-----------------------------------------------------------------------------
(* Sequences: vectors, and class Range.                                     *)

Begin1(s) == IF s.kind = "Range" THEN s.from ELSE 0
End1(s) == IF s.kind = "Range" THEN s.to ELSE Len(s.items)
NotEqual1_Range(s, i, j) == i # j

(* Range::Iterator::operator!= compares with <.                             *)
NotEqual1(s, i, j) == IF s.kind = "Range" THEN i < j ELSE i # j
Advance1(s, i) == IF s.kind = "Range" THEN (i + s.step) % SizeRange ELSE i + 1
Deref1(s, i) == IF s.kind = "Range" THEN i ELSE s.items[i + 1]

(* class Group: where the group that begins at `from` ends.                 *)
GroupEnd(s, from) ==
    CHOOSE to \in from .. Len(s.items) :
        /\ from < Len(s.items) => from < to
        /\ \A k \in from + 1 .. to : s.items[k] = s.items[from + 1]
        /\ to < Len(s.items) => s.items[to + 1] # s.items[from + 1]

GroupAt(s, from) == [group_begin |-> from, current |-> GroupEnd(s, from)]

-----------------------------------------------------------------------------
Begin(l) ==
    CASE l.kind = "Group" -> GroupAt(l.over, 0)
      [] l.kind = "Zip" -> [current1 |-> Begin1(l.first), current2 |-> Begin1(l.second)]
      [] OTHER -> Begin1(l)

End(l) ==
    CASE l.kind = "Group" -> GroupAt(l.over, Len(l.over.items))
      [] l.kind = "Zip" -> [current1 |-> End1(l.first), current2 |-> End1(l.second)]
      [] OTHER -> End1(l)

NotEqual(l, i, j) ==
    CASE l.kind = "Group" -> i.group_begin # j.group_begin
      [] l.kind = "Zip" -> /\ NotEqual1(l.first, i.current1, j.current1)
                           /\ NotEqual1(l.second, i.current2, j.current2)
      [] OTHER -> NotEqual1(l, i, j)

Advance(l, i) ==
    CASE l.kind = "Group" -> GroupAt(l.over, i.current)
      [] l.kind = "Zip" -> [current1 |-> Advance1(l.first, i.current1),
                            current2 |-> Advance1(l.second, i.current2)]
      [] OTHER -> Advance1(l, i)

Deref(l, i) ==
    CASE l.kind = "Group" -> SubSeq(l.over.items, i.group_begin + 1, i.current)
      [] l.kind = "Zip" -> <<Deref1(l.first, i.current1), Deref1(l.second, i.current2)>>
      [] OTHER -> Deref1(l, i)

Init ==
    /\ loop \in Loops
    /\ it = Begin(loop)
    /\ out = <<>>
    /\ ipc = "loop"

Turn ==
    /\ ipc = "loop" /\ NotEqual(loop, it, End(loop))
    /\ out' = Append(out, Deref(loop, it))
    /\ it' = Advance(loop, it)
    /\ UNCHANGED <<loop, ipc>>

Leave ==
    /\ ipc = "loop" /\ ~NotEqual(loop, it, End(loop))
    /\ ipc' = "left"
    /\ UNCHANGED <<loop, it, out>>

Next == Turn \/ Leave

-----------------------------------------------------------------------------
(* What a sequence holds: a vector's items, the numbers of a Range.         *)
Items(s) ==
    IF s.kind = "Vector" THEN s.items
    ELSE LET steps == IF s.from < s.to THEN (s.to - s.from + s.step - 1) \div s.step ELSE 0
         IN  [k \in 1 .. steps |-> s.from + (k - 1) * s.step]

(* The body has seen a Range's numbers, the pairs of a Zip up to the end of *)
(* the shorter sequence, or a Group's runs: equal items, together the whole *)
(* sequence, and no two neighbouring runs of the same item.                 *)
LoopsExact ==
    ipc = "left" =>
      CASE loop.kind = "Group" ->
             /\ FlattenSeq(out) = loop.over.items
             /\ \A g \in DOMAIN out : out[g] # <<>> /\ \A k \in DOMAIN out[g] : out[g][k] = out[g][1]
             /\ \A g \in 1 .. Len(out) - 1 : out[g][1] # out[g + 1][1]
        [] loop.kind = "Zip" ->
             LET a == Items(loop.first)
                 b == Items(loop.second)
             IN  out = [k \in 1 .. (IF Len(a) < Len(b) THEN Len(a) ELSE Len(b)) |-> <<a[k], b[k]>>]
        [] OTHER -> out = Items(loop)
=============================================================================
