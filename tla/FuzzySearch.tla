----------------------------- MODULE FuzzySearch -----------------------------
(****************************************************************************)
(* src/tasks/fuzzy-search/fuzzy_search.h: an item within a factor of two of *)
(* a number, found in constant time in buckets by powers of two.            *)
(* x * 2 is computed in 64 bits and does not wrap.                          *)
(* An operator named X_Y is a slip Y in X that the properties must notice.  *)
(****************************************************************************)
EXTENDS Integers, Sequences, SequencesExt

CONSTANTS
    LEN_BITS,       \* 32: the bits of an uint32_t
    None            \* std::nullopt

prev_deg2(x) == CHOOSE d \in 0 .. LEN_BITS - 1 : 2^d <= x /\ x < 2^(d + 1)

(* Zero has a bucket of its own, behind the others.                         *)
Bucket(item) == IF item = 0 THEN LEN_BITS ELSE prev_deg2(item)

Emplace_Last(values, item) ==
    [values EXCEPT ![Bucket(item)] = [first |-> item, second |-> item]]

(* The least and the greatest item of the bucket.                           *)
Emplace(values, item) ==
    [values EXCEPT ![Bucket(item)] =
        IF @ = None THEN [first |-> item, second |-> item]
        ELSE [first  |-> IF item < @.first THEN item ELSE @.first,
              second |-> IF item > @.second THEN item ELSE @.second]]

values_(items) == FoldLeft(Emplace, [d \in 0 .. LEN_BITS |-> None], items)

Near(x, item) == x * 2 >= item /\ item * 2 >= x

(* The items that Find tries, in order; it takes the first that is near.    *)
Tried(values, x) ==
    LET d == prev_deg2(x)
        Least(b) == IF values[b] = None THEN <<>> ELSE <<values[b].first>>
        Greatest(b) == IF values[b] = None THEN <<>> ELSE <<values[b].second>>
    IN  (IF d > 0 THEN Greatest(d - 1) ELSE <<>>) \o Least(d) \o Greatest(d) \o Least(d + 1)

Find(values, x) ==
    IF x = 0
      THEN IF values[LEN_BITS] = None THEN None ELSE values[LEN_BITS].first
      ELSE LET near == SelectSeq(Tried(values, x), LAMBDA item : Near(x, item))
           IN  IF near = <<>> THEN None ELSE near[1]

-----------------------------------------------------------------------------
(* Find returns an item that is near x, or nothing if no item is: the       *)
(* neighbouring buckets and their ends are all it needs to look at.         *)
FuzzyExact(items, x) ==
    LET near == {item \in ToSet(items) : Near(x, item)}
        found == Find(values_(items), x)
    IN  IF near = {} THEN found = None ELSE found \in near
=============================================================================
