----------------------------- MODULE StaticMap ------------------------------
(****************************************************************************)
(* src/tasks/static-map/static_map.h: a map made once from pairs, sorted by *)
(* key and searched by halving.  std::sort may leave pairs with one key in  *)
(* any order, so that a map is one of several.                              *)
(* An operator named X_Y is a slip Y in X that the properties must notice.  *)
(****************************************************************************)
EXTENDS Integers, Sequences, FiniteSets

CONSTANT nullptr

sort_by_key_Not(items) == {items}

(* The orders that std::sort may produce.                                   *)
sort_by_key(items) ==
    LET n == Len(items)
        orders == {p \in [1 .. n -> 1 .. n] : \A i, j \in 1 .. n : p[i] = p[j] => i = j}
    IN  {m \in {[k \in 1 .. n |-> items[p[k]]] : p \in orders} :
            \A k \in 1 .. n - 1 : m[k].first <= m[k + 1].first}

(* The ranges [first, last) of items_, as places.                           *)
Ranges(items_) ==
    {r \in (1 .. Len(items_) + 1) \X (1 .. Len(items_) + 1) : r[1] <= r[2]}

(* std::lower_bound halves the range [first, last) until it is empty.       *)
lower_bound(items_, key) ==
    LET search[r \in Ranges(items_)] ==
          LET middle == r[1] + (r[2] - r[1]) \div 2
          IN  IF r[1] = r[2] THEN r[1]
              ELSE IF items_[middle].first < key THEN search[<<middle + 1, r[2]>>]
              ELSE search[<<r[1], middle>>]
    IN  search[<<1, Len(items_) + 1>>]

Find(items_, key) ==
    LET bound == lower_bound(items_, key)
    IN  IF bound <= Len(items_) /\ items_[bound].first = key
          THEN items_[bound].second ELSE nullptr

(* However the sort breaks ties, Find gives a value that was paired with    *)
(* the key, or nothing if the key was not there.                            *)
MapExact(items, key) ==
    LET values == {items[k].second : k \in {k \in DOMAIN items : items[k].first = key}}
    IN  \A items_ \in sort_by_key(items) :
          IF values = {} THEN Find(items_, key) = nullptr ELSE Find(items_, key) \in values
=============================================================================
