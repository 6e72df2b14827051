---------------------------- MODULE AlgorithmsProofs -------------------------
(****************************************************************************)
(* The stepwise algorithms, for every input and every value of the other    *)
(* constants: what the program that runs one of them keeps, whichever it is.*)
(*                                                                          *)
(* Reduce: the blocks partition the range, no worker leaves its own, and    *)
(* the caller gets the left fold of the whole range whatever the threads do *)
(* when.  StartOf(len, cnt, k) is where block k starts when len elements are*)
(* cut into cnt blocks.  The program computes it as a running sum; in closed*)
(* form it is k times the size of a short block, and one more for each long *)
(* block before.                                                            *)
(*                                                                          *)
(* bin-grep: a descriptor and a mapping are held between the calls that take*)
(* and release them; and what has been reported is what is due for all that *)
(* is behind the program, then the first matches of the present file.       *)
(*                                                                          *)
(* The loops over a Range, a Group and a Zip, and ReadAll: what has been    *)
(* seen is the beginning of what there is, and the iterator, or the stream, *)
(* stands where that ends.                                                  *)
(*                                                                          *)
(* Functions without steps: the index over trades, the map, the vector of   *)
(* lanes and the product of matrices give what is asked for every input, as *)
(* facts about the functions, which need no state.                          *)
(****************************************************************************)
EXTENDS Algorithms, SequencesExt, SequenceTheorems, FiniteSetTheorems, WellFoundedInduction, TLAPS

CONSTANTS WORD, LANES, BLOCK, nullptr

S == INSTANCE Simd
M == INSTANCE StaticMap

(* A set of natural numbers has a least one.                                *)
LEMMA NatMinimum ==
  ASSUME NEW ns \in SUBSET Nat, ns # {}
  PROVE  \E x \in ns : \A y \in ns : x <= y
<1> DEFINE Less == {ss \in Nat \X Nat : ss[1] < ss[2]}
<1>1. IsWellFoundedOn(Less, Nat)
  <2>1. OpToRel(<, Nat) = Less
    BY DEF OpToRel
  <2> QED
    BY <2>1, NatLessThanWellFounded, Zenon
<1>2. PICK x \in ns : \A y \in ns : ~(<<y, x>> \in Less)
  <2> HIDE DEF Less
  <2> QED
    BY <1>1, WFMin, Zenon
<1>3. ASSUME NEW y \in ns PROVE x <= y
  <2>1. x \in Nat /\ y \in Nat
    OBVIOUS
  <2>2. ~(y < x)
    BY <1>2, <2>1, Zenon
  <2> QED
    BY <2>1, <2>2
<1> QED
  BY <1>3

(* Induction over the natural numbers, as a fact about sets.                *)
LEMMA NatSetInduction ==
  ASSUME NEW Held, 0 \in Held, \A n \in Nat : n \in Held => n + 1 \in Held
  PROVE  Nat \subseteq Held
<1> DEFINE Rest == Nat \ Held
<1> SUFFICES ASSUME Rest # {} PROVE FALSE
  OBVIOUS
<1>1. PICK x \in Rest : \A y \in Rest : x <= y
  <2>1. Rest \in SUBSET Nat
    OBVIOUS
  <2> HIDE DEF Rest
  <2> QED
    BY <2>1, NatMinimum
<1>2. x # 0 /\ x \in Nat /\ x - 1 \in Nat /\ (x - 1) + 1 = x /\ ~(x <= x - 1)
  OBVIOUS
<1>3. x - 1 \in Held
  BY <1>1, <1>2
<1> QED
  BY <1>2, <1>3

-----------------------------------------------------------------------------
(* FlattenSeq, a recursion over its argument: one sequence more at the end. *)

IsFlat(s, n, f) == f = [k \in 1 .. n |-> IF k = 1 THEN s[k] ELSE f[k - 1] \o s[k]]

LEMMA FlatAt ==
  ASSUME NEW s, NEW n \in Nat, NEW f, IsFlat(s, n, f), NEW k \in 1 .. n
  PROVE  f[k] = IF k = 1 THEN s[k] ELSE f[k - 1] \o s[k]
<1> DEFINE g == [l \in 1 .. n |-> IF l = 1 THEN s[l] ELSE f[l - 1] \o s[l]]
<1>1. f = g
  BY Zenon DEF IsFlat
<1>2. g[k] = IF k = 1 THEN s[k] ELSE f[k - 1] \o s[k]
  OBVIOUS
<1> HIDE DEF g
<1> QED
  BY <1>1, <1>2

LEMMA FlatExists == \A s : \A n \in Nat : \E f : IsFlat(s, n, f)
<1> SUFFICES ASSUME NEW s, NEW n \in Nat PROVE \E f : IsFlat(s, n, f)
  OBVIOUS
<1> DEFINE Held == {m \in Nat : \E f : IsFlat(s, m, f)}
<1>1. 0 \in Held
  <2> DEFINE f == [k \in 1 .. 0 |-> <<>>]
  <2>1. f = [k \in 1 .. 0 |-> IF k = 1 THEN s[k] ELSE f[k - 1] \o s[k]]
    OBVIOUS
  <2> QED
    BY <2>1, Zenon DEF IsFlat
<1>2. ASSUME NEW m \in Nat, m \in Held PROVE m + 1 \in Held
  <2>1. PICK f : IsFlat(s, m, f)
    BY <1>2
  <2> DEFINE g == [k \in 1 .. m + 1 |-> IF k <= m THEN f[k]
                                        ELSE IF k = 1 THEN s[k] ELSE f[k - 1] \o s[k]]
  <2>2. ASSUME NEW k \in 1 .. m + 1
        PROVE  g[k] = IF k = 1 THEN s[k] ELSE g[k - 1] \o s[k]
    <3>1. CASE k <= m
      <4>1. f[k] = IF k = 1 THEN s[k] ELSE f[k - 1] \o s[k]
        BY <2>1, <3>1, FlatAt
      <4> QED
        BY <3>1, <4>1
    <3>2. CASE k = m + 1
      BY <3>2
    <3> QED
      BY <3>1, <3>2
  <2>3. g = [k \in 1 .. m + 1 |-> g[k]]
    OBVIOUS
  <2> HIDE DEF g
  <2> QED
    <3>1. IsFlat(s, m + 1, g)
      BY <2>2, <2>3, Zenon DEF IsFlat
    <3>2. m + 1 \in Nat
      OBVIOUS
    <3> QED
      BY <3>1, <3>2
<1>3. n \in Held
  <2> HIDE DEF Held
  <2> QED
    BY <1>1, <1>2, NatSetInduction
<1> QED
  BY <1>3

LEMMA FlatUnique ==
  ASSUME NEW s, NEW t, NEW m \in Nat, NEW n \in Nat, NEW f, NEW g,
         IsFlat(s, m, f), IsFlat(t, n, g), m <= n, \A l \in 1 .. m : s[l] = t[l],
         NEW k \in 1 .. m
  PROVE  f[k] = g[k]
<1> DEFINE Held == {l \in Nat : l \in 1 .. m => f[l] = g[l]}
<1>1. 0 \in Held
  OBVIOUS
<1>2. ASSUME NEW l \in Nat, l \in Held PROVE l + 1 \in Held
  <2> SUFFICES ASSUME l + 1 \in 1 .. m PROVE f[l + 1] = g[l + 1]
    OBVIOUS
  <2>1. f[l + 1] = IF l + 1 = 1 THEN s[l + 1] ELSE f[(l + 1) - 1] \o s[l + 1]
    BY FlatAt
  <2>2. g[l + 1] = IF l + 1 = 1 THEN t[l + 1] ELSE g[(l + 1) - 1] \o t[l + 1]
    <3>1. l + 1 \in 1 .. n
      OBVIOUS
    <3> QED
      BY <3>1, FlatAt
  <2>3. (l + 1) - 1 = l /\ (l + 1 # 1 => f[l] = g[l])
    BY <1>2
  <2> QED
    BY <2>1, <2>2, <2>3
<1>3. k \in Held
  <2> HIDE DEF Held
  <2> QED
    BY <1>1, <1>2, NatSetInduction
<1> QED
  BY <1>3

LEMMA FlattenIs ==
  ASSUME NEW s, Len(s) \in Nat, Len(s) # 0
  PROVE  \E f : IsFlat(s, Len(s), f) /\ FlattenSeq(s) = f[Len(s)]
<1> DEFINE flatten == CHOOSE f : IsFlat(s, Len(s), f)
<1>1. IsFlat(s, Len(s), flatten)
  BY FlatExists
<1>2. FlattenSeq(s) = flatten[Len(s)]
  BY DEF FlattenSeq, IsFlat
<1> QED
  BY <1>1, <1>2, Zenon

LEMMA SubSeqFacts ==
  ASSUME NEW U, NEW s \in Seq(U), NEW k \in 0 .. Len(s)
  PROVE  /\ SubSeq(s, 1, k) \in Seq(U) /\ Len(SubSeq(s, 1, k)) = k
         /\ \A l \in 1 .. k : SubSeq(s, 1, k)[l] = s[l]
OBVIOUS

LEMMA FlattenEmpty == FlattenSeq(<<>>) = <<>>
BY DEF FlattenSeq

LEMMA FlattenNext ==
  ASSUME NEW U, NEW s \in Seq(Seq(U)), NEW k \in 1 .. Len(s)
  PROVE  FlattenSeq(SubSeq(s, 1, k)) = FlattenSeq(SubSeq(s, 1, k - 1)) \o s[k]
<1> DEFINE now == SubSeq(s, 1, k)
           before == SubSeq(s, 1, k - 1)
<1>1. /\ Len(now) = k /\ Len(before) = k - 1 /\ k - 1 \in Nat /\ k \in Nat
      /\ \A l \in 1 .. k : now[l] = s[l]
      /\ \A l \in 1 .. k - 1 : before[l] = s[l]
      /\ s[k] \in Seq(U)
  <2>1. k \in 0 .. Len(s) /\ k - 1 \in 0 .. Len(s) /\ k \in Nat /\ k - 1 \in Nat
    OBVIOUS
  <2>2. s[k] \in Seq(U)
    BY ElementOfSeq, Zenon
  <2>3. Len(now) = k /\ \A l \in 1 .. k : now[l] = s[l]
    BY <2>1, SubSeqFacts, Zenon
  <2>4. Len(before) = k - 1 /\ \A l \in 1 .. k - 1 : before[l] = s[l]
    BY <2>1, SubSeqFacts, Zenon
  <2> QED
    BY <2>1, <2>2, <2>3, <2>4, Zenon
<1>2. k = 1 => before = <<>>
  OBVIOUS
<1> HIDE DEF now, before
<1>3. PICK f : IsFlat(now, k, f) /\ FlattenSeq(now) = f[k]
  BY <1>1, FlattenIs
<1>4. f[k] = IF k = 1 THEN now[k] ELSE f[k - 1] \o now[k]
  BY <1>1, <1>3, FlatAt, SMTT(30)
<1>5. CASE k = 1
  <2>1. FlattenSeq(before) = <<>>
    BY <1>2, <1>5, FlattenEmpty
  <2>2. <<>> \o s[k] = s[k]
    BY <1>1
  <2>3. now[k] = s[k]
    BY <1>1, <1>5
  <2>4. FlattenSeq(now) = FlattenSeq(before) \o s[k]
    BY <1>3, <1>4, <1>5, <2>1, <2>2, <2>3, Zenon
  <2> QED
    BY <2>4, Zenon DEF now, before
<1>6. CASE k # 1
  <2>1. PICK g : IsFlat(before, k - 1, g) /\ FlattenSeq(before) = g[k - 1]
    <3>1. Len(before) = k - 1 /\ k - 1 \in Nat /\ k - 1 # 0
      BY <1>1, <1>6
    <3> QED
      BY <3>1, FlattenIs, Zenon
  <2>2. g[k - 1] = f[k - 1]
    <3> DEFINE j == k - 1
    <3>1. /\ j \in Nat /\ k \in Nat /\ j <= k /\ j \in 1 .. j
          /\ \A l \in 1 .. j : before[l] = now[l]
      BY <1>1, <1>6
    <3>2. IsFlat(before, j, g) /\ IsFlat(now, k, f)
      BY <1>3, <2>1
    <3> HIDE DEF j
    <3>3. g[j] = f[j]
      BY <3>1, <3>2, FlatUnique, SMTT(90)
    <3> QED
      BY <3>3 DEF j
  <2>3. now[k] = s[k]
    BY <1>1
  <2>4. FlattenSeq(now) = FlattenSeq(before) \o s[k]
    BY <1>3, <1>4, <1>6, <2>1, <2>2, <2>3, Zenon
  <2> QED
    BY <2>4, Zenon DEF now, before
<1> QED
  BY <1>5, <1>6, Zenon

LEMMA FlattenType ==
  ASSUME NEW U, NEW s \in Seq(Seq(U)), NEW k \in 0 .. Len(s)
  PROVE  FlattenSeq(SubSeq(s, 1, k)) \in Seq(U)
<1> DEFINE Held == {l \in Nat : l \in 0 .. Len(s) => FlattenSeq(SubSeq(s, 1, l)) \in Seq(U)}
<1>1. 0 \in Held
  <2>1. SubSeq(s, 1, 0) = <<>>
    OBVIOUS
  <2>2. FlattenSeq(SubSeq(s, 1, 0)) \in Seq(U)
    <3>1. <<>> \in Seq(U)
      OBVIOUS
    <3> QED
      BY <2>1, <3>1, FlattenEmpty, Zenon
  <2> QED
    BY <2>2
<1>2. ASSUME NEW l \in Nat, l \in Held PROVE l + 1 \in Held
  <2> SUFFICES ASSUME l + 1 \in 0 .. Len(s) PROVE FlattenSeq(SubSeq(s, 1, l + 1)) \in Seq(U)
    OBVIOUS
  <2>1. l + 1 \in 1 .. Len(s) /\ (l + 1) - 1 = l /\ l \in 0 .. Len(s) /\ s[l + 1] \in Seq(U)
    OBVIOUS
  <2>2. FlattenSeq(SubSeq(s, 1, l + 1)) = FlattenSeq(SubSeq(s, 1, l)) \o s[l + 1]
    BY <2>1, FlattenNext, Zenon
  <2>3. FlattenSeq(SubSeq(s, 1, l)) \in Seq(U)
    BY <1>2, <2>1
  <2> QED
    BY <2>1, <2>2, <2>3, ConcatProperties, Zenon
<1>3. k \in Held
  <2>1. k \in Nat
    OBVIOUS
  <2> HIDE DEF Held
  <2> QED
    BY <1>1, <1>2, <2>1, NatSetInduction, Zenon
<1>4. k \in 0 .. Len(s)
  OBVIOUS
<1> QED
  BY <1>3, <1>4

(* What the first k sequences give is the beginning of what all give.       *)
LEMMA FlattenPrefix ==
  ASSUME NEW U, NEW s \in Seq(Seq(U)), NEW k \in 0 .. Len(s)
  PROVE  \E t \in Seq(U) : FlattenSeq(s) = FlattenSeq(SubSeq(s, 1, k)) \o t
<1> DEFINE Flat(l) == FlattenSeq(SubSeq(s, 1, l))
           Adds(d) == \E t \in Seq(U) : Flat(k + d) = Flat(k) \o t
           Held == {d \in Nat : k + d <= Len(s) => Adds(d)}
<1>0. Flat(k) \in Seq(U)
  BY FlattenType
<1>1. 0 \in Held
  <2>1. Flat(k + 0) = Flat(k) \o <<>> /\ <<>> \in Seq(U)
    <3>1. k + 0 = k
      OBVIOUS
    <3> QED
      BY <1>0, <3>1, ConcatEmptySeq
  <2> HIDE DEF Flat
  <2>2. Adds(0)
    BY <2>1, Zenon
  <2> QED
    BY <2>2, Zenon
<1>2. ASSUME NEW d \in Nat, d \in Held PROVE d + 1 \in Held
  <2> DEFINE l == k + (d + 1)
  <2>1. k + d \in Nat /\ d + 1 \in Nat
    OBVIOUS
  <2>2. ASSUME l <= Len(s) PROVE Adds(d + 1)
    <3>1. l \in 1 .. Len(s) /\ l - 1 = k + d /\ k + d <= Len(s)
      BY <2>2
    <3>2. s[l] \in Seq(U)
      BY <3>1, ElementOfSeq, Zenon
    <3>3. PICK t \in Seq(U) : Flat(k + d) = Flat(k) \o t
      BY <1>2, <3>1, Zenon
    <3>4. Flat(l) = Flat(l - 1) \o s[l]
      BY <3>1, FlattenNext, Zenon
    <3> DEFINE x == s[l]
               a == Flat(k)
    <3>5. Flat(l) = (a \o t) \o x
      BY <3>1, <3>3, <3>4, Zenon
    <3>6. x \in Seq(U) /\ a \in Seq(U)
      BY <1>0, <3>2
    <3> HIDE DEF x, a
    <3>7. (a \o t) \o x = a \o (t \o x) /\ t \o x \in Seq(U)
      <4>1. t \o x \in Seq(U)
        BY <3>6, ConcatProperties, Zenon
      <4>2. (a \o t) \o x = a \o (t \o x)
        BY <3>6, ConcatAssociative, SMTT(30)
      <4> QED
        BY <4>1, <4>2, Zenon
    <3>8. Flat(l) = Flat(k) \o (t \o x)
      BY <3>5, <3>7, Zenon DEF a
    <3> QED
      BY <3>7, <3>8, Zenon
  <2> HIDE DEF Adds
  <2> QED
    BY <2>1, <2>2
<1>3. Len(s) - k \in Held
  <2>1. Len(s) - k \in Nat
    OBVIOUS
  <2> HIDE DEF Held
  <2> QED
    BY <1>1, <1>2, <2>1, NatSetInduction, Zenon
<1>4. k + (Len(s) - k) = Len(s) /\ SubSeq(s, 1, Len(s)) = s
  OBVIOUS
<1>5. Adds(Len(s) - k)
  <2> HIDE DEF Adds
  <2> QED
    BY <1>3, <1>4
<1> QED
  BY <1>4, <1>5, Zenon

-----------------------------------------------------------------------------
LEMMA PrefixOfConcat ==
  ASSUME NEW U, NEW s \in Seq(U), NEW t \in Seq(U)
  PROVE  IsPrefix(s, s \o t)
<1>1. /\ s \o t \in Seq(U) /\ Len(s \o t) = Len(s) + Len(t) /\ Len(s) \in Nat /\ Len(t) \in Nat
      /\ \A k \in 1 .. Len(s) : (s \o t)[k] = s[k]
  BY ConcatProperties
<1> DEFINE c == s \o t
<1> HIDE DEF c
<1>2. SubSeq(s, 1, Len(s)) = SubSeq(c, 1, Len(s))
  BY <1>1 DEF c
<1> QED
  BY <1>1, <1>2 DEF IsPrefix, c

-----------------------------------------------------------------------------
(* Sequences, an element or a part at a time.                               *)

LEMMA SeqAppendConcat ==
  ASSUME NEW U, NEW s \in Seq(U), NEW t \in Seq(U), NEW x \in U
  PROVE  Append(s \o t, x) = s \o Append(t, x)
<1>1. <<x>> \in Seq(U) /\ s \o t \in Seq(U)
  BY ConcatProperties
<1>2. Append(s \o t, x) = (s \o t) \o <<x>> /\ Append(t, x) = t \o <<x>>
  BY <1>1, AppendIsConcat
<1>3. (s \o t) \o <<x>> = s \o (t \o <<x>>)
  BY <1>1, ConcatAssociative, SMTT(30)
<1> QED
  BY <1>2, <1>3

LEMMA SeqSeenNext ==
  ASSUME NEW U, NEW s \in Seq(U), NEW k \in Nat, k < Len(s)
  PROVE  Append(SubSeq(s, 1, k), s[k + 1]) = SubSeq(s, 1, k + 1)
<1> DEFINE n == Len(s)
<1>1. n \in Nat /\ k \in 0 .. n /\ k + 1 \in 0 .. n /\ k + 1 \in 1 .. n
  OBVIOUS
<1>2. /\ SubSeq(s, 1, k) \in Seq(U) /\ Len(SubSeq(s, 1, k)) = k
      /\ \A l \in 1 .. k : SubSeq(s, 1, k)[l] = s[l]
      /\ SubSeq(s, 1, k + 1) \in Seq(U) /\ Len(SubSeq(s, 1, k + 1)) = k + 1
      /\ \A l \in 1 .. k + 1 : SubSeq(s, 1, k + 1)[l] = s[l]
  BY <1>1, SubSeqFacts
<1> DEFINE r == SubSeq(s, 1, k)
           t == SubSeq(s, 1, k + 1)
           x == s[k + 1]
<1>3. x \in U
  BY <1>1
<1> HIDE DEF r, t, x
<1>4. /\ Append(r, x) \in Seq(U) /\ Len(Append(r, x)) = k + 1
      /\ \A l \in 1 .. k : Append(r, x)[l] = r[l]
      /\ Append(r, x)[k + 1] = x
  BY <1>2, <1>3 DEF r
<1>5. \A l \in 1 .. k + 1 : Append(r, x)[l] = t[l]
  BY <1>2, <1>4 DEF r, t, x
<1>6. Append(r, x) = t
  BY <1>2, <1>4, <1>5, SeqEqual DEF t
<1> QED
  BY <1>6 DEF r, t, x

LEMMA SubSeqConcat ==
  ASSUME NEW U, NEW s \in Seq(U), NEW j \in 0 .. Len(s), NEW k \in j .. Len(s)
  PROVE  /\ SubSeq(s, 1, j) \o SubSeq(s, j + 1, k) = SubSeq(s, 1, k)
         /\ SubSeq(s, j + 1, k) \in Seq(U) /\ Len(SubSeq(s, j + 1, k)) = k - j
         /\ \A l \in 1 .. k - j : SubSeq(s, j + 1, k)[l] = s[j + l]
<1> DEFINE a == SubSeq(s, 1, j)
           b == SubSeq(s, j + 1, k)
           c == SubSeq(s, 1, k)
<1>1. /\ j \in Nat /\ k \in Nat /\ j <= k /\ k \in 0 .. Len(s) /\ Len(s) \in Nat
  OBVIOUS
<1>2. /\ a \in Seq(U) /\ Len(a) = j /\ \A l \in 1 .. j : a[l] = s[l]
  BY SubSeqFacts
<1>3. /\ c \in Seq(U) /\ Len(c) = k /\ \A l \in 1 .. k : c[l] = s[l]
  BY <1>1, SubSeqFacts
<1>4. /\ b \in Seq(U) /\ Len(b) = k - j /\ \A l \in 1 .. k - j : b[l] = s[j + l]
  <2>1. \A l \in j + 1 .. k : s[l] \in U
    BY <1>1
  <2> QED
    BY <1>1, <2>1
<1> HIDE DEF a, b, c
<1>5. a \o b \in Seq(U) /\ Len(a \o b) = k
  <2>1. a \o b \in Seq(U) /\ Len(a \o b) = Len(a) + Len(b)
    BY <1>2, <1>4, ConcatProperties, Zenon
  <2> QED
    BY <1>1, <1>2, <1>4, <2>1
<1>6. ASSUME NEW l \in 1 .. k PROVE (a \o b)[l] = c[l]
  <2>1. (a \o b)[l] = IF l <= j THEN a[l] ELSE b[l - j]
    BY <1>1, <1>2, <1>4, ConcatProperties
  <2>2. CASE l <= j
    <3>1. l \in 1 .. j
      BY <2>2
    <3> QED
      BY <1>2, <1>3, <2>1, <2>2, <3>1
  <2>3. CASE ~(l <= j)
    <3>1. l - j \in 1 .. k - j /\ j + (l - j) = l
      BY <1>1, <2>3
    <3> QED
      BY <1>3, <1>4, <2>1, <2>3, <3>1, Zenon
  <2> QED
    BY <2>2, <2>3, Zenon
<1>7. a \o b = c
  BY <1>3, <1>5, <1>6, SeqEqual, Zenon
<1> QED
  BY <1>4, <1>7 DEF a, b, c

-----------------------------------------------------------------------------
(* The program runs one of its parts and leaves the others alone.           *)
LEMMA StepOfJob ==
  ASSUME [Next]_vars
  PROVE  /\ job' = job
         /\ job = "Reduce" => [R!Next]_R!vars
         /\ job = "Grep" => [G!Next]_G!vars
         /\ job = "Itertools" => [L!Next]_L!vars
         /\ job = "Trades" => [T!Next]_T!vars
BY DEF Next, vars, reduce, grep, forLoop, readAll, R!vars, G!vars, L!vars, T!vars

-----------------------------------------------------------------------------
(* Reduce.                                                                  *)

StartOf(len, cnt, k) ==
    k * (len \div cnt) + (IF k < len % cnt THEN k ELSE len % cnt)

LEMMA Division ==
  ASSUME NEW a \in Nat, NEW b \in Nat \ {0}
  PROVE  /\ a \div b \in Nat /\ a % b \in 0 .. b - 1
         /\ a = b * (a \div b) + (a % b)
OBVIOUS

LEMMA StartOfNat ==
  ASSUME NEW len \in Nat, NEW cnt \in 1 .. len, NEW k \in Nat
  PROVE  StartOf(len, cnt, k) \in Nat
<1> DEFINE q == len \div cnt
           r == len % cnt
<1>1. q \in Nat /\ r \in Nat
  BY Division
<1>2. k * q \in Nat
  BY <1>1
<1> QED
  BY <1>1, <1>2 DEF StartOf

(* A block is never empty, and there are as many elements as the blocks     *)
(* hold.                                                                    *)
LEMMA StartOfNext ==
  ASSUME NEW len \in Nat, NEW cnt \in 1 .. len, NEW k \in Nat
  PROVE  /\ StartOf(len, cnt, k + 1)
              = StartOf(len, cnt, k) + ((len \div cnt) + (IF k < len % cnt THEN 1 ELSE 0))
         /\ StartOf(len, cnt, k) < StartOf(len, cnt, k + 1)
<1> DEFINE q == len \div cnt
           r == len % cnt
<1>0. cnt \in Nat \ {0}
  OBVIOUS
<1>1. q \in Nat /\ r \in 0 .. cnt - 1 /\ len = cnt * q + r
  BY <1>0, Division, Zenon
<1>2. q # 0
  BY <1>1
<1>3. k * q \in Nat /\ (k + 1) * q = k * q + q
  BY <1>1
<1> HIDE DEF q, r
<1>4. /\ StartOf(len, cnt, k) = k * q + (IF k < r THEN k ELSE r)
      /\ StartOf(len, cnt, k + 1) = (k + 1) * q + (IF k + 1 < r THEN k + 1 ELSE r)
  BY DEF StartOf, q, r
<1>5. StartOf(len, cnt, k + 1) = StartOf(len, cnt, k) + (q + (IF k < r THEN 1 ELSE 0))
  BY <1>1, <1>3, <1>4
<1>6. StartOf(len, cnt, k) < StartOf(len, cnt, k + 1)
  BY <1>1, <1>2, <1>3, <1>4
<1> QED
  BY <1>5, <1>6 DEF q, r

LEMMA StartOfEnds ==
  ASSUME NEW len \in Nat, NEW cnt \in 1 .. len
  PROVE  StartOf(len, cnt, 0) = 0 /\ StartOf(len, cnt, cnt) = len
<1> DEFINE q == len \div cnt
           r == len % cnt
<1>0. cnt \in Nat \ {0}
  OBVIOUS
<1>1. q \in Nat /\ r \in 0 .. cnt - 1 /\ len = cnt * q + r
  BY <1>0, Division, Zenon
<1>2. 0 * q = 0
  BY <1>1
<1> QED
  BY <1>1, <1>2 DEF StartOf

LEMMA StartOfMonotone ==
  ASSUME NEW len \in Nat, NEW cnt \in 1 .. len, NEW k \in Nat, NEW l \in Nat, k <= l
  PROVE  StartOf(len, cnt, k) <= StartOf(len, cnt, l)
<1> DEFINE q == len \div cnt
           r == len % cnt
<1>1. q \in Nat /\ r \in Nat
  BY Division
<1>2. k * q \in Nat /\ l * q \in Nat /\ k * q <= l * q
  <2>1. l * q = k * q + (l - k) * q /\ l - k \in Nat
    BY <1>1
  <2>2. (l - k) * q \in Nat /\ k * q \in Nat
    BY <1>1, <2>1
  <2> QED
    BY <2>1, <2>2
<1> HIDE DEF q, r
<1>3. /\ StartOf(len, cnt, k) = k * q + (IF k < r THEN k ELSE r)
      /\ StartOf(len, cnt, l) = l * q + (IF l < r THEN l ELSE r)
  BY DEF StartOf, q, r
<1> QED
  BY <1>1, <1>2, <1>3

-----------------------------------------------------------------------------
(* The elements from a to b, and what folding does with them.               *)

LEMMA ElementsSeq ==
  ASSUME NEW a \in Nat, NEW b \in Nat, a <= b
  PROVE  R!Elements(a, b) \in Seq(Nat)
BY DEF R!Elements

LEMMA ElementsFold ==
  ASSUME NEW a \in Nat, NEW b \in Nat, NEW c \in Nat, a <= b, b <= c
  PROVE  /\ R!Elements(a, b) \in Seq(Nat)
         /\ R!Elements(a, a) = <<>> /\ <<a + 1>> = R!Elements(a, a + 1)
         /\ Append(R!Elements(a, b), b + 1) = R!Elements(a, b + 1)
         /\ R!Elements(a, b) \o R!Elements(b, c) = R!Elements(a, c)
<1> USE DEF R!Elements
<1>1. R!Elements(a, b) \in Seq(Nat) /\ Len(R!Elements(a, b)) = b - a
  OBVIOUS
<1>2. R!Elements(a, a) = <<>>
  OBVIOUS
<1>3. <<a + 1>> = R!Elements(a, a + 1)
  OBVIOUS
<1>4. Append(R!Elements(a, b), b + 1) = R!Elements(a, b + 1)
  OBVIOUS
<1>5. R!Elements(a, b) \o R!Elements(b, c) = R!Elements(a, c)
  OBVIOUS
<1> QED
  BY <1>1, <1>2, <1>3, <1>4, <1>5

-----------------------------------------------------------------------------
(* Sequences.                                                               *)

LEMMA Appended ==
  ASSUME NEW U, NEW s \in Seq(U), NEW x \in U
  PROVE  /\ Append(s, x) \in Seq(U) /\ Len(Append(s, x)) = Len(s) + 1
         /\ Append(s, x)[Len(s) + 1] = x
         /\ \A k \in 1 .. Len(s) : Append(s, x)[k] = s[k]
OBVIOUS

LEMMA Replaced ==
  ASSUME NEW U, NEW s \in Seq(U), NEW x \in U, NEW k \in 1 .. Len(s)
  PROVE  /\ [s EXCEPT ![k] = x] \in Seq(U) /\ Len([s EXCEPT ![k] = x]) = Len(s)
         /\ [s EXCEPT ![k] = x][k] = x
         /\ \A l \in 1 .. Len(s) \ {k} : [s EXCEPT ![k] = x][l] = s[l]
OBVIOUS

LEMMA Repeated ==
  ASSUME NEW U, NEW x \in U, NEW n \in Nat
  PROVE  [k \in 1 .. n |-> x] \in Seq(U) /\ Len([k \in 1 .. n |-> x]) = n
OBVIOUS

LEMMA ConcatNats ==
  ASSUME NEW r \in Seq(Nat), NEW s \in Seq(Nat), NEW t \in Seq(Nat)
  PROVE  (r \o s) \o t = r \o (s \o t)
BY ConcatAssociative, SMTT(30)

LEMMA AppendConcat ==
  ASSUME NEW s \in Seq(Nat), NEW t \in Seq(Nat), NEW x \in Nat
  PROVE  Append(s \o t, x) = s \o Append(t, x)
<1>1. <<x>> \in Seq(Nat) /\ s \o t \in Seq(Nat)
  BY ConcatProperties
<1>2. Append(s \o t, x) = (s \o t) \o <<x>> /\ Append(t, x) = t \o <<x>>
  BY <1>1, AppendIsConcat, Zenon
<1>3. (s \o t) \o <<x>> = s \o (t \o <<x>>)
  BY <1>1, ConcatNats
<1> QED
  BY <1>2, <1>3, Zenon

-----------------------------------------------------------------------------
(* What worker w has folded when its iterator is at `to`: the first worker  *)
(* began with the initial value.                                            *)
Folded(len, cnt, w, to) ==
    (IF w = 1 THEN R!Initial ELSE <<>>) \o R!Elements(StartOf(len, cnt, w - 1), to)

ReduceTypeOK ==
    /\ length \in Nat /\ hw \in Nat /\ thread_cnt \in Nat
    /\ i \in Nat /\ start \in Nat
    /\ blocks \in Seq([start : Nat, end : Nat])
    /\ it \in Seq(Nat) /\ Len(it) = Len(blocks)
    /\ accumulated \in Seq(Seq(Nat)) /\ Len(accumulated) = Len(blocks)
    /\ wpc \in Seq({"begin", "loop", "gone"}) /\ Len(wpc) = Len(blocks)
    /\ partial_results \in Seq(Seq(Nat))
    /\ Len(blocks) # 0 => Len(partial_results) = thread_cnt
    /\ pc \in {"begin", "spawn", "fold", "returned", "crashed"}

(* Where the caller is.                                                     *)
CallerOK ==
    /\ pc = "begin" => i = 0 /\ start = 0 /\ blocks = <<>>
    /\ blocks # <<>> \/ pc \in {"spawn", "fold"} =>
          thread_cnt \in 1 .. length /\ Len(partial_results) = thread_cnt
    /\ pc = "spawn" =>
          /\ i = Len(blocks) /\ i <= thread_cnt
          /\ start = StartOf(length, thread_cnt, i)
    /\ pc = "fold" =>
          /\ Len(blocks) = thread_cnt /\ i \in 1 .. thread_cnt
          /\ \A w \in 1 .. thread_cnt : wpc[w] = "gone"
          /\ res = R!Initial \o R!Elements(0, StartOf(length, thread_cnt, i))

(* Worker w's block, and what it has folded of it.                          *)
WorkerAt(len, cnt, w, block, iter, acc, at, partial) ==
    /\ block.start = StartOf(len, cnt, w - 1) /\ block.end = StartOf(len, cnt, w)
    /\ iter \in block.start .. block.end
    /\ at = "begin" => iter = block.start
    /\ at = "loop" => acc = Folded(len, cnt, w, iter)
    /\ at = "gone" => partial = Folded(len, cnt, w, block.end)

WorkerOK(w) ==
    WorkerAt(length, thread_cnt, w, blocks[w], it[w], accumulated[w], wpc[w], partial_results[w])

ReduceInv ==
    /\ ReduceTypeOK /\ CallerOK /\ R!FoldsAll
    /\ Len(blocks) <= thread_cnt
    /\ \A w \in 1 .. Len(blocks) : WorkerOK(w)

LEMMA ReduceInit == ASSUME R!ReduceAssumption PROVE R!Init => ReduceInv
BY DEF R!ReduceAssumption, R!Init, ReduceInv, ReduceTypeOK, CallerOK, R!FoldsAll

LEMMA Threads ==
  ASSUME R!ReduceAssumption, NEW len \in Nat \ {0}, NEW hw_threads \in Nat
  PROVE  R!ThreadCnt(hw_threads, len) \in 0 .. len
<1>1. UnsignedRange \in Nat \ {0}
  BY DEF R!ReduceAssumption
<1>2. len % UnsignedRange \in 0 .. len
  BY <1>1
<1>3. hw_threads \div 2 \in Nat
  OBVIOUS
<1> QED
  BY <1>2, <1>3 DEF R!ThreadCnt

LEMMA BeginStep == ASSUME R!ReduceAssumption, ReduceInv, R!Begin PROVE ReduceInv'
<1>1. /\ pc = "begin" /\ blocks = <<>> /\ blocks' = <<>> /\ i = 0 /\ i' = 0
      /\ start = 0 /\ start' = 0 /\ length \in Nat /\ length' = length
  BY DEF ReduceInv, CallerOK, ReduceTypeOK, R!Begin, R!Caller
<1>2. ReduceTypeOK'
  <2>1. thread_cnt' \in Nat
    BY <1>1, Threads DEF R!Begin, ReduceInv, ReduceTypeOK, R!ThreadCnt, R!ReduceAssumption
  <2>2. partial_results' \in Seq(Seq(Nat))
    <3>1. <<>> \in Seq(Nat)
      OBVIOUS
    <3>2. partial_results' = [w \in 1 .. thread_cnt' |-> <<>>]
      BY DEF R!Begin
    <3> QED
      BY <2>1, <3>1, <3>2, Repeated, Zenon
  <2>3. /\ hw' = hw /\ it' = it /\ accumulated' = accumulated /\ wpc' = wpc
        /\ pc' \in {"returned", "crashed", "spawn"} /\ Len(blocks) = 0
    BY <1>1 DEF R!Begin, R!Caller
  <2> QED
    BY <1>1, <2>1, <2>2, <2>3 DEF ReduceInv, ReduceTypeOK
<1>3. CASE length = 0
  <2>1. R!Initial \o R!Elements(0, 0) = R!Initial
    BY DEF R!Initial, R!Elements
  <2>2. pc' = "returned" /\ res' = R!Initial
    BY <1>3 DEF R!Begin, R!Caller
  <2> QED
    BY <1>1, <1>2, <1>3, <2>1, <2>2 DEF ReduceInv, CallerOK, R!FoldsAll, ReduceTypeOK
<1>4. CASE length # 0
  <2>1. thread_cnt' \in 0 .. length /\ thread_cnt' = R!ThreadCnt(hw, length)
    BY <1>1, <1>4, Threads DEF R!Begin, ReduceInv, ReduceTypeOK
  <2>2. pc' = IF thread_cnt' = 0 THEN "crashed" ELSE "spawn"
    BY <1>4, <2>1 DEF R!Begin, R!Caller
  <2>3. partial_results' = [w \in 1 .. thread_cnt' |-> <<>>] /\ Len(partial_results') = thread_cnt'
    BY <2>1 DEF R!Begin
  <2>4. thread_cnt' # 0 => StartOf(length, thread_cnt', 0) = 0
    BY <1>1, <2>1, StartOfEnds
  <2> QED
    BY <1>1, <1>2, <2>1, <2>2, <2>3, <2>4 DEF ReduceInv, CallerOK, R!FoldsAll
<1> QED
  BY <1>3, <1>4

LEMMA SpawnStep == ASSUME ReduceInv, R!Spawn PROVE ReduceInv'
<1> DEFINE n == Len(blocks)
           from == StartOf(length, thread_cnt, i)
           to == StartOf(length, thread_cnt, i + 1)
<1>1. /\ pc = "spawn" /\ i = n /\ n \in Nat /\ i < thread_cnt
      /\ length \in Nat /\ thread_cnt \in 1 .. length /\ start = from
      /\ Len(partial_results) = thread_cnt
  BY DEF ReduceInv, CallerOK, ReduceTypeOK, R!Spawn, R!Caller
<1>2. from \in Nat /\ to \in Nat /\ from < to /\ start + R!BlockSize(i) = to
  <2>1. i \in Nat /\ i + 1 \in Nat
    BY <1>1
  <2>2. from \in Nat /\ to \in Nat
    BY <1>1, <2>1, StartOfNat
  <2>3. from < to /\ to = from + R!BlockSize(i)
    BY <1>1, <2>1, StartOfNext, Zenon DEF R!BlockSize
  <2> QED
    BY <1>1, <2>2, <2>3
<1>3. /\ blocks' = Append(blocks, [start |-> from, end |-> to])
      /\ it' = Append(it, from) /\ accumulated' = Append(accumulated, <<>>)
      /\ wpc' = Append(wpc, "begin") /\ start' = to /\ i' = i + 1 /\ pc' = "spawn"
      /\ length' = length /\ hw' = hw /\ thread_cnt' = thread_cnt
      /\ partial_results' = partial_results /\ res' = res
  BY <1>1, <1>2 DEF R!Spawn, R!Caller
<1> HIDE DEF from, to
<1>4. /\ ReduceTypeOK' /\ Len(blocks') = n + 1
      /\ blocks'[n + 1] = [start |-> from, end |-> to]
      /\ it'[n + 1] = from /\ wpc'[n + 1] = "begin"
      /\ \A w \in 1 .. n : /\ blocks'[w] = blocks[w] /\ it'[w] = it[w]
                           /\ accumulated'[w] = accumulated[w] /\ wpc'[w] = wpc[w]
  <2>1. /\ blocks' \in Seq([start : Nat, end : Nat]) /\ Len(blocks') = n + 1
        /\ blocks'[n + 1] = [start |-> from, end |-> to]
        /\ \A w \in 1 .. n : blocks'[w] = blocks[w]
    BY <1>1, <1>2, <1>3 DEF ReduceInv, ReduceTypeOK
  <2>2. /\ it' \in Seq(Nat) /\ Len(it') = n + 1 /\ it'[n + 1] = from
        /\ \A w \in 1 .. n : it'[w] = it[w]
    <3>1. it \in Seq(Nat) /\ Len(it) = n
      BY DEF ReduceInv, ReduceTypeOK
    <3> QED
      BY <1>2, <1>3, <3>1, Appended
  <2>3. /\ accumulated' \in Seq(Seq(Nat)) /\ Len(accumulated') = n + 1
        /\ \A w \in 1 .. n : accumulated'[w] = accumulated[w]
    <3>1. <<>> \in Seq(Nat)
      OBVIOUS
    <3> QED
      BY <1>1, <1>3, <3>1, Appended DEF ReduceInv, ReduceTypeOK
  <2>4. /\ wpc' \in Seq({"begin", "loop", "gone"}) /\ Len(wpc') = n + 1
        /\ wpc'[n + 1] = "begin" /\ \A w \in 1 .. n : wpc'[w] = wpc[w]
    <3>1. wpc \in Seq({"begin", "loop", "gone"}) /\ Len(wpc) = n
      BY DEF ReduceInv, ReduceTypeOK
    <3>2. "begin" \in {"begin", "loop", "gone"}
      OBVIOUS
    <3> QED
      BY <1>3, <3>1, <3>2, Appended
  <2>5. ReduceTypeOK'
    BY <1>1, <1>2, <1>3, <2>1, <2>2, <2>3, <2>4 DEF ReduceInv, ReduceTypeOK
  <2> QED
    BY <2>1, <2>2, <2>3, <2>4, <2>5, Zenon
<1>5. \A w \in 1 .. n : WorkerOK(w)'
  BY <1>3, <1>4, Zenon DEF ReduceInv, WorkerOK
<1>6. ASSUME NEW w \in Nat, w = n + 1 PROVE WorkerOK(w)'
  <2>1. w - 1 = i /\ w = i + 1
    BY <1>1, <1>6
  <2>2. from = StartOf(length, thread_cnt, w - 1) /\ to = StartOf(length, thread_cnt, w)
    BY <2>1 DEF from, to
  <2> QED
    <3>1. blocks'[w] = [start |-> from, end |-> to] /\ it'[w] = from /\ wpc'[w] = "begin"
      BY <1>4, <1>6
    <3>2. blocks'[w].start = from /\ blocks'[w].end = to
      BY <3>1
    <3>3. from \in from .. to
      BY <1>2
    <3> QED
      BY <1>3, <2>2, <3>1, <3>2, <3>3, Zenon DEF WorkerOK, WorkerAt
<1>7. CallerOK' /\ R!FoldsAll' /\ n + 1 <= thread_cnt
  BY <1>1, <1>3, <1>4 DEF CallerOK, R!FoldsAll, from, to
<1>8. \A w \in 1 .. Len(blocks') : WorkerOK(w)'
  BY <1>1, <1>4, <1>5, <1>6
<1> QED
  BY <1>3, <1>4, <1>7, <1>8 DEF ReduceInv

(* A step of worker w leaves everything but its own cells alone.            *)
LEMMA WorkerStep ==
  ASSUME ReduceInv, NEW w \in R!Spawned, R!Worker(w) PROVE ReduceInv'
<1> DEFINE n == Len(blocks)
           from == StartOf(length, thread_cnt, w - 1)
           to == StartOf(length, thread_cnt, w)
           prefix == IF w = 1 THEN R!Initial ELSE <<>>
           folded(k) == Folded(length, thread_cnt, w, k)
<1>1. /\ n \in Nat /\ w \in 1 .. n /\ w - 1 \in Nat /\ w \in Nat /\ length \in Nat
      /\ thread_cnt \in 1 .. length /\ n <= thread_cnt /\ Len(partial_results) = thread_cnt
  <2>1. w \in 1 .. n /\ n <= thread_cnt
    BY DEF R!Spawned, ReduceInv
  <2>2. n \in Nat /\ length \in Nat /\ thread_cnt \in Nat
    BY DEF ReduceInv, ReduceTypeOK
  <2>3. blocks # <<>>
    BY <2>1, <2>2
  <2>4. thread_cnt \in 1 .. length /\ Len(partial_results) = thread_cnt
    BY <2>3 DEF ReduceInv, CallerOK
  <2> QED
    BY <2>1, <2>2, <2>4
<1>2. from \in Nat /\ to \in Nat /\ from < to /\ (w = 1 => from = 0)
  <2>1. (w - 1) + 1 = w
    BY <1>1
  <2>2. from < to
    BY <1>1, <2>1, StartOfNext
  <2> QED
    BY <1>1, <2>2, StartOfNat, StartOfEnds
<1>3. /\ length' = length /\ hw' = hw /\ thread_cnt' = thread_cnt /\ i' = i /\ start' = start
      /\ blocks' = blocks /\ pc' = pc /\ res' = res
  BY DEF R!Worker, R!WorkerBegin, R!WorkerFold, R!WorkerEnd
<1>4. /\ blocks[w].start = from /\ blocks[w].end = to /\ it[w] \in from .. to
      /\ WorkerOK(w) /\ wpc[w] # "gone"
  BY <1>1 DEF ReduceInv, WorkerOK, WorkerAt, R!Worker, R!WorkerBegin, R!WorkerFold, R!WorkerEnd
<1>5. prefix \in Seq(Nat)
  BY DEF R!Initial
<1> HIDE DEF n, from, to, prefix, folded
<1>6. SUFFICES /\ it' \in Seq(Nat) /\ Len(it') = n
               /\ accumulated' \in Seq(Seq(Nat)) /\ Len(accumulated') = n
               /\ wpc' \in Seq({"begin", "loop", "gone"}) /\ Len(wpc') = n
               /\ partial_results' \in Seq(Seq(Nat)) /\ Len(partial_results') = thread_cnt
               /\ WorkerOK(w)'
               /\ \A v \in 1 .. n \ {w} :
                    /\ it'[v] = it[v] /\ accumulated'[v] = accumulated[v]
                    /\ wpc'[v] = wpc[v] /\ partial_results'[v] = partial_results[v]
  <2>1. ReduceTypeOK'
    BY <1>1, <1>3, <1>6 DEF ReduceInv, ReduceTypeOK, n
  <2>2. \A v \in 1 .. n \ {w} : WorkerOK(v)'
    BY <1>3, <1>6 DEF ReduceInv, WorkerOK, n
  <2>3. pc # "fold"
    <3> SUFFICES ASSUME pc = "fold" PROVE FALSE
      OBVIOUS
    <3>1. \A v \in 1 .. thread_cnt : wpc[v] = "gone"
      BY DEF ReduceInv, CallerOK
    <3>2. n \in Nat /\ w \in 1 .. n /\ thread_cnt \in Nat /\ n <= thread_cnt
      BY <1>1
    <3>3. w \in 1 .. thread_cnt
      BY <3>2
    <3> QED
      BY <1>4, <3>1, <3>3
  <2>4. CallerOK' /\ R!FoldsAll'
    BY <1>1, <1>3, <1>6, <2>3, Zenon DEF ReduceInv, CallerOK, R!FoldsAll
  <2> QED
    BY <1>1, <1>3, <1>6, <2>1, <2>2, <2>4 DEF ReduceInv, n
<1>7. /\ it \in Seq(Nat) /\ Len(it) = n
      /\ accumulated \in Seq(Seq(Nat)) /\ Len(accumulated) = n
      /\ wpc \in Seq({"begin", "loop", "gone"}) /\ Len(wpc) = n
      /\ partial_results \in Seq(Seq(Nat))
  BY DEF ReduceInv, ReduceTypeOK, n
<1>8. \A k : folded(k) = prefix \o R!Elements(from, k)
  BY DEF Folded, from, prefix, folded
<1>9. CASE R!WorkerBegin(w)
  <2>1. wpc[w] = "begin" /\ wpc' = [wpc EXCEPT ![w] = "loop"] /\ partial_results' = partial_results
        /\ it[w] = from
    BY <1>4, <1>9 DEF R!WorkerBegin, WorkerOK, WorkerAt, from
  <2>2. \E a \in Seq(Nat), k \in from .. to :
           /\ accumulated' = [accumulated EXCEPT ![w] = a] /\ it' = [it EXCEPT ![w] = k]
           /\ a = folded(k)
    <3>1. CASE w = 1
      <4>1. accumulated' = [accumulated EXCEPT ![w] = R!Initial] /\ it' = it
        BY <1>9, <3>1 DEF R!WorkerBegin
      <4>2. R!Initial = folded(from)
        <5>1. R!Elements(from, from) = <<>>
          BY <1>2, ElementsFold
        <5>2. R!Initial \o <<>> = R!Initial
          BY DEF R!Initial
        <5> QED
          BY <1>8, <3>1, <5>1, <5>2, Zenon DEF prefix
      <4>3. it' = [it EXCEPT ![w] = from]
        BY <1>1, <1>7, <2>1, <4>1
      <4> QED
        <5>1. R!Initial \in Seq(Nat) /\ from \in from .. to
          BY <1>2 DEF R!Initial
        <5> QED
          BY <4>1, <4>2, <4>3, <5>1, Zenon
    <3>2. CASE w # 1
      <4>1. accumulated' = [accumulated EXCEPT ![w] = <<from + 1>>] /\ it' = [it EXCEPT ![w] = from + 1]
        BY <1>9, <2>1, <3>2 DEF R!WorkerBegin
      <4>2. <<from + 1>> = folded(from + 1)
        <5>1. <<from + 1>> = R!Elements(from, from + 1) /\ <<from + 1>> \in Seq(Nat)
          <6>1. from <= from /\ from + 1 \in Nat
            BY <1>2
          <6>2. <<from + 1>> = R!Elements(from, from + 1)
            BY <1>2, <6>1, ElementsFold, Zenon
          <6>3. <<from + 1>> \in Seq(Nat)
            BY <6>1
          <6> QED
            BY <6>2, <6>3
        <5>2. <<>> \o R!Elements(from, from + 1) = R!Elements(from, from + 1)
          BY <5>1
        <5> QED
          BY <1>8, <3>2, <5>1, <5>2 DEF prefix
      <4>3. from + 1 \in from .. to /\ <<from + 1>> \in Seq(Nat)
        BY <1>2
      <4> QED
        BY <4>1, <4>2, <4>3, Zenon
    <3> QED
      BY <3>1, <3>2
  <2>3. PICK a \in Seq(Nat), k \in from .. to :
           /\ accumulated' = [accumulated EXCEPT ![w] = a] /\ it' = [it EXCEPT ![w] = k]
           /\ a = folded(k)
    BY <2>2, Zenon
  <2>4. /\ it' \in Seq(Nat) /\ Len(it') = n /\ it'[w] = k
        /\ accumulated' \in Seq(Seq(Nat)) /\ Len(accumulated') = n /\ accumulated'[w] = a
        /\ wpc' \in Seq({"begin", "loop", "gone"}) /\ Len(wpc') = n /\ wpc'[w] = "loop"
    <3>1. k \in Nat
      BY <1>2
    <3> QED
      BY <1>1, <1>7, <2>1, <2>3, <3>1, Replaced
  <2>5. WorkerOK(w)'
    BY <1>3, <1>4, <1>8, <2>3, <2>4, Zenon DEF WorkerOK, WorkerAt, from, to, folded
  <2> QED
    BY <1>1, <1>7, <2>1, <2>3, <2>4, <2>5
<1>10. CASE R!WorkerFold(w)
  <2>1. /\ wpc[w] = "loop" /\ it[w] # to /\ wpc' = wpc /\ partial_results' = partial_results
        /\ it' = [it EXCEPT ![w] = it[w] + 1]
        /\ accumulated' = [accumulated EXCEPT ![w] = Append(accumulated[w], it[w] + 1)]
    BY <1>4, <1>10 DEF R!WorkerFold
  <2>2. it[w] + 1 \in from .. to /\ accumulated[w] = folded(it[w]) /\ accumulated[w] \in Seq(Nat)
    <3>1. accumulated[w] \in Seq(Nat)
      BY <1>1, <1>7
    <3>2. accumulated[w] = folded(it[w])
      BY <1>4, <2>1 DEF WorkerOK, WorkerAt, folded
    <3> QED
      BY <1>2, <1>4, <2>1, <3>1, <3>2
  <2>3. Append(accumulated[w], it[w] + 1) = folded(it[w] + 1)
    <3>1. /\ R!Elements(from, it[w]) \in Seq(Nat)
          /\ Append(R!Elements(from, it[w]), it[w] + 1) = R!Elements(from, it[w] + 1)
      <4>1. it[w] \in Nat /\ from <= it[w] /\ it[w] <= it[w]
        BY <1>2, <1>4
      <4> QED
        BY <1>2, <4>1, ElementsFold, Zenon
    <3>2. it[w] + 1 \in Nat
      BY <1>2, <2>2
    <3> DEFINE x == it[w] + 1
               done == R!Elements(from, it[w])
    <3> HIDE DEF x, done
    <3>3. Append(prefix \o done, x) = prefix \o Append(done, x)
      BY <1>5, <3>1, <3>2, AppendConcat, Zenon DEF x, done
    <3>4. accumulated[w] = prefix \o done /\ Append(done, x) = R!Elements(from, x)
      BY <1>8, <2>2, <3>1, Zenon DEF x, done
    <3> QED
      BY <1>8, <3>3, <3>4, Zenon DEF x
  <2>4. /\ it' \in Seq(Nat) /\ Len(it') = n /\ it'[w] = it[w] + 1
        /\ accumulated' \in Seq(Seq(Nat)) /\ Len(accumulated') = n
        /\ accumulated'[w] = folded(it[w] + 1)
    <3>1. it[w] + 1 \in Nat /\ Append(accumulated[w], it[w] + 1) \in Seq(Nat)
      BY <1>2, <2>2, Appended
    <3>2. it' \in Seq(Nat) /\ Len(it') = n /\ it'[w] = it[w] + 1
      BY <1>1, <1>7, <2>1, <3>1, Replaced
    <3>3. /\ accumulated' \in Seq(Seq(Nat)) /\ Len(accumulated') = n
          /\ accumulated'[w] = Append(accumulated[w], it[w] + 1)
      BY <1>1, <1>7, <2>1, <3>1, Replaced
    <3> QED
      BY <2>3, <3>2, <3>3
  <2>5. WorkerOK(w)'
    BY <1>3, <1>4, <1>8, <2>1, <2>2, <2>4, Zenon DEF WorkerOK, WorkerAt, from, to, folded
  <2> QED
    BY <1>1, <1>7, <2>1, <2>4, <2>5
<1>11. CASE R!WorkerEnd(w)
  <2>1. /\ wpc[w] = "loop" /\ it[w] = to /\ wpc' = [wpc EXCEPT ![w] = "gone"]
        /\ it' = it /\ accumulated' = accumulated
        /\ partial_results' = [partial_results EXCEPT ![w] = accumulated[w]]
    BY <1>4, <1>11 DEF R!WorkerEnd
  <2>2. accumulated[w] = folded(to) /\ accumulated[w] \in Seq(Nat)
    BY <1>1, <1>4, <1>7, <2>1 DEF WorkerOK, WorkerAt, to, folded
  <2>3. /\ wpc' \in Seq({"begin", "loop", "gone"}) /\ Len(wpc') = n /\ wpc'[w] = "gone"
        /\ partial_results' \in Seq(Seq(Nat)) /\ Len(partial_results') = thread_cnt
        /\ partial_results'[w] = folded(to)
    BY <1>1, <1>7, <2>1, <2>2, Replaced
  <2>4. WorkerOK(w)'
    BY <1>3, <1>4, <1>8, <2>1, <2>3 DEF WorkerOK, WorkerAt, from, to, folded
  <2> QED
    BY <1>1, <1>7, <2>1, <2>3, <2>4
<1> QED
  BY <1>9, <1>10, <1>11, Zenon DEF R!Worker

(* The caller folds the partial results of the blocks in their order.       *)
LEMMA JoinStep == ASSUME ReduceInv, R!Join PROVE ReduceInv'
<1>1. /\ pc = "spawn" /\ pc' = "fold" /\ i' = 1 /\ res' = partial_results[1]
      /\ length' = length /\ hw' = hw /\ thread_cnt' = thread_cnt /\ start' = start
      /\ blocks' = blocks /\ it' = it /\ accumulated' = accumulated
      /\ partial_results' = partial_results /\ wpc' = wpc
      /\ i = thread_cnt /\ \A w \in DOMAIN blocks : wpc[w] = "gone"
  BY DEF R!Join, R!Caller, R!Spawned
<1>2. /\ length \in Nat /\ thread_cnt \in 1 .. length /\ Len(blocks) = thread_cnt
      /\ DOMAIN blocks = 1 .. thread_cnt /\ Len(partial_results) = thread_cnt
  BY <1>1 DEF ReduceInv, CallerOK, ReduceTypeOK
<1>3. res' = R!Initial \o R!Elements(0, StartOf(length, thread_cnt, 1))
  <2>1. wpc[1] = "gone" /\ WorkerOK(1)
    BY <1>1, <1>2 DEF ReduceInv
  <2>2. partial_results[1] = Folded(length, thread_cnt, 1, StartOf(length, thread_cnt, 1))
    BY <2>1 DEF WorkerOK, WorkerAt
  <2>3. StartOf(length, thread_cnt, 1 - 1) = 0
    <3>1. 1 - 1 = 0
      OBVIOUS
    <3> QED
      BY <1>2, <3>1, StartOfEnds
  <2> QED
    BY <1>1, <2>2, <2>3, Zenon DEF Folded
<1>4. ReduceTypeOK' /\ R!FoldsAll'
  BY <1>1, <1>2 DEF ReduceInv, ReduceTypeOK, R!FoldsAll
<1>5. CallerOK'
  BY <1>1, <1>2, <1>3 DEF CallerOK
<1>6. \A w \in 1 .. Len(blocks) : WorkerOK(w)'
  BY <1>1 DEF ReduceInv, WorkerOK
<1> QED
  BY <1>1, <1>2, <1>4, <1>5, <1>6 DEF ReduceInv

LEMMA FoldStep == ASSUME ReduceInv, R!Fold PROVE ReduceInv'
<1>1. /\ pc = "fold" /\ pc' = "fold" /\ i' = i + 1 /\ res' = res \o partial_results[i + 1]
      /\ length' = length /\ hw' = hw /\ thread_cnt' = thread_cnt /\ start' = start
      /\ blocks' = blocks /\ it' = it /\ accumulated' = accumulated
      /\ partial_results' = partial_results /\ wpc' = wpc /\ i < thread_cnt
  BY DEF R!Fold, R!Caller
<1>2. /\ length \in Nat /\ thread_cnt \in 1 .. length /\ Len(blocks) = thread_cnt
      /\ i \in 1 .. thread_cnt /\ i + 1 \in 1 .. thread_cnt /\ i \in Nat /\ i + 1 \in Nat
      /\ Len(partial_results) = thread_cnt
      /\ \A w \in 1 .. thread_cnt : wpc[w] = "gone"
      /\ res = R!Initial \o R!Elements(0, StartOf(length, thread_cnt, i))
  <2>1. /\ length \in Nat /\ thread_cnt \in 1 .. length /\ Len(blocks) = thread_cnt
        /\ i \in 1 .. thread_cnt /\ Len(partial_results) = thread_cnt
        /\ \A w \in 1 .. thread_cnt : wpc[w] = "gone"
        /\ res = R!Initial \o R!Elements(0, StartOf(length, thread_cnt, i))
    BY <1>1, Zenon DEF ReduceInv, CallerOK, ReduceTypeOK
  <2>2. i + 1 \in 1 .. thread_cnt /\ i \in Nat /\ i + 1 \in Nat
    BY <1>1, <2>1
  <2> QED
    BY <2>1, <2>2
<1> DEFINE from == StartOf(length, thread_cnt, i)
           to == StartOf(length, thread_cnt, i + 1)
<1>3. from \in Nat /\ to \in Nat /\ from <= to
  <2>1. i <= i + 1
    BY <1>2
  <2>2. from \in Nat /\ to \in Nat
    BY <1>2, StartOfNat, Zenon
  <2> QED
    BY <1>2, <2>1, <2>2, StartOfMonotone
<1>4. partial_results[i + 1] = R!Elements(from, to)
  <2>1. WorkerOK(i + 1) /\ wpc[i + 1] = "gone"
    BY <1>2 DEF ReduceInv
  <2>2. (i + 1) - 1 = i /\ i + 1 # 1
    BY <1>2
  <2>3. partial_results[i + 1] = <<>> \o R!Elements(from, to)
    BY <2>1, <2>2, Zenon DEF WorkerOK, WorkerAt, Folded
  <2>4. R!Elements(from, to) \in Seq(Nat)
    BY <1>3, ElementsSeq
  <2> QED
    BY <2>3, <2>4, ConcatEmptySeq
<1> HIDE DEF from, to
<1>5. res' = R!Initial \o R!Elements(0, to)
  <2>1. /\ R!Elements(0, from) \in Seq(Nat) /\ R!Elements(from, to) \in Seq(Nat)
        /\ R!Initial \in Seq(Nat)
    <3>1. 0 \in Nat /\ 0 <= from
      BY <1>3
    <3> QED
      BY <1>3, <3>1, ElementsSeq DEF R!Initial
  <2>2. R!Elements(0, from) \o R!Elements(from, to) = R!Elements(0, to)
    <3>1. 0 \in Nat /\ 0 <= from
      BY <1>3
    <3> QED
      BY <1>3, <3>1, ElementsFold, Zenon
  <2>3. res' = (R!Initial \o R!Elements(0, from)) \o R!Elements(from, to)
    BY <1>1, <1>2, <1>4 DEF from
  <2>4. (R!Initial \o R!Elements(0, from)) \o R!Elements(from, to)
          = R!Initial \o (R!Elements(0, from) \o R!Elements(from, to))
    <3> DEFINE a == R!Elements(0, from)
               b == R!Elements(from, to)
    <3>1. a \in Seq(Nat) /\ b \in Seq(Nat) /\ R!Initial \in Seq(Nat)
      BY <2>1
    <3> HIDE DEF a, b
    <3>2. (R!Initial \o a) \o b = R!Initial \o (a \o b)
      BY <3>1, ConcatNats, Zenon
    <3> QED
      BY <3>2, Zenon DEF a, b
  <2> QED
    BY <2>2, <2>3, <2>4, Zenon
<1>6. ReduceTypeOK' /\ R!FoldsAll'
  BY <1>1, <1>2 DEF ReduceInv, ReduceTypeOK, R!FoldsAll
<1>7. CallerOK'
  BY <1>1, <1>2, <1>5, Zenon DEF CallerOK, to
<1>8. \A w \in 1 .. Len(blocks) : WorkerOK(w)'
  BY <1>1 DEF ReduceInv, WorkerOK
<1> QED
  BY <1>1, <1>2, <1>6, <1>7, <1>8 DEF ReduceInv

LEMMA FinishStep == ASSUME ReduceInv, R!Finish PROVE ReduceInv'
<1>1. /\ pc = "fold" /\ pc' = "returned" /\ i' = i /\ res' = res /\ i = thread_cnt
      /\ length' = length /\ hw' = hw /\ thread_cnt' = thread_cnt /\ start' = start
      /\ blocks' = blocks /\ it' = it /\ accumulated' = accumulated
      /\ partial_results' = partial_results /\ wpc' = wpc
  BY DEF R!Finish, R!Caller
<1>2. /\ length \in Nat /\ thread_cnt \in 1 .. length
      /\ res = R!Initial \o R!Elements(0, StartOf(length, thread_cnt, thread_cnt))
  BY <1>1, Zenon DEF ReduceInv, CallerOK, ReduceTypeOK
<1>3. R!FoldsAll'
  BY <1>1, <1>2, StartOfEnds, Zenon DEF R!FoldsAll
<1>4. ReduceTypeOK' /\ CallerOK'
  BY <1>1, <1>2 DEF ReduceInv, ReduceTypeOK, CallerOK
<1>5. \A w \in 1 .. Len(blocks) : WorkerOK(w)'
  BY <1>1 DEF ReduceInv, WorkerOK
<1> QED
  BY <1>1, <1>3, <1>4, <1>5 DEF ReduceInv

LEMMA ReduceNext == ASSUME R!ReduceAssumption PROVE ReduceInv /\ [R!Next]_R!vars => ReduceInv'
<1> SUFFICES ASSUME R!ReduceAssumption, ReduceInv, [R!Next]_R!vars PROVE ReduceInv'
  OBVIOUS
<1>1. CASE UNCHANGED R!vars
  BY <1>1, Zenon DEF R!vars, ReduceInv, ReduceTypeOK, CallerOK, R!FoldsAll, WorkerOK
<1> QED
  BY <1>1, BeginStep, SpawnStep, JoinStep, FoldStep, FinishStep, WorkerStep DEF R!Next

(* Whatever the threads do when, Reduce returns the left fold of the whole  *)
(* range, for every length and every number of hardware threads.            *)
THEOREM WholeRangeFolded == Spec => []FoldsAll
<1> DEFINE Inv == job = "Reduce" => ReduceInv
<1>1. Init => Inv
  BY ReduceInit, AlgorithmsAssumption DEF Init
<1>2. Inv /\ [Next]_vars => Inv'
  BY ReduceNext, StepOfJob, AlgorithmsAssumption
<1>3. Inv => FoldsAll
  BY DEF FoldsAll, ReduceInv
<1> QED
  BY <1>1, <1>2, <1>3, PTL DEF Spec

(* The blocks are disjoint, inside the range and never empty, so that the   *)
(* element that lines 33-34 read unasked is there.                          *)
THEOREM BlocksDisjoint == Spec => [](job = "Reduce" => R!BlocksApart)
<1> DEFINE Inv == job = "Reduce" => ReduceInv
<1>1. ReduceInv => R!BlocksApart
  <2> SUFFICES ASSUME ReduceInv PROVE R!BlocksApart
    OBVIOUS
  <2>1. CASE blocks = <<>>
    BY <2>1 DEF R!BlocksApart, R!Spawned
  <2>2. CASE blocks # <<>>
    <3>1. /\ length \in Nat /\ thread_cnt \in 1 .. length /\ Len(blocks) \in 1 .. thread_cnt
          /\ R!Spawned = 1 .. Len(blocks)
      BY <2>2 DEF ReduceInv, ReduceTypeOK, CallerOK, R!Spawned
    <3>2. ASSUME NEW w \in R!Spawned
          PROVE  /\ w - 1 \in Nat /\ w \in Nat /\ w <= thread_cnt /\ (w - 1) + 1 = w
                 /\ blocks[w].start = StartOf(length, thread_cnt, w - 1)
                 /\ blocks[w].end = StartOf(length, thread_cnt, w)
      BY <3>1, <3>2 DEF ReduceInv, WorkerOK, WorkerAt
    <3>3. ASSUME NEW w \in R!Spawned
          PROVE  blocks[w].start < blocks[w].end /\ blocks[w].end <= length
      <4>1. StartOf(length, thread_cnt, w - 1) < StartOf(length, thread_cnt, (w - 1) + 1)
        BY <3>1, <3>2, StartOfNext
      <4>2. /\ StartOf(length, thread_cnt, w) <= StartOf(length, thread_cnt, thread_cnt)
            /\ StartOf(length, thread_cnt, thread_cnt) = length
        BY <3>1, <3>2, StartOfMonotone, StartOfEnds
      <4> QED
        BY <3>2, <4>1, <4>2
    <3>4. ASSUME NEW v \in R!Spawned, NEW w \in R!Spawned, v < w
          PROVE  blocks[v].end <= blocks[w].start
      <4>1. v <= w - 1
        BY <3>1, <3>4
      <4>2. StartOf(length, thread_cnt, v) <= StartOf(length, thread_cnt, w - 1)
        BY <3>1, <3>2, <4>1, StartOfMonotone
      <4> QED
        BY <3>2, <4>2
    <3> QED
      BY <3>3, <3>4 DEF R!BlocksApart
  <2> QED
    BY <2>1, <2>2
<1>2. Init => Inv
  BY ReduceInit, AlgorithmsAssumption DEF Init
<1>3. Inv /\ [Next]_vars => Inv'
  BY ReduceNext, StepOfJob, AlgorithmsAssumption
<1>4. Inv => (job = "Reduce" => R!BlocksApart)
  BY <1>1
<1> QED
  BY <1>2, <1>3, <1>4, PTL DEF Spec

-----------------------------------------------------------------------------
(* bin-grep: what it holds, wherever it is.                                 *)

CannotUnmap(m) == command.args[m[1]].entries[m[2]].fails = "unmap"

HeldInv ==
    /\ gpc \in {"main", "next", "open", "exit", "stat", "map", "scan", "unmap"}
    /\ open_files = IF gpc \in {"stat", "map", "scan", "unmap"} THEN {G!Here} ELSE {}
    /\ \A m \in mappings : CannotUnmap(m) \/ (m = G!Here /\ gpc \in {"scan", "unmap"})

LEMMA HeldInit == G!Init => HeldInv
BY DEF G!Init, HeldInv

LEMMA HeldNext == HeldInv /\ [G!Next]_G!vars => HeldInv'
<1> SUFFICES ASSUME HeldInv, [G!Next]_G!vars PROVE HeldInv'
  OBVIOUS
<1> USE DEF HeldInv
<1>1. CASE UNCHANGED G!vars
  BY <1>1 DEF G!vars, G!Here, CannotUnmap
<1>2. CASE G!Return \/ G!Start \/ G!Throws
  BY <1>2 DEF G!Return, G!Start, G!Throws, G!Exit, G!Goto, G!Here, CannotUnmap
<1>3. CASE G!NextEntry
  BY <1>3 DEF G!NextEntry, G!Here, CannotUnmap
<1>4. CASE G!Open
  BY <1>4 DEF G!Open, G!Goto, G!Here, CannotUnmap
<1>5. CASE G!Stat
  BY <1>5 DEF G!Stat, G!Goto, G!Here, CannotUnmap
<1>6. CASE G!Map
  BY <1>6 DEF G!Map, G!Goto, G!Here, CannotUnmap
<1>7. CASE G!Brute \/ G!BruteEnd \/ G!BoyerMoore \/ G!BoyerMooreEnd
  <2>1. /\ gpc = "scan" /\ gpc' \in {"scan", "unmap"}
        /\ UNCHANGED <<command, arg, entry, open_files, mappings>>
    BY <1>7 DEF G!Brute, G!BruteEnd, G!BoyerMoore, G!BoyerMooreEnd, G!Scanning
  <2> QED
    BY <2>1 DEF G!Here, CannotUnmap
<1>8. CASE G!Unmap
  <2>1. /\ gpc = "unmap" /\ gpc' = "next" /\ open_files' = open_files \ {G!Here}
        /\ command' = command /\ arg' = arg /\ entry' = entry
        /\ IF G!File.fails = "unmap" THEN mappings' = mappings
           ELSE mappings' = mappings \ {G!Here}
    BY <1>8 DEF G!Unmap, G!Goto
  <2>2. G!File.fails = "unmap" => CannotUnmap(G!Here)
    BY DEF G!File, G!Entries, G!Arguments, G!Here, CannotUnmap
  <2>3. \A m : CannotUnmap(m)' = CannotUnmap(m)
    BY <2>1 DEF CannotUnmap
  <2> QED
    BY <2>1, <2>2, <2>3 DEF G!Here
<1> QED
  BY <1>1, <1>2, <1>3, <1>4, <1>5, <1>6, <1>7, <1>8 DEF G!Next, G!GrepImpl

(* Whatever fails, bin-grep holds one file at a time, closes it and unmaps  *)
(* what munmap would have taken, for every command line.                    *)
THEOREM NothingHeld == Spec => []FilesReleased
<1> DEFINE Inv == job = "Grep" => HeldInv
<1>1. Init => Inv
  BY HeldInit DEF Init
<1>2. Inv /\ [Next]_vars => Inv'
  BY HeldNext, StepOfJob
<1>3. Inv => FilesReleased
  BY DEF HeldInv, CannotUnmap, FilesReleased, G!FilesReleased, G!Arguments
<1> QED
  BY <1>1, <1>2, <1>3, PTL DEF Spec

-----------------------------------------------------------------------------
(* The places of a set that are below a bound, and the n-th place.          *)

Below(places, x) == {q \in places : q < x}

LEMMA BelowFinite ==
  ASSUME NEW places \in SUBSET Nat, IsFiniteSet(places), NEW x
  PROVE  IsFiniteSet(Below(places, x)) /\ Cardinality(Below(places, x)) \in Nat
<1>1. Below(places, x) \in SUBSET places
  BY DEF Below
<1>2. IsFiniteSet(Below(places, x))
  BY <1>1, FS_Subset
<1> QED
  BY <1>2, FS_CardinalityType

LEMMA BelowNext ==
  ASSUME NEW places \in SUBSET Nat, IsFiniteSet(places), NEW x \in Nat
  PROVE  Cardinality(Below(places, x + 1))
           = Cardinality(Below(places, x)) + (IF x \in places THEN 1 ELSE 0)
<1>0. \A q \in places : q \in Nat /\ (q < x + 1 <=> q < x \/ q = x) /\ ~(x < x)
  OBVIOUS
<1>1. CASE x \in places
  <2>1. Below(places, x + 1) = Below(places, x) \union {x} /\ x \notin Below(places, x)
    BY <1>0, <1>1, Zenon DEF Below
  <2> QED
    BY <1>1, <2>1, BelowFinite, FS_AddElement
<1>2. CASE x \notin places
  <2>1. Below(places, x + 1) = Below(places, x)
    BY <1>0, <1>2, Zenon DEF Below
  <2> QED
    BY <1>2, <2>1, BelowFinite
<1> QED
  BY <1>1, <1>2

LEMMA BelowMore ==
  ASSUME NEW places \in SUBSET Nat, IsFiniteSet(places), NEW p \in places, NEW q \in places, p < q
  PROVE  Cardinality(Below(places, p)) < Cardinality(Below(places, q))
<1>1. Cardinality(Below(places, p + 1)) = Cardinality(Below(places, p)) + 1
  BY BelowNext
<1>2. Below(places, p + 1) \in SUBSET Below(places, q)
  <2>1. \A r \in places : r < p + 1 => r < q
    OBVIOUS
  <2> QED
    BY <2>1, Zenon DEF Below
<1>3. Cardinality(Below(places, p + 1)) <= Cardinality(Below(places, q))
  BY <1>2, BelowFinite, FS_Subset
<1> QED
  BY <1>1, <1>3, BelowFinite

(* The library operators that Grep has through its own EXTENDS.             *)
LEMMA GrepLibrary ==
  /\ \A s : G!Cardinality(s) = Cardinality(s)
  /\ \A s : G!FlattenSeq(s) = FlattenSeq(s)
  /\ \A s, t : G!IsPrefix(s, t) <=> IsPrefix(s, t)
<1>1. \A s : G!Cardinality(s) = Cardinality(s)
  BY Zenon DEF G!Cardinality, Cardinality
<1>2. \A s : G!FlattenSeq(s) = FlattenSeq(s)
  BY Zenon DEF G!FlattenSeq, FlattenSeq
<1>3. \A s, t : G!IsPrefix(s, t) <=> IsPrefix(s, t)
  BY DEF G!IsPrefix, IsPrefix
<1> QED
  BY <1>1, <1>2, <1>3, Zenon

LEMMA NthIs ==
  ASSUME NEW places \in SUBSET Nat, IsFiniteSet(places), NEW p \in places
  PROVE  G!Nth(places, Cardinality(Below(places, p)) + 1) = p
<1> DEFINE n == Cardinality(Below(places, p))
<1>1. n \in Nat /\ (n + 1) - 1 = n
  BY BelowFinite
<1>2. \A q \in places : Cardinality({r \in places : r < q}) = (n + 1) - 1 <=> q = p
  <2> SUFFICES ASSUME NEW q \in places
               PROVE  Cardinality(Below(places, q)) = n <=> q = p
    BY <1>1 DEF Below
  <2>1. p \in Nat /\ q \in Nat
    OBVIOUS
  <2>2. Cardinality(Below(places, q)) \in Nat
    BY BelowFinite
  <2>3. p < q => n < Cardinality(Below(places, q))
    BY BelowMore
  <2>4. q < p => Cardinality(Below(places, q)) < n
    BY BelowMore
  <2> HIDE DEF n
  <2>5. q # p => Cardinality(Below(places, q)) # n
    BY <1>1, <2>1, <2>2, <2>3, <2>4
  <2>6. q = p => Cardinality(Below(places, q)) = n
    BY DEF n
  <2> QED
    BY <2>5, <2>6
<1> HIDE DEF n
<1> DEFINE Good(q) == G!Cardinality({r \in places : r < q}) = (n + 1) - 1
           x == CHOOSE q \in places : Good(q)
<1>3. G!Nth(places, n + 1) = x
  BY DEF G!Nth
<1>4. \A q \in places : Good(q) <=> q = p
  BY <1>2, GrepLibrary, Zenon
<1> HIDE DEF Good
<1>5. x \in places /\ Good(x)
  BY <1>4
<1>6. G!Nth(places, n + 1) = p
  BY <1>3, <1>4, <1>5, Zenon
<1> QED
  BY <1>6 DEF n

-----------------------------------------------------------------------------
(* What the constants say of a command line.                                *)

Pieces(a) == command.args[a].entries
Parts(a) == [e \in DOMAIN Pieces(a) |-> G!Expected(a, e)]
AllParts == [a \in DOMAIN command.args |-> FlattenSeq(Parts(a))]

Offsets == {G!Nth(x[1], x[2]) : x \in (SUBSET Nat) \X Nat}
Calls == [call : {"OnError"}, at : Nat \X Nat]
           \union [call : {"OnMatch"}, at : Nat \X Nat, offset : Offsets]

LEMMA CommandFacts ==
  ASSUME command \in Commands
  PROVE  /\ command.offset \in Nat /\ command.matches \in Nat
         /\ command.pattern \in Seq(G!Tokens) /\ Len(command.pattern) \in Nat \ {0}
         /\ DOMAIN command.pattern = 1 .. Len(command.pattern)
         /\ G!max_matches \in Nat \ {0}
         /\ Len(command.args) \in Nat /\ DOMAIN command.args = 1 .. Len(command.args)
<1>1. G!GrepAssumption
  BY AlgorithmsAssumption
<1> QED
  BY <1>1 DEF G!GrepAssumption, G!max_matches

LEMMA PieceFacts ==
  ASSUME command \in Commands, NEW a \in 1 .. Len(command.args)
  PROVE  /\ Len(Pieces(a)) \in Nat /\ DOMAIN Pieces(a) = 1 .. Len(Pieces(a))
         /\ \A e \in 1 .. Len(Pieces(a)) :
               /\ Pieces(a)[e] \in G!Files
               /\ Pieces(a)[e].data \in Seq(Nat) /\ Len(Pieces(a)[e].data) \in Nat
<1>1. G!GrepAssumption
  BY AlgorithmsAssumption
<1>2. command.args \in Seq([entries : Seq(G!Files), unreadable : BOOLEAN])
  BY <1>1, Zenon DEF G!GrepAssumption
<1>3. command.args[a] \in [entries : Seq(G!Files), unreadable : BOOLEAN]
  BY <1>2, ElementOfSeq, Zenon
<1>4. Pieces(a) \in Seq(G!Files)
  BY <1>3 DEF Pieces
<1>5. Len(Pieces(a)) \in Nat /\ DOMAIN Pieces(a) = 1 .. Len(Pieces(a))
  BY <1>4, LenProperties
<1>6. ASSUME NEW e \in 1 .. Len(Pieces(a)) PROVE Pieces(a)[e] \in G!Files
  BY <1>4, ElementOfSeq, Zenon
<1>7. ASSUME NEW f \in G!Files PROVE f.data \in Seq(Nat) /\ Len(f.data) \in Nat
  BY DEF G!Files
<1> QED
  BY <1>5, <1>6, <1>7

(* What the pattern means, token by token, is a sequence of bytes and "??". *)
ByteOrWild == Nat \union {Wild}
Meanings == [k \in DOMAIN command.pattern |-> G!Means(command.pattern[k])]

LEMMA MeantType ==
  ASSUME command \in Commands
  PROVE  /\ Meanings \in Seq(Seq(ByteOrWild)) /\ Len(Meanings) = Len(command.pattern)
         /\ G!Meant = FlattenSeq(Meanings)
         /\ G!Meant \in Seq(ByteOrWild) /\ Len(G!Meant) \in Nat
<1> DEFINE pattern == command.pattern
           n == Len(pattern)
<1>1. pattern \in Seq(G!Tokens) /\ n \in Nat /\ DOMAIN pattern = 1 .. n
  BY CommandFacts
<1>2. Meanings = [k \in 1 .. n |-> G!Means(pattern[k])]
  BY <1>1 DEF Meanings
<1>3. G!Meant = FlattenSeq(Meanings)
  BY GrepLibrary, Zenon DEF G!Meant, Meanings
<1>4. \A k \in 1 .. n : pattern[k] \in G!Tokens
  BY <1>1, ElementOfSeq, Zenon
<1> HIDE DEF pattern, n
<1>5. ASSUME NEW k \in 1 .. n PROVE G!Means(pattern[k]) \in Seq(ByteOrWild)
  <2>1. pattern[k] \in G!Tokens
    BY <1>4
  <2>2. CASE pattern[k] = Wild
    <3>1. <<Wild>> \in Seq(ByteOrWild)
      BY DEF ByteOrWild
    <3> QED
      BY <2>2, <3>1 DEF G!Means
  <2>3. CASE pattern[k] # Wild
    <3>1. pattern[k].means \in Seq(ByteOrWild)
      BY <2>1, <2>3 DEF G!Tokens, ByteOrWild
    <3> QED
      BY <2>3, <3>1 DEF G!Means
  <2> QED
    BY <2>2, <2>3
<1>6. Meanings \in Seq(Seq(ByteOrWild)) /\ Len(Meanings) = n
  BY <1>1, <1>2, <1>5
<1>7. FlattenSeq(Meanings) \in Seq(ByteOrWild)
  <2>1. n \in 0 .. Len(Meanings)
    BY <1>1, <1>6
  <2>2. FlattenSeq(SubSeq(Meanings, 1, n)) \in Seq(ByteOrWild)
    BY <1>6, <2>1, FlattenType
  <2>3. SubSeq(Meanings, 1, n) = Meanings
    BY <1>6, SubSeqFull
  <2> QED
    BY <2>2, <2>3, Zenon
<1>8. G!Meant \in Seq(ByteOrWild) /\ Len(G!Meant) \in Nat
  BY <1>3, <1>7, LenProperties, Zenon
<1> QED
  BY <1>3, <1>6, <1>8 DEF n, pattern

(* A pattern that the program takes, of tokens none of which is a byte in   *)
(* part only, means what it is parsed to.                                   *)
LEMMA MeantIsParsed ==
  ASSUME G!WholeTokens, command \in Commands, G!Malformed = {}
  PROVE  G!Meant = G!Parsed /\ G!Incorrect = {}
<1> DEFINE pattern == command.pattern
           n == Len(pattern)
           parsed == G!Parsed
<1>1. pattern \in Seq(G!Tokens) /\ n \in Nat /\ DOMAIN pattern = 1 .. n
  BY CommandFacts
<1>2. parsed = [k \in 1 .. n |-> IF pattern[k] = Wild THEN Wild ELSE pattern[k].value]
  BY <1>1 DEF G!Parsed
<1>3. \A k \in 1 .. n : G!Valid(pattern[k]) /\ G!Means(pattern[k]) # <<>>
  BY <1>1, Zenon DEF G!Malformed, G!WholeTokens
<1>4. G!Incorrect = {}
  BY <1>1, <1>3, Zenon DEF G!Incorrect
<1>5. /\ Meanings \in Seq(Seq(ByteOrWild)) /\ Len(Meanings) = n
      /\ G!Meant = FlattenSeq(Meanings)
      /\ \A k \in 1 .. n : Meanings[k] = G!Means(pattern[k])
  BY <1>1, MeantType, Zenon DEF Meanings
<1>6. \A k \in 1 .. n : pattern[k] \in G!Tokens
  BY <1>1, ElementOfSeq, Zenon
<1> HIDE DEF pattern, n, parsed
<1>7. ASSUME NEW k \in 1 .. n PROVE Meanings[k] = <<parsed[k]>> /\ parsed[k] \in ByteOrWild
  <2>1. pattern[k] \in G!Tokens
    BY <1>6
  <2>2. parsed[k] = IF pattern[k] = Wild THEN Wild ELSE pattern[k].value
    BY <1>2
  <2>3. CASE pattern[k] = Wild
    BY <1>5, <2>2, <2>3 DEF G!Means, ByteOrWild
  <2>4. CASE pattern[k] # Wild
    <3>1. pattern[k].size = 2 /\ pattern[k].means # <<>>
      BY <1>3, <2>4, Zenon DEF G!Valid, G!Means
    <3>2. pattern[k].value \in Nat /\ pattern[k].means = <<pattern[k].value>>
      BY <2>1, <2>4, <3>1 DEF G!Tokens
    <3> QED
      BY <1>5, <2>2, <2>4, <3>2 DEF G!Means, ByteOrWild
  <2> QED
    BY <2>3, <2>4
<1>8. parsed \in Seq(ByteOrWild) /\ Len(parsed) = n
  BY <1>1, <1>2, <1>7
<1> DEFINE Flat(k) == FlattenSeq(SubSeq(Meanings, 1, k))
           Held == {k \in Nat : k <= n => Flat(k) = SubSeq(parsed, 1, k)}
<1>9. 0 \in Held
  <2>1. SubSeq(Meanings, 1, 0) = <<>> /\ SubSeq(parsed, 1, 0) = <<>>
    BY <1>5, <1>8
  <2>2. Flat(0) = SubSeq(parsed, 1, 0)
    BY <2>1, FlattenEmpty, Zenon
  <2> QED
    BY <2>2
<1>10. ASSUME NEW k \in Nat, k \in Held PROVE k + 1 \in Held
  <2> SUFFICES ASSUME k + 1 <= n PROVE Flat(k + 1) = SubSeq(parsed, 1, k + 1)
    OBVIOUS
  <2>1. k + 1 \in 1 .. n /\ (k + 1) - 1 = k /\ k < n /\ k \in 0 .. n
    BY <1>1
  <2>2. Flat(k) = SubSeq(parsed, 1, k)
    BY <1>10, <2>1
  <2>3. Flat(k + 1) = Flat(k) \o Meanings[k + 1]
    BY <1>5, <2>1, FlattenNext, Zenon
  <2>4. SubSeq(parsed, 1, k) \in Seq(ByteOrWild)
    BY <1>8, <2>1, SubSeqFacts
  <2>5. SubSeq(parsed, 1, k) \o <<parsed[k + 1]>> = Append(SubSeq(parsed, 1, k), parsed[k + 1])
    BY <1>7, <2>1, <2>4, AppendIsConcat, Zenon
  <2>6. Append(SubSeq(parsed, 1, k), parsed[k + 1]) = SubSeq(parsed, 1, k + 1)
    BY <1>8, <2>1, SeqSeenNext
  <2> HIDE DEF Flat
  <2> QED
    BY <1>7, <2>1, <2>2, <2>3, <2>5, <2>6, Zenon
<1>11. Flat(n) = SubSeq(parsed, 1, n)
  <2> HIDE DEF Held
  <2>1. n \in Held
    BY <1>1, <1>9, <1>10, NatSetInduction
  <2> QED
    BY <1>1, <2>1 DEF Held
<1>12. SubSeq(Meanings, 1, n) = Meanings /\ SubSeq(parsed, 1, n) = parsed
  BY <1>5, <1>8, SubSeqFull
<1> QED
  BY <1>4, <1>5, <1>11, <1>12, Zenon DEF parsed

LEMMA PlacesFacts ==
  ASSUME command \in Commands, NEW a \in 1 .. Len(command.args), NEW e \in 1 .. Len(Pieces(a))
  PROVE  /\ G!Places(a, e) \in SUBSET Nat /\ IsFiniteSet(G!Places(a, e))
         /\ Cardinality(G!Places(a, e)) \in Nat
         /\ G!Places(a, e)
              \subseteq command.offset .. Len(Pieces(a)[e].data) - Len(G!Meant)
<1> DEFINE from == command.offset
           to == Len(Pieces(a)[e].data) - Len(G!Meant)
<1>1. from \in Nat /\ to \in Int
  BY CommandFacts, PieceFacts, MeantType
<1>2. G!Places(a, e) \in SUBSET (from .. to)
  BY Zenon DEF G!Places, G!Arguments, Pieces
<1> HIDE DEF from, to
<1>3. IsFiniteSet(from .. to) /\ from .. to \subseteq Nat
  BY <1>1, FS_Interval
<1>4. IsFiniteSet(G!Places(a, e))
  BY <1>2, <1>3, FS_Subset, Zenon
<1>5. Cardinality(G!Places(a, e)) \in Nat
  BY <1>4, FS_CardinalityType
<1> QED
  BY <1>2, <1>3, <1>4, <1>5, Zenon DEF from, to

LEMMA FirstMatchesType ==
  ASSUME command \in Commands, NEW a \in 1 .. Len(command.args), NEW e \in 1 .. Len(Pieces(a)),
         NEW n \in Nat
  PROVE  /\ G!FirstMatches(a, e, n) \in Seq(Calls)
         /\ G!FirstMatches(a, e, n + 1)
              = Append(G!FirstMatches(a, e, n),
                       [call |-> "OnMatch", at |-> <<a, e>>, offset |-> G!Nth(G!Places(a, e), n + 1)])
<1> DEFINE c(k) == [call |-> "OnMatch", at |-> <<a, e>>, offset |-> G!Nth(G!Places(a, e), k)]
<1>1. ASSUME NEW k \in Nat PROVE c(k) \in Calls
  <2>1. G!Nth(G!Places(a, e), k) \in Offsets
    <3>1. G!Places(a, e) \in SUBSET Nat
      BY PlacesFacts, Zenon
    <3> DEFINE x == <<G!Places(a, e), k>>
    <3>2. x \in (SUBSET Nat) \X Nat /\ x[1] = G!Places(a, e) /\ x[2] = k
      BY <3>1
    <3> HIDE DEF x
    <3> QED
      BY <3>2, Zenon DEF Offsets
  <2>2. <<a, e>> \in Nat \X Nat
    BY CommandFacts, PieceFacts
  <2> QED
    BY <2>1, <2>2 DEF Calls
<1>2. /\ G!FirstMatches(a, e, n) = [k \in 1 .. n |-> c(k)]
      /\ G!FirstMatches(a, e, n + 1) = [k \in 1 .. n + 1 |-> c(k)]
  BY DEF G!FirstMatches
<1> HIDE DEF c
<1>3. [k \in 1 .. n |-> c(k)] \in Seq(Calls)
  BY <1>1
<1>4. [k \in 1 .. n + 1 |-> c(k)] = Append([k \in 1 .. n |-> c(k)], c(n + 1))
  OBVIOUS
<1> QED
  BY <1>2, <1>3, <1>4, Zenon DEF c

-----------------------------------------------------------------------------
(* What is to be reported of an entry.                                      *)

ErrorAt(a, e) == <<[call |-> "OnError", at |-> <<a, e>>]>>
WholeCount(a, e) ==
    IF Cardinality(G!Places(a, e)) < G!max_matches THEN Cardinality(G!Places(a, e)) ELSE G!max_matches
Whole(a, e) == G!FirstMatches(a, e, WholeCount(a, e))

LEMMA WholeType ==
  ASSUME command \in Commands, NEW a \in 1 .. Len(command.args), NEW e \in 1 .. Len(Pieces(a))
  PROVE  /\ WholeCount(a, e) \in Nat /\ Whole(a, e) \in Seq(Calls)
         /\ [call |-> "OnError", at |-> <<a, e>>] \in Calls /\ ErrorAt(a, e) \in Seq(Calls)
<1>1. WholeCount(a, e) \in Nat
  BY PlacesFacts, CommandFacts, Zenon DEF WholeCount
<1>2. Whole(a, e) \in Seq(Calls)
  BY <1>1, FirstMatchesType, Zenon DEF Whole
<1>3. <<a, e>> \in Nat \X Nat
  BY CommandFacts, PieceFacts
<1>4. [call |-> "OnError", at |-> <<a, e>>] \in Calls
  BY <1>3 DEF Calls
<1>5. ErrorAt(a, e) \in Seq(Calls)
  BY <1>4 DEF ErrorAt
<1> QED
  BY <1>1, <1>2, <1>4, <1>5

LEMMA ExpectedIs ==
  ASSUME command \in Commands, NEW a \in 1 .. Len(command.args), NEW e \in 1 .. Len(Pieces(a))
  PROVE  LET f == Pieces(a)[e] IN
         /\ G!Expected(a, e) =
              IF f.fails \in {"open", "stat"} THEN ErrorAt(a, e)
              ELSE IF command.offset >= Len(f.data) THEN <<>>
              ELSE IF f.fails = "map" THEN ErrorAt(a, e)
              ELSE IF f.fails = "unmap" THEN Whole(a, e) \o ErrorAt(a, e)
              ELSE Whole(a, e)
         /\ G!Expected(a, e) \in Seq(Calls)
<1> DEFINE f == Pieces(a)[e]
<1>1. G!Expected(a, e) =
        IF f.fails \in {"open", "stat"} THEN ErrorAt(a, e)
        ELSE IF command.offset >= Len(f.data) THEN <<>>
        ELSE IF f.fails = "map" THEN ErrorAt(a, e)
        ELSE IF f.fails = "unmap" THEN Whole(a, e) \o ErrorAt(a, e)
        ELSE Whole(a, e)
  BY GrepLibrary, Zenon DEF G!Expected, G!Arguments, Pieces, ErrorAt, Whole, WholeCount
<1> HIDE DEF f
<1>2. Whole(a, e) \o ErrorAt(a, e) \in Seq(Calls)
  BY WholeType, ConcatProperties, Zenon
<1>3. <<>> \in Seq(Calls)
  OBVIOUS
<1>4. G!Expected(a, e) \in Seq(Calls)
  BY <1>1, <1>2, <1>3, WholeType
<1> QED
  BY <1>1, <1>4 DEF f

(* What is reported before argument a, and before its entry e.              *)
Ahead(a) == FlattenSeq(SubSeq(AllParts, 1, a - 1))
Before(a, e) == Ahead(a) \o FlattenSeq(SubSeq(Parts(a), 1, e - 1))

LEMMA PartsFacts ==
  ASSUME command \in Commands, NEW a \in 1 .. Len(command.args)
  PROVE  /\ Parts(a) \in Seq(Seq(Calls)) /\ Len(Parts(a)) = Len(Pieces(a))
         /\ FlattenSeq(Parts(a)) \in Seq(Calls)
<1> DEFINE n == Len(Pieces(a))
<1>1. n \in Nat /\ Parts(a) = [e \in 1 .. n |-> G!Expected(a, e)]
  BY PieceFacts DEF Parts
<1>2. \A e \in 1 .. n : G!Expected(a, e) \in Seq(Calls)
  BY ExpectedIs
<1> HIDE DEF n
<1>3. Parts(a) \in Seq(Seq(Calls)) /\ Len(Parts(a)) = n
  BY <1>1, <1>2
<1>4. FlattenSeq(Parts(a)) \in Seq(Calls)
  <2>1. n \in 0 .. Len(Parts(a))
    BY <1>1, <1>3
  <2>2. FlattenSeq(SubSeq(Parts(a), 1, n)) \in Seq(Calls)
    BY <1>3, <2>1, FlattenType
  <2>3. SubSeq(Parts(a), 1, n) = Parts(a)
    BY <1>3, SubSeqFull
  <2> QED
    BY <2>2, <2>3, Zenon
<1> QED
  BY <1>3, <1>4 DEF n

LEMMA AllPartsFacts ==
  ASSUME command \in Commands
  PROVE  /\ AllParts \in Seq(Seq(Calls)) /\ Len(AllParts) = Len(command.args)
         /\ G!AllExpected = FlattenSeq(AllParts)
<1> DEFINE n == Len(command.args)
<1>1. n \in Nat /\ AllParts = [a \in 1 .. n |-> FlattenSeq(Parts(a))]
  BY CommandFacts DEF AllParts
<1>2. \A a \in 1 .. n : FlattenSeq(Parts(a)) \in Seq(Calls)
  BY PartsFacts
<1> HIDE DEF n
<1>3. AllParts \in Seq(Seq(Calls)) /\ Len(AllParts) = n
  BY <1>1, <1>2
<1>4. G!AllExpected = FlattenSeq(AllParts)
  BY GrepLibrary, Zenon DEF G!AllExpected, AllParts, Parts, Pieces, G!Arguments
<1> QED
  BY <1>3, <1>4 DEF n

LEMMA AheadFacts ==
  ASSUME command \in Commands, NEW a \in 1 .. Len(command.args)
  PROVE  /\ Ahead(a) \in Seq(Calls)
         /\ Ahead(a + 1) = Ahead(a) \o FlattenSeq(Parts(a))
         /\ \E t \in Seq(Calls) : G!AllExpected = Ahead(a + 1) \o t
<1>1. /\ AllParts \in Seq(Seq(Calls)) /\ a - 1 \in 0 .. Len(AllParts)
      /\ a \in 1 .. Len(AllParts) /\ a \in 0 .. Len(AllParts) /\ (a + 1) - 1 = a
  BY CommandFacts, AllPartsFacts
<1>2. AllParts[a] = FlattenSeq(Parts(a))
  BY CommandFacts DEF AllParts
<1>3. Ahead(a) \in Seq(Calls)
  BY <1>1, FlattenType DEF Ahead
<1>4. Ahead(a + 1) = FlattenSeq(SubSeq(AllParts, 1, a))
  BY <1>1 DEF Ahead
<1>5. Ahead(a + 1) = Ahead(a) \o FlattenSeq(Parts(a))
  BY <1>1, <1>2, <1>4, FlattenNext, Zenon DEF Ahead
<1>6. \E t \in Seq(Calls) : G!AllExpected = Ahead(a + 1) \o t
  BY <1>1, <1>4, AllPartsFacts, FlattenPrefix, Zenon
<1> QED
  BY <1>3, <1>5, <1>6, Zenon

LEMMA AheadEnds ==
  ASSUME command \in Commands
  PROVE  Ahead(1) = <<>> /\ Ahead(Len(command.args) + 1) = G!AllExpected
<1>1. SubSeq(AllParts, 1, 1 - 1) = <<>>
  BY AllPartsFacts
<1>2. Ahead(1) = <<>>
  BY <1>1, FlattenEmpty, Zenon DEF Ahead
<1>3. (Len(command.args) + 1) - 1 = Len(AllParts)
  BY CommandFacts, AllPartsFacts
<1>4. SubSeq(AllParts, 1, Len(AllParts)) = AllParts
  BY AllPartsFacts, SubSeqFull
<1> QED
  BY <1>2, <1>3, <1>4, AllPartsFacts, Zenon DEF Ahead

LEMMA CallsAssociative ==
  ASSUME NEW r \in Seq(Calls), NEW s \in Seq(Calls), NEW t \in Seq(Calls)
  PROVE  (r \o s) \o t = r \o (s \o t)
BY ConcatAssociative, SMTT(30)

LEMMA BeforeFacts ==
  ASSUME command \in Commands, NEW a \in 1 .. Len(command.args), NEW e \in 1 .. Len(Pieces(a))
  PROVE  /\ Before(a, e) \in Seq(Calls) /\ Before(a, e + 1) \in Seq(Calls)
         /\ Before(a, e + 1) = Before(a, e) \o G!Expected(a, e)
         /\ \E t \in Seq(Calls) : G!AllExpected = Before(a, e + 1) \o t
<1> DEFINE flat(k) == FlattenSeq(SubSeq(Parts(a), 1, k))
           ahead == Ahead(a)
           exp == G!Expected(a, e)
<1>1. /\ Parts(a) \in Seq(Seq(Calls)) /\ e - 1 \in 0 .. Len(Parts(a))
      /\ e \in 1 .. Len(Parts(a)) /\ e \in 0 .. Len(Parts(a)) /\ (e + 1) - 1 = e
  BY PieceFacts, PartsFacts
<1>2. Parts(a)[e] = exp /\ exp \in Seq(Calls)
  BY PieceFacts, ExpectedIs, Zenon DEF Parts
<1>3. flat(e - 1) \in Seq(Calls) /\ flat(e) \in Seq(Calls)
  BY <1>1, FlattenType
<1>4. flat(e) = flat(e - 1) \o exp
  BY <1>1, <1>2, FlattenNext, Zenon
<1>5. PICK t \in Seq(Calls) : FlattenSeq(Parts(a)) = flat(e) \o t
  BY <1>1, FlattenPrefix, Zenon
<1>6. ahead \in Seq(Calls) /\ Ahead(a + 1) = ahead \o FlattenSeq(Parts(a))
  BY AheadFacts, Zenon
<1>7. PICK u \in Seq(Calls) : G!AllExpected = Ahead(a + 1) \o u
  BY AheadFacts, Zenon
<1>8. Before(a, e) = ahead \o flat(e - 1) /\ Before(a, e + 1) = ahead \o flat(e)
  BY <1>1 DEF Before
<1> DEFINE x == flat(e - 1)
           y == flat(e)
<1> HIDE DEF flat, ahead, exp, x, y
<1>9. x \in Seq(Calls) /\ y \in Seq(Calls) /\ y = x \o exp
  BY <1>3, <1>4 DEF x, y
<1>10. /\ ahead \o x \in Seq(Calls) /\ ahead \o y \in Seq(Calls)
  BY <1>6, <1>9, ConcatProperties
<1>11. ahead \o y = (ahead \o x) \o exp
  BY <1>2, <1>6, <1>9, CallsAssociative, ZenonT(60)
<1>12. G!AllExpected = (ahead \o y) \o (t \o u) /\ t \o u \in Seq(Calls)
  <2>1. G!AllExpected = (ahead \o (y \o t)) \o u
    BY <1>5, <1>6, <1>7, Zenon DEF y
  <2>2. ahead \o (y \o t) = (ahead \o y) \o t
    BY <1>6, <1>9, CallsAssociative, Zenon
  <2>3. ((ahead \o y) \o t) \o u = (ahead \o y) \o (t \o u)
    BY <1>10, CallsAssociative, Zenon
  <2>4. t \o u \in Seq(Calls)
    BY ConcatProperties
  <2> QED
    BY <2>1, <2>2, <2>3, <2>4
<1> QED
  BY <1>8, <1>10, <1>11, <1>12, Zenon DEF x, y, exp

LEMMA BeforeEnds ==
  ASSUME command \in Commands, NEW a \in 1 .. Len(command.args)
  PROVE  /\ Before(a, 1) = Ahead(a)
         /\ Before(a, Len(Pieces(a)) + 1) = Ahead(a + 1)
         /\ Pieces(a) = <<>> => Ahead(a + 1) = Ahead(a)
<1>1. Parts(a) \in Seq(Seq(Calls)) /\ Len(Parts(a)) \in Nat /\ Len(Parts(a)) = Len(Pieces(a))
  BY PartsFacts, PieceFacts
<1>2. SubSeq(Parts(a), 1, 1 - 1) = <<>>
  BY <1>1
<1>3. SubSeq(Parts(a), 1, (Len(Pieces(a)) + 1) - 1) = Parts(a)
  <2>1. (Len(Pieces(a)) + 1) - 1 = Len(Parts(a))
    BY <1>1
  <2> QED
    BY <1>1, <2>1, SubSeqFull
<1>4. Ahead(a) \o <<>> = Ahead(a)
  BY AheadFacts, ConcatEmptySeq
<1>5. Before(a, 1) = Ahead(a)
  BY <1>2, <1>4, FlattenEmpty, Zenon DEF Before
<1>6. Before(a, Len(Pieces(a)) + 1) = Ahead(a + 1)
  BY <1>3, AheadFacts, Zenon DEF Before
<1>7. Pieces(a) = <<>> => Before(a, Len(Pieces(a)) + 1) = Before(a, 1)
  OBVIOUS
<1> QED
  BY <1>5, <1>6, <1>7

-----------------------------------------------------------------------------
(* The three searches look for the places.                                  *)

Searching(a, e) ==
    /\ G!WholeTokens /\ command \in Commands /\ G!Malformed = {}
    /\ a \in 1 .. Len(command.args) /\ e \in 1 .. Len(Pieces(a))
    /\ arg = a /\ entry = e
    /\ command.offset < Len(Pieces(a)[e].data)

LEMMA SearchFacts ==
  ASSUME NEW a, NEW e, Searching(a, e)
  PROVE  /\ G!Meant = G!Parsed /\ Len(G!Parsed) \in Nat \ {0}
         /\ Len(G!Data) = Len(Pieces(a)[e].data) - command.offset /\ Len(G!Data) \in Nat
         /\ command.offset \in Nat
         /\ \A p \in Nat : p + Len(G!Parsed) <= Len(G!Data) =>
               (G!Matches(G!Data, p) <=> command.offset + p \in G!Places(a, e))
<1> DEFINE data == Pieces(a)[e].data
           parsed == G!Parsed
           offset == command.offset
           n == Len(parsed)
<1>1. /\ offset \in Nat /\ data \in Seq(Nat) /\ Len(data) \in Nat /\ offset < Len(data)
  BY CommandFacts, PieceFacts, Zenon DEF Searching
<1>2. G!Meant = parsed
  BY MeantIsParsed DEF Searching
<1>3. n \in Nat \ {0} /\ DOMAIN parsed = 1 .. n
  <2>1. /\ Len(command.pattern) \in Nat \ {0}
        /\ DOMAIN command.pattern = 1 .. Len(command.pattern)
    BY CommandFacts DEF Searching
  <2> QED
    BY <2>1 DEF G!Parsed
<1>4. G!Data = SubSeq(data, offset + 1, Len(data))
  BY DEF G!Data, G!filesize, G!File, G!Entries, G!Arguments, Pieces, Searching
<1> HIDE DEF data, parsed, offset, n
<1>5. /\ Len(G!Data) = Len(data) - offset
      /\ \A k \in 1 .. Len(data) - offset : G!Data[k] = data[offset + k]
  <2>1. /\ Len(SubSeq(data, offset + 1, Len(data))) = Len(data) - offset
        /\ \A k \in 1 .. Len(data) - offset :
             SubSeq(data, offset + 1, Len(data))[k] = data[offset + k]
    <3>1. offset \in 0 .. Len(data) /\ Len(data) \in offset .. Len(data)
      BY <1>1
    <3> QED
      BY <1>1, <3>1, SubSeqConcat
  <2> QED
    BY <1>4, <2>1, Zenon
<1>6. ASSUME NEW p \in Nat, p + n <= Len(data) - offset
      PROVE  G!Matches(G!Data, p) <=> offset + p \in G!Places(a, e)
  <2>1. G!Places(a, e) = {q \in offset .. Len(data) - n :
             \A k \in 1 .. n : parsed[k] \in {Wild, data[q + k]}}
    BY <1>2, <1>3, Zenon DEF G!Places, G!Arguments, Pieces, data, offset, n
  <2>2. offset + p \in offset .. Len(data) - n
    BY <1>1, <1>3, <1>6
  <2>3. ASSUME NEW k \in 1 .. n
        PROVE  (parsed[k] = Wild \/ G!Data[p + k] = parsed[k])
                 <=> parsed[k] \in {Wild, data[(offset + p) + k]}
    <3>1. p + k \in 1 .. Len(data) - offset /\ offset + (p + k) = (offset + p) + k
      BY <1>1, <1>3, <1>6
    <3>2. G!Data[p + k] = data[(offset + p) + k]
      BY <1>5, <3>1
    <3> QED
      BY <3>2, Zenon
  <2>4. G!Matches(G!Data, p) <=>
          \A k \in 1 .. n : parsed[k] = Wild \/ G!Data[p + k] = parsed[k]
    BY <1>3, Zenon DEF G!Matches, parsed
  <2>5. offset + p \in G!Places(a, e) <=>
          \A k \in 1 .. n : parsed[k] \in {Wild, data[(offset + p) + k]}
    BY <2>1, <2>2, Zenon
  <2> QED
    BY <2>3, <2>4, <2>5, Zenon
<1>7. Len(G!Data) \in Nat
  BY <1>1, <1>5
<1> QED
  BY <1>1, <1>2, <1>3, <1>5, <1>6, <1>7 DEF data, parsed, offset, n

LEMMA FoundIs ==
  ASSUME NEW a, NEW e, Searching(a, e), NEW from \in Nat
  PROVE  \/ /\ G!Found(from) = Len(G!Data)
            /\ \A q \in G!Places(a, e) : q < command.offset + from
         \/ /\ G!Found(from) # Len(G!Data) /\ G!Found(from) \in Nat /\ from <= G!Found(from)
            /\ command.offset + G!Found(from) \in G!Places(a, e)
            /\ \A q \in G!Places(a, e) : q < command.offset + G!Found(from) => q < command.offset + from
<1> DEFINE n == Len(G!Parsed)
           m == Len(G!Data)
           offset == command.offset
           places == G!Places(a, e)
           found == {p \in from .. m - n : G!Matches(G!Data, p)}
<1>1. n \in Nat \ {0} /\ m \in Nat /\ offset \in Nat
  BY SearchFacts
<1>2. \A p \in Nat : p + n <= m => (G!Matches(G!Data, p) <=> offset + p \in places)
  BY SearchFacts
<1>3. places \subseteq offset .. (m + offset) - n /\ places \subseteq Nat
  <2>1. places \subseteq offset .. Len(Pieces(a)[e].data) - Len(G!Meant) /\ places \in SUBSET Nat
    BY PlacesFacts, Zenon DEF Searching
  <2>2. /\ Len(G!Meant) = n /\ m = Len(Pieces(a)[e].data) - offset
        /\ Len(Pieces(a)[e].data) \in Nat
    BY SearchFacts, PieceFacts, Zenon DEF Searching
  <2> HIDE DEF n, m, places, offset
  <2>3. Len(Pieces(a)[e].data) = m + offset
    BY <1>1, <2>2
  <2> QED
    BY <2>1, <2>2, <2>3
<1>4. G!Found(from) = IF found = {} THEN m ELSE CHOOSE p \in found : \A k \in found : p <= k
  BY DEF G!Found
<1> HIDE DEF n, m, places, offset
<1>5. \A p : p \in found <=> p \in from .. m - n /\ offset + p \in places
  BY <1>1, <1>2
<1> HIDE DEF found
<1>6. ASSUME NEW q \in places, ~(q < offset + from) PROVE q - offset \in found
  <2>1. q \in offset .. (m + offset) - n
    BY <1>3
  <2>2. q - offset \in from .. m - n /\ offset + (q - offset) = q
    BY <1>1, <1>6, <2>1
  <2> QED
    BY <1>5, <2>2
<1>7. CASE found = {}
  <2>1. \A q \in places : q < offset + from
    BY <1>6, <1>7
  <2> QED
    BY <1>4, <1>7, <2>1 DEF m, places, offset
<1>8. CASE found # {}
  <2>1. found \in SUBSET Nat
    BY <1>1, <1>5
  <2>2. PICK x \in found : \A k \in found : x <= k
    BY <1>8, <2>1, NatMinimum
  <2> DEFINE p == CHOOSE y \in found : \A k \in found : y <= k
  <2>3. p \in found /\ \A k \in found : p <= k
    BY <2>2, Zenon
  <2>4. G!Found(from) = p
    BY <1>4, <1>8
  <2> HIDE DEF p
  <2>5. p \in Nat /\ from <= p /\ p # m /\ offset + p \in places
    BY <1>1, <1>5, <2>1, <2>3
  <2>6. ASSUME NEW q \in places, q < offset + p PROVE q < offset + from
    <3>1. q - offset \in found => p <= q - offset
      BY <2>3
    <3>2. q \in Nat
      BY <1>3
    <3> QED
      BY <1>1, <1>6, <2>5, <2>6, <3>1, <3>2
  <2> QED
    BY <2>4, <2>5, <2>6 DEF m, places, offset
<1> QED
  BY <1>7, <1>8

-----------------------------------------------------------------------------
(* What is said of a command line says it still while the command line is   *)
(* the same.                                                                *)
LEMMA CommandKept ==
  ASSUME command' = command, NEW a, NEW e, NEW n
  PROVE  /\ Pieces(a)' = Pieces(a) /\ Ahead(a)' = Ahead(a) /\ Before(a, e)' = Before(a, e)
         /\ G!Places(a, e)' = G!Places(a, e)
         /\ G!FirstMatches(a, e, n)' = G!FirstMatches(a, e, n)
         /\ Whole(a, e)' = Whole(a, e) /\ G!AllExpected' = G!AllExpected
         /\ G!Malformed' = G!Malformed /\ G!max_matches' = G!max_matches
         /\ G!UsesSearcher' = G!UsesSearcher
<1>1. \A b, f : G!Places(b, f)' = G!Places(b, f)
  <2>1. G!Meant' = G!Meant
    BY Zenon DEF G!Meant
  <2> QED
    BY <2>1 DEF G!Places, G!Arguments
<1>2. G!max_matches' = G!max_matches
  BY DEF G!max_matches
<1>3. \A b, f, k : G!FirstMatches(b, f, k)' = G!FirstMatches(b, f, k)
  BY <1>1, Zenon DEF G!FirstMatches
<1>4. \A b, f : WholeCount(b, f)' = WholeCount(b, f)
  BY <1>1, <1>2, Zenon DEF WholeCount
<1>5. \A b, f : Whole(b, f)' = Whole(b, f)
  BY <1>1, <1>4, Zenon DEF Whole, G!FirstMatches
<1>6. \A b, f : G!Expected(b, f)' = G!Expected(b, f)
  <2> TAKE b, f
  <2>1. (G!Cardinality(G!Places(b, f)))' = G!Cardinality(G!Places(b, f))
    BY <1>1, Zenon
  <2> DEFINE k == IF G!Cardinality(G!Places(b, f)) < G!max_matches
                    THEN G!Cardinality(G!Places(b, f)) ELSE G!max_matches
  <2>2. k' = k
    BY <2>1, <1>2, Zenon
  <2>3. G!FirstMatches(b, f, k)' = G!FirstMatches(b, f, k)
    BY <2>2, <1>1, Zenon DEF G!FirstMatches
  <2> QED
    BY <2>1, <2>2, <2>3, <1>2, Zenon DEF G!Expected, G!Arguments
<1>7. \A b : Pieces(b)' = Pieces(b)
  BY DEF Pieces
<1>8. \A b : Parts(b)' = Parts(b)
  BY <1>6, <1>7 DEF Parts
<1>9. AllParts' = AllParts
  BY <1>8 DEF AllParts
<1>10. \A b : Ahead(b)' = Ahead(b)
  BY <1>9 DEF Ahead
<1>11. \A b, f : Before(b, f)' = Before(b, f)
  BY <1>8, <1>10, Zenon DEF Before
<1>12. G!AllExpected' = G!AllExpected
  BY <1>6, Zenon DEF G!AllExpected, G!Arguments
<1>13. G!Malformed' = G!Malformed
  BY DEF G!Malformed
<1>14. G!UsesSearcher' = G!UsesSearcher
  BY DEF G!UsesSearcher, G!is_simple, G!Parsed
<1> QED
  BY <1>1, <1>2, <1>3, <1>5, <1>7, <1>10, <1>11, <1>12, <1>13, <1>14

-----------------------------------------------------------------------------
(* The beginnings of what is to be reported.                                *)
PartOf(r) == \E t \in Seq(Calls) : G!AllExpected = r \o t

LEMMA PartOfConcat ==
  ASSUME NEW r \in Seq(Calls), NEW s \in Seq(Calls), PartOf(r \o s)
  PROVE  PartOf(r)
<1>1. PICK t \in Seq(Calls) : G!AllExpected = (r \o s) \o t
  BY Zenon DEF PartOf
<1>2. (r \o s) \o t = r \o (s \o t) /\ s \o t \in Seq(Calls)
  BY CallsAssociative, ConcatProperties, Zenon
<1> QED
  BY <1>1, <1>2, Zenon DEF PartOf

LEMMA BeforePart ==
  ASSUME command \in Commands, NEW a \in 1 .. Len(command.args) + 1
  PROVE  /\ Ahead(a) \in Seq(Calls) /\ PartOf(Ahead(a))
         /\ a # Len(command.args) + 1 =>
              \A e \in 1 .. Len(Pieces(a)) + 1 : Before(a, e) \in Seq(Calls) /\ PartOf(Before(a, e))
<1>0. Len(command.args) \in Nat
  BY CommandFacts
<1>1. Ahead(a) \in Seq(Calls) /\ PartOf(Ahead(a))
  <2>1. CASE a = 1
    <3>1. Ahead(1) = <<>> /\ G!AllExpected \in Seq(Calls)
      <4>1. Len(AllParts) \in 0 .. Len(AllParts) /\ AllParts \in Seq(Seq(Calls))
        BY <1>0, AllPartsFacts
      <4>2. FlattenSeq(SubSeq(AllParts, 1, Len(AllParts))) \in Seq(Calls)
        BY <4>1, FlattenType
      <4>3. SubSeq(AllParts, 1, Len(AllParts)) = AllParts
        BY <4>1, SubSeqFull
      <4> QED
        BY <4>2, <4>3, AheadEnds, AllPartsFacts, Zenon
    <3> QED
      <4>1. G!AllExpected = <<>> \o G!AllExpected
        BY <3>1, ConcatEmptySeq
      <4>2. <<>> \in Seq(Calls)
        OBVIOUS
      <4> QED
        BY <2>1, <3>1, <4>1, <4>2, Zenon DEF PartOf
  <2>2. CASE a # 1
    <3>1. a - 1 \in 1 .. Len(command.args) /\ (a - 1) + 1 = a
      BY <1>0, <2>2
    <3>2. /\ Ahead(a - 1) \in Seq(Calls) /\ FlattenSeq(Parts(a - 1)) \in Seq(Calls)
          /\ Ahead(a) = Ahead(a - 1) \o FlattenSeq(Parts(a - 1))
          /\ PartOf(Ahead(a))
      BY <3>1, AheadFacts, PartsFacts, Zenon DEF PartOf
    <3> QED
      BY <3>2, ConcatProperties
  <2> QED
    BY <2>1, <2>2
<1>2. ASSUME a # Len(command.args) + 1, NEW e \in 1 .. Len(Pieces(a)) + 1
      PROVE  Before(a, e) \in Seq(Calls) /\ PartOf(Before(a, e))
  <2>0. a \in 1 .. Len(command.args)
    BY <1>0, <1>2
  <2>1. Len(Pieces(a)) \in Nat
    BY <2>0, PieceFacts
  <2>2. CASE e = 1
    BY <1>1, <2>0, <2>2, BeforeEnds
  <2>3. CASE e # 1
    <3>1. e - 1 \in 1 .. Len(Pieces(a)) /\ (e - 1) + 1 = e
      BY <2>1, <2>3
    <3> QED
      BY <2>0, <3>1, BeforeFacts, Zenon DEF PartOf
  <2> QED
    BY <2>2, <2>3
<1> QED
  BY <1>1, <1>2

LEMMA FirstMatchesPart ==
  ASSUME command \in Commands, NEW a \in 1 .. Len(command.args), NEW e \in 1 .. Len(Pieces(a)),
         NEW n \in Nat, NEW k \in Nat, n <= k
  PROVE  \E t \in Seq(Calls) : G!FirstMatches(a, e, k) = G!FirstMatches(a, e, n) \o t
<1> DEFINE r == G!FirstMatches(a, e, k)
           u == G!FirstMatches(a, e, n)
           t == [l \in 1 .. k - n |-> r[n + l]]
<1>1. r \in Seq(Calls) /\ u \in Seq(Calls)
  BY FirstMatchesType, Zenon
<1>2. Len(r) = k /\ Len(u) = n /\ \A l \in 1 .. n : u[l] = r[l]
  BY DEF G!FirstMatches
<1> HIDE DEF r, u
<1>3. t \in Seq(Calls) /\ Len(t) = k - n
  <2>1. \A l \in 1 .. k - n : n + l \in 1 .. k
    OBVIOUS
  <2>2. \A l \in 1 .. k : r[l] \in Calls
    BY <1>1, <1>2
  <2> QED
    BY <2>1, <2>2
<1>4. \A l \in 1 .. k - n : t[l] = r[n + l]
  OBVIOUS
<1> HIDE DEF t
<1>5. r = u \o t
  <2>1. u \o t \in Seq(Calls) /\ Len(u \o t) = k
    <3>1. u \o t \in Seq(Calls) /\ Len(u \o t) = Len(u) + Len(t)
      BY <1>1, <1>3, ConcatProperties, Zenon
    <3> QED
      BY <1>2, <1>3, <3>1
  <2>2. \A l \in 1 .. k : (u \o t)[l] = IF l <= n THEN u[l] ELSE t[l - n]
    BY <1>1, <1>2, <1>3, ConcatProperties
  <2>3. \A l \in 1 .. k : ~(l <= n) => l - n \in 1 .. k - n /\ n + (l - n) = l
    OBVIOUS
  <2>4. \A l \in 1 .. k : (u \o t)[l] = r[l]
    <3> TAKE l \in 1 .. k
    <3>1. CASE l <= n
      <4>1. l \in 1 .. n
        BY <3>1
      <4> QED
        BY <1>2, <2>2, <3>1, <4>1
    <3>2. CASE ~(l <= n)
      BY <1>4, <2>2, <2>3, <3>2, Zenon
    <3> QED
      BY <3>1, <3>2, Zenon
  <2> QED
    BY <1>1, <1>2, <2>1, <2>4, SeqEqual, Zenon
<1> QED
  BY <1>3, <1>5, Zenon DEF r, u

-----------------------------------------------------------------------------
(* What has been reported when bin-grep is at a place of its program, with  *)
(* argument a, entry e and m matches.                                       *)
ScanOK(a, e, m) ==
    /\ pos \in Nat /\ m = Cardinality(Below(G!Places(a, e), command.offset + pos))
    /\ m <= G!max_matches /\ (~G!UsesSearcher => m < G!max_matches)
    /\ reports = Before(a, e) \o G!FirstMatches(a, e, m)

PlaceOK(a, e, m) ==
    /\ IF gpc = "main" THEN a \in 1 .. Len(command.args) + 1 /\ reports = Ahead(a)
       ELSE a \in 1 .. Len(command.args)
    /\ gpc \in {"open", "stat", "map", "scan", "unmap"} => e \in 1 .. Len(Pieces(a))
    /\ gpc \in {"open", "stat", "map"} => reports = Before(a, e)
    /\ gpc \in {"stat", "map", "scan", "unmap"} => Pieces(a)[e].fails # "open"
    /\ gpc \in {"map", "scan", "unmap"} =>
         Pieces(a)[e].fails # "stat" /\ command.offset < Len(Pieces(a)[e].data)
    /\ gpc \in {"scan", "unmap"} => Pieces(a)[e].fails # "map"
    /\ gpc = "scan" => ScanOK(a, e, m)
    /\ gpc = "unmap" => reports = Before(a, e) \o Whole(a, e)
    /\ gpc = "next" => \/ Pieces(a) = <<>> /\ e = 1 /\ reports = Ahead(a)
                       \/ e \in 1 .. Len(Pieces(a)) /\ reports = Before(a, e + 1)

PlaceInv == \A a, e, m : arg = a /\ entry = e /\ matches = m => PlaceOK(a, e, m)

At(a, e, m) ==
    /\ G!WholeTokens /\ command \in Commands /\ G!Malformed = {}
    /\ arg = a /\ entry = e /\ matches = m /\ PlaceOK(a, e, m)

LEMMA StartReports ==
  ASSUME NEW a, NEW e, NEW m, At(a, e, m), G!Start
  PROVE  gpc' \in {"next", "open"} /\ PlaceInv'
<1>1. /\ gpc = "main" /\ a <= Len(command.args)
      /\ gpc' = IF Pieces(a) = <<>> THEN "next" ELSE "open"
      /\ entry' = 1 /\ arg' = a /\ matches' = m /\ reports' = reports /\ command' = command
  BY DEF G!Start, G!Goto, G!Arguments, G!Entries, Pieces, At
<1>2. a \in 1 .. Len(command.args) /\ reports = Ahead(a)
  BY <1>1, CommandFacts DEF At, PlaceOK
<1>3. Pieces(a) # <<>> => 1 \in 1 .. Len(Pieces(a)) /\ reports = Before(a, 1)
  <2>1. Len(Pieces(a)) \in Nat /\ command \in Commands
    BY <1>2, PieceFacts DEF At
  <2>2. Pieces(a) # <<>> => Len(Pieces(a)) # 0
    BY <1>2, PieceFacts, <2>1 DEF G!Files
  <2> QED
    BY <1>2, <2>1, <2>2, BeforeEnds
<1>4. /\ Pieces(a)' = Pieces(a) /\ Ahead(a)' = Ahead(a) /\ Before(a, 1)' = Before(a, 1)
  BY <1>1, CommandKept
<1>5. PlaceOK(a, 1, m)'
  BY <1>1, <1>2, <1>3, <1>4 DEF PlaceOK
<1>6. ASSUME NEW b, NEW f, NEW k, arg' = b, entry' = f, matches' = k PROVE PlaceOK(b, f, k)'
  <2>1. b = a /\ f = 1 /\ k = m
    BY <1>1, <1>6
  <2> QED
    BY <1>5, <2>1
<1> QED
  BY <1>1, <1>6 DEF PlaceInv

-----------------------------------------------------------------------------
InFile == gpc \in {"open", "stat", "map", "scan", "unmap"}

LEMMA InFileFacts ==
  ASSUME NEW a, NEW e, NEW m, At(a, e, m), InFile
  PROVE  /\ command \in Commands /\ arg = a /\ entry = e /\ matches = m
         /\ a \in 1 .. Len(command.args) /\ e \in 1 .. Len(Pieces(a)) /\ e \in 1 .. Len(Pieces(a)) + 1
         /\ G!File = Pieces(a)[e] /\ G!filesize = Len(Pieces(a)[e].data) /\ G!Here = <<a, e>>
         /\ command.offset \in Nat /\ Len(Pieces(a)[e].data) \in Nat
<1>1. /\ command \in Commands /\ arg = a /\ entry = e /\ matches = m
      /\ a \in 1 .. Len(command.args) /\ e \in 1 .. Len(Pieces(a))
  BY DEF At, PlaceOK, InFile
<1>2. G!File = Pieces(a)[e] /\ G!filesize = Len(Pieces(a)[e].data) /\ G!Here = <<a, e>>
  BY <1>1 DEF G!File, G!filesize, G!Here, G!Entries, G!Arguments, Pieces
<1>3. Len(Pieces(a)) \in Nat /\ Len(Pieces(a)[e].data) \in Nat /\ command.offset \in Nat
  BY <1>1, PieceFacts, CommandFacts, Zenon
<1> QED
  BY <1>1, <1>2, <1>3

LEMMA InFileCalls ==
  ASSUME NEW a, NEW e, NEW m, At(a, e, m), InFile
  PROVE  /\ Before(a, e) \in Seq(Calls) /\ Whole(a, e) \in Seq(Calls) /\ ErrorAt(a, e) \in Seq(Calls)
         /\ Before(a, e + 1) = Before(a, e) \o G!Expected(a, e)
BY InFileFacts, BeforeFacts, WholeType, Zenon

LEMMA ErrorReported ==
  ASSUME NEW a, NEW e, NEW m, At(a, e, m), InFile, reports \in Seq(Calls), G!OnError
  PROVE  reports' = reports \o ErrorAt(a, e)
<1>1. G!Here = <<a, e>> /\ [call |-> "OnError", at |-> <<a, e>>] \in Calls
  BY InFileFacts, WholeType, Zenon
<1> QED
  BY <1>1, AppendIsConcat, Zenon DEF G!OnError, ErrorAt

LEMMA Stays ==
  ASSUME NEW a, NEW e, NEW m, NEW k, At(a, e, m),
         arg' = arg, entry' = entry, matches' = k, PlaceOK(a, e, k)'
  PROVE  PlaceInv'
<1> SUFFICES ASSUME NEW b, NEW f, NEW l, arg' = b, entry' = f, matches' = l
             PROVE  PlaceOK(b, f, l)'
  BY DEF PlaceInv
<1>1. b = a /\ f = e /\ l = k
  BY DEF At
<1> QED
  BY <1>1

LEMMA OpenReports ==
  ASSUME NEW a, NEW e, NEW m, At(a, e, m), G!Open
  PROVE  gpc' \in {"next", "stat"} /\ PlaceInv'
<1> DEFINE failed == G!File.fails = "open"
<1>1. /\ gpc = "open" /\ gpc' = IF failed THEN "next" ELSE "stat"
      /\ failed => G!OnError
      /\ ~failed => reports' = reports
      /\ arg' = arg /\ entry' = entry /\ matches' = matches /\ command' = command
  BY DEF G!Open, G!Goto
<1>2. InFile
  BY <1>1 DEF InFile
<1>3. reports = Before(a, e)
  BY <1>1 DEF At, PlaceOK
<1>4. failed => reports' = Before(a, e + 1)
  <2>1. failed => G!Expected(a, e) = ErrorAt(a, e)
    BY <1>2, InFileFacts, ExpectedIs, Zenon
  <2> QED
    BY <1>1, <1>2, <1>3, <2>1, InFileCalls, ErrorReported, Zenon
<1>5. PlaceOK(a, e, m)'
  BY <1>1, <1>2, <1>3, <1>4, InFileFacts, CommandKept, Zenon DEF PlaceOK
<1> QED
  BY <1>1, <1>2, <1>5, InFileFacts, Stays

LEMMA StatReports ==
  ASSUME NEW a, NEW e, NEW m, At(a, e, m), G!Stat
  PROVE  gpc' \in {"next", "map"} /\ PlaceInv'
<1> DEFINE failed == G!File.fails = "stat"
           short == command.offset >= G!filesize
<1>1. /\ gpc = "stat" /\ gpc' = IF failed \/ short THEN "next" ELSE "map"
      /\ failed => G!OnError
      /\ ~failed => reports' = reports
      /\ arg' = arg /\ entry' = entry /\ matches' = matches /\ command' = command
  BY DEF G!Stat, G!Goto
<1>2. InFile
  BY <1>1 DEF InFile
<1>3. reports = Before(a, e) /\ G!File.fails # "open"
  BY <1>1, <1>2, InFileFacts DEF At, PlaceOK
<1>4. failed => reports' = Before(a, e + 1)
  <2>1. failed => G!Expected(a, e) = ErrorAt(a, e)
    BY <1>2, InFileFacts, ExpectedIs, Zenon
  <2> QED
    BY <1>1, <1>2, <1>3, <2>1, InFileCalls, ErrorReported, Zenon
<1>5. ~failed /\ short => reports' = Before(a, e + 1)
  <2>1. ~failed /\ short => G!Expected(a, e) = <<>>
    BY <1>2, <1>3, InFileFacts, ExpectedIs, ZenonT(60)
  <2>2. Before(a, e) \o <<>> = Before(a, e)
    BY <1>2, InFileCalls, ConcatEmptySeq
  <2> QED
    BY <1>1, <1>2, <1>3, <2>1, <2>2, InFileCalls, Zenon
<1>6. ~short => command.offset < Len(Pieces(a)[e].data)
  BY <1>2, InFileFacts
<1>7. PlaceOK(a, e, m)'
  BY <1>1, <1>2, <1>3, <1>4, <1>5, <1>6, InFileFacts, CommandKept, Zenon DEF PlaceOK
<1> QED
  BY <1>1, <1>2, <1>7, InFileFacts, Stays

-----------------------------------------------------------------------------
LEMMA MapReports ==
  ASSUME NEW a, NEW e, NEW m, At(a, e, m), G!Map
  PROVE  gpc' \in {"next", "scan"} /\ PlaceInv'
<1> DEFINE failed == G!File.fails = "map"
<1>1. /\ gpc = "map" /\ gpc' = IF failed THEN "next" ELSE "scan"
      /\ failed => G!OnError
      /\ ~failed => reports' = reports
      /\ arg' = arg /\ entry' = entry /\ command' = command /\ pos' = 0 /\ matches' = 0
  BY DEF G!Map, G!Goto
<1>2. InFile
  BY <1>1 DEF InFile
<1>3. /\ reports = Before(a, e) /\ G!File.fails \notin {"open", "stat"}
      /\ command.offset < Len(Pieces(a)[e].data) /\ ~(command.offset >= Len(Pieces(a)[e].data))
  <2>1. /\ reports = Before(a, e) /\ G!File.fails \notin {"open", "stat"}
        /\ command.offset < Len(Pieces(a)[e].data)
    BY <1>1, <1>2, InFileFacts DEF At, PlaceOK
  <2>2. command.offset \in Nat /\ Len(Pieces(a)[e].data) \in Nat
    BY <1>2, InFileFacts
  <2> QED
    BY <2>1, <2>2
<1>4. failed => reports' = Before(a, e + 1)
  <2>1. failed => G!Expected(a, e) = ErrorAt(a, e)
    BY <1>2, <1>3, InFileFacts, ExpectedIs
  <2> QED
    BY <1>1, <1>2, <1>3, <2>1, InFileCalls, ErrorReported, Zenon
<1>5. ~failed => ScanOK(a, e, 0)'
  <2>1. Cardinality(Below(G!Places(a, e), command.offset + 0)) = 0
    <3>1. Below(G!Places(a, e), command.offset + 0) = {}
      <4>1. \A q \in G!Places(a, e) : ~(q < command.offset + 0)
        <5>1. /\ command.offset \in Nat /\ Len(Pieces(a)[e].data) \in Nat
              /\ Len(G!Meant) \in Nat
              /\ G!Places(a, e) \subseteq command.offset .. Len(Pieces(a)[e].data) - Len(G!Meant)
          BY <1>2, InFileFacts, PlacesFacts, MeantType, Zenon
        <5> TAKE q \in G!Places(a, e)
        <5>2. q \in command.offset .. Len(Pieces(a)[e].data) - Len(G!Meant)
          BY <5>1, Zenon
        <5> HIDE DEF failed
        <5> QED
          BY <5>1, <5>2
      <4> QED
        BY <4>1 DEF Below
    <3> QED
      BY <3>1, FS_EmptySet
  <2>2. 0 < G!max_matches
    BY <1>2, InFileFacts, CommandFacts
  <2>3. Before(a, e) = Before(a, e) \o G!FirstMatches(a, e, 0)
    <3>1. G!FirstMatches(a, e, 0) = <<>>
      BY DEF G!FirstMatches
    <3> QED
      BY <1>2, <3>1, InFileCalls, ConcatEmptySeq
  <2>4. /\ G!Places(a, e)' = G!Places(a, e) /\ G!max_matches' = G!max_matches
        /\ Before(a, e)' = Before(a, e) /\ G!FirstMatches(a, e, 0)' = G!FirstMatches(a, e, 0)
    BY <1>1, CommandKept
  <2>5. G!max_matches \in Nat
    BY <1>2, InFileFacts, CommandFacts
  <2> QED
    BY <1>1, <1>3, <2>1, <2>2, <2>3, <2>4, <2>5 DEF ScanOK
<1>6. PlaceOK(a, e, 0)'
  BY <1>1, <1>2, <1>3, <1>4, <1>5, InFileFacts, CommandKept, Zenon DEF PlaceOK
<1> QED
  BY <1>1, <1>2, <1>6, InFileFacts, Stays

LEMMA UnmapReports ==
  ASSUME NEW a, NEW e, NEW m, At(a, e, m), G!Unmap
  PROVE  gpc' = "next" /\ PlaceInv'
<1> DEFINE failed == G!File.fails = "unmap"
<1>1. /\ gpc = "unmap" /\ gpc' = "next"
      /\ failed => G!OnError
      /\ ~failed => reports' = reports
      /\ arg' = arg /\ entry' = entry /\ matches' = matches /\ command' = command
  BY DEF G!Unmap, G!Goto
<1>2. InFile
  BY <1>1 DEF InFile
<1>3. /\ reports = Before(a, e) \o Whole(a, e) /\ G!File.fails \notin {"open", "stat", "map"}
      /\ ~(command.offset >= Len(Pieces(a)[e].data))
  <2>1. /\ reports = Before(a, e) \o Whole(a, e) /\ G!File.fails \notin {"open", "stat", "map"}
        /\ command.offset < Len(Pieces(a)[e].data)
    BY <1>1, <1>2, InFileFacts, Zenon DEF At, PlaceOK
  <2>2. command.offset \in Nat /\ Len(Pieces(a)[e].data) \in Nat
    BY <1>2, InFileFacts
  <2> QED
    BY <2>1, <2>2
<1>4. G!Expected(a, e) = IF failed THEN Whole(a, e) \o ErrorAt(a, e) ELSE Whole(a, e)
  <2> DEFINE f == Pieces(a)[e]
  <2>1. f.fails \notin {"open", "stat", "map"} /\ ~(command.offset >= Len(f.data))
    BY <1>2, <1>3, InFileFacts
  <2>2. G!Expected(a, e) =
              IF f.fails \in {"open", "stat"} THEN ErrorAt(a, e)
              ELSE IF command.offset >= Len(f.data) THEN <<>>
              ELSE IF f.fails = "map" THEN ErrorAt(a, e)
              ELSE IF f.fails = "unmap" THEN Whole(a, e) \o ErrorAt(a, e)
              ELSE Whole(a, e)
    BY <1>2, InFileFacts, ExpectedIs, Zenon
  <2>3. failed <=> f.fails = "unmap"
    BY <1>2, InFileFacts
  <2> HIDE DEF f, failed
  <2> QED
    BY <2>1, <2>2, <2>3
<1>5. failed => reports' = (Before(a, e) \o Whole(a, e)) \o ErrorAt(a, e)
  <2>1. reports \in Seq(Calls)
    BY <1>2, <1>3, InFileCalls, ConcatProperties
  <2> QED
    BY <1>1, <1>2, <1>3, <2>1, ErrorReported
<1>6. reports' = Before(a, e + 1)
  <2> HIDE DEF failed
  <2>1. (Before(a, e) \o Whole(a, e)) \o ErrorAt(a, e)
          = Before(a, e) \o (Whole(a, e) \o ErrorAt(a, e))
    <3>1. /\ Before(a, e) \in Seq(Calls) /\ Whole(a, e) \in Seq(Calls)
          /\ ErrorAt(a, e) \in Seq(Calls)
      BY <1>2, InFileCalls
    <3> QED
      BY <3>1, CallsAssociative, Zenon
  <2> QED
    BY <1>1, <1>2, <1>3, <1>4, <1>5, <2>1, InFileCalls, Zenon
<1>7. PlaceOK(a, e, m)'
  BY <1>1, <1>2, <1>6, InFileFacts, CommandKept, Zenon DEF PlaceOK
<1> QED
  BY <1>1, <1>2, <1>7, InFileFacts, Stays

LEMMA NextEntryReports ==
  ASSUME NEW a, NEW e, NEW m, At(a, e, m), G!NextEntry
  PROVE  gpc' \in {"open", "main"} /\ PlaceInv'
<1>1. /\ gpc = "next" /\ arg = a /\ entry = e /\ matches' = m
      /\ reports' = reports /\ command' = command
      /\ \/ e < Len(Pieces(a)) /\ entry' = e + 1 /\ gpc' = "open" /\ arg' = a
         \/ e >= Len(Pieces(a)) /\ arg' = a + 1 /\ gpc' = "main" /\ entry' = e
  BY DEF G!NextEntry, At, G!Entries, G!Arguments, Pieces
<1>2. /\ command \in Commands /\ a \in 1 .. Len(command.args)
      /\ \/ Pieces(a) = <<>> /\ e = 1 /\ reports = Ahead(a)
         \/ e \in 1 .. Len(Pieces(a)) /\ reports = Before(a, e + 1)
  BY <1>1 DEF At, PlaceOK
<1>3. Len(command.args) \in Nat /\ Len(Pieces(a)) \in Nat
  BY <1>2, CommandFacts, PieceFacts
<1>4. \A b, f : Before(b, f)' = Before(b, f) /\ Ahead(b)' = Ahead(b) /\ Pieces(b)' = Pieces(b)
  BY <1>1, CommandKept
<1>5. SUFFICES ASSUME NEW b, NEW f, NEW k, arg' = b, entry' = f, matches' = k
               PROVE  PlaceOK(b, f, k)'
  BY <1>1 DEF PlaceInv
<1>6. CASE e < Len(Pieces(a)) /\ entry' = e + 1 /\ gpc' = "open" /\ arg' = a
  <2>1. e \in 1 .. Len(Pieces(a)) /\ reports = Before(a, e + 1)
    BY <1>2, <1>3, <1>6
  <2>2. e + 1 \in 1 .. Len(Pieces(a))
    BY <1>3, <1>6, <2>1
  <2>3. b = a /\ f = e + 1
    BY <1>5, <1>6
  <2> QED
    BY <1>1, <1>2, <1>4, <1>6, <2>1, <2>2, <2>3 DEF PlaceOK
<1>7. CASE e >= Len(Pieces(a)) /\ arg' = a + 1 /\ gpc' = "main" /\ entry' = e
  <2>1. reports = Ahead(a + 1)
    <3>1. CASE Pieces(a) = <<>> /\ e = 1 /\ reports = Ahead(a)
      BY <1>2, <3>1, BeforeEnds
    <3>2. CASE e \in 1 .. Len(Pieces(a)) /\ reports = Before(a, e + 1)
      <4>1. e = Len(Pieces(a))
        BY <1>3, <1>7, <3>2
      <4> QED
        BY <1>2, <3>2, <4>1, BeforeEnds
    <3> QED
      BY <1>2, <3>1, <3>2
  <2>2. a + 1 \in 1 .. Len(command.args) + 1
    BY <1>2, <1>3
  <2>3. b = a + 1
    BY <1>5, <1>7
  <2> QED
    BY <1>1, <1>4, <1>7, <2>1, <2>2, <2>3 DEF PlaceOK
<1> QED
  BY <1>1, <1>6, <1>7

-----------------------------------------------------------------------------
LEMMA ScanFacts ==
  ASSUME NEW a, NEW e, NEW m, At(a, e, m), gpc = "scan"
  PROVE  /\ InFile /\ Searching(a, e) /\ ScanOK(a, e, m)
         /\ command \in Commands /\ a \in 1 .. Len(command.args) /\ e \in 1 .. Len(Pieces(a))
         /\ m \in Nat /\ pos \in Nat /\ command.offset \in Nat /\ G!max_matches \in Nat \ {0}
         /\ G!Places(a, e) \in SUBSET Nat /\ IsFiniteSet(G!Places(a, e))
         /\ Cardinality(G!Places(a, e)) \in Nat /\ m <= Cardinality(G!Places(a, e))
<1>1. InFile
  BY DEF InFile
<1>2. command \in Commands /\ a \in 1 .. Len(command.args) /\ e \in 1 .. Len(Pieces(a))
  BY <1>1, InFileFacts
<1>3. Searching(a, e) /\ ScanOK(a, e, m)
  BY <1>2 DEF At, PlaceOK, Searching
<1>4. command.offset \in Nat /\ G!max_matches \in Nat \ {0}
  BY <1>2, CommandFacts
<1>5. /\ G!Places(a, e) \in SUBSET Nat /\ IsFiniteSet(G!Places(a, e))
      /\ Cardinality(G!Places(a, e)) \in Nat
  BY <1>2, PlacesFacts, Zenon
<1>6. Below(G!Places(a, e), command.offset + pos) \in SUBSET G!Places(a, e)
  BY DEF Below
<1>7. m \in Nat /\ m <= Cardinality(G!Places(a, e))
  BY <1>3, <1>5, <1>6, FS_Subset, BelowFinite DEF ScanOK
<1>8. pos \in Nat
  BY <1>3 DEF ScanOK
<1> QED
  BY <1>1, <1>2, <1>3, <1>4, <1>5, <1>7, <1>8

(* When the loop is left, the matches that were counted are all that the    *)
(* entry is to report.                                                      *)
LEMMA AllFound ==
  ASSUME NEW a, NEW e, NEW m, At(a, e, m), gpc = "scan",
         NEW k \in Nat, k <= G!max_matches, k <= Cardinality(G!Places(a, e)),
         k = Cardinality(G!Places(a, e)) \/ k = G!max_matches
  PROVE  Whole(a, e) = G!FirstMatches(a, e, k)
<1>1. Cardinality(G!Places(a, e)) \in Nat /\ G!max_matches \in Nat
  BY ScanFacts
<1>2. WholeCount(a, e) = k
  BY <1>1 DEF WholeCount
<1> QED
  BY <1>2 DEF Whole

LEMMA PlacesBehind ==
  ASSUME NEW a, NEW e, NEW m, At(a, e, m), gpc = "scan",
         \A q \in G!Places(a, e) : q < command.offset + pos
  PROVE  m = Cardinality(G!Places(a, e))
<1>1. Below(G!Places(a, e), command.offset + pos) = G!Places(a, e)
  BY Zenon DEF Below
<1> QED
  BY <1>1, ScanFacts DEF ScanOK

(* A match that is reported is the next of the places.                      *)
LEMMA MatchReported ==
  ASSUME NEW a, NEW e, NEW m, At(a, e, m), gpc = "scan", NEW p \in Nat, pos <= p,
         command.offset + p \in G!Places(a, e),
         \A q \in G!Places(a, e) : q < command.offset + p => q < command.offset + pos,
         G!OnMatch(command.offset + p)
  PROVE  /\ reports' = Before(a, e) \o G!FirstMatches(a, e, m + 1)
         /\ Cardinality(Below(G!Places(a, e), command.offset + (p + 1))) = m + 1
         /\ m + 1 <= Cardinality(G!Places(a, e))
<1> DEFINE places == G!Places(a, e)
           o == command.offset
<1>1. /\ InFile /\ command \in Commands /\ a \in 1 .. Len(command.args)
      /\ e \in 1 .. Len(Pieces(a))
      /\ m \in Nat /\ pos \in Nat /\ o \in Nat
      /\ places \in SUBSET Nat /\ IsFiniteSet(places) /\ Cardinality(places) \in Nat
      /\ m = Cardinality(Below(places, o + pos))
      /\ reports = Before(a, e) \o G!FirstMatches(a, e, m)
  BY ScanFacts, Zenon DEF ScanOK
<1>2. G!Here = <<a, e>>
  BY <1>1, InFileFacts
<1>3. reports' = Append(reports, [call |-> "OnMatch", at |-> <<a, e>>, offset |-> o + p])
  BY <1>2 DEF G!OnMatch
<1> HIDE DEF places, o
<1>4. Below(places, o + p) = Below(places, o + pos)
  <2>1. \A q \in places : q < o + pos => q < o + p
    BY <1>1
  <2>2. \A q \in places : q < o + p => q < o + pos
    BY DEF places, o
  <2> QED
    BY <2>1, <2>2, Zenon DEF Below
<1>5. G!Nth(places, m + 1) = o + p
  BY <1>1, <1>4, NthIs, Zenon DEF places, o
<1>6. Cardinality(Below(places, o + (p + 1))) = m + 1
  <2>1. o + (p + 1) = (o + p) + 1 /\ o + p \in Nat
    BY <1>1
  <2>2. o + p \in places
    BY DEF o, places
  <2> QED
    BY <1>1, <1>4, <2>1, <2>2, BelowNext, Zenon
<1>7. m + 1 <= Cardinality(places)
  <2>1. Below(places, o + (p + 1)) \in SUBSET places
    BY DEF Below
  <2> QED
    BY <1>1, <1>6, <2>1, FS_Subset
<1>8. reports' = Before(a, e) \o G!FirstMatches(a, e, m + 1)
  <2> DEFINE x == [call |-> "OnMatch", at |-> <<a, e>>, offset |-> o + p]
             before == Before(a, e)
             first == G!FirstMatches(a, e, m)
  <2>1. before \in Seq(Calls) /\ first \in Seq(Calls)
    BY <1>1, InFileCalls, FirstMatchesType, Zenon
  <2>2. x \in Calls
    <3>1. <<a, e>> \in Nat \X Nat
      BY <1>1, CommandFacts, PieceFacts, SMTT(30)
    <3>2. o + p \in Offsets
      <4>1. <<places, m + 1>> \in (SUBSET Nat) \X Nat
        <5>1. m + 1 \in Nat /\ places \in SUBSET Nat
          BY <1>1
        <5> QED
          BY <5>1, Zenon
      <4> QED
        BY <1>5, <4>1 DEF Offsets
    <3> QED
      BY <3>1, <3>2 DEF Calls
  <2>3. G!FirstMatches(a, e, m + 1) = Append(first, x)
    BY <1>1, <1>5, FirstMatchesType, Zenon DEF places
  <2> HIDE DEF x, before, first
  <2>4. Append(before \o first, x) = before \o Append(first, x)
    <3>1. <<x>> \in Seq(Calls) /\ before \o first \in Seq(Calls)
      BY <2>1, <2>2, ConcatProperties
    <3>2. Append(before \o first, x) = (before \o first) \o <<x>>
      BY <2>2, <3>1, AppendIsConcat, Zenon
    <3>3. Append(first, x) = first \o <<x>>
      BY <2>1, <2>2, AppendIsConcat, Zenon
    <3>4. (before \o first) \o <<x>> = before \o (first \o <<x>>)
      BY <2>1, <3>1, CallsAssociative, Zenon
    <3> QED
      BY <3>2, <3>3, <3>4, Zenon
  <2> QED
    BY <1>1, <1>3, <2>3, <2>4, Zenon DEF x, before, first
<1> QED
  BY <1>6, <1>7, <1>8 DEF places, o

-----------------------------------------------------------------------------
LEMMA BruteReports ==
  ASSUME NEW a, NEW e, NEW m, At(a, e, m), G!Brute
  PROVE  gpc' \in {"scan", "unmap"} /\ PlaceInv'
<1> DEFINE places == G!Places(a, e)
           o == command.offset
<1>1. /\ gpc = "scan" /\ ~G!UsesSearcher /\ pos + Len(G!Parsed) <= Len(G!Data)
      /\ \/ /\ G!Matches(G!Data, pos) /\ G!OnMatch(o + pos)
            /\ matches' = m + 1 /\ gpc' = IF m + 1 >= G!max_matches THEN "unmap" ELSE "scan"
         \/ /\ ~G!Matches(G!Data, pos)
            /\ gpc' = "scan" /\ reports' = reports /\ matches' = m
      /\ pos' = pos + 1 /\ arg' = arg /\ entry' = entry /\ command' = command
  BY DEF G!Brute, G!Scanning, At
<1>2. /\ Searching(a, e) /\ ScanOK(a, e, m)
      /\ m \in Nat /\ pos \in Nat /\ o \in Nat /\ G!max_matches \in Nat \ {0}
      /\ places \in SUBSET Nat /\ IsFiniteSet(places)
      /\ a \in 1 .. Len(command.args) /\ e \in 1 .. Len(Pieces(a))
  BY <1>1, ScanFacts
<1>3. G!Matches(G!Data, pos) <=> o + pos \in places
  BY <1>1, <1>2, SearchFacts, Zenon
<1>4. \A n : /\ Pieces(a)' = Pieces(a) /\ Before(a, e)' = Before(a, e) /\ Whole(a, e)' = Whole(a, e)
             /\ G!Places(a, e)' = places /\ G!max_matches' = G!max_matches
             /\ (G!UsesSearcher' <=> G!UsesSearcher)
             /\ G!FirstMatches(a, e, n)' = G!FirstMatches(a, e, n)
  BY <1>1, CommandKept
<1>5. m < G!max_matches /\ m = Cardinality(Below(places, o + pos))
      /\ reports = Before(a, e) \o G!FirstMatches(a, e, m)
  BY <1>1, <1>2 DEF ScanOK
<1> HIDE DEF places, o
<1>6. ASSUME NEW k, matches' = k, gpc' = "scan" => ScanOK(a, e, k)', gpc' \in {"scan", "unmap"},
             gpc' = "unmap" => reports' = Before(a, e) \o Whole(a, e)
      PROVE  PlaceInv'
  <2>1. PlaceOK(a, e, k)'
    BY <1>1, <1>2, <1>4, <1>6, Zenon DEF PlaceOK, At, o
  <2> QED
    BY <1>1, <1>6, <2>1, Stays
<1>7. CASE G!Matches(G!Data, pos)
  <2>1. /\ reports' = Before(a, e) \o G!FirstMatches(a, e, m + 1)
        /\ Cardinality(Below(places, o + (pos + 1))) = m + 1
        /\ m + 1 <= Cardinality(places)
    <3>1. /\ pos \in Nat /\ pos <= pos /\ command.offset + pos \in G!Places(a, e)
          /\ G!OnMatch(command.offset + pos)
      BY <1>1, <1>2, <1>3, <1>7 DEF places, o
    <3> QED
      BY <1>1, <3>1, MatchReported DEF places, o
  <2>2. m + 1 \in Nat /\ m + 1 <= G!max_matches
    BY <1>2, <1>5
  <2>3. ~(m + 1 >= G!max_matches) => m + 1 < G!max_matches
    BY <1>2
  <2>4. gpc' = "scan" => ScanOK(a, e, m + 1)'
    <3>1. /\ pos' = pos + 1 /\ pos + 1 \in Nat /\ command' = command
          /\ gpc' = "scan" => m + 1 < G!max_matches
      BY <1>1, <1>2, <1>7, <2>3
    <3> QED
      BY <1>4, <2>1, <2>2, <3>1, Zenon DEF ScanOK, o
  <2>5. gpc' = "unmap" => Whole(a, e) = G!FirstMatches(a, e, m + 1)
    <3>1. m + 1 >= G!max_matches => m + 1 = G!max_matches
      BY <1>2, <2>2
    <3> QED
      BY <1>1, <1>7, <2>1, <2>2, <3>1, AllFound DEF places
  <2> QED
    BY <1>1, <1>6, <1>7, <2>1, <2>4, <2>5, Zenon
<1>8. CASE ~G!Matches(G!Data, pos)
  <2>1. Cardinality(Below(places, o + (pos + 1))) = m
    <3>1. o + pos \in Nat /\ o + (pos + 1) = (o + pos) + 1 /\ m + 0 = m
      BY <1>2
    <3> QED
      BY <1>2, <1>3, <1>5, <1>8, <3>1, BelowNext
  <2>2. ScanOK(a, e, m)'
    <3>1. /\ pos' = pos + 1 /\ pos + 1 \in Nat /\ command' = command /\ reports' = reports
          /\ m <= G!max_matches
      BY <1>1, <1>2, <1>5, <1>8
    <3> QED
      BY <1>4, <1>5, <2>1, <3>1, Zenon DEF ScanOK, o
  <2> QED
    BY <1>1, <1>6, <1>8, <2>2
<1> QED
  BY <1>1, <1>7, <1>8

LEMMA LoopLeft ==
  ASSUME NEW a, NEW e, NEW m, At(a, e, m), gpc = "scan", gpc' = "unmap",
         m = Cardinality(G!Places(a, e)) \/ m = G!max_matches,
         UNCHANGED <<reports, matches, command, arg, entry>>
  PROVE  PlaceInv'
<1>1. ScanOK(a, e, m) /\ m \in Nat /\ m <= Cardinality(G!Places(a, e)) /\ m <= G!max_matches
  BY ScanFacts DEF ScanOK
<1>2. Whole(a, e) = G!FirstMatches(a, e, m)
  BY <1>1, AllFound
<1>3. reports' = Before(a, e) \o Whole(a, e)
  BY <1>1, <1>2 DEF ScanOK
<1>4. Pieces(a)' = Pieces(a) /\ Before(a, e)' = Before(a, e) /\ Whole(a, e)' = Whole(a, e)
  BY CommandKept
<1>5. PlaceOK(a, e, m)'
  BY <1>3, <1>4 DEF PlaceOK, At
<1> QED
  BY <1>5, Stays DEF At

LEMMA BruteEndReports ==
  ASSUME NEW a, NEW e, NEW m, At(a, e, m), G!BruteEnd
  PROVE  gpc' = "unmap" /\ PlaceInv'
<1>1. /\ gpc = "scan" /\ gpc' = "unmap" /\ ~(pos + Len(G!Parsed) <= Len(G!Data))
      /\ UNCHANGED <<reports, matches, command, arg, entry>>
  <2>1. /\ gpc = "scan" /\ gpc' = "unmap" /\ pos + Len(G!Parsed) > Len(G!Data)
        /\ UNCHANGED <<reports, matches, command, arg, entry>>
    BY DEF G!BruteEnd, G!Scanning
  <2>2. pos \in Nat /\ Len(G!Parsed) \in Nat /\ Len(G!Data) \in Nat
    BY <2>1, ScanFacts, SearchFacts
  <2> QED
    BY <2>1, <2>2
<1>2. \A q \in G!Places(a, e) : q < command.offset + pos
  <2>1. /\ command \in Commands /\ a \in 1 .. Len(command.args) /\ e \in 1 .. Len(Pieces(a))
        /\ Searching(a, e) /\ pos \in Nat /\ command.offset \in Nat
    BY <1>1, ScanFacts
  <2>2. /\ G!Places(a, e) \subseteq command.offset .. Len(Pieces(a)[e].data) - Len(G!Meant)
        /\ Len(Pieces(a)[e].data) \in Nat
    BY <2>1, PlacesFacts, PieceFacts, Zenon
  <2>3. /\ Len(G!Parsed) = Len(G!Meant) /\ Len(G!Parsed) \in Nat
        /\ Len(G!Data) = Len(Pieces(a)[e].data) - command.offset /\ Len(G!Data) \in Nat
    BY <2>1, SearchFacts
  <2> TAKE q \in G!Places(a, e)
  <2>4. q \in command.offset .. Len(Pieces(a)[e].data) - Len(G!Meant)
    BY <2>2, Zenon
  <2> DEFINE len == Len(Pieces(a)[e].data)
             size == Len(G!Parsed)
             rest == Len(G!Data)
             o == command.offset
  <2>5. /\ q \in o .. len - size /\ len \in Nat /\ size \in Nat /\ o \in Nat /\ pos \in Nat
        /\ rest = len - o /\ ~(pos + size <= rest)
    BY <1>1, <2>1, <2>2, <2>3, <2>4
  <2> HIDE DEF len, size, rest, o
  <2>6. q < o + pos
    BY <2>5
  <2> QED
    BY <2>6 DEF o
<1>3. m = Cardinality(G!Places(a, e))
  BY <1>1, <1>2, PlacesBehind
<1> QED
  BY <1>1, <1>3, LoopLeft

LEMMA BoyerMooreReports ==
  ASSUME NEW a, NEW e, NEW m, At(a, e, m), G!BoyerMoore
  PROVE  gpc' = "scan" /\ PlaceInv'
<1>0. PICK p : p = G!Found(pos)
  OBVIOUS
<1>1. /\ gpc = "scan" /\ gpc' = "scan" /\ G!UsesSearcher
      /\ p # Len(G!Data) /\ m < G!max_matches
      /\ G!OnMatch(command.offset + p) /\ matches' = m + 1 /\ pos' = p + 1
      /\ arg' = arg /\ entry' = entry /\ command' = command
  BY <1>0 DEF G!BoyerMoore, G!Scanning, At
<1>2. /\ Searching(a, e) /\ ScanOK(a, e, m)
      /\ m \in Nat /\ pos \in Nat /\ G!max_matches \in Nat \ {0}
      /\ a \in 1 .. Len(command.args) /\ e \in 1 .. Len(Pieces(a))
  BY <1>1, ScanFacts
<1>3. /\ p \in Nat /\ pos <= p /\ command.offset + p \in G!Places(a, e)
      /\ \A q \in G!Places(a, e) : q < command.offset + p => q < command.offset + pos
  BY <1>0, <1>1, <1>2, FoundIs
<1>4. /\ reports' = Before(a, e) \o G!FirstMatches(a, e, m + 1)
      /\ Cardinality(Below(G!Places(a, e), command.offset + (p + 1))) = m + 1
  <2>1. gpc = "scan" /\ G!OnMatch(command.offset + p)
    BY <1>1
  <2>2. /\ p \in Nat /\ pos <= p /\ command.offset + p \in G!Places(a, e)
        /\ \A q \in G!Places(a, e) : q < command.offset + p => q < command.offset + pos
    BY <1>3
  <2> QED
    BY <2>1, <2>2, MatchReported
<1>5. /\ Pieces(a)' = Pieces(a) /\ Before(a, e)' = Before(a, e)
      /\ G!Places(a, e)' = G!Places(a, e) /\ G!max_matches' = G!max_matches
      /\ (G!UsesSearcher' <=> G!UsesSearcher)
      /\ G!FirstMatches(a, e, m + 1)' = G!FirstMatches(a, e, m + 1)
  BY <1>1, CommandKept, Zenon
<1>6. m + 1 <= G!max_matches /\ p + 1 \in Nat
  BY <1>1, <1>2, <1>3
<1>7. ScanOK(a, e, m + 1)'
  BY <1>1, <1>4, <1>5, <1>6, Zenon DEF ScanOK
<1>8. PlaceOK(a, e, m + 1)'
  BY <1>1, <1>2, <1>5, <1>7 DEF PlaceOK, At
<1> QED
  BY <1>1, <1>8, Stays

LEMMA BoyerMooreEndReports ==
  ASSUME NEW a, NEW e, NEW m, At(a, e, m), G!BoyerMooreEnd
  PROVE  gpc' = "unmap" /\ PlaceInv'
<1>1. /\ gpc = "scan" /\ gpc' = "unmap" /\ UNCHANGED <<reports, matches, command, arg, entry>>
      /\ G!Found(pos) = Len(G!Data) \/ m >= G!max_matches
  BY DEF G!BoyerMooreEnd, G!Scanning, At
<1>2. /\ Searching(a, e) /\ pos \in Nat /\ m \in Nat /\ G!max_matches \in Nat
      /\ m <= G!max_matches
  BY <1>1, ScanFacts DEF ScanOK
<1>3. CASE G!Found(pos) = Len(G!Data)
  <2>1. \A q \in G!Places(a, e) : q < command.offset + pos
    BY <1>2, <1>3, FoundIs
  <2>2. m = Cardinality(G!Places(a, e))
    BY <1>1, <2>1, PlacesBehind
  <2> QED
    BY <1>1, <2>2, LoopLeft
<1>4. CASE m >= G!max_matches
  <2>1. m = G!max_matches
    BY <1>2, <1>4
  <2> QED
    BY <1>1, <2>1, LoopLeft
<1> QED
  BY <1>1, <1>3, <1>4

-----------------------------------------------------------------------------
ReportsInv ==
    /\ command \in Commands
    /\ IF G!Malformed # {}
         THEN /\ gpc \in {"main", "exit"} /\ reports = <<>> /\ arg = 1
              /\ gpc = "exit" /\ status = 0 => Len(command.args) = 0
       ELSE IF gpc = "exit"
         THEN PartOf(reports) /\ reports \in Seq(Calls) /\ (status = 0 => reports = G!AllExpected)
       ELSE gpc \in {"main", "open", "stat", "map", "scan", "unmap", "next"} /\ PlaceInv

(* Wherever bin-grep is, what it has reported is the beginning of what it   *)
(* is to report.                                                            *)
LEMMA PlaceReports ==
  ASSUME NEW a, NEW e, NEW m, At(a, e, m),
         gpc \in {"main", "open", "stat", "map", "scan", "unmap", "next"}
  PROVE  reports \in Seq(Calls) /\ PartOf(reports)
<1>0. command \in Commands /\ PlaceOK(a, e, m)
  BY DEF At
<1>1. Len(command.args) \in Nat
  BY <1>0, CommandFacts
<1>2. CASE gpc = "main"
  BY <1>0, <1>2, BeforePart DEF PlaceOK
<1>3. CASE gpc \in {"open", "stat", "map"}
  <2>1. InFile
    BY <1>3 DEF InFile
  <2>2. reports = Before(a, e) /\ a # Len(command.args) + 1 /\ a \in 1 .. Len(command.args) + 1
    BY <1>0, <1>1, <1>3, <2>1, InFileFacts DEF PlaceOK
  <2> QED
    BY <1>0, <2>1, <2>2, InFileFacts, BeforePart
<1>4. CASE gpc = "next"
  <2>1. a \in 1 .. Len(command.args) + 1 /\ a # Len(command.args) + 1
    BY <1>0, <1>1, <1>4 DEF PlaceOK
  <2>2. CASE reports = Ahead(a)
    BY <1>0, <2>1, <2>2, BeforePart
  <2>3. CASE e \in 1 .. Len(Pieces(a)) /\ reports = Before(a, e + 1)
    <3>1. a \in 1 .. Len(command.args)
      BY <1>1, <2>1
    <3> QED
      BY <1>0, <2>3, <3>1, BeforeFacts, Zenon DEF PartOf
  <2> QED
    BY <1>0, <1>4, <2>2, <2>3 DEF PlaceOK
<1>5. CASE gpc \in {"scan", "unmap"}
  <2>1. InFile
    BY <1>5 DEF InFile
  <2> DEFINE before == Before(a, e)
             whole == Whole(a, e)
             error == ErrorAt(a, e)
             first == G!FirstMatches(a, e, m)
  <2>2. /\ before \in Seq(Calls) /\ whole \in Seq(Calls) /\ error \in Seq(Calls)
        /\ PartOf(before \o G!Expected(a, e))
        /\ a \in 1 .. Len(command.args) /\ e \in 1 .. Len(Pieces(a))
    <3>1. a \in 1 .. Len(command.args) /\ e \in 1 .. Len(Pieces(a))
      BY <2>1, InFileFacts
    <3> QED
      BY <1>0, <2>1, <3>1, InFileCalls, BeforeFacts, Zenon DEF PartOf
  <2>3. G!Expected(a, e) \in {whole, whole \o error}
    <3>1. /\ Pieces(a)[e].fails \notin {"open", "stat", "map"}
          /\ command.offset < Len(Pieces(a)[e].data)
      BY <1>0, <1>5 DEF PlaceOK
    <3>2. ~(command.offset >= Len(Pieces(a)[e].data))
      BY <2>1, <3>1, InFileFacts
    <3> DEFINE f == Pieces(a)[e]
    <3>3. G!Expected(a, e) =
              IF f.fails \in {"open", "stat"} THEN error
              ELSE IF command.offset >= Len(f.data) THEN <<>>
              ELSE IF f.fails = "map" THEN error
              ELSE IF f.fails = "unmap" THEN whole \o error
              ELSE whole
      BY <1>0, <2>2, ExpectedIs, Zenon
    <3> HIDE DEF whole, error
    <3> QED
      BY <3>1, <3>2, <3>3
  <2>4. CASE gpc = "unmap"
    <3>1. reports = before \o whole
      BY <1>0, <2>4 DEF PlaceOK
    <3> HIDE DEF before, whole, error
    <3>2. before \o whole \in Seq(Calls)
      BY <2>2, ConcatProperties
    <3>3. PartOf(before \o whole)
      <4>1. CASE G!Expected(a, e) = whole
        BY <2>2, <4>1
      <4>2. CASE G!Expected(a, e) = whole \o error
        <5>1. before \o (whole \o error) = (before \o whole) \o error
          BY <2>2, CallsAssociative, Zenon
        <5> QED
          BY <2>2, <3>2, <4>2, <5>1, PartOfConcat, Zenon
      <4> QED
        BY <2>3, <4>1, <4>2
    <3> QED
      BY <3>1, <3>2, <3>3
  <2>5. CASE gpc = "scan"
    <3>1. /\ reports = before \o first /\ m \in Nat
          /\ m <= Cardinality(G!Places(a, e)) /\ m <= G!max_matches
          /\ Cardinality(G!Places(a, e)) \in Nat /\ G!max_matches \in Nat
      BY <2>5, ScanFacts DEF ScanOK
    <3>2. first \in Seq(Calls)
      BY <1>0, <2>2, <3>1, FirstMatchesType, Zenon
    <3>3. PICK t \in Seq(Calls) : whole = first \o t
      <4>1. WholeCount(a, e) \in Nat /\ m <= WholeCount(a, e)
        BY <3>1 DEF WholeCount
      <4> QED
        BY <1>0, <2>2, <3>1, <4>1, FirstMatchesPart, Zenon DEF Whole
    <3> HIDE DEF before, whole, error, first
    <3>4. PICK u \in Seq(Calls) : G!Expected(a, e) = first \o u
      <4>1. CASE G!Expected(a, e) = whole
        BY <3>3, <4>1
      <4>2. CASE G!Expected(a, e) = whole \o error
        <5>1. (first \o t) \o error = first \o (t \o error) /\ t \o error \in Seq(Calls)
          <6>1. (first \o t) \o error = first \o (t \o error)
            BY <2>2, <3>2, <3>3, CallsAssociative, Zenon
          <6>2. t \o error \in Seq(Calls)
            BY <2>2, <3>3, ConcatProperties, Zenon
          <6> QED
            BY <6>1, <6>2, Zenon
        <5> QED
          BY <3>3, <4>2, <5>1, Zenon
      <4> QED
        BY <2>3, <4>1, <4>2, Zenon
    <3>5. before \o (first \o u) = (before \o first) \o u /\ before \o first \in Seq(Calls)
      <4>1. before \o (first \o u) = (before \o first) \o u
        BY <2>2, <3>2, <3>4, CallsAssociative, SMTT(60)
      <4>2. before \o first \in Seq(Calls)
        BY <2>2, <3>2, ConcatProperties, Zenon
      <4> QED
        BY <4>1, <4>2, Zenon
    <3>6. PartOf(before \o first)
      BY <2>2, <3>4, <3>5, PartOfConcat, Zenon
    <3> QED
      BY <3>1, <3>5, <3>6
  <2> QED
    BY <1>5, <2>4, <2>5
<1> QED
  BY <1>2, <1>3, <1>4, <1>5

LEMMA ReportsInit == G!Init => ReportsInv
<1> SUFFICES ASSUME G!Init PROVE ReportsInv
  OBVIOUS
<1>1. command \in Commands /\ arg = 1 /\ reports = <<>> /\ gpc = "main"
  BY DEF G!Init
<1>2. PlaceInv
  <2>1. 1 \in 1 .. Len(command.args) + 1
    BY <1>1, CommandFacts
  <2>2. Ahead(1) = <<>>
    BY <1>1, AheadEnds
  <2> QED
    BY <1>1, <2>1, <2>2 DEF PlaceInv, PlaceOK
<1> QED
  BY <1>1, <1>2 DEF ReportsInv

LEMMA StopReports ==
  ASSUME NEW a, NEW e, NEW m, At(a, e, m),
         gpc \in {"main", "open", "stat", "map", "scan", "unmap", "next"},
         G!Return \/ G!Throws
  PROVE  /\ gpc' = "exit" /\ PartOf(reports)' /\ reports' \in Seq(Calls)
         /\ (status = 0 => reports = G!AllExpected)'
<1>1. gpc' = "exit" /\ command' = command /\ reports' = reports
  BY DEF G!Return, G!Throws, G!Exit
<1>2. G!AllExpected' = G!AllExpected
  BY <1>1, CommandKept
<1>3. PartOf(reports)' /\ reports' \in Seq(Calls)
  BY <1>1, <1>2, PlaceReports DEF PartOf
<1>4. CASE G!Throws
  BY <1>1, <1>3, <1>4 DEF G!Throws, G!Exit
<1>5. CASE G!Return
  <2>1. gpc = "main" /\ a > Len(command.args)
    BY <1>5 DEF G!Return, G!Arguments, At
  <2>2. /\ a \in 1 .. Len(command.args) + 1 /\ reports = Ahead(a) /\ command \in Commands
    BY <2>1 DEF At, PlaceOK
  <2>3. a = Len(command.args) + 1
    BY <2>1, <2>2, CommandFacts
  <2>4. reports = G!AllExpected
    BY <2>2, <2>3, AheadEnds
  <2> QED
    BY <1>1, <1>2, <1>3, <2>4
<1> QED
  BY <1>4, <1>5

LEMMA ReportsNext == ASSUME G!WholeTokens PROVE ReportsInv /\ [G!Next]_G!vars => ReportsInv'
<1> SUFFICES ASSUME ReportsInv, [G!Next]_G!vars PROVE ReportsInv'
  OBVIOUS
<1>1. CASE UNCHANGED G!vars
  <2>1. /\ command' = command /\ gpc' = gpc /\ reports' = reports /\ status' = status
        /\ arg' = arg /\ entry' = entry /\ matches' = matches /\ pos' = pos
    BY <1>1 DEF G!vars
  <2>2. G!Malformed' = G!Malformed /\ G!AllExpected' = G!AllExpected
    BY <2>1, CommandKept
  <2>3. ASSUME PlaceInv PROVE PlaceInv'
    <3> SUFFICES ASSUME NEW a, NEW e, NEW m, arg' = a, entry' = e, matches' = m
                 PROVE  PlaceOK(a, e, m)'
      BY DEF PlaceInv
    <3>1. PlaceOK(a, e, m)
      BY <2>1, <2>3 DEF PlaceInv
    <3> QED
      BY <2>1, <3>1, CommandKept, Zenon DEF PlaceOK, ScanOK
  <2> QED
    BY <2>1, <2>2, <2>3, Zenon DEF ReportsInv, PartOf
<1>2. CASE G!Next /\ G!Malformed # {}
  <2>1. gpc \in {"main", "exit"} /\ reports = <<>> /\ arg = 1 /\ command \in Commands
    BY <1>2 DEF ReportsInv
  <2>2. G!Return \/ G!Throws
    BY <1>2, <2>1 DEF G!Next, G!GrepImpl, G!Start, G!NextEntry, G!Open, G!Stat, G!Map, G!Brute,
         G!BruteEnd, G!BoyerMoore, G!BoyerMooreEnd, G!Unmap, G!Goto
  <2>3. gpc' = "exit" /\ command' = command /\ reports' = reports /\ arg' = arg
    BY <2>2 DEF G!Return, G!Throws, G!Exit
  <2>4. G!Malformed' = G!Malformed
    BY <2>3, CommandKept
  <2>5. status' = 0 => Len(command.args) = 0
    <3>1. CASE G!Throws
      BY <3>1 DEF G!Throws, G!Exit
    <3>2. CASE G!Return
      <4>1. 1 > Len(command.args) /\ Len(command.args) \in Nat
        BY <2>1, <3>2, CommandFacts DEF G!Return, G!Arguments
      <4> QED
        BY <4>1
    <3> QED
      BY <2>2, <3>1, <3>2
  <2> QED
    BY <1>2, <2>1, <2>3, <2>4, <2>5 DEF ReportsInv
<1>3. CASE G!Next /\ G!Malformed = {}
  <2>1. gpc # "exit"
    BY <1>3 DEF G!Next, G!GrepImpl, G!Return, G!Throws, G!Start, G!NextEntry, G!Open, G!Stat,
         G!Map, G!Brute, G!BruteEnd, G!BoyerMoore, G!BoyerMooreEnd, G!Unmap, G!Goto
  <2>2. command' = command
    BY <1>3 DEF G!Next, G!GrepImpl, G!Return, G!Throws, G!Start, G!NextEntry, G!Open, G!Stat,
         G!Map, G!Brute, G!BruteEnd, G!BoyerMoore, G!BoyerMooreEnd, G!Unmap, G!Scanning
  <2>3. G!Malformed' = {} /\ command' \in Commands
    BY <1>3, <2>2, CommandKept DEF ReportsInv
  <2>4. PICK a, e, m : arg = a /\ entry = e /\ matches = m
    OBVIOUS
  <2>5. At(a, e, m) /\ gpc \in {"main", "open", "stat", "map", "scan", "unmap", "next"}
    BY <1>3, <2>1, <2>4 DEF ReportsInv, PlaceInv, At
  <2>6. CASE G!Return \/ G!Throws
    BY <2>3, <2>5, <2>6, StopReports DEF ReportsInv
  <2>7. ASSUME G!Start \/ G!NextEntry \/ G!GrepImpl
        PROVE  gpc' \in {"main", "open", "stat", "map", "scan", "unmap", "next"} /\ PlaceInv'
    BY <2>5, <2>7, StartReports, NextEntryReports, OpenReports, StatReports, MapReports,
       BruteReports, BruteEndReports, BoyerMooreReports, BoyerMooreEndReports, UnmapReports
       DEF G!GrepImpl
  <2> QED
    BY <1>3, <2>3, <2>6, <2>7 DEF ReportsInv, G!Next
<1> QED
  BY <1>1, <1>2, <1>3

(* For every command line of whose tokens none is read as a byte in part,   *)
(* with any of the three searches: bin-grep reports the first max_matches   *)
(* places of every file and an error for every entry that cannot be read,   *)
(* in order and each once, and nothing for an incorrect pattern.            *)
THEOREM MatchesReported ==
  ASSUME G!WholeTokens
  PROVE  Spec => []GrepReports
<1> DEFINE Inv == job = "Grep" => ReportsInv
<1>1. Init => Inv
  BY ReportsInit DEF Init
<1>2. Inv /\ [Next]_vars => Inv'
  BY ReportsNext, StepOfJob
<1>3. Inv => GrepReports
  <2> SUFFICES ASSUME job = "Grep", ReportsInv PROVE G!GrepReports
    BY DEF GrepReports
  <2>1. CASE G!Malformed # {}
    <3>1. /\ reports = <<>> /\ command \in Commands
          /\ gpc = "exit" /\ status = 0 => Len(command.args) = 0
      BY <2>1 DEF ReportsInv
    <3>2. AllParts \in Seq(Seq(Calls)) /\ Len(AllParts) = Len(command.args)
          /\ G!AllExpected = FlattenSeq(AllParts)
      BY <3>1, AllPartsFacts
    <3>3. Len(command.args) = 0 => G!AllExpected = <<>>
      <4>1. Len(command.args) = 0 => AllParts = <<>>
        BY <3>2
      <4> QED
        BY <3>2, <4>1, FlattenEmpty, Zenon
    <3>4. IsPrefix(reports, G!AllExpected)
      <4>1. Ahead(1) = <<>> /\ Ahead(Len(command.args) + 1) = G!AllExpected
        BY <3>1, AheadEnds
      <4>2. G!AllExpected \in Seq(Calls)
        <5>1. Len(AllParts) \in 0 .. Len(AllParts) /\ SubSeq(AllParts, 1, Len(AllParts)) = AllParts
          BY <3>2, SubSeqFull
        <5> QED
          BY <3>2, <5>1, FlattenType
      <4>3. <<>> \in Seq(Calls) /\ G!AllExpected = <<>> \o G!AllExpected
        BY <4>2, ConcatEmptySeq
      <4> QED
        BY <3>1, <4>2, <4>3, PrefixOfConcat
    <3> QED
      BY <3>1, <3>3, <3>4, GrepLibrary DEF G!GrepReports
  <2>2. CASE G!Malformed = {}
    <3>1. reports \in Seq(Calls) /\ PartOf(reports)
      <4>1. CASE gpc = "exit"
        BY <2>2, <4>1 DEF ReportsInv
      <4>2. CASE gpc # "exit"
        <5>1. PICK a, e, m : arg = a /\ entry = e /\ matches = m
          OBVIOUS
        <5>2. At(a, e, m) /\ gpc \in {"main", "open", "stat", "map", "scan", "unmap", "next"}
          BY <2>2, <4>2, <5>1 DEF ReportsInv, PlaceInv, At
        <5> QED
          BY <5>2, PlaceReports
      <4> QED
        BY <4>1, <4>2
    <3>2. IsPrefix(reports, G!AllExpected)
      <4>1. PICK t \in Seq(Calls) : G!AllExpected = reports \o t
        BY <3>1, Zenon DEF PartOf
      <4> QED
        BY <3>1, <4>1, PrefixOfConcat
    <3>3. gpc = "exit" /\ status = 0 => reports = G!AllExpected
      BY <2>2 DEF ReportsInv
    <3>4. G!Incorrect = {}
      BY <2>2, MeantIsParsed DEF ReportsInv
    <3> QED
      BY <3>2, <3>3, <3>4, GrepLibrary DEF G!GrepReports
  <2> QED
    BY <2>1, <2>2
<1> QED
  BY <1>1, <1>2, <1>3, PTL DEF Spec

-----------------------------------------------------------------------------
(* ReadAll: while the stream is good, the records up to its position.       *)

RecordsInv ==
    /\ stream \in [file : Streams, at : Nat] /\ rpc \in {"read", "returned"}
    /\ rpc = "returned" => trades = stream.file.records /\ "fail" \in state
    /\ rpc = "read" =>
         IF state = {}
           THEN \E k \in 0 .. Len(stream.file.records) :
                  /\ stream.at = k * RecordSize
                  /\ trades = SubSeq(stream.file.records, 1, k)
           ELSE "bad" \in state /\ "eof" \notin state

LEMMA StreamFacts ==
  ASSUME stream \in [file : Streams, at : Nat]
  PROVE  /\ RecordSize \in Nat \ {0}
         /\ \E U : stream.file.records \in Seq(U)
         /\ Len(stream.file.records) \in Nat
         /\ stream.file.part \in 0 .. RecordSize - 1 /\ stream.file.good \in Nat
<1>1. T!TradesAssumption
  BY AlgorithmsAssumption
<1>2. stream.file \in Streams
  OBVIOUS
<1>3. stream.file.records \in Seq({stream.file.records[k] : k \in DOMAIN stream.file.records})
  BY <1>1, <1>2 DEF T!TradesAssumption
<1>4. Len(stream.file.records) \in Nat
  BY <1>3, LenProperties
<1> QED
  BY <1>1, <1>2, <1>3, <1>4 DEF T!TradesAssumption

LEMMA RecordsInit == T!Init => RecordsInv
<1> SUFFICES ASSUME T!Init PROVE RecordsInv
  OBVIOUS
<1>1. /\ stream \in [file : Streams, at : Nat] /\ stream.at = 0
      /\ state = {} /\ trades = <<>> /\ rpc = "read"
  BY DEF T!Init
<1>2. PICK U : stream.file.records \in Seq(U)
  BY <1>1, StreamFacts
<1>3. SubSeq(stream.file.records, 1, 0) = <<>>
  BY <1>2
<1>4. 0 * RecordSize = 0 /\ 0 \in 0 .. Len(stream.file.records)
  BY <1>1, StreamFacts
<1> QED
  BY <1>1, <1>3, <1>4 DEF RecordsInv

(* Where a record begins and ends, in bytes.                                *)
LEMMA RecordBytes ==
  ASSUME NEW k \in Nat, NEW n \in Nat, NEW size \in Nat \ {0}, NEW part \in 0 .. size - 1, k <= n
  PROVE  /\ (k + 1) * size = k * size + size
         /\ ((k + 1) * size) \div size = k + 1
         /\ n * size + part < k * size + size <=> k = n
         /\ k * size \in Nat /\ n * size \in Nat
<1>1. (k + 1) * size = k * size + size /\ k * size \in Nat /\ n * size \in Nat
  BY SMTT(30)
<1>2. ((k + 1) * size) \div size = k + 1
  BY SMTT(30)
<1>3. k # n => k * size + size <= n * size
  <2> SUFFICES ASSUME k # n PROVE k * size + size <= n * size
    OBVIOUS
  <2>1. PICK d \in Nat : n = (k + 1) + d
    <3>1. n - (k + 1) \in Nat /\ n = (k + 1) + (n - (k + 1))
      OBVIOUS
    <3> QED
      BY <3>1
  <2>2. ((k + 1) + d) * size = (k * size + size) + d * size
    BY SMTT(30)
  <2>3. d * size \in Nat
    BY SMTT(30)
  <2> QED
    BY <1>1, <2>1, <2>2, <2>3
<1>4. n * size + part < k * size + size <=> k = n
  <2> DEFINE a == k * size
             b == n * size
  <2>1. k = n => a = b
    OBVIOUS
  <2>2. k # n => a + size <= b
    BY <1>3
  <2>3. a \in Nat /\ b \in Nat
    BY <1>1
  <2> HIDE DEF a, b
  <2>4. b + part < a + size <=> k = n
    BY <2>1, <2>2, <2>3
  <2> QED
    BY <2>4 DEF a, b
<1> QED
  BY <1>1, <1>2, <1>4

LEMMA RecordsNext == RecordsInv /\ [T!Next]_T!vars => RecordsInv'
<1> SUFFICES ASSUME RecordsInv, [T!Next]_T!vars PROVE RecordsInv'
  OBVIOUS
<1>1. CASE UNCHANGED T!vars
  BY <1>1 DEF T!vars, RecordsInv
<1>2. CASE T!ReadAll
  <2> DEFINE read == T!Reads(stream, state)
             records == stream.file.records
             want == stream.at + RecordSize
             size == T!Size(stream.file)
             good == stream.file.good
  <2>1. /\ rpc = "read" /\ stream' = [stream EXCEPT !.at = read.at] /\ state' = read.bits
        /\ IF "eof" \in read.bits THEN rpc' = "returned" /\ trades' = trades
           ELSE trades' = Append(trades, read.got) /\ rpc' = rpc
    BY <1>2 DEF T!ReadAll, T!ReadNext
  <2>2. stream \in [file : Streams, at : Nat]
    BY DEF RecordsInv
  <2>3. PICK U : records \in Seq(U)
    BY <2>2, StreamFacts
  <2>4. /\ RecordSize \in Nat \ {0} /\ Len(records) \in Nat
        /\ stream.file.part \in 0 .. RecordSize - 1 /\ good \in Nat /\ stream.at \in Nat
    BY <2>2, StreamFacts
  <2>5. read = IF state # {} THEN [at |-> stream.at, bits |-> state \union {"fail"}, got |-> NoTrade]
               ELSE IF good < want /\ good <= size
                 THEN [at |-> good, bits |-> {"bad"}, got |-> NoTrade]
               ELSE IF size < want
                 THEN [at |-> size, bits |-> {"eof", "fail"}, got |-> NoTrade]
               ELSE [at |-> want, bits |-> {}, got |-> records[want \div RecordSize]]
    BY DEF T!Reads
  <2>6. size = Len(records) * RecordSize + stream.file.part
    BY DEF T!Size
  <2>7. size \in Nat /\ want \in Nat
    <3> DEFINE whole == Len(records) * RecordSize
               part == stream.file.part
    <3>1. whole \in Nat /\ part \in Nat /\ size = whole + part
      BY <2>4, <2>6, RecordBytes
    <3>2. stream.at \in Nat /\ RecordSize \in Nat
      BY <2>4
    <3> HIDE DEF whole, part, size
    <3> QED
      BY <3>1, <3>2
  <2> HIDE DEF read, records, want, size, good
  <2>8. stream'.file = stream.file /\ stream'.at = read.at
    BY <2>1, <2>2
  <2>9. ASSUME read.at \in Nat PROVE stream' \in [file : Streams, at : Nat]
    BY <2>1, <2>2, <2>9
  <2>10. CASE state # {}
    <3>1. read = [at |-> stream.at, bits |-> state \union {"fail"}, got |-> NoTrade]
      BY <2>5, <2>10
    <3>2. "bad" \in state /\ "eof" \notin state
      BY <2>1, <2>10 DEF RecordsInv
    <3> QED
      BY <2>1, <2>4, <2>9, <3>1, <3>2 DEF RecordsInv
  <2>11. CASE state = {} /\ good < want /\ good <= size
    <3>1. read = [at |-> good, bits |-> {"bad"}, got |-> NoTrade]
      BY <2>5, <2>11
    <3> QED
      BY <2>1, <2>4, <2>9, <3>1 DEF RecordsInv
  <2>12. CASE state = {} /\ ~(good < want /\ good <= size)
    <3>1. PICK k \in 0 .. Len(records) :
             stream.at = k * RecordSize /\ trades = SubSeq(records, 1, k)
      BY <2>1, <2>12 DEF RecordsInv, records
    <3>2. /\ want = k * RecordSize + RecordSize /\ want = (k + 1) * RecordSize
          /\ want \div RecordSize = k + 1
          /\ size < want <=> k = Len(records)
      <4> DEFINE n == Len(records)
                 part == stream.file.part
      <4>1. k \in Nat /\ n \in Nat /\ k <= n /\ part \in 0 .. RecordSize - 1
        BY <2>4
      <4>2. want = k * RecordSize + RecordSize
        BY <3>1 DEF want
      <4>3. size = n * RecordSize + part
        BY <2>6
      <4> HIDE DEF n, part
      <4>4. /\ (k + 1) * RecordSize = k * RecordSize + RecordSize
            /\ ((k + 1) * RecordSize) \div RecordSize = k + 1
            /\ n * RecordSize + part < k * RecordSize + RecordSize <=> k = n
        BY <2>4, <4>1, RecordBytes
      <4> QED
        BY <4>2, <4>3, <4>4 DEF n
    <3>3. CASE size < want
      <4>1. read = [at |-> size, bits |-> {"eof", "fail"}, got |-> NoTrade]
        BY <2>5, <2>12, <3>3
      <4>2. trades = records
        BY <2>3, <3>1, <3>2, <3>3, SubSeqFull
      <4> QED
        BY <2>1, <2>7, <2>8, <2>9, <4>1, <4>2 DEF RecordsInv, records
    <3>4. CASE ~(size < want)
      <4>1. read = [at |-> want, bits |-> {}, got |-> records[want \div RecordSize]]
        BY <2>5, <2>12, <3>4
      <4>2. k + 1 \in 0 .. Len(records) /\ k \in Nat /\ k < Len(records)
        BY <2>4, <3>2, <3>4
      <4>3. trades' = SubSeq(records, 1, k + 1)
        BY <2>1, <2>3, <3>1, <3>2, <4>1, <4>2, SeqSeenNext, Zenon
      <4>4. stream'.at = (k + 1) * RecordSize /\ stream'.file.records = records
        BY <2>8, <3>2, <4>1 DEF records
      <4> QED
        BY <2>1, <2>7, <2>9, <4>1, <4>2, <4>3, <4>4, Zenon DEF RecordsInv
    <3> QED
      BY <3>3, <3>4
  <2> QED
    BY <2>10, <2>11, <2>12
<1> QED
  BY <1>1, <1>2 DEF T!Next

LEMMA RecordsRight == RecordsInv => T!RecordsRead
<1> SUFFICES ASSUME RecordsInv PROVE T!RecordsRead
  OBVIOUS
<1>1. rpc = "returned" => trades = stream.file.records
  BY DEF RecordsInv
<1>2. ASSUME state \subseteq {"eof"} PROVE T!IsPrefix(trades, stream.file.records)
  <2>1. rpc = "read" /\ state = {}
    BY <1>2 DEF RecordsInv
  <2>2. PICK k \in 0 .. Len(stream.file.records) : trades = SubSeq(stream.file.records, 1, k)
    BY <2>1 DEF RecordsInv
  <2>3. PICK U : stream.file.records \in Seq(U)
    BY StreamFacts DEF RecordsInv
  <2>4. Len(trades) = k /\ trades \in Seq(U)
    BY <2>2, <2>3, SubSeqFacts
  <2> QED
    BY <2>2, <2>3, <2>4 DEF T!IsPrefix
<1> QED
  BY <1>1, <1>2 DEF T!RecordsRead

-----------------------------------------------------------------------------
(* A Range: how many numbers it has, and which.                             *)

ItemsOf(s) == {s.items[k] : k \in DOMAIN s.items}

LEMMA CeilingIs ==
  ASSUME NEW d \in Nat \ {0}, NEW step \in Nat \ {0}
  PROVE  LET n == (d + step - 1) \div step IN
         n \in Nat /\ n * step >= d /\ (\A k \in Nat : k < n => k * step < d)
<1> DEFINE n == (d + step - 1) \div step
<1>1. n \in Nat /\ n * step <= d + step - 1 /\ d + step - 1 < n * step + step
  <2>1. d + step - 1 \in Nat
    OBVIOUS
  <2>2. \A x \in Nat : /\ x \div step \in Nat /\ (x \div step) * step <= x
                       /\ x < (x \div step) * step + step
    BY SMTT(30)
  <2> QED
    BY <2>1, <2>2
<1> HIDE DEF n
<1>2. n * step \in Nat
  BY <1>1, SMTT(30)
<1>3. n * step >= d
  <2> DEFINE a == n * step
  <2>1. a \in Nat /\ d + step - 1 < a + step
    BY <1>1, <1>2
  <2> HIDE DEF a
  <2>2. a >= d
    BY <2>1
  <2> QED
    BY <2>2 DEF a
<1>4. ASSUME NEW k \in Nat, k < n PROVE k * step < d
  <2>1. PICK c \in Nat : n = (k + 1) + c
    <3>1. n - (k + 1) \in Nat /\ n = (k + 1) + (n - (k + 1))
      BY <1>1, <1>4
    <3> QED
      BY <3>1
  <2>2. ((k + 1) + c) * step = (k * step + step) + c * step
    BY SMTT(60)
  <2>3. k * step \in Nat /\ c * step \in Nat
    BY SMTT(30)
  <2> DEFINE a == k * step
             b == c * step
             x == n * step
  <2>4. x = (a + step) + b /\ x <= d + step - 1 /\ a \in Nat /\ b \in Nat
    BY <1>1, <2>1, <2>2, <2>3
  <2> HIDE DEF a, b, x
  <2>5. a < d
    BY <2>4
  <2> QED
    BY <2>5 DEF a
<1> QED
  BY <1>1, <1>3, <1>4 DEF n

LEMMA NumbersOfRange ==
  ASSUME NEW from \in Nat, NEW to \in Nat, NEW step \in Nat \ {0}, NEW n,
         n = IF from < to THEN (to - from + step - 1) \div step ELSE 0
  PROVE  /\ n \in Nat
         /\ \A k \in 0 .. n : from + k * step \in Nat /\ (from + k * step < to <=> k < n)
<1> DEFINE times(k) == k * step
<1>1. \A k \in Nat : times(k) \in Nat
  BY SMTT(30)
<1>2. /\ n \in Nat /\ (from < to => times(n) >= to - from)
      /\ \A k \in Nat : k < n => from < to /\ times(k) < to - from
  <2>1. CASE from < to
    <3>1. to - from \in Nat \ {0} /\ n = (to - from + step - 1) \div step
      BY <2>1
    <3> QED
      BY <2>1, <3>1, CeilingIs
  <2>2. CASE ~(from < to)
    BY <2>2
  <2> QED
    BY <2>1, <2>2
<1> HIDE DEF times
<1>3. ASSUME NEW k \in 0 .. n
      PROVE  from + times(k) \in Nat /\ (from + times(k) < to <=> k < n)
  <2>1. k \in Nat /\ times(k) \in Nat /\ (k = n \/ k < n) /\ ~(n < n)
    BY <1>1, <1>2
  <2>2. CASE k < n
    BY <1>2, <2>1, <2>2
  <2>3. CASE k = n
    BY <1>2, <2>1, <2>3
  <2> QED
    BY <2>1, <2>2, <2>3
<1> QED
  BY <1>2, <1>3 DEF times

LEMMA RangeIs ==
  ASSUME NEW s, s.kind = "Range", L!Sequence(s), L!StepsFit(s)
  PROVE  /\ s.from \in Nat /\ s.to \in Nat /\ s.step \in Nat \ {0} /\ s.to + s.step <= SizeRange
         /\ L!Items(s) \in Seq(Int) /\ Len(L!Items(s)) \in Nat
         /\ \A k \in 0 .. Len(L!Items(s)) :
              /\ s.from + k * s.step \in Nat
              /\ (s.from + k * s.step < s.to <=> k < Len(L!Items(s)))
         /\ \A k \in 1 .. Len(L!Items(s)) : L!Items(s)[k] = s.from + (k - 1) * s.step
<1> DEFINE from == s.from
           to == s.to
           step == s.step
           n == IF from < to THEN (to - from + step - 1) \div step ELSE 0
           number(k) == from + (k - 1) * step
<1>1. from \in Nat /\ to \in Nat /\ step \in Nat \ {0} /\ to + step <= SizeRange
  BY DEF L!Sequence, L!StepsFit
<1>2. L!Items(s) = [k \in 1 .. n |-> number(k)]
  BY DEF L!Items
<1> HIDE DEF from, to, step
<1>3. n = IF from < to THEN (to - from + step - 1) \div step ELSE 0
  OBVIOUS
<1>4. \A k \in Int : number(k) \in Int
  BY <1>1, SMTT(30)
<1> HIDE DEF n, number
<1>5. n \in Nat /\ \A k \in 0 .. n : from + k * step \in Nat /\ (from + k * step < to <=> k < n)
  BY <1>1, <1>3, NumbersOfRange
<1>6. L!Items(s) \in Seq(Int) /\ Len(L!Items(s)) = n /\ \A k \in 1 .. n : L!Items(s)[k] = number(k)
  BY <1>2, <1>4, <1>5
<1> QED
  BY <1>1, <1>5, <1>6, Zenon DEF from, to, step, number

(* Where a loop over a sequence is after k turns.                           *)
Place1(s, k) == IF s.kind = "Range" THEN s.from + k * s.step ELSE k

LEMMA SequenceGoes ==
  ASSUME NEW s, L!Sequence(s), L!StepsFit(s)
  PROVE  /\ \E U : L!Items(s) \in Seq(U)
         /\ Len(L!Items(s)) \in Nat
         /\ Place1(s, 0) = L!Begin1(s)
         /\ \A k \in 0 .. Len(L!Items(s)) :
              L!NotEqual1(s, Place1(s, k), L!End1(s)) <=> k < Len(L!Items(s))
         /\ \A k \in Nat : k < Len(L!Items(s)) =>
              /\ L!Advance1(s, Place1(s, k)) = Place1(s, k + 1)
              /\ L!Deref1(s, Place1(s, k)) = L!Items(s)[k + 1]
<1>1. CASE s.kind = "Vector"
  <2>1. L!Items(s) = s.items /\ s.items \in Seq(ItemsOf(s))
    BY <1>1 DEF L!Items, L!Sequence, ItemsOf
  <2>2. Len(s.items) \in Nat
    BY <2>1, LenProperties
  <2>3. s.kind # "Range"
    BY <1>1
  <2> QED
    BY <2>1, <2>2, <2>3 DEF Place1, L!Begin1, L!End1, L!NotEqual1, L!Advance1, L!Deref1
<1>2. CASE s.kind = "Range"
  <2> DEFINE n == Len(L!Items(s))
             at(k) == s.from + k * s.step
  <2>1. /\ s.from \in Nat /\ s.to \in Nat /\ s.step \in Nat \ {0} /\ s.to + s.step <= SizeRange
        /\ L!Items(s) \in Seq(Int) /\ n \in Nat
        /\ \A k \in 0 .. n : at(k) \in Nat /\ (at(k) < s.to <=> k < n)
        /\ \A k \in 1 .. n : L!Items(s)[k] = at(k - 1)
    BY <1>2, RangeIs
  <2>2. \A k \in Nat : at(k + 1) = at(k) + s.step
    <3>1. \A k \in Nat : (k + 1) * s.step = k * s.step + s.step /\ k * s.step \in Nat
      BY <2>1, SMTT(30)
    <3> DEFINE times(k) == k * s.step
    <3>2. \A k \in Nat : times(k + 1) = times(k) + s.step /\ times(k) \in Nat
      BY <3>1
    <3> HIDE DEF times
    <3>3. \A k \in Nat : s.from + times(k + 1) = (s.from + times(k)) + s.step
      <4> TAKE k \in Nat
      <4>1. /\ times(k + 1) = times(k) + s.step /\ times(k) \in Nat
            /\ s.from \in Nat /\ s.step \in Nat
        BY <2>1, <3>2, Zenon
      <4> QED
        BY <4>1
    <3> QED
      BY <3>3 DEF times
  <2>3. at(0) = s.from
    BY <2>1
  <2>4. \A k : Place1(s, k) = at(k)
    BY <1>2 DEF Place1
  <2> HIDE DEF at, n
  <2>5. \A k \in 0 .. n : L!NotEqual1(s, Place1(s, k), L!End1(s)) <=> k < n
    BY <1>2, <2>1, <2>4 DEF L!NotEqual1, L!End1
  <2>6. ASSUME NEW k \in Nat, k < n
        PROVE  /\ L!Advance1(s, Place1(s, k)) = Place1(s, k + 1)
               /\ L!Deref1(s, Place1(s, k)) = L!Items(s)[k + 1]
    <3>1. k \in 0 .. n /\ k + 1 \in 1 .. n /\ (k + 1) - 1 = k
      BY <2>1, <2>6
    <3>2. at(k) \in Nat /\ at(k) < s.to /\ L!Items(s)[k + 1] = at(k)
      BY <2>1, <2>6, <3>1
    <3>3. SizeRange \in Nat /\ SizeRange # 0
      BY AlgorithmsAssumption DEF L!ItertoolsAssumption
    <3>4. (at(k) + s.step) % SizeRange = at(k) + s.step
      <4>1. at(k) + s.step \in 0 .. SizeRange - 1
        BY <2>1, <3>2, <3>3, SMTT(30)
      <4> DEFINE x == at(k) + s.step
      <4> HIDE DEF x
      <4>2. x \in 0 .. SizeRange - 1 => x % SizeRange = x
        BY <3>3
      <4> QED
        BY <4>1, <4>2 DEF x
    <3> QED
      BY <1>2, <2>2, <2>4, <3>2, <3>4 DEF L!Advance1, L!Deref1
  <2>7. L!Begin1(s) = s.from
    BY <1>2 DEF L!Begin1
  <2> QED
    BY <2>1, <2>3, <2>4, <2>5, <2>6, <2>7 DEF n
<1> QED
  BY <1>1, <1>2 DEF L!Sequence

-----------------------------------------------------------------------------
(* The loops over sequences: what the body is to see, and where the loop is *)
(* after k turns.                                                           *)

Pairs(a, b) == [k \in 1 .. (IF Len(a) < Len(b) THEN Len(a) ELSE Len(b)) |-> <<a[k], b[k]>>]
AllOf(l) == IF l.kind = "Zip" THEN Pairs(L!Items(l.first), L!Items(l.second)) ELSE L!Items(l)
Place(l, k) ==
    IF l.kind = "Zip" THEN [current1 |-> Place1(l.first, k), current2 |-> Place1(l.second, k)]
    ELSE Place1(l, k)

LEMMA LoopGoes ==
  ASSUME L!NoneWraps, NEW l \in Loops, l.kind # "Group"
  PROVE  /\ \E U : AllOf(l) \in Seq(U)
         /\ Len(AllOf(l)) \in Nat
         /\ Place(l, 0) = L!Begin(l)
         /\ \A k \in 0 .. Len(AllOf(l)) :
              L!NotEqual(l, Place(l, k), L!End(l)) <=> k < Len(AllOf(l))
         /\ \A k \in Nat : k < Len(AllOf(l)) =>
              /\ L!Advance(l, Place(l, k)) = Place(l, k + 1)
              /\ L!Deref(l, Place(l, k)) = AllOf(l)[k + 1]
<1>1. CASE l.kind = "Zip"
  <2> DEFINE a == L!Items(l.first)
             b == L!Items(l.second)
             n == IF Len(a) < Len(b) THEN Len(a) ELSE Len(b)
  <2>1. /\ L!Sequence(l.first) /\ L!StepsFit(l.first)
        /\ L!Sequence(l.second) /\ L!StepsFit(l.second)
    BY <1>1, AlgorithmsAssumption DEF L!ItertoolsAssumption, L!NoneWraps
  <2>2. PICK U : a \in Seq(U)
    BY <2>1, SequenceGoes
  <2>3. PICK W : b \in Seq(W)
    BY <2>1, SequenceGoes
  <2>4. Len(a) \in Nat /\ Len(b) \in Nat
    BY <2>1, SequenceGoes
  <2>5. /\ Place1(l.first, 0) = L!Begin1(l.first) /\ Place1(l.second, 0) = L!Begin1(l.second)
        /\ \A k \in 0 .. Len(a) :
             L!NotEqual1(l.first, Place1(l.first, k), L!End1(l.first)) <=> k < Len(a)
        /\ \A k \in 0 .. Len(b) :
             L!NotEqual1(l.second, Place1(l.second, k), L!End1(l.second)) <=> k < Len(b)
        /\ \A k \in Nat : k < Len(a) =>
             /\ L!Advance1(l.first, Place1(l.first, k)) = Place1(l.first, k + 1)
             /\ L!Deref1(l.first, Place1(l.first, k)) = a[k + 1]
        /\ \A k \in Nat : k < Len(b) =>
             /\ L!Advance1(l.second, Place1(l.second, k)) = Place1(l.second, k + 1)
             /\ L!Deref1(l.second, Place1(l.second, k)) = b[k + 1]
    BY <2>1, SequenceGoes
  <2>6. AllOf(l) = [k \in 1 .. n |-> <<a[k], b[k]>>]
    BY <1>1 DEF AllOf, Pairs
  <2> HIDE DEF a, b
  <2>7. n \in Nat /\ \A k \in Nat : k < n <=> k < Len(a) /\ k < Len(b)
    BY <2>4
  <2>8. \A k \in 0 .. n : k \in 0 .. Len(a) /\ k \in 0 .. Len(b)
    BY <2>4
  <2> HIDE DEF n
  <2>9. AllOf(l) \in Seq(U \X W) /\ Len(AllOf(l)) = n
    <3>1. \A k \in 1 .. n : <<a[k], b[k]>> \in U \X W
      <4> TAKE k \in 1 .. n
      <4>1. k \in 1 .. Len(a) /\ k \in 1 .. Len(b)
        BY <2>4, <2>7, <2>8
      <4>2. a[k] \in U /\ b[k] \in W
        BY <2>2, <2>3, <4>1
      <4> QED
        BY <4>2
    <3> QED
      BY <2>6, <2>7, <3>1
  <2>10. \A k : Place(l, k) = [current1 |-> Place1(l.first, k), current2 |-> Place1(l.second, k)]
    BY <1>1 DEF Place
  <2>11. Place(l, 0) = L!Begin(l)
    BY <1>1, <2>5, <2>10 DEF L!Begin
  <2>12. \A k \in 0 .. n : L!NotEqual(l, Place(l, k), L!End(l)) <=> k < n
    BY <1>1, <2>5, <2>7, <2>8, <2>10 DEF L!NotEqual, L!End
  <2>13. \A k \in Nat : k < n =>
           /\ L!Advance(l, Place(l, k)) = Place(l, k + 1)
           /\ L!Deref(l, Place(l, k)) = AllOf(l)[k + 1]
    <3> SUFFICES ASSUME NEW k \in Nat, k < n
                 PROVE  /\ L!Advance(l, Place(l, k)) = Place(l, k + 1)
                        /\ L!Deref(l, Place(l, k)) = AllOf(l)[k + 1]
      OBVIOUS
    <3>1. k < Len(a) /\ k < Len(b) /\ k + 1 \in 1 .. n
      BY <2>7
    <3>2. AllOf(l)[k + 1] = <<a[k + 1], b[k + 1]>>
      BY <2>6, <3>1
    <3> QED
      BY <1>1, <2>5, <2>10, <3>1, <3>2 DEF L!Advance, L!Deref
  <2> QED
    BY <2>7, <2>9, <2>11, <2>12, <2>13
<1>2. CASE l.kind # "Zip"
  <2>1. L!Sequence(l) /\ L!StepsFit(l)
    BY <1>2, AlgorithmsAssumption DEF L!ItertoolsAssumption, L!NoneWraps
  <2>2. /\ AllOf(l) = L!Items(l) /\ \A k : Place(l, k) = Place1(l, k)
        /\ L!Begin(l) = L!Begin1(l) /\ L!End(l) = L!End1(l)
        /\ \A x, y : /\ L!NotEqual(l, x, y) <=> L!NotEqual1(l, x, y)
                     /\ L!Advance(l, x) = L!Advance1(l, x)
                     /\ L!Deref(l, x) = L!Deref1(l, x)
    BY <1>2 DEF AllOf, Place, L!Begin, L!End, L!NotEqual, L!Advance, L!Deref
  <2> QED
    BY <2>1, <2>2, SequenceGoes
<1> QED
  BY <1>1, <1>2

-----------------------------------------------------------------------------
(* A Group: the group that begins at a place has one item only, and ends    *)
(* where another item follows.                                              *)

LEMMA GroupEndIs ==
  ASSUME NEW U, NEW s, s.items \in Seq(U), NEW from \in 0 .. Len(s.items)
  PROVE  /\ L!GroupEnd(s, from) \in from .. Len(s.items)
         /\ from < Len(s.items) => from < L!GroupEnd(s, from)
         /\ \A k \in from + 1 .. L!GroupEnd(s, from) : s.items[k] = s.items[from + 1]
         /\ L!GroupEnd(s, from) < Len(s.items) =>
              s.items[L!GroupEnd(s, from) + 1] # s.items[from + 1]
<1> DEFINE items == s.items
           n == Len(items)
           Ends(t) == /\ from < n => from < t
                      /\ \A k \in from + 1 .. t : items[k] = items[from + 1]
                      /\ t < n => items[t + 1] # items[from + 1]
           x == CHOOSE t \in from .. n : Ends(t)
<1>1. n \in Nat /\ from \in Nat /\ from <= n
  OBVIOUS
<1>2. L!GroupEnd(s, from) = x
  BY DEF L!GroupEnd
<1> HIDE DEF items, n
<1>3. \E t \in from .. n : Ends(t)
  <2>1. CASE from = n
    <3>1. \A k \in from + 1 .. n : FALSE
      BY <1>1, <2>1
    <3>2. n \in from .. n /\ ~(n < n) /\ ~(from < n)
      BY <1>1, <2>1
    <3> QED
      BY <3>1, <3>2
  <2>2. CASE from < n
    <3> DEFINE found == {t \in from + 1 .. n : t = n \/ items[t + 1] # items[from + 1]}
    <3>1. found \in SUBSET Nat /\ n \in found
      BY <1>1, <2>2
    <3>2. PICK t \in found : \A y \in found : t <= y
      BY <3>1, NatMinimum, Zenon
    <3>3. t \in from + 1 .. n /\ (t = n \/ items[t + 1] # items[from + 1])
      OBVIOUS
    <3>4. ASSUME NEW k \in from + 1 .. t PROVE items[k] = items[from + 1]
      <4>1. CASE k = from + 1
        BY <4>1
      <4>2. CASE k # from + 1
        <5>1. k - 1 \in from + 1 .. n /\ k - 1 # n /\ (k - 1) + 1 = k /\ ~(t <= k - 1)
          BY <1>1, <3>3, <4>2
        <5>2. k - 1 \notin found
          BY <3>2, <5>1
        <5> QED
          BY <5>1, <5>2
      <4> QED
        BY <4>1, <4>2
    <3>5. t \in from .. n /\ from < t /\ (t < n => t # n)
      BY <1>1, <3>3
    <3> QED
      BY <3>3, <3>4, <3>5
  <2> QED
    BY <1>1, <2>1, <2>2
<1> HIDE DEF Ends
<1>4. x \in from .. n /\ Ends(x)
  BY <1>3, Zenon
<1> HIDE DEF x
<1> QED
  BY <1>2, <1>4 DEF Ends, items, n

(* A loop over a Group at the group that begins at g: the body has seen all *)
(* that is before g, in runs of equal items, and g begins another run.      *)
GroupsSeen(g) ==
    LET items == loop.over.items IN
    /\ cursor = L!GroupAt(loop.over, g)
    /\ out \in Seq(Seq(ItemsOf(loop.over)))
    /\ FlattenSeq(out) = SubSeq(items, 1, g)
    /\ \A r \in DOMAIN out : out[r] # <<>> /\ \A k \in DOMAIN out[r] : out[r][k] = out[r][1]
    /\ \A r \in 1 .. Len(out) - 1 : out[r][1] # out[r + 1][1]
    /\ out # <<>> /\ g < Len(items) => out[Len(out)][1] # items[g + 1]

SeenInv ==
    /\ loop \in Loops /\ ipc \in {"loop", "left"}
    /\ IF loop.kind = "Group"
         THEN \E g \in 0 .. Len(loop.over.items) :
                GroupsSeen(g) /\ (ipc = "left" => g = Len(loop.over.items))
         ELSE \E k \in 0 .. Len(AllOf(loop)) :
                /\ cursor = Place(loop, k) /\ out = SubSeq(AllOf(loop), 1, k)
                /\ ipc = "left" => k = Len(AllOf(loop))

LEMMA GroupFacts ==
  ASSUME loop \in Loops, loop.kind = "Group"
  PROVE  loop.over.items \in Seq(ItemsOf(loop.over)) /\ Len(loop.over.items) \in Nat
<1>1. loop.over.kind = "Vector" /\ L!Sequence(loop.over)
  BY AlgorithmsAssumption DEF L!ItertoolsAssumption
<1>2. loop.over.items \in Seq(ItemsOf(loop.over))
  BY <1>1 DEF L!Sequence, ItemsOf
<1> QED
  BY <1>2, LenProperties

LEMMA SeenInit == ASSUME L!NoneWraps PROVE L!Init => SeenInv
<1> SUFFICES ASSUME L!Init PROVE SeenInv
  OBVIOUS
<1>1. loop \in Loops /\ cursor = L!Begin(loop) /\ out = <<>> /\ ipc = "loop"
  BY DEF L!Init
<1>2. CASE loop.kind = "Group"
  <2> DEFINE items == loop.over.items
  <2>1. items \in Seq(ItemsOf(loop.over)) /\ 0 \in 0 .. Len(items)
    BY <1>1, <1>2, GroupFacts
  <2>2. cursor = L!GroupAt(loop.over, 0)
    BY <1>1, <1>2 DEF L!Begin
  <2>3. FlattenSeq(out) = SubSeq(items, 1, 0)
    <3>1. SubSeq(items, 1, 0) = <<>>
      BY <2>1
    <3> QED
      BY <1>1, <3>1, FlattenEmpty, Zenon
  <2>4. GroupsSeen(0)
    BY <1>1, <2>2, <2>3 DEF GroupsSeen
  <2> QED
    BY <1>1, <1>2, <2>1, <2>4 DEF SeenInv
<1>3. CASE loop.kind # "Group"
  <2>1. PICK U : AllOf(loop) \in Seq(U)
    BY <1>1, <1>3, LoopGoes
  <2>2. Place(loop, 0) = L!Begin(loop) /\ 0 \in 0 .. Len(AllOf(loop))
    BY <1>1, <1>3, LoopGoes
  <2>3. SubSeq(AllOf(loop), 1, 0) = <<>>
    BY <2>1
  <2> QED
    BY <1>1, <1>3, <2>2, <2>3 DEF SeenInv
<1> QED
  BY <1>2, <1>3

(* A turn of the loop over a Group.                                         *)
LEMMA GroupTurn ==
  ASSUME loop \in Loops, loop.kind = "Group", NEW g \in 0 .. Len(loop.over.items),
         GroupsSeen(g), g # Len(loop.over.items),
         loop' = loop, out' = Append(out, L!Deref(loop, cursor)),
         cursor' = L!Advance(loop, cursor)
  PROVE  \E c \in 0 .. Len(loop.over.items) : GroupsSeen(c)'
<1> DEFINE items == loop.over.items
           set == ItemsOf(loop.over)
           n == Len(items)
           c == L!GroupEnd(loop.over, g)
           run == SubSeq(items, g + 1, c)
           len == Len(out)
<1>1. items \in Seq(set) /\ n \in Nat /\ g \in 0 .. n /\ g < n
  BY GroupFacts
<1>2. /\ c \in g .. n /\ g < c
      /\ \A k \in g + 1 .. c : items[k] = items[g + 1]
      /\ c < n => items[c + 1] # items[g + 1]
  <2> DEFINE s == loop.over
  <2>1. s.items \in Seq(set) /\ g \in 0 .. Len(s.items) /\ g < Len(s.items)
    BY <1>1
  <2> HIDE DEF s
  <2>2. LET x == L!GroupEnd(s, g) IN
        /\ x \in g .. Len(s.items) /\ (g < Len(s.items) => g < x)
        /\ \A k \in g + 1 .. x : s.items[k] = s.items[g + 1]
        /\ x < Len(s.items) => s.items[x + 1] # s.items[g + 1]
    BY <2>1, GroupEndIs
  <2> QED
    BY <2>1, <2>2 DEF s
<1>3. /\ cursor = L!GroupAt(loop.over, g) /\ out \in Seq(Seq(set))
      /\ FlattenSeq(out) = SubSeq(items, 1, g)
      /\ \A r \in DOMAIN out : out[r] # <<>> /\ \A k \in DOMAIN out[r] : out[r][k] = out[r][1]
      /\ \A r \in 1 .. len - 1 : out[r][1] # out[r + 1][1]
      /\ out # <<>> => out[len][1] # items[g + 1]
  BY <1>1 DEF GroupsSeen
<1>4. cursor' = L!GroupAt(loop.over, c) /\ out' = Append(out, run)
  BY <1>3, Zenon DEF L!Advance, L!Deref, L!GroupAt
<1> HIDE DEF items, set, n, c
<1>5. /\ SubSeq(items, 1, g) \o run = SubSeq(items, 1, c)
      /\ run \in Seq(set) /\ Len(run) = c - g
      /\ \A l \in 1 .. c - g : run[l] = items[g + l]
  BY <1>1, <1>2, SubSeqConcat, Zenon DEF n
<1> HIDE DEF run
<1>6. /\ run # <<>> /\ DOMAIN run = 1 .. c - g /\ 1 \in 1 .. c - g
      /\ \A l \in 1 .. c - g : run[l] = items[g + 1]
  <2>1. c - g \in Nat /\ c - g # 0
    BY <1>1, <1>2
  <2>2. \A l \in 1 .. c - g : g + l \in g + 1 .. c
    BY <1>1, <1>2
  <2> QED
    BY <1>2, <1>5, <2>1, <2>2
<1>7. /\ len \in Nat /\ DOMAIN out = 1 .. len
      /\ out' \in Seq(Seq(set)) /\ Len(out') = len + 1 /\ DOMAIN out' = 1 .. len + 1
      /\ (\A r \in 1 .. len : out'[r] = out[r]) /\ out'[len + 1] = run
  BY <1>3, <1>4, <1>5
<1> HIDE DEF len
<1>8. FlattenSeq(out') = SubSeq(items, 1, c)
  <2>1. /\ SubSeq(out', 1, len + 1) = out'
        /\ len + 1 \in 1 .. Len(out') /\ (len + 1) - 1 = len
    BY <1>7, SubSeqFull
  <2>2. SubSeq(out', 1, len) = out
    <3>1. len \in 0 .. Len(out')
      BY <1>7
    <3>2. /\ SubSeq(out', 1, len) \in Seq(Seq(set)) /\ Len(SubSeq(out', 1, len)) = len
          /\ \A l \in 1 .. len : SubSeq(out', 1, len)[l] = out'[l]
      BY <1>7, <3>1, SubSeqFacts
    <3>3. Len(out) = len
      BY DEF len
    <3> QED
      BY <1>3, <1>7, <3>2, <3>3, SeqEqual
  <2>3. FlattenSeq(SubSeq(out', 1, len + 1)) = FlattenSeq(SubSeq(out', 1, (len + 1) - 1)) \o out'[len + 1]
    BY <1>7, <2>1, FlattenNext, Zenon
  <2> QED
    <3>1. FlattenSeq(out') = FlattenSeq(out) \o run
      BY <1>7, <2>1, <2>2, <2>3, Zenon
    <3> QED
      BY <1>3, <1>5, <3>1, Zenon
<1>9. \A r \in 1 .. len + 1 : out'[r] # <<>> /\ \A k \in DOMAIN out'[r] : out'[r][k] = out'[r][1]
  <2> TAKE r \in 1 .. len + 1
  <2>1. CASE r \in 1 .. len
    <3>1. out'[r] = out[r] /\ r \in DOMAIN out
      BY <1>7, <2>1
    <3> QED
      BY <1>3, <3>1, Zenon
  <2>2. CASE r = len + 1
    BY <1>6, <1>7, <2>2, Zenon
  <2> QED
    BY <1>7, <2>1, <2>2
<1>10. \A r \in 1 .. Len(out') - 1 : out'[r][1] # out'[r + 1][1]
  <2> TAKE r \in 1 .. Len(out') - 1
  <2>1. r \in 1 .. len
    BY <1>7
  <2>2. CASE r = len
    <3>1. out'[r] = out[len] /\ out'[r + 1] = run
      BY <1>7, <2>1, <2>2
    <3>2. out # <<>>
      BY <1>7, <2>1
    <3>3. out[len][1] # items[g + 1]
      BY <1>3, <3>2
    <3> QED
      BY <1>6, <3>1, <3>3
  <2>3. CASE r # len
    <3>1. r \in 1 .. len - 1 /\ r + 1 \in 1 .. len
      BY <1>7, <2>1, <2>3
    <3> QED
      BY <1>3, <1>7, <2>1, <3>1
  <2> QED
    BY <2>2, <2>3
<1>11. c < n => out'[Len(out')][1] # items[c + 1]
  BY <1>2, <1>6, <1>7, Zenon
<1>12. c \in 0 .. n
  BY <1>1, <1>2
<1>13. PICK d : d = c
  OBVIOUS
<1>14. GroupsSeen(d)'
  BY <1>4, <1>7, <1>8, <1>9, <1>10, <1>11, <1>13, Zenon DEF GroupsSeen, items, set, n
<1> QED
  BY <1>12, <1>13, <1>14 DEF n, items

LEMMA SeenNext == ASSUME L!NoneWraps PROVE SeenInv /\ [L!Next]_L!vars => SeenInv'
<1> SUFFICES ASSUME SeenInv, [L!Next]_L!vars PROVE SeenInv'
  OBVIOUS
<1>1. loop \in Loops /\ ipc \in {"loop", "left"}
  BY DEF SeenInv
<1>2. CASE UNCHANGED L!vars
  BY <1>2, Zenon DEF L!vars, SeenInv, GroupsSeen
<1>3. CASE L!Turn /\ loop.kind = "Group"
  <2>1. /\ ipc = "loop" /\ L!NotEqual(loop, cursor, L!End(loop))
        /\ out' = Append(out, L!Deref(loop, cursor)) /\ cursor' = L!Advance(loop, cursor)
        /\ loop' = loop /\ ipc' = ipc
    BY <1>3 DEF L!Turn
  <2>2. PICK g \in 0 .. Len(loop.over.items) : GroupsSeen(g)
    BY <1>3 DEF SeenInv
  <2>3. g # Len(loop.over.items)
    BY <1>3, <2>1, <2>2 DEF GroupsSeen, L!NotEqual, L!End, L!GroupAt
  <2>4. \E c \in 0 .. Len(loop.over.items) : GroupsSeen(c)'
    BY <1>1, <1>3, <2>1, <2>2, <2>3, GroupTurn
  <2> QED
    BY <1>1, <1>3, <2>1, <2>4 DEF SeenInv
<1>4. CASE L!Turn /\ loop.kind # "Group"
  <2>1. /\ ipc = "loop" /\ L!NotEqual(loop, cursor, L!End(loop))
        /\ out' = Append(out, L!Deref(loop, cursor)) /\ cursor' = L!Advance(loop, cursor)
        /\ loop' = loop /\ ipc' = ipc
    BY <1>4 DEF L!Turn
  <2>2. PICK k \in 0 .. Len(AllOf(loop)) : cursor = Place(loop, k) /\ out = SubSeq(AllOf(loop), 1, k)
    BY <1>4 DEF SeenInv
  <2>3. PICK U : AllOf(loop) \in Seq(U)
    BY <1>1, <1>4, LoopGoes
  <2>4. /\ Len(AllOf(loop)) \in Nat
        /\ L!NotEqual(loop, Place(loop, k), L!End(loop)) <=> k < Len(AllOf(loop))
    BY <1>1, <1>4, LoopGoes
  <2>5. k < Len(AllOf(loop)) /\ k \in Nat /\ k + 1 \in 0 .. Len(AllOf(loop))
    BY <2>1, <2>2, <2>4
  <2>6. /\ L!Advance(loop, Place(loop, k)) = Place(loop, k + 1)
        /\ L!Deref(loop, Place(loop, k)) = AllOf(loop)[k + 1]
    BY <1>1, <1>4, <2>5, LoopGoes
  <2>7. out' = SubSeq(AllOf(loop), 1, k + 1)
    BY <2>1, <2>2, <2>3, <2>5, <2>6, SeqSeenNext
  <2>8. cursor' = Place(loop', k + 1) /\ AllOf(loop') = AllOf(loop)
    BY <2>1, <2>2, <2>6
  <2> QED
    BY <1>1, <1>4, <2>1, <2>5, <2>7, <2>8 DEF SeenInv
<1>5. CASE L!Leave
  <2>1. /\ ipc = "loop" /\ ~L!NotEqual(loop, cursor, L!End(loop))
        /\ loop' = loop /\ cursor' = cursor /\ out' = out /\ ipc' = "left"
    BY <1>5 DEF L!Leave
  <2>2. CASE loop.kind = "Group"
    <3>1. PICK g \in 0 .. Len(loop.over.items) : GroupsSeen(g)
      BY <2>2 DEF SeenInv
    <3>2. g = Len(loop.over.items)
      BY <2>1, <2>2, <3>1 DEF GroupsSeen, L!NotEqual, L!End, L!GroupAt
    <3>3. GroupsSeen(g)'
      BY <2>1, <3>1 DEF GroupsSeen
    <3> QED
      BY <1>1, <2>1, <2>2, <3>2, <3>3 DEF SeenInv
  <2>3. CASE loop.kind # "Group"
    <3>1. PICK k \in 0 .. Len(AllOf(loop)) :
             cursor = Place(loop, k) /\ out = SubSeq(AllOf(loop), 1, k)
      BY <2>3 DEF SeenInv
    <3>2. /\ Len(AllOf(loop)) \in Nat
          /\ L!NotEqual(loop, Place(loop, k), L!End(loop)) <=> k < Len(AllOf(loop))
      BY <1>1, <2>3, LoopGoes
    <3>3. k = Len(AllOf(loop))
      BY <2>1, <3>1, <3>2
    <3> QED
      BY <1>1, <2>1, <2>3, <3>1, <3>3 DEF SeenInv
  <2> QED
    BY <2>2, <2>3
<1> QED
  BY <1>2, <1>3, <1>4, <1>5 DEF L!Next

LEMMA LoopsRight == ASSUME L!NoneWraps PROVE SeenInv => L!LoopsExact
<1> SUFFICES ASSUME SeenInv, ipc = "left" PROVE L!LoopsExact
  BY DEF L!LoopsExact
<1>1. loop \in Loops
  BY DEF SeenInv
<1>2. CASE loop.kind = "Group"
  <2> DEFINE items == loop.over.items
  <2>1. GroupsSeen(Len(items))
    BY <1>2 DEF SeenInv
  <2>2. items \in Seq(ItemsOf(loop.over))
    BY <1>1, <1>2, GroupFacts
  <2>3. SubSeq(items, 1, Len(items)) = items
    BY <2>2, SubSeqFull
  <2>4. L!FlattenSeq(out) = FlattenSeq(out)
    BY Zenon DEF L!FlattenSeq, FlattenSeq
  <2> QED
    BY <1>2, <2>1, <2>3, <2>4 DEF L!LoopsExact, GroupsSeen
<1>3. CASE loop.kind # "Group"
  <2>1. PICK U : AllOf(loop) \in Seq(U)
    BY <1>1, <1>3, LoopGoes
  <2>2. out = SubSeq(AllOf(loop), 1, Len(AllOf(loop)))
    BY <1>3 DEF SeenInv
  <2>3. out = AllOf(loop)
    BY <2>1, <2>2, SubSeqFull
  <2> QED
    BY <1>3, <2>3, Zenon DEF L!LoopsExact, AllOf, Pairs
<1> QED
  BY <1>2, <1>3

(* Every for loop over a Range, a Group or a Zip sees what it should, and   *)
(* ReadAll reads every whole record of a file, for every iterable in which  *)
(* a size_t holds the step past a Range's end and every stream.             *)
THEOREM LoopsSeeAll ==
  ASSUME L!NoneWraps
  PROVE  Spec => []LoopsExact
<1> DEFINE Inv == (job = "Itertools" => SeenInv) /\ (job = "Trades" => RecordsInv)
<1>1. Init => Inv
  BY SeenInit, RecordsInit DEF Init
<1>2. Inv /\ [Next]_vars => Inv'
  BY SeenNext, RecordsNext, StepOfJob
<1>3. Inv => LoopsExact
  BY LoopsRight, RecordsRight DEF LoopsExact
<1> QED
  BY <1>1, <1>2, <1>3, PTL DEF Spec

-----------------------------------------------------------------------------
(* Recursions over 1 .. n in which a value follows from the one before.     *)

IsRun(f, n, first, Step) ==
    f = [i1 \in 0 .. n |-> IF i1 = 0 THEN first ELSE Step[i1][f[i1 - 1]]]

(* A run at one place, and that there is one.                               *)
LEMMA RunAt ==
  ASSUME NEW n \in Nat, NEW f, NEW first, NEW Step, IsRun(f, n, first, Step), NEW i1 \in 0 .. n
  PROVE  f[i1] = IF i1 = 0 THEN first ELSE Step[i1][f[i1 - 1]]
<1> DEFINE g == [l \in 0 .. n |-> IF l = 0 THEN first ELSE Step[l][f[l - 1]]]
<1>1. f = g
  BY Zenon DEF IsRun
<1>2. g[i1] = IF i1 = 0 THEN first ELSE Step[i1][f[i1 - 1]]
  OBVIOUS
<1> HIDE DEF g
<1> QED
  BY <1>1, <1>2, Zenon

LEMMA RunExists ==
  ASSUME NEW first, NEW Step
  PROVE  \A n \in Nat : \E f : IsRun(f, n, first, Step)
<1> DEFINE Held == {n \in Nat : \E f : IsRun(f, n, first, Step)}
<1>1. 0 \in Held
  <2>1. IsRun([i1 \in 0 .. 0 |-> first], 0, first, Step)
    BY DEF IsRun
  <2> QED
    BY <2>1
<1>2. ASSUME NEW n \in Nat, n \in Held PROVE n + 1 \in Held
  <2>1. PICK f : IsRun(f, n, first, Step)
    BY <1>2
  <2> DEFINE g == [i1 \in 0 .. n + 1 |-> IF i1 = n + 1 THEN Step[i1][f[n]] ELSE f[i1]]
             Value(i1) == IF i1 = 0 THEN first ELSE Step[i1][g[i1 - 1]]
  <2>2. ASSUME NEW i1 \in 0 .. n + 1 PROVE g[i1] = Value(i1)
    <3>1. CASE i1 = n + 1
      <4>1. i1 # 0 /\ i1 - 1 = n /\ n \in 0 .. n + 1 /\ n # n + 1
        BY <3>1
      <4>2. g[i1] = Step[i1][f[n]] /\ g[n] = f[n]
        BY <3>1, <4>1
      <4> HIDE DEF g
      <4> QED
        BY <4>1, <4>2
    <3>2. CASE i1 # n + 1
      <4>1. i1 \in 0 .. n /\ (i1 # 0 => i1 - 1 \in 0 .. n + 1 /\ i1 - 1 # n + 1)
        BY <3>2
      <4>2. f[i1] = IF i1 = 0 THEN first ELSE Step[i1][f[i1 - 1]]
        BY <2>1, <4>1, RunAt
      <4>3. g[i1] = f[i1] /\ (i1 # 0 => g[i1 - 1] = f[i1 - 1])
        BY <3>2, <4>1
      <4> HIDE DEF g
      <4> QED
        BY <4>2, <4>3
    <3> QED
      BY <3>1, <3>2
  <2>3. g = [i1 \in 0 .. n + 1 |-> g[i1]]
    OBVIOUS
  <2> HIDE DEF g
  <2>4. g = [i1 \in 0 .. n + 1 |-> Value(i1)]
    BY <2>2, <2>3, Zenon
  <2>5. IsRun(g, n + 1, first, Step)
    BY <2>4, Zenon DEF IsRun
  <2> QED
    BY <2>5
<1> HIDE DEF Held
<1>3. Nat \subseteq Held
  BY <1>1, <1>2, NatSetInduction
<1> QED
  BY <1>3, Zenon DEF Held

-----------------------------------------------------------------------------
(* A finite set of numbers with all below its members is an interval.       *)
LEMMA InitialSegment ==
  ASSUME NEW n \in Nat, NEW ns \in SUBSET (1 .. n), \A k \in ns : \A l \in 1 .. k : l \in ns
  PROVE  ns = 1 .. Cardinality(ns) /\ Cardinality(ns) \in 0 .. n
<1> DEFINE rest == (1 .. n + 1) \ ns
<1>1. rest \in SUBSET Nat /\ n + 1 \in rest
  OBVIOUS
<1> HIDE DEF rest
<1>2. PICK m \in rest : \A y \in rest : m <= y
  <2>1. rest # {}
    BY <1>1
  <2> QED
    BY <1>1, <2>1, NatMinimum
<1>3. m \in 1 .. n + 1 /\ m \notin ns
  BY <1>2 DEF rest
<1>4. ASSUME NEW k \in 1 .. n PROVE k \in ns <=> k < m
  <2>1. k \in ns => k < m
    <3>1. SUFFICES ASSUME k \in ns, ~(k < m) PROVE FALSE
      OBVIOUS
    <3>2. m \in 1 .. k
      BY <1>3, <3>1
    <3> QED
      BY <1>3, <3>1, <3>2
  <2>2. k < m => k \in ns
    <3>1. SUFFICES ASSUME k < m, k \notin ns PROVE FALSE
      OBVIOUS
    <3>2. k \in rest
      BY <3>1 DEF rest
    <3>3. m <= k
      BY <1>2, <3>2
    <3> QED
      BY <1>3, <3>1, <3>3
  <2> QED
    BY <2>1, <2>2
<1>5. ns = 1 .. m - 1
  <2>1. \A k : k \in 1 .. m - 1 <=> k \in 1 .. n /\ k < m
    BY <1>3
  <2>2. \A k : k \in ns => k \in 1 .. n
    OBVIOUS
  <2> QED
    BY <1>4, <2>1, <2>2, Zenon
<1>6. Cardinality(1 .. m - 1) = m - 1
  BY <1>3, FS_Interval
<1> QED
  BY <1>3, <1>5, <1>6

StrictOrder(n, less) ==
    /\ \A i1, j \in 1 .. n : <<i1, j>> \in less => <<j, i1>> \notin less
    /\ \A i1, j, k \in 1 .. n : <<i1, j>> \in less /\ <<j, k>> \in less => <<i1, k>> \in less
    /\ \A i1, j \in 1 .. n : i1 # j => <<i1, j>> \in less \/ <<j, i1>> \in less

RankIn(n, less, rank) ==
    rank = [i1 \in 1 .. n |-> Cardinality({j \in 1 .. n : <<j, i1>> \in less}) + 1]

(* The places are those of the order, each taken once.                      *)
Ranked(n, less, rank) ==
    /\ rank \in [1 .. n -> 1 .. n]
    /\ \A i1, j \in 1 .. n : <<i1, j>> \in less <=> rank[i1] < rank[j]
    /\ \A i1, j \in 1 .. n : rank[i1] = rank[j] => i1 = j
    /\ \A k \in 1 .. n : \E i1 \in 1 .. n : rank[i1] = k

(* Places in a strict total order of 1 .. n, each one behind the number of  *)
(* elements that come before.                                               *)
LEMMA Ranks ==
  ASSUME NEW n \in Nat, NEW less, StrictOrder(n, less),
         NEW rank, RankIn(n, less, rank)
  PROVE  Ranked(n, less, rank)
<1> DEFINE before(i1) == {j \in 1 .. n : <<j, i1>> \in less}
<1>1. IsFiniteSet(1 .. n) /\ Cardinality(1 .. n) = n
  <2>1. n = 0 => IF 1 > n THEN TRUE ELSE n - 1 + 1 = n
    OBVIOUS
  <2> QED
    BY FS_Interval
<1>2. ASSUME NEW i1 \in 1 .. n
      PROVE  /\ IsFiniteSet(before(i1)) /\ Cardinality(before(i1)) \in 0 .. n - 1
             /\ rank[i1] = Cardinality(before(i1)) + 1
  <2>1. before(i1) \in SUBSET (1 .. n) /\ i1 \notin before(i1)
    BY DEF StrictOrder
  <2>2. rank[i1] = Cardinality(before(i1)) + 1
    BY DEF RankIn
  <2> HIDE DEF before
  <2>3. IsFiniteSet(before(i1)) /\ Cardinality(before(i1)) <= n /\ Cardinality(before(i1)) # n
    BY <1>1, <2>1, FS_Subset
  <2>4. Cardinality(before(i1)) \in Nat
    BY <2>3, FS_CardinalityType
  <2> QED
    BY <2>2, <2>3, <2>4
<1>3. ASSUME NEW i1 \in 1 .. n, NEW j \in 1 .. n, <<i1, j>> \in less PROVE rank[i1] < rank[j]
  <2>1. before(i1) \in SUBSET before(j) /\ i1 \in before(j) /\ i1 \notin before(i1)
    BY <1>3 DEF StrictOrder
  <2> HIDE DEF before
  <2>2. /\ Cardinality(before(i1)) <= Cardinality(before(j))
        /\ Cardinality(before(i1)) # Cardinality(before(j))
    BY <1>2, <2>1, FS_Subset
  <2> QED
    BY <1>2, <2>2
<1>4. rank \in [1 .. n -> 1 .. n]
  <2> HIDE DEF before
  <2>1. \A i1 \in 1 .. n : rank[i1] \in 1 .. n
    BY <1>2
  <2>2. rank = [i1 \in 1 .. n |-> rank[i1]]
    BY DEF RankIn
  <2> QED
    BY <2>1, <2>2, Zenon
<1>5. ASSUME NEW i1 \in 1 .. n, NEW j \in 1 .. n PROVE rank[i1] = rank[j] => i1 = j
  <2>1. rank[i1] \in 1 .. n /\ rank[j] \in 1 .. n
    BY <1>4
  <2>2. rank[i1] = rank[j] => ~(rank[i1] < rank[j]) /\ ~(rank[j] < rank[i1])
    BY <2>1
  <2> QED
    BY <1>3, <2>2, Zenon DEF StrictOrder
<1>6. ASSUME NEW i1 \in 1 .. n, NEW j \in 1 .. n PROVE <<i1, j>> \in less <=> rank[i1] < rank[j]
  <2>1. rank[i1] \in 1 .. n /\ rank[j] \in 1 .. n
    BY <1>4
  <2>2. rank[i1] < rank[j] => i1 # j /\ ~(rank[j] < rank[i1])
    BY <2>1
  <2> QED
    BY <1>3, <2>2, Zenon DEF StrictOrder
<1>7. rank \in Surjection(1 .. n, 1 .. n)
  <2>1. rank \in Injection(1 .. n, 1 .. n)
    BY <1>4, <1>5 DEF Injection, IsInjective
  <2> QED
    BY <1>1, <2>1, FS_Injection
<1>8. \A k \in 1 .. n : \E i1 \in 1 .. n : rank[i1] = k
  BY <1>7 DEF Surjection
<1> QED
  BY <1>4, <1>5, <1>6, <1>8 DEF Ranked

-----------------------------------------------------------------------------
(* What \div and % are.                                                     *)
LEMMA Remainder ==
  ASSUME NEW a \in Int, NEW b \in Nat \ {0}
  PROVE  /\ a \div b \in Int /\ a % b \in 0 .. b - 1
         /\ a = b * (a \div b) + (a % b)
OBVIOUS

(* The only multiple of b that is less than b is zero.                      *)
LEMMA SmallMultiple ==
  ASSUME NEW z \in Int, NEW b \in Nat \ {0}, NEW d \in Int, d = b * z, -b < d, d < b
  PROVE  d = 0
<1>1. CASE z = 0
  BY <1>1
<1>2. CASE z >= 1
  <2>1. b * z = b + b * (z - 1) /\ z - 1 \in Nat
    BY <1>2
  <2>2. b * (z - 1) \in Nat
    BY <2>1
  <2> QED
    BY <2>1, <2>2
<1>3. CASE z <= -1
  <2>1. b * z = -b - b * (-z - 1) /\ -z - 1 \in Nat
    BY <1>3
  <2>2. b * (-z - 1) \in Nat
    BY <2>1
  <2> QED
    BY <2>1, <2>2
<1> QED
  BY <1>1, <1>2, <1>3

-----------------------------------------------------------------------------
(* f[k] is the sum of the first k of the numbers w.                         *)

IsSum(f, n, w) ==
    /\ f \in [0 .. n -> Int] /\ f[0] = 0
    /\ \A k \in 1 .. n : f[k] = f[k - 1] + w[k]

(* A run over the integers, whatever its steps.                             *)
LEMMA RunOfInts ==
  ASSUME NEW n \in Nat, NEW Step \in [1 .. n -> [Int -> Int]]
  PROVE  \E f \in [0 .. n -> Int] : f[0] = 0 /\ \A k \in 1 .. n : f[k] = Step[k][f[k - 1]]
<1>1. PICK f : IsRun(f, n, 0, Step)
  BY RunExists
<1>2. f[0] = 0 /\ \A k \in 1 .. n : f[k] = Step[k][f[k - 1]]
  <2>1. 0 \in 0 .. n
    OBVIOUS
  <2>2. f[0] = 0
    BY <1>1, <2>1, RunAt
  <2>3. ASSUME NEW k \in 1 .. n PROVE f[k] = Step[k][f[k - 1]]
    <3>1. k \in 0 .. n /\ k # 0
      OBVIOUS
    <3> QED
      BY <1>1, <3>1, RunAt
  <2> QED
    BY <2>2, <2>3
<1> DEFINE Held == {k \in Nat : k <= n => f[k] \in Int}
<1>3. 0 \in Held
  BY <1>2
<1>4. ASSUME NEW k \in Nat, k \in Held PROVE k + 1 \in Held
  <2>1. CASE k + 1 <= n
    <3>1. k + 1 \in 1 .. n /\ (k + 1) - 1 = k /\ f[k] \in Int
      BY <1>4, <2>1
    <3>2. f[k + 1] = Step[k + 1][f[k]]
      BY <1>2, <3>1
    <3>3. Step[k + 1] \in [Int -> Int]
      BY <3>1
    <3>4. f[k + 1] \in Int
      BY <3>1, <3>2, <3>3
    <3> QED
      BY <3>4
  <2>2. CASE ~(k + 1 <= n)
    BY <2>2
  <2> QED
    BY <2>1, <2>2
<1>5. \A k \in 0 .. n : f[k] \in Int
  <2> HIDE DEF Held
  <2>1. Nat \subseteq Held
    BY <1>3, <1>4, NatSetInduction
  <2> QED
    BY <2>1 DEF Held
<1>6. f = [k \in 0 .. n |-> f[k]]
  BY <1>1 DEF IsRun
<1>7. f \in [0 .. n -> Int]
  BY <1>5, <1>6, Zenon
<1> QED
  BY <1>2, <1>7

(* Integers have sums.                                                      *)
LEMMA SumExists ==
  ASSUME NEW n \in Nat, NEW w \in [1 .. n -> Int]
  PROVE  \E f : IsSum(f, n, w)
<1> DEFINE Step == [k \in 1 .. n |-> [x \in Int |-> x + w[k]]]
<1>1. Step \in [1 .. n -> [Int -> Int]]
  OBVIOUS
<1>2. \A k \in 1 .. n, x \in Int : Step[k][x] = x + w[k]
  OBVIOUS
<1> HIDE DEF Step
<1>3. PICK f \in [0 .. n -> Int] : f[0] = 0 /\ \A k \in 1 .. n : f[k] = Step[k][f[k - 1]]
  BY <1>1, RunOfInts
<1>4. ASSUME NEW k \in 1 .. n PROVE f[k] = f[k - 1] + w[k]
  <2>1. f[k - 1] \in Int
    OBVIOUS
  <2> QED
    BY <1>2, <1>3, <2>1
<1> QED
  BY <1>3, <1>4 DEF IsSum

(* Sums of numbers that differ at one place.                                *)
AgreeBut(n, u, v, j) ==
    /\ u \in [1 .. n -> Int] /\ v \in [1 .. n -> Int] /\ j \in 1 .. n
    /\ \A k \in 1 .. n : k # j => u[k] = v[k]

LEMMA SumOneMore ==
  ASSUME NEW n \in Nat, NEW u, NEW v, NEW j, NEW f, NEW g,
         AgreeBut(n, u, v, j), IsSum(f, n, u), IsSum(g, n, v)
  PROVE  f[n] = g[n] + (u[j] - v[j])
<1>0. u \in [1 .. n -> Int] /\ v \in [1 .. n -> Int] /\ j \in 1 .. n
  BY DEF AgreeBut
<1> DEFINE Diff(k) == IF k < j THEN 0 ELSE u[j] - v[j]
           Held == {k \in Nat : k <= n => f[k] = g[k] + Diff(k)}
<1>1. f \in [0 .. n -> Int] /\ g \in [0 .. n -> Int] /\ f[0] = 0 /\ g[0] = 0
  BY DEF IsSum
<1>2. 0 \in Held
  BY <1>0, <1>1
<1>3. ASSUME NEW k \in Nat, k \in Held PROVE k + 1 \in Held
  <2>1. CASE k + 1 <= n
    <3>1. k + 1 \in 1 .. n /\ (k + 1) - 1 = k /\ k \in 0 .. n /\ f[k] = g[k] + Diff(k)
      BY <1>3, <2>1
    <3>2. f[k + 1] = f[k] + u[k + 1] /\ g[k + 1] = g[k] + v[k + 1]
      BY <3>1 DEF IsSum
    <3>3. /\ f[k] \in Int /\ g[k] \in Int /\ u[k + 1] \in Int /\ v[k + 1] \in Int
          /\ u[j] \in Int /\ v[j] \in Int /\ j \in Int
      <4>1. f[k] \in Int /\ g[k] \in Int
        BY <1>1, <3>1
      <4>2. u[k + 1] \in Int /\ v[k + 1] \in Int
        BY <1>0, <3>1
      <4>3. u[j] \in Int /\ v[j] \in Int /\ j \in Int
        BY <1>0
      <4> QED
        BY <4>1, <4>2, <4>3
    <3>4. CASE k + 1 < j
      <4>1. u[k + 1] = v[k + 1] /\ Diff(k) = 0 /\ Diff(k + 1) = 0
        BY <3>1, <3>4 DEF AgreeBut
      <4> QED
        BY <3>1, <3>2, <3>3, <4>1
    <3>5. CASE k + 1 = j
      <4>1. Diff(k) = 0 /\ Diff(k + 1) = u[k + 1] - v[k + 1]
        BY <3>1, <3>3, <3>5
      <4> HIDE DEF Diff
      <4> QED
        BY <3>1, <3>2, <3>3, <4>1
    <3>6. CASE k + 1 > j
      <4>1. u[k + 1] = v[k + 1] /\ Diff(k) = u[j] - v[j] /\ Diff(k + 1) = u[j] - v[j]
        BY <3>1, <3>6 DEF AgreeBut
      <4> QED
        BY <3>1, <3>2, <3>3, <4>1
    <3> QED
      BY <3>3, <3>4, <3>5, <3>6
  <2>2. CASE ~(k + 1 <= n)
    BY <2>2
  <2> QED
    BY <2>1, <2>2
<1>4. n \in Held
  <2> HIDE DEF Held
  <2> QED
    BY <1>2, <1>3, NatSetInduction
<1>5. f[n] = g[n] + Diff(n)
  BY <1>4
<1> QED
  BY <1>0, <1>5

(* Zeros sum up to zero.                                                    *)
LEMMA SumOfZeros ==
  ASSUME NEW n \in Nat, NEW w \in [1 .. n -> Int], \A k \in 1 .. n : w[k] = 0,
         NEW f, IsSum(f, n, w)
  PROVE  f[n] = 0
<1> DEFINE Held == {k \in Nat : k <= n => f[k] = 0}
<1>1. 0 \in Held
  BY DEF IsSum
<1>2. ASSUME NEW k \in Nat, k \in Held PROVE k + 1 \in Held
  BY <1>2 DEF IsSum
<1>3. n \in Held
  <2> HIDE DEF Held
  <2> QED
    BY <1>1, <1>2, NatSetInduction
<1> QED
  BY <1>3

(* v has the numbers w in another order: p[k] is the place of number k.     *)
Reordered(n, p, w, v) ==
    /\ p \in [1 .. n -> 1 .. n]
    /\ \A k, l \in 1 .. n : p[k] = p[l] => k = l
    /\ \A l \in 1 .. n : \E k \in 1 .. n : p[k] = l
    /\ \A k \in 1 .. n : v[p[k]] = w[k]

(* What is up to place b and not up to a sums up to a difference of sums.   *)
PartSums(n, w, p, s, a) ==
    \A b \in a .. n : \A f :
      IsSum(f, n, [k \in 1 .. n |-> IF a < p[k] /\ p[k] <= b THEN w[k] ELSE 0])
        => f[n] = s[b] - s[a]

LEMMA SumOfPart ==
  ASSUME NEW n \in Nat, NEW w \in [1 .. n -> Int], NEW v \in [1 .. n -> Int],
         NEW p, Reordered(n, p, w, v), NEW s, IsSum(s, n, v), NEW a \in 0 .. n
  PROVE  PartSums(n, w, p, s, a)
<1> DEFINE part(b) == [k \in 1 .. n |-> IF a < p[k] /\ p[k] <= b THEN w[k] ELSE 0]
           Fits(b) == \A f : IsSum(f, n, part(b)) => f[n] = s[b] - s[a]
           Held == {c \in Nat : a + c <= n => Fits(a + c)}
<1>1. s \in [0 .. n -> Int]
  BY DEF IsSum
<1>2. ASSUME NEW b \in Nat
      PROVE  /\ part(b) \in [1 .. n -> Int]
             /\ \A k \in 1 .. n : part(b)[k] = IF a < p[k] /\ p[k] <= b THEN w[k] ELSE 0
  OBVIOUS
<1>3. 0 \in Held
  <2>1. a + 0 = a /\ a \in Nat
    OBVIOUS
  <2>2. ASSUME NEW f, IsSum(f, n, part(a)) PROVE f[n] = s[a] - s[a]
    <3>1. \A k \in 1 .. n : part(a)[k] = 0
      <4>1. \A k \in 1 .. n : ~(a < p[k] /\ p[k] <= a)
        BY <2>1 DEF Reordered
      <4> QED
        BY <1>2, <2>1, <4>1
    <3>2. part(a) \in [1 .. n -> Int]
      BY <1>2, <2>1
    <3> HIDE DEF part
    <3>3. f[n] = 0
      BY <2>2, <3>1, <3>2, SumOfZeros
    <3> QED
      BY <1>1, <3>3
  <2> HIDE DEF part
  <2> QED
    BY <2>1, <2>2
<1>4. ASSUME NEW c \in Nat, c \in Held PROVE c + 1 \in Held
  <2> DEFINE b == a + c
  <2>1. a + (c + 1) = b + 1 /\ b \in Nat /\ a <= b
    OBVIOUS
  <2>2. ASSUME b + 1 <= n, NEW f, IsSum(f, n, part(b + 1)) PROVE f[n] = s[b + 1] - s[a]
    <3>1. Fits(b)
      <4> HIDE DEF Fits
      <4>1. b <= n
        BY <2>1, <2>2
      <4> QED
        BY <1>4, <4>1
    <3>2. PICK k \in 1 .. n : p[k] = b + 1
      <4>1. b + 1 \in 1 .. n
        BY <2>1, <2>2
      <4> QED
        BY <4>1 DEF Reordered
    <3>3. part(b) \in [1 .. n -> Int] /\ part(b + 1) \in [1 .. n -> Int]
      BY <1>2, <2>1
    <3>4. \A l \in 1 .. n : l # k => part(b + 1)[l] = part(b)[l]
      <4> SUFFICES ASSUME NEW l \in 1 .. n, l # k PROVE part(b + 1)[l] = part(b)[l]
        OBVIOUS
      <4>1. p[l] \in 1 .. n /\ p[l] # b + 1
        BY <3>2 DEF Reordered
      <4>2. p[l] <= b + 1 <=> p[l] <= b
        <5> HIDE DEF b
        <5> QED
          BY <2>1, <4>1
      <4> QED
        BY <4>2
    <3>5. part(b + 1)[k] = w[k] /\ part(b)[k] = 0
      BY <2>1, <3>2 DEF Reordered
    <3>6. s[b + 1] = s[b] + w[k]
      <4>1. b + 1 \in 1 .. n /\ (b + 1) - 1 = b
        BY <2>1, <2>2
      <4>2. v[b + 1] = w[k]
        BY <3>2 DEF Reordered
      <4> QED
        BY <4>1, <4>2 DEF IsSum
    <3>7. s[b] \in Int /\ s[a] \in Int /\ w[k] \in Int
      <4>1. b \in 0 .. n
        BY <2>1, <2>2
      <4> QED
        BY <1>1, <4>1
    <3> DEFINE new == part(b + 1)
               old == part(b)
    <3>8. IsSum(f, n, new) /\ \A g : IsSum(g, n, old) => g[n] = s[b] - s[a]
      BY <2>2, <3>1
    <3>9. /\ new \in [1 .. n -> Int] /\ old \in [1 .. n -> Int]
          /\ \A l \in 1 .. n : l # k => new[l] = old[l]
          /\ new[k] = w[k] /\ old[k] = 0
      BY <3>3, <3>4, <3>5
    <3> HIDE DEF new, old, b
    <3>10. PICK g : IsSum(g, n, old)
      BY <3>9, SumExists
    <3>11. f[n] = g[n] + (new[k] - old[k])
      <4>1. AgreeBut(n, new, old, k)
        BY <3>9 DEF AgreeBut
      <4>2. IsSum(f, n, new) /\ IsSum(g, n, old)
        BY <3>8, <3>10
      <4> QED
        BY <4>1, <4>2, SumOneMore, SMT
    <3>12. g[n] = s[b] - s[a]
      BY <3>8, <3>10
    <3>13. new[k] = w[k] /\ old[k] = 0
      BY <3>9
    <3>14. f[n] = (s[b] - s[a]) + (w[k] - 0)
      BY <3>11, <3>12, <3>13, Zenon
    <3> HIDE DEF new, old
    <3> QED
      BY <3>6, <3>7, <3>14
  <2>3. b + 1 <= n => Fits(b + 1)
    BY <2>2
  <2> HIDE DEF b, Fits
  <2> QED
    BY <2>1, <2>3
<1>5. ASSUME NEW b \in a .. n PROVE Fits(b)
  <2> HIDE DEF Held, Fits
  <2>1. Nat \subseteq Held
    BY <1>3, <1>4, NatSetInduction
  <2>2. b - a \in Nat /\ a + (b - a) = b /\ b <= n
    OBVIOUS
  <2>3. b - a \in Held
    BY <2>1, <2>2
  <2>4. a + (b - a) <= n => Fits(a + (b - a))
    BY <2>3 DEF Held
  <2> QED
    BY <2>2, <2>4
<1> QED
  BY <1>5 DEF PartSums

-----------------------------------------------------------------------------
(* TradeIndex.                                                              *)

TradeRecords == [price : Int, volume : Int, timestamp : Int]

(* The cardinality that Trades means is the library's.                      *)
LEMMA TradesLibrary == \A s : T!Cardinality(s) = Cardinality(s)
BY Zenon DEF T!Cardinality, Cardinality

(* The constructor sorts: trade k goes to place p[k].                       *)
SortedAs(n, p, ts, sorted) ==
    /\ p \in [1 .. n -> 1 .. n]
    /\ \A i1, j \in 1 .. n : p[i1] = p[j] => i1 = j
    /\ \A k \in 1 .. n : \E i1 \in 1 .. n : p[i1] = k
    /\ \A i1, j \in 1 .. n : T!Earlier(ts, i1, j) <=> p[i1] < p[j]
    /\ sorted \in [1 .. n -> TradeRecords]
    /\ \A i1 \in 1 .. n : sorted[p[i1]] = ts[i1]
    /\ \A k, l \in 1 .. n : k <= l => sorted[k].timestamp <= sorted[l].timestamp

(* trades_ is the trades in the order of time.                              *)
LEMMA TradesSorted ==
  ASSUME NEW ts \in Seq(TradeRecords)
  PROVE  \E p : SortedAs(Len(ts), p, ts, T!trades_(ts))
<1> DEFINE n == Len(ts)
           less == {ij \in (1 .. n) \X (1 .. n) : T!Earlier(ts, ij[1], ij[2])}
           p == [i1 \in 1 .. n |-> Cardinality({j \in 1 .. n : <<j, i1>> \in less}) + 1]
           sorted == T!trades_(ts)
<1>1. n \in Nat /\ DOMAIN ts = 1 .. n /\ \A i1 \in 1 .. n : ts[i1] \in TradeRecords
  OBVIOUS
<1>2. \A i1 \in 1 .. n : ts[i1].timestamp \in Int
  BY <1>1 DEF TradeRecords
<1>3. \A i1, j \in 1 .. n : <<i1, j>> \in less <=> T!Earlier(ts, i1, j)
  OBVIOUS
<1>4. StrictOrder(n, less)
  <2> HIDE DEF less, n
  <2>1. \A i1, j \in 1 .. n : T!Earlier(ts, i1, j) => ~T!Earlier(ts, j, i1)
    BY <1>1, <1>2 DEF T!Earlier
  <2>2. \A i1, j, k \in 1 .. n : T!Earlier(ts, i1, j) /\ T!Earlier(ts, j, k) => T!Earlier(ts, i1, k)
    BY <1>1, <1>2 DEF T!Earlier
  <2>3. \A i1, j \in 1 .. n : i1 # j => T!Earlier(ts, i1, j) \/ T!Earlier(ts, j, i1)
    BY <1>1, <1>2 DEF T!Earlier
  <2> QED
    BY <1>3, <2>1, <2>2, <2>3, Zenon DEF StrictOrder
<1>5. \A i1 \in 1 .. n : p[i1] = T!Place(ts, i1)
  <2> SUFFICES ASSUME NEW i1 \in 1 .. n PROVE p[i1] = T!Place(ts, i1)
    OBVIOUS
  <2>1. {j \in 1 .. n : <<j, i1>> \in less} = {j \in 1 .. n : T!Earlier(ts, j, i1)}
    BY <1>3
  <2>2. p[i1] = Cardinality({j \in 1 .. n : <<j, i1>> \in less}) + 1
    OBVIOUS
  <2> HIDE DEF p, less, n
  <2> QED
    BY <1>1, <2>1, <2>2, TradesLibrary, Zenon DEF T!Place
<1>6. /\ p \in [1 .. n -> 1 .. n]
      /\ \A i1, j \in 1 .. n : <<i1, j>> \in less <=> p[i1] < p[j]
      /\ \A i1, j \in 1 .. n : p[i1] = p[j] => i1 = j
      /\ \A k \in 1 .. n : \E i1 \in 1 .. n : p[i1] = k
  <2>1. RankIn(n, less, p)
    BY DEF RankIn
  <2> HIDE DEF p, less, n
  <2>2. Ranked(n, less, p)
    BY <1>1, <1>4, <2>1, Ranks, Zenon
  <2> QED
    BY <2>2, Zenon DEF Ranked
<1>7. \A i1, j \in 1 .. n : T!Earlier(ts, i1, j) <=> p[i1] < p[j]
  <2> HIDE DEF p, less, n
  <2> QED
    BY <1>3, <1>6, Zenon
<1> HIDE DEF p, less
<1>8. sorted = [k \in 1 .. n |-> ts[CHOOSE i1 \in 1 .. n : T!Place(ts, i1) = k]]
  BY <1>1 DEF T!trades_
<1>9. ASSUME NEW i1 \in 1 .. n PROVE sorted[p[i1]] = ts[i1]
  <2> HIDE DEF n, sorted
  <2>1. p[i1] \in 1 .. n
    BY <1>6
  <2>2. sorted[p[i1]] = ts[CHOOSE j \in 1 .. n : T!Place(ts, j) = p[i1]]
    BY <1>8, <2>1
  <2> DEFINE o == CHOOSE j \in 1 .. n : T!Place(ts, j) = p[i1]
  <2>3. o \in 1 .. n /\ T!Place(ts, o) = p[i1]
    BY <1>5, Zenon
  <2>4. o = i1
    BY <1>5, <1>6, <2>3, Zenon
  <2> QED
    BY <2>2, <2>4
<1> HIDE DEF n, sorted
<1>10. sorted \in [1 .. n -> TradeRecords]
  <2>1. ASSUME NEW k \in 1 .. n PROVE sorted[k] \in TradeRecords
    <3>1. PICK i1 \in 1 .. n : p[i1] = k
      BY <1>6
    <3>2. sorted[k] = ts[i1]
      BY <1>9, <3>1, Zenon
    <3> QED
      BY <1>1, <3>2
  <2>2. sorted = [k \in 1 .. n |-> sorted[k]]
    BY <1>8
  <2> QED
    BY <2>1, <2>2, Zenon
<1>11. ASSUME NEW k \in 1 .. n, NEW l \in 1 .. n, k <= l
       PROVE  sorted[k].timestamp <= sorted[l].timestamp
  <2>1. PICK i1 \in 1 .. n : p[i1] = k
    BY <1>6
  <2>2. PICK j \in 1 .. n : p[j] = l
    BY <1>6
  <2>3. sorted[k] = ts[i1] /\ sorted[l] = ts[j]
    BY <1>9, <2>1, <2>2, Zenon
  <2>4. ~(l < k)
    BY <1>11
  <2>5. ~T!Earlier(ts, j, i1)
    BY <1>3, <1>6, <2>1, <2>2, <2>4, Zenon DEF less
  <2> QED
    BY <1>2, <2>3, <2>5 DEF T!Earlier
<1>12. SortedAs(n, p, ts, sorted)
  BY <1>6, <1>7, <1>9, <1>10, <1>11, Zenon DEF SortedAs
<1> QED
  BY <1>12 DEF n, sorted

(* lower_bound: how many trades are before a time.                          *)
LEMMA LowerBoundIs ==
  ASSUME NEW n \in Nat, NEW sorted \in [1 .. n -> TradeRecords],
         \A k, l \in 1 .. n : k <= l => sorted[k].timestamp <= sorted[l].timestamp,
         NEW time \in Int
  PROVE  /\ T!lower_bound(sorted, time) \in 0 .. n
         /\ \A k \in 1 .. n : k <= T!lower_bound(sorted, time) <=> sorted[k].timestamp < time
<1> DEFINE before == {k \in 1 .. n : sorted[k].timestamp < time}
<1>1. DOMAIN sorted = 1 .. n /\ \A k \in 1 .. n : sorted[k].timestamp \in Int
  BY DEF TradeRecords
<1>2. T!lower_bound(sorted, time) = Cardinality(before)
  BY <1>1, TradesLibrary DEF T!lower_bound
<1>3. before \in SUBSET (1 .. n) /\ \A k \in before : \A l \in 1 .. k : l \in before
  <2>1. before \in SUBSET (1 .. n)
    OBVIOUS
  <2>2. ASSUME NEW k \in before, NEW l \in 1 .. k PROVE l \in before
    <3>1. l \in 1 .. n /\ k \in 1 .. n /\ l <= k /\ sorted[k].timestamp < time
      OBVIOUS
    <3>2. sorted[l].timestamp <= sorted[k].timestamp
      BY <3>1
    <3> QED
      BY <1>1, <3>1, <3>2
  <2> QED
    BY <2>1, <2>2
<1> DEFINE c == Cardinality(before)
<1>4. before = 1 .. c /\ c \in 0 .. n
  <2> HIDE DEF before
  <2> QED
    BY <1>3, InitialSegment
<1>5. \A k \in 1 .. n : k \in before <=> sorted[k].timestamp < time
  OBVIOUS
<1> HIDE DEF before, c
<1>6. \A k \in 1 .. n : k \in before <=> k <= c
  BY <1>4
<1> QED
  BY <1>2, <1>4, <1>5, <1>6 DEF c

-----------------------------------------------------------------------------
(* What the trades were worth, and those of a part of them.                 *)
Worth(n, sorted) == [k \in 1 .. n |-> sorted[k].price * sorted[k].volume]

Picked(ts, part) ==
    [k \in 1 .. Len(ts) |-> IF k \in part THEN ts[k].price * ts[k].volume ELSE 0]

(* SumOver is the sum over the trades of the part.                          *)
LEMMA SumOverIs ==
  ASSUME NEW ts \in Seq(TradeRecords), NEW part
  PROVE  \E f : IsSum(f, Len(ts), Picked(ts, part)) /\ T!SumOver(ts, part) = f[Len(ts)]
<1> DEFINE n == Len(ts)
           w == Picked(ts, part)
           Goes(h) == h = [i1 \in 0 .. n |->
                 IF i1 = 0 THEN 0
                 ELSE IF i1 \in part THEN h[i1 - 1] + ts[i1].price * ts[i1].volume
                 ELSE h[i1 - 1]]
           sum == CHOOSE h : Goes(h)
<1>1. n \in Nat /\ \A i1 \in 1 .. n : ts[i1] \in TradeRecords
  OBVIOUS
<1>2. w \in [1 .. n -> Int]
  BY <1>1 DEF TradeRecords, Picked
<1>3. PICK f : IsSum(f, n, w)
  <2> HIDE DEF n, w
  <2> QED
    BY <1>1, <1>2, SumExists
<1>4. f \in [0 .. n -> Int] /\ f[0] = 0 /\ \A k \in 1 .. n : f[k] = f[k - 1] + w[k]
  BY <1>3 DEF IsSum
<1>5. ASSUME NEW h, NEW i1 \in 1 .. n, h[i1 - 1] = f[i1 - 1]
      PROVE  f[i1] = IF i1 \in part THEN h[i1 - 1] + ts[i1].price * ts[i1].volume
                     ELSE h[i1 - 1]
  <2>1. w[i1] = IF i1 \in part THEN ts[i1].price * ts[i1].volume ELSE 0
    BY DEF Picked
  <2>2. f[i1] = f[i1 - 1] + w[i1] /\ f[i1 - 1] \in Int
    BY <1>4
  <2> HIDE DEF w, n
  <2> QED
    BY <1>5, <2>1, <2>2
<1>6. Goes(f)
  <2>1. ASSUME NEW i1 \in 0 .. n
        PROVE  f[i1] = IF i1 = 0 THEN 0
                       ELSE IF i1 \in part THEN f[i1 - 1] + ts[i1].price * ts[i1].volume
                       ELSE f[i1 - 1]
    <3>1. CASE i1 = 0
      BY <1>4, <3>1
    <3>2. CASE i1 # 0
      <4>1. i1 \in 1 .. n
        BY <3>2
      <4>2. f[i1] = IF i1 \in part THEN f[i1 - 1] + ts[i1].price * ts[i1].volume
                    ELSE f[i1 - 1]
        BY <1>5, <4>1
      <4> QED
        BY <3>2, <4>2
    <3> QED
      BY <3>1, <3>2
  <2>2. f = [i1 \in 0 .. n |-> f[i1]]
    BY <1>4
  <2> QED
    BY <2>1, <2>2, Zenon
<1>7. Goes(sum)
  <2> HIDE DEF Goes
  <2> QED
    BY <1>6, Zenon
<1>8. T!SumOver(ts, part) = sum[n]
  BY Zenon DEF T!SumOver
<1> HIDE DEF sum
<1>9. \A i1 \in 0 .. n : sum[i1] =
        IF i1 = 0 THEN 0
        ELSE IF i1 \in part THEN sum[i1 - 1] + ts[i1].price * ts[i1].volume
        ELSE sum[i1 - 1]
  <2> DEFINE Val(i1) == IF i1 = 0 THEN 0
                        ELSE IF i1 \in part THEN sum[i1 - 1] + ts[i1].price * ts[i1].volume
                        ELSE sum[i1 - 1]
  <2>1. sum = [i1 \in 0 .. n |-> Val(i1)]
    BY <1>7, Zenon
  <2>2. \A i1 \in 0 .. n : [j \in 0 .. n |-> Val(j)][i1] = Val(i1)
    <3> HIDE DEF Val
    <3> QED
      OBVIOUS
  <2>3. \A i1 \in 0 .. n : sum[i1] = Val(i1)
    <3> HIDE DEF Val
    <3> QED
      BY <2>1, <2>2, Zenon
  <2> QED
    BY <2>3, Zenon
<1> DEFINE Held == {k \in Nat : k <= n => sum[k] = f[k]}
<1>10. 0 \in Held
  <2>1. 0 \in 0 .. n
    BY <1>1
  <2>2. sum[0] = 0
    BY <1>9, <2>1
  <2> QED
    BY <1>4, <2>2
<1>11. ASSUME NEW k \in Nat, k \in Held PROVE k + 1 \in Held
  <2>1. CASE k + 1 <= n
    <3>1. k + 1 \in 1 .. n /\ k + 1 \in 0 .. n /\ k + 1 # 0 /\ (k + 1) - 1 = k /\ sum[k] = f[k]
      BY <1>11, <2>1
    <3> DEFINE i1 == k + 1
    <3>2. i1 \in 1 .. n /\ i1 \in 0 .. n /\ i1 # 0 /\ sum[i1 - 1] = f[i1 - 1]
      BY <3>1
    <3>3. sum[i1] = f[i1]
      <4> HIDE DEF i1, n
      <4> QED
        BY <1>5, <1>9, <3>2
    <3> QED
      BY <3>3
  <2>2. CASE ~(k + 1 <= n)
    BY <2>2
  <2> QED
    BY <2>1, <2>2
<1>12. sum[n] = f[n]
  <2> HIDE DEF Held
  <2>1. Nat \subseteq Held
    BY <1>10, <1>11, NatSetInduction
  <2>2. n \in Held
    BY <1>1, <2>1
  <2> QED
    BY <1>1, <2>2 DEF Held
<1> QED
  BY <1>3, <1>8, <1>12

(* Numbers of which an int64_t holds the sum are added.                     *)
LEMMA AddedIs ==
  ASSUME Undefined \notin Int, NEW x \in Int, NEW y \in Int, x + y \in T!Int64s
  PROVE  T!Added(x, y) = x + y
<1>1. Undefined # x /\ Undefined # y
  OBVIOUS
<1>2. Undefined \notin {x, y}
  BY <1>1
<1>3. T!Int64(x + y) = x + y
  BY Zenon DEF T!Int64
<1> QED
  BY <1>2, <1>3, Zenon DEF T!Added

(* pref_sum_ holds the sums, if an int64_t holds each of them.              *)
LEMMA SumsKept ==
  ASSUME Undefined \notin Int, NEW n \in Nat, NEW sorted \in [1 .. n -> TradeRecords],
         NEW s, IsSum(s, n, Worth(n, sorted)),
         \A k \in 1 .. n : s[k] \in T!Int64s /\ Worth(n, sorted)[k] \in T!Int64s
  PROVE  \A k \in 0 .. n : T!pref_sum_(sorted)[k] = s[k]
<1> DEFINE w == Worth(n, sorted)
           Goes(h) == h = [i1 \in 0 .. n |->
                 IF i1 = 0 THEN 0
                 ELSE T!Added(h[i1 - 1], T!Int64(sorted[i1].price * sorted[i1].volume))]
           sum == CHOOSE h : Goes(h)
<1>1. \A i1 \in 1 .. n : sorted[i1].price * sorted[i1].volume \in Int
  BY DEF TradeRecords
<1>2. w \in [1 .. n -> Int] /\ \A i1 \in 1 .. n : w[i1] = sorted[i1].price * sorted[i1].volume
  BY <1>1 DEF Worth
<1>3. s \in [0 .. n -> Int] /\ s[0] = 0 /\ \A k \in 1 .. n : s[k] = s[k - 1] + w[k]
  BY DEF IsSum
<1>4. \A k \in 1 .. n : s[k] \in T!Int64s /\ w[k] \in T!Int64s
  OBVIOUS
<1> HIDE DEF w
<1>5. ASSUME NEW k \in 1 .. n
      PROVE  s[k] = T!Added(s[k - 1], T!Int64(sorted[k].price * sorted[k].volume))
  <2>1. T!Int64(sorted[k].price * sorted[k].volume) = w[k]
    BY <1>2, <1>4, Zenon DEF T!Int64
  <2>2. s[k - 1] \in Int /\ w[k] \in Int /\ s[k - 1] + w[k] \in T!Int64s
    <3>1. s[k - 1] \in Int /\ w[k] \in Int
      BY <1>2, <1>3
    <3>2. s[k] = s[k - 1] + w[k]
      BY <1>3
    <3> QED
      BY <1>4, <3>1, <3>2, Zenon
  <2>3. T!Added(s[k - 1], w[k]) = s[k - 1] + w[k]
    BY <2>2, AddedIs
  <2> QED
    BY <1>3, <2>1, <2>3, Zenon
<1>6. Goes(s)
  <2>1. s = [i1 \in 0 .. n |-> s[i1]]
    BY <1>3
  <2>2. ASSUME NEW i1 \in 0 .. n
        PROVE  s[i1] = IF i1 = 0 THEN 0
                 ELSE T!Added(s[i1 - 1], T!Int64(sorted[i1].price * sorted[i1].volume))
    <3>1. i1 = 0 \/ i1 \in 1 .. n
      OBVIOUS
    <3> QED
      BY <1>3, <1>5, <3>1, Zenon
  <2> QED
    BY <2>1, <2>2, Zenon
<1>7. Goes(sum)
  <2> HIDE DEF Goes
  <2> QED
    BY <1>6, Zenon
<1>8. T!pref_sum_(sorted) = sum
  <2>1. Len(sorted) = n
    OBVIOUS
  <2> QED
    BY <2>1, Zenon DEF T!pref_sum_
<1> HIDE DEF sum
<1>9. /\ sum[0] = 0
      /\ \A i1 \in 1 .. n :
           sum[i1] = T!Added(sum[i1 - 1], T!Int64(sorted[i1].price * sorted[i1].volume))
  <2> DEFINE Val(i1) == IF i1 = 0 THEN 0
                 ELSE T!Added(sum[i1 - 1], T!Int64(sorted[i1].price * sorted[i1].volume))
  <2>1. sum = [i1 \in 0 .. n |-> Val(i1)]
    BY <1>7, Zenon
  <2>2. \A i1 \in 0 .. n : [j \in 0 .. n |-> Val(j)][i1] = Val(i1)
    <3> HIDE DEF Val
    <3> QED
      OBVIOUS
  <2>3. \A i1 \in 0 .. n : sum[i1] = Val(i1)
    <3> HIDE DEF Val
    <3> QED
      BY <2>1, <2>2, Zenon
  <2>4. 0 \in 0 .. n /\ \A i1 \in 1 .. n : i1 \in 0 .. n /\ i1 # 0
    OBVIOUS
  <2> QED
    BY <2>3, <2>4, Zenon
<1> HIDE DEF Goes
<1> DEFINE Held == {k \in Nat : k <= n => sum[k] = s[k]}
<1>10. 0 \in Held
  BY <1>3, <1>9
<1>11. ASSUME NEW k \in Nat, k \in Held PROVE k + 1 \in Held
  <2>1. CASE k + 1 <= n
    <3>1. k + 1 \in 1 .. n /\ (k + 1) - 1 = k /\ sum[k] = s[k]
      BY <1>11, <2>1
    <3> DEFINE i1 == k + 1
    <3>2. i1 \in 1 .. n /\ sum[i1 - 1] = s[i1 - 1]
      BY <3>1
    <3> HIDE DEF i1
    <3>3. sum[i1] = s[i1]
      BY <1>5, <1>9, <3>2, Zenon
    <3> QED
      BY <3>3 DEF i1
  <2>2. CASE ~(k + 1 <= n)
    BY <2>2
  <2> QED
    BY <2>1, <2>2
<1>12. \A k \in 0 .. n : sum[k] = s[k]
  <2> HIDE DEF Held
  <2>1. Nat \subseteq Held
    BY <1>10, <1>11, NatSetInduction
  <2> QED
    BY <2>1 DEF Held
<1> QED
  BY <1>8, <1>12, Zenon

(* The sum over the trades that the sort puts behind a place, up to another *)
(* one.                                                                     *)
LEMMA PartBetween ==
  ASSUME NEW ts \in Seq(TradeRecords), NEW p, NEW s, NEW part,
         SortedAs(Len(ts), p, ts, T!trades_(ts)),
         IsSum(s, Len(ts), Worth(Len(ts), T!trades_(ts))),
         NEW a \in 0 .. Len(ts), NEW b \in a .. Len(ts),
         \A k \in 1 .. Len(ts) : k \in part <=> a < p[k] /\ p[k] <= b
  PROVE  T!SumOver(ts, part) = s[b] - s[a]
<1> DEFINE n == Len(ts)
           sorted == T!trades_(ts)
           w == Worth(n, ts)
           v == Worth(n, sorted)
<1>1. n \in Nat /\ \A i1 \in 1 .. n : ts[i1] \in TradeRecords
  OBVIOUS
<1>2. PICK f : IsSum(f, n, Picked(ts, part)) /\ T!SumOver(ts, part) = f[n]
  BY SumOverIs
<1>3. Picked(ts, part) = [k \in 1 .. n |-> IF k \in part THEN ts[k].price * ts[k].volume ELSE 0]
  BY DEF Picked
<1>4. \A k \in 1 .. n : k \in part <=> a < p[k] /\ p[k] <= b
  OBVIOUS
<1>5. SortedAs(n, p, ts, sorted) /\ IsSum(s, n, v) /\ a \in 0 .. n /\ b \in a .. n
  OBVIOUS
<1> HIDE DEF n, sorted
<1>6. w \in [1 .. n -> Int] /\ \A k \in 1 .. n : w[k] = ts[k].price * ts[k].volume
  <2>1. \A k \in 1 .. n : ts[k].price * ts[k].volume \in Int
    BY <1>1 DEF TradeRecords
  <2> QED
    BY <2>1 DEF Worth
<1>7. v \in [1 .. n -> Int] /\ \A k \in 1 .. n : v[p[k]] = w[k]
  <2>1. sorted \in [1 .. n -> TradeRecords] /\ p \in [1 .. n -> 1 .. n]
        /\ \A k \in 1 .. n : sorted[p[k]] = ts[k]
    BY <1>5 DEF SortedAs
  <2>2. \A k \in 1 .. n : sorted[k].price * sorted[k].volume \in Int
    <3> SUFFICES ASSUME NEW k \in 1 .. n PROVE sorted[k].price * sorted[k].volume \in Int
      OBVIOUS
    <3>1. sorted[k].price \in Int /\ sorted[k].volume \in Int
      <4>1. sorted[k] \in TradeRecords
        BY <2>1
      <4> QED
        BY <4>1 DEF TradeRecords
    <3> QED
      BY <3>1
  <2>3. \A k \in 1 .. n : v[k] = sorted[k].price * sorted[k].volume
    BY DEF Worth
  <2>4. v \in [1 .. n -> Int]
    BY <2>2 DEF Worth
  <2>5. \A k \in 1 .. n : p[k] \in 1 .. n
    BY <2>1
  <2>6. \A k \in 1 .. n : v[p[k]] = w[k]
    BY <1>6, <2>1, <2>3, <2>5, Zenon
  <2> QED
    BY <2>4, <2>6
<1>8. Picked(ts, part) = [k \in 1 .. n |-> IF a < p[k] /\ p[k] <= b THEN w[k] ELSE 0]
  <2>1. ASSUME NEW k \in 1 .. n
        PROVE  (IF k \in part THEN ts[k].price * ts[k].volume ELSE 0)
               = (IF a < p[k] /\ p[k] <= b THEN w[k] ELSE 0)
    BY <1>4, <1>6, Zenon
  <2> QED
    BY <1>3, <2>1, Zenon
<1> HIDE DEF w, v
<1>9. Reordered(n, p, w, v)
  BY <1>5, <1>7, Zenon DEF SortedAs, Reordered
<1>10. PartSums(n, w, p, s, a)
  BY <1>1, <1>5, <1>6, <1>7, <1>9, SumOfPart
<1>11. f[n] = s[b] - s[a]
  <2>1. IsSum(f, n, [k \in 1 .. n |-> IF a < p[k] /\ p[k] <= b THEN w[k] ELSE 0])
    BY <1>2, <1>8, Zenon
  <2> QED
    BY <1>5, <1>10, <2>1, Zenon DEF PartSums
<1> QED
  BY <1>2, <1>11, Zenon

-----------------------------------------------------------------------------
(* TotalVolume is the volume, if an int64_t can hold it: for trades in      *)
(* whatever order whose running sums in the order of time fit an int64_t,   *)
(* and every two times.                                                     *)
THEOREM SumsRight ==
  ASSUME NEW ts \in Seq(TradeRecords), NEW from \in Int, NEW to \in Int, from <= to
  PROVE  T!IndexExact(ts, from, to)
<1> DEFINE n == Len(ts)
           sorted == T!trades_(ts)
           sums == T!pref_sum_(sorted)
           a == T!lower_bound(sorted, from)
           b == T!lower_bound(sorted, to)
           v == Worth(n, sorted)
           volume == T!Volume(ts, from, to)
<1> SUFFICES ASSUME T!SumsFit(ts), volume \in T!Int64s
             PROVE  T!TotalVolume(ts, from, to) = volume
  BY DEF T!IndexExact, T!VolumeFits
<1>0. Undefined \notin Int
  BY AlgorithmsAssumption DEF T!TradesAssumption
<1>1. n \in Nat /\ DOMAIN ts = 1 .. n /\ \A i1 \in 1 .. n : ts[i1] \in TradeRecords
  OBVIOUS
<1>2. PICK p : SortedAs(n, p, ts, sorted)
  BY TradesSorted
<1>3. volume = T!SumOver(ts, {k \in 1 .. n : from <= ts[k].timestamp /\ ts[k].timestamp < to})
  BY <1>1, Zenon DEF T!Volume
<1>4. \A k \in 1 .. n :
        /\ ts[k].price * ts[k].volume \in T!Int64s
        /\ T!SumOver(ts, {j \in 1 .. n : j = k \/ T!Earlier(ts, j, k)}) \in T!Int64s
  BY <1>1, Zenon DEF T!SumsFit
<1> HIDE DEF volume
<1>5. /\ sorted \in [1 .. n -> TradeRecords] /\ p \in [1 .. n -> 1 .. n]
      /\ \A k, l \in 1 .. n : k <= l => sorted[k].timestamp <= sorted[l].timestamp
      /\ \A k \in 1 .. n : p[k] \in 1 .. n /\ sorted[p[k]] = ts[k]
      /\ \A l \in 1 .. n : \E k \in 1 .. n : p[k] = l
      /\ \A k, l \in 1 .. n : p[k] = p[l] => k = l
      /\ \A k, l \in 1 .. n : T!Earlier(ts, k, l) <=> p[k] < p[l]
  <2> HIDE DEF n, sorted
  <2> QED
    BY <1>2 DEF SortedAs
<1>6. PICK s : IsSum(s, n, v)
  <2> HIDE DEF n, sorted
  <2>1. v \in [1 .. n -> Int]
    BY <1>5 DEF TradeRecords, Worth
  <2> HIDE DEF v
  <2> QED
    BY <1>1, <2>1, SumExists
<1>7. \A c \in 0 .. n : s[c] \in Int
  BY <1>6 DEF IsSum
<1>8. s[0] = 0
  BY <1>6 DEF IsSum
<1>9. ASSUME NEW c \in 0 .. n, NEW d \in c .. n, NEW part,
             \A k \in 1 .. n : k \in part <=> c < p[k] /\ p[k] <= d
      PROVE  T!SumOver(ts, part) = s[d] - s[c]
  BY <1>2, <1>6, <1>9, PartBetween
(* An int64_t holds what each trade was worth, and each of the sums.        *)
<1>10. ASSUME NEW l \in 1 .. n PROVE s[l] \in T!Int64s /\ v[l] \in T!Int64s
  <2> HIDE DEF n, sorted
  <2>1. PICK k \in 1 .. n : p[k] = l
    BY <1>5
  <2>2. v[l] = ts[k].price * ts[k].volume
    <3>1. v[l] = sorted[l].price * sorted[l].volume
      BY DEF Worth
    <3>2. sorted[l] = ts[k]
      BY <1>5, <2>1, Zenon
    <3> QED
      BY <3>1, <3>2, Zenon
  <2> DEFINE part == {j \in 1 .. n : j = k \/ T!Earlier(ts, j, k)}
  <2>3. \A j \in 1 .. n : j \in part <=> 0 < p[j] /\ p[j] <= l
    <3> SUFFICES ASSUME NEW j \in 1 .. n PROVE j \in part <=> 0 < p[j] /\ p[j] <= l
      OBVIOUS
    <3>1. j \in part <=> j = k \/ p[j] < p[k]
      BY <1>5
    <3>2. p[j] \in 1 .. n /\ p[k] = l /\ (j = k <=> p[j] = p[k])
      BY <1>5, <2>1
    <3> HIDE DEF part
    <3> QED
      BY <1>1, <3>1, <3>2
  <2>4. T!SumOver(ts, part) \in T!Int64s
    BY <1>4
  <2>5. 0 \in 0 .. n /\ l \in 0 .. n
    BY <1>1
  <2> HIDE DEF part
  <2>6. T!SumOver(ts, part) = s[l] - s[0]
    BY <1>9, <2>3, <2>5
  <2>7. s[l] - s[0] = s[l]
    BY <1>7, <1>8, <2>5
  <2> QED
    BY <1>4, <2>2, <2>4, <2>6, <2>7
<1>11. \A c \in 0 .. n : sums[c] = s[c]
  <2> HIDE DEF n, sorted
  <2>1. /\ n \in Nat /\ sorted \in [1 .. n -> TradeRecords] /\ IsSum(s, n, Worth(n, sorted))
        /\ \A k \in 1 .. n : s[k] \in T!Int64s /\ Worth(n, sorted)[k] \in T!Int64s
    BY <1>1, <1>5, <1>6, <1>10, Zenon
  <2> HIDE DEF v, sums
  <2>2. \A k \in 0 .. n : T!pref_sum_(sorted)[k] = s[k]
    BY <1>0, <2>1, SumsKept
  <2> QED
    BY <2>2, Zenon DEF sums
<1>12. a \in 0 .. n /\ \A k \in 1 .. n : k <= a <=> sorted[k].timestamp < from
  <2> HIDE DEF n, sorted
  <2> QED
    BY <1>1, <1>5, LowerBoundIs
<1>13. b \in 0 .. n /\ \A k \in 1 .. n : k <= b <=> sorted[k].timestamp < to
  <2> HIDE DEF n, sorted
  <2> QED
    BY <1>1, <1>5, LowerBoundIs
<1>14. T!TotalVolume(ts, from, to) =
         IF sums[n] = Undefined THEN Undefined ELSE T!Int64(sums[b] - sums[a])
  BY DEF T!TotalVolume
<1> HIDE DEF n, sorted, sums, a, b, v
<1>15. a \in Int /\ b \in Int /\ b \in a .. n
  <2>1. CASE a = 0
    BY <1>12, <1>13, <2>1
  <2>2. CASE a # 0
    <3>1. a \in 1 .. n /\ a <= a
      BY <1>1, <1>12, <2>2
    <3>2. sorted[a].timestamp < from /\ sorted[a].timestamp \in Int
      <4>1. sorted[a].timestamp < from
        BY <1>12, <3>1
      <4>2. sorted[a] \in TradeRecords
        BY <1>5, <3>1
      <4> QED
        BY <4>1, <4>2 DEF TradeRecords
    <3>3. a <= b
      BY <1>13, <3>1, <3>2
    <3> QED
      BY <1>1, <1>12, <1>13, <3>3
  <2> QED
    BY <2>1, <2>2
<1> DEFINE chosen == {k \in 1 .. n : from <= ts[k].timestamp /\ ts[k].timestamp < to}
<1>16. \A k \in 1 .. n : k \in chosen <=> a < p[k] /\ p[k] <= b
  <2> SUFFICES ASSUME NEW k \in 1 .. n PROVE k \in chosen <=> a < p[k] /\ p[k] <= b
    OBVIOUS
  <2>1. k \in chosen <=> from <= ts[k].timestamp /\ ts[k].timestamp < to
    OBVIOUS
  <2>2. p[k] \in 1 .. n /\ sorted[p[k]] = ts[k]
    BY <1>5
  <2>3. ts[k].timestamp \in Int
    BY <1>1 DEF TradeRecords
  <2>4. p[k] <= a <=> ts[k].timestamp < from
    BY <1>12, <2>2
  <2>5. p[k] <= b <=> ts[k].timestamp < to
    BY <1>13, <2>2
  <2> HIDE DEF chosen
  <2> QED
    BY <1>1, <1>15, <2>1, <2>2, <2>3, <2>4, <2>5
<1>17. volume = s[b] - s[a]
  <2>1. T!SumOver(ts, chosen) = s[b] - s[a]
    <3> HIDE DEF chosen
    <3> QED
      BY <1>9, <1>12, <1>15, <1>16
  <2> QED
    BY <1>3, <2>1, Zenon
<1>18. sums[n] # Undefined /\ sums[b] - sums[a] = volume
  <2>1. n \in 0 .. n
    BY <1>1
  <2>2. sums[n] \in Int
    BY <1>7, <1>11, <2>1
  <2>3. sums[b] - sums[a] = volume
    BY <1>11, <1>12, <1>13, <1>17, Zenon
  <2> QED
    BY <1>0, <2>2, <2>3
<1> QED
  BY <1>14, <1>18, Zenon DEF T!Int64

-----------------------------------------------------------------------------
(* StaticMap.                                                               *)

(* Where the search ends in a range, if c items are below the key.          *)
Ends(r, c) == IF c + 1 < r[1] THEN r[1] ELSE IF c + 1 > r[2] THEN r[2] ELSE c + 1

Halves(n, below, h) ==
    \A first, last \in 1 .. n + 1 : first <= last =>
      h[<<first, last>>] =
        (IF first = last THEN first
         ELSE IF first + (last - first) \div 2 \in below
           THEN h[<<first + (last - first) \div 2 + 1, last>>]
         ELSE h[<<first, first + (last - first) \div 2>>])

(* The middle of a range is inside.                                         *)
LEMMA Middle ==
  ASSUME NEW first \in Int, NEW last \in Int, first < last
  PROVE  /\ first + (last - first) \div 2 \in Int
         /\ first <= first + (last - first) \div 2
         /\ first + (last - first) \div 2 < last
OBVIOUS

(* However a search by halving is made, it ends at the first place that is  *)
(* not below.                                                               *)
LEMMA SearchEnds ==
  ASSUME NEW n \in Nat, NEW c \in 0 .. n, NEW h, Halves(n, 1 .. c, h)
  PROVE  h[<<1, n + 1>>] = c + 1
<1> DEFINE Held == {d \in Nat : \A first, last \in 1 .. n + 1 :
                      first <= last /\ last - first <= d =>
                        h[<<first, last>>] = Ends(<<first, last>>, c)}
<1>1. ASSUME NEW first \in 1 .. n + 1
      PROVE  h[<<first, first>>] = Ends(<<first, first>>, c)
  <2>1. h[<<first, first>>] = first
    <3>1. first <= first
      OBVIOUS
    <3> QED
      BY <3>1, Zenon DEF Halves
  <2>2. Ends(<<first, first>>, c) = first
    BY DEF Ends
  <2> QED
    BY <2>1, <2>2
<1>2. 0 \in Held
  <2>1. ASSUME NEW first \in 1 .. n + 1, NEW last \in 1 .. n + 1, first <= last, last - first <= 0
        PROVE  h[<<first, last>>] = Ends(<<first, last>>, c)
    <3>1. first = last
      BY <2>1
    <3> QED
      BY <1>1, <3>1
  <2> QED
    BY <2>1
<1>3. ASSUME NEW d \in Nat, d \in Held PROVE d + 1 \in Held
  <2>1. ASSUME NEW first \in 1 .. n + 1, NEW last \in 1 .. n + 1,
               first < last, last - first <= d + 1
        PROVE  h[<<first, last>>] = Ends(<<first, last>>, c)
    <3> DEFINE m == first + (last - first) \div 2
    <3>1. m \in Int /\ first <= m /\ m < last
      <4>1. first \in Int /\ last \in Int
        OBVIOUS
      <4> QED
        BY <2>1, <4>1, Middle
    <3>2. h[<<first, last>>] = IF m \in 1 .. c THEN h[<<m + 1, last>>] ELSE h[<<first, m>>]
      <4>1. first <= last /\ first # last
        BY <2>1
      <4> QED
        BY <4>1 DEF Halves
    <3> HIDE DEF m
    <3>3. CASE m <= c
      <4>1. m + 1 \in 1 .. n + 1 /\ m + 1 <= last /\ last - (m + 1) <= d /\ m \in 1 .. c
        BY <2>1, <3>1, <3>3
      <4>2. h[<<m + 1, last>>] = Ends(<<m + 1, last>>, c)
        BY <1>3, <4>1
      <4>3. Ends(<<m + 1, last>>, c) = Ends(<<first, last>>, c)
        BY <3>1, <3>3 DEF Ends
      <4> QED
        BY <3>2, <4>1, <4>2, <4>3
    <3>4. CASE ~(m <= c)
      <4>1. m \in 1 .. n + 1 /\ first <= m /\ m - first <= d /\ m \notin 1 .. c
        BY <2>1, <3>1, <3>4
      <4>2. h[<<first, m>>] = Ends(<<first, m>>, c)
        BY <1>3, <4>1
      <4>3. Ends(<<first, m>>, c) = Ends(<<first, last>>, c)
        BY <3>1, <3>4 DEF Ends
      <4> QED
        BY <3>2, <4>1, <4>2, <4>3
    <3> QED
      BY <3>3, <3>4
  <2>2. ASSUME NEW first \in 1 .. n + 1, NEW last \in 1 .. n + 1,
               first <= last, last - first <= d + 1
        PROVE  h[<<first, last>>] = Ends(<<first, last>>, c)
    <3>1. first < last \/ first = last
      BY <2>2
    <3> QED
      BY <1>1, <2>1, <2>2, <3>1
  <2> QED
    BY <2>2
<1>4. n \in Held
  <2> HIDE DEF Held
  <2> QED
    BY <1>2, <1>3, NatSetInduction
<1>5. 1 \in 1 .. n + 1 /\ n + 1 \in 1 .. n + 1 /\ 1 <= n + 1 /\ (n + 1) - 1 <= n
  OBVIOUS
<1>6. h[<<1, n + 1>>] = Ends(<<1, n + 1>>, c)
  BY <1>4, <1>5
<1> QED
  BY <1>6 DEF Ends

(* Sorted items: those below a key come first, and lower_bound finds how    *)
(* many there are.                                                          *)
MapItems(Values) == [first : Int, second : Values]

(* lower_bound is that search.                                              *)
LEMMA BoundIs ==
  ASSUME NEW Values, NEW n \in Nat, NEW m \in [1 .. n -> MapItems(Values)], NEW key \in Int,
         NEW c \in 0 .. n, \A k \in 1 .. n : m[k].first < key <=> k <= c
  PROVE  M!lower_bound(m, key) = c + 1
<1> DEFINE Area == {r \in (1 .. n + 1) \X (1 .. n + 1) : r[1] <= r[2]}
           Body(h, r) == IF r[1] = r[2] THEN r[1]
             ELSE IF m[r[1] + (r[2] - r[1]) \div 2].first < key
               THEN h[<<r[1] + (r[2] - r[1]) \div 2 + 1, r[2]>>]
             ELSE h[<<r[1], r[1] + (r[2] - r[1]) \div 2>>]
           Goes(h) == h = [r \in Area |-> Body(h, r)]
           found == [r \in Area |-> Ends(r, c)]
           search == CHOOSE h : Goes(h)
<1>1. ASSUME NEW r \in Area
      PROVE  r[1] \in 1 .. n + 1 /\ r[2] \in 1 .. n + 1 /\ r[1] <= r[2] /\ r = <<r[1], r[2]>>
  OBVIOUS
<1>2. ASSUME NEW first \in 1 .. n + 1, NEW last \in 1 .. n + 1, first <= last
      PROVE  <<first, last>> \in Area
  BY <1>2
<1>3. \A r \in Area : found[r] = Ends(r, c)
  OBVIOUS
<1> HIDE DEF Area, found
<1>4. ASSUME NEW r \in Area PROVE Ends(r, c) = Body(found, r)
  <2> DEFINE f == r[1]
             l == r[2]
             mid == f + (l - f) \div 2
  <2>1. f \in 1 .. n + 1 /\ l \in 1 .. n + 1 /\ f <= l
    BY <1>1
  <2>2. Body(found, r) = IF f = l THEN f
                         ELSE IF m[mid].first < key THEN found[<<mid + 1, l>>]
                         ELSE found[<<f, mid>>]
    OBVIOUS
  <2>3. Ends(r, c) = IF c + 1 < f THEN f ELSE IF c + 1 > l THEN l ELSE c + 1
    BY DEF Ends
  <2> HIDE DEF Body, f, l
  <2>4. CASE f = l
    BY <2>1, <2>2, <2>3, <2>4
  <2>5. CASE f # l
    <3>1. mid \in Int /\ f <= mid /\ mid < l
      <4>1. f \in Int /\ l \in Int /\ f < l
        BY <2>1, <2>5
      <4> QED
        BY <4>1, Middle
    <3> HIDE DEF mid
    <3>2. mid \in 1 .. n
      BY <2>1, <3>1
    <3>3. CASE m[mid].first < key
      <4>1. mid <= c
        BY <3>2, <3>3
      <4>2. <<mid + 1, l>> \in Area
        BY <1>2, <2>1, <3>1, <3>2
      <4>3. found[<<mid + 1, l>>] = Ends(<<mid + 1, l>>, c)
        BY <1>3, <4>2
      <4>4. Ends(<<mid + 1, l>>, c) = Ends(r, c)
        BY <2>1, <2>3, <3>1, <4>1 DEF Ends
      <4> QED
        BY <2>2, <2>5, <3>3, <4>3, <4>4
    <3>4. CASE ~(m[mid].first < key)
      <4>1. ~(mid <= c)
        BY <3>2, <3>4
      <4>2. <<f, mid>> \in Area
        BY <1>2, <2>1, <3>1, <3>2
      <4>3. found[<<f, mid>>] = Ends(<<f, mid>>, c)
        BY <1>3, <4>2
      <4>4. Ends(<<f, mid>>, c) = Ends(r, c)
        BY <2>1, <2>3, <3>1, <4>1 DEF Ends
      <4> QED
        BY <2>2, <2>5, <3>4, <4>3, <4>4
    <3> QED
      BY <3>3, <3>4
  <2> QED
    BY <2>4, <2>5
<1>5. Goes(found)
  <2> HIDE DEF Body
  <2>1. found = [r \in Area |-> Ends(r, c)]
    BY DEF found
  <2> QED
    BY <1>4, <2>1, Zenon
<1>6. Goes(search)
  <2> HIDE DEF Goes
  <2> QED
    BY <1>5, Zenon
<1>7. M!lower_bound(m, key) = search[<<1, n + 1>>]
  <2>1. Len(m) = n
    OBVIOUS
  <2> QED
    BY <2>1, Zenon DEF M!lower_bound, M!Ranges, Area
<1> HIDE DEF search
<1>8. \A r \in Area : search[r] = Body(search, r)
  <2> HIDE DEF Body
  <2>1. \A r \in Area : [s \in Area |-> Body(search, s)][r] = Body(search, r)
    OBVIOUS
  <2> QED
    BY <1>6, <2>1, Zenon
<1> HIDE DEF Goes
<1>9. Halves(n, 1 .. c, search)
  <2> SUFFICES ASSUME NEW first \in 1 .. n + 1, NEW last \in 1 .. n + 1, first <= last
               PROVE  search[<<first, last>>] =
                        (IF first = last THEN first
                         ELSE IF first + (last - first) \div 2 \in 1 .. c
                           THEN search[<<first + (last - first) \div 2 + 1, last>>]
                         ELSE search[<<first, first + (last - first) \div 2>>])
    BY DEF Halves
  <2> DEFINE mid == first + (last - first) \div 2
  <2>1. search[<<first, last>>] =
          (IF first = last THEN first
           ELSE IF m[mid].first < key THEN search[<<mid + 1, last>>]
           ELSE search[<<first, mid>>])
    BY <1>2, <1>8
  <2>2. CASE first = last
    BY <2>1, <2>2
  <2>3. CASE first # last
    <3>1. mid \in Int /\ first <= mid /\ mid < last
      <4>1. first \in Int /\ last \in Int /\ first < last
        BY <2>3
      <4> QED
        BY <4>1, Middle
    <3> HIDE DEF mid
    <3>2. mid \in 1 .. n
      BY <3>1
    <3>3. m[mid].first < key <=> mid \in 1 .. c
      BY <3>2
    <3>4. search[<<first, last>>] =
            (IF first = last THEN first
             ELSE IF mid \in 1 .. c THEN search[<<mid + 1, last>>]
             ELSE search[<<first, mid>>])
      BY <2>1, <3>3, Zenon
    <3> QED
      BY <3>4 DEF mid
  <2> QED
    BY <2>2, <2>3
<1> QED
  BY <1>7, <1>9, SearchEnds

(* A vector whose neighbours are in order is in order.                      *)
LEMMA NeighboursSorted ==
  ASSUME NEW Values, NEW n \in Nat, NEW m \in [1 .. n -> MapItems(Values)],
         \A k \in 1 .. n - 1 : m[k].first <= m[k + 1].first
  PROVE  \A k, l \in 1 .. n : k <= l => m[k].first <= m[l].first
<1> DEFINE Held == {d \in Nat : \A k, l \in 1 .. n : l = k + d => m[k].first <= m[l].first}
<1>1. \A k \in 1 .. n : m[k].first \in Int
  BY DEF MapItems
<1>2. 0 \in Held
  BY <1>1
<1>3. ASSUME NEW d \in Nat, d \in Held PROVE d + 1 \in Held
  <2>1. ASSUME NEW k \in 1 .. n, NEW l \in 1 .. n, l = k + (d + 1)
        PROVE  m[k].first <= m[l].first
    <3>1. l - 1 \in 1 .. n /\ l - 1 = k + d /\ l - 1 \in 1 .. n - 1 /\ (l - 1) + 1 = l
      BY <2>1
    <3>2. m[k].first <= m[l - 1].first
      BY <1>3, <3>1
    <3>3. m[l - 1].first <= m[l].first
      BY <3>1
    <3> QED
      BY <1>1, <3>1, <3>2, <3>3
  <2> QED
    BY <2>1
<1>4. Nat \subseteq Held
  <2> HIDE DEF Held
  <2> QED
    BY <1>2, <1>3, NatSetInduction
<1>5. ASSUME NEW k \in 1 .. n, NEW l \in 1 .. n, k <= l PROVE m[k].first <= m[l].first
  <2>1. l - k \in Nat /\ l = k + (l - k)
    BY <1>5
  <2>2. l - k \in Held
    BY <1>4, <2>1
  <2> QED
    BY <2>1, <2>2
<1> QED
  BY <1>5

(* The first place of a sorted vector whose item is not below the key.      *)
LEMMA Boundary ==
  ASSUME NEW Values, NEW n \in Nat, NEW m \in [1 .. n -> MapItems(Values)],
         \A k, l \in 1 .. n : k <= l => m[k].first <= m[l].first, NEW key \in Int
  PROVE  \E c \in 0 .. n : \A k \in 1 .. n : m[k].first < key <=> k <= c
<1> DEFINE below == {k \in 1 .. n : m[k].first < key}
           c == Cardinality(below)
<1>1. \A k \in 1 .. n : m[k].first \in Int
  BY DEF MapItems
<1>2. below \in SUBSET (1 .. n) /\ \A k \in below : \A l \in 1 .. k : l \in below
  <2>1. ASSUME NEW k \in below, NEW l \in 1 .. k PROVE l \in below
    <3>1. l \in 1 .. n /\ k \in 1 .. n /\ l <= k /\ m[k].first < key
      OBVIOUS
    <3>2. m[l].first <= m[k].first
      BY <3>1
    <3> QED
      BY <1>1, <3>1, <3>2
  <2> QED
    BY <2>1
<1>3. below = 1 .. c /\ c \in 0 .. n
  <2> HIDE DEF below
  <2> QED
    BY <1>2, InitialSegment
<1>4. \A k \in 1 .. n : k \in below <=> m[k].first < key
  OBVIOUS
<1> HIDE DEF below, c
<1>5. \A k \in 1 .. n : k \in below <=> k <= c
  BY <1>3
<1> QED
  BY <1>3, <1>4, <1>5

(* Find gives a value that was paired with the key, or nothing if the key   *)
(* was not there: for every items, every order that the sort may leave and  *)
(* every key.                                                               *)
THEOREM KeysFound ==
  ASSUME NEW Values, NEW items \in Seq(MapItems(Values)), NEW key \in Int
  PROVE  M!MapExact(items, key)
<1> DEFINE n == Len(items)
           values == {items[k].second : k \in {k \in DOMAIN items : items[k].first = key}}
<1>1. n \in Nat /\ DOMAIN items = 1 .. n /\ items \in [1 .. n -> MapItems(Values)]
  OBVIOUS
<1>2. ASSUME NEW m \in M!sort_by_key(items)
      PROVE  IF values = {} THEN M!Find(m, key) = nullptr ELSE M!Find(m, key) \in values
  <2>1. PICK p \in [1 .. n -> 1 .. n] :
          /\ \A i1, j1 \in 1 .. n : p[i1] = p[j1] => i1 = j1
          /\ m = [k \in 1 .. n |-> items[p[k]]]
    BY DEF M!sort_by_key
  <2>2. \A k \in 1 .. n - 1 : m[k].first <= m[k + 1].first
    BY DEF M!sort_by_key
  <2> HIDE DEF n
  <2>3. m \in [1 .. n -> MapItems(Values)] /\ \A k \in 1 .. n : m[k] = items[p[k]]
    BY <1>1, <2>1
  <2>4. \A k, l \in 1 .. n : k <= l => m[k].first <= m[l].first
    BY <1>1, <2>2, <2>3, NeighboursSorted
  <2>5. PICK c \in 0 .. n : \A k \in 1 .. n : m[k].first < key <=> k <= c
    BY <1>1, <2>3, <2>4, Boundary
  <2>6. M!lower_bound(m, key) = c + 1
    BY <1>1, <2>3, <2>5, BoundIs
  <2>7. M!Find(m, key) = IF c + 1 <= n /\ m[c + 1].first = key THEN m[c + 1].second ELSE nullptr
    <3>1. Len(m) = n
      BY <1>1, <2>3
    <3> QED
      BY <2>6, <3>1 DEF M!Find
  <2>8. \A j1 \in 1 .. n : \E k \in 1 .. n : p[k] = j1
    <3>1. IsFiniteSet(1 .. n)
      BY <1>1, FS_Interval
    <3>2. p \in Injection(1 .. n, 1 .. n)
      BY <2>1 DEF Injection, IsInjective
    <3>3. p \in Surjection(1 .. n, 1 .. n)
      BY <3>1, <3>2, FS_Injection
    <3> QED
      BY <3>3 DEF Surjection
  <2>9. CASE c + 1 <= n /\ m[c + 1].first = key
    <3>1. c + 1 \in 1 .. n
      BY <1>1, <2>9
    <3>2. p[c + 1] \in 1 .. n /\ m[c + 1] = items[p[c + 1]]
      BY <2>1, <2>3, <3>1
    <3>3. items[p[c + 1]].second \in values
      BY <1>1, <2>9, <3>2
    <3> QED
      BY <2>7, <2>9, <3>2, <3>3
  <2>10. CASE ~(c + 1 <= n /\ m[c + 1].first = key)
    <3>1. values = {}
      <4>1. SUFFICES ASSUME NEW l \in 1 .. n, items[l].first = key PROVE FALSE
        BY <1>1
      <4>2. PICK k \in 1 .. n : p[k] = l
        BY <2>8
      <4>3. m[k].first = key
        BY <2>3, <4>1, <4>2
      <4>4. ~(k <= c)
        BY <2>5, <2>3, <4>3 DEF MapItems
      <4>5. c + 1 \in 1 .. n /\ c + 1 <= k
        BY <1>1, <4>4
      <4>6. m[c + 1].first <= key /\ ~(m[c + 1].first < key)
        BY <2>4, <2>5, <4>3, <4>5
      <4>7. m[c + 1].first \in Int
        BY <2>3, <4>5 DEF MapItems
      <4>8. m[c + 1].first = key
        BY <4>6, <4>7
      <4> QED
        BY <2>10, <4>5, <4>8
    <3> QED
      BY <2>7, <2>10, <3>1
  <2> QED
    BY <2>9, <2>10
<1> HIDE DEF values
<1>3. \A m \in M!sort_by_key(items) :
        IF values = {} THEN M!Find(m, key) = nullptr ELSE M!Find(m, key) \in values
  BY <1>2
<1> QED
  BY <1>3, Zenon DEF M!MapExact, values

-----------------------------------------------------------------------------
(* AvxVector.                                                               *)

(* An index of a lane is not changed by permutexvar.                        *)
LEMMA SmallRemainder ==
  ASSUME NEW b \in Nat \ {0}, NEW x \in 0 .. b - 1
  PROVE  x % b = x
<1>1. x \div b \in Int /\ x % b \in 0 .. b - 1 /\ x = b * (x \div b) + (x % b)
  BY Remainder
<1>2. x - (x % b) = b * (x \div b) /\ x - (x % b) \in Int
      /\ -b < x - (x % b) /\ x - (x % b) < b
  BY <1>1
<1>3. x - (x % b) = 0
  BY <1>1, <1>2, SmallMultiple
<1> QED
  BY <1>1, <1>3

(* The lanes as a sequence.                                                 *)
LEMMA UnpackIs ==
  ASSUME LANES \in Nat \ {0}, NEW vec \in [S!Lanes -> Int]
  PROVE  /\ S!Unpack(vec) \in Seq(Int) /\ Len(S!Unpack(vec)) = LANES
         /\ \A k \in 1 .. LANES : S!Unpack(vec)[k] = vec[k - 1]
<1>1. \A k \in 1 .. LANES : vec[k - 1] \in Int
  BY DEF S!Lanes
<1> QED
  BY <1>1 DEF S!Unpack

(* What insert puts into the lanes.                                         *)
LEMMA InsertIs ==
  ASSUME LANES \in Nat \ {0}, NEW vec \in [S!Lanes -> Int], NEW idx \in S!Lanes, NEW elem \in Int
  PROVE  /\ S!Insert(vec, idx, elem) \in [S!Lanes -> Int]
         /\ \A l \in S!Lanes : S!Insert(vec, idx, elem)[l] =
              IF l = idx THEN elem ELSE IF l < idx THEN vec[l] ELSE vec[l - 1]
<1> DEFINE index == [l \in S!Lanes |-> IF l \in S!ins_shift_mask(idx) THEN l - 1 ELSE l]
           moved == S!Permute(vec, index)
<1>1. \A l \in S!Lanes : moved[l] = vec[index[l] % LANES]
  BY DEF S!Permute
<1>2. moved \in [S!Lanes -> Int]
  <2>1. \A l \in S!Lanes : index[l] % LANES \in S!Lanes
    <3> SUFFICES ASSUME NEW l \in S!Lanes PROVE index[l] % LANES \in S!Lanes
      OBVIOUS
    <3>1. index[l] \in Int
      BY DEF S!Lanes
    <3> HIDE DEF index
    <3> QED
      BY <3>1, Remainder DEF S!Lanes
  <2> HIDE DEF index
  <2> QED
    BY <2>1 DEF S!Permute
<1>3. ASSUME NEW l \in S!Lanes, l # idx
      PROVE  moved[l] = IF l < idx THEN vec[l] ELSE vec[l - 1]
  <2>1. index[l] = (IF l < idx THEN l ELSE l - 1) /\ index[l] \in 0 .. LANES - 1
    BY <1>3 DEF S!Lanes, S!ins_shift_mask
  <2> HIDE DEF index, moved
  <2>2. index[l] % LANES = index[l]
    BY <2>1, SmallRemainder
  <2> QED
    BY <1>1, <2>1, <2>2
<1>4. S!Insert(vec, idx, elem) = [moved EXCEPT ![idx] = elem]
  BY DEF S!Insert
<1> HIDE DEF moved
<1> QED
  BY <1>2, <1>3, <1>4

(* The same for erase.                                                      *)
LEMMA EraseIs ==
  ASSUME LANES \in Nat \ {0}, NEW vec \in [S!Lanes -> Int], NEW idx \in S!Lanes
  PROVE  /\ S!Erase(vec, idx) \in [S!Lanes -> Int]
         /\ \A l \in S!Lanes : S!Erase(vec, idx)[l] =
              IF l = LANES - 1 THEN 0 ELSE IF l < idx THEN vec[l] ELSE vec[l + 1]
<1> DEFINE index == [l \in S!Lanes |-> IF l \in S!erase_shift_mask(idx) THEN l + 1 ELSE l]
           moved == S!Permute(vec, index)
<1>1. \A l \in S!Lanes : moved[l] = vec[index[l] % LANES]
  BY DEF S!Permute
<1>2. moved \in [S!Lanes -> Int]
  <2>1. \A l \in S!Lanes : index[l] % LANES \in S!Lanes
    <3> SUFFICES ASSUME NEW l \in S!Lanes PROVE index[l] % LANES \in S!Lanes
      OBVIOUS
    <3>1. index[l] \in Int
      BY DEF S!Lanes
    <3> HIDE DEF index
    <3> QED
      BY <3>1, Remainder DEF S!Lanes
  <2> HIDE DEF index
  <2> QED
    BY <2>1 DEF S!Permute
<1>3. ASSUME NEW l \in S!Lanes, l # LANES - 1
      PROVE  moved[l] = IF l < idx THEN vec[l] ELSE vec[l + 1]
  <2>1. index[l] = (IF l < idx THEN l ELSE l + 1) /\ index[l] \in 0 .. LANES - 1
    BY <1>3 DEF S!Lanes, S!erase_shift_mask
  <2> HIDE DEF index, moved
  <2>2. index[l] % LANES = index[l]
    BY <2>1, SmallRemainder
  <2> QED
    BY <1>1, <2>1, <2>2
<1>4. S!Erase(vec, idx) = [moved EXCEPT ![LANES - 1] = 0]
  BY DEF S!Erase
<1>5. LANES - 1 \in S!Lanes
  BY DEF S!Lanes
<1> HIDE DEF moved
<1> QED
  BY <1>2, <1>3, <1>4, <1>5

(* The pieces that SequencesExt cuts a sequence into.                       *)
LEMMA PieceIs ==
  ASSUME NEW s \in Seq(Int), NEW a \in 1 .. Len(s) + 1, NEW b \in a - 1 .. Len(s)
  PROVE  /\ SubSeq(s, a, b) \in Seq(Int) /\ Len(SubSeq(s, a, b)) = b - a + 1
         /\ \A k \in 1 .. b - a + 1 : SubSeq(s, a, b)[k] = s[a + k - 1]
OBVIOUS

LEMMA CutInTwo ==
  ASSUME NEW s \in Seq(Int), NEW i1 \in 1 .. Len(s)
  PROVE  /\ SubSeq(s, 1, i1 - 1) \in Seq(Int) /\ Len(SubSeq(s, 1, i1 - 1)) = i1 - 1
         /\ \A k \in 1 .. i1 - 1 : SubSeq(s, 1, i1 - 1)[k] = s[k]
         /\ SubSeq(s, i1, Len(s)) \in Seq(Int) /\ Len(SubSeq(s, i1, Len(s))) = Len(s) - i1 + 1
         /\ \A k \in 1 .. Len(s) - i1 + 1 : SubSeq(s, i1, Len(s))[k] = s[i1 + k - 1]
         /\ SubSeq(s, i1 + 1, Len(s)) \in Seq(Int) /\ Len(SubSeq(s, i1 + 1, Len(s))) = Len(s) - i1
         /\ \A k \in 1 .. Len(s) - i1 : SubSeq(s, i1 + 1, Len(s))[k] = s[i1 + k]
<1>1. Len(s) \in Nat
  OBVIOUS
<1>2. 1 \in 1 .. Len(s) + 1 /\ i1 - 1 \in 1 - 1 .. Len(s) /\ (i1 - 1) - 1 + 1 = i1 - 1
  BY <1>1
<1>3. /\ SubSeq(s, 1, i1 - 1) \in Seq(Int) /\ Len(SubSeq(s, 1, i1 - 1)) = i1 - 1
      /\ \A k \in 1 .. i1 - 1 : SubSeq(s, 1, i1 - 1)[k] = s[k]
  <2>1. /\ SubSeq(s, 1, i1 - 1) \in Seq(Int) /\ Len(SubSeq(s, 1, i1 - 1)) = (i1 - 1) - 1 + 1
        /\ \A k \in 1 .. (i1 - 1) - 1 + 1 : SubSeq(s, 1, i1 - 1)[k] = s[1 + k - 1]
    BY <1>2, PieceIs
  <2>2. \A k \in 1 .. i1 - 1 : 1 + k - 1 = k
    OBVIOUS
  <2> QED
    BY <1>2, <2>1, <2>2, Zenon
<1>4. /\ SubSeq(s, i1, Len(s)) \in Seq(Int) /\ Len(SubSeq(s, i1, Len(s))) = Len(s) - i1 + 1
      /\ \A k \in 1 .. Len(s) - i1 + 1 : SubSeq(s, i1, Len(s))[k] = s[i1 + k - 1]
  <2>1. i1 \in 1 .. Len(s) + 1 /\ Len(s) \in i1 - 1 .. Len(s)
    BY <1>1
  <2> QED
    BY <2>1, PieceIs
<1>5. /\ SubSeq(s, i1 + 1, Len(s)) \in Seq(Int) /\ Len(SubSeq(s, i1 + 1, Len(s))) = Len(s) - i1
      /\ \A k \in 1 .. Len(s) - i1 : SubSeq(s, i1 + 1, Len(s))[k] = s[i1 + k]
  <2>1. i1 + 1 \in 1 .. Len(s) + 1 /\ Len(s) \in (i1 + 1) - 1 .. Len(s)
    BY <1>1
  <2>2. /\ SubSeq(s, i1 + 1, Len(s)) \in Seq(Int)
        /\ Len(SubSeq(s, i1 + 1, Len(s))) = Len(s) - (i1 + 1) + 1
        /\ \A k \in 1 .. Len(s) - (i1 + 1) + 1 : SubSeq(s, i1 + 1, Len(s))[k] = s[(i1 + 1) + k - 1]
    BY <2>1, PieceIs
  <2>3. Len(s) - (i1 + 1) + 1 = Len(s) - i1
    BY <1>1
  <2>4. \A k \in 1 .. Len(s) - i1 : (i1 + 1) + k - 1 = i1 + k
    BY <1>1
  <2> QED
    BY <2>2, <2>3, <2>4, Zenon
<1> QED
  BY <1>3, <1>4, <1>5, Zenon

IsInserted(t, s, i1, e) ==
    /\ t \in Seq(Int) /\ Len(t) = Len(s) + 1
    /\ \A k \in 1 .. Len(s) : t[k] = IF k = i1 THEN e ELSE IF k < i1 THEN s[k] ELSE s[k - 1]

(* InsertAt, element by element.                                            *)
LEMMA InsertAtIs ==
  ASSUME NEW s \in Seq(Int), NEW i1 \in 1 .. Len(s), NEW e \in Int
  PROVE  IsInserted(S!InsertAt(s, i1, e), s, i1, e)
<1> DEFINE a == SubSeq(s, 1, i1 - 1)
           b == SubSeq(s, i1, Len(s))
           n == Len(s)
<1>1. n \in Nat /\ i1 \in 1 .. n
  OBVIOUS
<1>2. a \in Seq(Int) /\ Len(a) = i1 - 1 /\ \A k \in 1 .. i1 - 1 : a[k] = s[k]
  BY CutInTwo
<1>3. b \in Seq(Int) /\ Len(b) = n - i1 + 1 /\ \A k \in 1 .. n - i1 + 1 : b[k] = s[i1 + k - 1]
  BY CutInTwo
<1>4. S!InsertAt(s, i1, e) = (a \o <<e>>) \o b
  BY DEF S!InsertAt
<1> HIDE DEF a, b, n
<1>5. <<e>> \in Seq(Int) /\ Len(<<e>>) = 1 /\ <<e>>[1] = e
  OBVIOUS
<1> DEFINE c == a \o <<e>>
<1>6. /\ c \in Seq(Int) /\ Len(c) = i1
      /\ \A k \in 1 .. i1 : c[k] = IF k = i1 THEN e ELSE s[k]
  <2>1. /\ c \in Seq(Int) /\ Len(c) = Len(a) + Len(<<e>>)
        /\ \A k \in 1 .. Len(a) + Len(<<e>>) : c[k] =
             IF k <= Len(a) THEN a[k] ELSE <<e>>[k - Len(a)]
    BY <1>2, <1>5, ConcatProperties, Zenon
  <2> HIDE DEF c
  <2>2. Len(a) + Len(<<e>>) = i1
    BY <1>1, <1>2, <1>5
  <2> QED
    BY <1>1, <1>2, <1>5, <2>1, <2>2
<1> HIDE DEF c
<1>7. /\ c \o b \in Seq(Int) /\ Len(c \o b) = i1 + (n - i1 + 1)
      /\ \A k \in 1 .. i1 + (n - i1 + 1) : (c \o b)[k] = IF k <= i1 THEN c[k] ELSE b[k - i1]
  <2>1. /\ c \o b \in Seq(Int) /\ Len(c \o b) = Len(c) + Len(b)
        /\ \A k \in 1 .. Len(c) + Len(b) : (c \o b)[k] = IF k <= Len(c) THEN c[k] ELSE b[k - Len(c)]
    BY <1>3, <1>6, ConcatProperties, Zenon
  <2>2. Len(c) = i1 /\ Len(b) = n - i1 + 1
    BY <1>3, <1>6
  <2> QED
    BY <2>1, <2>2, Zenon
<1>8. i1 + (n - i1 + 1) = n + 1
  BY <1>1
<1>9. ASSUME NEW k \in 1 .. n
      PROVE  (c \o b)[k] = IF k = i1 THEN e ELSE IF k < i1 THEN s[k] ELSE s[k - 1]
  <2>1. (c \o b)[k] = IF k <= i1 THEN c[k] ELSE b[k - i1]
    BY <1>1, <1>7, <1>8
  <2>2. CASE k <= i1
    BY <1>1, <1>6, <2>1, <2>2
  <2>3. CASE ~(k <= i1)
    <3>1. k - i1 \in 1 .. n - i1 + 1 /\ i1 + (k - i1) - 1 = k - 1
      BY <1>1, <2>3
    <3>2. b[k - i1] = s[k - 1]
      BY <1>3, <3>1
    <3> QED
      BY <1>1, <2>1, <2>3, <3>2
  <2> QED
    BY <2>2, <2>3
<1>10. S!InsertAt(s, i1, e) = c \o b
  BY <1>4 DEF c
<1> QED
  BY <1>7, <1>8, <1>9, <1>10 DEF n, IsInserted

(* RemoveAt, element by element.                                            *)
LEMMA RemoveAtIs ==
  ASSUME NEW s \in Seq(Int), NEW i1 \in 1 .. Len(s)
  PROVE  /\ S!RemoveAt(s, i1) \in Seq(Int) /\ Len(S!RemoveAt(s, i1)) = Len(s) - 1
         /\ \A k \in 1 .. Len(s) - 1 : S!RemoveAt(s, i1)[k] = IF k < i1 THEN s[k] ELSE s[k + 1]
<1> DEFINE a == SubSeq(s, 1, i1 - 1)
           b == SubSeq(s, i1 + 1, Len(s))
           n == Len(s)
<1>1. n \in Nat /\ i1 \in 1 .. n
  OBVIOUS
<1>2. a \in Seq(Int) /\ Len(a) = i1 - 1 /\ \A k \in 1 .. i1 - 1 : a[k] = s[k]
  BY CutInTwo
<1>3. b \in Seq(Int) /\ Len(b) = n - i1 /\ \A k \in 1 .. n - i1 : b[k] = s[i1 + k]
  BY CutInTwo
<1>4. S!RemoveAt(s, i1) = a \o b
  BY DEF S!RemoveAt
<1> HIDE DEF a, b, n
<1>5. /\ a \o b \in Seq(Int) /\ Len(a \o b) = (i1 - 1) + (n - i1)
      /\ \A k \in 1 .. (i1 - 1) + (n - i1) : (a \o b)[k] =
           IF k <= i1 - 1 THEN a[k] ELSE b[k - (i1 - 1)]
  <2>1. /\ a \o b \in Seq(Int) /\ Len(a \o b) = Len(a) + Len(b)
        /\ \A k \in 1 .. Len(a) + Len(b) : (a \o b)[k] = IF k <= Len(a) THEN a[k] ELSE b[k - Len(a)]
    BY <1>2, <1>3, ConcatProperties, Zenon
  <2>2. Len(a) = i1 - 1 /\ Len(b) = n - i1
    BY <1>2, <1>3
  <2> QED
    BY <2>1, <2>2, Zenon
<1>6. (i1 - 1) + (n - i1) = n - 1
  BY <1>1
<1>7. ASSUME NEW k \in 1 .. n - 1 PROVE (a \o b)[k] = IF k < i1 THEN s[k] ELSE s[k + 1]
  <2>1. (a \o b)[k] = IF k <= i1 - 1 THEN a[k] ELSE b[k - (i1 - 1)]
    BY <1>5, <1>6
  <2>2. CASE k < i1
    BY <1>1, <1>2, <2>1, <2>2
  <2>3. CASE ~(k < i1)
    <3>1. k - (i1 - 1) \in 1 .. n - i1 /\ i1 + (k - (i1 - 1)) = k + 1
      BY <1>1, <2>3
    <3>2. b[k - (i1 - 1)] = s[k + 1]
      BY <1>3, <3>1
    <3> QED
      BY <1>1, <2>1, <2>3, <3>2
  <2> QED
    BY <2>2, <2>3
<1> QED
  BY <1>4, <1>5, <1>6, <1>7 DEF n

(* The elements from idx on move by one lane, and the others stay.          *)
THEOREM LanesMoved ==
  ASSUME LANES \in Nat \ {0}, NEW vec \in [S!Lanes -> Int], NEW idx \in S!Lanes, NEW elem \in Int
  PROVE  S!AvxExact(vec, idx, elem)
<1> DEFINE s == S!Unpack(vec)
<1>1. s \in Seq(Int) /\ Len(s) = LANES /\ \A k \in 1 .. LANES : s[k] = vec[k - 1]
  BY UnpackIs
<1> HIDE DEF s
<1>2. idx + 1 \in 1 .. Len(s) /\ idx \in 0 .. LANES - 1
  BY <1>1 DEF S!Lanes
<1>3. S!Unpack(S!Insert(vec, idx, elem)) = S!Front(S!InsertAt(s, idx + 1, elem))
  <2> DEFINE v == S!Insert(vec, idx, elem)
             u == S!Unpack(v)
             t == S!InsertAt(s, idx + 1, elem)
             f == S!Front(t)
  <2>1. v \in [S!Lanes -> Int] /\ \A l \in S!Lanes : v[l] =
              IF l = idx THEN elem ELSE IF l < idx THEN vec[l] ELSE vec[l - 1]
    BY InsertIs
  <2> HIDE DEF v
  <2>2. u \in Seq(Int) /\ Len(u) = LANES /\ \A k \in 1 .. LANES : u[k] = v[k - 1]
    BY <2>1, UnpackIs
  <2>3. /\ t \in Seq(Int) /\ Len(t) = LANES + 1
        /\ \A k \in 1 .. LANES : t[k] =
             IF k = idx + 1 THEN elem ELSE IF k < idx + 1 THEN s[k] ELSE s[k - 1]
    <3>1. idx + 1 \in 1 .. Len(s) /\ s \in Seq(Int) /\ Len(s) = LANES
      BY <1>1, <1>2
    <3>2. IsInserted(t, s, idx + 1, elem)
      BY <3>1, InsertAtIs
    <3> QED
      BY <3>1, <3>2, Zenon DEF IsInserted
  <2> HIDE DEF u, t
  <2>4. f \in Seq(Int) /\ Len(f) = LANES /\ \A k \in 1 .. LANES : f[k] = t[k]
    <3>1. f = SubSeq(t, 1, LANES)
      BY <2>3 DEF S!Front
    <3> HIDE DEF f
    <3> QED
      BY <2>3, <3>1
  <2> HIDE DEF f
  <2>5. ASSUME NEW k \in 1 .. LANES PROVE u[k] = f[k]
    <3>1. k - 1 \in S!Lanes
      BY DEF S!Lanes
    <3>2. u[k] = IF k - 1 = idx THEN elem ELSE IF k - 1 < idx THEN vec[k - 1] ELSE vec[(k - 1) - 1]
      BY <2>1, <2>2, <3>1
    <3>3. f[k] = IF k = idx + 1 THEN elem ELSE IF k < idx + 1 THEN s[k] ELSE s[k - 1]
      BY <2>3, <2>4
    <3>4. k > idx + 1 => k - 1 \in 1 .. LANES
      BY <1>2
    <3> QED
      BY <1>1, <1>2, <3>2, <3>3, <3>4
  <2>6. u = f
    BY <2>2, <2>4, <2>5, SeqEqual
  <2> QED
    BY <2>6 DEF u, v, t, f
<1>4. S!Unpack(S!Set(vec, idx, elem)) = S!ReplaceAt(s, idx + 1, elem)
  <2> DEFINE v == S!Set(vec, idx, elem)
             u == S!Unpack(v)
             t == S!ReplaceAt(s, idx + 1, elem)
  <2>1. v \in [S!Lanes -> Int] /\ \A l \in S!Lanes : v[l] = IF l = idx THEN elem ELSE vec[l]
    BY DEF S!Set
  <2> HIDE DEF v
  <2>2. u \in Seq(Int) /\ Len(u) = LANES /\ \A k \in 1 .. LANES : u[k] = v[k - 1]
    BY <2>1, UnpackIs
  <2>3. /\ t \in Seq(Int) /\ Len(t) = LANES
        /\ \A k \in 1 .. LANES : t[k] = IF k = idx + 1 THEN elem ELSE s[k]
    BY <1>1, <1>2 DEF S!ReplaceAt
  <2> HIDE DEF u, t
  <2>4. ASSUME NEW k \in 1 .. LANES PROVE u[k] = t[k]
    <3>1. k - 1 \in S!Lanes
      BY DEF S!Lanes
    <3>2. u[k] = IF k - 1 = idx THEN elem ELSE vec[k - 1]
      BY <2>1, <2>2, <3>1
    <3>3. t[k] = IF k = idx + 1 THEN elem ELSE vec[k - 1]
      BY <1>1, <2>3
    <3> QED
      BY <1>2, <3>2, <3>3
  <2>5. u = t
    BY <2>2, <2>3, <2>4, SeqEqual
  <2> QED
    BY <2>5 DEF u, v, t
<1>5. S!Unpack(S!Erase(vec, idx)) = Append(S!RemoveAt(s, idx + 1), 0)
  <2> DEFINE v == S!Erase(vec, idx)
             u == S!Unpack(v)
             t == S!RemoveAt(s, idx + 1)
             f == Append(t, 0)
  <2>1. v \in [S!Lanes -> Int] /\ \A l \in S!Lanes : v[l] =
              IF l = LANES - 1 THEN 0 ELSE IF l < idx THEN vec[l] ELSE vec[l + 1]
    BY EraseIs
  <2> HIDE DEF v
  <2>2. u \in Seq(Int) /\ Len(u) = LANES /\ \A k \in 1 .. LANES : u[k] = v[k - 1]
    BY <2>1, UnpackIs
  <2>3. /\ t \in Seq(Int) /\ Len(t) = LANES - 1
        /\ \A k \in 1 .. LANES - 1 : t[k] = IF k < idx + 1 THEN s[k] ELSE s[k + 1]
    BY <1>1, <1>2, RemoveAtIs
  <2> HIDE DEF u, t
  <2>4. f \in Seq(Int) /\ Len(f) = LANES
        /\ \A k \in 1 .. LANES : f[k] = IF k = LANES THEN 0 ELSE t[k]
    BY <2>3
  <2> HIDE DEF f
  <2>5. ASSUME NEW k \in 1 .. LANES PROVE u[k] = f[k]
    <3>1. k - 1 \in S!Lanes
      BY DEF S!Lanes
    <3>2. u[k] = IF k - 1 = LANES - 1 THEN 0 ELSE IF k - 1 < idx THEN vec[k - 1] ELSE vec[(k - 1) + 1]
      BY <2>1, <2>2, <3>1
    <3>3. f[k] = IF k = LANES THEN 0 ELSE IF k < idx + 1 THEN s[k] ELSE s[k + 1]
      <4>1. k # LANES => k \in 1 .. LANES - 1
        OBVIOUS
      <4> QED
        BY <2>3, <2>4, <4>1, Zenon
    <3>4. k # LANES => k + 1 \in 1 .. LANES
      OBVIOUS
    <3> QED
      BY <1>1, <1>2, <3>2, <3>3, <3>4
  <2>6. u = f
    BY <2>2, <2>4, <2>5, SeqEqual
  <2> QED
    BY <2>6 DEF u, v, t, f
<1> QED
  BY <1>3, <1>4, <1>5, Zenon DEF S!AvxExact, s

-----------------------------------------------------------------------------
(* AvxMatmul.                                                               *)

(* \div and % undo what puts a pair into one number.                        *)
LEMMA Quotient ==
  ASSUME NEW d \in Nat \ {0}, NEW q \in Int, NEW r \in 0 .. d - 1
  PROVE  (q * d + r) \div d = q /\ (q * d + r) % d = r
<1> DEFINE x == q * d + r
           p == x \div d
           s == x % d
<1>1. x \in Int
  OBVIOUS
<1>2. p \in Int /\ s \in 0 .. d - 1 /\ x = d * p + s
  <2> HIDE DEF x
  <2> QED
    BY <1>1, Remainder
<1> HIDE DEF p, s
<1>3. s - r = d * (q - p) /\ q - p \in Int
  BY <1>2
<1>4. s - r \in Int /\ -d < s - r /\ s - r < d
  BY <1>2
<1>5. s - r = 0
  BY <1>3, <1>4, SmallMultiple
<1>6. s = r
  BY <1>2, <1>5
<1>7. q = p
  <2>1. d * (q - p) = 0
    BY <1>3, <1>5
  <2> QED
    BY <1>2, <2>1
<1> QED
  BY <1>6, <1>7 DEF p, s, x

(* A row and a column give a cell of the table.                             *)
LEMMA InTable ==
  ASSUME NEW rows \in Nat, NEW d \in Nat \ {0}, NEW q \in 0 .. rows - 1, NEW r \in 0 .. d - 1
  PROVE  q * d + r \in 0 .. rows * d - 1
<1>1. (rows - 1 - q) * d \in Nat /\ q * d \in Nat
  OBVIOUS
<1>2. rows * d = q * d + d + (rows - 1 - q) * d
  OBVIOUS
<1>3. rows * d \in Nat
  OBVIOUS
<1> DEFINE x == q * d
           y == rows * d
           z == (rows - 1 - q) * d
<1>4. x \in Nat /\ y \in Nat /\ z \in Nat /\ y = x + d + z
  BY <1>1, <1>2, <1>3
<1> HIDE DEF x, y, z
<1>5. x + r \in 0 .. y - 1
  BY <1>4
<1> QED
  BY <1>5 DEF x, y

(* A cell of the transposed matrix.                                         *)
LEMMA CellIs ==
  ASSUME BLOCK \in Nat \ {0}, NEW N \in Nat, NEW K \in Nat \ {0}, S!Blocks(N) \in Nat,
         NEW b \in 0 .. S!Blocks(N) - 1, NEW k \in 1 .. K, NEW t \in 0 .. BLOCK - 1,
         b * BLOCK + t < N
  PROVE  S!b_t(N, K)[(b * K + k - 1) * BLOCK + t] = <<(b * BLOCK + t) * K + k - 1>>
<1> DEFINE rows == S!Blocks(N)
           u == b * K + (k - 1)
           cell == u * BLOCK + t
           w == (k - 1) * BLOCK + t
<1>1. k - 1 \in 0 .. K - 1 /\ b \in Int /\ k - 1 \in Int /\ t \in Int
  OBVIOUS
<1>2. u \in 0 .. rows * K - 1
  BY <1>1, InTable
<1>3. w \in 0 .. K * BLOCK - 1
  BY <1>1, InTable
<1>4. rows * K \in Nat /\ K * BLOCK \in Nat \ {0}
  OBVIOUS
<1>5. cell \in 0 .. rows * K * BLOCK - 1
  <2> DEFINE m == rows * K
  <2>1. m \in Nat /\ u \in 0 .. m - 1
    BY <1>2, <1>4
  <2> HIDE DEF u, m
  <2>2. u * BLOCK + t \in 0 .. m * BLOCK - 1
    BY <2>1, InTable
  <2> QED
    BY <2>2 DEF m
<1>6. cell = b * (K * BLOCK) + w
  OBVIOUS
<1>7. cell \div (K * BLOCK) = b
  <2> DEFINE d == K * BLOCK
  <2>1. d \in Nat \ {0} /\ w \in 0 .. d - 1
    BY <1>3, <1>4
  <2> HIDE DEF w, d
  <2>2. (b * d + w) \div d = b
    BY <1>1, <2>1, Quotient
  <2> QED
    BY <1>6, <2>2 DEF d
<1>8. cell \div BLOCK = u /\ cell % BLOCK = t
  <2>1. u \in Int
    BY <1>1
  <2> HIDE DEF u
  <2> QED
    BY <2>1, Quotient
<1>9. u % K = k - 1
  BY <1>1, Quotient
<1>10. (b * K + k - 1) * BLOCK + t = cell
  OBVIOUS
<1>11. S!b_t(N, K)[cell] = IF b * BLOCK + t < N THEN <<(b * BLOCK + t) * K + (k - 1)>> ELSE <<"zero">>
  <2> HIDE DEF cell, u
  <2>1. S!b_t(N, K)[cell] =
          LET b1 == cell \div (K * BLOCK)
              k1 == (cell \div BLOCK) % K
              j1 == b1 * BLOCK + (cell % BLOCK)
          IN  IF j1 < N THEN <<j1 * K + k1>> ELSE <<"zero">>
    BY <1>5 DEF S!b_t
  <2> QED
    BY <1>7, <1>8, <1>9, <2>1
<1>12. (b * BLOCK + t) * K + (k - 1) = (b * BLOCK + t) * K + k - 1
  OBVIOUS
<1> HIDE DEF cell
<1> QED
  BY <1>10, <1>11, <1>12

(* The blocks cover the columns.                                            *)
LEMMA BlocksCover ==
  ASSUME BLOCK \in Nat \ {0}, NEW N \in Nat
  PROVE  /\ S!Blocks(N) \in Nat
         /\ \A j1 \in 0 .. N - 1 : /\ j1 \div BLOCK \in 0 .. S!Blocks(N) - 1
                                   /\ j1 % BLOCK \in 0 .. BLOCK - 1
                                   /\ j1 = (j1 \div BLOCK) * BLOCK + (j1 % BLOCK)
<1> DEFINE rows == (N + BLOCK - 1) \div BLOCK
           rest == (N + BLOCK - 1) % BLOCK
<1>1. rows \in Int /\ rest \in 0 .. BLOCK - 1 /\ N + BLOCK - 1 = BLOCK * rows + rest
  <2> DEFINE x == N + BLOCK - 1
  <2>1. x \in Int
    OBVIOUS
  <2> HIDE DEF x
  <2>2. x \div BLOCK \in Int /\ x % BLOCK \in 0 .. BLOCK - 1 /\ x = BLOCK * (x \div BLOCK) + (x % BLOCK)
    BY <2>1, Remainder
  <2> QED
    BY <2>2 DEF x
<1>2. S!Blocks(N) = rows
  BY DEF S!Blocks
<1> HIDE DEF rows, rest
<1>3. BLOCK * rows >= N
  BY <1>1
<1>4. rows >= 0
  <2>1. SUFFICES ASSUME rows <= -1 PROVE FALSE
    BY <1>1
  <2>2. BLOCK * (-rows - 1) \in Nat
    BY <1>1, <2>1
  <2>3. BLOCK * rows = -BLOCK - BLOCK * (-rows - 1)
    BY <1>1
  <2> QED
    BY <1>3, <2>2, <2>3
<1>5. ASSUME NEW j1 \in 0 .. N - 1
      PROVE  /\ j1 \div BLOCK \in 0 .. rows - 1 /\ j1 % BLOCK \in 0 .. BLOCK - 1
             /\ j1 = (j1 \div BLOCK) * BLOCK + (j1 % BLOCK)
  <2> DEFINE q == j1 \div BLOCK
             r == j1 % BLOCK
  <2>1. q \in Int /\ r \in 0 .. BLOCK - 1 /\ j1 = BLOCK * q + r
    BY Remainder
  <2> HIDE DEF q, r
  <2>2. q >= 0
    <3>1. SUFFICES ASSUME q <= -1 PROVE FALSE
      BY <2>1
    <3>2. BLOCK * (-q - 1) \in Nat /\ BLOCK * q = -BLOCK - BLOCK * (-q - 1)
      BY <2>1, <3>1
    <3> QED
      BY <2>1, <3>2
  <2>3. q <= rows - 1
    <3>1. SUFFICES ASSUME q >= rows PROVE FALSE
      BY <1>1, <2>1
    <3>2. BLOCK * (q - rows) \in Nat /\ BLOCK * q = BLOCK * rows + BLOCK * (q - rows)
      BY <1>1, <2>1, <3>1
    <3> QED
      BY <1>1, <1>3, <2>1, <3>2
  <2>4. j1 = q * BLOCK + r
    BY <2>1
  <2> QED
    BY <1>1, <2>1, <2>2, <2>3, <2>4 DEF q, r
<1> QED
  BY <1>1, <1>2, <1>4, <1>5

(* A member of a member is in the union.                                    *)
LEMMA InUnion == \A x, s, ss : x \in s /\ s \in ss => x \in UNION ss
OBVIOUS

(* Every cell of the product gets its sum, and nothing else is written.     *)
THEOREM ProductsRight ==
  ASSUME BLOCK \in Nat \ {0}, NEW rows \in Nat, NEW N \in Nat, NEW K \in Nat \ {0}
  PROVE  S!MatmulExact(rows, N, K)
<1> DEFINE Cell(i1, j1) ==
             <<i1 * N + j1, [k \in 1 .. K |-> <<i1 * K + k - 1, <<j1 * K + k - 1>>>>]>>
           Written(i1, b, t) == <<i1 * N + b * BLOCK + t, S!LaneSum(N, K, i1, b, t)>>
           cells == {Cell(i1, j1) : i1 \in 0 .. rows - 1, j1 \in 0 .. N - 1}
           written == UNION {{Written(i1, b, t) : t \in S!Stored(N, b)} :
                               i1 \in 0 .. rows - 1, b \in 0 .. S!Blocks(N) - 1}
<1>1. S!Blocks(N) \in Nat
  BY BlocksCover
<1>2. ASSUME NEW i1 \in 0 .. rows - 1, NEW b \in 0 .. S!Blocks(N) - 1, NEW t \in S!Stored(N, b)
      PROVE  b * BLOCK + t \in 0 .. N - 1 /\ Written(i1, b, t) = Cell(i1, b * BLOCK + t)
  <2>1. t \in 0 .. BLOCK - 1 /\ b * BLOCK \in Nat /\ (N - b * BLOCK >= BLOCK \/ t < N - b * BLOCK)
    BY <1>1 DEF S!Stored
  <2> DEFINE j1 == b * BLOCK + t
  <2>2. j1 \in 0 .. N - 1
    <3> DEFINE x == b * BLOCK
    <3>1. t \in 0 .. BLOCK - 1 /\ x \in Nat /\ (N - x >= BLOCK \/ t < N - x)
      BY <2>1
    <3> HIDE DEF x
    <3>2. x + t \in 0 .. N - 1
      BY <3>1
    <3> QED
      BY <3>2 DEF x
  <2>3. ASSUME NEW k \in 1 .. K
        PROVE  S!b_t(N, K)[(b * K + k - 1) * BLOCK + t] = <<j1 * K + k - 1>>
    <3>1. j1 < N
      BY <2>2
    <3> QED
      BY <1>1, <2>1, <3>1, CellIs
  <2>4. S!LaneSum(N, K, i1, b, t) =
          [k \in 1 .. K |-> <<i1 * K + k - 1, S!b_t(N, K)[(b * K + k - 1) * BLOCK + t]>>]
    BY DEF S!LaneSum
  <2>5. S!LaneSum(N, K, i1, b, t) = [k \in 1 .. K |-> <<i1 * K + k - 1, <<j1 * K + k - 1>>>>]
    <3> HIDE DEF j1
    <3> QED
      BY <2>3, <2>4
  <2>6. i1 * N + b * BLOCK + t = i1 * N + j1
    <3>1. i1 * N \in Nat /\ b * BLOCK \in Nat /\ t \in Nat
      BY <2>1
    <3> QED
      BY <3>1
  <2>7. Written(i1, b, t) = Cell(i1, j1)
    <3> HIDE DEF j1
    <3> QED
      BY <2>5, <2>6
  <2> QED
    BY <2>2, <2>7
<1>3. ASSUME NEW i1 \in 0 .. rows - 1, NEW j1 \in 0 .. N - 1
      PROVE  \E b \in 0 .. S!Blocks(N) - 1 : \E t \in S!Stored(N, b) : Cell(i1, j1) = Written(i1, b, t)
  <2> DEFINE b == j1 \div BLOCK
             t == j1 % BLOCK
  <2>1. b \in 0 .. S!Blocks(N) - 1 /\ t \in 0 .. BLOCK - 1 /\ j1 = b * BLOCK + t
    BY BlocksCover
  <2> HIDE DEF b, t, Cell, Written
  <2>2. t \in S!Stored(N, b)
    <3>1. b * BLOCK \in Int
      BY <1>1, <2>1
    <3>2. t < N - b * BLOCK
      BY <2>1, <3>1
    <3> QED
      BY <2>1, <3>2 DEF S!Stored
  <2>3. Written(i1, b, t) = Cell(i1, j1)
    BY <1>2, <2>1, <2>2
  <2> QED
    BY <2>1, <2>2, <2>3
<1> HIDE DEF Cell, Written
<1>4. written \subseteq cells
  BY <1>2
<1>5. cells \subseteq written
  <2>1. ASSUME NEW i1 \in 0 .. rows - 1, NEW j1 \in 0 .. N - 1 PROVE Cell(i1, j1) \in written
    <3>0. PICK b \in 0 .. S!Blocks(N) - 1 :
            \E t \in S!Stored(N, b) : Cell(i1, j1) = Written(i1, b, t)
      BY <1>3
    <3>1. PICK t \in S!Stored(N, b) : Cell(i1, j1) = Written(i1, b, t)
      BY <3>0
    <3> DEFINE Row(x, y) == {Written(x, y, u) : u \in S!Stored(N, y)}
               all == {Row(x, y) : x \in 0 .. rows - 1, y \in 0 .. S!Blocks(N) - 1}
    <3>2. Written(i1, b, t) \in Row(i1, b) /\ written = UNION all
      BY DEF written
    <3>3. Written(i1, b, t) \in written
      <4> HIDE DEF Row
      <4>1. Row(i1, b) \in all
        OBVIOUS
      <4> HIDE DEF all
      <4>2. Written(i1, b, t) \in UNION all
        BY <3>2, <4>1, InUnion, Zenon
      <4> QED
        BY <4>2 DEF written, all, Row
    <3> QED
      BY <3>1, <3>3
  <2> HIDE DEF written
  <2> QED
    BY <2>1
<1> HIDE DEF written, cells
<1>6. written = cells
  BY <1>4, <1>5
<1>7. S!AvxMatmul(rows, N, K) = written
  BY DEF S!AvxMatmul, Written, written
<1>8. S!MatmulExact(rows, N, K) <=> S!AvxMatmul(rows, N, K) = cells
  BY DEF S!MatmulExact, Cell, cells
<1> QED
  BY <1>6, <1>7, <1>8
=============================================================================
