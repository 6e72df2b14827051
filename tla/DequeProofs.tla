----------------------------- MODULE DequeProofs -----------------------------
(****************************************************************************)
(* The deques of MCContainers, for any number of them, any block size and   *)
(* any bound: Layout, and that they are the sequences of Container.  Layout *)
(* counts places and blocks; the inductive form names the deque and the     *)
(* place of every block.  A call replaces the blocks of one deque or        *)
(* exchanges those of two; the first lemmas are about these two ways, and   *)
(* about the end of a deque as block and index, the last about the cell of  *)
(* each element.                                                            *)
(****************************************************************************)
EXTENDS MCContainers, SequenceTheorems, FiniteSetTheorems, TLAPS

DequeRecord ==
    [storage_ : Seq(Nat), head_index_ : D!Index, tail_block_ : Nat, tail_index_ : D!Index,
     size_ : Nat]

DequeHeap(h) ==
    /\ h \in [DOMAIN h -> [D!Index -> D!Cells]]
    /\ DOMAIN h \in SUBSET Nat /\ IsFiniteSet(DOMAIN h)

Distinct(s) == \A i, j \in DOMAIN s : s[i] = s[j] => i = j

(* The end, as block and index, is where the front and the size put it.     *)
EndRight(x) ==
    /\ x.tail_block_ * BLOCK_SIZE + x.tail_index_ = x.head_index_ + x.size_
    /\ x.head_index_ + x.size_ <= Len(x.storage_) * BLOCK_SIZE

(* Every block of the heap h is at one place of one of the deques q.        *)
Owned(q, h) ==
    /\ \A d \in Deques : Distinct(q[d].storage_) /\ D!BlocksOf(q[d].storage_) \subseteq DOMAIN h
    /\ \A d, o \in Deques :
         d # o => D!BlocksOf(q[d].storage_) \cap D!BlocksOf(q[o].storage_) = {}
    /\ \A b \in DOMAIN h : \E d \in Deques : b \in D!BlocksOf(q[d].storage_)

DequeInv ==
    /\ undefined = FALSE
    /\ deque \in [Deques -> DequeRecord] /\ DequeHeap(heap)
    /\ \A d \in Deques : EndRight(deque[d])
    /\ Owned(deque, heap)
    /\ Cardinality(DOMAIN heap) <= BlockBound

LEMMA DequeSets ==
  \A Any : D!Cardinality(Any) = Cardinality(Any) /\ (D!IsFiniteSet(Any) <=> IsFiniteSet(Any))
<1>1. \A Any : D!IsFiniteSet(Any) <=> IsFiniteSet(Any)
  BY DEF D!IsFiniteSet, IsFiniteSet
<1>2. \A Any : D!Cardinality(Any) = Cardinality(Any)
  BY Zenon DEF D!Cardinality, Cardinality
<1> QED
  BY <1>1, <1>2

LEMMA IntervalSize ==
  /\ \A n \in Nat : IsFiniteSet(0 .. n - 1) /\ Cardinality(0 .. n - 1) = n
  /\ \A n \in Nat : IsFiniteSet(1 .. n) /\ Cardinality(1 .. n) = n
<1>1. ASSUME NEW n \in Nat, NEW a \in 0 .. 1
      PROVE  IsFiniteSet(a .. n + a - 1) /\ Cardinality(a .. n + a - 1) = n
  <2>1. /\ IsFiniteSet(a .. n + a - 1)
        /\ Cardinality(a .. n + a - 1) = IF a > n + a - 1 THEN 0 ELSE (n + a - 1) - a + 1
    BY FS_Interval
  <2> QED
    BY <2>1
<1>2. \A n \in Nat : 0 .. n + 0 - 1 = 0 .. n - 1 /\ 1 .. n + 1 - 1 = 1 .. n
  OBVIOUS
<1> QED
  BY <1>1, <1>2

(* new gives blocks that are in use nowhere, each once.                     *)
LEMMA NewBlocksFact ==
  ASSUME NEW n \in Nat, NEW h, DOMAIN h \in SUBSET Nat, IsFiniteSet(DOMAIN h)
  PROVE  /\ D!NewBlocks(n, h) \in Seq(Nat) /\ Len(D!NewBlocks(n, h)) = n
         /\ Distinct(D!NewBlocks(n, h)) /\ D!BlocksOf(D!NewBlocks(n, h)) \cap DOMAIN h = {}
<1> DEFINE c == Cardinality(DOMAIN h)
           free == (0 .. c + n - 1) \ DOMAIN h
           apart(t) == \A i, j \in 1 .. n : t[i] = t[j] => i = j
<1>1. c \in Nat
  BY FS_CardinalityType
<1>2. IsFiniteSet(free) /\ Cardinality(free) \in Nat /\ Cardinality(free) >= n
  <2>1. IsFiniteSet(0 .. c + n - 1) /\ Cardinality(0 .. c + n - 1) = c + n
    BY <1>1, IntervalSize
  <2>2. /\ Cardinality((0 .. c + n - 1) \cap DOMAIN h) <= c
        /\ Cardinality((0 .. c + n - 1) \cap DOMAIN h) \in Nat
    BY <1>1, FS_Intersection, FS_CardinalityType, Zenon
  <2>3. /\ IsFiniteSet(free)
        /\ Cardinality(free) = Cardinality(0 .. c + n - 1) - Cardinality((0 .. c + n - 1) \cap DOMAIN h)
    BY <2>1, FS_Difference, Zenon
  <2> QED
    BY <1>1, <2>1, <2>2, <2>3
<1>3. PICK f \in Bijection(1 .. Cardinality(free), free) : TRUE
  BY <1>2, FS_CardinalityType DEF ExistsBijection
<1> DEFINE s == [i \in 1 .. n |-> f[i]]
<1>4. s \in [1 .. n -> free] /\ apart(s)
  <2>1. \A i \in 1 .. n : i \in 1 .. Cardinality(free) /\ f[i] \in free
    <3> HIDE DEF free
    <3> QED
      BY <1>2, <1>3 DEF Bijection, Injection
  <2>2. \A i, j \in 1 .. n : f[i] = f[j] => i = j
    BY <1>3, <2>1, Zenon DEF Bijection, Injection, IsInjective
  <2> QED
    BY <2>1, <2>2
<1>5. D!NewBlocks(n, h) = CHOOSE t \in [1 .. n -> free] : apart(t)
  BY DequeSets, Zenon DEF D!NewBlocks
<1>6. D!NewBlocks(n, h) \in [1 .. n -> free] /\ apart(D!NewBlocks(n, h))
  BY <1>4, <1>5, Zenon
<1> QED
  BY <1>1, <1>6 DEF Distinct, D!BlocksOf

(* A sequence of distinct blocks is no longer than the heap is large.       *)
LEMMA DistinctLen ==
  ASSUME NEW s \in Seq(Nat), Distinct(s), NEW T, IsFiniteSet(T), D!BlocksOf(s) \subseteq T
  PROVE  Len(s) <= Cardinality(T)
<1>1. s \in Injection(1 .. Len(s), T)
  BY DEF Injection, IsInjective, Distinct, D!BlocksOf
<1>2. Cardinality(1 .. Len(s)) = Len(s)
  BY IntervalSize
<1> QED
  BY <1>1, <1>2, FS_Injection

(* One deque gets other blocks.                                             *)
LEMMA OwnedReplaced ==
  ASSUME NEW q \in [Deques -> DequeRecord], NEW h, Owned(q, h), NEW d \in Deques,
         NEW x \in DequeRecord, NEW g, Distinct(x.storage_),
         D!BlocksOf(x.storage_) \cap (DOMAIN h \ D!BlocksOf(q[d].storage_)) = {},
         DOMAIN g = (DOMAIN h \ D!BlocksOf(q[d].storage_)) \union D!BlocksOf(x.storage_)
  PROVE  Owned([q EXCEPT ![d] = x], g)
<1> DEFINE r == [q EXCEPT ![d] = x]
<1>1. r[d] = x /\ \A o \in Deques \ {d} : r[o] = q[o]
  OBVIOUS
<1> HIDE DEF r
<1>2. \A o \in Deques : Distinct(r[o].storage_) /\ D!BlocksOf(r[o].storage_) \subseteq DOMAIN g
  BY <1>1 DEF Owned
<1>3. \A o \in Deques \ {d} : D!BlocksOf(r[o].storage_) \cap D!BlocksOf(x.storage_) = {}
  BY <1>1 DEF Owned
<1>4. ASSUME NEW o \in Deques, NEW p \in Deques, o # p
      PROVE  D!BlocksOf(r[o].storage_) \cap D!BlocksOf(r[p].storage_) = {}
  BY <1>1, <1>3, <1>4 DEF Owned
<1>5. ASSUME NEW b \in DOMAIN g
      PROVE  \E o \in Deques : b \in D!BlocksOf(r[o].storage_)
  <2>1. CASE b \in D!BlocksOf(x.storage_)
    BY <1>1, <2>1
  <2>2. CASE b \in DOMAIN h \ D!BlocksOf(q[d].storage_)
    BY <1>1, <2>2 DEF Owned
  <2> QED
    BY <2>1, <2>2
<1>6. Owned(r, g)
  BY <1>2, <1>4, <1>5, Zenon DEF Owned
<1> QED
  BY <1>6 DEF r

(* Blocks and indices: arithmetic.                                          *)
LEMMA BlockArith ==
  ASSUME NEW B \in Nat \ {0}
  PROVE  /\ \A a, b \in Nat : a <= b => a * B <= b * B
         /\ \A a \in Nat : a * B \in Nat /\ (a + 1) * B = a * B + B
         /\ \A a, b \in Nat, i \in 0 .. B - 1 : a * B + i < b * B => a < b
         /\ \A a, b \in Nat, i \in 0 .. B - 1 : a * B + i <= b * B => a <= b
         /\ \A a, b \in Nat, i, j \in 0 .. B - 1 : a * B + i = b * B + j => a = b /\ i = j
         /\ \A a \in Nat, i \in 0 .. B - 1 : (a * B + i) \div B = a /\ (a * B + i) % B = i
<1>1. ASSUME NEW a \in Nat, NEW b \in Nat, a <= b PROVE a * B <= b * B
  BY <1>1
<1>2. \A a \in Nat : a * B \in Nat /\ (a + 1) * B = a * B + B
  OBVIOUS
<1>3. ASSUME NEW a \in Nat, NEW b \in Nat, a < b PROVE a * B + B <= b * B
  BY <1>1, <1>2, <1>3
<1>4. \A a, b \in Nat : a < b \/ a = b \/ b < a
  OBVIOUS
<1>5. ASSUME NEW a \in Nat, NEW b \in Nat, NEW i \in 0 .. B - 1, NEW j \in 0 .. B - 1
      PROVE  /\ a * B + i < b * B => a < b
             /\ a * B + i <= b * B => a <= b
             /\ a * B + i = b * B + j => a = b /\ i = j
  <2>1. a * B \in Nat /\ b * B \in Nat
    BY <1>2
  <2>2. CASE a < b
    BY <1>3, <2>1, <2>2
  <2>3. CASE a = b
    BY <2>1, <2>3
  <2>4. CASE b < a
    BY <1>3, <2>1, <2>4
  <2> QED
    BY <1>4, <2>2, <2>3, <2>4
<1>6. ASSUME NEW a \in Nat, NEW i \in 0 .. B - 1
      PROVE  (a * B + i) \div B = a /\ (a * B + i) % B = i
  <2> DEFINE m == a * B + i
             q == m \div B
             r == m % B
  <2>1. m \in Nat /\ q \in Nat /\ r \in 0 .. B - 1 /\ m = q * B + r
    OBVIOUS
  <2>2. q = a /\ r = i
    <3> HIDE DEF q, r
    <3> QED
      BY <1>5, <2>1
  <2> QED
    BY <2>2
<1> QED
  BY <1>1, <1>2, <1>5, <1>6

LEMMA BlockSums ==
  ASSUME D!DequeAssumption
  PROVE  /\ BLOCK_SIZE \in Nat \ {0}
         /\ \A a, b \in Nat : a <= b => a * BLOCK_SIZE <= b * BLOCK_SIZE
         /\ \A a \in Nat : /\ a * BLOCK_SIZE \in Nat
                          /\ (a + 1) * BLOCK_SIZE = a * BLOCK_SIZE + BLOCK_SIZE
         /\ \A a, b \in Nat, i \in D!Index : a * BLOCK_SIZE + i < b * BLOCK_SIZE => a < b
         /\ \A a, b \in Nat, i \in D!Index : a * BLOCK_SIZE + i <= b * BLOCK_SIZE => a <= b
         /\ \A a, b \in Nat, i, j \in D!Index :
              a * BLOCK_SIZE + i = b * BLOCK_SIZE + j => a = b /\ i = j
         /\ \A a \in Nat, i \in D!Index :
              (a * BLOCK_SIZE + i) \div BLOCK_SIZE = a /\ (a * BLOCK_SIZE + i) % BLOCK_SIZE = i
<1>1. BLOCK_SIZE \in Nat \ {0}
  BY DEF D!DequeAssumption
<1> QED
  BY <1>1, BlockArith, Zenon DEF D!Index

LEMMA WrapFact ==
  ASSUME D!DequeAssumption
  PROVE  \A k \in Nat : k < SizeRange => D!Wrap(k) = k
<1> SUFFICES ASSUME NEW k \in Nat, k < SizeRange PROVE k % SizeRange = k
  BY DEF D!Wrap
<1>1. SizeRange \in Nat \ {0}
  BY DEF D!DequeAssumption
<1>2. k \in 0 .. SizeRange - 1 /\ 0 * SizeRange + k = k
  BY <1>1
<1>3. \A a \in Nat, i \in 0 .. SizeRange - 1 : (a * SizeRange + i) % SizeRange = i
  BY <1>1, BlockArith
<1>4. (0 * SizeRange + k) % SizeRange = k
  BY <1>2, <1>3
<1> QED
  BY <1>2, <1>4

LEMMA ConcatFact ==
  ASSUME NEW s \in Seq(Nat), NEW t \in Seq(Nat)
  PROVE  /\ s \o t \in Seq(Nat) /\ Len(s \o t) = Len(s) + Len(t)
         /\ D!BlocksOf(s \o t) = D!BlocksOf(s) \union D!BlocksOf(t)
         /\ Distinct(s) /\ Distinct(t) /\ D!BlocksOf(s) \cap D!BlocksOf(t) = {} => Distinct(s \o t)
<1>1. /\ s \o t \in Seq(Nat) /\ Len(s \o t) = Len(s) + Len(t)
      /\ DOMAIN (s \o t) = 1 .. Len(s) + Len(t) /\ DOMAIN s = 1 .. Len(s) /\ DOMAIN t = 1 .. Len(t)
      /\ Len(s) \in Nat /\ Len(t) \in Nat
  OBVIOUS
<1>2. /\ \A i \in DOMAIN s : i \in DOMAIN (s \o t) /\ (s \o t)[i] = s[i]
      /\ \A i \in DOMAIN t : i + Len(s) \in DOMAIN (s \o t) /\ (s \o t)[i + Len(s)] = t[i]
      /\ \A i \in DOMAIN (s \o t) : i \in DOMAIN s \/ i - Len(s) \in DOMAIN t
  BY <1>1
<1> DEFINE c == s \o t
<1> HIDE DEF c
<1>3. /\ \A i \in DOMAIN s : i \in DOMAIN c /\ c[i] = s[i]
      /\ \A i \in DOMAIN t : i + Len(s) \in DOMAIN c /\ c[i + Len(s)] = t[i]
      /\ \A i \in DOMAIN c : i \in DOMAIN s \/ (i - Len(s) \in DOMAIN t /\ i \in Nat)
  BY <1>1, <1>2 DEF c
<1>4. D!BlocksOf(c) = D!BlocksOf(s) \union D!BlocksOf(t)
  <2>1. \A b \in D!BlocksOf(s) \union D!BlocksOf(t) : b \in D!BlocksOf(c)
    BY <1>3 DEF D!BlocksOf
  <2>2. ASSUME NEW i \in DOMAIN c PROVE c[i] \in D!BlocksOf(s) \union D!BlocksOf(t)
    <3>1. CASE i \in DOMAIN s
      BY <1>3, <3>1 DEF D!BlocksOf
    <3>2. CASE i - Len(s) \in DOMAIN t /\ i \in Nat
      <4>1. i = (i - Len(s)) + Len(s)
        BY <1>1, <3>2
      <4> QED
        BY <1>3, <3>2, <4>1 DEF D!BlocksOf
    <3> QED
      BY <1>3, <3>1, <3>2
  <2> QED
    BY <2>1, <2>2, Zenon DEF D!BlocksOf
<1>5. ASSUME Distinct(s), Distinct(t), D!BlocksOf(s) \cap D!BlocksOf(t) = {} PROVE Distinct(c)
  <2> SUFFICES ASSUME NEW i \in DOMAIN c, NEW j \in DOMAIN c, c[i] = c[j] PROVE i = j
    BY DEF Distinct
  <2>1. CASE i \in DOMAIN s /\ j \in DOMAIN s
    BY <1>3, <1>5, <2>1 DEF Distinct
  <2>2. \A k \in DOMAIN c : k \notin DOMAIN s => /\ k - Len(s) \in DOMAIN t /\ k \in Nat
                                                /\ c[k] = t[k - Len(s)]
    <3> SUFFICES ASSUME NEW k \in DOMAIN c, k \notin DOMAIN s, k - Len(s) \in DOMAIN t, k \in Nat
                 PROVE  c[k] = t[k - Len(s)]
      BY <1>3
    <3>1. k = (k - Len(s)) + Len(s)
      BY <1>1
    <3> QED
      BY <1>3, <3>1
  <2>3. CASE i \notin DOMAIN s /\ j \notin DOMAIN s
    BY <1>1, <1>5, <2>2, <2>3 DEF Distinct
  <2>4. CASE i \in DOMAIN s /\ j \notin DOMAIN s
    <3>1. c[i] \in D!BlocksOf(s) /\ c[j] \in D!BlocksOf(t)
      BY <1>3, <2>2, <2>4, Zenon DEF D!BlocksOf
    <3> QED
      BY <1>5, <3>1
  <2>5. CASE i \notin DOMAIN s /\ j \in DOMAIN s
    <3>1. c[j] \in D!BlocksOf(s) /\ c[i] \in D!BlocksOf(t)
      BY <1>3, <2>2, <2>5 DEF D!BlocksOf
    <3> QED
      BY <1>5, <3>1
  <2> QED
    BY <2>1, <2>3, <2>4, <2>5
<1> QED
  BY <1>1, <1>4, <1>5 DEF c

LEMMA AllocateFact ==
  ASSUME NEW h, DequeHeap(h), NEW s \in Seq(Nat), NEW cells,
         \A k \in DOMAIN s : s[k] \notin DOMAIN h => cells[k] \in [D!Index -> D!Cells]
  PROVE  /\ DequeHeap(D!Allocate(h, s, cells))
         /\ DOMAIN D!Allocate(h, s, cells) = DOMAIN h \union D!BlocksOf(s)
         /\ \A b \in DOMAIN h : D!Allocate(h, s, cells)[b] = h[b]
         /\ Distinct(s) => \A k \in DOMAIN s :
              s[k] \notin DOMAIN h => D!Allocate(h, s, cells)[s[k]] = cells[k]
<1> DEFINE g == D!Allocate(h, s, cells)
           at(b) == CHOOSE k \in DOMAIN s : s[k] = b
<1>1. /\ DOMAIN g = DOMAIN h \union D!BlocksOf(s)
      /\ \A b \in DOMAIN g : g[b] = IF b \in DOMAIN h THEN h[b] ELSE cells[at(b)]
      /\ g = [b \in DOMAIN g |-> g[b]]
  BY DEF D!Allocate
<1>2. \A b \in D!BlocksOf(s) : at(b) \in DOMAIN s /\ s[at(b)] = b
  BY DEF D!BlocksOf
<1> HIDE DEF g, at
<1>3. \A b \in DOMAIN g : g[b] \in [D!Index -> D!Cells]
  BY <1>1, <1>2 DEF DequeHeap
<1>4. IsFiniteSet(D!BlocksOf(s)) /\ D!BlocksOf(s) \in SUBSET Nat
  <2>1. s \in Surjection(1 .. Len(s), D!BlocksOf(s))
    BY DEF Surjection, D!BlocksOf
  <2> QED
    BY <2>1, IntervalSize, FS_Surjection DEF D!BlocksOf
<1>5. DequeHeap(g)
  <2>1. IsFiniteSet(DOMAIN h \union D!BlocksOf(s))
    BY <1>4, FS_Union, Zenon DEF DequeHeap
  <2> QED
    BY <1>1, <1>3, <1>4, <2>1 DEF DequeHeap
<1>6. ASSUME Distinct(s), NEW k \in DOMAIN s, s[k] \notin DOMAIN h PROVE g[s[k]] = cells[k]
  <2>1. s[k] \in D!BlocksOf(s)
    BY DEF D!BlocksOf
  <2>2. at(s[k]) = k
    BY <1>2, <1>6, <2>1 DEF Distinct
  <2> QED
    BY <1>1, <1>6, <2>1, <2>2
<1> QED
  BY <1>1, <1>5, <1>6 DEF g

LEMMA DeleteFact ==
  ASSUME NEW h, DequeHeap(h), NEW s
  PROVE  /\ DequeHeap(D!Delete(h, s)) /\ DOMAIN D!Delete(h, s) = DOMAIN h \ D!BlocksOf(s)
         /\ \A b \in DOMAIN D!Delete(h, s) : D!Delete(h, s)[b] = h[b]
<1>1. IsFiniteSet(DOMAIN h \ D!BlocksOf(s))
  BY FS_Difference, Zenon DEF DequeHeap
<1> QED
  BY <1>1 DEF D!Delete, DequeHeap

(* A write to a block that is there is defined.                             *)
LEMMA WriteFact ==
  ASSUME NEW d \in Deques, NEW x, NEW k \in Nat, NEW i \in D!Index, NEW h, DequeHeap(h),
         NEW v \in D!Cells, k < Len(x.storage_), x.storage_[k + 1] \in DOMAIN h,
         undefined = FALSE, D!Write(d, x, k, i, h, v), D!DequeAssumption
  PROVE  /\ deque' = [deque EXCEPT ![d] = x] /\ undefined' = FALSE
         /\ heap' = [h EXCEPT ![x.storage_[k + 1]][i] = v]
         /\ DequeHeap(heap') /\ DOMAIN heap' = DOMAIN h
<1>1. i < BLOCK_SIZE
  BY DEF D!Index, D!DequeAssumption
<1>2. /\ deque' = [deque EXCEPT ![d] = x] /\ undefined' = FALSE
      /\ heap' = [h EXCEPT ![x.storage_[k + 1]][i] = v]
  BY <1>1 DEF D!Write, D!Access
<1> QED
  BY <1>2 DEF DequeHeap

LEMMA DequeBecomes ==
  ASSUME DequeInv, NEW d \in Deques, NEW x \in DequeRecord, DequeHeap(heap'), EndRight(x),
         Distinct(x.storage_),
         D!BlocksOf(x.storage_) \cap (DOMAIN heap \ D!BlocksOf(deque[d].storage_)) = {},
         DOMAIN heap' = (DOMAIN heap \ D!BlocksOf(deque[d].storage_)) \union D!BlocksOf(x.storage_),
         Cardinality(DOMAIN heap') <= BlockBound,
         deque' = [deque EXCEPT ![d] = x], undefined' = FALSE
  PROVE  DequeInv'
<1>1. deque \in [Deques -> DequeRecord] /\ Owned(deque, heap)
  BY DEF DequeInv
<1>2. Owned(deque', heap')
  BY <1>1, OwnedReplaced, Zenon
<1>3. deque' \in [Deques -> DequeRecord] /\ \A o \in Deques : EndRight(deque'[o])
  BY <1>1 DEF DequeInv
<1> QED
  BY <1>2, <1>3 DEF DequeInv

LEMMA PushBackStep ==
  ASSUME D!DequeAssumption, DequeInv, NEW d \in Deques, NEW v \in Values, D!PushBack(d, v),
         Cardinality(DOMAIN heap') <= BlockBound
  PROVE  DequeInv'
<1> DEFINE x == deque[d]
           n == Len(x.storage_)
           new == IF x.tail_block_ >= n THEN D!NewBlocks(1, heap) ELSE <<>>
           grown == [x EXCEPT !.storage_ = @ \o new, !.size_ = @ + 1]
           s == x.storage_ \o new
           y == IF x.tail_index_ + 1 >= BLOCK_SIZE
                THEN [grown EXCEPT !.tail_index_ = 0, !.tail_block_ = D!Wrap(@ + 1)]
                ELSE [grown EXCEPT !.tail_index_ = @ + 1]
           h == D!Allocate(heap, s, D!Blank(s))
<1>1. /\ x \in DequeRecord /\ DequeHeap(heap) /\ EndRight(x) /\ undefined = FALSE
      /\ Distinct(x.storage_) /\ D!BlocksOf(x.storage_) \subseteq DOMAIN heap
  BY DEF DequeInv, Owned
<1>2. BLOCK_SIZE \in Nat \ {0} /\ SizeRange \in Nat /\ BlockBound \in Nat /\ BlockBound + 1 < SizeRange
  BY DEF D!DequeAssumption
<1>3. /\ x.storage_ \in Seq(Nat) /\ n \in Nat /\ x.tail_block_ \in Nat /\ x.size_ \in Nat
      /\ x.head_index_ \in 0 .. BLOCK_SIZE - 1 /\ x.tail_index_ \in 0 .. BLOCK_SIZE - 1
  BY <1>1 DEF DequeRecord, D!Index
<1> HIDE DEF x
<1>4. x.tail_block_ <= n
  <2>1. x.tail_block_ * BLOCK_SIZE + x.tail_index_ <= n * BLOCK_SIZE
    BY <1>1 DEF EndRight
  <2> QED
    BY <1>3, <2>1, BlockSums, Zenon DEF D!Index
<1>5. /\ new \in Seq(Nat) /\ Len(new) = (IF x.tail_block_ = n THEN 1 ELSE 0) /\ Distinct(new)
      /\ D!BlocksOf(new) \cap DOMAIN heap = {}
  <2>1. CASE x.tail_block_ >= n
    <3>1. new = D!NewBlocks(1, heap) /\ x.tail_block_ = n
      BY <1>3, <1>4, <2>1
    <3>2. /\ D!NewBlocks(1, heap) \in Seq(Nat) /\ Len(D!NewBlocks(1, heap)) = 1
          /\ Distinct(D!NewBlocks(1, heap))
          /\ D!BlocksOf(D!NewBlocks(1, heap)) \cap DOMAIN heap = {}
      BY <1>1, NewBlocksFact, Zenon DEF DequeHeap
    <3> HIDE DEF new
    <3> QED
      BY <3>1, <3>2
  <2>2. CASE ~(x.tail_block_ >= n)
    BY <1>3, <1>4, <2>2 DEF Distinct, D!BlocksOf
  <2> QED
    BY <2>1, <2>2
<1> HIDE DEF new
<1>6. /\ s \in Seq(Nat) /\ Len(s) = n + Len(new) /\ x.tail_block_ < Len(s)
      /\ Distinct(s) /\ D!BlocksOf(s) = D!BlocksOf(x.storage_) \union D!BlocksOf(new)
  <2>1. D!BlocksOf(x.storage_) \cap D!BlocksOf(new) = {}
    BY <1>1, <1>5
  <2>2. /\ s \in Seq(Nat) /\ Len(s) = n + Len(new)
        /\ Distinct(s) /\ D!BlocksOf(s) = D!BlocksOf(x.storage_) \union D!BlocksOf(new)
    BY <1>1, <1>3, <1>5, <2>1, ConcatFact, Zenon
  <2>3. x.tail_block_ < n + Len(new)
    <3>1. Len(new) = 1 \/ (Len(new) = 0 /\ x.tail_block_ # n)
      BY <1>5
    <3>2. x.tail_block_ \in Nat /\ n \in Nat
      BY <1>3
    <3>3. \A a, b \in Nat : a <= b => a < b + 1 /\ (a # b => a < b + 0)
      OBVIOUS
    <3> QED
      BY <1>4, <3>1, <3>2, <3>3
  <2> HIDE DEF s
  <2> QED
    BY <2>2, <2>3
<1> HIDE DEF s
<1>7. D!Wrap(x.tail_block_ + 1) = x.tail_block_ + 1
  <2>1. n <= Cardinality(DOMAIN heap)
    BY <1>1, <1>3, DistinctLen DEF DequeHeap
  <2>a. Cardinality(DOMAIN heap) \in Nat /\ Cardinality(DOMAIN heap) <= BlockBound
    BY <1>1, FS_CardinalityType DEF DequeInv, DequeHeap
  <2>2. x.tail_block_ + 1 < SizeRange
    BY <1>2, <1>3, <1>4, <2>1, <2>a
  <2> QED
    BY <1>3, <2>2, WrapFact
<1>8. y \in DequeRecord /\ y.storage_ = s /\ EndRight(y)
  <2> DEFINE tb == x.tail_block_
             ti == x.tail_index_
  <2>1. /\ (tb + 1) * BLOCK_SIZE = tb * BLOCK_SIZE + BLOCK_SIZE /\ tb * BLOCK_SIZE \in Nat
        /\ (tb + 1) * BLOCK_SIZE <= Len(s) * BLOCK_SIZE /\ Len(s) * BLOCK_SIZE \in Nat
    <3>1. tb + 1 \in Nat /\ Len(s) \in Nat /\ tb + 1 <= Len(s)
      BY <1>3, <1>6
    <3> QED
      BY <1>3, <3>1, BlockSums, Zenon
  <2>2. tb * BLOCK_SIZE + ti = x.head_index_ + x.size_
    BY <1>1 DEF EndRight
  <2>3. x.size_ + 1 \in Nat /\ 0 \in D!Index /\ tb + 1 \in Nat /\ x.tail_index_ \in D!Index
    BY <1>2, <1>3 DEF D!Index
  <2>a. grown = [x EXCEPT !.storage_ = s, !.size_ = x.size_ + 1]
    BY DEF s
  <2> HIDE DEF grown
  <2>b. /\ grown \in DequeRecord /\ grown.storage_ = s /\ grown.size_ = x.size_ + 1
        /\ grown.head_index_ = x.head_index_ /\ grown.tail_block_ = tb /\ grown.tail_index_ = ti
    BY <1>1, <1>6, <2>3, <2>a, Zenon DEF DequeRecord
  <2>4. CASE ti + 1 >= BLOCK_SIZE
    <3>1. y = [grown EXCEPT !.tail_index_ = 0, !.tail_block_ = tb + 1]
      BY <1>7, <2>4, <2>b, Zenon
    <3> HIDE DEF y
    <3>2. /\ y \in DequeRecord /\ y.storage_ = s /\ y.size_ = x.size_ + 1
          /\ y.head_index_ = x.head_index_ /\ y.tail_block_ = tb + 1 /\ y.tail_index_ = 0
      BY <2>3, <2>b, <3>1, Zenon DEF DequeRecord
    <3>3. ti = BLOCK_SIZE - 1
      BY <1>2, <1>3, <2>4
    <3>4. /\ (tb + 1) * BLOCK_SIZE + 0 = x.head_index_ + (x.size_ + 1)
          /\ x.head_index_ + (x.size_ + 1) <= Len(s) * BLOCK_SIZE
      <4>1. x.head_index_ \in Int /\ x.size_ \in Int /\ tb \in Nat /\ ti \in Int
        BY <1>2, <1>3
      <4> DEFINE hd == x.head_index_
                 sz == x.size_
                 p == tb * BLOCK_SIZE
                 q == (tb + 1) * BLOCK_SIZE
                 r == Len(s) * BLOCK_SIZE
      <4> HIDE DEF tb, ti
      <4>2. /\ hd \in Int /\ sz \in Int /\ q = p + BLOCK_SIZE /\ p \in Nat /\ q <= r /\ r \in Nat
            /\ p + ti = hd + sz
        BY <4>1, <2>1, <2>2
      <4> HIDE DEF hd, sz, p, q, r
      <4>3. q + 0 = hd + (sz + 1) /\ hd + (sz + 1) <= r
        BY <1>2, <4>1, <4>2, <3>3
      <4> QED
        BY <4>3 DEF hd, sz, p, q, r
    <3> QED
      BY <3>2, <3>4 DEF EndRight
  <2>5. CASE ~(ti + 1 >= BLOCK_SIZE)
    <3>1. y = [grown EXCEPT !.tail_index_ = ti + 1] /\ ti + 1 \in D!Index
      BY <1>2, <1>3, <2>5, <2>b DEF D!Index
    <3> HIDE DEF y
    <3>2. /\ y \in DequeRecord /\ y.storage_ = s /\ y.size_ = x.size_ + 1
          /\ y.head_index_ = x.head_index_ /\ y.tail_block_ = tb /\ y.tail_index_ = ti + 1
      BY <2>3, <2>b, <3>1, Zenon DEF DequeRecord
    <3>4. /\ tb * BLOCK_SIZE + (ti + 1) = x.head_index_ + (x.size_ + 1)
          /\ x.head_index_ + (x.size_ + 1) <= Len(s) * BLOCK_SIZE
      <4>1. x.head_index_ \in Int /\ x.size_ \in Int /\ tb \in Nat /\ ti \in Int
        BY <1>2, <1>3
      <4> DEFINE hd == x.head_index_
                 sz == x.size_
                 p == tb * BLOCK_SIZE
                 q == (tb + 1) * BLOCK_SIZE
                 r == Len(s) * BLOCK_SIZE
      <4> HIDE DEF tb, ti
      <4>2. /\ hd \in Int /\ sz \in Int /\ q = p + BLOCK_SIZE /\ p \in Nat /\ q <= r /\ r \in Nat
            /\ p + ti = hd + sz
        BY <4>1, <2>1, <2>2
      <4> HIDE DEF hd, sz, p, q, r
      <4>3. p + (ti + 1) = hd + (sz + 1) /\ hd + (sz + 1) <= r
        BY <1>2, <4>1, <4>2, <2>5
      <4> QED
        BY <4>3 DEF hd, sz, p, q, r
    <3> QED
      BY <3>2, <3>4 DEF EndRight
  <2> QED
    BY <2>4, <2>5
<1>9. DequeHeap(h) /\ DOMAIN h = DOMAIN heap \union D!BlocksOf(s)
  <2>1. \A k \in DOMAIN s : D!Blank(s)[k] \in [D!Index -> D!Cells]
    BY DEF D!Blank, D!Cells
  <2> QED
    BY <1>1, <1>6, <2>1, AllocateFact, Zenon
<1>10. D!Write(d, y, x.tail_block_, x.tail_index_, h, v)
  BY DEF D!PushBack, new, s, x
<1>11. s[x.tail_block_ + 1] \in DOMAIN h /\ v \in D!Cells /\ x.tail_index_ \in D!Index
  <2>1. x.tail_block_ + 1 \in DOMAIN s
    BY <1>3, <1>6
  <2> QED
    BY <1>3, <1>9, <2>1 DEF D!BlocksOf, D!Cells, D!Index
<1> HIDE DEF y, h
<1>12. /\ deque' = [deque EXCEPT ![d] = y] /\ undefined' = FALSE
       /\ DequeHeap(heap') /\ DOMAIN heap' = DOMAIN h
  <2>1. x.tail_block_ < Len(y.storage_) /\ y.storage_[x.tail_block_ + 1] \in DOMAIN h
    BY <1>6, <1>8, <1>11, Zenon
  <2>2. DequeHeap(h) /\ undefined = FALSE /\ x.tail_block_ \in Nat
    BY <1>1, <1>3, <1>9
  <2> QED
    BY <1>10, <1>11, <2>1, <2>2, WriteFact, ZenonT(60)
<1>13. /\ D!BlocksOf(s) \cap (DOMAIN heap \ D!BlocksOf(x.storage_)) = {}
       /\ DOMAIN heap' = (DOMAIN heap \ D!BlocksOf(x.storage_)) \union D!BlocksOf(s)
  BY <1>1, <1>5, <1>6, <1>9, <1>12
<1> QED
  BY <1>6, <1>8, <1>12, <1>13, DequeBecomes, Zenon DEF x

LEMMA DequeFacts ==
  ASSUME D!DequeAssumption, DequeInv, NEW d \in Deques, NEW x, x = deque[d]
  PROVE  /\ x \in DequeRecord /\ EndRight(x) /\ x.storage_ \in Seq(Nat) /\ Distinct(x.storage_)
         /\ D!BlocksOf(x.storage_) \subseteq DOMAIN heap
         /\ x.tail_block_ \in Nat /\ x.tail_index_ \in D!Index
         /\ x.head_index_ \in D!Index /\ x.size_ \in Nat
         /\ Len(x.storage_) \in Nat /\ x.tail_block_ <= Len(x.storage_)
         /\ Len(x.storage_) + 1 < SizeRange
         /\ \A i \in D!Index : i \in Nat /\ i < BLOCK_SIZE
<1>1. /\ x \in DequeRecord /\ EndRight(x) /\ DequeHeap(heap)
      /\ Distinct(x.storage_) /\ D!BlocksOf(x.storage_) \subseteq DOMAIN heap
      /\ Cardinality(DOMAIN heap) <= BlockBound
  BY DEF DequeInv, Owned
<1>2. /\ x.storage_ \in Seq(Nat) /\ Len(x.storage_) \in Nat /\ x.tail_block_ \in Nat
      /\ x.tail_index_ \in D!Index /\ x.head_index_ \in D!Index /\ x.size_ \in Nat
  BY <1>1 DEF DequeRecord
<1>3. x.tail_block_ <= Len(x.storage_)
  <2>1. x.tail_block_ * BLOCK_SIZE + x.tail_index_ <= Len(x.storage_) * BLOCK_SIZE
    BY <1>1 DEF EndRight
  <2> QED
    BY <1>2, <2>1, BlockSums, Zenon
<1>4. Len(x.storage_) + 1 < SizeRange
  <2>1. Cardinality(DOMAIN heap) \in Nat /\ Len(x.storage_) <= Cardinality(DOMAIN heap)
    BY <1>1, <1>2, DistinctLen, FS_CardinalityType DEF DequeHeap
  <2>2. BlockBound \in Nat /\ SizeRange \in Nat /\ BlockBound + 1 < SizeRange
    BY DEF D!DequeAssumption
  <2> QED
    BY <1>1, <1>2, <2>1, <2>2
<1>5. \A i \in D!Index : i \in Nat /\ i < BLOCK_SIZE
  BY DEF D!DequeAssumption, D!Index
<1> QED
  BY <1>1, <1>2, <1>3, <1>4, <1>5

(* One before the end e, and one behind it, as block and index.             *)
LEMMA BeforeEnd ==
  ASSUME D!DequeAssumption, NEW tb \in Nat, NEW ti \in D!Index, NEW e \in Nat, e # 0,
         tb * BLOCK_SIZE + ti = e, NEW n \in Nat, e <= n * BLOCK_SIZE, n + 1 < SizeRange,
         NEW block, block = IF ti = 0 THEN D!Wrap(tb - 1) ELSE tb,
         NEW index, index = IF ti = 0 THEN BLOCK_SIZE - 1 ELSE ti - 1
  PROVE  /\ block \in Nat /\ block < n /\ index \in D!Index
         /\ block * BLOCK_SIZE + index = e - 1
         /\ \A m \in Nat : block < m => e - 1 <= m * BLOCK_SIZE
<1>1. /\ BLOCK_SIZE \in Nat \ {0} /\ SizeRange \in Nat
      /\ ti \in Nat /\ ti < BLOCK_SIZE /\ tb * BLOCK_SIZE \in Nat
  BY BlockSums DEF D!DequeAssumption, D!Index
<1>2. tb <= n
  BY BlockSums
<1>3. block \in Nat /\ index \in D!Index /\ block * BLOCK_SIZE + index = e - 1
  <2>1. CASE ti = 0
    <3>1. tb # 0
      <4>1. 0 * BLOCK_SIZE = 0
        BY <1>1
      <4> QED
        BY <2>1, <4>1
    <3>2. tb - 1 \in Nat /\ tb - 1 < SizeRange /\ tb = (tb - 1) + 1
      BY <1>1, <1>2, <3>1
    <3>3. block = tb - 1 /\ index = BLOCK_SIZE - 1
      BY <2>1, <3>2, WrapFact
    <3>4. tb * BLOCK_SIZE = (tb - 1) * BLOCK_SIZE + BLOCK_SIZE /\ (tb - 1) * BLOCK_SIZE \in Nat
      BY <3>2, BlockSums
    <3>5. (tb - 1) * BLOCK_SIZE + (BLOCK_SIZE - 1) = e - 1
      BY <1>1, <2>1, <3>4
    <3> QED
      BY <1>1, <3>2, <3>3, <3>5 DEF D!Index
  <2>2. CASE ti # 0
    <3>1. block = tb /\ index = ti - 1
      BY <2>2
    <3> QED
      BY <1>1, <2>2, <3>1 DEF D!Index
  <2> QED
    BY <2>1, <2>2
<1>4. block * BLOCK_SIZE \in Nat /\ index \in Nat /\ index < BLOCK_SIZE /\ n * BLOCK_SIZE \in Nat
  BY <1>1, <1>3, BlockSums DEF D!Index
<1>5. block < n
  <2>1. block * BLOCK_SIZE + index < n * BLOCK_SIZE
    BY <1>3, <1>4
  <2> QED
    BY <1>3, <2>1, BlockSums, Zenon
<1>6. ASSUME NEW m \in Nat, block < m PROVE e - 1 <= m * BLOCK_SIZE
  <2>1. block + 1 \in Nat /\ block + 1 <= m
    BY <1>3, <1>6
  <2>2. /\ (block + 1) * BLOCK_SIZE <= m * BLOCK_SIZE /\ m * BLOCK_SIZE \in Nat
        /\ (block + 1) * BLOCK_SIZE = block * BLOCK_SIZE + BLOCK_SIZE
    BY <1>3, <2>1, BlockSums, Zenon
  <2> QED
    BY <1>1, <1>3, <1>4, <2>2
<1> QED
  BY <1>3, <1>5, <1>6

(* A sequence without its last element, and one without its first.          *)
LEMMA LastDropped ==
  ASSUME NEW q \in Seq(Nat), Distinct(q), NEW n \in Nat \ {0}, n = Len(q)
  PROVE  /\ q[n] \in D!BlocksOf(q)
         /\ SubSeq(q, 1, n - 1) \in Seq(Nat) /\ Len(SubSeq(q, 1, n - 1)) = n - 1
         /\ Distinct(SubSeq(q, 1, n - 1))
         /\ D!BlocksOf(SubSeq(q, 1, n - 1)) = D!BlocksOf(q) \ {q[n]}
<1>1. DOMAIN q = 1 .. n /\ \A i \in 1 .. n - 1 : q[i] \in Nat
  OBVIOUS
<1>2. 1 \in Int /\ n - 1 \in Int
  OBVIOUS
<1>3. /\ SubSeq(q, 1, n - 1) \in Seq(Nat)
      /\ Len(SubSeq(q, 1, n - 1)) = (IF 1 <= n - 1 THEN n - 1 - 1 + 1 ELSE 0)
      /\ \A i \in 1 .. n - 1 - 1 + 1 : SubSeq(q, 1, n - 1)[i] = q[1 + i - 1]
  BY <1>1, <1>2, SubSeqProperties
<1> DEFINE t == SubSeq(q, 1, n - 1)
<1> HIDE DEF t
<1>4. t \in Seq(Nat) /\ Len(t) = n - 1 /\ DOMAIN t = 1 .. n - 1
  <2>1. t \in Seq(Nat) /\ Len(t) = n - 1
    BY <1>3 DEF t
  <2> QED
    BY <2>1
<1>5. \A i \in 1 .. n - 1 : i \in 1 .. n /\ t[i] = q[i] /\ i # n
  <2> SUFFICES ASSUME NEW i \in 1 .. n - 1
               PROVE  i \in 1 .. n /\ t[i] = q[i] /\ i # n
    BY Zenon
  <2>1. i \in 1 .. n - 1 - 1 + 1 /\ 1 + i - 1 = i /\ i \in 1 .. n /\ i # n
    OBVIOUS
  <2>2. t[i] = q[1 + i - 1]
    BY <1>3, <2>1 DEF t
  <2> QED
    BY <2>1, <2>2
<1>6. \A k \in 1 .. n : k # n => k \in 1 .. n - 1 /\ t[k] = q[k]
  <2> SUFFICES ASSUME NEW k \in 1 .. n, k # n
               PROVE  k \in 1 .. n - 1 /\ t[k] = q[k]
    OBVIOUS
  <2>1. k \in 1 .. n - 1 /\ k = (k) + 0
    OBVIOUS
  <2> QED
    BY <1>5, <2>1, Zenon
<1>7. Distinct(t)
  <2> SUFFICES ASSUME NEW i \in 1 .. n - 1, NEW j \in 1 .. n - 1, t[i] = t[j]
               PROVE  i = j
    BY <1>4, Zenon DEF Distinct
  <2> QED
    BY <1>1, <1>5, Zenon DEF Distinct
<1>8. D!BlocksOf(t) = D!BlocksOf(q) \ {q[n]}
  <2>1. n \in 1 .. n
    OBVIOUS
  <2>2. ASSUME NEW i \in DOMAIN t PROVE t[i] \in D!BlocksOf(q) \ {q[n]}
    <3>1. PICK k \in 1 .. n : t[i] = q[k] /\ k # n
      BY <1>4, <1>5, Zenon
    <3>2. q[k] # q[n]
      BY <1>1, <2>1, <3>1, Zenon DEF Distinct
    <3> QED
      BY <1>1, <3>1, <3>2, Zenon DEF D!BlocksOf
  <2>3. \A k \in DOMAIN q : q[k] # q[n] => q[k] \in D!BlocksOf(t)
    BY <1>1, <1>4, <1>6, Zenon DEF D!BlocksOf
  <2> QED
    BY <2>2, <2>3 DEF D!BlocksOf
<1>9. q[n] \in D!BlocksOf(q)
  <2>1. n \in DOMAIN q
    BY <1>1
  <2> QED
    BY <2>1 DEF D!BlocksOf
<1> QED
  BY <1>4, <1>7, <1>8, <1>9 DEF t

LEMMA FirstDropped ==
  ASSUME NEW q \in Seq(Nat), Distinct(q), NEW n \in Nat \ {0}, n = Len(q)
  PROVE  /\ q[1] \in D!BlocksOf(q)
         /\ SubSeq(q, 2, n) \in Seq(Nat) /\ Len(SubSeq(q, 2, n)) = n - 1
         /\ Distinct(SubSeq(q, 2, n))
         /\ D!BlocksOf(SubSeq(q, 2, n)) = D!BlocksOf(q) \ {q[1]}
<1>1. DOMAIN q = 1 .. n /\ \A i \in 2 .. n : q[i] \in Nat
  OBVIOUS
<1>2. 2 \in Int /\ n \in Int
  OBVIOUS
<1>3. /\ SubSeq(q, 2, n) \in Seq(Nat)
      /\ Len(SubSeq(q, 2, n)) = (IF 2 <= n THEN n - 2 + 1 ELSE 0)
      /\ \A i \in 1 .. n - 2 + 1 : SubSeq(q, 2, n)[i] = q[2 + i - 1]
  BY <1>1, <1>2, SubSeqProperties
<1> DEFINE t == SubSeq(q, 2, n)
<1> HIDE DEF t
<1>4. t \in Seq(Nat) /\ Len(t) = n - 1 /\ DOMAIN t = 1 .. n - 1
  <2>1. t \in Seq(Nat) /\ Len(t) = n - 1
    BY <1>3 DEF t
  <2> QED
    BY <2>1
<1>5. \A i \in 1 .. n - 1 : i + 1 \in 1 .. n /\ t[i] = q[i + 1] /\ i + 1 # 1
  <2> SUFFICES ASSUME NEW i \in 1 .. n - 1
               PROVE  i + 1 \in 1 .. n /\ t[i] = q[i + 1] /\ i + 1 # 1
    OBVIOUS
  <2>1. i \in 1 .. n - 2 + 1 /\ 2 + i - 1 = i + 1 /\ i + 1 \in 1 .. n /\ i + 1 # 1
    OBVIOUS
  <2>2. t[i] = q[2 + i - 1]
    BY <1>3, <2>1 DEF t
  <2> QED
    BY <2>1, <2>2
<1>6. \A k \in 1 .. n : k # 1 => k - 1 \in 1 .. n - 1 /\ t[k - 1] = q[k]
  <2> SUFFICES ASSUME NEW k \in 1 .. n, k # 1
               PROVE  k - 1 \in 1 .. n - 1 /\ t[k - 1] = q[k]
    OBVIOUS
  <2>1. k - 1 \in 1 .. n - 1 /\ k = (k - 1) + 1
    OBVIOUS
  <2> QED
    BY <1>5, <2>1
<1>7. Distinct(t)
  <2> SUFFICES ASSUME NEW i \in 1 .. n - 1, NEW j \in 1 .. n - 1, t[i] = t[j]
               PROVE  i = j
    BY <1>4, Zenon DEF Distinct
  <2>1. i + 1 \in DOMAIN q /\ j + 1 \in DOMAIN q /\ q[i + 1] = q[j + 1]
    BY <1>1, <1>5
  <2>2. i + 1 = j + 1
    BY <2>1, Zenon DEF Distinct
  <2> QED
    BY <2>2
<1>8. D!BlocksOf(t) = D!BlocksOf(q) \ {q[1]}
  <2>1. 1 \in 1 .. n
    OBVIOUS
  <2>2. ASSUME NEW i \in DOMAIN t PROVE t[i] \in D!BlocksOf(q) \ {q[1]}
    <3>1. PICK k \in 1 .. n : t[i] = q[k] /\ k # 1
      BY <1>4, <1>5, Zenon
    <3>2. q[k] # q[1]
      BY <1>1, <2>1, <3>1 DEF Distinct
    <3> QED
      BY <1>1, <3>1, <3>2 DEF D!BlocksOf
  <2>3. \A k \in DOMAIN q : q[k] # q[1] => q[k] \in D!BlocksOf(t)
    BY <1>1, <1>4, <1>6, Zenon DEF D!BlocksOf
  <2> QED
    BY <2>2, <2>3 DEF D!BlocksOf
<1>9. q[1] \in D!BlocksOf(q)
  <2>1. 1 \in DOMAIN q
    BY <1>1
  <2> QED
    BY <2>1 DEF D!BlocksOf
<1> QED
  BY <1>4, <1>7, <1>8, <1>9 DEF t

LEMMA PopBackStep ==
  ASSUME D!DequeAssumption, DequeInv, NEW d \in Deques, NEW v, D!PopBack(d, v),
         Cardinality(DOMAIN heap') <= BlockBound
  PROVE  DequeInv'
<1> DEFINE x == deque[d]
           n == Len(x.storage_)
           tb == x.tail_block_
           ti == x.tail_index_
           block == IF ti = 0 THEN D!Wrap(tb - 1) ELSE tb
           index == IF ti = 0 THEN BLOCK_SIZE - 1 ELSE ti - 1
           spare == D!Spare(x, block)
           s == SubSeq(x.storage_, 1, n - Len(spare))
           y == [x EXCEPT !.storage_ = s, !.size_ = @ - 1, !.tail_block_ = block, !.tail_index_ = index]
<1>1. /\ x \in DequeRecord /\ EndRight(x) /\ x.storage_ \in Seq(Nat) /\ Distinct(x.storage_)
      /\ D!BlocksOf(x.storage_) \subseteq DOMAIN heap
      /\ tb \in Nat /\ ti \in D!Index /\ x.head_index_ \in D!Index /\ x.size_ \in Nat
      /\ n \in Nat /\ tb <= n /\ n + 1 < SizeRange /\ \A i \in D!Index : i \in Nat /\ i < BLOCK_SIZE
  BY DequeFacts
<1>2. /\ x.size_ # 0 /\ D!Access(d, y, block, index, D!Delete(heap, spare))
      /\ ~undefined' => heap' = D!Delete(heap, spare)
  BY Zenon DEF D!PopBack, D!Empty
<1>3. BLOCK_SIZE \in Nat \ {0} /\ SizeRange \in Nat /\ DequeHeap(heap) /\ undefined = FALSE
  BY DEF D!DequeAssumption, DequeInv
<1>4. tb * BLOCK_SIZE + ti = x.head_index_ + x.size_ /\ x.head_index_ + x.size_ <= n * BLOCK_SIZE
  BY <1>1 DEF EndRight
<1>5. /\ block \in Nat /\ block < n /\ index \in D!Index
      /\ block * BLOCK_SIZE + index = (x.head_index_ + x.size_) - 1
      /\ \A m \in Nat : block < m => (x.head_index_ + x.size_) - 1 <= m * BLOCK_SIZE
  <2>1. x.head_index_ + x.size_ \in Nat /\ x.head_index_ + x.size_ # 0
    BY <1>1, <1>2
  <2>2. n + 1 < SizeRange /\ n \in Nat /\ tb \in Nat /\ ti \in D!Index
    BY <1>1
  <2> DEFINE e == x.head_index_ + x.size_
  <2>3. /\ e \in Nat /\ e # 0 /\ e <= n * BLOCK_SIZE /\ tb * BLOCK_SIZE + ti = e
        /\ block = IF ti = 0 THEN D!Wrap(tb - 1) ELSE tb
        /\ index = IF ti = 0 THEN BLOCK_SIZE - 1 ELSE ti - 1
    BY <1>4, <2>1
  <2> HIDE DEF n, tb, ti, e, block, index
  <2> QED
    BY <2>2, <2>3, BeforeEnd DEF e
<1> HIDE DEF x, block, index
<1>7. /\ s \in Seq(Nat) /\ Distinct(s) /\ block < Len(s)
      /\ D!BlocksOf(s) = D!BlocksOf(x.storage_) \ D!BlocksOf(spare)
      /\ D!BlocksOf(spare) \subseteq D!BlocksOf(x.storage_)
  <2>1. D!Wrap(block + 1) = block + 1 /\ D!Wrap(n - 1) = n - 1 /\ n # 0
    <3> HIDE DEF n
    <3>1. n \in Nat /\ n + 1 < SizeRange /\ SizeRange \in Nat /\ block \in Nat /\ block < n
      BY <1>1, <1>3, <1>5
    <3>2. /\ block + 1 \in Nat /\ block + 1 < SizeRange /\ n - 1 \in Nat /\ n - 1 < SizeRange
          /\ n # 0
      BY <3>1
    <3> QED
      BY <3>2, WrapFact
  <2>2. CASE block + 1 = n - 1
    <3>1. spare = <<x.storage_[n]>>
      BY <2>1, <2>2 DEF D!Spare
    <3>2. Len(spare) = 1 /\ D!BlocksOf(spare) = {x.storage_[n]}
      BY <3>1 DEF D!BlocksOf
    <3>3. s = SubSeq(x.storage_, 1, n - 1)
      BY <3>2
    <3>4. /\ n - 1 >= 0 /\ block < n - 1 /\ n = Len(x.storage_) /\ n \in Nat \ {0}
          /\ x.storage_ \in Seq(Nat) /\ Distinct(x.storage_)
      BY <1>1, <1>5, <2>1, <2>2
    <3> HIDE DEF s, spare, n
    <3> QED
      BY <3>2, <3>3, <3>4, LastDropped
  <2>3. CASE block + 1 # n - 1
    <3>1. spare = <<>>
      BY <2>1, <2>3 DEF D!Spare
    <3>2. Len(spare) = 0 /\ D!BlocksOf(spare) = {}
      BY <3>1 DEF D!BlocksOf
    <3>3. s = SubSeq(x.storage_, 1, n)
      BY <1>1, <3>2
    <3>4. /\ block < n /\ n = Len(x.storage_)
          /\ x.storage_ \in Seq(Nat) /\ Distinct(x.storage_)
      BY <1>1, <1>5, <2>1
    <3>5. s = x.storage_
      BY <3>3, <3>4, SubSeqFull
    <3> HIDE DEF s, spare, n
    <3> QED
      BY <3>2, <3>4, <3>5
  <2> QED
    BY <2>2, <2>3
<1> HIDE DEF spare, s
<1>8. y \in DequeRecord /\ y.storage_ = s /\ EndRight(y)
  <2>1. x.size_ - 1 \in Nat
    BY <1>1, <1>2
  <2>2. /\ y \in DequeRecord /\ y.storage_ = s /\ y.size_ = x.size_ - 1
        /\ y.head_index_ = x.head_index_ /\ y.tail_block_ = block /\ y.tail_index_ = index
    BY <1>1, <1>5, <1>7, <2>1, Zenon DEF DequeRecord
  <2>3. x.head_index_ + (x.size_ - 1) = (x.head_index_ + x.size_) - 1
    BY <1>1
  <2>4. (x.head_index_ + x.size_) - 1 <= Len(s) * BLOCK_SIZE
    BY <1>5, <1>7
  <2> QED
    BY <1>5, <2>2, <2>3, <2>4 DEF EndRight
<1> HIDE DEF y
<1>9. /\ deque' = [deque EXCEPT ![d] = y] /\ undefined' = FALSE
      /\ heap' = D!Delete(heap, spare)
  <2>1. y.storage_[block + 1] \in DOMAIN D!Delete(heap, spare)
    <3>1. s[block + 1] \in D!BlocksOf(s)
      BY <1>5, <1>7 DEF D!BlocksOf
    <3>2. DOMAIN D!Delete(heap, spare) = DOMAIN heap \ D!BlocksOf(spare)
      BY <1>3, DeleteFact, Zenon
    <3> QED
      BY <1>1, <1>7, <1>8, <3>1, <3>2
  <2>2. block < Len(y.storage_) /\ index < BLOCK_SIZE
    BY <1>1, <1>5, <1>7, <1>8
  <2> QED
    BY <1>2, <1>3, <2>1, <2>2 DEF D!Access
<1>10. DequeHeap(heap') /\ DOMAIN heap' = DOMAIN heap \ D!BlocksOf(spare)
  BY <1>3, <1>9, DeleteFact, Zenon
<1> QED
  BY <1>1, <1>7, <1>8, <1>9, <1>10, DequeBecomes, Zenon DEF x

(* Moving the front by one keeps the end right: arithmetic.                 *)
FrontMoves(tb, ti, head, size, n) ==
    /\ head = 0 => /\ (tb + 1) * BLOCK_SIZE + ti = (BLOCK_SIZE - 1) + (size + 1)
                   /\ (BLOCK_SIZE - 1) + (size + 1) <= (n + 1) * BLOCK_SIZE
    /\ head # 0 => /\ head - 1 \in D!Index /\ n # 0 /\ (head - 1) + (size + 1) = head + size
    /\ size # 0 => n # 0
    /\ size # 0 /\ head + 1 >= BLOCK_SIZE =>
         /\ tb # 0 /\ (tb - 1) * BLOCK_SIZE + ti = 0 + (size - 1)
         /\ 0 + (size - 1) <= (n - 1) * BLOCK_SIZE
    /\ ~(head + 1 >= BLOCK_SIZE) => head + 1 \in D!Index
    /\ (head + 1) + (size - 1) = head + size
    /\ BLOCK_SIZE - 1 \in D!Index /\ 0 \in D!Index

LEMMA FrontArith ==
  ASSUME D!DequeAssumption, NEW tb \in Nat, NEW ti \in D!Index, NEW head \in D!Index,
         NEW size \in Nat, NEW n \in Nat, tb * BLOCK_SIZE + ti = head + size,
         head + size <= n * BLOCK_SIZE
  PROVE  FrontMoves(tb, ti, head, size, n)
<1> DEFINE p == tb * BLOCK_SIZE
           r == n * BLOCK_SIZE
<1>1. /\ BLOCK_SIZE \in Nat \ {0} /\ p \in Nat /\ r \in Nat /\ p + ti = head + size
      /\ head + size <= r /\ (tb + 1) * BLOCK_SIZE = p + BLOCK_SIZE
      /\ (n + 1) * BLOCK_SIZE = r + BLOCK_SIZE
      /\ D!Index = 0 .. BLOCK_SIZE - 1
  BY BlockSums DEF D!Index
<1>2. (tb = 0 => p = 0) /\ (n = 0 => r = 0)
  BY <1>1
<1>3. /\ tb # 0 => (tb - 1) * BLOCK_SIZE = p - BLOCK_SIZE
      /\ n # 0 => (n - 1) * BLOCK_SIZE = r - BLOCK_SIZE
  <2>1. \A i \in Nat \ {0} : (i - 1) * BLOCK_SIZE = i * BLOCK_SIZE - BLOCK_SIZE
    <3> SUFFICES ASSUME NEW i \in Nat \ {0}
                 PROVE  (i - 1) * BLOCK_SIZE = i * BLOCK_SIZE - BLOCK_SIZE
      OBVIOUS
    <3>1. i - 1 \in Nat /\ (i - 1) + 1 = i
      OBVIOUS
    <3>2. i * BLOCK_SIZE = (i - 1) * BLOCK_SIZE + BLOCK_SIZE /\ (i - 1) * BLOCK_SIZE \in Nat
      BY <3>1, BlockSums, Zenon
    <3> QED
      BY <1>1, <3>2
  <2> QED
    BY <2>1
<1> DEFINE u == (tb + 1) * BLOCK_SIZE
           w == (n + 1) * BLOCK_SIZE
           a == (tb - 1) * BLOCK_SIZE
           c == (n - 1) * BLOCK_SIZE
<1> HIDE DEF p, r, u, w, a, c
<1>4. /\ BLOCK_SIZE \in Nat \ {0} /\ p \in Nat /\ r \in Nat /\ p + ti = head + size
      /\ head + size <= r /\ u = p + BLOCK_SIZE /\ w = r + BLOCK_SIZE
      /\ ti \in 0 .. BLOCK_SIZE - 1 /\ head \in 0 .. BLOCK_SIZE - 1 /\ size \in Nat
      /\ (tb = 0 => p = 0) /\ (n = 0 => r = 0)
      /\ (tb # 0 => a = p - BLOCK_SIZE) /\ (n # 0 => c = r - BLOCK_SIZE)
  BY <1>1, <1>2, <1>3 DEF u, w, a, c
<1>5. head = 0 => u + ti = (BLOCK_SIZE - 1) + (size + 1) /\ (BLOCK_SIZE - 1) + (size + 1) <= w
  BY <1>4
<1>6. head # 0 => head - 1 \in 0 .. BLOCK_SIZE - 1 /\ n # 0 /\ (head - 1) + (size + 1) = head + size
  BY <1>4
<1>7. size # 0 => n # 0
  BY <1>4
<1>8. size # 0 /\ head + 1 >= BLOCK_SIZE => tb # 0 /\ a + ti = 0 + (size - 1) /\ 0 + (size - 1) <= c
  BY <1>4, <1>7
<1>9. /\ ~(head + 1 >= BLOCK_SIZE) => head + 1 \in 0 .. BLOCK_SIZE - 1
      /\ (head + 1) + (size - 1) = head + size
      /\ BLOCK_SIZE - 1 \in 0 .. BLOCK_SIZE - 1 /\ 0 \in 0 .. BLOCK_SIZE - 1
  BY <1>4
<1> QED
  BY <1>1, <1>5, <1>6, <1>7, <1>8, <1>9 DEF u, w, a, c, FrontMoves

LEMMA PushFrontStep ==
  ASSUME D!DequeAssumption, DequeInv, NEW d \in Deques, NEW v \in Values, D!PushFront(d, v),
         Cardinality(DOMAIN heap') <= BlockBound
  PROVE  DequeInv'
<1> DEFINE x == deque[d]
           n == Len(x.storage_)
           tb == x.tail_block_
           ti == x.tail_index_
           hd == x.head_index_
           new == IF hd = 0 THEN D!NewBlocks(1, heap) ELSE <<>>
           head == IF hd = 0 THEN BLOCK_SIZE - 1 ELSE hd - 1
           s == new \o x.storage_
           block == D!Wrap(tb + Len(new))
           y == [x EXCEPT !.storage_ = s, !.head_index_ = head, !.size_ = @ + 1, !.tail_block_ = block]
           h == D!Allocate(heap, s, D!Blank(s))
<1>1. /\ x \in DequeRecord /\ EndRight(x) /\ x.storage_ \in Seq(Nat) /\ Distinct(x.storage_)
      /\ D!BlocksOf(x.storage_) \subseteq DOMAIN heap
      /\ tb \in Nat /\ ti \in D!Index /\ hd \in D!Index /\ x.size_ \in Nat
      /\ n \in Nat /\ tb <= n /\ n + 1 < SizeRange
  BY DequeFacts, Zenon
<1>2. D!Write(d, y, 0, head, h, v)
  BY DEF D!PushFront
<1>3. DequeHeap(heap) /\ undefined = FALSE /\ SizeRange \in Nat
  BY DEF D!DequeAssumption, DequeInv
<1>4. tb * BLOCK_SIZE + ti = hd + x.size_ /\ hd + x.size_ <= n * BLOCK_SIZE
  BY <1>1 DEF EndRight
<1> HIDE DEF x, n, tb, ti, hd
<1>5. FrontMoves(tb, ti, hd, x.size_, n)
  BY <1>1, <1>4, FrontArith
<1>6. /\ new \in Seq(Nat) /\ Len(new) = (IF hd = 0 THEN 1 ELSE 0) /\ Distinct(new)
      /\ D!BlocksOf(new) \cap DOMAIN heap = {}
  <2>1. CASE hd = 0
    <3>1. new = D!NewBlocks(1, heap)
      BY <2>1
    <3>2. /\ D!NewBlocks(1, heap) \in Seq(Nat) /\ Len(D!NewBlocks(1, heap)) = 1
          /\ Distinct(D!NewBlocks(1, heap))
          /\ D!BlocksOf(D!NewBlocks(1, heap)) \cap DOMAIN heap = {}
      BY <1>3, NewBlocksFact, Zenon DEF DequeHeap
    <3> HIDE DEF new
    <3> QED
      BY <2>1, <3>1, <3>2
  <2>2. CASE hd # 0
    BY <2>2 DEF Distinct, D!BlocksOf
  <2> QED
    BY <2>1, <2>2
<1> HIDE DEF new
<1>7. /\ s \in Seq(Nat) /\ Len(s) = Len(new) + n
      /\ Distinct(s) /\ D!BlocksOf(s) = D!BlocksOf(new) \union D!BlocksOf(x.storage_)
  <2>1. D!BlocksOf(new) \cap D!BlocksOf(x.storage_) = {}
    BY <1>1, <1>6
  <2> QED
    BY <1>1, <1>6, <2>1, ConcatFact, Zenon DEF n
<1> HIDE DEF s
<1>8. block = tb + Len(new) /\ block \in Nat
  <2>1. tb + Len(new) \in Nat /\ tb + Len(new) < SizeRange
    BY <1>1, <1>3, <1>6
  <2> QED
    BY <2>1, WrapFact
<1> HIDE DEF block
<1>9. /\ head \in D!Index /\ Len(s) > 0
      /\ block * BLOCK_SIZE + ti = head + (x.size_ + 1)
      /\ head + (x.size_ + 1) <= Len(s) * BLOCK_SIZE
  <2>1. CASE hd = 0
    <3>1. block = tb + 1 /\ Len(s) = n + 1 /\ head = BLOCK_SIZE - 1 /\ n + 1 > 0
      BY <1>1, <1>6, <1>7, <1>8, <2>1
    <3> HIDE DEF head
    <3> QED
      BY <1>5, <2>1, <3>1 DEF FrontMoves
  <2>2. CASE hd # 0
    <3>1. block = tb /\ Len(s) = n /\ head = hd - 1
      BY <1>1, <1>6, <1>7, <1>8, <2>2
    <3>2. n > 0
      BY <1>1, <1>5, <2>2 DEF FrontMoves
    <3> HIDE DEF head
    <3> QED
      BY <1>4, <1>5, <2>2, <3>1, <3>2 DEF FrontMoves
  <2> QED
    BY <2>1, <2>2
<1> HIDE DEF head
<1>10. y \in DequeRecord /\ y.storage_ = s /\ EndRight(y)
  <2>1. x.size_ + 1 \in Nat
    BY <1>1
  <2>2. /\ y \in DequeRecord /\ y.storage_ = s /\ y.size_ = x.size_ + 1
        /\ y.head_index_ = head /\ y.tail_block_ = block /\ y.tail_index_ = ti
    BY <1>1, <1>7, <1>8, <1>9, <2>1, Zenon DEF DequeRecord, ti
  <2> HIDE DEF y
  <2> QED
    BY <1>9, <2>2 DEF EndRight
<1>11. DequeHeap(h) /\ DOMAIN h = DOMAIN heap \union D!BlocksOf(s)
  <2>1. \A k \in DOMAIN s : D!Blank(s)[k] \in [D!Index -> D!Cells]
    BY DEF D!Blank, D!Cells
  <2> QED
    BY <1>3, <1>7, <2>1, AllocateFact, Zenon
<1> HIDE DEF y, h
<1>12. /\ deque' = [deque EXCEPT ![d] = y] /\ undefined' = FALSE
       /\ DequeHeap(heap') /\ DOMAIN heap' = DOMAIN h
  <2>1. y.storage_[0 + 1] \in DOMAIN h
    <3>1. 0 + 1 \in DOMAIN s
      BY <1>7, <1>9
    <3> QED
      BY <1>10, <1>11, <3>1 DEF D!BlocksOf
  <2>2. 0 \in Nat /\ 0 < Len(y.storage_) /\ v \in D!Cells
    BY <1>7, <1>9, <1>10 DEF D!Cells
  <2> QED
    BY <1>2, <1>3, <1>9, <1>11, <2>1, <2>2, WriteFact, ZenonT(60)
<1>13. /\ D!BlocksOf(s) \cap (DOMAIN heap \ D!BlocksOf(x.storage_)) = {}
       /\ DOMAIN heap' = (DOMAIN heap \ D!BlocksOf(x.storage_)) \union D!BlocksOf(s)
  BY <1>1, <1>6, <1>7, <1>11, <1>12
<1> QED
  BY <1>7, <1>10, <1>12, <1>13, DequeBecomes, Zenon DEF x

LEMMA PopFrontStep ==
  ASSUME D!DequeAssumption, DequeInv, NEW d \in Deques, NEW v, D!PopFront(d, v),
         Cardinality(DOMAIN heap') <= BlockBound
  PROVE  DequeInv'
<1> DEFINE x == deque[d]
           n == Len(x.storage_)
           tb == x.tail_block_
           ti == x.tail_index_
           hd == x.head_index_
           used == IF hd + 1 >= BLOCK_SIZE THEN <<x.storage_[1]>> ELSE <<>>
           s == SubSeq(x.storage_, 1 + Len(used), n)
           head == IF used = <<>> THEN hd + 1 ELSE 0
           block == D!Wrap(tb - Len(used))
           y == [x EXCEPT !.storage_ = s, !.size_ = @ - 1, !.head_index_ = head, !.tail_block_ = block]
<1>1. /\ x \in DequeRecord /\ EndRight(x) /\ x.storage_ \in Seq(Nat) /\ Distinct(x.storage_)
      /\ D!BlocksOf(x.storage_) \subseteq DOMAIN heap
      /\ tb \in Nat /\ ti \in D!Index /\ hd \in D!Index /\ x.size_ \in Nat
      /\ n \in Nat /\ tb <= n /\ n + 1 < SizeRange
  BY DequeFacts
<1>2. /\ x.size_ # 0 /\ heap' = D!Delete(heap, used) /\ deque' = [deque EXCEPT ![d] = y]
      /\ undefined' = undefined
  BY DEF D!PopFront, D!Empty
<1>3. DequeHeap(heap) /\ undefined = FALSE /\ SizeRange \in Nat
  BY DEF D!DequeAssumption, DequeInv
<1>4. tb * BLOCK_SIZE + ti = hd + x.size_ /\ hd + x.size_ <= n * BLOCK_SIZE
  BY <1>1 DEF EndRight
<1> HIDE DEF x, n, tb, ti, hd
<1>5. FrontMoves(tb, ti, hd, x.size_, n)
  BY <1>1, <1>4, FrontArith
<1>6. x.size_ - 1 \in Nat /\ n # 0
  <2>1. n # 0
    BY <1>2, <1>5, Zenon DEF FrontMoves
  <2> QED
    BY <1>1, <1>2, <2>1
<1>7. /\ s \in Seq(Nat) /\ Distinct(s) /\ D!BlocksOf(s) = D!BlocksOf(x.storage_) \ D!BlocksOf(used)
      /\ block \in Nat /\ head \in D!Index
      /\ block * BLOCK_SIZE + ti = head + (x.size_ - 1) /\ head + (x.size_ - 1) <= Len(s) * BLOCK_SIZE
  <2>1. CASE hd + 1 >= BLOCK_SIZE
    <3>1. used = <<x.storage_[1]>> /\ used # <<>> /\ head = 0
      BY <2>1
    <3>2. Len(used) = 1 /\ D!BlocksOf(used) = {x.storage_[1]}
      BY <3>1 DEF D!BlocksOf
    <3> HIDE DEF used, head
    <3>3. s = SubSeq(x.storage_, 2, n) /\ block = D!Wrap(tb - 1)
      <4>1. 1 + Len(used) = 2
        BY <3>2
      <4> QED
        BY <3>2, <4>1
    <3> HIDE DEF s, block
    <3>4. /\ s \in Seq(Nat) /\ Distinct(s) /\ Len(s) = n - 1
          /\ D!BlocksOf(s) = D!BlocksOf(x.storage_) \ D!BlocksOf(used)
      <4>1. n \in Nat \ {0} /\ n = Len(x.storage_)
        BY <1>1, <1>6 DEF n
      <4> QED
        BY <1>1, <3>2, <3>3, <4>1, FirstDropped, Zenon
    <3>5. block = tb - 1 /\ block \in Nat
      <4>1. tb # 0
        BY <1>2, <1>5, <2>1 DEF FrontMoves
      <4>2. tb - 1 \in Nat /\ tb - 1 < SizeRange
        BY <1>1, <1>3, <4>1
      <4> QED
        BY <3>3, <4>2, WrapFact
    <3> QED
      BY <1>2, <1>5, <2>1, <3>1, <3>4, <3>5 DEF FrontMoves
  <2>2. CASE ~(hd + 1 >= BLOCK_SIZE)
    <3>1. used = <<>> /\ head = hd + 1
      BY <2>2
    <3>2. Len(used) = 0 /\ D!BlocksOf(used) = {}
      BY <3>1 DEF D!BlocksOf
    <3> HIDE DEF used, head
    <3>3. s = SubSeq(x.storage_, 1, Len(x.storage_)) /\ block = D!Wrap(tb)
      <4>1. 1 + Len(used) = 1 /\ tb - Len(used) = tb
        BY <1>1, <3>2
      <4> QED
        BY <4>1 DEF n
    <3> HIDE DEF s, block
    <3>4. s = x.storage_ /\ Len(s) = n
      BY <1>1, <3>3, SubSeqFull DEF n
    <3>5. block = tb
      <4>1. tb < SizeRange
        BY <1>1, <1>3
      <4> QED
        BY <1>1, <3>3, <4>1, WrapFact
    <3> QED
      BY <1>1, <1>4, <1>5, <2>2, <3>1, <3>2, <3>4, <3>5 DEF FrontMoves
  <2> QED
    BY <2>1, <2>2
<1>8. D!BlocksOf(used) \subseteq D!BlocksOf(x.storage_)
  <2>1. CASE used = <<>>
    BY <2>1 DEF D!BlocksOf
  <2>2. CASE used = <<x.storage_[1]>>
    <3>1. 1 \in DOMAIN x.storage_
      BY <1>1, <1>6 DEF n
    <3> HIDE DEF used
    <3> QED
      BY <2>2, <3>1 DEF D!BlocksOf
  <2> QED
    BY <2>1, <2>2
<1> HIDE DEF s, used, head, block
<1>9. y \in DequeRecord /\ y.storage_ = s /\ EndRight(y)
  <2>1. /\ y \in DequeRecord /\ y.storage_ = s /\ y.size_ = x.size_ - 1
        /\ y.head_index_ = head /\ y.tail_block_ = block /\ y.tail_index_ = ti
    BY <1>1, <1>6, <1>7, Zenon DEF DequeRecord, ti
  <2> HIDE DEF y
  <2> QED
    BY <1>7, <2>1 DEF EndRight
<1> HIDE DEF y
<1>10. DequeHeap(heap') /\ DOMAIN heap' = DOMAIN heap \ D!BlocksOf(used)
  BY <1>2, <1>3, DeleteFact, Zenon
<1>11. /\ D!BlocksOf(s) \cap (DOMAIN heap \ D!BlocksOf(x.storage_)) = {}
       /\ DOMAIN heap' = (DOMAIN heap \ D!BlocksOf(x.storage_)) \union D!BlocksOf(s)
  BY <1>1, <1>7, <1>8, <1>10
<1> QED
  BY <1>2, <1>3, <1>7, <1>9, <1>10, <1>11, DequeBecomes, Zenon DEF x

LEMMA SetAtStep ==
  ASSUME D!DequeAssumption, DequeInv, NEW d \in Deques, NEW index \in Nat, NEW v \in Values,
         D!SetAt(d, index, v), Cardinality(DOMAIN heap') <= BlockBound
  PROVE  DequeInv'
<1> DEFINE x == deque[d]
           n == Len(x.storage_)
           offset == x.head_index_ + index
           k == offset \div BLOCK_SIZE
           i == offset % BLOCK_SIZE
<1>1. /\ x \in DequeRecord /\ EndRight(x) /\ x.storage_ \in Seq(Nat) /\ Distinct(x.storage_)
      /\ D!BlocksOf(x.storage_) \subseteq DOMAIN heap
      /\ x.head_index_ \in D!Index /\ x.size_ \in Nat /\ n \in Nat
  BY DequeFacts
<1>2. index < x.size_ /\ D!Write(d, x, k, i, heap, v)
  BY DEF D!SetAt
<1>3. DequeHeap(heap) /\ undefined = FALSE /\ BLOCK_SIZE \in Nat \ {0} /\ v \in D!Cells
  BY DEF D!DequeAssumption, DequeInv, D!Cells
<1>4. x.head_index_ + x.size_ <= n * BLOCK_SIZE /\ n * BLOCK_SIZE \in Nat
  BY <1>1, BlockSums, Zenon DEF EndRight
<1>5. offset \in Nat /\ offset < n * BLOCK_SIZE
  <2> DEFINE hd == x.head_index_
             size == x.size_
             r == n * BLOCK_SIZE
  <2>1. hd \in Nat /\ size \in Nat /\ index < size /\ hd + size <= r /\ r \in Nat
    BY <1>1, <1>2, <1>3, <1>4 DEF D!Index
  <2>2. offset = hd + index
    OBVIOUS
  <2> HIDE DEF hd, size, r, offset
  <2>3. offset \in Nat /\ offset < r
    BY <2>1, <2>2
  <2> QED
    BY <2>3 DEF r
<1>6. k \in Nat /\ i \in D!Index /\ k * BLOCK_SIZE + i = offset
  <2> HIDE DEF offset
  <2>1. k \in Nat /\ i \in 0 .. BLOCK_SIZE - 1 /\ offset = k * BLOCK_SIZE + i
    BY <1>3, <1>5
  <2> QED
    BY <2>1 DEF D!Index
<1> HIDE DEF x, n, k, i, offset
<1>7. k < n
  BY <1>1, <1>5, <1>6, BlockSums
<1>8. /\ deque' = [deque EXCEPT ![d] = x] /\ undefined' = FALSE
      /\ DequeHeap(heap') /\ DOMAIN heap' = DOMAIN heap
  <2>1. x.storage_[k + 1] \in DOMAIN heap
    <3>1. k + 1 \in DOMAIN x.storage_
      BY <1>1, <1>6, <1>7 DEF n
    <3> QED
      BY <1>1, <3>1 DEF D!BlocksOf
  <2>2. k < Len(x.storage_)
    BY <1>7 DEF n
  <2> QED
    BY <1>2, <1>3, <1>6, <2>1, <2>2, WriteFact, ZenonT(60)
<1>9. /\ D!BlocksOf(x.storage_) \cap (DOMAIN heap \ D!BlocksOf(x.storage_)) = {}
      /\ DOMAIN heap' = (DOMAIN heap \ D!BlocksOf(x.storage_)) \union D!BlocksOf(x.storage_)
  BY <1>1, <1>8, Zenon
<1> QED
  BY <1>1, <1>8, <1>9, DequeBecomes, Zenon DEF x

LEMMA EmptyFact ==
  ASSUME D!DequeAssumption
  PROVE  /\ D!EmptyDeque \in DequeRecord /\ EndRight(D!EmptyDeque) /\ Distinct(D!EmptyDeque.storage_)
         /\ D!BlocksOf(D!EmptyDeque.storage_) = {}
<1>1. BLOCK_SIZE \in Nat \ {0}
  BY DEF D!DequeAssumption
<1>2. 0 * BLOCK_SIZE + 0 = 0 + 0 /\ 0 + 0 <= 0 * BLOCK_SIZE /\ Len(<<>>) = 0 /\ 0 \in D!Index
  BY <1>1 DEF D!Index
<1> QED
  BY <1>2 DEF D!EmptyDeque, DequeRecord, EndRight, Distinct, D!BlocksOf

LEMMA ClearStep ==
  ASSUME D!DequeAssumption, DequeInv, NEW d \in Deques, D!Clear(d),
         Cardinality(DOMAIN heap') <= BlockBound
  PROVE  DequeInv'
<1> DEFINE x == deque[d]
           y == [D!EmptyDeque EXCEPT !.storage_ = x.storage_]
<1>1. /\ x \in DequeRecord /\ x.storage_ \in Seq(Nat) /\ Distinct(x.storage_)
      /\ D!BlocksOf(x.storage_) \subseteq DOMAIN heap /\ Len(x.storage_) \in Nat
  BY DequeFacts
<1>2. deque' = [deque EXCEPT ![d] = y] /\ heap' = heap /\ undefined' = undefined
  BY DEF D!Clear
<1>3. DequeHeap(heap) /\ undefined = FALSE /\ BLOCK_SIZE \in Nat \ {0}
  BY DEF D!DequeAssumption, DequeInv
<1> HIDE DEF x
<1>4. y \in DequeRecord /\ y.storage_ = x.storage_ /\ EndRight(y)
  <2>1. /\ y = [storage_ |-> x.storage_, head_index_ |-> 0, tail_block_ |-> 0, tail_index_ |-> 0,
                size_ |-> 0]
    BY DEF D!EmptyDeque
  <2> HIDE DEF y
  <2>2. 0 * BLOCK_SIZE + 0 = 0 + 0 /\ 0 + 0 <= Len(x.storage_) * BLOCK_SIZE /\ 0 \in D!Index
    <3>1. Len(x.storage_) * BLOCK_SIZE \in Nat
      BY <1>1, BlockSums, Zenon
    <3> QED
      BY <1>3, <3>1 DEF D!Index
  <2> QED
    BY <1>1, <2>1, <2>2 DEF DequeRecord, EndRight
<1> HIDE DEF y
<1>5. /\ D!BlocksOf(x.storage_) \cap (DOMAIN heap \ D!BlocksOf(x.storage_)) = {}
      /\ DOMAIN heap' = (DOMAIN heap \ D!BlocksOf(x.storage_)) \union D!BlocksOf(x.storage_)
  BY <1>1, <1>2, Zenon
<1> QED
  BY <1>1, <1>2, <1>3, <1>4, <1>5, DequeBecomes, Zenon DEF x

(* Two deques exchange their blocks.                                        *)
LEMMA OwnedSwapped ==
  ASSUME NEW q \in [Deques -> DequeRecord], NEW h, Owned(q, h), NEW d \in Deques, NEW o \in Deques
  PROVE  Owned([q EXCEPT ![d] = q[o], ![o] = q[d]], h)
<1> DEFINE r == [q EXCEPT ![d] = q[o], ![o] = q[d]]
           to(e) == IF e = d THEN o ELSE IF e = o THEN d ELSE e
<1>1. \A e \in Deques : r[e] = q[to(e)] /\ to(e) \in Deques /\ to(to(e)) = e
  OBVIOUS
<1> HIDE DEF r, to
<1>2. \A e \in Deques : Distinct(r[e].storage_) /\ D!BlocksOf(r[e].storage_) \subseteq DOMAIN h
  BY <1>1 DEF Owned
<1>3. \A e, f \in Deques :
        e # f => D!BlocksOf(r[e].storage_) \cap D!BlocksOf(r[f].storage_) = {}
  <2>1. \A e, f \in Deques : e # f => to(e) # to(f)
    BY <1>1
  <2> QED
    BY <1>1, <2>1 DEF Owned
<1>4. ASSUME NEW b \in DOMAIN h PROVE \E e \in Deques : b \in D!BlocksOf(r[e].storage_)
  <2>1. PICK e \in Deques : b \in D!BlocksOf(q[e].storage_)
    BY DEF Owned
  <2>2. r[to(e)] = q[e]
    BY <1>1
  <2> QED
    BY <1>1, <2>1, <2>2
<1>5. Owned(r, h)
  BY <1>2, <1>3, <1>4 DEF Owned
<1> QED
  BY <1>5 DEF r

LEMMA SwapStep ==
  ASSUME DequeInv, NEW d \in Deques, NEW o \in Deques, D!Swap(d, o),
         Cardinality(DOMAIN heap') <= BlockBound
  PROVE  DequeInv'
<1>1. /\ deque' = [deque EXCEPT ![d] = deque[o], ![o] = deque[d]]
      /\ heap' = heap /\ undefined' = undefined
  BY DEF D!Swap
<1>2. Owned(deque', heap')
  BY <1>1, OwnedSwapped, Zenon DEF DequeInv
<1>3. deque' \in [Deques -> DequeRecord] /\ \A e \in Deques : EndRight(deque'[e])
  BY <1>1 DEF DequeInv
<1> QED
  BY <1>1, <1>2, <1>3 DEF DequeInv

(* What ~Deque leaves.                                                      *)
LEMMA RestFact ==
  ASSUME DequeInv, NEW d \in Deques
  PROVE  /\ DequeHeap(D!Rest(d)) /\ DOMAIN D!Rest(d) = DOMAIN heap \ D!BlocksOf(deque[d].storage_)
BY DeleteFact, Zenon DEF DequeInv, D!Rest

LEMMA ConstructStep ==
  ASSUME D!DequeAssumption, DequeInv, NEW d \in Deques, D!Construct(d),
         Cardinality(DOMAIN heap') <= BlockBound
  PROVE  DequeInv'
<1>1. deque' = [deque EXCEPT ![d] = D!EmptyDeque] /\ heap' = D!Rest(d) /\ undefined' = FALSE
  BY DEF D!Construct, D!Become, DequeInv
<1>2. /\ DequeHeap(heap')
      /\ DOMAIN heap' = (DOMAIN heap \ D!BlocksOf(deque[d].storage_)) \union D!BlocksOf(D!EmptyDeque.storage_)
      /\ D!BlocksOf(D!EmptyDeque.storage_) \cap (DOMAIN heap \ D!BlocksOf(deque[d].storage_)) = {}
  BY <1>1, RestFact, EmptyFact
<1> QED
  BY <1>1, <1>2, EmptyFact, DequeBecomes, Zenon

LEMMA MoveConstructStep ==
  ASSUME D!DequeAssumption, DequeInv, NEW d \in Deques, NEW o \in Deques, D!MoveConstruct(d, o),
         Cardinality(DOMAIN heap') <= BlockBound
  PROVE  DequeInv'
<1> DEFINE q == [deque EXCEPT ![d] = D!EmptyDeque]
<1>1. /\ d # o /\ heap' = D!Rest(d) /\ undefined' = FALSE
      /\ deque' = [deque EXCEPT ![d] = deque[o], ![o] = D!EmptyDeque]
  BY DEF D!MoveConstruct, DequeInv
<1>2. /\ DequeHeap(heap')
      /\ DOMAIN heap' = (DOMAIN heap \ D!BlocksOf(deque[d].storage_)) \union D!BlocksOf(D!EmptyDeque.storage_)
      /\ D!BlocksOf(D!EmptyDeque.storage_) \cap (DOMAIN heap \ D!BlocksOf(deque[d].storage_)) = {}
  BY <1>1, RestFact, EmptyFact
<1>3. deque \in [Deques -> DequeRecord] /\ Owned(deque, heap) /\ \A e \in Deques : EndRight(deque[e])
  BY DEF DequeInv
<1>4. q \in [Deques -> DequeRecord] /\ Owned(q, heap')
  BY <1>2, <1>3, EmptyFact, OwnedReplaced, Zenon
<1>5. deque' = [q EXCEPT ![d] = q[o], ![o] = q[d]]
  BY <1>1, <1>3, Zenon
<1>6. Owned(deque', heap')
  <2> HIDE DEF q
  <2> QED
    BY <1>4, <1>5, OwnedSwapped, Zenon
<1>7. deque' \in [Deques -> DequeRecord] /\ \A e \in Deques : EndRight(deque'[e])
  BY <1>1, <1>3, EmptyFact
<1> QED
  BY <1>1, <1>2, <1>6, <1>7 DEF DequeInv

(* A deque takes n new blocks, all of its own.                              *)
LEMMA NewDeque ==
  ASSUME D!DequeAssumption, DequeInv, NEW d \in Deques, NEW x \in DequeRecord, NEW n \in Nat,
         x.storage_ = D!NewBlocks(n, D!Rest(d)), EndRight(x), NEW cells,
         \A k \in 1 .. n : cells[k] \in [D!Index -> D!Cells],
         D!Become(d, x, D!Allocate(D!Rest(d), D!NewBlocks(n, D!Rest(d)), cells)),
         Cardinality(DOMAIN heap') <= BlockBound
  PROVE  DequeInv'
<1> DEFINE s == D!NewBlocks(n, D!Rest(d))
           h == D!Rest(d)
<1>1. DequeHeap(h) /\ DOMAIN h = DOMAIN heap \ D!BlocksOf(deque[d].storage_)
  BY RestFact
<1>2. /\ s \in Seq(Nat) /\ Len(s) = n /\ Distinct(s) /\ D!BlocksOf(s) \cap DOMAIN h = {}
  BY <1>1, NewBlocksFact DEF DequeHeap
<1>3. /\ deque' = [deque EXCEPT ![d] = x] /\ undefined' = FALSE
      /\ heap' = D!Allocate(h, s, cells)
  BY DEF D!Become, DequeInv
<1>4. x.storage_ = s
  OBVIOUS
<1> HIDE DEF s, h
<1>5. DequeHeap(heap') /\ DOMAIN heap' = DOMAIN h \union D!BlocksOf(s)
  <2>1. DOMAIN s = 1 .. n
    BY <1>2
  <2> QED
    BY <1>1, <1>2, <1>3, <2>1, AllocateFact, Zenon
<1>6. /\ D!BlocksOf(x.storage_) \cap (DOMAIN heap \ D!BlocksOf(deque[d].storage_)) = {}
      /\ DOMAIN heap' = (DOMAIN heap \ D!BlocksOf(deque[d].storage_)) \union D!BlocksOf(x.storage_)
      /\ Distinct(x.storage_)
  BY <1>1, <1>2, <1>4, <1>5
<1> QED
  BY <1>3, <1>5, <1>6, DequeBecomes, Zenon

LEMMA CopyAssignStep ==
  ASSUME D!DequeAssumption, DequeInv, NEW d \in Deques, NEW o \in Deques, D!CopyAssign(d, o),
         Cardinality(DOMAIN heap') <= BlockBound
  PROVE  DequeInv'
<1> DEFINE y == deque[o]
           n == Len(y.storage_)
           s == D!NewBlocks(n, D!Rest(d))
           cells == [k \in DOMAIN y.storage_ |-> heap[y.storage_[k]]]
           x == [y EXCEPT !.storage_ = s]
<1>1. D!Become(d, x, D!Allocate(D!Rest(d), s, cells))
  BY DEF D!CopyAssign, D!CopyOf
<1>2. /\ y \in DequeRecord /\ EndRight(y) /\ y.storage_ \in Seq(Nat)
      /\ D!BlocksOf(y.storage_) \subseteq DOMAIN heap /\ n \in Nat
  BY DequeFacts
<1>3. DequeHeap(heap) /\ DequeHeap(D!Rest(d))
  BY RestFact, Zenon DEF DequeInv
<1>4. s \in Seq(Nat) /\ Len(s) = n
  BY <1>2, <1>3, NewBlocksFact, Zenon DEF DequeHeap
<1>5. \A k \in 1 .. n : cells[k] \in [D!Index -> D!Cells]
  <2>1. \A k \in 1 .. n : k \in DOMAIN y.storage_ /\ y.storage_[k] \in DOMAIN heap
    BY <1>2 DEF D!BlocksOf
  <2> QED
    BY <1>3, <2>1 DEF DequeHeap
<1> HIDE DEF y, s
<1>6. x \in DequeRecord /\ x.storage_ = s /\ EndRight(x)
  <2>1. /\ x \in DequeRecord /\ x.storage_ = s /\ x.size_ = y.size_ /\ x.head_index_ = y.head_index_
        /\ x.tail_block_ = y.tail_block_ /\ x.tail_index_ = y.tail_index_
    BY <1>2, <1>4, Zenon DEF DequeRecord
  <2> HIDE DEF x
  <2> QED
    BY <1>2, <1>4, <2>1 DEF EndRight
<1> HIDE DEF x, cells, n
<1> QED
  BY <1>1, <1>2, <1>5, <1>6, NewDeque DEF s

(* The lists that DequeLayout holds for: the constructor from a list whose  *)
(* last block is full, or that is empty, leaves the end outside Index.      *)
ListsInexact == \A list \in InitLists : Len(list) % BLOCK_SIZE # 0

LEMMA ListArith ==
  ASSUME NEW B \in Nat \ {0}, NEW n \in Nat, n % B # 0
  PROVE  /\ (n + B - 1) \div B \in Nat \ {0} /\ n % B \in 0 .. B - 1
         /\ ((n + B - 1) \div B - 1) * B + (n % B) = n /\ n <= ((n + B - 1) \div B) * B
<1> DEFINE q == n \div B
           r == n % B
           needed == (n + B - 1) \div B
<1>1. q \in Nat /\ r \in 0 .. B - 1 /\ n = q * B + r
  OBVIOUS
<1>2. r # 0
  OBVIOUS
<1> HIDE DEF q, r
<1>3. q + 1 \in Nat /\ r - 1 \in 0 .. B - 1
  BY <1>1, <1>2
<1>4. q * B \in Nat /\ (q + 1) * B = q * B + B
  BY <1>1, BlockArith
<1>5. n + B - 1 = (q + 1) * B + (r - 1)
  <2> DEFINE p == q * B
             u == (q + 1) * B
  <2>1. p \in Nat /\ u = p + B /\ n = p + r /\ r \in Int
    BY <1>1, <1>4
  <2> HIDE DEF p, u
  <2>2. n + B - 1 = u + (r - 1)
    BY <2>1
  <2> QED
    BY <2>2 DEF u
<1>6. ((q + 1) * B + (r - 1)) \div B = q + 1
  <2> DEFINE a == q + 1
             i == r - 1
  <2>1. a \in Nat /\ i \in 0 .. B - 1
    BY <1>3
  <2> HIDE DEF a, i
  <2>2. (a * B + i) \div B = a
    BY <2>1, BlockArith
  <2> QED
    BY <2>2 DEF a, i
<1>7. needed = q + 1
  BY <1>5, <1>6
<1> HIDE DEF needed
<1>8. (needed - 1) * B + r = n
  <2>1. needed - 1 = q
    BY <1>1, <1>7
  <2> QED
    BY <1>1, <2>1
<1>9. n <= needed * B
  <2> DEFINE p == q * B
             u == (q + 1) * B
  <2>1. p \in Nat /\ u = p + B /\ n = p + r /\ r \in 0 .. B - 1
    BY <1>1, <1>4
  <2> HIDE DEF p, u
  <2>2. n <= u
    BY <2>1
  <2> QED
    BY <1>7, <2>2 DEF u
<1> QED
  <2>1. needed \in Nat \ {0} /\ r \in 0 .. B - 1
    BY <1>1, <1>3, <1>7
  <2> QED
    BY <1>8, <1>9, <2>1 DEF r, needed

LEMMA ConstructFromStep ==
  ASSUME D!DequeAssumption, ListsInexact, DequeInv, NEW d \in Deques, NEW list \in InitLists,
         D!ConstructFrom(d, list), Cardinality(DOMAIN heap') <= BlockBound
  PROVE  DequeInv'
<1> DEFINE n == Len(list)
           needed == (n + BLOCK_SIZE - 1) \div BLOCK_SIZE
           exact == n % BLOCK_SIZE = 0 /\ n # 0
           s == D!NewBlocks(needed, D!Rest(d))
           value(j) == IF j < n THEN list[j + 1] ELSE Unwritten
           cells == [k \in 1 .. needed |-> [i \in D!Index |-> value((k - 1) * BLOCK_SIZE + i)]]
           block == IF exact THEN needed ELSE D!Wrap(needed - 1)
           index == IF exact THEN BLOCK_SIZE ELSE n % BLOCK_SIZE
           x == [storage_ |-> s, head_index_ |-> 0, size_ |-> n, tail_block_ |-> block,
                 tail_index_ |-> index]
           h == D!Allocate(D!Rest(d), s, cells)
           m == n % BLOCK_SIZE
<1>1. D!Become(d, x, h) /\ heap' = h
  BY DEF D!ConstructFrom, D!Become
<1>2. /\ BLOCK_SIZE \in Nat \ {0} /\ list \in Seq(Values) /\ n \in Nat
      /\ BlockBound \in Nat /\ SizeRange \in Nat /\ BlockBound + 1 < SizeRange
  BY DEF D!DequeAssumption
<1>3. m # 0
  BY DEF ListsInexact
<1>4. /\ needed \in Nat \ {0} /\ m \in 0 .. BLOCK_SIZE - 1
      /\ (needed - 1) * BLOCK_SIZE + m = n /\ n <= needed * BLOCK_SIZE
  <2> HIDE DEF n
  <2> QED
    BY <1>2, <1>3, ListArith, Zenon
<1>5. index = m /\ block = D!Wrap(needed - 1)
  BY <1>3
<1>6. \A k \in 1 .. needed : cells[k] \in [D!Index -> D!Cells]
  <2>1. ASSUME NEW k \in 1 .. needed, NEW i \in D!Index
        PROVE  value((k - 1) * BLOCK_SIZE + i) \in D!Cells
    <3> DEFINE j == (k - 1) * BLOCK_SIZE + i
    <3>1. j \in Nat
      <4>1. k - 1 \in Nat /\ i \in Nat
        BY <1>2, <1>4 DEF D!Index
      <4>2. (k - 1) * BLOCK_SIZE \in Nat
        BY <4>1, BlockSums, Zenon
      <4> QED
        BY <4>1, <4>2
    <3> HIDE DEF j
    <3>2. value(j) \in D!Cells
      <4>1. CASE j < n
        <5>1. j + 1 \in 1 .. n
          BY <1>2, <3>1, <4>1
        <5> QED
          BY <1>2, <4>1, <5>1 DEF D!Cells
      <4>2. CASE ~(j < n)
        BY <4>2 DEF D!Cells
      <4> QED
        BY <4>1, <4>2
    <3> QED
      BY <3>2 DEF j
  <2> HIDE DEF value
  <2> QED
    BY <2>1
<1> HIDE DEF cells, index, block, m, needed, n
<1>7. /\ s \in Seq(Nat) /\ Len(s) = needed /\ Distinct(s)
  <2>1. DequeHeap(D!Rest(d))
    BY RestFact, Zenon
  <2> QED
    BY <1>4, <2>1, NewBlocksFact DEF DequeHeap
<1>8. block = needed - 1
  <2> HIDE DEF s
  <2>1. DOMAIN s = 1 .. needed /\ heap' = h /\ DequeHeap(D!Rest(d))
    <3>1. DOMAIN s = 1 .. needed
      BY <1>7
    <3> QED
      BY <1>1, <3>1, RestFact, Zenon
  <2>2. DequeHeap(h) /\ D!BlocksOf(s) \subseteq DOMAIN h
    <3>1. /\ DequeHeap(h) /\ DOMAIN h = DOMAIN D!Rest(d) \union D!BlocksOf(s)
      BY <1>6, <1>7, <2>1, AllocateFact, Zenon
    <3> HIDE DEF h
    <3> QED
      BY <3>1
  <2>3. IsFiniteSet(DOMAIN heap') /\ D!BlocksOf(s) \subseteq DOMAIN heap'
    <3> HIDE DEF h
    <3> QED
      BY <2>1, <2>2 DEF DequeHeap
  <2>4. needed <= Cardinality(DOMAIN heap') /\ Cardinality(DOMAIN heap') \in Nat
    BY <1>7, <2>3, DistinctLen, FS_CardinalityType
  <2>5. needed - 1 \in Nat /\ needed - 1 < SizeRange
    BY <1>2, <1>4, <2>4
  <2> QED
    BY <1>5, <2>5, WrapFact
<1> HIDE DEF s
<1>9. x \in DequeRecord /\ x.storage_ = s /\ EndRight(x)
  <2>1. needed - 1 \in Nat /\ 0 \in D!Index /\ index \in D!Index
    BY <1>2, <1>4, <1>5 DEF D!Index
  <2>2. /\ x \in DequeRecord /\ x.storage_ = s /\ x.size_ = n /\ x.head_index_ = 0
        /\ x.tail_block_ = needed - 1 /\ x.tail_index_ = index
    BY <1>2, <1>7, <1>8, <2>1 DEF DequeRecord
  <2> HIDE DEF x
  <2>3. 0 + n = n
    BY <1>2
  <2>4. (needed - 1) * BLOCK_SIZE + index = 0 + n /\ 0 + n <= Len(s) * BLOCK_SIZE
    BY <1>4, <1>5, <1>7, <2>3
  <2> QED
    BY <2>2, <2>4 DEF EndRight
<1> HIDE DEF x
<1> QED
  BY <1>1, <1>4, <1>6, <1>9, NewDeque DEF s

LEMMA DequeInvNext ==
  ASSUME D!DequeAssumption, ListsInexact PROVE DequeInv /\ [D!Next]_deques => DequeInv'
<1> SUFFICES ASSUME DequeInv, [D!Next]_deques PROVE DequeInv'
  OBVIOUS
<1>1. CASE UNCHANGED deques
  BY <1>1, Zenon DEF deques, DequeInv, Owned, DequeHeap
<1>2. CASE D!Next
  <2>1. Cardinality(DOMAIN heap') <= BlockBound
    BY <1>2, DequeSets DEF D!Next
  <2>2. PICK d \in Deques :
          \/ \E v \in Values : D!PushBack(d, v) \/ D!PushFront(d, v)
          \/ \E v \in D!Cells : D!PopBack(d, v) \/ D!PopFront(d, v)
          \/ \E i \in 0 .. SizeBound - 1, v \in Values : D!SetAt(d, i, v)
          \/ D!Clear(d)
          \/ D!Construct(d)
          \/ \E list \in InitLists : D!ConstructFrom(d, list)
          \/ \E o \in Deques :
               D!Swap(d, o) \/ D!CopyConstruct(d, o) \/ D!MoveConstruct(d, o) \/ D!CopyAssign(d, o)
    BY <1>2 DEF D!Next, D!Step
  <2>3. ASSUME NEW v \in Values, D!PushBack(d, v) \/ D!PushFront(d, v) PROVE DequeInv'
    BY <2>1, <2>3, PushBackStep, PushFrontStep
  <2>4. ASSUME NEW v \in D!Cells, D!PopBack(d, v) \/ D!PopFront(d, v) PROVE DequeInv'
    BY <2>1, <2>4, PopBackStep, PopFrontStep
  <2>5. ASSUME NEW i \in 0 .. SizeBound - 1, NEW v \in Values, D!SetAt(d, i, v) PROVE DequeInv'
    <3>1. i \in Nat
      BY DEF D!DequeAssumption
    <3> QED
      BY <2>1, <2>5, <3>1, SetAtStep
  <2>6. CASE D!Clear(d)
    BY <2>1, <2>6, ClearStep
  <2>7. CASE D!Construct(d)
    BY <2>1, <2>7, ConstructStep
  <2>8. ASSUME NEW list \in InitLists, D!ConstructFrom(d, list) PROVE DequeInv'
    BY <2>1, <2>8, ConstructFromStep
  <2>9. ASSUME NEW o \in Deques,
               D!Swap(d, o) \/ D!CopyConstruct(d, o) \/ D!MoveConstruct(d, o) \/ D!CopyAssign(d, o)
        PROVE  DequeInv'
    <3>1. D!CopyConstruct(d, o) => D!Construct(d) \/ D!CopyAssign(d, o)
      BY DEF D!CopyConstruct
    <3> QED
      BY <2>1, <2>9, <3>1, SwapStep, ConstructStep, MoveConstructStep, CopyAssignStep
  <2> QED
    BY <2>2, <2>3, <2>4, <2>5, <2>6, <2>7, <2>8, <2>9
<1> QED
  BY <1>1, <1>2

LEMMA DequeInvInit == ASSUME D!DequeAssumption PROVE D!Init => DequeInv
<1> SUFFICES ASSUME D!Init PROVE DequeInv
  OBVIOUS
<1>1. deque = [d \in Deques |-> D!EmptyDeque] /\ heap = <<>> /\ undefined = FALSE
  BY DEF D!Init
<1>2. DOMAIN heap = {} /\ IsFiniteSet({}) /\ Cardinality({}) = 0 /\ BlockBound \in Nat
  BY <1>1, FS_EmptySet DEF D!DequeAssumption
<1>3. DequeHeap(heap) /\ Cardinality(DOMAIN heap) <= BlockBound
  BY <1>1, <1>2 DEF DequeHeap
<1>4. \A d \in Deques : /\ deque[d] \in DequeRecord /\ EndRight(deque[d])
                        /\ Distinct(deque[d].storage_) /\ D!BlocksOf(deque[d].storage_) = {}
  BY <1>1, EmptyFact
<1>5. Owned(deque, heap)
  BY <1>2, <1>4, Zenon DEF Owned
<1> QED
  BY <1>1, <1>3, <1>4, <1>5 DEF DequeInv

(* Blocks at one place each: as many places as blocks.                      *)
LEMMA LayoutFollows == DequeInv => DequeLayout
<1> SUFFICES ASSUME DequeInv PROVE DequeLayout
  OBVIOUS
<1> DEFINE places == UNION {{d} \X DOMAIN deque[d].storage_ : d \in Deques}
           at(p) == deque[p[1]].storage_[p[2]]
           place == [b \in DOMAIN heap |-> CHOOSE p \in places : at(p) = b]
<1>1. \A p : p \in places <=> \E d \in Deques : \E k \in DOMAIN deque[d].storage_ : p = <<d, k>>
  OBVIOUS
<1>2. \A p \in places : at(p) \in DOMAIN heap
  BY <1>1 DEF DequeInv, Owned, D!BlocksOf
<1>3. \A b \in DOMAIN heap : \E p \in places : at(p) = b
  <2> SUFFICES ASSUME NEW b \in DOMAIN heap PROVE \E p \in places : at(p) = b
    OBVIOUS
  <2>1. PICK d \in Deques : b \in D!BlocksOf(deque[d].storage_)
    BY DEF DequeInv, Owned
  <2>2. PICK k \in DOMAIN deque[d].storage_ : deque[d].storage_[k] = b
    BY <2>1 DEF D!BlocksOf
  <2>3. <<d, k>> \in places /\ at(<<d, k>>) = b
    BY <1>1, <2>2
  <2> QED
    BY <2>3
<1>4. \A p, r \in places : at(p) = at(r) => p = r
  <2> SUFFICES ASSUME NEW d \in Deques, NEW k \in DOMAIN deque[d].storage_,
                      NEW e \in Deques, NEW l \in DOMAIN deque[e].storage_,
                      deque[d].storage_[k] = deque[e].storage_[l]
               PROVE  d = e /\ k = l
    BY <1>1
  <2>1. /\ deque[d].storage_[k] \in D!BlocksOf(deque[d].storage_)
        /\ deque[e].storage_[l] \in D!BlocksOf(deque[e].storage_)
    BY DEF D!BlocksOf
  <2>2. d = e
    BY <2>1 DEF DequeInv, Owned
  <2> QED
    BY <2>2 DEF DequeInv, Owned, Distinct
<1> HIDE DEF places, at
<1>5. \A b \in DOMAIN heap : place[b] \in places /\ at(place[b]) = b
  BY <1>3
<1>6. place \in Bijection(DOMAIN heap, places)
  <2>1. place \in [DOMAIN heap -> places]
    BY <1>5
  <2>2. \A b, c \in DOMAIN heap : place[b] = place[c] => b = c
    BY <1>5
  <2>3. \A p \in places : \E b \in DOMAIN heap : place[b] = p
    BY <1>2, <1>4, <1>5
  <2> HIDE DEF place
  <2> QED
    BY <2>1, <2>2, <2>3 DEF Bijection, Injection, Surjection, IsInjective
<1>7. Cardinality(places) = Cardinality(DOMAIN heap)
  <2>1. ExistsBijection(DOMAIN heap, places)
    BY <1>6 DEF ExistsBijection
  <2> QED
    BY <2>1, FS_Bijection DEF DequeInv, DequeHeap
<1>8. {at(p) : p \in places} = DOMAIN heap
  BY <1>2, <1>3
<1>9. \A d \in Deques :
        /\ deque[d].head_index_ \in D!Index /\ deque[d].tail_index_ \in D!Index
        /\ deque[d].tail_block_ * BLOCK_SIZE + deque[d].tail_index_
             = deque[d].head_index_ + deque[d].size_
        /\ deque[d].head_index_ + deque[d].size_ <= Len(deque[d].storage_) * BLOCK_SIZE
  BY DEF DequeInv, DequeRecord, EndRight
<1> QED
  BY <1>7, <1>8, <1>9, DequeSets DEF DequeLayout, D!Layout, places, at

LEMMA DequeInvAlways ==
  ASSUME ListsInexact PROVE (Init => DequeInv) /\ (DequeInv /\ [Next]_vars => DequeInv')
<1>1. D!DequeAssumption
  BY ContainersAssumption
<1>2. Init => DequeInv
  BY <1>1, DequeInvInit DEF Init
<1>3. DequeInv /\ [Next]_vars => DequeInv'
  <2> SUFFICES ASSUME DequeInv, [Next]_vars PROVE DequeInv'
    OBVIOUS
  <2>1. [D!Next]_deques
    BY DEF Next, vars
  <2> QED
    BY <1>1, <2>1, DequeInvNext
<1> QED
  BY <1>2, <1>3

(* For every number of deques, block size and bound: whatever calls are     *)
(* made, no block leaks, is shared or is deleted in use, and the stored end *)
(* is the one that the front and the size give (deque.h:18-282); provided   *)
(* that no initializer list fills its last block.                           *)
THEOREM DequeLaidOut == ASSUME ListsInexact PROVE Spec => []DequeLayout
BY DequeInvAlways, LayoutFollows, PTL DEF Spec

-----------------------------------------------------------------------------
(* What the deques stand for, and that every call does to it what the call  *)
(* of the same name does to a sequence.  A call that leaves the invariant   *)
(* true was defined throughout, which DequeInv' says.                       *)

(* What a deque with members x stands for on the heap h.                    *)
OffsetOf(x, i) == x.head_index_ + i - 1
SeqOf(x, h) ==
    [i \in 1 .. x.size_ |->
        h[x.storage_[OffsetOf(x, i) \div BLOCK_SIZE + 1]][OffsetOf(x, i) % BLOCK_SIZE]]

LEMMA OffsetFact ==
  ASSUME D!DequeAssumption, NEW x \in DequeRecord, EndRight(x), NEW i \in 1 .. x.size_
  PROVE  /\ OffsetOf(x, i) \in Nat
         /\ OffsetOf(x, i) \div BLOCK_SIZE \in Nat /\ OffsetOf(x, i) % BLOCK_SIZE \in D!Index
         /\ (OffsetOf(x, i) \div BLOCK_SIZE) * BLOCK_SIZE + (OffsetOf(x, i) % BLOCK_SIZE)
              = OffsetOf(x, i)
         /\ OffsetOf(x, i) \div BLOCK_SIZE < Len(x.storage_)
         /\ OffsetOf(x, i) \div BLOCK_SIZE + 1 \in DOMAIN x.storage_
<1> DEFINE o == OffsetOf(x, i)
           k == o \div BLOCK_SIZE
           j == o % BLOCK_SIZE
           n == Len(x.storage_)
           r == n * BLOCK_SIZE
           hd == x.head_index_
           size == x.size_
<1>1. /\ BLOCK_SIZE \in Nat \ {0} /\ x.storage_ \in Seq(Nat) /\ n \in Nat /\ r \in Nat
      /\ hd \in Nat /\ size \in Nat /\ hd + size <= r /\ i \in 1 .. size /\ o = hd + i - 1
  <2>1. /\ BLOCK_SIZE \in Nat \ {0} /\ x.storage_ \in Seq(Nat) /\ n \in Nat
        /\ hd \in D!Index /\ size \in Nat /\ hd + size <= r /\ i \in 1 .. size /\ o = hd + i - 1
    BY BlockSums DEF DequeRecord, EndRight, OffsetOf
  <2>2. r \in Nat /\ hd \in Nat
    BY <2>1, BlockSums DEF D!Index
  <2> QED
    BY <2>1, <2>2
<1>2. DOMAIN x.storage_ = 1 .. n
  BY <1>1
<1> HIDE DEF o, n, hd, size
<1>3. o \in Nat /\ o < r
  <2> HIDE DEF r
  <2> QED
    BY <1>1
<1>4. k \in Nat /\ j \in 0 .. BLOCK_SIZE - 1 /\ o = k * BLOCK_SIZE + j
  BY <1>1, <1>3
<1> HIDE DEF k, j
<1>5. j \in D!Index /\ k < n
  <2>1. j \in D!Index
    BY <1>4 DEF D!Index
  <2>2. k * BLOCK_SIZE + j < n * BLOCK_SIZE
    BY <1>3, <1>4 DEF r
  <2> QED
    BY <1>1, <1>4, <2>1, <2>2, BlockSums, Zenon
<1>6. k + 1 \in 1 .. n
  BY <1>1, <1>4, <1>5
<1> QED
  BY <1>2, <1>3, <1>4, <1>5, <1>6 DEF o, k, j, n

CellAt(x, h, i, k, j) ==
    SeqOf(x, h)[i] = h[x.storage_[k + 1]][j] /\ k + 1 \in DOMAIN x.storage_

(* The element at offset k blocks and j is in cell j of block k.            *)
LEMMA CellFact ==
  ASSUME D!DequeAssumption, NEW x \in DequeRecord, EndRight(x), NEW h, NEW i \in 1 .. x.size_,
         NEW k \in Nat, NEW j \in D!Index, k * BLOCK_SIZE + j = OffsetOf(x, i)
  PROVE  CellAt(x, h, i, k, j)
<1>1. OffsetOf(x, i) \div BLOCK_SIZE = k /\ OffsetOf(x, i) % BLOCK_SIZE = j
  <2>1. (k * BLOCK_SIZE + j) \div BLOCK_SIZE = k /\ (k * BLOCK_SIZE + j) % BLOCK_SIZE = j
    BY BlockSums
  <2> QED
    BY <2>1
<1> QED
  BY <1>1, OffsetFact DEF SeqOf, CellAt

IsList(t, n) == t = [i \in 1 .. n |-> t[i]]

LEMMA SameSeq ==
  ASSUME NEW x, NEW h, NEW t, IsList(t, x.size_), \A i \in 1 .. x.size_ : SeqOf(x, h)[i] = t[i]
  PROVE  SeqOf(x, h) = t
<1>1. SeqOf(x, h) = [i \in 1 .. x.size_ |-> SeqOf(x, h)[i]]
  BY DEF SeqOf
<1> QED
  BY <1>1 DEF IsList

(* The blocks of x hold on h what those of y hold on g, m places further.   *)
Shift(x, h, y, g, m) ==
    \A k \in DOMAIN x.storage_ :
        k + m \in DOMAIN y.storage_ /\ g[y.storage_[k + m]] = h[x.storage_[k]]

LEMMA Shifted ==
  ASSUME D!DequeAssumption, NEW x \in DequeRecord, EndRight(x), NEW y \in DequeRecord, EndRight(y),
         NEW h, NEW g, NEW m \in Nat, Shift(x, h, y, g, m),
         NEW i \in 1 .. x.size_, NEW l \in 1 .. y.size_,
         OffsetOf(y, l) = OffsetOf(x, i) + m * BLOCK_SIZE
  PROVE  SeqOf(y, g)[l] = SeqOf(x, h)[i]
<1> DEFINE k == OffsetOf(x, i) \div BLOCK_SIZE
           j == OffsetOf(x, i) % BLOCK_SIZE
<1>1. k \in Nat /\ j \in D!Index /\ k * BLOCK_SIZE + j = OffsetOf(x, i)
  BY OffsetFact
<1> HIDE DEF k, j
<1>2. CellAt(x, h, i, k, j)
  BY <1>1, CellFact
<1>3. k + m \in Nat /\ (k + m) * BLOCK_SIZE + j = OffsetOf(y, l)
  <2>1. BLOCK_SIZE \in Nat /\ j \in Nat
    BY <1>1, BlockSums DEF D!Index
  <2>2. (k + m) * BLOCK_SIZE = k * BLOCK_SIZE + m * BLOCK_SIZE
    BY <1>1, <2>1
  <2> DEFINE p == k * BLOCK_SIZE
             q == m * BLOCK_SIZE
             r == (k + m) * BLOCK_SIZE
  <2>3. p \in Nat /\ q \in Nat /\ r = p + q /\ p + j = OffsetOf(x, i) /\ OffsetOf(y, l) = OffsetOf(x, i) + q
    BY <1>1, <2>2, BlockSums
  <2> HIDE DEF p, q, r
  <2>4. r + j = OffsetOf(y, l)
    BY <2>1, <2>3
  <2> QED
    BY <1>1, <2>4 DEF r
<1>4. CellAt(y, g, l, k + m, j)
  BY <1>1, <1>3, CellFact
<1>5. k + 1 \in DOMAIN x.storage_ /\ (k + 1) + m = (k + m) + 1
  BY <1>1, <1>2 DEF CellAt
<1> QED
  BY <1>2, <1>4, <1>5 DEF CellAt, Shift

(* The heap g is h with one cell written.                                   *)
Written(g, h, b, i, v) ==
    /\ DOMAIN g = DOMAIN h /\ g[b][i] = v
    /\ \A c \in DOMAIN h, j \in D!Index : c # b \/ j # i => g[c][j] = h[c][j]
    /\ \A c \in DOMAIN h : c # b => g[c] = h[c]

(* The list t is u but for its w-th element.                                *)
Replaced(t, u, w, n) == IsList(t, n) /\ \A i \in 1 .. n : i # w => t[i] = u[i]

(* Writing the w-th element writes only that.                               *)
LEMMA WrittenSeq ==
  ASSUME D!DequeAssumption, NEW x \in DequeRecord, EndRight(x), Distinct(x.storage_),
         NEW h, D!BlocksOf(x.storage_) \subseteq DOMAIN h, NEW g, NEW t,
         NEW w \in 1 .. x.size_, NEW k \in Nat, NEW j \in D!Index, k * BLOCK_SIZE + j = OffsetOf(x, w),
         Written(g, h, x.storage_[k + 1], j, t[w]), Replaced(t, SeqOf(x, h), w, x.size_)
  PROVE  SeqOf(x, g) = t
<1>1. CellAt(x, g, w, k, j)
  BY CellFact
<1>2. SeqOf(x, g)[w] = t[w]
  BY <1>1 DEF CellAt, Written
<1>3. ASSUME NEW i \in 1 .. x.size_, i # w PROVE SeqOf(x, g)[i] = t[i]
  <2> DEFINE l == OffsetOf(x, i) \div BLOCK_SIZE
             o == OffsetOf(x, i) % BLOCK_SIZE
  <2>1. l \in Nat /\ o \in D!Index /\ l * BLOCK_SIZE + o = OffsetOf(x, i)
    BY OffsetFact
  <2> HIDE DEF l, o
  <2>2. CellAt(x, g, i, l, o) /\ CellAt(x, h, i, l, o)
    BY <2>1, CellFact
  <2>3. OffsetOf(x, i) # OffsetOf(x, w)
    <3>1. x.head_index_ \in Int /\ x.size_ \in Int
      BY DEF DequeRecord, D!Index
    <3> QED
      BY <1>3, <3>1 DEF OffsetOf
  <2>4. k # l \/ j # o
    BY <2>1, <2>3
  <2>5. l + 1 # k + 1 \/ o # j
    BY <2>1, <2>4
  <2>6. x.storage_[l + 1] # x.storage_[k + 1] \/ o # j
    BY <1>1, <2>2, <2>5 DEF CellAt, Distinct
  <2>7. x.storage_[l + 1] \in DOMAIN h
    BY <2>2 DEF CellAt, D!BlocksOf
  <2>8. SeqOf(x, g)[i] = SeqOf(x, h)[i]
    BY <2>1, <2>2, <2>6, <2>7 DEF CellAt, Written
  <2> QED
    BY <1>3, <2>8 DEF Replaced
<1>4. IsList(t, x.size_) /\ \A i \in 1 .. x.size_ : SeqOf(x, g)[i] = t[i]
  BY <1>2, <1>3 DEF Replaced
<1> QED
  BY <1>4, SameSeq

LEMMA ContentsAre ==
  ASSUME D!DequeAssumption
  PROVE  /\ DequeInv => D!Contents = [d \in Deques |-> SeqOf(deque[d], heap)]
         /\ DequeInv' => D!Contents' = [d \in Deques |-> SeqOf(deque'[d], heap')]
<1>1. ASSUME NEW x \in DequeRecord, EndRight(x), NEW h, D!BlocksOf(x.storage_) \subseteq DOMAIN h,
             NEW i \in 1 .. x.size_
      PROVE  /\ OffsetOf(x, i) \div BLOCK_SIZE + 1 \in DOMAIN x.storage_
             /\ x.storage_[OffsetOf(x, i) \div BLOCK_SIZE + 1] \in DOMAIN h
  <2>1. OffsetOf(x, i) \div BLOCK_SIZE + 1 \in DOMAIN x.storage_
    BY <1>1, OffsetFact
  <2> QED
    BY <1>1, <2>1 DEF D!BlocksOf
<1>2. ASSUME DequeInv PROVE D!Contents = [d \in Deques |-> SeqOf(deque[d], heap)]
  <2>1. ASSUME NEW d \in Deques, NEW i \in 1 .. deque[d].size_
        PROVE  D!At(d, deque[d].head_index_ + i - 1) = SeqOf(deque[d], heap)[i]
    <3>1. /\ OffsetOf(deque[d], i) \div BLOCK_SIZE + 1 \in DOMAIN deque[d].storage_
          /\ deque[d].storage_[OffsetOf(deque[d], i) \div BLOCK_SIZE + 1] \in DOMAIN heap
      BY <1>1, <1>2 DEF DequeInv, Owned
    <3> QED
      BY <3>1, Zenon DEF D!At, SeqOf, OffsetOf
  <2>2. \A d \in Deques : [i \in 1 .. deque[d].size_ |-> D!At(d, deque[d].head_index_ + i - 1)]
                            = SeqOf(deque[d], heap)
    BY <2>1, Zenon DEF SeqOf
  <2> QED
    BY <2>2 DEF D!Contents
<1>3. ASSUME DequeInv' PROVE D!Contents' = [d \in Deques |-> SeqOf(deque'[d], heap')]
  <2>1. ASSUME NEW d \in Deques, NEW i \in 1 .. deque'[d].size_
        PROVE  D!At(d, deque[d].head_index_ + i - 1)' = SeqOf(deque'[d], heap')[i]
    <3>1. /\ OffsetOf(deque'[d], i) \div BLOCK_SIZE + 1 \in DOMAIN deque'[d].storage_
          /\ deque'[d].storage_[OffsetOf(deque'[d], i) \div BLOCK_SIZE + 1] \in DOMAIN heap'
      BY <1>1, <1>3 DEF DequeInv, Owned
    <3> QED
      BY <3>1, Zenon DEF D!At, SeqOf, OffsetOf
  <2>2. \A d \in Deques : [i \in 1 .. deque'[d].size_ |-> D!At(d, deque[d].head_index_ + i - 1)']
                            = SeqOf(deque'[d], heap')
    BY <2>1, Zenon DEF SeqOf
  <2> QED
    BY <2>2 DEF D!Contents
<1> QED
  BY <1>2, <1>3

(* A call that gives one deque other members, and writes its blocks only.   *)
LEMMA OneBecomes ==
  ASSUME D!DequeAssumption, DequeInv, DequeInv', NEW d \in Deques, NEW x, NEW t,
         deque' = [deque EXCEPT ![d] = x], SeqOf(x, heap') = t,
         \A b \in DOMAIN heap \cap DOMAIN heap' :
           b \notin D!BlocksOf(deque[d].storage_) /\ b \notin D!BlocksOf(x.storage_)
             => heap'[b] = heap[b]
  PROVE  D!C!Becomes(d, t)
<1>1. deque'[d] = x /\ \A o \in Deques \ {d} : deque'[o] = deque[o]
  BY DEF DequeInv
<1>2. ASSUME NEW o \in Deques \ {d} PROVE SeqOf(deque[o], heap') = SeqOf(deque[o], heap)
  <2> DEFINE y == deque[o]
  <2>1. \A b \in D!BlocksOf(y.storage_) : heap'[b] = heap[b]
    <3>1. /\ D!BlocksOf(y.storage_) \subseteq DOMAIN heap
          /\ D!BlocksOf(y.storage_) \cap D!BlocksOf(deque[d].storage_) = {}
      BY DEF DequeInv, Owned
    <3>2. /\ D!BlocksOf(y.storage_) \subseteq DOMAIN heap'
          /\ D!BlocksOf(y.storage_) \cap D!BlocksOf(x.storage_) = {}
      BY <1>1 DEF DequeInv, Owned
    <3> QED
      BY <3>1, <3>2
  <2>2. y \in DequeRecord /\ EndRight(y)
    BY DEF DequeInv
  <2> HIDE DEF y
  <2>3. \A i \in 1 .. y.size_ : OffsetOf(y, i) \div BLOCK_SIZE + 1 \in DOMAIN y.storage_
    BY <2>2, OffsetFact
  <2>4. \A i \in 1 .. y.size_ : SeqOf(y, heap')[i] = SeqOf(y, heap)[i]
    BY <2>1, <2>3 DEF SeqOf, D!BlocksOf
  <2>5. SeqOf(y, heap') = SeqOf(y, heap)
    BY <2>4, Zenon DEF SeqOf
  <2> QED
    BY <2>5 DEF y
<1>3. \A o \in Deques : SeqOf(deque'[o], heap') = IF o = d THEN t ELSE SeqOf(deque[o], heap)
  BY <1>1, <1>2
<1>4. /\ D!Contents = [o \in Deques |-> SeqOf(deque[o], heap)]
      /\ D!Contents' = [o \in Deques |-> SeqOf(deque'[o], heap')]
  BY ContentsAre
<1>5. D!Contents' = [D!Contents EXCEPT ![d] = t]
  BY <1>3, <1>4
<1> QED
  BY <1>5 DEF D!C!Becomes

LEMMA WriteIs ==
  ASSUME DequeInv', NEW d, NEW x, NEW k, NEW i \in D!Index, NEW h, DequeHeap(h), NEW v,
         D!Write(d, x, k, i, h, v)
  PROVE  /\ k < Len(x.storage_) /\ x.storage_[k + 1] \in DOMAIN h
         /\ deque' = [deque EXCEPT ![d] = x] /\ Written(heap', h, x.storage_[k + 1], i, v)
<1>1. D!Access(d, x, k, i, h) /\ (~undefined' => heap' = [h EXCEPT ![x.storage_[k + 1]][i] = v])
  BY DEF D!Write
<1>2. /\ k < Len(x.storage_) /\ x.storage_[k + 1] \in DOMAIN h /\ ~undefined'
      /\ deque' = [deque EXCEPT ![d] = x]
  BY <1>1 DEF D!Access, DequeInv
<1> DEFINE b == x.storage_[k + 1]
<1>3. b \in DOMAIN h /\ heap' = [h EXCEPT ![b][i] = v]
  BY <1>1, <1>2
<1> HIDE DEF b
<1>4. Written(heap', h, b, i, v)
  BY <1>3 DEF Written, DequeHeap
<1> QED
  BY <1>2, <1>4 DEF b

LEMMA SeqOfType ==
  ASSUME D!DequeAssumption, DequeInv, NEW d \in Deques
  PROVE  /\ SeqOf(deque[d], heap) \in Seq(D!Cells) /\ Len(SeqOf(deque[d], heap)) = deque[d].size_
         /\ DOMAIN SeqOf(deque[d], heap) = 1 .. deque[d].size_ /\ deque[d].size_ \in Nat
<1> DEFINE x == deque[d]
<1>1. /\ x \in DequeRecord /\ EndRight(x) /\ x.size_ \in Nat /\ D!BlocksOf(x.storage_) \subseteq DOMAIN heap
      /\ DequeHeap(heap)
  BY DequeFacts, Zenon DEF DequeInv
<1> HIDE DEF x
<1>2. ASSUME NEW i \in 1 .. x.size_ PROVE SeqOf(x, heap)[i] \in D!Cells
  <2> DEFINE k == OffsetOf(x, i) \div BLOCK_SIZE
             j == OffsetOf(x, i) % BLOCK_SIZE
  <2>1. k + 1 \in DOMAIN x.storage_ /\ j \in D!Index
    BY <1>1, OffsetFact
  <2>2. SeqOf(x, heap)[i] = heap[x.storage_[k + 1]][j]
    BY DEF SeqOf
  <2> HIDE DEF k, j
  <2>3. x.storage_[k + 1] \in DOMAIN heap
    BY <1>1, <2>1 DEF D!BlocksOf
  <2> QED
    BY <1>1, <2>1, <2>2, <2>3 DEF DequeHeap
<1>3. SeqOf(x, heap) = [i \in 1 .. x.size_ |-> SeqOf(x, heap)[i]]
  BY DEF SeqOf
<1> DEFINE t == SeqOf(x, heap)
<1> HIDE DEF t
<1>4. t = [i \in 1 .. x.size_ |-> t[i]] /\ \A i \in 1 .. x.size_ : t[i] \in D!Cells
  BY <1>2, <1>3 DEF t
<1>5. t \in Seq(D!Cells) /\ Len(t) = x.size_ /\ DOMAIN t = 1 .. x.size_
  BY <1>1, <1>4
<1> QED
  BY <1>1, <1>5 DEF x, t

LEMMA ConcatAt ==
  ASSUME NEW s \in Seq(Nat), NEW t \in Seq(Nat)
  PROVE  /\ \A k \in DOMAIN s : k \in DOMAIN (s \o t) /\ (s \o t)[k] = s[k]
         /\ \A k \in DOMAIN t : k + Len(s) \in DOMAIN (s \o t) /\ (s \o t)[k + Len(s)] = t[k]
<1>1. /\ DOMAIN (s \o t) = 1 .. Len(s) + Len(t) /\ DOMAIN s = 1 .. Len(s) /\ DOMAIN t = 1 .. Len(t)
      /\ Len(s) \in Nat /\ Len(t) \in Nat
  OBVIOUS
<1> QED
  BY <1>1

LEMMA AppendAt ==
  ASSUME NEW u \in Seq(D!Cells), NEW v \in D!Cells, NEW n \in Nat, Len(u) = n
  PROVE  /\ IsList(Append(u, v), n + 1) /\ Append(u, v)[n + 1] = v
         /\ \A i \in 1 .. n : Append(u, v)[i] = u[i]
<1>1. Append(u, v) \in Seq(D!Cells) /\ Len(Append(u, v)) = n + 1
  OBVIOUS
<1>2. /\ Append(u, v)[n + 1] = v /\ \A i \in 1 .. n : Append(u, v)[i] = u[i]
  OBVIOUS
<1> DEFINE a == Append(u, v)
<1> HIDE DEF a
<1>3. a \in Seq(D!Cells) /\ Len(a) = n + 1
  BY <1>1 DEF a
<1>4. a = [i \in 1 .. n + 1 |-> a[i]]
  BY <1>3
<1> QED
  BY <1>2, <1>4 DEF a, IsList

LEMMA BlankKept ==
  ASSUME NEW h, DequeHeap(h), NEW s \in Seq(Nat)
  PROVE  /\ DequeHeap(D!Allocate(h, s, D!Blank(s)))
         /\ \A b \in DOMAIN h : /\ b \in DOMAIN D!Allocate(h, s, D!Blank(s))
                                /\ D!Allocate(h, s, D!Blank(s))[b] = h[b]
<1> DEFINE cells == D!Blank(s)
<1>1. \A k \in DOMAIN s : s[k] \notin DOMAIN h => cells[k] \in [D!Index -> D!Cells]
  BY DEF D!Blank, D!Cells
<1> HIDE DEF cells
<1> DEFINE g == D!Allocate(h, s, cells)
<1>2. DequeHeap(g)
  BY <1>1, AllocateFact, Zenon
<1>3. \A b \in DOMAIN h : b \in DOMAIN g /\ g[b] = h[b]
  BY DEF D!Allocate
<1> QED
  BY <1>2, <1>3 DEF cells

LEMMA SameOffset ==
  ASSUME D!DequeAssumption, NEW x \in DequeRecord, NEW y \in DequeRecord, NEW i \in Int,
         y.head_index_ = x.head_index_
  PROVE  OffsetOf(y, i) = OffsetOf(x, i) + 0 * BLOCK_SIZE
<1>1. x.head_index_ \in Int /\ BLOCK_SIZE \in Nat
  BY DEF DequeRecord, D!Index, D!DequeAssumption
<1>2. 0 * BLOCK_SIZE = 0
  BY <1>1
<1> QED
  BY <1>1, <1>2 DEF OffsetOf

LEMMA PushBackIs ==
  ASSUME D!DequeAssumption, DequeInv, DequeInv', NEW d \in Deques, NEW v \in D!Cells,
         D!PushBack(d, v)
  PROVE  D!C!PushBack(d, v)
<1> DEFINE x == deque[d]
           n == Len(x.storage_)
           new == IF x.tail_block_ >= n THEN D!NewBlocks(1, heap) ELSE <<>>
           s == x.storage_ \o new
           grown == [x EXCEPT !.storage_ = s, !.size_ = @ + 1]
           y == IF x.tail_index_ + 1 >= BLOCK_SIZE
                THEN [grown EXCEPT !.tail_index_ = 0, !.tail_block_ = D!Wrap(@ + 1)]
                ELSE [grown EXCEPT !.tail_index_ = @ + 1]
           h == D!Allocate(heap, s, D!Blank(s))
           t == Append(SeqOf(x, heap), v)
           tb == x.tail_block_
           ti == x.tail_index_
<1>1. /\ x \in DequeRecord /\ DequeHeap(heap) /\ EndRight(x) /\ x.size_ \in Nat
      /\ D!BlocksOf(x.storage_) \subseteq DOMAIN heap /\ x.storage_ \in Seq(Nat)
      /\ tb \in Nat /\ ti \in D!Index /\ x.head_index_ \in D!Index
      /\ \A i \in D!Index : i \in Nat
  BY DequeFacts, Zenon DEF DequeInv
<1>2. new \in Seq(Nat)
  BY <1>1, NewBlocksFact DEF DequeHeap
<1>3. D!Write(d, y, tb, ti, h, v)
  BY DEF D!PushBack
<1> HIDE DEF x, n, new
<1>4. /\ y.storage_ = s /\ y.size_ = x.size_ + 1 /\ y.head_index_ = x.head_index_
  <2> HIDE DEF s
  <2>1. /\ grown.storage_ = s /\ grown.size_ = x.size_ + 1 /\ grown.head_index_ = x.head_index_
        /\ x = [f \in DOMAIN x |-> x[f]] /\ DOMAIN grown = DOMAIN x
        /\ DOMAIN x = {"storage_", "head_index_", "tail_block_", "tail_index_", "size_"}
    BY <1>1 DEF DequeRecord
  <2> HIDE DEF grown
  <2> QED
    BY <2>1
<1> HIDE DEF y, tb, ti
<1>7. /\ s \in Seq(Nat) /\ \A k \in DOMAIN x.storage_ : k \in DOMAIN s /\ s[k] = x.storage_[k]
  BY <1>1, <1>2, ConcatFact, ConcatAt
<1> HIDE DEF s
<1>8. DequeHeap(h) /\ \A b \in DOMAIN heap : b \in DOMAIN h /\ h[b] = heap[b]
  BY <1>1, <1>7, BlankKept
<1> HIDE DEF h
<1>5. /\ tb < Len(s) /\ s[tb + 1] \in DOMAIN h
      /\ deque' = [deque EXCEPT ![d] = y] /\ Written(heap', h, s[tb + 1], ti, v)
  BY <1>1, <1>3, <1>4, <1>8, WriteIs, Zenon
<1>6. y \in DequeRecord /\ EndRight(y) /\ Distinct(s) /\ D!BlocksOf(s) \subseteq DOMAIN heap'
  <2>1. deque'[d] = y
    BY <1>5 DEF DequeInv
  <2> QED
    BY <1>4, <2>1 DEF DequeInv, Owned
<1>9. SeqOf(y, heap') = t
  <2>1. /\ SeqOf(x, heap) \in Seq(D!Cells) /\ Len(SeqOf(x, heap)) = x.size_
    BY SeqOfType DEF x
  <2>2. /\ IsList(t, y.size_) /\ t[x.size_ + 1] = v
        /\ \A i \in 1 .. x.size_ : t[i] = SeqOf(x, heap)[i]
    BY <1>1, <1>4, <2>1, AppendAt
  <2> HIDE DEF t
  <2>3. x.size_ + 1 \in 1 .. y.size_ /\ \A i \in 1 .. y.size_ : i # x.size_ + 1 => i \in 1 .. x.size_
    BY <1>1, <1>4
  <2>4. ASSUME NEW i \in 1 .. x.size_ PROVE SeqOf(y, h)[i] = SeqOf(x, heap)[i]
    <3>1. i \in 1 .. y.size_ /\ OffsetOf(y, i) = OffsetOf(x, i) + 0 * BLOCK_SIZE
      BY <1>1, <1>4, <1>6, SameOffset
    <3>2. Shift(x, heap, y, h, 0)
      BY <1>1, <1>4, <1>7, <1>8 DEF Shift, D!BlocksOf
    <3> QED
      BY <1>1, <1>6, <3>1, <3>2, Shifted
  <2>5. tb * BLOCK_SIZE + ti = OffsetOf(y, x.size_ + 1)
    <3>1. OffsetOf(y, x.size_ + 1) = x.head_index_ + x.size_
      BY <1>1, <1>4 DEF OffsetOf
    <3> QED
      BY <1>1, <3>1 DEF EndRight, tb, ti
  <2>6. D!BlocksOf(y.storage_) \subseteq DOMAIN h
    BY <1>4, <1>5, <1>6 DEF Written
  <2>7. Written(heap', h, y.storage_[tb + 1], ti, t[x.size_ + 1])
    BY <1>4, <1>5, <2>2
  <2>8. Replaced(t, SeqOf(y, h), x.size_ + 1, y.size_)
    BY <2>2, <2>3, <2>4 DEF Replaced
  <2>9. Distinct(y.storage_)
    BY <1>4, <1>6
  <2> DEFINE w == x.size_ + 1
  <2>10. /\ y \in DequeRecord /\ EndRight(y) /\ w \in 1 .. y.size_
         /\ tb \in Nat /\ ti \in D!Index /\ tb * BLOCK_SIZE + ti = OffsetOf(y, w)
         /\ Written(heap', h, y.storage_[tb + 1], ti, t[w])
         /\ Replaced(t, SeqOf(y, h), w, y.size_)
    BY <1>1, <1>6, <2>3, <2>5, <2>7, <2>8
  <2> HIDE DEF w
  <2> QED
    BY <2>6, <2>9, <2>10, WrittenSeq, ZenonT(60)
<1>10. \A b \in DOMAIN heap \cap DOMAIN heap' :
         b \notin D!BlocksOf(x.storage_) /\ b \notin D!BlocksOf(y.storage_) => heap'[b] = heap[b]
  <2>1. s[tb + 1] \in D!BlocksOf(y.storage_)
    BY <1>1, <1>4, <1>5, <1>7 DEF D!BlocksOf
  <2> QED
    BY <1>5, <1>8, <2>1 DEF Written
<1>11. D!C!Becomes(d, t)
  BY <1>5, <1>9, <1>10, OneBecomes, Zenon DEF x
<1>12. D!Contents[d] = SeqOf(x, heap)
  BY ContentsAre DEF x
<1> QED
  BY <1>11, <1>12 DEF D!C!PushBack

LEMMA PrependAt ==
  ASSUME NEW u \in Seq(D!Cells), NEW v \in D!Cells, NEW n \in Nat, Len(u) = n
  PROVE  /\ IsList(<<v>> \o u, n + 1) /\ (<<v>> \o u)[1] = v
         /\ \A i \in 1 .. n : (<<v>> \o u)[i + 1] = u[i]
<1>1. /\ <<v>> \o u \in Seq(D!Cells) /\ Len(<<v>> \o u) = n + 1 /\ (<<v>> \o u)[1] = v
      /\ \A i \in 1 .. n : (<<v>> \o u)[i + 1] = u[i]
  <2>1. <<v>> \in Seq(D!Cells) /\ Len(<<v>>) = 1
    OBVIOUS
  <2>2. <<v>> \o u \in Seq(D!Cells) /\ Len(<<v>> \o u) = n + 1
    BY <2>1
  <2>3. DOMAIN (<<v>> \o u) = 1 .. n + 1
    BY <2>2
  <2>4. \A i \in 1 .. n + 1 : (<<v>> \o u)[i] = IF i <= 1 THEN <<v>>[i] ELSE u[i - 1]
    BY <2>1
  <2> QED
    BY <2>2, <2>4
<1> DEFINE a == <<v>> \o u
<1>2. a \in Seq(D!Cells) /\ Len(a) = n + 1
  BY <1>1
<1> HIDE DEF a
<1>3. a = [i \in 1 .. n + 1 |-> a[i]]
  BY <1>2
<1> QED
  BY <1>1, <1>3 DEF a, IsList

LEMMA PushFrontIs ==
  ASSUME D!DequeAssumption, DequeInv, DequeInv', NEW d \in Deques, NEW v \in D!Cells,
         D!PushFront(d, v)
  PROVE  D!C!PushFront(d, v)
<1> DEFINE x == deque[d]
           new == IF x.head_index_ = 0 THEN D!NewBlocks(1, heap) ELSE <<>>
           head == IF x.head_index_ = 0 THEN BLOCK_SIZE - 1 ELSE x.head_index_ - 1
           s == new \o x.storage_
           y == [x EXCEPT !.storage_ = s, !.head_index_ = head, !.size_ = @ + 1,
                          !.tail_block_ = D!Wrap(@ + Len(new))]
           h == D!Allocate(heap, s, D!Blank(s))
           t == <<v>> \o SeqOf(x, heap)
           m == Len(new)
<1>1. /\ x \in DequeRecord /\ DequeHeap(heap) /\ EndRight(x) /\ x.size_ \in Nat
      /\ D!BlocksOf(x.storage_) \subseteq DOMAIN heap /\ x.storage_ \in Seq(Nat)
      /\ x.head_index_ \in D!Index /\ \A i \in D!Index : i \in Nat
  BY DequeFacts, Zenon DEF DequeInv
<1>3. D!Write(d, y, 0, head, h, v)
  BY DEF D!PushFront
<1> HIDE DEF x
<1>2. new \in Seq(Nat) /\ m = IF x.head_index_ = 0 THEN 1 ELSE 0
  <2>1. D!NewBlocks(1, heap) \in Seq(Nat) /\ Len(D!NewBlocks(1, heap)) = 1
    BY <1>1, NewBlocksFact, Zenon DEF DequeHeap
  <2>2. CASE x.head_index_ = 0
    <3>1. new = D!NewBlocks(1, heap)
      BY <2>2
    <3> HIDE DEF new
    <3> QED
      BY <2>1, <2>2, <3>1
  <2>3. CASE x.head_index_ # 0
    BY <2>3
  <2> QED
    BY <2>2, <2>3
<1> HIDE DEF new
<1>4. y.storage_ = s /\ y.size_ = x.size_ + 1 /\ y.head_index_ = head
  <2> HIDE DEF s, head, m
  <2> QED
    BY <1>1 DEF DequeRecord
<1>5. /\ head \in D!Index /\ 0 * BLOCK_SIZE + head = head
      /\ head = x.head_index_ - 1 + m * BLOCK_SIZE
  <2>1. BLOCK_SIZE \in Nat \ {0} /\ x.head_index_ \in 0 .. BLOCK_SIZE - 1
    BY <1>1, BlockSums DEF D!Index
  <2>2. 0 * BLOCK_SIZE = 0 /\ 1 * BLOCK_SIZE = BLOCK_SIZE
    BY <2>1
  <2>3. head \in 0 .. BLOCK_SIZE - 1 /\ head = IF x.head_index_ = 0 THEN BLOCK_SIZE - 1 ELSE x.head_index_ - 1
    BY <2>1
  <2> HIDE DEF head, m
  <2> QED
    BY <1>2, <2>1, <2>2, <2>3 DEF D!Index
<1> HIDE DEF y, head, m
<1>6. /\ s \in Seq(Nat) /\ \A k \in DOMAIN x.storage_ : k + m \in DOMAIN s /\ s[k + m] = x.storage_[k]
  BY <1>1, <1>2, ConcatFact, ConcatAt, Zenon DEF m
<1> HIDE DEF s
<1>7. DequeHeap(h) /\ \A b \in DOMAIN heap : b \in DOMAIN h /\ h[b] = heap[b]
  BY <1>1, <1>6, BlankKept
<1> HIDE DEF h
<1>8. /\ 0 < Len(s) /\ s[1] \in DOMAIN h
      /\ deque' = [deque EXCEPT ![d] = y] /\ Written(heap', h, s[1], head, v)
  <2>1. /\ 0 < Len(y.storage_) /\ y.storage_[0 + 1] \in DOMAIN h
        /\ deque' = [deque EXCEPT ![d] = y] /\ Written(heap', h, y.storage_[0 + 1], head, v)
    BY <1>3, <1>5, <1>7, WriteIs, Zenon
  <2> QED
    BY <1>4, <2>1
<1>9. y \in DequeRecord /\ EndRight(y) /\ Distinct(s) /\ D!BlocksOf(s) \subseteq DOMAIN heap'
  <2>1. deque'[d] = y
    BY <1>8 DEF DequeInv
  <2> QED
    BY <1>4, <2>1 DEF DequeInv, Owned
<1>10. SeqOf(y, heap') = t
  <2>1. /\ SeqOf(x, heap) \in Seq(D!Cells) /\ Len(SeqOf(x, heap)) = x.size_
    BY SeqOfType DEF x
  <2>2. /\ IsList(t, y.size_) /\ t[1] = v /\ \A i \in 1 .. x.size_ : t[i + 1] = SeqOf(x, heap)[i]
    BY <1>1, <1>4, <2>1, PrependAt
  <2> HIDE DEF t
  <2>3. ASSUME NEW i \in 1 .. y.size_, i # 1 PROVE SeqOf(y, h)[i] = t[i]
    <3>1. i - 1 \in 1 .. x.size_ /\ (i - 1) + 1 = i
      BY <1>1, <1>4, <2>3
    <3>2. OffsetOf(y, i) = OffsetOf(x, i - 1) + m * BLOCK_SIZE
      <4> DEFINE q == m * BLOCK_SIZE
      <4>1. q \in Nat /\ head = x.head_index_ - 1 + q /\ x.head_index_ \in Nat
        BY <1>1, <1>2, <1>5, BlockSums, Zenon
      <4> HIDE DEF q
      <4>2. OffsetOf(y, i) = OffsetOf(x, i - 1) + q
        BY <1>4, <4>1 DEF OffsetOf
      <4> QED
        BY <4>2 DEF q
    <3>3. Shift(x, heap, y, h, m)
      BY <1>1, <1>4, <1>6, <1>7, Zenon DEF Shift, D!BlocksOf
    <3>4. SeqOf(y, h)[i] = SeqOf(x, heap)[i - 1]
      BY <1>1, <1>2, <1>9, <3>1, <3>2, <3>3, Shifted
    <3>5. t[(i - 1) + 1] = SeqOf(x, heap)[i - 1]
      BY <2>2, <3>1
    <3> QED
      BY <3>1, <3>4, <3>5
  <2>4. y \in DequeRecord /\ EndRight(y) /\ Distinct(y.storage_) /\ D!BlocksOf(y.storage_) \subseteq DOMAIN h
    <3>1. DOMAIN heap' = DOMAIN h
      BY <1>8 DEF Written
    <3> QED
      BY <1>4, <1>9, <3>1
  <2>5. 1 \in 1 .. y.size_ /\ 0 \in Nat /\ 0 * BLOCK_SIZE + head = OffsetOf(y, 1)
    BY <1>1, <1>4, <1>5 DEF OffsetOf
  <2>6. Written(heap', h, y.storage_[0 + 1], head, t[1])
    BY <1>4, <1>8, <2>2
  <2> QED
    <3>1. Replaced(t, SeqOf(y, h), 1, y.size_)
      BY <2>2, <2>3 DEF Replaced
    <3> QED
      BY <1>5, <2>4, <2>5, <2>6, <3>1, WrittenSeq, ZenonT(60)
<1>11. \A b \in DOMAIN heap \cap DOMAIN heap' :
         b \notin D!BlocksOf(x.storage_) /\ b \notin D!BlocksOf(y.storage_) => heap'[b] = heap[b]
  <2>1. s[1] \in D!BlocksOf(y.storage_)
    BY <1>4, <1>6, <1>8 DEF D!BlocksOf
  <2> QED
    BY <1>7, <1>8, <2>1 DEF Written
<1>12. D!C!Becomes(d, t)
  BY <1>8, <1>10, <1>11, OneBecomes, Zenon DEF x
<1>13. D!Contents[d] = SeqOf(x, heap)
  BY ContentsAre DEF x
<1> QED
  BY <1>12, <1>13 DEF D!C!PushFront

LEMMA UpdateAt ==
  ASSUME NEW u \in Seq(D!Cells), NEW v \in D!Cells, NEW w \in 1 .. Len(u)
  PROVE  Replaced([u EXCEPT ![w] = v], u, w, Len(u)) /\ [u EXCEPT ![w] = v][w] = v
<1> DEFINE a == [u EXCEPT ![w] = v]
<1>1. DOMAIN u = 1 .. Len(u)
  OBVIOUS
<1>2. a = [i \in DOMAIN u |-> IF i = w THEN v ELSE u[i]]
  OBVIOUS
<1> HIDE DEF a
<1>3. Replaced(a, u, w, Len(u)) /\ a[w] = v
  BY <1>1, <1>2 DEF IsList, Replaced
<1> QED
  BY <1>3 DEF a

LEMMA SetAtIs ==
  ASSUME D!DequeAssumption, DequeInv, DequeInv', NEW d \in Deques, NEW index \in Nat,
         NEW v \in D!Cells, D!SetAt(d, index, v)
  PROVE  D!C!Set(d, index + 1, v)
<1> DEFINE x == deque[d]
           u == SeqOf(x, heap)
           t == [u EXCEPT ![index + 1] = v]
           offset == x.head_index_ + index
           k == offset \div BLOCK_SIZE
           j == offset % BLOCK_SIZE
           w == index + 1
<1>1. /\ x \in DequeRecord /\ DequeHeap(heap) /\ EndRight(x) /\ x.size_ \in Nat
      /\ D!BlocksOf(x.storage_) \subseteq DOMAIN heap /\ Distinct(x.storage_)
      /\ x.head_index_ \in D!Index /\ \A i \in D!Index : i \in Nat
  BY DequeFacts, Zenon DEF DequeInv
<1>2. index < x.size_ /\ D!Write(d, x, k, j, heap, v) /\ index + 1 = w
  BY DEF D!SetAt
<1>3. u \in Seq(D!Cells) /\ Len(u) = x.size_ /\ D!Contents[d] = u
  BY SeqOfType, ContentsAre
<1> HIDE DEF x, u, k, j
<1>4. w \in 1 .. x.size_ /\ offset = OffsetOf(x, w)
  BY <1>1, <1>2 DEF OffsetOf
<1>5. k \in Nat /\ j \in D!Index /\ k * BLOCK_SIZE + j = OffsetOf(x, w)
  BY <1>1, <1>4, OffsetFact DEF k, j
<1>6. Replaced(t, u, w, x.size_) /\ t[w] = v
  <2>1. u \in Seq(D!Cells) /\ w \in 1 .. Len(u) /\ Len(u) = x.size_
    BY <1>3, <1>4
  <2>2. Replaced(t, u, w, Len(u)) /\ t[w] = v
    BY <2>1, UpdateAt
  <2> QED
    BY <2>1, <2>2
<1> HIDE DEF w, t, offset
<1>7. /\ deque' = [deque EXCEPT ![d] = x] /\ Written(heap', heap, x.storage_[k + 1], j, t[w])
  BY <1>1, <1>2, <1>5, <1>6, WriteIs, Zenon
<1>8. SeqOf(x, heap') = t
  BY <1>1, <1>4, <1>5, <1>6, <1>7, WrittenSeq, ZenonT(60) DEF u
<1>9. \A b \in DOMAIN heap \cap DOMAIN heap' :
         b \notin D!BlocksOf(x.storage_) /\ b \notin D!BlocksOf(x.storage_) => heap'[b] = heap[b]
  <2>1. CellAt(x, heap, w, k, j)
    BY <1>1, <1>4, <1>5, CellFact
  <2>2. x.storage_[k + 1] \in D!BlocksOf(x.storage_)
    BY <2>1 DEF CellAt, D!BlocksOf
  <2> QED
    BY <1>7, <2>2 DEF Written
<1>10. D!C!Becomes(d, t)
  BY <1>7, <1>8, <1>9, OneBecomes, Zenon DEF x
<1>11. index + 1 \in 1 .. Len(u)
  BY <1>3, <1>4 DEF w
<1> QED
  BY <1>3, <1>10, <1>11 DEF D!C!Set, t

(* The sequence s is q from place a on, up to somewhere.                    *)
From(s, q, a) == \A k \in DOMAIN s : k + (a - 1) \in DOMAIN q /\ s[k] = q[k + (a - 1)]

LEMMA SubSeqAt ==
  ASSUME NEW q \in Seq(Nat), NEW a \in 1 .. 2, NEW n \in 0 .. Len(q)
  PROVE  From(SubSeq(q, a, n), q, a)
<1> DEFINE s == SubSeq(q, a, n)
<1>1. DOMAIN q = 1 .. Len(q) /\ Len(q) \in Nat /\ \A i \in a .. n : q[i] \in Nat
  OBVIOUS
<1>2. /\ s \in Seq(Nat) /\ Len(s) = (IF a <= n THEN n - a + 1 ELSE 0)
      /\ \A i \in 1 .. n - a + 1 : s[i] = q[a + i - 1]
  <2>1. a \in Int /\ n \in Int
    OBVIOUS
  <2>2. \A i \in a .. n : q[i] \in Nat
    BY <1>1
  <2>3. /\ SubSeq(q, a, n) \in Seq(Nat)
        /\ Len(SubSeq(q, a, n)) = (IF a <= n THEN n - a + 1 ELSE 0)
        /\ \A i \in 1 .. n - a + 1 : SubSeq(q, a, n)[i] = q[a + i - 1]
    BY <2>1, <2>2, SubSeqProperties
  <2> QED
    BY <2>3, Zenon
<1> HIDE DEF s
<1>3. DOMAIN s = 1 .. Len(s)
  BY <1>2
<1>4. ASSUME NEW k \in DOMAIN s PROVE k + (a - 1) \in DOMAIN q /\ s[k] = q[k + (a - 1)]
  <2>1. k \in 1 .. Len(s) /\ Len(s) = (IF a <= n THEN n - a + 1 ELSE 0) /\ Len(q) \in Nat
    BY <1>1, <1>2, <1>3
  <2> DEFINE l == Len(s)
             z == Len(q)
  <2>2. k \in 1 .. l /\ l = (IF a <= n THEN n - a + 1 ELSE 0) /\ z \in Nat /\ n \in 0 .. z
    BY <2>1
  <2> HIDE DEF l, z
  <2>3. k \in 1 .. n - a + 1 /\ a + k - 1 = k + (a - 1) /\ k + (a - 1) \in 1 .. z
    BY <2>2
  <2> QED
    BY <1>1, <1>2, <2>3, Zenon DEF z
<1> QED
  BY <1>4 DEF From, s

LEMMA SpareLen == \A x, k : Len(D!Spare(x, k)) \in 0 .. 1
<1> SUFFICES ASSUME NEW x, NEW k PROVE Len(D!Spare(x, k)) \in 0 .. 1
  OBVIOUS
<1>1. D!Spare(x, k) = <<x.storage_[Len(x.storage_)]>> \/ D!Spare(x, k) = <<>>
  BY DEF D!Spare
<1> QED
  BY <1>1

LEMMA FrontAt ==
  ASSUME NEW u \in Seq(D!Cells), NEW n \in Nat \ {0}, Len(u) = n
  PROVE  /\ u # <<>> /\ D!C!Last(u) = u[n] /\ IsList(D!C!Front(u), n - 1)
         /\ \A i \in 1 .. n - 1 : D!C!Front(u)[i] = u[i]
<1>1. u # <<>> /\ D!C!Last(u) = u[n]
  BY DEF D!C!Last
<1> DEFINE f == D!C!Front(u)
<1>2. f = SubSeq(u, 1, n - 1)
  BY DEF D!C!Front
<1> HIDE DEF f
<1>3. f \in Seq(D!Cells) /\ Len(f) = n - 1 /\ \A i \in 1 .. n - 1 : f[i] = u[i]
  BY <1>2
<1>4. IsList(f, n - 1)
  BY <1>3 DEF IsList
<1> QED
  BY <1>1, <1>3, <1>4 DEF f

LEMMA TailAt ==
  ASSUME NEW u \in Seq(D!Cells), NEW n \in Nat \ {0}, Len(u) = n
  PROVE  /\ u # <<>> /\ Head(u) = u[1] /\ IsList(Tail(u), n - 1)
         /\ \A i \in 1 .. n - 1 : Tail(u)[i] = u[i + 1]
<1> DEFINE f == Tail(u)
<1>1. u # <<>> /\ Head(u) = u[1]
  OBVIOUS
<1>2. f \in Seq(D!Cells) /\ Len(f) = n - 1 /\ \A i \in 1 .. n - 1 : f[i] = u[i + 1]
  BY <1>1
<1> HIDE DEF f
<1>3. IsList(f, n - 1)
  BY <1>2 DEF IsList
<1> QED
  BY <1>1, <1>2, <1>3 DEF f

LEMMA DeletedKeeps ==
  ASSUME NEW h, NEW s
  PROVE  \A b \in DOMAIN D!Delete(h, s) : b \in DOMAIN h /\ D!Delete(h, s)[b] = h[b]
BY DEF D!Delete

(* The blocks that stay after a pop hold what they held.                    *)
LEMMA ShiftBack ==
  ASSUME DequeInv, DequeInv', NEW d \in Deques, NEW m \in Nat,
         \A b \in DOMAIN heap' : heap'[b] = heap[b],
         \A k \in DOMAIN deque'[d].storage_ :
            /\ k + m \in DOMAIN deque[d].storage_
            /\ deque'[d].storage_[k] = deque[d].storage_[k + m]
  PROVE  Shift(deque'[d], heap', deque[d], heap, m)
<1>1. \A k \in DOMAIN deque'[d].storage_ : deque'[d].storage_[k] \in DOMAIN heap'
  BY DEF DequeInv, Owned, D!BlocksOf
<1> QED
  BY <1>1 DEF Shift

LEMMA PopBackIs ==
  ASSUME D!DequeAssumption, DequeInv, DequeInv', NEW d \in Deques, NEW v \in D!Cells,
         D!PopBack(d, v)
  PROVE  D!C!PopBack(d, v)
<1> DEFINE x == deque[d]
           n == Len(x.storage_)
           tb == x.tail_block_
           ti == x.tail_index_
           block == IF ti = 0 THEN D!Wrap(tb - 1) ELSE tb
           index == IF ti = 0 THEN BLOCK_SIZE - 1 ELSE ti - 1
           spare == D!Spare(x, block)
           s == SubSeq(x.storage_, 1, n - Len(spare))
           y == [x EXCEPT !.storage_ = s, !.size_ = @ - 1, !.tail_block_ = block, !.tail_index_ = index]
           u == SeqOf(x, heap)
           t == D!C!Front(u)
<1>1. /\ x \in DequeRecord /\ EndRight(x) /\ x.storage_ \in Seq(Nat)
      /\ D!BlocksOf(x.storage_) \subseteq DOMAIN heap
      /\ tb \in Nat /\ ti \in D!Index /\ x.head_index_ \in D!Index /\ x.size_ \in Nat
      /\ n \in Nat /\ n + 1 < SizeRange /\ \A i \in D!Index : i \in Nat
  BY DequeFacts
<1>2. /\ x.size_ # 0 /\ D!Access(d, y, block, index, D!Delete(heap, spare))
      /\ ~undefined' => v = heap[y.storage_[block + 1]][index] /\ heap' = D!Delete(heap, spare)
  <2> HIDE DEF block, index
  <2>1. y.storage_ = s
    BY <1>1, Zenon DEF DequeRecord
  <2> QED
    BY <2>1, Zenon DEF D!PopBack, D!Empty, block, index
<1>3. u \in Seq(D!Cells) /\ Len(u) = x.size_ /\ D!Contents[d] = u
  BY SeqOfType, ContentsAre
<1> HIDE DEF x, u
<1>4. /\ block \in Nat /\ block < n /\ index \in D!Index
      /\ block * BLOCK_SIZE + index = OffsetOf(x, x.size_)
  <2>1. tb * BLOCK_SIZE + ti = x.head_index_ + x.size_ /\ x.head_index_ + x.size_ <= n * BLOCK_SIZE
    BY <1>1 DEF EndRight
  <2> DEFINE e == x.head_index_ + x.size_
  <2>2. /\ e \in Nat /\ e # 0 /\ e <= n * BLOCK_SIZE /\ tb * BLOCK_SIZE + ti = e
        /\ block = IF ti = 0 THEN D!Wrap(tb - 1) ELSE tb
        /\ index = IF ti = 0 THEN BLOCK_SIZE - 1 ELSE ti - 1
        /\ e - 1 = OffsetOf(x, x.size_)
    BY <1>1, <1>2, <2>1 DEF OffsetOf
  <2> HIDE DEF n, tb, ti, e, block, index
  <2>3. block \in Nat /\ block < n /\ index \in D!Index /\ block * BLOCK_SIZE + index = e - 1
    BY <1>1, <2>2, BeforeEnd
  <2> QED
    BY <2>2, <2>3
<1>5. y.storage_ = s /\ y.size_ = x.size_ - 1 /\ y.head_index_ = x.head_index_
  <2> HIDE DEF s, block, index
  <2> QED
    BY <1>1 DEF DequeRecord
<1> HIDE DEF y, block, index
<1>6. /\ block < Len(y.storage_) /\ deque' = [deque EXCEPT ![d] = y] /\ ~undefined'
  BY <1>2 DEF D!Access, DequeInv
<1>7. deque'[d] = y /\ y \in DequeRecord /\ EndRight(y)
  <2>1. deque'[d] = y
    BY <1>6 DEF DequeInv
  <2> QED
    BY <2>1 DEF DequeInv
<1>8. \A b \in DOMAIN heap' : heap'[b] = heap[b]
  BY <1>2, <1>6, DeletedKeeps
<1>9. \A k \in DOMAIN y.storage_ :
        k + 0 \in DOMAIN x.storage_ /\ y.storage_[k] = x.storage_[k + 0]
  <2>1. Len(spare) \in 0 .. 1 /\ n # 0
    <3>1. Len(spare) \in 0 .. 1
      BY SpareLen
    <3> HIDE DEF n, spare
    <3> QED
      BY <1>1, <1>4, <3>1
  <2>2. n - Len(spare) \in 0 .. Len(x.storage_)
    <3> HIDE DEF spare
    <3>1. n \in Nat /\ n # 0 /\ Len(spare) \in 0 .. 1
      BY <1>1, <2>1
    <3> DEFINE z == Len(spare)
    <3> HIDE DEF n, z
    <3>2. n - z \in 0 .. n
      BY <3>1 DEF z
    <3> QED
      BY <3>2 DEF n, z
  <2> HIDE DEF n, spare
  <2>3. From(s, x.storage_, 1)
    BY <1>1, <2>2, SubSeqAt
  <2> HIDE DEF s
  <2> QED
    BY <1>5, <2>3 DEF From
<1> HIDE DEF s, n, spare
<1>10. SeqOf(y, heap') = t
  <2>1. IsList(t, y.size_) /\ \A i \in 1 .. y.size_ : t[i] = u[i]
    BY <1>1, <1>2, <1>3, <1>5, FrontAt
  <2> HIDE DEF t
  <2>2. ASSUME NEW i \in 1 .. y.size_ PROVE SeqOf(y, heap')[i] = t[i]
    <3>1. i \in 1 .. x.size_ /\ OffsetOf(x, i) = OffsetOf(y, i) + 0 * BLOCK_SIZE
      BY <1>1, <1>5, <1>7, SameOffset
    <3>2. Shift(y, heap', x, heap, 0)
      BY <1>7, <1>8, <1>9, ShiftBack DEF x
    <3> QED
      BY <1>1, <1>7, <2>1, <3>1, <3>2, Shifted DEF u
  <2> QED
    BY <2>1, <2>2, SameSeq
<1>11. v = D!C!Last(u) /\ u # <<>>
  <2>1. x.size_ \in 1 .. x.size_
    BY <1>1, <1>2
  <2>2. CellAt(x, heap, x.size_, block, index)
    BY <1>1, <1>4, <2>1, CellFact
  <2>3. block + 1 \in DOMAIN y.storage_
    BY <1>4, <1>6, <1>7 DEF DequeRecord
  <2>4. y.storage_[block + 1] = x.storage_[block + 1]
    BY <1>4, <1>9, <2>3
  <2>5. v = u[x.size_]
    BY <1>2, <1>6, <2>2, <2>4 DEF CellAt, u
  <2> QED
    BY <1>1, <1>2, <1>3, <2>5, FrontAt
<1>12. D!C!Becomes(d, t)
  BY <1>6, <1>8, <1>10, OneBecomes, Zenon
<1> QED
  BY <1>3, <1>11, <1>12 DEF D!C!PopBack
LEMMA PopFrontIs ==
  ASSUME D!DequeAssumption, DequeInv, DequeInv', NEW d \in Deques, NEW v \in D!Cells,
         D!PopFront(d, v)
  PROVE  D!C!PopFront(d, v)
<1> DEFINE x == deque[d]
           n == Len(x.storage_)
           hd == x.head_index_
           used == IF hd + 1 >= BLOCK_SIZE THEN <<x.storage_[1]>> ELSE <<>>
           m == Len(used)
           s == SubSeq(x.storage_, 1 + m, n)
           head == IF used = <<>> THEN hd + 1 ELSE 0
           y == [x EXCEPT !.storage_ = s, !.size_ = @ - 1, !.head_index_ = head,
                          !.tail_block_ = D!Wrap(@ - m)]
           u == SeqOf(x, heap)
           t == Tail(u)
<1>1. /\ x \in DequeRecord /\ EndRight(x) /\ x.storage_ \in Seq(Nat)
      /\ hd \in D!Index /\ x.size_ \in Nat /\ n \in Nat /\ \A i \in D!Index : i \in Nat
  BY DequeFacts
<1>2. /\ x.size_ # 0 /\ heap' = D!Delete(heap, used) /\ deque' = [deque EXCEPT ![d] = y]
      /\ v = heap[x.storage_[1]][hd]
  BY DEF D!PopFront, D!Empty
<1>3. u \in Seq(D!Cells) /\ Len(u) = x.size_ /\ D!Contents[d] = u
  BY SeqOfType, ContentsAre
<1> HIDE DEF x, u, n
<1>4. y.storage_ = s /\ y.size_ = x.size_ - 1 /\ y.head_index_ = head
  <2> HIDE DEF s, head, m
  <2> QED
    BY <1>1 DEF DequeRecord
<1> HIDE DEF y
<1>5. deque'[d] = y /\ y \in DequeRecord /\ EndRight(y)
  <2>1. deque'[d] = y
    BY <1>2 DEF DequeInv
  <2> QED
    BY <2>1 DEF DequeInv
<1>6. \A b \in DOMAIN heap' : heap'[b] = heap[b]
  BY <1>2, DeletedKeeps
<1>7. CellAt(x, heap, 1, 0, hd)
  <2>1. 0 * BLOCK_SIZE = 0 /\ hd \in Nat
    <3>1. BLOCK_SIZE \in Nat /\ hd \in Nat
      BY <1>1, BlockSums, Zenon
    <3> QED
      BY <3>1
  <2>2. 1 \in 1 .. x.size_ /\ 0 \in Nat /\ 0 * BLOCK_SIZE + hd = OffsetOf(x, 1)
    BY <1>1, <1>2, <2>1 DEF OffsetOf
  <2> QED
    BY <1>1, <2>2, CellFact
<1>8. m \in 0 .. 1 /\ hd + 1 = head + m * BLOCK_SIZE
  <2>1. BLOCK_SIZE \in Nat \ {0} /\ hd \in 0 .. BLOCK_SIZE - 1
    BY <1>1, BlockSums DEF D!Index
  <2>2. 0 * BLOCK_SIZE = 0 /\ 1 * BLOCK_SIZE = BLOCK_SIZE
    BY <2>1
  <2>3. CASE hd + 1 >= BLOCK_SIZE
    <3>1. m = 1 /\ head = 0
      BY <2>3
    <3> HIDE DEF m, head
    <3> QED
      BY <2>1, <2>2, <2>3, <3>1
  <2>4. CASE ~(hd + 1 >= BLOCK_SIZE)
    <3>1. m = 0 /\ head = hd + 1
      BY <2>4
    <3> HIDE DEF m, head
    <3> QED
      BY <2>1, <2>2, <3>1
  <2> QED
    BY <2>3, <2>4
<1> HIDE DEF m, head
<1>9. \A k \in DOMAIN y.storage_ :
        k + m \in DOMAIN x.storage_ /\ y.storage_[k] = x.storage_[k + m]
  <2>1. 1 + m \in 1 .. 2 /\ n \in 0 .. Len(x.storage_) /\ (1 + m) - 1 = m
    BY <1>1, <1>8 DEF n
  <2>2. From(s, x.storage_, 1 + m)
    BY <1>1, <2>1, SubSeqAt
  <2> HIDE DEF s
  <2> QED
    BY <1>4, <2>1, <2>2 DEF From
<1> HIDE DEF s, used
<1>10. SeqOf(y, heap') = t
  <2>1. IsList(t, y.size_) /\ \A i \in 1 .. y.size_ : t[i] = u[i + 1]
    BY <1>1, <1>2, <1>3, <1>4, TailAt
  <2> HIDE DEF t
  <2>2. ASSUME NEW i \in 1 .. y.size_ PROVE SeqOf(y, heap')[i] = t[i]
    <3>1. OffsetOf(x, i + 1) = OffsetOf(y, i) + m * BLOCK_SIZE
      <4> DEFINE q == m * BLOCK_SIZE
      <4>1. q \in Nat /\ hd + 1 = head + q /\ hd \in Nat /\ y.head_index_ = head /\ head \in Int
        <5>1. head \in D!Index
          BY <1>4, <1>5 DEF DequeRecord
        <5>2. q \in Nat
          <6>1. m \in Nat
            BY <1>8
          <6> QED
            BY <6>1, BlockSums, Zenon
        <5> QED
          BY <1>1, <1>4, <1>8, <5>1, <5>2
      <4> HIDE DEF q
      <4>2. OffsetOf(x, i + 1) = OffsetOf(y, i) + q
        BY <4>1 DEF OffsetOf
      <4> QED
        BY <4>2 DEF q
    <3>2. Shift(y, heap', x, heap, m)
      BY <1>5, <1>6, <1>8, <1>9, ShiftBack DEF x
    <3>3. i + 1 \in 1 .. x.size_ /\ m \in Nat
      BY <1>1, <1>4, <1>8
    <3> QED
      BY <1>1, <1>5, <2>1, <3>1, <3>2, <3>3, Shifted DEF u
  <2> QED
    BY <2>1, <2>2, SameSeq
<1>11. v = Head(u) /\ u # <<>>
  <2>1. v = u[1]
    BY <1>2, <1>7 DEF CellAt, u
  <2> QED
    BY <1>1, <1>2, <1>3, <2>1, TailAt
<1>12. D!C!Becomes(d, t)
  BY <1>2, <1>6, <1>10, OneBecomes, Zenon
<1> QED
  BY <1>3, <1>11, <1>12 DEF D!C!PopFront

LEMMA NothingIs == \A x, h : x.size_ = 0 => SeqOf(x, h) = <<>>
<1> SUFFICES ASSUME NEW x, NEW h, x.size_ = 0 PROVE SeqOf(x, h) = <<>>
  OBVIOUS
<1>1. SeqOf(x, h) = [i \in 1 .. x.size_ |-> SeqOf(x, h)[i]]
  BY DEF SeqOf
<1>2. 1 .. 0 = {}
  OBVIOUS
<1> QED
  BY <1>1, <1>2

LEMMA ClearIs ==
  ASSUME D!DequeAssumption, DequeInv, DequeInv', NEW d \in Deques, D!Clear(d) \/ D!Construct(d)
  PROVE  D!C!Clear(d)
<1>1. CASE D!Clear(d)
  <2> DEFINE x == [D!EmptyDeque EXCEPT !.storage_ = deque[d].storage_]
  <2>1. deque' = [deque EXCEPT ![d] = x] /\ heap' = heap
    BY <1>1 DEF D!Clear
  <2>2. x.size_ = 0
    BY DEF D!EmptyDeque
  <2> HIDE DEF x
  <2>3. SeqOf(x, heap') = <<>>
    BY <2>2, NothingIs
  <2>4. D!C!Becomes(d, <<>>)
    BY <2>1, <2>3, OneBecomes, Zenon
  <2> QED
    BY <2>4 DEF D!C!Clear
<1>2. CASE D!Construct(d)
  <2>1. deque' = [deque EXCEPT ![d] = D!EmptyDeque] /\ heap' = D!Delete(heap, deque[d].storage_)
    BY <1>2 DEF D!Construct, D!Become, D!Rest
  <2>2. D!EmptyDeque.size_ = 0
    BY DEF D!EmptyDeque
  <2>3. SeqOf(D!EmptyDeque, heap') = <<>>
    BY <2>2, NothingIs
  <2>4. \A b \in DOMAIN heap' : heap'[b] = heap[b]
    BY <2>1, DeletedKeeps
  <2>5. D!C!Becomes(d, <<>>)
    BY <2>1, <2>3, <2>4, OneBecomes, Zenon
  <2> QED
    BY <2>5 DEF D!C!Clear
<1> QED
  BY <1>1, <1>2

(* What a deque with new blocks finds in them, and what the others keep.    *)
LEMMA NewCells ==
  ASSUME DequeInv, NEW d \in Deques, NEW n \in Nat, NEW cells, NEW s,
         s = D!NewBlocks(n, D!Rest(d)), heap' = D!Allocate(D!Rest(d), s, cells)
  PROVE  /\ Len(s) = n /\ s \in Seq(Nat) /\ \A k \in DOMAIN s : heap'[s[k]] = cells[k]
         /\ \A b \in DOMAIN heap : b \notin D!BlocksOf(deque[d].storage_) => heap'[b] = heap[b]
<1> DEFINE h == D!Rest(d)
<1>1. DequeHeap(h) /\ DOMAIN h = DOMAIN heap \ D!BlocksOf(deque[d].storage_)
  BY RestFact
<1>2. \A b \in DOMAIN h : h[b] = heap[b]
  BY DeletedKeeps DEF D!Rest
<1>3. Len(s) = n /\ s \in Seq(Nat) /\ Distinct(s) /\ D!BlocksOf(s) \cap DOMAIN h = {}
  BY <1>1, NewBlocksFact DEF DequeHeap
<1> HIDE DEF h
<1>4. heap' = D!Allocate(h, s, cells)
  BY DEF h
<1>5. \A k \in DOMAIN s : (CHOOSE l \in DOMAIN s : s[l] = s[k]) = k
  BY <1>3 DEF Distinct
<1>6. ASSUME NEW k \in DOMAIN s PROVE heap'[s[k]] = cells[k]
  <2>1. s[k] \in D!BlocksOf(s) /\ s[k] \notin DOMAIN h
    BY <1>3 DEF D!BlocksOf
  <2> QED
    BY <1>4, <1>5, <2>1 DEF D!Allocate
<1>7. \A b \in DOMAIN h : heap'[b] = heap[b]
  BY <1>2, <1>4 DEF D!Allocate
<1> QED
  BY <1>1, <1>3, <1>6, <1>7

LEMMA ConstructFromIs ==
  ASSUME D!DequeAssumption, DequeInv, DequeInv', NEW d \in Deques, NEW list \in InitLists,
         D!ConstructFrom(d, list)
  PROVE  D!C!Assign(d, list)
<1> DEFINE n == Len(list)
           needed == (n + BLOCK_SIZE - 1) \div BLOCK_SIZE
           exact == n % BLOCK_SIZE = 0 /\ n # 0
           s == D!NewBlocks(needed, D!Rest(d))
           value(j) == IF j < n THEN list[j + 1] ELSE Unwritten
           cells == [k \in 1 .. needed |-> [i \in D!Index |-> value((k - 1) * BLOCK_SIZE + i)]]
           block == IF exact THEN needed ELSE D!Wrap(needed - 1)
           index == IF exact THEN BLOCK_SIZE ELSE n % BLOCK_SIZE
           x == [storage_ |-> s, head_index_ |-> 0, size_ |-> n, tail_block_ |-> block,
                 tail_index_ |-> index]
<1>1. deque' = [deque EXCEPT ![d] = x] /\ heap' = D!Allocate(D!Rest(d), s, cells)
  BY DEF D!ConstructFrom, D!Become
<1>2. BLOCK_SIZE \in Nat \ {0} /\ list \in Seq(Values) /\ n \in Nat
  BY DEF D!DequeAssumption
<1>3. needed \in Nat
  <2> HIDE DEF n
  <2> QED
    BY <1>2
<1>4. x.storage_ = s /\ x.size_ = n /\ x.head_index_ = 0
  OBVIOUS
<1> HIDE DEF needed, cells, x, value, n
<1>5. /\ Len(s) = needed /\ s \in Seq(Nat) /\ \A k \in DOMAIN s : heap'[s[k]] = cells[k]
      /\ \A b \in DOMAIN heap : b \notin D!BlocksOf(deque[d].storage_) => heap'[b] = heap[b]
  BY <1>1, <1>3, NewCells
<1> HIDE DEF s
<1>6. x \in DequeRecord /\ EndRight(x)
  <2>1. deque'[d] = x
    BY <1>1 DEF DequeInv
  <2> QED
    BY <2>1 DEF DequeInv
<1>7. IsList(list, x.size_)
  <2>1. list = [i \in 1 .. Len(list) |-> list[i]]
    BY <1>2
  <2> QED
    BY <1>4, <2>1 DEF IsList, n
<1>8. ASSUME NEW i \in 1 .. x.size_ PROVE SeqOf(x, heap')[i] = list[i]
  <2> DEFINE k == OffsetOf(x, i) \div BLOCK_SIZE
             j == OffsetOf(x, i) % BLOCK_SIZE
  <2>1. k \in Nat /\ j \in D!Index /\ k * BLOCK_SIZE + j = OffsetOf(x, i)
    BY <1>6, OffsetFact
  <2> HIDE DEF k, j
  <2>2. CellAt(x, heap', i, k, j)
    BY <1>6, <2>1, CellFact
  <2>3. k + 1 \in DOMAIN s /\ k + 1 \in 1 .. needed /\ (k + 1) - 1 = k
    BY <1>4, <1>5, <2>1, <2>2 DEF CellAt
  <2>4. heap'[s[k + 1]] = cells[k + 1]
    BY <1>5, <2>3
  <2>5. cells[k + 1][j] = value(((k + 1) - 1) * BLOCK_SIZE + j)
    BY <2>1, <2>3 DEF cells
  <2>6. SeqOf(x, heap')[i] = value(OffsetOf(x, i))
    BY <1>4, <2>1, <2>2, <2>3, <2>4, <2>5 DEF CellAt
  <2>7. OffsetOf(x, i) = i - 1 /\ i - 1 < n /\ (i - 1) + 1 = i
    BY <1>2, <1>4 DEF OffsetOf
  <2> QED
    BY <2>6, <2>7 DEF value
<1>9. SeqOf(x, heap') = list
  BY <1>7, <1>8, SameSeq
<1>10. D!C!Becomes(d, list)
  BY <1>1, <1>5, <1>9, OneBecomes, Zenon
<1> QED
  BY <1>10 DEF D!C!Assign

LEMMA CopyIs ==
  ASSUME D!DequeAssumption, DequeInv, DequeInv', NEW d \in Deques, NEW o \in Deques,
         D!CopyConstruct(d, o) \/ D!CopyAssign(d, o)
  PROVE  D!C!Copy(d, o)
<1> DEFINE y == deque[o]
           n == Len(y.storage_)
           s == D!NewBlocks(n, D!Rest(d))
           cells == [k \in DOMAIN y.storage_ |-> heap[y.storage_[k]]]
           x == [y EXCEPT !.storage_ = s]
<1>1. y \in DequeRecord /\ EndRight(y) /\ n \in Nat /\ y.storage_ \in Seq(Nat) /\ y.size_ \in Nat
  BY DequeFacts
<1>2. D!Contents[o] = SeqOf(y, heap)
  BY ContentsAre
<1> HIDE DEF y
<1>3. CASE D!CopyAssign(d, o)
  <2>1. deque' = [deque EXCEPT ![d] = x] /\ heap' = D!Allocate(D!Rest(d), s, cells)
    BY <1>3 DEF D!CopyAssign, D!CopyOf, D!Become, y
  <2>2. x.storage_ = s /\ x.size_ = y.size_ /\ x.head_index_ = y.head_index_
    <3> HIDE DEF s
    <3> QED
      BY <1>1 DEF DequeRecord
  <2> HIDE DEF x, cells, n
  <2>3. /\ Len(s) = n /\ s \in Seq(Nat) /\ \A k \in DOMAIN s : heap'[s[k]] = cells[k]
        /\ \A b \in DOMAIN heap : b \notin D!BlocksOf(deque[d].storage_) => heap'[b] = heap[b]
    BY <1>1, <2>1, NewCells
  <2> HIDE DEF s
  <2>4. x \in DequeRecord /\ EndRight(x)
    <3>1. deque'[d] = x
      BY <2>1 DEF DequeInv
    <3> QED
      BY <3>1 DEF DequeInv
  <2>5. Shift(y, heap, x, heap', 0)
    <3>1. \A k \in DOMAIN y.storage_ : k + 0 = k /\ k \in DOMAIN s
      BY <1>1, <2>3 DEF n
    <3> QED
      BY <2>2, <2>3, <3>1, Zenon DEF Shift, cells
  <2>6. SeqOf(x, heap') = SeqOf(y, heap)
    <3>1. IsList(SeqOf(y, heap), x.size_)
      BY <2>2 DEF SeqOf, IsList
    <3>2. ASSUME NEW i \in 1 .. x.size_ PROVE SeqOf(x, heap')[i] = SeqOf(y, heap)[i]
      <4>1. i \in 1 .. y.size_ /\ OffsetOf(x, i) = OffsetOf(y, i) + 0 * BLOCK_SIZE
        BY <1>1, <2>2, <2>4, SameOffset
      <4> QED
        BY <1>1, <2>4, <2>5, <4>1, Shifted
    <3> QED
      BY <3>1, <3>2, SameSeq
  <2>7. D!C!Becomes(d, SeqOf(y, heap))
    BY <2>1, <2>3, <2>6, OneBecomes, Zenon
  <2> QED
    BY <1>2, <2>7 DEF D!C!Copy
<1>4. CASE ~D!CopyAssign(d, o)
  <2>1. D!Construct(d) /\ y.size_ = 0
    BY <1>4 DEF D!CopyConstruct, D!Empty, y
  <2>2. SeqOf(y, heap) = <<>>
    BY <2>1, NothingIs
  <2> QED
    BY <1>2, <2>1, <2>2, ClearIs DEF D!C!Clear, D!C!Copy
<1> QED
  BY <1>3, <1>4

(* A deque that keeps its members and the contents of its blocks.           *)
LEMMA KeptSeq ==
  ASSUME D!DequeAssumption, NEW x \in DequeRecord, EndRight(x), NEW h, NEW g,
         \A b \in D!BlocksOf(x.storage_) : g[b] = h[b]
  PROVE  SeqOf(x, g) = SeqOf(x, h)
<1>1. \A i \in 1 .. x.size_ : OffsetOf(x, i) \div BLOCK_SIZE + 1 \in DOMAIN x.storage_
  BY OffsetFact
<1>2. \A i \in 1 .. x.size_ : SeqOf(x, g)[i] = SeqOf(x, h)[i]
  BY <1>1 DEF SeqOf, D!BlocksOf
<1>3. IsList(SeqOf(x, h), x.size_)
  BY DEF SeqOf, IsList
<1> QED
  BY <1>2, <1>3, SameSeq

LEMMA SwapIs ==
  ASSUME D!DequeAssumption, DequeInv, DequeInv', NEW d \in Deques, NEW o \in Deques, D!Swap(d, o)
  PROVE  D!C!Swap(d, o)
<1>1. deque' = [deque EXCEPT ![d] = deque[o], ![o] = deque[d]] /\ heap' = heap
  BY DEF D!Swap
<1>2. /\ D!Contents = [e \in Deques |-> SeqOf(deque[e], heap)]
      /\ D!Contents' = [e \in Deques |-> SeqOf(deque'[e], heap')]
  BY ContentsAre
<1>3. \A e \in Deques : deque'[e] = IF e = o THEN deque[d] ELSE IF e = d THEN deque[o] ELSE deque[e]
  BY <1>1 DEF DequeInv
<1>4. \A e \in Deques :
        D!Contents'[e] = IF e = o THEN D!Contents[d] ELSE IF e = d THEN D!Contents[o]
                         ELSE D!Contents[e]
  <2> SUFFICES ASSUME NEW e \in Deques
               PROVE  SeqOf(deque'[e], heap')
                        = IF e = o THEN SeqOf(deque[d], heap)
                          ELSE IF e = d THEN SeqOf(deque[o], heap) ELSE SeqOf(deque[e], heap)
    BY <1>2
  <2>1. SeqOf(deque'[e], heap') = SeqOf(deque'[e], heap)
    BY <1>1
  <2> QED
    BY <1>3, <2>1
<1>5. D!Contents' = [D!Contents EXCEPT ![d] = D!Contents[o], ![o] = D!Contents[d]]
  BY <1>2, <1>4
<1> QED
  BY <1>5 DEF D!C!Swap

LEMMA MoveConstructIs ==
  ASSUME D!DequeAssumption, DequeInv, DequeInv', NEW d \in Deques, NEW o \in Deques,
         D!MoveConstruct(d, o)
  PROVE  D!C!Move(d, o)
<1>1. /\ d # o /\ deque' = [deque EXCEPT ![d] = deque[o], ![o] = D!EmptyDeque]
      /\ heap' = D!Delete(heap, deque[d].storage_)
  BY DEF D!MoveConstruct, D!Rest
<1>2. /\ D!Contents = [e \in Deques |-> SeqOf(deque[e], heap)]
      /\ D!Contents' = [e \in Deques |-> SeqOf(deque'[e], heap')]
  BY ContentsAre
<1>3. \A e \in Deques :
        deque'[e] = IF e = o THEN D!EmptyDeque ELSE IF e = d THEN deque[o] ELSE deque[e]
  BY <1>1 DEF DequeInv
<1>4. ASSUME NEW e \in Deques, e # d PROVE SeqOf(deque[e], heap') = SeqOf(deque[e], heap)
  <2>1. /\ deque[e] \in DequeRecord /\ EndRight(deque[e])
        /\ D!BlocksOf(deque[e].storage_) \subseteq DOMAIN heap
        /\ D!BlocksOf(deque[e].storage_) \cap D!BlocksOf(deque[d].storage_) = {}
    BY <1>4, Zenon DEF DequeInv, Owned
  <2>2. \A b \in D!BlocksOf(deque[e].storage_) : heap'[b] = heap[b]
    BY <1>1, <2>1 DEF D!Delete
  <2> QED
    BY <2>1, <2>2, KeptSeq
<1>5. SeqOf(D!EmptyDeque, heap') = <<>>
  BY NothingIs DEF D!EmptyDeque
<1>6. \A e \in Deques :
        D!Contents'[e] = IF e = o THEN <<>> ELSE IF e = d THEN D!Contents[o] ELSE D!Contents[e]
  BY <1>1, <1>2, <1>3, <1>4, <1>5, Zenon
<1>7. D!Contents' = [D!Contents EXCEPT ![d] = D!Contents[o], ![o] = <<>>]
  BY <1>2, <1>6
<1> QED
  BY <1>7 DEF D!C!Move

LEMMA DequeStepIs ==
  ASSUME D!DequeAssumption, DequeInv, DequeInv' PROVE D!DequeStep
<1> SUFFICES ASSUME NEW d \in Deques
             PROVE  /\ \A v \in D!Cells :
                         /\ D!PushBack(d, v) => D!C!PushBack(d, v)
                         /\ D!PushFront(d, v) => D!C!PushFront(d, v)
                         /\ D!PopBack(d, v) => D!C!PopBack(d, v)
                         /\ D!PopFront(d, v) => D!C!PopFront(d, v)
                         /\ \A i \in 0 .. SizeBound - 1 : D!SetAt(d, i, v) => D!C!Set(d, i + 1, v)
                    /\ D!Clear(d) \/ D!Construct(d) => D!C!Clear(d)
                    /\ \A list \in InitLists : D!ConstructFrom(d, list) => D!C!Assign(d, list)
                    /\ \A o \in Deques :
                         /\ D!Swap(d, o) => D!C!Swap(d, o)
                         /\ D!CopyConstruct(d, o) \/ D!CopyAssign(d, o) => D!C!Copy(d, o)
                         /\ D!MoveConstruct(d, o) => D!C!Move(d, o)
  BY DEF D!DequeStep
<1>1. \A i \in 0 .. SizeBound - 1 : i \in Nat
  BY DEF D!DequeAssumption
<1>2. ASSUME NEW v \in D!Cells
      PROVE  /\ D!PushBack(d, v) => D!C!PushBack(d, v)
             /\ D!PushFront(d, v) => D!C!PushFront(d, v)
             /\ D!PopBack(d, v) => D!C!PopBack(d, v)
             /\ D!PopFront(d, v) => D!C!PopFront(d, v)
             /\ \A i \in 0 .. SizeBound - 1 : D!SetAt(d, i, v) => D!C!Set(d, i + 1, v)
  BY <1>1, PushBackIs, PushFrontIs, PopBackIs, PopFrontIs, SetAtIs
<1>3. /\ D!Clear(d) \/ D!Construct(d) => D!C!Clear(d)
      /\ \A list \in InitLists : D!ConstructFrom(d, list) => D!C!Assign(d, list)
  BY ClearIs, ConstructFromIs
<1>4. \A o \in Deques :
        /\ D!Swap(d, o) => D!C!Swap(d, o)
        /\ D!CopyConstruct(d, o) \/ D!CopyAssign(d, o) => D!C!Copy(d, o)
        /\ D!MoveConstruct(d, o) => D!C!Move(d, o)
  BY SwapIs, CopyIs, MoveConstructIs
<1> QED
  BY <1>2, <1>3, <1>4

LEMMA DequeStarts == ASSUME D!DequeAssumption PROVE D!Init => D!C!Init
<1> SUFFICES ASSUME D!Init PROVE D!C!Init
  OBVIOUS
<1>1. DequeInv
  BY DequeInvInit
<1>2. \A d \in Deques : deque[d].size_ = 0
  BY DEF D!Init, D!EmptyDeque
<1>3. D!Contents = [d \in Deques |-> SeqOf(deque[d], heap)]
  BY <1>1, ContentsAre
<1>4. \A d \in Deques : SeqOf(deque[d], heap) = <<>>
  BY <1>2, NothingIs
<1> QED
  BY <1>3, <1>4 DEF D!C!Init

(* For every number of deques, block size and bound: every call of the      *)
(* deque has the result of the call of the same name on a sequence, changes *)
(* the sequence as that does, and leaves every other deque's alone          *)
(* (deque.h:18-282); again for lists that do not fill their last block.     *)
THEOREM DequesImplemented == ASSUME ListsInexact PROVE Spec => DequeImplements
<1>1. D!DequeAssumption
  BY ContainersAssumption
<1>2. (Init => DequeInv) /\ (DequeInv /\ [Next]_vars => DequeInv')
  BY DequeInvAlways
<1>3. Init => D!C!Init
  BY <1>1, DequeStarts DEF Init
<1>4. DequeInv /\ DequeInv' /\ [Next]_vars => [using = "Deque" => D!DequeStep]_vars
  BY <1>1, DequeStepIs
<1> QED
  BY <1>2, <1>3, <1>4, PTL DEF Spec, DequeImplements
=============================================================================
