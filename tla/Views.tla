-------------------------------- MODULE Views --------------------------------
(****************************************************************************)
(* Small tasks.  short_view.h: a view whose size is kept in the high        *)
(* bits of its pointer.  byte_order.h: the bytes of a number, reversed.     *)
(* reverse_vector.h: a vector patched so that data[-1] is its last element. *)
(* A pointer has PTR_BITS significant bits (48 in the code) and SIZE_BITS   *)
(* (16) above them, which a valid pointer has equal to its top bit.         *)
(* An operator named X_Y is a slip Y in X that the properties must notice.  *)
(****************************************************************************)
EXTENDS Integers, Sequences, SequencesExt

CONSTANTS PTR_BITS, SIZE_BITS

MASK_ALL_ONES == 2^PTR_BITS - 1
MASK_FIRST16_ONES == (2^SIZE_BITS - 1) * 2^PTR_BITS

(* & and |: a word is the set of its bits that are one.                     *)
Ones(n) == {k \in 0 .. PTR_BITS + SIZE_BITS - 1 : (n \div 2^k) % 2 = 1}
Word(ones) == MapThenSumSet(LAMBDA k : 2^k, ones)
And(m, n) == Word(Ones(m) \intersect Ones(n))
Or(m, n) == Word(Ones(m) \union Ones(n))

(* data_, from a pointer and a size.                                        *)
ShortView(data, size) == Or(size * 2^PTR_BITS, data)

Size(data_) == data_ \div 2^PTR_BITS

Data_Unsigned(data_) == And(data_, MASK_ALL_ONES)

Data(data_) ==
    LET p == And(data_, MASK_ALL_ONES)
    IN  IF And(p, 2^(PTR_BITS - 1)) # 0 THEN Or(p, MASK_FIRST16_ONES) ELSE p

(* The pointers of a program: those of the lower half of the addresses; the *)
(* upper half is the kernel's.                                              *)
IsPointer(p) == p < 2^(PTR_BITS - 1) \/ p >= MASK_FIRST16_ONES + 2^(PTR_BITS - 1)
InLowerHalf(p) == p < 2^(PTR_BITS - 1)

(* The loop of swaps over the first half of buff.                           *)
ChangeByteOrder(bytes) ==
    LET n == Len(bytes)
        Swap(buff, i) == [buff EXCEPT ![i] = buff[n - i + 1], ![n - i + 1] = buff[i]]
    IN  FoldLeft(Swap, bytes, [i \in 1 .. n \div 2 |-> i])

(* ReverseVector: the vector's two pointers, moved behind its elements, and *)
(* what they were; ~ReverseVector, which moves the pointers of data back;   *)
(* and data[index], whose size_t index wraps.                               *)
ReverseVector(v) ==
    [data_ |-> [start_ |-> v.end_, end_ |-> v.end_ + (v.end_ - v.start_)],
     original_start_ |-> v.start_, original_end_ |-> v.end_]
Destroyed(rev) == [rev.data_ EXCEPT !.start_ = rev.original_start_, !.end_ = rev.original_end_]
At(v, index) == (v.start_ + index) % 2^(PTR_BITS + SIZE_BITS)

-----------------------------------------------------------------------------
(* A ShortView gives back any valid pointer; it gives back the size too if  *)
(* the pointer is of the lower half (in the constructor the ones above a    *)
(* pointer of the upper half would cover the size).                         *)
ShortViewExact(data, size) ==
    LET view == ShortView(data, size)
    IN  IsPointer(data) => /\ Data(view) = data
                           /\ InLowerHalf(data) => Size(view) = size

(* The bytes are reversed, the middle one of an odd number stays.           *)
ByteOrderExact(bytes) == ChangeByteOrder(bytes) = Reverse(bytes)

(* While rev lives, data[-i] is the i-th element from the end of the vector *)
(* that was, and size() is what it was; after that data is what it was.     *)
ReverseExact(v) ==
    LET rev == ReverseVector(v) IN
    /\ \A i \in 1 .. v.end_ - v.start_ :
         At(rev.data_, 2^(PTR_BITS + SIZE_BITS) - i) = v.end_ - i
    /\ rev.data_.end_ - rev.data_.start_ = v.end_ - v.start_
    /\ Destroyed(rev) = v
=============================================================================
