-------------------------------- MODULE Simd --------------------------------
(****************************************************************************)
(* The tasks written with vector instructions, which are modelled lane by   *)
(* lane as Intel's manual has them, on narrower vectors: sse_search.h (a    *)
(* word has WORD bytes, 8 in the code, and a chunk two words), avx_vector.h *)
(* (LANES lanes, 16 in the code) and avx_matmul.h (BLOCK lanes, 8 in the    *)
(* code; a product is symbolic, so that a sum tells its terms and their     *)
(* order, in which floating-point sums differ).                             *)
(* An operator named X_Y is a slip Y in X that the properties must notice.  *)
(****************************************************************************)
EXTENDS Integers, Sequences, FiniteSets, SequencesExt

CONSTANTS WORD, LANES, BLOCK

CHUNK == 2 * WORD
HALF == WORD \div 2

-----------------------------------------------------------------------------
(* SseSearch.  Bytes are indexed from 0.                                    *)

(* _mm_mpsadbw_epu8(chunk, pat, 0x0F or 0xF0): is lane j's sum zero, that   *)
(* is, do HALF bytes of the chunk from j + shift on equal the word's?       *)
SadIsZero(chunk, word, shift, j) ==
    \A k \in 0 .. HALF - 1 : chunk[shift + j + k] = word[shift + k]

(* The set bits of mask, as offsets.                                        *)
Mask(chunk, word) ==
    {j \in 0 .. WORD - 1 : SadIsZero(chunk, word, HALF, j) /\ SadIsZero(chunk, word, 0, j)}

Chunk(str, i) == [k \in 0 .. CHUNK - 1 |-> str[i + k]]

(* memcpy and memset: the tail of the text and zeros.                       *)
Tail0(str, size, i) == [k \in 0 .. CHUNK - 1 |-> IF i + k < size THEN str[i + k] ELSE 0]

(* The places whose chunks the loop looks at, and the tail's.               *)
LoopStarts(size) == IF size < CHUNK THEN {} ELSE {i \in 0 .. size - CHUNK : i % WORD = 0}
TailStart(size) == WORD * Cardinality(LoopStarts(size))

InText_Always(pos, size) == TRUE

(* if (pos + 8 > size) continue;                                            *)
InText(pos, size) == pos + WORD <= size

(* The calls of cb, in order; it returns false from the `last`-th call on.  *)
SseSearch(str, size, word, last) ==
    LET Hits(i, chunk) == {i + j : j \in {j \in Mask(chunk, word) : InText(i + j, size)}}
        loop == UNION {Hits(i, Chunk(str, i)) : i \in LoopStarts(size)}
        tail == IF TailStart(size) < size
                  THEN Hits(TailStart(size), Tail0(str, size, TailStart(size))) ELSE {}
        calls == SetToSortSeq(loop, <) \o SetToSortSeq(tail, <)
    IN  IF size < WORD THEN <<>>
        ELSE SubSeq(calls, 1, IF last < Len(calls) THEN last ELSE Len(calls))

(* cb gets every place of the word in the text, in order and once, also     *)
(* where two chunks meet and at the end, until it asks to stop.             *)
SseExact(str, size, word, last) ==
    LET places == SetToSortSeq({p \in 0 .. size - WORD :
                                  \A k \in 0 .. WORD - 1 : str[p + k] = word[k]}, <)
    IN  SseSearch(str, size, word, last)
          = SubSeq(places, 1, IF last < Len(places) THEN last ELSE Len(places))

-----------------------------------------------------------------------------
(* AvxVector.  permutexvar takes an index modulo the number of lanes.       *)

Lanes == 0 .. LANES - 1
Permute(vec, index) == [l \in Lanes |-> vec[index[l] % LANES]]

ins_shift_mask_FromIdx(idx) == {l \in Lanes : l >= idx}

(* init_masks: ins_shift_mask and erase_shift_mask.                         *)
ins_shift_mask(idx) == {l \in Lanes : l >= idx + 1}
erase_shift_mask(idx) == {l \in Lanes : l >= idx}

Insert(vec, idx, elem) ==
    LET new_index == [l \in Lanes |-> IF l \in ins_shift_mask(idx) THEN l - 1 ELSE l]
    IN  [Permute(vec, new_index) EXCEPT ![idx] = elem]

Set(vec, idx, elem) == [vec EXCEPT ![idx] = elem]

Erase(vec, idx) ==
    LET new_index == [l \in Lanes |-> IF l \in erase_shift_mask(idx) THEN l + 1 ELSE l]
    IN  [Permute(vec, new_index) EXCEPT ![LANES - 1] = 0]

(* The vector as a sequence.                                                *)
Unpack(vec) == [k \in 1 .. LANES |-> vec[k - 1]]

(* insert and erase move the elements from idx on by one place, drop the    *)
(* one that is pushed out and fill with a zero.                             *)
AvxExact(vec, idx, elem) ==
    /\ Unpack(Insert(vec, idx, elem)) = Front(InsertAt(Unpack(vec), idx + 1, elem))
    /\ Unpack(Set(vec, idx, elem)) = ReplaceAt(Unpack(vec), idx + 1, elem)
    /\ Unpack(Erase(vec, idx)) = Append(RemoveAt(Unpack(vec), idx + 1), 0)

-----------------------------------------------------------------------------
(* AvxMatmul<M, N, K>.                                                      *)

Blocks(N) == (N + BLOCK - 1) \div BLOCK

(* b_t: the second matrix transposed in blocks of columns; a cell is the    *)
(* element of b it holds, or "zero".                                        *)
b_t(N, K) ==
    [cell \in 0 .. Blocks(N) * K * BLOCK - 1 |->
        LET b == cell \div (K * BLOCK)
            k == (cell \div BLOCK) % K
            j == b * BLOCK + (cell % BLOCK)
        IN  IF j < N THEN <<j * K + k>> ELSE <<"zero">>]

(* Lane t of `sum` for row i and block b, the products in order.            *)
LaneSum(N, K, i, b, t) ==
    [k \in 1 .. K |-> <<i * K + k - 1, b_t(N, K)[(b * K + k - 1) * BLOCK + t]>>]

(* What is stored: all lanes of a full block, the first ones of the last.   *)
Stored(N, b) == {t \in 0 .. BLOCK - 1 : N - b * BLOCK >= BLOCK \/ t < N - b * BLOCK}

AvxMatmul(M, N, K) ==
    UNION {{<<i * N + b * BLOCK + t, LaneSum(N, K, i, b, t)>> : t \in Stored(N, b)} :
             i \in 0 .. M - 1, b \in 0 .. Blocks(N) - 1}

(* Every cell of the product is written, no other, and gets the sum of the  *)
(* products of a's row and b's row (b comes transposed), in order.          *)
MatmulExact(M, N, K) ==
    AvxMatmul(M, N, K)
      = {<<i * N + j, [k \in 1 .. K |-> <<i * K + k - 1, <<j * K + k - 1>>>>]>> :
           i \in 0 .. M - 1, j \in 0 .. N - 1}
=============================================================================
