----------------------------- MODULE CompileTime -----------------------------
(****************************************************************************)
(* The programs that the compiler runs: fixstr-utils/fixstr.h, which writes *)
(* numbers and fills formats, and tuple-utils/tuple.h, whose tuples of      *)
(* types are sequences here.  A string is a sequence of characters, a digit *)
(* is its number; a placeholder is the two characters "{" and "}".          *)
(* An operator named X_Y is a slip Y in X that the properties must notice.  *)
(****************************************************************************)
EXTENDS Integers, Sequences, SequencesExt

CONSTANTS
    IntMax,         \* the greatest value of the number's type
    Uninit          \* a character that nothing was written to

-----------------------------------------------------------------------------
(* IntToFixstr<val>, for every val but the least of a signed type, which    *)
(* has no negation (the compiler rejects it).                               *)

Minus == -1     \* the character

Abs(val) == IF val < 0 THEN -val ELSE val
Sign(val) == IF val < 0 THEN 1 ELSE 0

number_length_NoZero(val) ==
    LET digits[v \in 0 .. IntMax] == IF v = 0 THEN 0 ELSE 1 + digits[v \div 10]
    IN  Sign(val) + digits[Abs(val)]

number_length(val) ==
    LET digits[v \in 0 .. IntMax] == IF v = 0 THEN 0 ELSE 1 + digits[v \div 10]
    IN  (IF val = 0 THEN 1 ELSE 0) + Sign(val) + digits[Abs(val)]

(* Character k, from the end, is the k-th remainder.                        *)
number_to_str(val) ==
    LET len == number_length(val)
        quotient[k \in 0 .. len] == IF k = 0 THEN Abs(val) ELSE quotient[k - 1] \div 10
    IN  [c \in 1 .. len |-> IF c <= Sign(val) THEN Minus ELSE quotient[len - c] % 10]

-----------------------------------------------------------------------------
(* Format<k_format_str, k_args...>, for a format with a placeholder for     *)
(* every argument.                                                          *)

formatted_str_len(format, args) == Len(format) + Len(FlattenSeq(args)) - 2 * Len(args)

(* The lambda: the text up to the placeholder, then the argument; v is the  *)
(* place in the format.                                                     *)
Insert(format, done, arg) ==
    LET brace == CHOOSE k \in done.v .. Len(format) :
                    format[k] = "{" /\ \A j \in done.v .. k - 1 : format[j] # "{"
    IN  [data |-> done.data \o SubSeq(format, done.v, brace - 1) \o arg, v |-> brace + 2]

(* What follows the last placeholder is not copied.                         *)
Format(format, args) ==
    LET written == FoldLeft(LAMBDA done, arg : Insert(format, done, arg),
                            [data |-> <<>>, v |-> 1], args).data
    IN  IF args = <<>> THEN format
        ELSE [c \in 1 .. formatted_str_len(format, args) |->
                IF c <= Len(written) THEN written[c] ELSE Uninit]

-----------------------------------------------------------------------------
(* tuple.h: Concat folds pairs, InterleaveTuples recurses on the tails.     *)

Concat(tuples) == FoldLeft(LAMBDA a, b : a \o b, <<>>, tuples)

InterleaveTuples(a, b) ==
    LET from[k \in 1 .. Len(a) + Len(b) + 1] ==
          IF k > Len(a) THEN SubSeq(b, k, Len(b))
          ELSE IF k > Len(b) THEN SubSeq(a, k, Len(a))
          ELSE Concat(<< <<a[k], b[k]>>, from[k + 1] >>)
    IN  from[1]

-----------------------------------------------------------------------------
(* The string denotes the number, without a leading zero.                   *)
NumberExact(val) ==
    LET str == number_to_str(val)
        digits == SubSeq(str, Sign(val) + 1, Len(str))
    IN  /\ Len(digits) > 0 /\ (Len(digits) > 1 => digits[1] # 0)
        /\ FoldLeft(LAMBDA n, d : 10 * n + d, 0, digits) = Abs(val)
        /\ val < 0 <=> str[1] = Minus

(* A format, or what is to be made of it: every piece of text is followed  *)
(* by a placeholder or by its argument, and then there is the tail.         *)
Filled(pieces, between, tail) ==
    FlattenSeq([k \in DOMAIN pieces |-> pieces[k] \o between[k]]) \o tail

Formatted(pieces, tail, args) ==
    Format(Filled(pieces, [k \in DOMAIN pieces |-> <<"{", "}">>], tail), args)

(* The text of the format, with the arguments for the placeholders.         *)
FormatExact(pieces, tail, args) == Formatted(pieces, tail, args) = Filled(pieces, args, tail)

(* The same for its length and for everything up to the last argument.      *)
FormatFills(pieces, tail, args) ==
    LET text == Formatted(pieces, tail, args)
        expected == Filled(pieces, args, tail)
    IN  /\ Len(text) = Len(expected)
        /\ \A c \in DOMAIN text :
             \/ text[c] = expected[c]
             \/ args # <<>> /\ c > Len(expected) - Len(tail)

(* The elements alternate as long as both tuples have one; the rest of the  *)
(* longer one follows; none is lost.                                        *)
InterleaveExact(a, b) ==
    LET both == IF Len(a) < Len(b) THEN Len(a) ELSE Len(b)
    IN  InterleaveTuples(a, b) = [k \in 1 .. Len(a) + Len(b) |->
            IF k > 2 * both THEN (IF Len(a) > both THEN a ELSE b)[k - both]
            ELSE IF k % 2 = 1 THEN a[(k + 1) \div 2] ELSE b[k \div 2]]
=============================================================================
