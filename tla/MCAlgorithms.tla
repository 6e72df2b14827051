---------------------------- MODULE MCAlgorithms -----------------------------
(* The inputs of the program of Algorithms, and its functions.              *)
EXTENDS Algorithms, FiniteSets, SequencesExt

CONSTANTS
    LEN_BITS,               \* FuzzySearch
    WORD, LANES, BLOCK,     \* Simd
    nullptr,                \* StaticMap
    PTR_BITS, SIZE_BITS,    \* Views
    IntMax, Uninit          \* CompileTime

F == INSTANCE FuzzySearch
S == INSTANCE Simd
M == INSTANCE StaticMap
V == INSTANCE Views
C == INSTANCE CompileTime

-----------------------------------------------------------------------------
(* The inputs.                                                              *)

UpTo(n, set) == UNION {[1 .. k -> set] : k \in 0 .. n}

(* Grep.  Every short file with every short pattern and every option; and   *)
(* every directory of up to two entries of every sort, with another file    *)
(* behind it.                                                               *)
Byte(n) == [size |-> 2, value |-> n, means |-> <<n>>]
BadTokens == {[size |-> 1, value |-> 0, means |-> <<>>], [size |-> 2, value |-> NoNumber, means |-> <<>>]}
Unspaced == {[size |-> 4, value |-> 1, means |-> <<0, 1>>], [size |-> 4, value |-> 0, means |-> <<0, Wild>>]}
Entry(data, fails, stuck) == [data |-> data, fails |-> fails, stuck |-> stuck]
Argument(entries) == [entries |-> entries, unreadable |-> FALSE]

OneFile ==
    [algo : {"brute", "boyer-moore"}, offset : 0 .. 2, matches : 0 .. 2,
     pattern : UpTo(2, {Wild, Byte(0), Byte(1)}) \ {<<>>},
     args : {<<Argument(<<Entry(d, "none", FALSE)>>)>> : d \in UpTo(3, {0, 1})}]

Sorts ==
    {Entry(<<0, 1, 0>>, fails, FALSE) : fails \in {"none", "open", "stat", "map", "unmap"}}
      \union {Entry(<<0>>, "none", FALSE), Entry(<<0, 0>>, "map", TRUE)}

Trees ==
    [algo : {"brute", "boyer-moore"}, offset : {0, 1}, matches : {0, 1},
     pattern : {<<Byte(0)>>, <<Wild, Byte(1)>>} \union {<<Byte(0), t>> : t \in BadTokens}
                 \union {<<t>> : t \in Unspaced},
     args : {<<a>> \o b : a \in {Argument(e) : e \in UpTo(2, Sorts)}
                                  \union {[entries |-> <<>>, unreadable |-> TRUE]},
                          b \in {<<>>} \union {<<Argument(<<e>>)>> : e \in Sorts}}]

AllCommands == OneFile \union Trees

(* The commands for which the program throws and readme.md has it report:   *)
(* those with a directory that may not be read, and those with two bytes    *)
(* that no space separates.                                                 *)
Spaced == {c \in Trees : \A k \in DOMAIN c.pattern : c.pattern[k] \notin Unspaced}
WithoutSpaces ==
    {[c EXCEPT !.pattern = <<t>>] : c \in {f \in OneFile : f.pattern = <<Wild>>}, t \in Unspaced}
MeantCommands == Spaced \union WithoutSpaces

(* Itertools.  No number of a Range and no step from it wraps.              *)
Vector(items) == [kind |-> "Vector", items |-> items]
Numbers(from, to, step) == [kind |-> "Range", from |-> from, to |-> to, step |-> step]

Sequences1 ==
    {Vector(v) : v \in UpTo(3, {1, 2})}
      \union {Numbers(f, t, s) : f \in {0, 1, 4}, t \in {0, 3, 5}, s \in 1 .. 3}

AllLoops ==
    {Numbers(f, t, s) : f, t \in 0 .. 5, s \in 1 .. 3}
      \union [kind : {"Group"}, over : {Vector(v) : v \in UpTo(5, {1, 2})}]
      \union [kind : {"Zip"}, first : Sequences1, second : Sequences1]

(* Trades.  Up to three records and a part of a fourth; the device fails at *)
(* any byte, or never.                                                      *)
AllStreams ==
    [records : {[k \in 1 .. n |-> k] : n \in 0 .. 3}, part : 0 .. RecordSize - 1,
     good : 0 .. 4 * RecordSize \union {SizeMax}]

(* Up to three pieces of text, each before a placeholder; the text behind   *)
(* the last one; and the arguments.                                         *)
Formats ==
    {f \in UpTo(3, UpTo(2, {"t"})) \X UpTo(1, {"t"}) \X UpTo(3, UpTo(2, {"a", "b"})) :
       Len(f[1]) = Len(f[3])}

Functions1 == {"TradeIndex", "FuzzySearch", "SseSearch", "AvxVector", "AvxMatmul", "StaticMap",
               "ShortView", "ByteOrder", "ReverseVector", "IntToFixstr", "Format", "Interleave"}

AllInputs ==
  [j \in Functions1 |->
    CASE j = "TradeIndex" ->
           [trades : UpTo(3, [timestamp : 0 .. 2, price : {-1, 3}, volume : {1, 3}]),
            range : {r \in (0 .. 3) \X (0 .. 3) : r[1] <= r[2]}]
      [] j = "FuzzySearch" -> [items : UpTo(3, 0 .. 2^LEN_BITS - 1), x : 0 .. 2^LEN_BITS - 1]
      [] j = "SseSearch" ->
           [str : UNION {[0 .. n - 1 -> {0, 1}] : n \in 0 .. 10},
            word : {[k \in 0 .. WORD - 1 |-> w[k + 1]] : w \in
                      {<<0, 0, 0, 0>>, <<0, 1, 0, 1>>, <<0, 1, 1, 0>>, <<1, 1, 0, 0>>}},
            last : {1, 2, SizeMax}]
      [] j = "AvxVector" -> 0 .. LANES - 1
      [] j = "AvxMatmul" -> (1 .. 2) \X (1 .. 5) \X (1 .. 3)
      [] j = "StaticMap" -> [items : UpTo(3, [first : 1 .. 3, second : {"x", "y"}]), key : 0 .. 4]
      [] j = "ShortView" -> [data : 0 .. 2^(PTR_BITS + SIZE_BITS) - 1, size : 0 .. 2^SIZE_BITS - 1]
      [] j = "ByteOrder" -> {[k \in 1 .. n |-> k] : n \in 1 .. 8}
      [] j = "ReverseVector" -> {v \in [start_ : 1 .. 10, end_ : 1 .. 10] : v.start_ <= v.end_}
      [] j = "IntToFixstr" -> -IntMax .. IntMax
      [] j = "Format" -> Formats
      [] j = "Interleave" ->
           {<<[k \in 1 .. m |-> k], [k \in 1 .. n |-> -k]>> : m, n \in 0 .. 4}]

(* The inputs of two functions for which readme.md has an answer and the    *)
(* code may have another: trades of which each one alone fits an int64_t,   *)
(* and formats with a text behind the last placeholder.                     *)
DocumentedInputs ==
  [j \in {"TradeIndex", "Format"} |->
    IF j = "Format" THEN Formats
    ELSE [trades : UpTo(3, [timestamp : 0 .. 2, price : {-1, 3}, volume : {1, 2}]),
          range : {r \in (0 .. 3) \X (0 .. 3) : r[1] <= r[2]}]]

-----------------------------------------------------------------------------
(* The functions give what their definitions ask, for every input: the      *)
(* index over trades, the fuzzy search, the search for a word, the vector   *)
(* of lanes and the product, the map, the packed view, the bytes and the    *)
(* vector reversed, the number and the format written, the tuples mixed.    *)
AnswersExact ==
    CASE job = "TradeIndex" -> T!IndexExact(input.trades, input.range[1], input.range[2])
      [] job = "FuzzySearch" -> F!FuzzyExact(input.items, input.x)
      [] job = "SseSearch" ->
           S!SseExact(input.str, Cardinality(DOMAIN input.str), input.word, input.last)
      [] job = "AvxVector" -> S!AvxExact([l \in S!Lanes |-> <<l>>], input, <<LANES>>)
      [] job = "AvxMatmul" -> S!MatmulExact(input[1], input[2], input[3])
      [] job = "StaticMap" -> M!MapExact(input.items, input.key)
      [] job = "ShortView" -> V!ShortViewExact(input.data, input.size)
      [] job = "ByteOrder" -> V!ByteOrderExact(input)
      [] job = "ReverseVector" -> V!ReverseExact(input)
      [] job = "IntToFixstr" -> C!NumberExact(input)
      [] job = "Format" -> C!FormatFills(input[1], input[2], input[3])
      [] job = "Interleave" -> C!InterleaveExact(input[1], input[2])
      [] OTHER -> TRUE

(* The readme of trades: TotalVolume "calculates sum of `price * volume`    *)
(* for all trades with `from <= timestamp < to`", whatever else was traded; *)
(* and that of fixstr-utils: Format "basically implements `fmt::format`'s   *)
(* analogue", so that all of the text is there.                             *)
AnswersAsDocumented ==
    CASE job = "TradeIndex" -> T!VolumeFits(input.trades, input.range[1], input.range[2])
      [] job = "Format" -> C!FormatExact(input[1], input[2], input[3])
      [] OTHER -> TRUE
=============================================================================
