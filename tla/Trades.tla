------------------------------- MODULE Trades -------------------------------
(****************************************************************************)
(* src/tasks/trades: TradeReader, which reads records from a stream until   *)
(* it ends, and TradeIndex, which answers what was traded from one time to  *)
(* another from sums over the sorted trades.                                *)
(*                                                                          *)
(* A record has RecordSize bytes; a stream holds whole records, perhaps a   *)
(* part of one behind them, and fails after `good` bytes (a file that was   *)
(* never opened: at once; SizeMax: never).  istream::read is the standard's.*)
(* An operator named X_Y is a slip Y in X that the properties must notice.  *)
(****************************************************************************)
EXTENDS Integers, Sequences, FiniteSets, SequencesExt

CONSTANTS
    Streams,        \* the streams that are tried: [records, part, good]
    RecordSize,
    NoTrade,        \* what a read that fails leaves in `trade`
    SizeMax,        \* greater than any file
    IntRange,       \* 2^64: how many values an int64_t has
    Undefined,      \* what a program computes in which an int64_t overflowed
    ReadBound       \* the bound on what ReadAll collects before TLC stops

(* A file holds whole records, then perhaps a part of one.                  *)
TradesAssumption ==
    /\ RecordSize \in Nat \ {0} /\ IntRange \in Nat /\ Undefined \notin Int
    /\ \A s \in Streams :
         /\ s.records \in Seq({s.records[k] : k \in DOMAIN s.records})
         /\ s.part \in 0 .. RecordSize - 1 /\ s.good \in Nat

VARIABLES
    stream,         \* the file, with its position
    state,          \* eofbit, failbit and badbit that are set
    trades,         \* ReadAll's vector
    rpc

vars == <<stream, state, trades, rpc>>

Size(s) == Len(s.records) * RecordSize + s.part

Init ==
    /\ \E s \in Streams : stream = [file |-> s, at |-> 0]
    /\ state = {}
    /\ trades = <<>>
    /\ rpc = "read"

(* read(&trade, RecordSize): nothing unless the stream is good; then the    *)
(* record, or as much of it as is there (eofbit and failbit), or what came  *)
(* before the device failed (badbit).                                       *)
Reads(s, bits) ==
    LET want == s.at + RecordSize
        size == Size(s.file)
    IN  IF bits # {} THEN [at |-> s.at, bits |-> bits \union {"fail"}, got |-> NoTrade]
        ELSE IF s.file.good < want /\ s.file.good <= size
          THEN [at |-> s.file.good, bits |-> {"bad"}, got |-> NoTrade]
        ELSE IF size < want
          THEN [at |-> size, bits |-> {"eof", "fail"}, got |-> NoTrade]
        ELSE [at |-> want, bits |-> {}, got |-> s.file.records[want \div RecordSize]]

ReadNext_PartToo(read) == read.bits # {} /\ read.at = stream.at

(* ReadNext returns std::nullopt at eof, and only then.                     *)
ReadNext(read) == "eof" \in read.bits

(* A turn of ReadAll's loop.                                                *)
ReadAll ==
    /\ rpc = "read" /\ Len(trades) < ReadBound
    /\ LET read == Reads(stream, state) IN
       /\ stream' = [stream EXCEPT !.at = read.at]
       /\ state' = read.bits
       /\ IF ReadNext(read)
            THEN rpc' = "returned" /\ UNCHANGED trades
            ELSE trades' = Append(trades, read.got) /\ UNCHANGED rpc

Next == ReadAll

-----------------------------------------------------------------------------
(* TradeIndex.  A sum or a product that no int64_t holds is undefined       *)
(* behaviour (the sanitizer build ends there), and so is all that follows.  *)

Int64s == -(IntRange \div 2) .. IntRange \div 2 - 1

Int64(n) == IF n \in Int64s THEN n ELSE Undefined

Added(x, y) == IF Undefined \in {x, y} THEN Undefined ELSE Int64(x + y)

(* The constructor: the trades in order of time, equal times in the order   *)
(* given, and the sums of the first i trades for every i.                   *)
Earlier(ts, i, j) ==
    \/ ts[i].timestamp < ts[j].timestamp
    \/ ts[i].timestamp = ts[j].timestamp /\ i < j

Place(ts, i) == Cardinality({j \in DOMAIN ts : Earlier(ts, j, i)}) + 1

trades_(ts) == [k \in DOMAIN ts |-> ts[CHOOSE i \in DOMAIN ts : Place(ts, i) = k]]

pref_sum_(sorted) ==
    LET sum[i \in 0 .. Len(sorted)] ==
            IF i = 0 THEN 0 ELSE Added(sum[i - 1], Int64(sorted[i].price * sorted[i].volume))
    IN  sum

(* std::lower_bound: an iterator, counted from begin().                     *)
lower_bound_Upper(sorted, time) ==
    Cardinality({k \in DOMAIN sorted : sorted[k].timestamp <= time})

lower_bound(sorted, time) ==
    Cardinality({k \in DOMAIN sorted : sorted[k].timestamp < time})

(* TotalVolume, for from <= to; it throws otherwise.                        *)
TotalVolume(ts, from, to) ==
    LET sorted == trades_(ts)
        sums == pref_sum_(sorted)
    IN  IF sums[Len(ts)] = Undefined THEN Undefined
        ELSE Int64(sums[lower_bound(sorted, to)] - sums[lower_bound(sorted, from)])

-----------------------------------------------------------------------------
(* What the trades i of a part were worth.                                  *)
SumOver(ts, part) ==
    LET sum[i \in 0 .. Len(ts)] ==
            IF i = 0 THEN 0
            ELSE IF i \in part THEN sum[i - 1] + ts[i].price * ts[i].volume
            ELSE sum[i - 1]
    IN  sum[Len(ts)]

(* The sum over the trades in [from, to), as readme.md defines it.          *)
Volume(ts, from, to) ==
    SumOver(ts, {i \in DOMAIN ts : from <= ts[i].timestamp /\ ts[i].timestamp < to})

(* An int64_t holds what each trade was worth, and all up to each of them.  *)
SumsFit(ts) ==
    \A i \in DOMAIN ts :
        /\ ts[i].price * ts[i].volume \in Int64s
        /\ SumOver(ts, {j \in DOMAIN ts : j = i \/ Earlier(ts, j, i)}) \in Int64s

(* The index gives the sum over the trades from one time up to another for  *)
(* trades in any order, if an int64_t holds that sum: always, as readme.md  *)
(* has it; and for trades whose running sums fit.                           *)
VolumeFits(ts, from, to) ==
    Volume(ts, from, to) \in Int64s => TotalVolume(ts, from, to) = Volume(ts, from, to)

IndexExact(ts, from, to) == SumsFit(ts) => VolumeFits(ts, from, to)

(* When ReadAll returns, it returns the whole records of the file, in       *)
(* order, and not what was left of one at the end; until then it has read   *)
(* a beginning of them, unless the stream has failed.                       *)
RecordsRead ==
    /\ rpc = "returned" => trades = stream.file.records
    /\ state \subseteq {"eof"} => IsPrefix(trades, stream.file.records)
=============================================================================
