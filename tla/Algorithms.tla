----------------------------- MODULE Algorithms -----------------------------
(* One program for the algorithms: it runs one of them, chosen at the       *)
(* start, to the end.  The stepwise ones have variables of their own; the   *)
(* others are functions, of which Inputs gives the inputs.                  *)
EXTENDS Integers, Sequences

CONSTANTS
    Lengths, HwThreads, UnsignedRange,              \* Reduce
    Commands, Wild, NoNumber, SizeMax,              \* Grep
    Loops, SizeRange,                               \* Itertools
    Streams, RecordSize, NoTrade, ReadBound, IntRange, Undefined,   \* Trades
    Inputs,                                         \* Inputs[f]: those of function f
    None                                            \* no input

VARIABLES
    job, input,
    length, hw, thread_cnt, i, start, blocks, it, accumulated, partial_results, wpc, pc, res,
    command, arg, entry, open_files, mappings, pos, matches, reports, gpc, status,
    loop, cursor, out, ipc,
    stream, state, trades, rpc

R == INSTANCE Reduce
G == INSTANCE Grep
L == INSTANCE Itertools WITH it <- cursor
T == INSTANCE Trades

ASSUME AlgorithmsAssumption ==
    R!ReduceAssumption /\ G!GrepAssumption /\ L!ItertoolsAssumption /\ T!TradesAssumption

reduce == <<length, hw, thread_cnt, i, start, blocks, it, accumulated, partial_results, wpc,
            pc, res>>
grep == <<command, arg, entry, open_files, mappings, pos, matches, reports, gpc, status>>
forLoop == <<loop, cursor, out, ipc>>
readAll == <<stream, state, trades, rpc>>
vars == <<job, input, reduce, grep, forLoop, readAll>>

-----------------------------------------------------------------------------
(* The stepwise ones that are not run have one input and never move.        *)
IdleLength == CHOOSE n \in Lengths : TRUE
IdleHw == CHOOSE n \in HwThreads : TRUE
IdleCommand == CHOOSE c \in Commands : TRUE
IdleLoop == CHOOSE l \in Loops : TRUE
IdleStream == CHOOSE s \in Streams : TRUE

Init ==
    /\ job \in {"Reduce", "Grep", "Itertools", "Trades"} \union DOMAIN Inputs
    /\ job # "Reduce" => length = IdleLength /\ hw = IdleHw
    /\ job # "Grep" => command = IdleCommand
    /\ job # "Itertools" => loop = IdleLoop
    /\ job # "Trades" => stream = [file |-> IdleStream, at |-> 0]
    /\ R!Init /\ G!Init /\ L!Init /\ T!Init
    /\ IF job \in DOMAIN Inputs THEN input \in Inputs[job] ELSE input = None

Stopped ==
    CASE job = "Reduce" -> pc = "returned"
      [] job = "Grep" -> gpc = "exit"
      [] job = "Itertools" -> ipc = "left"
      [] job = "Trades" -> rpc = "returned" \/ Len(trades) = ReadBound
      [] OTHER -> TRUE

Next ==
    /\ UNCHANGED <<job, input>>
    /\ \/ job = "Reduce" /\ R!Next /\ UNCHANGED <<grep, forLoop, readAll>>
       \/ job = "Grep" /\ G!Next /\ UNCHANGED <<reduce, forLoop, readAll>>
       \/ job = "Itertools" /\ L!Next /\ UNCHANGED <<reduce, grep, readAll>>
       \/ job = "Trades" /\ T!Next /\ UNCHANGED <<reduce, grep, forLoop>>
       \/ Stopped /\ UNCHANGED vars

(* Each program runs until it has returned; nothing in it waits, except     *)
(* Reduce for its workers, which the system runs.                           *)
Spec == Init /\ [][Next]_vars /\ WF_vars(Next)

-----------------------------------------------------------------------------
(* Reduce: whatever the threads do when, the caller gets the left fold of   *)
(* the whole range: the initial value once and every element once, in order.*)
FoldsAll == job = "Reduce" => R!FoldsAll

(* bin-grep reports what it is to report, whichever search it uses and      *)
(* whatever fails: see Grep.tla.                                            *)
GrepReports == job = "Grep" => G!GrepReports

(* bin-grep leaves no descriptor and no mapping behind.                     *)
FilesReleased == job = "Grep" => G!FilesReleased

(* readme.md of bgrep: "bgrep should throw exceptions only for incorrect    *)
(* patterns, otherwise report them via OnError method".                     *)
ThrowsForPatternsOnly == job = "Grep" => G!ThrowsForPatternsOnly

(* A for loop over a Range, a Group or a Zip sees what it should, and       *)
(* ReadAll reads every whole record of a file.                              *)
LoopsExact ==
    /\ job = "Itertools" => L!LoopsExact
    /\ job = "Trades" => T!RecordsRead

(* Every program returns: Reduce, bin-grep and the loops always, ReadAll    *)
(* for a stream that does not fail before its end.                          *)
Returns ==
    <>CASE job = "Reduce" -> pc = "returned"
        [] job = "Grep" -> gpc = "exit"
        [] job = "Itertools" -> ipc = "left"
        [] job = "Trades" -> rpc = "returned" \/ "bad" \in state
        [] OTHER -> TRUE
=============================================================================
