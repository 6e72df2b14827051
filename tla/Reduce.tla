------------------------------- MODULE Reduce --------------------------------
(****************************************************************************)
(* src/tasks/reduce/reduce.h: a fold whose range is cut into blocks, one    *)
(* for each thread, and whose partial results are folded at the end.        *)
(*                                                                          *)
(* The data.  The elements are 1 .. length, the initial value is 0, and a   *)
(* value is the sequence of what has been folded into it: func is           *)
(* concatenation, which is associative and forgets nothing, so that two     *)
(* results agree for every associative func when they agree here.           *)
(* An operator named X_Y is a slip Y in X that the properties must notice.  *)
(****************************************************************************)
EXTENDS Integers, Sequences

CONSTANTS
    Lengths,        \* the lengths that are tried
    HwThreads,      \* the values of hardware_concurrency() that are tried
    UnsignedRange   \* 2^32: how many values an unsigned int has

(* What the constants must satisfy.                                         *)
ReduceAssumption ==
    Lengths \subseteq Nat /\ HwThreads \subseteq Nat /\ UnsignedRange \in Nat \ {0}

VARIABLES
    length, hw,         \* the input
    thread_cnt, i, start,
    blocks,             \* blocks[w]: what worker w captured: start and end
    it,                 \* it[w]: worker w's iterator
    accumulated,        \* accumulated[w]
    partial_results,
    wpc,                \* wpc[w]: where worker w is
    pc,                 \* where the caller is
    res

vars == <<length, hw, thread_cnt, i, start, blocks, it, accumulated,
          partial_results, wpc, pc, res>>

Initial == <<0>>
Elements(from, to) == [k \in 1 .. to - from |-> from + k]
Spawned == DOMAIN blocks

Init ==
    /\ length \in Lengths /\ hw \in HwThreads
    /\ thread_cnt = 0 /\ i = 0 /\ start = 0
    /\ blocks = <<>> /\ it = <<>> /\ accumulated = <<>> /\ wpc = <<>>
    /\ partial_results = <<>>
    /\ pc = "begin"
    /\ res = <<>>

(* std::min(hardware_concurrency() / 2, static_cast<unsigned int>(length))  *)
ThreadCnt(hw_threads, len) ==
    IF hw_threads \div 2 < len % UnsignedRange
      THEN hw_threads \div 2 ELSE len % UnsignedRange

Caller(from, to) == pc = from /\ pc' = to

Begin_EmptyRangeToo ==
    /\ Caller("begin", IF ThreadCnt(hw, length) = 0 THEN "crashed" ELSE "spawn")
    /\ thread_cnt' = ThreadCnt(hw, length)
    /\ partial_results' = [w \in 1 .. thread_cnt' |-> <<>>]
    /\ UNCHANGED <<length, hw, i, start, blocks, it, accumulated, wpc, res>>

(* The empty range; the division by thread_cnt, which kills the process     *)
(* when it is 0; the vectors.                                               *)
Begin ==
    /\ Caller("begin", IF length = 0 THEN "returned"
                       ELSE IF ThreadCnt(hw, length) = 0 THEN "crashed" ELSE "spawn")
    /\ thread_cnt' = ThreadCnt(hw, length)
    /\ partial_results' = [w \in 1 .. thread_cnt' |-> <<>>]
    /\ res' = IF length = 0 THEN Initial ELSE res
    /\ UNCHANGED <<length, hw, i, start, blocks, it, accumulated, wpc>>

(* The first length % thread_cnt blocks are one longer.                     *)
BlockSize(k) ==
    (length \div thread_cnt) + (IF k < length % thread_cnt THEN 1 ELSE 0)

(* One turn of the loop in lines 23-43; workers are numbered from 1.        *)
Spawn ==
    /\ i < thread_cnt
    /\ Caller("spawn", "spawn")
    /\ blocks' = Append(blocks, [start |-> start, end |-> start + BlockSize(i)])
    /\ it' = Append(it, start)
    /\ accumulated' = Append(accumulated, <<>>)
    /\ wpc' = Append(wpc, "begin")
    /\ start' = start + BlockSize(i)
    /\ i' = i + 1
    /\ UNCHANGED <<length, hw, thread_cnt, partial_results, res>>

(* A worker: the first takes the initial value, the others their first      *)
(* element; then element by element; then the cell of partial_results.      *)
WorkerBegin_Initial(w) ==
    /\ wpc[w] = "begin"
    /\ accumulated' = [accumulated EXCEPT ![w] = Initial]
    /\ UNCHANGED it
    /\ wpc' = [wpc EXCEPT ![w] = "loop"]
    /\ UNCHANGED <<length, hw, thread_cnt, i, start, blocks, partial_results, pc, res>>

WorkerBegin(w) ==
    /\ wpc[w] = "begin"
    /\ \/ /\ w = 1
          /\ accumulated' = [accumulated EXCEPT ![w] = Initial]
          /\ UNCHANGED it
       \/ /\ w # 1
          /\ accumulated' = [accumulated EXCEPT ![w] = <<it[w] + 1>>]
          /\ it' = [it EXCEPT ![w] = @ + 1]
    /\ wpc' = [wpc EXCEPT ![w] = "loop"]
    /\ UNCHANGED <<length, hw, thread_cnt, i, start, blocks, partial_results, pc, res>>

WorkerFold(w) ==
    /\ wpc[w] = "loop" /\ it[w] # blocks[w].end
    /\ accumulated' = [accumulated EXCEPT ![w] = Append(@, it[w] + 1)]
    /\ it' = [it EXCEPT ![w] = @ + 1]
    /\ UNCHANGED <<length, hw, thread_cnt, i, start, blocks, partial_results, wpc, pc, res>>

WorkerEnd(w) ==
    /\ wpc[w] = "loop" /\ it[w] = blocks[w].end
    /\ partial_results' = [partial_results EXCEPT ![w] = accumulated[w]]
    /\ wpc' = [wpc EXCEPT ![w] = "gone"]
    /\ UNCHANGED <<length, hw, thread_cnt, i, start, blocks, it, accumulated, pc, res>>

Worker(w) == WorkerBegin(w) \/ WorkerFold(w) \/ WorkerEnd(w)

(* All joined, the partial results are folded in the order of the blocks.   *)
Join ==
    /\ i = thread_cnt /\ \A w \in Spawned : wpc[w] = "gone"
    /\ Caller("spawn", "fold")
    /\ res' = partial_results[1]
    /\ i' = 1
    /\ UNCHANGED <<length, hw, thread_cnt, start, blocks, it, accumulated, partial_results, wpc>>

Fold ==
    /\ i < thread_cnt
    /\ Caller("fold", "fold")
    /\ res' = res \o partial_results[i + 1]
    /\ i' = i + 1
    /\ UNCHANGED <<length, hw, thread_cnt, start, blocks, it, accumulated, partial_results, wpc>>

Finish ==
    /\ i = thread_cnt
    /\ Caller("fold", "returned")
    /\ UNCHANGED <<length, hw, thread_cnt, i, start, blocks, it, accumulated, partial_results, wpc, res>>

Next ==
    \/ Begin \/ Spawn \/ Join \/ Fold \/ Finish
    \/ \E w \in Spawned : Worker(w)
    \/ pc = "returned" /\ UNCHANGED vars

Spec == Init /\ [][Next]_vars /\ WF_vars(Next)

-----------------------------------------------------------------------------
(* Whatever the threads do when, the caller gets the left fold of the whole *)
(* range: the initial value once and every element once, in order.          *)
FoldsAll == pc = "returned" => res = Initial \o Elements(0, length)

(* A worker stays inside its block, the blocks are disjoint and none is     *)
(* empty: the first element that lines 33-34 read unasked is there.         *)
BlocksApart ==
    /\ \A w \in Spawned : blocks[w].start < blocks[w].end /\ blocks[w].end <= length
    /\ \A v, w \in Spawned : v < w => blocks[v].end <= blocks[w].start

(* Reduce returns.                                                          *)
Returns == <>(pc = "returned")
=============================================================================
