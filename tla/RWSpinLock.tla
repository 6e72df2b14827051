----------------------------- MODULE RWSpinLock ------------------------------
(****************************************************************************)
(* src/tasks/rw-spinlock/rw_spinlock.h: a readers-writer lock in one atomic *)
(* int, whose lowest bit is the writer and whose other bits count readers.  *)
(*                                                                          *)
(* Every atomic operation is one step.  Between LockRead's load and its     *)
(* compare-exchange any other thread may move, so `expected` may be stale.  *)
(* An operator named X_Y is a slip Y in X that the properties must notice.  *)
(****************************************************************************)
EXTENDS Integers, FiniteSets

CONSTANTS
    Threads,    \* each holds the lock at most once
    MaxInt      \* the largest int

\* More threads than the int can count would make `expected + 2` overflow.
ASSUME ThreadsAssumption == IsFiniteSet(Threads)
ASSUME MaxIntAssumption == MaxInt \in Nat /\ 2 * Cardinality(Threads) <= MaxInt

VARIABLES
    rw_counter,
    pc,             \* pc[t]: where thread t is
    expected        \* expected[t]: LockRead's local variable

vars == <<rw_counter, pc, expected>>

PCs == {"idle", "read_load", "read_cas", "reading", "write_cas", "writing"}

Init ==
    /\ rw_counter = 0
    /\ pc = [t \in Threads |-> "idle"]
    /\ expected = [t \in Threads |-> 0]

Goto(t, from, to) == pc[t] = from /\ pc' = [pc EXCEPT ![t] = to]

WriterBit(counter) == counter % 2

CallLockRead(t) == Goto(t, "idle", "read_load") /\ UNCHANGED <<rw_counter, expected>>

ReadLoad_AnyTime(t) ==
    /\ Goto(t, "read_load", "read_cas")
    /\ expected' = [expected EXCEPT ![t] = rw_counter]
    /\ UNCHANGED rw_counter

(* The load, repeated while it shows a writer.                              *)
ReadLoad(t) ==
    /\ IF WriterBit(rw_counter) = 1
         THEN pc[t] = "read_load" /\ UNCHANGED pc
         ELSE Goto(t, "read_load", "read_cas")
    /\ expected' = [expected EXCEPT ![t] = rw_counter]
    /\ UNCHANGED rw_counter

ReadCas_Store(t) ==
    /\ Goto(t, "read_cas", "reading")
    /\ rw_counter' = expected[t] + 2
    /\ UNCHANGED expected

(* compare_exchange_strong(expected, expected + 2): success, or back to the *)
(* load with the value seen in `expected`.                                  *)
ReadCas(t) ==
    \/ /\ rw_counter = expected[t]
       /\ Goto(t, "read_cas", "reading")
       /\ rw_counter' = expected[t] + 2
       /\ UNCHANGED expected
    \/ /\ rw_counter # expected[t]
       /\ Goto(t, "read_cas", "read_load")
       /\ expected' = [expected EXCEPT ![t] = rw_counter]
       /\ UNCHANGED rw_counter

UnlockRead(t) ==
    /\ Goto(t, "reading", "idle")
    /\ rw_counter' = rw_counter - 2
    /\ UNCHANGED expected

CallLockWrite(t) == Goto(t, "idle", "write_cas") /\ UNCHANGED <<rw_counter, expected>>

WriteCas_BesideReaders(t) ==
    /\ Goto(t, "write_cas", "writing")
    /\ WriterBit(rw_counter) = 0
    /\ rw_counter' = rw_counter + 1
    /\ UNCHANGED expected

WriteCas_AnyTime(t) ==
    /\ Goto(t, "write_cas", "writing")
    /\ rw_counter' = 1
    /\ UNCHANGED expected

(* The compare-exchange from 0, which spins without effect until it is 0.   *)
WriteCas(t) ==
    /\ Goto(t, "write_cas", "writing")
    /\ rw_counter = 0
    /\ rw_counter' = 1
    /\ UNCHANGED expected

UnlockWrite_Nothing(t) ==
    /\ Goto(t, "writing", "idle")
    /\ UNCHANGED <<rw_counter, expected>>

(* fetch_and(~1)                                                            *)
UnlockWrite(t) ==
    /\ Goto(t, "writing", "idle")
    /\ rw_counter' = rw_counter - WriterBit(rw_counter)
    /\ UNCHANGED expected

Acquire(t) == ReadLoad(t) \/ ReadCas(t) \/ WriteCas(t)
Unlock(t) == UnlockRead(t) \/ UnlockWrite(t)

Next ==
    \E t \in Threads :
        CallLockRead(t) \/ CallLockWrite(t) \/ Acquire(t) \/ Unlock(t)

Safety == Init /\ [][Next]_vars

-----------------------------------------------------------------------------
Readers == {t \in Threads : pc[t] = "reading"}
Writers == {t \in Threads : pc[t] = "writing"}

(* The type invariant: the int never overflows, not even in the sum a       *)
(* reader computes from a stale load, and a reader that reached its         *)
(* compare-exchange expects an even value, that is, no writer.              *)
TypeOK ==
    /\ rw_counter \in 0 .. MaxInt
    /\ pc \in [Threads -> PCs]
    /\ expected \in [Threads -> 0 .. MaxInt]
    /\ \A t \in Threads :
         pc[t] = "read_cas" => expected[t] % 2 = 0 /\ expected[t] + 2 <= MaxInt

(* The int is exactly what it is meant to encode: nobody's lock or unlock   *)
(* is lost to a stale expected value.                                       *)
CounterExact ==
    rw_counter = 2 * Cardinality(Readers) + Cardinality(Writers)

(* A writer is alone.                                                       *)
Exclusion ==
    \A w \in Writers : Readers = {} /\ Writers = {w}
=============================================================================
