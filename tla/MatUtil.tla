------------------------------ MODULE MatUtil --------------------------------
(* src/tasks/shm-matrix/src/matutil.cpp: how many threads mat_pow wants for *)
(* a matrix of m rows, none for a big one on a machine with three.          *)
EXTENDS Integers

CONSTANTS
    BigMatrix,  \* the size from which several threads are used: 300
    HwThreads   \* std::thread::hardware_concurrency()

(* Line 49.                                                                 *)
Threads(m) == IF m >= BigMatrix /\ HwThreads > 2 THEN (HwThreads \div 2) - 1 ELSE 1
=============================================================================
