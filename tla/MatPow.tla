------------------------------- MODULE MatPow --------------------------------
(****************************************************************************)
(* src/tasks/shm-matrix/src/matutil.cpp: mat_pow, the binary exponentiation *)
(* of a matrix, on mat_multiply, which spreads the rows of a product over   *)
(* the tasks of a thread pool and waits for them on an atomic counter.      *)
(*                                                                          *)
(* The data.  Every matrix that mat_pow handles is a power of the input A,  *)
(* written row by row by different threads: a matrix is a function from     *)
(* rows to the exponent of the power that row belongs to, and a row that    *)
(* was computed from a mixture of powers is Mixed.                          *)
(* An operator named X_Y is a slip Y in X that the properties must notice.  *)
(****************************************************************************)
EXTENDS ThreadPool, MatUtil

CONSTANTS
    Rows,       \* m
    Powers,     \* the n that are tried
    Mixed

ASSUME PoolAssumption ==
    /\ Rows \in Nat \ {0} /\ Powers \subseteq Int /\ HwThreads \in Nat
    /\ Mixed \notin Nat
    /\ Threads(Rows) > 0
    /\ Cardinality(Workers) = Threads(Rows)
    /\ Tasks = 0 .. Threads(Rows) - 1

Matrix(exponent) == [i \in 0 .. Rows - 1 |-> exponent]

VARIABLES
    power,          \* the parameter n
    n,              \* what is left of it
    mats,           \* the matrices result, base, temp and transpose_buff
    left,           \* which matrix is mat1: "result" or "base"
    tasks_left,
    th,             \* the loop variable of mat_multiply
    mpc,            \* where the calling thread is
    row             \* row[w]: the row worker w is at

matvars == <<power, n, mats, left, tasks_left, th, mpc, row>>
powvars == <<poolvars, matvars>>

PowInit ==
    /\ Init /\ task = [w \in Workers |-> 0]
    /\ power \in Powers
    /\ n = power
    /\ mats = [result |-> Matrix(0), base |-> Matrix(1),
               temp |-> Matrix(0), transpose |-> Matrix(0)]
    /\ left = "result"
    /\ tasks_left = 0
    /\ th = 0
    /\ mpc = "while"
    /\ row = [w \in Workers |-> 0]

RowsPerThread_Floor == Rows \div Threads(Rows)

(* (m + threads - 1) / threads                                              *)
RowsPerThread == (Rows + Threads(Rows) - 1) \div Threads(Rows)

RowStart(t) == t * RowsPerThread
RowEnd(t) == IF RowStart(t) + RowsPerThread < Rows THEN RowStart(t) + RowsPerThread ELSE Rows

(* A row of mat1 times all of mat2.                                         *)
RowTimes(i, mat1, mat2) ==
    IF mat1[i] # Mixed /\ mat2[i] # Mixed /\ mat2 = Matrix(mat2[i])
      THEN mat1[i] + mat2[i] ELSE Mixed

-----------------------------------------------------------------------------
(* A task of mat_multiply: its rows one by one, then the counter.           *)

TaskBegin(w) ==
    /\ WorkerTake(w)
    /\ row' = [row EXCEPT ![w] = RowStart(task'[w])]
    /\ UNCHANGED <<power, n, mats, left, tasks_left, th, mpc>>

TaskRow(w) ==
    /\ wpc[w] = "run" /\ row[w] < RowEnd(task[w])
    /\ mats' = [mats EXCEPT !.temp[row[w]] =
                    RowTimes(row[w], mats[left], mats.transpose)]
    /\ row' = [row EXCEPT ![w] = @ + 1]
    /\ UNCHANGED <<poolvars, power, n, left, tasks_left, th, mpc>>

TaskEnd(w) ==
    /\ wpc[w] = "run" /\ row[w] >= RowEnd(task[w])
    /\ tasks_left' = tasks_left - 1
    /\ WorkerLoop(w)
    /\ UNCHANGED <<power, n, mats, left, th, mpc, row>>

PoolOnly(A) == A /\ UNCHANGED matvars

-----------------------------------------------------------------------------
(* mat_multiply(mats[operand], base): transpose, submit the tasks, spin.    *)

Mat(from, to) == mpc = from /\ mpc' = to

Multiply(operand) ==
    /\ left' = operand
    /\ mats' = [mats EXCEPT !.transpose = mats.base]
    /\ tasks_left' = Threads(Rows)
    /\ th' = 0

SubmitTask ==
    /\ Mat("submit", "submitted")
    /\ SubmitPush(th)
    /\ UNCHANGED <<power, n, mats, left, tasks_left, th, row>>

SubmitReturn ==
    /\ mpc = "submitted"
    /\ SubmitNotify
    /\ th' = th + 1
    /\ mpc' = IF th + 1 < Threads(Rows) THEN "submit" ELSE "spin"
    /\ UNCHANGED <<power, n, mats, left, tasks_left, row>>

-----------------------------------------------------------------------------
(* mat_pow: while (n > 0) ...                                               *)

(* ... if (n & 1) multiply result by base first, else square base at once.  *)
PowLoop ==
    /\ n > 0
    /\ Mat("while", "submit")
    /\ Multiply(IF n % 2 = 1 THEN "result" ELSE "base")
    /\ UNCHANGED <<poolvars, power, n, row>>

(* The spin ends; the product is copied into result, and base is squared    *)
CopyResult ==
    /\ left = "result"
    /\ tasks_left <= 0
    /\ Mat("spin", "submit")
    /\ left' = "base"
    /\ mats' = [mats EXCEPT !.result = mats.temp, !.transpose = mats.base]
    /\ tasks_left' = Threads(Rows)
    /\ th' = 0
    /\ UNCHANGED <<poolvars, power, n, row>>

(* or it is copied into base, and n halved.                                 *)
CopyBase_Early ==
    /\ left = "base"
    /\ tasks_left <= 1
    /\ Mat("spin", "while")
    /\ mats' = [mats EXCEPT !.base = mats.temp]
    /\ n' = n \div 2
    /\ UNCHANGED <<poolvars, power, left, tasks_left, th, row>>

CopyBase ==
    /\ left = "base"
    /\ tasks_left <= 0
    /\ Mat("spin", "while")
    /\ mats' = [mats EXCEPT !.base = mats.temp]
    /\ n' = n \div 2
    /\ UNCHANGED <<poolvars, power, left, tasks_left, th, row>>

(* At the end of mat_pow the pool is destroyed.                             *)
PowEnd ==
    /\ n <= 0
    /\ Mat("while", "return")
    /\ DestroySet
    /\ UNCHANGED <<power, n, mats, left, tasks_left, th, row>>

PowReturn ==
    /\ Mat("return", "returned")
    /\ DestroyJoin
    /\ UNCHANGED <<power, n, mats, left, tasks_left, th, row>>

Pow ==
    \/ SubmitTask \/ SubmitReturn
    \/ PowLoop \/ CopyResult \/ CopyBase \/ PowEnd \/ PowReturn
    \/ PoolOnly(DestroyNotify)

PoolWorker(w) ==
    \/ PoolOnly(WorkerSleep(w)) \/ PoolOnly(WorkerExit(w))
    \/ TaskBegin(w) \/ TaskRow(w) \/ TaskEnd(w)

PowNext ==
    \/ Pow
    \/ \E w \in Workers : PoolWorker(w) \/ PoolOnly(SpuriousWakeup(w))
    \/ mpc = "returned" /\ UNCHANGED powvars

PowSpec ==
    /\ PowInit
    /\ [][PowNext]_powvars
    /\ WF_powvars(Pow)
    /\ \A w \in Workers : WF_powvars(PoolWorker(w))

-----------------------------------------------------------------------------
(* The binary exponentiation's invariant, across the pool: between two      *)
(* products result and base are whole powers of A, and                      *)
(* A^result * (A^base)^n = A^power (lines 61-69).                           *)
PowerInvariant ==
    mpc \in {"while", "return", "returned"} =>
        LET r == mats.result[0]
            b == mats.base[0]
        IN  /\ mats.result = Matrix(r) /\ r # Mixed
            /\ mats.base = Matrix(b) /\ b # Mixed
            /\ r + b * n = power

(* tasks_left and the lambda `worker` live on the stack of mat_multiply:    *)
(* no task runs or waits when mat_multiply has returned.                    *)
NoTaskOutlivesCall ==
    mpc \in {"while", "return", "returned"} =>
        tasks = <<>> /\ \A w \in Workers : wpc[w] # "run"

(* A mat_pow that has begun returns, and what it returns is A^n.            *)
PowReturns == mpc = "while" ~> mpc = "returned" /\ mats.result = Matrix(power)
=============================================================================
