-------------------------- MODULE ThreadPoolProofs ---------------------------
(****************************************************************************)
(* ThreadPool for any finite set of workers, any tasks and any number of    *)
(* submissions: no task is left beside sleeping workers, and the destructor *)
(* wakes everybody and drops nothing.  Then mat_pow on the pool, for any    *)
(* number of rows, threads and workers and any exponent: it returns the     *)
(* power that was asked for, and no task outlives the mat_multiply on whose *)
(* stack it works.                                                          *)
(****************************************************************************)
EXTENDS MatPow, FiniteSetTheorems, TLAPS

(* One of a set of sleepers, or none when nobody sleeps.                    *)
LEMMA NotifyOneFact ==
    ASSUME NEW S, NEW R \in NotifyOne(S)
    PROVE  /\ R \subseteq S
           /\ S # {} => \E w \in S : R = S \ {w}
  BY DEF NotifyOne

(* The sizes of a set of workers, one more and one less.                    *)
LEMMA Sizes ==
    ASSUME NEW S \in SUBSET Workers
    PROVE  /\ Cardinality(S) \in Nat
           /\ \A w \in Workers \ S : Cardinality(S \union {w}) = Cardinality(S) + 1
           /\ \A w \in S : Cardinality(S \ {w}) = Cardinality(S) - 1
           /\ \A R \in SUBSET S : Cardinality(R) <= Cardinality(S)
<1>1. IsFiniteSet(S)
  BY WorkersAssumption, FS_Subset
<1> QED
  BY <1>1, FS_CardinalityType, FS_AddElement, FS_RemoveElement, FS_Subset

LEMMA TypeStep == TypeOK /\ [Next]_poolvars => TypeOK'
<1> SUFFICES ASSUME TypeOK, [Next]_poolvars PROVE TypeOK'
  OBVIOUS
<1> USE DEF TypeOK
<1>1. CASE UNCHANGED poolvars
  BY <1>1 DEF poolvars
<1>2. ASSUME NEW w \in Workers, WorkerSleep(w) PROVE TypeOK'
  BY <1>2 DEF WorkerSleep, AtWait
<1>3. ASSUME NEW w \in Workers, WorkerExit(w) PROVE TypeOK'
  BY <1>3 DEF WorkerExit, AtWait
<1>4. ASSUME NEW w \in Workers, WorkerTake(w) PROVE TypeOK'
  <2>1. Head(tasks) \in Tasks /\ tasks' \in Seq(Tasks)
    BY <1>4 DEF WorkerTake
  <2> QED
    BY <1>4, <2>1 DEF WorkerTake, AtWait
<1>5. ASSUME NEW w \in Workers, WorkerLoop(w) PROVE TypeOK'
  BY <1>5 DEF WorkerLoop
<1>6. ASSUME NEW w \in Workers, SpuriousWakeup(w) PROVE TypeOK'
  BY <1>6 DEF SpuriousWakeup
<1>7. ASSUME NEW t \in Tasks, SubmitPush(t) PROVE TypeOK'
  BY <1>7 DEF SubmitPush, Owner
<1>8. CASE SubmitNotify
  <2>1. sleepers' \subseteq sleepers
    BY <1>8, NotifyOneFact DEF SubmitNotify
  <2> QED
    BY <1>8, <2>1 DEF SubmitNotify, Owner
<1>9. CASE DestroySet
  BY <1>9 DEF DestroySet, Owner
<1>10. CASE DestroyNotify
  BY <1>10 DEF DestroyNotify, Owner
<1>11. CASE DestroyJoin
  BY <1>11 DEF DestroyJoin, Owner
<1> QED
  BY <1>1, <1>2, <1>3, <1>4, <1>5, <1>6, <1>7, <1>8, <1>9, <1>10, <1>11
  DEF Next, Worker, OwnerInside

(* The types, the places of the sleepers, and when the pool is done.        *)
THEOREM TypeCorrect == Safety => []TypeOK
<1>1. Init => TypeOK
  <2> SUFFICES ASSUME Init PROVE TypeOK
    OBVIOUS
  <2>1. tasks \in Seq(Tasks)
    BY DEF Init
  <2> QED
    BY <2>1 DEF Init, TypeOK
<1> QED
  BY <1>1, TypeStep, PTL DEF Safety

-----------------------------------------------------------------------------
LEMMA LostTaskStep == TypeOK /\ NoLostTask /\ [Next]_poolvars => NoLostTask'
<1> DEFINE A == AwakeWorkers
           Slack == IF owner = "notify_one" THEN 1 ELSE 0
           Goal == Len(tasks') <= Cardinality(A') + Slack'
<1> SUFFICES ASSUME TypeOK, NoLostTask, [Next]_poolvars, sleepers' # {}, ~done'
             PROVE  Goal
  BY DEF NoLostTask
<1>a. A \in SUBSET Workers /\ A' \in SUBSET Workers
  BY DEF AwakeWorkers
<1>b. /\ Len(tasks) \in Nat /\ Cardinality(A) \in Nat /\ Cardinality(A') \in Nat
      /\ Slack \in {0, 1} /\ Slack' \in {0, 1}
  BY <1>a, Sizes DEF TypeOK
<1>c. sleepers # {} /\ ~done => Len(tasks) <= Cardinality(A) + Slack
  BY DEF NoLostTask
<1>d. ASSUME tasks' = tasks, owner' = owner, A \subseteq A', sleepers # {}, ~done
      PROVE  Goal
  <2>1. Cardinality(A) <= Cardinality(A') /\ Slack' = Slack
    BY <1>a, <1>d, Sizes
  <2> HIDE DEF A, Slack
  <2> QED
    BY <1>b, <1>c, <1>d, <2>1
<1> USE DEF TypeOK, AtWait
<1>1. CASE UNCHANGED poolvars
  BY <1>1, <1>d DEF poolvars, AwakeWorkers
<1>2. ASSUME NEW w \in Workers, WorkerSleep(w) PROVE Goal
  <2>1. Len(tasks') = 0
    BY <1>2 DEF WorkerSleep
  <2> HIDE DEF A, Slack
  <2> QED
    BY <1>b, <2>1
<1>3. ASSUME NEW w \in Workers, WorkerExit(w) PROVE Goal
  BY <1>3 DEF WorkerExit
<1>4. ASSUME NEW w \in Workers, WorkerTake(w) PROVE Goal
  <2>1. w \in A /\ A' = A \ {w} /\ Slack' = Slack
    BY <1>4 DEF WorkerTake, AwakeWorkers
  <2>2. Len(tasks') = Len(tasks) - 1 /\ Len(tasks) <= Cardinality(A) + Slack
    BY <1>4, <1>c DEF WorkerTake
  <2>3. Cardinality(A') = Cardinality(A) - 1
    BY <1>a, <2>1, Sizes
  <2> HIDE DEF A, Slack
  <2> QED
    BY <1>b, <2>1, <2>2, <2>3
<1>5. ASSUME NEW w \in Workers, WorkerLoop(w) PROVE Goal
  BY <1>5, <1>d DEF WorkerLoop, AwakeWorkers
<1>6. ASSUME NEW w \in Workers, SpuriousWakeup(w) PROVE Goal
  BY <1>6, <1>d DEF SpuriousWakeup, AwakeWorkers
<1>7. ASSUME NEW t \in Tasks, SubmitPush(t) PROVE Goal
  <2>1. A' = A /\ Slack = 0 /\ Slack' = 1
    BY <1>7 DEF SubmitPush, Owner, AwakeWorkers
  <2>2. Len(tasks') = Len(tasks) + 1 /\ Len(tasks) <= Cardinality(A) + Slack
    BY <1>7, <1>c DEF SubmitPush
  <2> HIDE DEF A, Slack
  <2> QED
    BY <1>b, <2>1, <2>2
<1>8. CASE SubmitNotify
  <2>1. PICK w \in sleepers : sleepers' = sleepers \ {w}
    BY <1>8, NotifyOneFact DEF SubmitNotify
  <2>2. w \in Workers \ A /\ A' = A \union {w} /\ Slack = 1 /\ Slack' = 0
    BY <1>8, <2>1 DEF SubmitNotify, Owner, AwakeWorkers
  <2>3. tasks' = tasks /\ Len(tasks) <= Cardinality(A) + Slack
    BY <1>8, <1>c, <2>1 DEF SubmitNotify
  <2>4. Cardinality(A') = Cardinality(A) + 1
    BY <1>a, <2>2, Sizes
  <2> HIDE DEF A, Slack
  <2> QED
    BY <1>b, <2>2, <2>3, <2>4
<1>9. CASE DestroySet
  BY <1>9 DEF DestroySet
<1>10. CASE DestroyNotify
  BY <1>10 DEF DestroyNotify
<1>11. CASE DestroyJoin
  BY <1>11 DEF DestroyJoin, Owner
<1> QED
  BY <1>1, <1>2, <1>3, <1>4, <1>5, <1>6, <1>7, <1>8, <1>9, <1>10, <1>11
  DEF Next, Worker, OwnerInside

LEMMA DoneStep == TypeOK /\ DoneWakesAll /\ [Next]_poolvars => DoneWakesAll'
<1> SUFFICES ASSUME TypeOK, DoneWakesAll, [Next]_poolvars, done', sleepers' # {}
             PROVE  owner' = "notify_all"
  BY DEF DoneWakesAll
<1> USE DEF TypeOK, DoneWakesAll
<1>1. CASE UNCHANGED poolvars
  BY <1>1 DEF poolvars
<1>2. ASSUME NEW w \in Workers, Worker(w) PROVE owner' = "notify_all"
  BY <1>2 DEF Worker, WorkerSleep, WorkerExit, WorkerTake
<1>3. ASSUME NEW w \in Workers, WorkerLoop(w) PROVE owner' = "notify_all"
  BY <1>3 DEF WorkerLoop
<1>4. ASSUME NEW w \in Workers, SpuriousWakeup(w) PROVE owner' = "notify_all"
  BY <1>4 DEF SpuriousWakeup
<1>5. ASSUME NEW t \in Tasks, SubmitPush(t) PROVE owner' = "notify_all"
  BY <1>5 DEF SubmitPush, Owner
<1>6. CASE SubmitNotify
  BY <1>6 DEF SubmitNotify, Owner
<1>7. CASE DestroySet
  BY <1>7 DEF DestroySet, Owner
<1>8. CASE DestroyNotify
  BY <1>8 DEF DestroyNotify
<1>9. CASE DestroyJoin
  BY <1>9 DEF DestroyJoin, Owner
<1> QED
  BY <1>1, <1>2, <1>3, <1>4, <1>5, <1>6, <1>7, <1>8, <1>9 DEF Next, OwnerInside

(* No notification is one too few, although all of them come without the    *)
(* mutex.                                                                   *)
THEOREM NoLostWakeups == Safety => []NoLostWakeup
<1>1. Init => NoLostWakeup
  BY DEF Init, NoLostWakeup, NoLostTask, DoneWakesAll
<1>2. TypeOK /\ NoLostWakeup /\ [Next]_poolvars => NoLostWakeup'
  BY LostTaskStep, DoneStep DEF NoLostWakeup
<1> QED
  BY <1>1, <1>2, TypeCorrect, PTL DEF Safety

(* The destructor drops nothing: a worker only leaves an empty queue, and   *)
(* nothing is submitted after that.                                         *)
THEOREM NothingDropped == Safety => []DestroyedEmpty
<1>1. Init => DestroyedEmpty
  BY DEF Init, DestroyedEmpty
<1>2. TypeOK /\ DestroyedEmpty /\ [Next]_poolvars => DestroyedEmpty'
  <2> SUFFICES ASSUME TypeOK, DestroyedEmpty, [Next]_poolvars,
                      NEW g \in Workers, wpc'[g] = "gone"
               PROVE  done' /\ tasks' = <<>>
    BY DEF DestroyedEmpty
  <2> USE DEF TypeOK, DestroyedEmpty
  <2>1. CASE UNCHANGED poolvars
    BY <2>1 DEF poolvars
  <2>2. ASSUME NEW w \in Workers, Worker(w) PROVE done' /\ tasks' = <<>>
    BY <2>2 DEF Worker, WorkerSleep, WorkerExit, WorkerTake
  <2>3. ASSUME NEW w \in Workers, WorkerLoop(w) PROVE done' /\ tasks' = <<>>
    BY <2>3 DEF WorkerLoop
  <2>4. ASSUME NEW w \in Workers, SpuriousWakeup(w) PROVE done' /\ tasks' = <<>>
    BY <2>4 DEF SpuriousWakeup
  <2>5. ASSUME NEW t \in Tasks, SubmitPush(t) PROVE done' /\ tasks' = <<>>
    BY <2>5 DEF SubmitPush, Owner
  <2>6. CASE SubmitNotify
    BY <2>6 DEF SubmitNotify
  <2>7. CASE DestroySet
    BY <2>7 DEF DestroySet
  <2>8. CASE DestroyNotify
    BY <2>8 DEF DestroyNotify
  <2>9. CASE DestroyJoin
    BY <2>9 DEF DestroyJoin
  <2> QED
    BY <2>1, <2>2, <2>3, <2>4, <2>5, <2>6, <2>7, <2>8, <2>9 DEF Next, OwnerInside
<1> QED
  BY <1>1, <1>2, TypeCorrect, PTL DEF Safety

-----------------------------------------------------------------------------
(* mat_pow.                                                                 *)

T == Threads(Rows)
RowSet == 0 .. Rows - 1

Multiplying == mpc \in {"submit", "submitted", "spin"}
Running == {w \in Workers : wpc[w] = "run"}

Submitted == IF mpc = "submitted" THEN th + 1 ELSE th
Taken == Submitted - Len(tasks)

PowTypeOK ==
    /\ n \in Int /\ power \in Int /\ th \in Nat /\ tasks_left \in Int
    /\ left \in {"result", "base"}
    /\ mpc \in {"while", "submit", "submitted", "spin", "return", "returned"}
    /\ tasks \in Seq(Nat)
    /\ wpc \in [Workers -> {"wait", "run", "gone"}]
    /\ task \in [Workers -> Nat] /\ row \in [Workers -> Nat]
    /\ DOMAIN mats = {"result", "base", "temp", "transpose"}
    /\ mats.temp \in [RowSet -> Nat]

(* Which powers result and base are: whole ones, and at the second product  *)
(* of a round the squaring that is under way is counted in.                 *)
MatricesOK ==
    LET r == mats.result[0]
        b == mats.base[0]
    IN  /\ r \in Nat /\ b \in Nat
        /\ mats.result = Matrix(r) /\ mats.base = Matrix(b)
        /\ Multiplying => mats.transpose = Matrix(b) /\ n > 0
        /\ ~Multiplying => r + b * n = power
        /\ Multiplying /\ left = "result" => n % 2 = 1 /\ r + b * n = power
        /\ Multiplying /\ left = "base" => r + 2 * b * (n \div 2) = power

(* The rows of task t below `to` are rows of the product.                   *)
Product == mats[left][0] + mats.base[0]
RowsDone(t, to) == \A i \in RowStart(t) .. to - 1 : mats.temp[i] = Product

(* A worker that runs a task has done its rows up to row[w].                *)
Progress(w) ==
    /\ task[w] \in 0 .. Taken - 1
    /\ RowStart(task[w]) <= row[w]
    /\ row[w] <= RowEnd(task[w]) \/ row[w] = RowStart(task[w])
    /\ RowsDone(task[w], row[w])

(* The tasks come in order: 0 .. Taken - 1 were taken, the queue holds the  *)
(* next ones; those that were taken and do not run have done their rows,    *)
(* and tasks_left counts the others.                                        *)
TasksOK ==
    /\ th <= T /\ (mpc = "spin" => th = T) /\ (mpc # "spin" => th < T)
    /\ Taken >= 0
    /\ \A k \in 1 .. Len(tasks) : tasks[k] = Taken + k - 1
    /\ \A w \in Running : Progress(w)
    /\ \A t \in 0 .. Taken - 1 :
         (\A w \in Running : task[w] # t) => RowsDone(t, RowEnd(t))
    /\ tasks_left = T - Taken + Cardinality(Running)

PowInv ==
    /\ PowTypeOK /\ MatricesOK
    /\ Multiplying => TasksOK
    /\ ~Multiplying => tasks = <<>> /\ Running = {}

-----------------------------------------------------------------------------
(* Numbers of threads and rows.                                             *)

LEMMA ThreadsPositive == T \in Nat /\ T > 0
<1>1. T > 0 /\ HwThreads \in Nat
  BY PoolAssumption DEF T
<1> QED
  BY <1>1 DEF T, Threads

LEMMA PerThread == RowsPerThread \in Nat /\ T * RowsPerThread >= Rows
<1> DEFINE m == Rows + T - 1
<1>1. m \in Nat /\ T \in Nat /\ T > 0 /\ Rows = m - T + 1
  BY ThreadsPositive, PoolAssumption
<1> HIDE DEF m
<1>2. m \div T \in Nat /\ m < T * (m \div T) + T
  <2>1. m \div T \in Nat /\ m = T * (m \div T) + (m % T) /\ m % T < T
    BY <1>1
  <2> QED
    BY <1>1, <2>1
<1>3. RowsPerThread = m \div T
  BY DEF RowsPerThread, m, T
<1> DEFINE d == T * (m \div T)
<1>4. d \in Int
  BY <1>1, <1>2
<1>5. m < d + T
  BY <1>2
<1> HIDE DEF d
<1>6. d >= Rows
  BY <1>1, <1>4, <1>5
<1> QED
  BY <1>2, <1>3, <1>6 DEF d

LEMMA RowBounds ==
  ASSUME NEW t \in Nat PROVE RowStart(t) \in Nat /\ RowEnd(t) \in 0 .. Rows
<1>1. RowStart(t) \in Nat /\ RowsPerThread \in Nat
  BY PerThread DEF RowStart
<1> QED
  BY <1>1, PoolAssumption DEF RowEnd

(* Every row belongs to one of the tasks.                                   *)
LEMMA RowsCovered ==
  ASSUME NEW i \in RowSet
  PROVE  \E t \in 0 .. T - 1 : i \in RowStart(t) .. RowEnd(t) - 1
<1> DEFINE p == RowsPerThread
           t == i \div p
<1>1. p \in Nat /\ T \in Nat /\ T * p >= Rows /\ i \in Nat /\ i < Rows
  BY PerThread, ThreadsPositive, PoolAssumption DEF RowSet
<1>2. p > 0
  <2>1. p = 0 => T * p = 0
    BY <1>1
  <2> QED
    BY <1>1, <2>1, PoolAssumption
<1> HIDE DEF p
<1>3. t \in Nat /\ t * p <= i /\ i < t * p + p
  <2>1. t \in Nat /\ i = p * t + (i % p) /\ i % p \in 0 .. p - 1
    BY <1>1, <1>2
  <2>2. p * t = t * p
    BY <1>1, <2>1
  <2> QED
    BY <1>1, <2>1, <2>2
<1> HIDE DEF t
<1>4. t < T
  <2> SUFFICES ASSUME t >= T PROVE FALSE
    BY <1>1, <1>3
  <2> DEFINE start == t * p
             rows == T * p
  <2>1. start >= rows
    BY <1>1, <1>3
  <2>2. start \in Nat /\ rows \in Nat /\ start <= i /\ rows >= Rows
    BY <1>1, <1>3
  <2> HIDE DEF start, rows
  <2> QED
    BY <1>1, <2>1, <2>2, PoolAssumption
<1>5. i \in RowStart(t) .. RowEnd(t) - 1
  BY <1>1, <1>3, PoolAssumption DEF RowStart, RowEnd, p
<1> QED
  BY <1>1, <1>3, <1>4, <1>5

LEMMA MatrixFacts ==
  /\ 0 \in RowSet
  /\ \A e : DOMAIN Matrix(e) = RowSet /\ \A i \in RowSet : Matrix(e)[i] = e
BY PoolAssumption DEF RowSet, Matrix

-----------------------------------------------------------------------------
(* The inductive invariant: Init and the steps.                             *)

LEMMA PowInvInit == PowInit => PowInv
<1> SUFFICES ASSUME PowInit PROVE PowInv
  OBVIOUS
<1>1. PowTypeOK
  <2>1. tasks \in Seq(Nat) /\ Matrix(0) \in [RowSet -> Nat]
    BY DEF PowInit, Init, Matrix, RowSet
  <2> QED
    BY <2>1, PoolAssumption DEF PowInit, Init, PowTypeOK
<1>2. MatricesOK
  <2>1. mats.result[0] = 0 /\ mats.base[0] = 1 /\ n \in Int /\ n = power /\ ~Multiplying
    BY <1>1, MatrixFacts DEF PowInit, PowTypeOK, Multiplying
  <2> QED
    BY <2>1 DEF PowInit, MatricesOK
<1> QED
  BY <1>1, <1>2 DEF PowInit, Init, PowInv, Multiplying, Running

(* A step that leaves the tasks, those who run them and mat_pow alone.      *)
LEMMA PoolStep ==
  ASSUME PowInv, UNCHANGED <<matvars, tasks, task>>, Running' = Running,
         wpc' \in [Workers -> {"wait", "run", "gone"}]
  PROVE  PowInv'
<1>1. PowTypeOK'
  BY DEF PowInv, PowTypeOK, matvars
<1>2. MatricesOK' /\ Multiplying' = Multiplying
  BY DEF PowInv, MatricesOK, Multiplying, matvars
<1>3. TasksOK' = TasksOK
  <2>1. Taken' = Taken /\ \A t, to : RowsDone(t, to)' = RowsDone(t, to)
    BY DEF Taken, Submitted, RowsDone, Product, matvars
  <2>2. \A w \in Running : Progress(w)' = Progress(w)
    BY <2>1 DEF Progress, RowsDone, Product, matvars
  <2> QED
    BY <2>1, <2>2 DEF TasksOK, matvars
<1> QED
  BY <1>1, <1>2, <1>3 DEF PowInv

LEMMA TaskBeginStep == ASSUME PowInv, NEW w \in Workers, TaskBegin(w) PROVE PowInv'
<1>1. /\ tasks # <<>> /\ tasks \in Seq(Nat) /\ wpc[w] = "wait" /\ row \in [Workers -> Nat]
      /\ task \in [Workers -> Nat] /\ wpc \in [Workers -> {"wait", "run", "gone"}]
      /\ th \in Nat
  BY DEF PowInv, PowTypeOK, TaskBegin, WorkerTake, AtWait
<1>2. Multiplying /\ Multiplying' /\ TasksOK
  BY <1>1 DEF PowInv, TaskBegin, Multiplying
<1>3. /\ tasks' = Tail(tasks) /\ task' = [task EXCEPT ![w] = Head(tasks)]
      /\ wpc' = [wpc EXCEPT ![w] = "run"]
      /\ row' = [row EXCEPT ![w] = RowStart(task'[w])]
      /\ UNCHANGED <<power, n, mats, left, tasks_left, th, mpc>>
  BY DEF TaskBegin, WorkerTake
<1>4. /\ Len(tasks) \in Nat /\ Len(tasks) > 0 /\ Len(tasks') = Len(tasks) - 1
      /\ Head(tasks) = tasks[1] /\ tasks' \in Seq(Nat)
      /\ \A k \in 1 .. Len(tasks') : tasks'[k] = tasks[k + 1]
  BY <1>1, <1>3
<1>5. /\ Taken \in Nat /\ Taken' = Taken + 1 /\ Head(tasks) = Taken
      /\ \A k \in 1 .. Len(tasks) : tasks[k] = Taken + k - 1
  <2>1. Submitted' = Submitted /\ Submitted \in Nat
    BY <1>1, <1>3 DEF Submitted
  <2>2. Taken >= 0 /\ \A k \in 1 .. Len(tasks) : tasks[k] = Taken + k - 1
    BY <1>2 DEF TasksOK
  <2>3. Taken \in Nat /\ Taken' = Taken + 1
    BY <1>4, <2>1, <2>2 DEF Taken
  <2>4. tasks[1] = Taken
    BY <1>4, <2>2, <2>3
  <2> QED
    BY <1>4, <2>2, <2>3, <2>4
<1>6. /\ Running' = Running \union {w} /\ w \notin Running /\ Running \in SUBSET Workers
      /\ task'[w] = Taken /\ row'[w] = RowStart(Taken)
      /\ \A v \in Running : task'[v] = task[v] /\ row'[v] = row[v]
  BY <1>1, <1>3, <1>5 DEF Running
<1>7. PowTypeOK'
  <2>1. RowStart(Taken) \in Nat
    BY <1>5, RowBounds
  <2>2. task' \in [Workers -> Nat] /\ row' \in [Workers -> Nat]
    BY <1>1, <1>3, <1>5, <1>6, <2>1
  <2>3. wpc' \in [Workers -> {"wait", "run", "gone"}]
    BY <1>1, <1>3
  <2> QED
    BY <1>3, <1>4, <2>2, <2>3 DEF PowInv, PowTypeOK
<1>8. MatricesOK'
  BY <1>3 DEF PowInv, MatricesOK, Multiplying
<1>9. TasksOK'
  <2>1. \A k \in 1 .. Len(tasks') : tasks'[k] = Taken' + k - 1
    BY <1>4, <1>5
  <2>2. ASSUME NEW v \in Running' PROVE Progress(v)'
    <3>1. CASE v = w
      <4>1. task'[v] = Taken /\ row'[v] = RowStart(Taken) /\ RowStart(Taken) \in Nat
        BY <1>5, <1>6, <3>1, RowBounds
      <4>2. task'[v] \in 0 .. Taken' - 1
        BY <1>5, <4>1
      <4>3. RowsDone(task[v], row[v])'
        BY <4>1 DEF RowsDone
      <4> QED
        BY <4>1, <4>2, <4>3 DEF Progress
    <3>2. CASE v \in Running
      <4>1. Progress(v) /\ task'[v] = task[v] /\ row'[v] = row[v]
        BY <1>2, <1>6, <3>2 DEF TasksOK
      <4>2. task[v] \in 0 .. Taken' - 1
        BY <1>5, <4>1 DEF Progress
      <4> QED
        BY <1>3, <4>1, <4>2 DEF Progress, RowsDone, Product
    <3> QED
      BY <1>6, <3>1, <3>2
  <2>3. ASSUME NEW t \in 0 .. Taken' - 1, \A v \in Running' : task'[v] # t
        PROVE  RowsDone(t, RowEnd(t))'
    <3>1. t # Taken
      BY <1>6, <2>3
    <3>2. t \in 0 .. Taken - 1
      BY <1>5, <3>1
    <3>3. \A v \in Running : task[v] # t
      BY <1>6, <2>3
    <3> QED
      BY <1>2, <1>3, <3>2, <3>3 DEF TasksOK, RowsDone, Product
  <2>4. tasks_left' = T - Taken' + Cardinality(Running')
    <3>1. tasks_left = T - Taken + Cardinality(Running) /\ tasks_left' = tasks_left
      BY <1>2, <1>3 DEF TasksOK
    <3>2. Cardinality(Running') = Cardinality(Running) + 1 /\ Cardinality(Running) \in Nat
      BY <1>6, Sizes
    <3> QED
      BY <1>5, <3>1, <3>2, ThreadsPositive
  <2>5. Taken' >= 0 /\ th' <= T /\ (mpc' = "spin" => th' = T) /\ (mpc' # "spin" => th' < T)
    BY <1>2, <1>3, <1>5 DEF TasksOK
  <2> QED
    BY <2>1, <2>2, <2>3, <2>4, <2>5 DEF TasksOK
<1> QED
  BY <1>2, <1>7, <1>8, <1>9 DEF PowInv

LEMMA TaskRowStep == ASSUME PowInv, NEW w \in Workers, TaskRow(w) PROVE PowInv'
<1>1. /\ w \in Running /\ row[w] < RowEnd(task[w]) /\ left \in {"result", "base"}
      /\ row \in [Workers -> Nat] /\ task \in [Workers -> Nat]
      /\ DOMAIN mats = {"result", "base", "temp", "transpose"} /\ mats.temp \in [RowSet -> Nat]
  BY DEF PowInv, PowTypeOK, TaskRow, Running
<1>2. Multiplying /\ TasksOK /\ MatricesOK /\ Progress(w)
  BY <1>1 DEF PowInv, TasksOK
<1>3. /\ mats' = [mats EXCEPT !.temp[row[w]] = RowTimes(row[w], mats[left], mats.transpose)]
      /\ row' = [row EXCEPT ![w] = @ + 1]
      /\ UNCHANGED <<tasks, wpc, task, power, n, left, tasks_left, th, mpc>>
  BY DEF TaskRow, poolvars
<1>4. /\ RowStart(task[w]) \in Nat /\ RowEnd(task[w]) \in 0 .. Rows /\ row[w] \in Nat
      /\ RowStart(task[w]) <= row[w]
  BY <1>1, <1>2, RowBounds DEF Progress
<1>5. row[w] \in RowSet
  BY <1>1, <1>4, PoolAssumption DEF RowSet
<1>6. Product \in Nat /\ RowTimes(row[w], mats[left], mats.transpose) = Product
  <2> DEFINE r == mats.result[0]
             b == mats.base[0]
  <2>1. /\ r \in Nat /\ b \in Nat /\ mats.result = Matrix(r) /\ mats.base = Matrix(b)
        /\ mats.transpose = Matrix(b)
    BY <1>2 DEF MatricesOK
  <2>2. /\ mats[left] = Matrix(mats[left][0]) /\ mats[left][0] \in Nat
        /\ Product = mats[left][0] + b
    BY <1>1, <2>1 DEF Product
  <2> HIDE DEF r, b
  <2>3. mats[left][row[w]] = mats[left][0] /\ mats.transpose[row[w]] = b
    BY <1>5, <2>1, <2>2, MatrixFacts
  <2> QED
    BY <2>1, <2>2, <2>3, PoolAssumption DEF RowTimes
<1>7. /\ mats'.result = mats.result /\ mats'.base = mats.base /\ mats'.transpose = mats.transpose
      /\ DOMAIN mats' = {"result", "base", "temp", "transpose"} /\ mats'.temp \in [RowSet -> Nat]
      /\ mats'.temp[row[w]] = Product
      /\ \A i \in RowSet \ {row[w]} : mats'.temp[i] = mats.temp[i]
  BY <1>1, <1>3, <1>5, <1>6
<1>8. Product' = Product
  BY <1>1, <1>3, <1>7 DEF Product
<1>9. ASSUME NEW t \in Nat, NEW to \in Int, to <= RowEnd(t) \/ to = RowStart(t),
             RowsDone(t, to)
      PROVE  \A i \in RowStart(t) .. to - 1 : mats'.temp[i] = Product
  <2> SUFFICES ASSUME NEW i \in RowStart(t) .. to - 1 PROVE mats'.temp[i] = Product
    OBVIOUS
  <2>1. i \in RowSet
    <3>1. RowStart(t) \in Nat /\ RowEnd(t) \in Nat /\ RowEnd(t) <= Rows /\ Rows \in Nat
      BY RowBounds, PoolAssumption
    <3>2. i \in Nat /\ i < to /\ to <= RowEnd(t)
      BY <1>9, <3>1
    <3> QED
      BY <3>1, <3>2 DEF RowSet
  <2>2. mats.temp[i] = Product
    BY <1>9 DEF RowsDone
  <2> QED
    BY <1>7, <2>1, <2>2
<1>10. Running' = Running /\ Running \in SUBSET Workers /\ Taken' = Taken /\ Multiplying'
  BY <1>2, <1>3 DEF Running, Taken, Submitted, Multiplying
<1>11. PowTypeOK'
  <2>1. row' \in [Workers -> Nat]
    BY <1>1, <1>3, <1>4
  <2>2. UNCHANGED <<tasks, wpc, task, power, n, left, tasks_left, th, mpc>>
    BY <1>3
  <2> QED
    BY <1>7, <2>1, <2>2 DEF PowInv, PowTypeOK
<1>12. MatricesOK'
  BY <1>2, <1>3, <1>7, <1>10 DEF MatricesOK
<1>13. ASSUME NEW v \in Running PROVE Progress(v)'
  <2>1. Progress(v) /\ task[v] \in Nat /\ row[v] \in Nat /\ task' = task
    BY <1>1, <1>2, <1>3, <1>10, <1>13 DEF TasksOK
  <2>2. RowStart(task[v]) \in Nat /\ RowEnd(task[v]) \in 0 .. Rows
    BY <2>1, RowBounds
  <2>3. \A i \in RowStart(task[v]) .. row[v] - 1 : mats'.temp[i] = Product
    BY <1>9, <2>1 DEF Progress
  <2>4. CASE v = w
    <3>1. row'[v] = row[w] + 1
      BY <1>1, <1>3, <1>10, <2>4
    <3>2. \A i \in RowStart(task[v]) .. row'[v] - 1 : mats'.temp[i] = Product
      <4> SUFFICES ASSUME NEW i \in RowStart(task[v]) .. row'[v] - 1
                   PROVE  mats'.temp[i] = Product
        OBVIOUS
      <4>1. i = row[w] \/ i \in RowStart(task[v]) .. row[v] - 1
        BY <2>1, <2>2, <2>4, <3>1
      <4> QED
        BY <1>7, <2>3, <4>1
    <3>3. RowStart(task[v]) <= row'[v] /\ row'[v] <= RowEnd(task[v])
      BY <1>1, <1>4, <2>2, <2>4, <3>1
    <3> QED
      BY <1>8, <1>10, <2>1, <3>2, <3>3 DEF Progress, RowsDone
  <2>5. CASE v # w
    <3>1. row'[v] = row[v]
      BY <1>1, <1>3, <2>5
    <3> QED
      BY <1>8, <1>10, <2>1, <2>3, <3>1 DEF Progress, RowsDone
  <2> QED
    BY <2>4, <2>5
<1>14. ASSUME NEW t \in 0 .. Taken' - 1, \A v \in Running' : task'[v] # t
       PROVE  RowsDone(t, RowEnd(t))'
  <2>1. t \in 0 .. Taken - 1 /\ RowsDone(t, RowEnd(t)) /\ t \in Nat /\ RowEnd(t) \in Int
    BY <1>2, <1>3, <1>10, <1>14, RowBounds DEF TasksOK
  <2>2. \A i \in RowStart(t) .. RowEnd(t) - 1 : mats'.temp[i] = Product
    BY <1>9, <2>1
  <2> QED
    BY <1>8, <2>2 DEF RowsDone
<1>15. TasksOK'
  BY <1>2, <1>3, <1>10, <1>13, <1>14 DEF TasksOK
<1> QED
  BY <1>10, <1>11, <1>12, <1>15 DEF PowInv

LEMMA TaskEndStep == ASSUME PowInv, NEW w \in Workers, TaskEnd(w) PROVE PowInv'
<1>1. /\ w \in Running /\ row[w] >= RowEnd(task[w]) /\ tasks_left \in Int /\ th \in Nat
      /\ row \in [Workers -> Nat] /\ task \in [Workers -> Nat] /\ tasks \in Seq(Nat)
      /\ wpc \in [Workers -> {"wait", "run", "gone"}]
  BY DEF PowInv, PowTypeOK, TaskEnd, Running
<1>2. Multiplying /\ TasksOK
  BY <1>1 DEF PowInv
<1>3. /\ wpc' = [wpc EXCEPT ![w] = "wait"] /\ tasks_left' = tasks_left - 1
      /\ UNCHANGED <<tasks, task, power, n, mats, left, th, mpc, row>>
  BY DEF TaskEnd, WorkerLoop
<1>4. /\ Running' = Running \ {w} /\ Running \in SUBSET Workers /\ Multiplying'
      /\ Taken' = Taken /\ Taken \in Int
  <2>1. Running' = Running \ {w} /\ Running \in SUBSET Workers
    BY <1>1, <1>3 DEF Running
  <2>2. Multiplying' /\ Taken' = Taken
    BY <1>2, <1>3 DEF Multiplying, Taken, Submitted
  <2>3. Taken \in Int
    BY <1>1 DEF Taken, Submitted
  <2> QED
    BY <2>1, <2>2, <2>3
<1>5. PowTypeOK' /\ MatricesOK'
  BY <1>1, <1>3 DEF PowInv, PowTypeOK, MatricesOK, Multiplying
<1>6. ASSUME NEW v \in Running' PROVE Progress(v)'
  <2>1. Progress(v) /\ task' = task /\ row' = row
    BY <1>2, <1>3, <1>4, <1>6 DEF TasksOK
  <2> QED
    BY <1>3, <1>4, <2>1 DEF Progress, RowsDone, Product
<1>7. ASSUME NEW t \in 0 .. Taken' - 1, \A v \in Running' : task'[v] # t
      PROVE  RowsDone(t, RowEnd(t))'
  <2>1. t \in 0 .. Taken - 1 /\ \A v \in Running \ {w} : task[v] # t
    BY <1>3, <1>4, <1>7
  <2>2. RowsDone(t, RowEnd(t))
    <3>1. CASE task[w] = t
      <4>1. RowsDone(t, row[w]) /\ t \in Nat /\ row[w] \in Nat
        BY <1>1, <1>2, <2>1, <3>1 DEF TasksOK, Progress
      <4>2. RowStart(t) \in Nat /\ RowEnd(t) \in Nat /\ RowEnd(t) <= row[w]
        BY <1>1, <3>1, <4>1, RowBounds
      <4> QED
        BY <4>1, <4>2 DEF RowsDone
    <3>2. CASE task[w] # t
      BY <1>2, <2>1, <3>2 DEF TasksOK
    <3> QED
      BY <3>1, <3>2
  <2> QED
    BY <1>3, <2>2 DEF RowsDone, Product
<1>8. tasks_left' = T - Taken' + Cardinality(Running')
  <2>1. tasks_left = T - Taken + Cardinality(Running)
    BY <1>2 DEF TasksOK
  <2>2. Cardinality(Running') = Cardinality(Running) - 1 /\ Cardinality(Running) \in Nat
    BY <1>1, <1>4, Sizes
  <2> QED
    BY <1>3, <1>4, <2>1, <2>2, ThreadsPositive
<1>9. TasksOK'
  BY <1>2, <1>3, <1>4, <1>6, <1>7, <1>8 DEF TasksOK
<1> QED
  BY <1>4, <1>5, <1>9 DEF PowInv

LEMMA SubmitTaskStep == ASSUME PowInv, SubmitTask PROVE PowInv'
<1>1. /\ Multiplying /\ Multiplying' /\ TasksOK /\ mpc = "submit" /\ mpc' = "submitted"
      /\ th \in Nat /\ tasks \in Seq(Nat)
      /\ tasks' = Append(tasks, th)
      /\ UNCHANGED <<wpc, task, power, n, mats, left, tasks_left, th, row>>
  BY DEF PowInv, PowTypeOK, SubmitTask, Mat, SubmitPush, Multiplying
<1>2. /\ tasks' \in Seq(Nat) /\ Len(tasks) \in Nat /\ Len(tasks') = Len(tasks) + 1
      /\ tasks'[Len(tasks) + 1] = th
      /\ \A k \in 1 .. Len(tasks) : tasks'[k] = tasks[k]
  BY <1>1
<1>3. Taken' = Taken /\ Taken = th - Len(tasks) /\ Running' = Running
  BY <1>1, <1>2 DEF Taken, Submitted, Running
<1>4. \A k \in 1 .. Len(tasks') : tasks'[k] = Taken' + k - 1
  <2> SUFFICES ASSUME NEW k \in 1 .. Len(tasks') PROVE tasks'[k] = Taken + k - 1
    BY <1>3
  <2>1. CASE k = Len(tasks) + 1
    BY <1>1, <1>2, <1>3, <2>1
  <2>2. CASE k \in 1 .. Len(tasks)
    BY <1>1, <1>2, <2>2 DEF TasksOK
  <2> QED
    BY <1>2, <2>1, <2>2
<1>5. \A t, to : RowsDone(t, to)' = RowsDone(t, to)
  BY <1>1 DEF RowsDone, Product
<1>6. \A w \in Running : Progress(w)'
  BY <1>1, <1>3 DEF TasksOK, Progress, RowsDone, Product
<1>7. PowTypeOK' /\ MatricesOK'
  BY <1>1, <1>2 DEF PowInv, PowTypeOK, MatricesOK
<1>8. TasksOK'
  BY <1>1, <1>3, <1>4, <1>5, <1>6 DEF TasksOK
<1> QED
  BY <1>1, <1>7, <1>8 DEF PowInv

LEMMA SubmitReturnStep == ASSUME PowInv, SubmitReturn PROVE PowInv'
<1>1. /\ Multiplying /\ Multiplying' /\ TasksOK /\ mpc = "submitted"
      /\ th \in Nat /\ th' = th + 1
      /\ mpc' = IF th + 1 < T THEN "submit" ELSE "spin"
      /\ UNCHANGED <<tasks, wpc, task, power, n, mats, left, tasks_left, row>>
  BY DEF PowInv, PowTypeOK, SubmitReturn, SubmitNotify, Multiplying, T
<1>2. Taken' = Taken /\ Running' = Running
  BY <1>1 DEF Taken, Submitted, Running
<1>3. \A t, to : RowsDone(t, to)' = RowsDone(t, to)
  BY <1>1 DEF RowsDone, Product
<1>4. \A w \in Running : Progress(w)'
  BY <1>1, <1>2 DEF TasksOK, Progress, RowsDone, Product
<1>5. PowTypeOK' /\ MatricesOK'
  BY <1>1 DEF PowInv, PowTypeOK, MatricesOK
<1>6. th' <= T /\ (mpc' = "spin" => th' = T) /\ (mpc' # "spin" => th' < T)
  BY <1>1, ThreadsPositive DEF TasksOK
<1>7. TasksOK'
  BY <1>1, <1>2, <1>3, <1>4, <1>6 DEF TasksOK
<1> QED
  BY <1>1, <1>5, <1>7 DEF PowInv

(* The beginning of mat_multiply.                                           *)
LEMMA MultiplyStarts ==
  ASSUME tasks' = <<>>, Running' = {}, th' = 0, tasks_left' = T, mpc' = "submit"
  PROVE  TasksOK'
<1>1. Taken' = 0
  <2>1. Len(tasks') = 0 /\ Submitted' = 0
    BY DEF Submitted
  <2>2. Taken' = Submitted' - Len(tasks')
    BY DEF Taken
  <2> QED
    BY <2>1, <2>2
<1>2. Cardinality(Running') = 0
  BY FS_EmptySet
<1>3. 0 .. Taken' - 1 = {} /\ 1 .. Len(tasks') = {}
  BY <1>1
<1>4. tasks_left' = T - Taken' + Cardinality(Running')
  BY <1>1, <1>2, ThreadsPositive
<1> QED
  BY <1>1, <1>3, <1>4, ThreadsPositive DEF TasksOK

LEMMA PowLoopStep == ASSUME PowInv, PowLoop PROVE PowInv'
<1>1. /\ mpc = "while" /\ mpc' = "submit" /\ n > 0 /\ ~Multiplying /\ Multiplying'
      /\ left' = (IF n % 2 = 1 THEN "result" ELSE "base")
      /\ mats' = [mats EXCEPT !.transpose = mats.base] /\ tasks_left' = T /\ th' = 0
      /\ UNCHANGED <<tasks, wpc, task, power, n, row>>
  BY DEF PowLoop, Mat, Multiply, Multiplying, T, poolvars
<1>2. tasks = <<>> /\ Running = {} /\ Running' = {} /\ PowTypeOK /\ MatricesOK
  BY <1>1 DEF PowInv, Running
<1>3. /\ mats'.result = mats.result /\ mats'.base = mats.base /\ mats'.temp = mats.temp
      /\ mats'.transpose = mats.base /\ DOMAIN mats' = DOMAIN mats
  BY <1>1, <1>2 DEF PowTypeOK
<1>4. PowTypeOK'
  BY <1>1, <1>2, <1>3, ThreadsPositive DEF PowTypeOK
<1>5. MatricesOK'
  <2> DEFINE r == mats.result[0]
             b == mats.base[0]
             h == n \div 2
  <2>1. /\ r \in Nat /\ b \in Nat /\ mats.result = Matrix(r) /\ mats.base = Matrix(b)
        /\ r + b * n = power /\ n \in Nat
    BY <1>1, <1>2 DEF MatricesOK, PowTypeOK
  <2>2. n % 2 = 1 \/ r + 2 * b * h = power
    <3>1. h \in Nat /\ n % 2 \in {0, 1} /\ n = 2 * h + (n % 2)
      BY <2>1
    <3> HIDE DEF r, b, h
    <3>2. n % 2 = 0 => b * n = 2 * b * h
      BY <2>1, <3>1
    <3> QED
      BY <2>1, <3>1, <3>2
  <2> QED
    BY <1>1, <1>3, <2>1, <2>2 DEF MatricesOK
<1>6. TasksOK'
  BY <1>1, <1>2, MultiplyStarts
<1> QED
  BY <1>1, <1>4, <1>5, <1>6 DEF PowInv

(* When the spin ends, every task has run and temp is the product.          *)
LEMMA SpinEnds ==
  ASSUME PowInv, mpc = "spin", tasks_left <= 0
  PROVE  tasks = <<>> /\ Running = {} /\ mats.temp = [i \in RowSet |-> Product]
<1>1. /\ TasksOK /\ tasks \in Seq(Nat) /\ th = T /\ Running \in SUBSET Workers
      /\ mats.temp \in [RowSet -> Nat]
  BY DEF PowInv, Multiplying, PowTypeOK, TasksOK, Running
<1>2. tasks_left = T - Taken + Cardinality(Running) /\ Cardinality(Running) \in Nat
  BY <1>1, Sizes DEF TasksOK
<1>3. Taken = T - Len(tasks) /\ Len(tasks) \in Nat
  BY <1>1 DEF Taken, Submitted
<1>4. Len(tasks) = 0 /\ Cardinality(Running) = 0 /\ Taken = T
  BY <1>2, <1>3, ThreadsPositive
<1>5. tasks = <<>> /\ Running = {}
  BY <1>1, <1>4, WorkersAssumption, FS_Subset, FS_EmptySet
<1>6. ASSUME NEW i \in RowSet PROVE mats.temp[i] = Product
  <2>1. PICK t \in 0 .. T - 1 : i \in RowStart(t) .. RowEnd(t) - 1
    BY RowsCovered
  <2>2. RowsDone(t, RowEnd(t))
    BY <1>1, <1>4, <1>5 DEF TasksOK
  <2> QED
    BY <2>1, <2>2 DEF RowsDone
<1> QED
  BY <1>1, <1>5, <1>6

LEMMA CopyResultStep == ASSUME PowInv, CopyResult PROVE PowInv'
<1>1. /\ left = "result" /\ left' = "base" /\ mpc = "spin" /\ mpc' = "submit"
      /\ mats' = [mats EXCEPT !.result = mats.temp, !.transpose = mats.base]
      /\ tasks_left <= 0 /\ tasks_left' = T /\ th' = 0 /\ Multiplying /\ Multiplying'
      /\ UNCHANGED <<tasks, wpc, task, power, n, row>>
  BY DEF CopyResult, Mat, Multiplying, T, poolvars
<1>2. PowTypeOK /\ MatricesOK /\ Running' = Running
  BY <1>1 DEF PowInv, Running
<1>3. tasks = <<>> /\ Running = {} /\ mats.temp = [i \in RowSet |-> Product]
  BY <1>1, SpinEnds
<1>4. /\ mats'.result = mats.temp /\ mats'.base = mats.base /\ mats'.temp = mats.temp
      /\ mats'.transpose = mats.base /\ DOMAIN mats' = DOMAIN mats
  BY <1>1, <1>2 DEF PowTypeOK
<1>5. PowTypeOK'
  BY <1>1, <1>2, <1>4, ThreadsPositive DEF PowTypeOK
<1>6. MatricesOK'
  <2> DEFINE r == mats.result[0]
             b == mats.base[0]
             h == n \div 2
  <2>1. /\ r \in Nat /\ b \in Nat /\ mats.base = Matrix(b) /\ n % 2 = 1
        /\ r + b * n = power /\ n > 0 /\ n \in Int /\ Product = r + b
    BY <1>1, <1>2 DEF MatricesOK, PowTypeOK, Product
  <2>2. mats.temp = Matrix(r + b) /\ mats.temp[0] = r + b
    BY <1>3, <2>1, MatrixFacts DEF Matrix, RowSet
  <2>3. (r + b) + 2 * b * h = power
    <3>1. h \in Nat /\ n = 2 * h + 1
      BY <2>1
    <3> HIDE DEF r, b, h
    <3>2. b * n = 2 * b * h + b
      BY <2>1, <3>1
    <3> DEFINE x == 2 * b * h
    <3>3. x \in Int
      BY <2>1, <3>1
    <3>4. r + (x + b) = power
      BY <2>1, <3>2
    <3> HIDE DEF x
    <3> QED
      BY <2>1, <3>3, <3>4 DEF x
  <2> QED
    BY <1>1, <1>4, <2>1, <2>2, <2>3 DEF MatricesOK
<1>7. TasksOK'
  BY <1>1, <1>2, <1>3, MultiplyStarts
<1> QED
  BY <1>1, <1>5, <1>6, <1>7 DEF PowInv

LEMMA CopyBaseStep == ASSUME PowInv, CopyBase PROVE PowInv'
<1>1. /\ left = "base" /\ mpc = "spin" /\ mpc' = "while" /\ n' = n \div 2
      /\ mats' = [mats EXCEPT !.base = mats.temp]
      /\ tasks_left <= 0 /\ Multiplying /\ ~Multiplying'
      /\ UNCHANGED <<tasks, wpc, task, power, left, tasks_left, th, row>>
  BY DEF CopyBase, Mat, Multiplying, poolvars
<1>2. PowTypeOK /\ MatricesOK /\ Running' = Running
  BY <1>1 DEF PowInv, Running
<1>3. tasks = <<>> /\ Running = {} /\ mats.temp = [i \in RowSet |-> Product]
  BY <1>1, SpinEnds
<1>4. /\ mats'.result = mats.result /\ mats'.base = mats.temp /\ mats'.temp = mats.temp
      /\ DOMAIN mats' = DOMAIN mats
  BY <1>1, <1>2 DEF PowTypeOK
<1>5. PowTypeOK'
  BY <1>1, <1>2, <1>4 DEF PowTypeOK
<1>6. MatricesOK'
  <2> DEFINE r == mats.result[0]
             b == mats.base[0]
             h == n \div 2
  <2>1. /\ r \in Nat /\ b \in Nat /\ mats.result = Matrix(r) /\ n \in Int
        /\ r + 2 * b * h = power /\ Product = b + b
    BY <1>1, <1>2 DEF MatricesOK, PowTypeOK, Product
  <2>2. mats.temp = Matrix(b + b) /\ mats.temp[0] = b + b
    BY <1>3, <2>1, MatrixFacts DEF Matrix, RowSet
  <2>3. r + (b + b) * h = power
    <3>1. h \in Int
      BY <2>1
    <3> HIDE DEF r, b, h
    <3>2. (b + b) * h = 2 * b * h
      BY <2>1, <3>1
    <3> QED
      BY <2>1, <3>2
  <2> QED
    BY <1>1, <1>4, <2>1, <2>2, <2>3 DEF MatricesOK
<1> QED
  BY <1>1, <1>2, <1>3, <1>5, <1>6 DEF PowInv

LEMMA PowEndStep == ASSUME PowInv, PowEnd \/ PowReturn PROVE PowInv'
<1>1. /\ mpc \in {"while", "return"} /\ mpc' \in {"return", "returned"}
      /\ UNCHANGED <<tasks, wpc, task, power, n, mats, left, tasks_left, th, row>>
  BY DEF PowEnd, PowReturn, Mat, DestroySet, DestroyJoin
<1>2. ~Multiplying /\ ~Multiplying' /\ Running' = Running
  BY <1>1 DEF Multiplying, Running
<1> QED
  BY <1>1, <1>2 DEF PowInv, PowTypeOK, MatricesOK

LEMMA PowInvNext == PowInv /\ [PowNext]_powvars => PowInv'
<1> SUFFICES ASSUME PowInv, [PowNext]_powvars PROVE PowInv'
  OBVIOUS
<1>1. wpc \in [Workers -> {"wait", "run", "gone"}]
  BY DEF PowInv, PowTypeOK
<1>2. CASE UNCHANGED powvars
  BY <1>1, <1>2, PoolStep DEF powvars, poolvars, Running
<1>3. CASE PoolOnly(DestroyNotify)
  BY <1>1, <1>3, PoolStep DEF PoolOnly, DestroyNotify, Running
<1>4. ASSUME NEW w \in Workers,
             PoolOnly(WorkerSleep(w)) \/ PoolOnly(WorkerExit(w)) \/ PoolOnly(SpuriousWakeup(w))
      PROVE  PowInv'
  <2>1. UNCHANGED <<matvars, tasks, task>>
    BY <1>4 DEF PoolOnly, WorkerSleep, WorkerExit, SpuriousWakeup
  <2>2. Running' = Running /\ wpc' \in [Workers -> {"wait", "run", "gone"}]
    BY <1>1, <1>4 DEF PoolOnly, WorkerSleep, WorkerExit, SpuriousWakeup, AtWait, Running
  <2> QED
    BY <2>1, <2>2, PoolStep
<1> QED
  BY <1>2, <1>3, <1>4, TaskBeginStep, TaskRowStep, TaskEndStep, SubmitTaskStep,
     SubmitReturnStep, PowLoopStep, CopyResultStep, CopyBaseStep, PowEndStep
  DEF PowNext, Pow, PoolWorker

LEMMA PowInductive == PowSpec => []PowInv
BY PowInvInit, PowInvNext, PTL DEF PowSpec

(* The binary exponentiation, whatever the workers do when: between two     *)
(* products result and base are whole powers and A^result * (A^base)^n is   *)
(* A^power; a row computed from a half-copied matrix, a row left out or a   *)
(* counter that is low too early would break it.                            *)
THEOREM PowerRight == PowSpec => []PowerInvariant
<1>1. PowInv => PowerInvariant
  BY PoolAssumption DEF PowInv, MatricesOK, Multiplying, PowerInvariant
<1> QED
  BY <1>1, PowInductive, PTL

(* n is counted down to 0, and mat_pow returns only then.                   *)
CountOK ==
    /\ power >= 0 => n >= 0
    /\ mpc \in {"return", "returned"} => n <= 0

LEMMA CountNext == PowInv /\ CountOK /\ [PowNext]_powvars => CountOK'
<1> SUFFICES ASSUME PowInv, CountOK, [PowNext]_powvars PROVE CountOK'
  OBVIOUS
<1>1. n \in Int /\ (mpc = "spin" => n > 0)
  BY DEF PowInv, PowTypeOK, MatricesOK, Multiplying
<1>2. CASE UNCHANGED <<power, n, mpc>>
  BY <1>2 DEF CountOK
<1>3. CASE SubmitTask \/ SubmitReturn \/ PowLoop \/ CopyResult
  <2>1. UNCHANGED <<power, n>> /\ mpc' \in {"submit", "submitted", "spin"}
    BY <1>3 DEF SubmitTask, SubmitReturn, PowLoop, CopyResult, Mat
  <2> QED
    BY <2>1 DEF CountOK
<1>4. CASE CopyBase
  <2>1. n > 0 /\ n' = n \div 2 /\ power' = power /\ mpc' = "while"
    BY <1>1, <1>4 DEF CopyBase, Mat
  <2>2. n' >= 0
    BY <1>1, <2>1
  <2> QED
    BY <2>1, <2>2 DEF CountOK
<1>5. CASE PowEnd \/ PowReturn
  BY <1>5 DEF PowEnd, PowReturn, Mat, CountOK
<1>6. CASE PoolOnly(DestroyNotify)
  BY <1>2, <1>6 DEF PoolOnly, matvars
<1>7. ASSUME NEW w \in Workers, PoolWorker(w) \/ PoolOnly(SpuriousWakeup(w)) PROVE CountOK'
  BY <1>2, <1>7 DEF PoolWorker, PoolOnly, TaskBegin, TaskRow, TaskEnd, matvars
<1>8. CASE UNCHANGED powvars
  BY <1>2, <1>8 DEF powvars, matvars
<1> QED
  BY <1>3, <1>4, <1>5, <1>6, <1>7, <1>8 DEF PowNext, Pow

(* What mat_pow returns is the power that was asked for.                    *)
THEOREM ResultRight ==
  PowSpec => [](mpc = "returned" /\ power >= 0 => mats.result = Matrix(power))
<1>1. PowInit => CountOK
  BY PoolAssumption DEF PowInit, CountOK
<1>2. PowInv /\ CountOK => (mpc = "returned" /\ power >= 0 => mats.result = Matrix(power))
  <2> SUFFICES ASSUME PowInv, CountOK, mpc = "returned", power >= 0
               PROVE  mats.result = Matrix(power)
    OBVIOUS
  <2>1. n = 0
    BY DEF CountOK, PowInv, PowTypeOK
  <2>2. /\ mats.result[0] \in Nat /\ mats.base[0] \in Nat
        /\ mats.result = Matrix(mats.result[0])
        /\ mats.result[0] + mats.base[0] * n = power
    BY DEF PowInv, MatricesOK, Multiplying
  <2>3. mats.result[0] = power
    BY <2>1, <2>2
  <2> QED
    BY <2>2, <2>3
<1> QED
  BY <1>1, <1>2, CountNext, PowInductive, PTL DEF PowSpec

(* No task runs or waits when mat_multiply, whose stack it uses, returned.  *)
THEOREM TasksEnd == PowSpec => []NoTaskOutlivesCall
<1>1. PowInv => NoTaskOutlivesCall
  BY DEF PowInv, PowTypeOK, Multiplying, Running, NoTaskOutlivesCall
<1> QED
  BY <1>1, PowInductive, PTL
=============================================================================
