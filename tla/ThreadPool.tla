----------------------------- MODULE ThreadPool ------------------------------
(****************************************************************************)
(* src/tasks/shm-matrix/src/threadpool.cpp: a queue of tasks, a flag        *)
(* `done`, one mutex and one condition variable.  One thread owns the pool: *)
(* it submits tasks and finally destroys the pool; the workers take tasks   *)
(* until the pool is done and the queue is empty.                           *)
(*                                                                          *)
(* A critical section is one step; the notifications of submit and of the   *)
(* destructor come after it, without the mutex, and are steps of their own. *)
(* What a task does, and when the owner submits, is left to the module that *)
(* uses the pool; Next has an owner that submits anything at any time.      *)
(* An operator named X_Y is a slip Y in X that the properties must notice.  *)
(****************************************************************************)
EXTENDS Integers, Sequences, FiniteSets

CONSTANTS
    Workers,    \* the pool's threads
    Tasks,      \* what can be submitted
    QueueBound  \* bound: the owner of Next submits into a shorter queue only

ASSUME WorkersAssumption == IsFiniteSet(Workers)

VARIABLES
    tasks,      \* the queue
    done,
    sleepers,   \* the workers asleep in cv.wait
    wpc,        \* wpc[w]: worker w is at "wait", at its task, "run", or gone
    task,       \* task[w]: w's local variable `task`
    owner       \* where the owner is

poolvars == <<tasks, done, sleepers, wpc, task, owner>>

Init ==
    /\ tasks = <<>>
    /\ done = FALSE
    /\ sleepers = {}
    /\ wpc = [w \in Workers |-> "wait"]
    /\ task \in [Workers -> Tasks]
    /\ owner = "out"

NotifyOne(S) == IF S = {} THEN {{}} ELSE {S \ {w} : w \in S}

-----------------------------------------------------------------------------
(* A worker that has, or gets, the mutex.                                   *)

AtWait(w) == wpc[w] = "wait" /\ w \notin sleepers

WorkerSleep(w) ==
    /\ AtWait(w)
    /\ ~done /\ tasks = <<>>
    /\ sleepers' = sleepers \union {w}
    /\ UNCHANGED <<tasks, done, wpc, task, owner>>

WorkerExit_WhenDone(w) ==
    /\ AtWait(w)
    /\ done
    /\ wpc' = [wpc EXCEPT ![w] = "gone"]
    /\ UNCHANGED <<tasks, done, sleepers, task, owner>>

WorkerExit(w) ==
    /\ AtWait(w)
    /\ done /\ tasks = <<>>
    /\ wpc' = [wpc EXCEPT ![w] = "gone"]
    /\ UNCHANGED <<tasks, done, sleepers, task, owner>>

WorkerTake(w) ==
    /\ AtWait(w)
    /\ tasks # <<>>
    /\ task' = [task EXCEPT ![w] = Head(tasks)]
    /\ tasks' = Tail(tasks)
    /\ wpc' = [wpc EXCEPT ![w] = "run"]
    /\ UNCHANGED <<done, sleepers, owner>>

(* task() has returned.                                                     *)
WorkerLoop(w) ==
    /\ wpc[w] = "run"
    /\ wpc' = [wpc EXCEPT ![w] = "wait"]
    /\ UNCHANGED <<tasks, done, sleepers, task, owner>>

SpuriousWakeup(w) ==
    /\ w \in sleepers
    /\ sleepers' = sleepers \ {w}
    /\ UNCHANGED <<tasks, done, wpc, task, owner>>

Worker(w) == WorkerSleep(w) \/ WorkerExit(w) \/ WorkerTake(w)

-----------------------------------------------------------------------------
(* The owner: submit, in two steps, and the destructor, in three.           *)

Owner(from, to) == owner = from /\ owner' = to

SubmitPush(t) ==
    /\ Owner("out", "notify_one")
    /\ tasks' = Append(tasks, t)
    /\ UNCHANGED <<done, sleepers, wpc, task>>

SubmitNotify_IfOneTask ==
    /\ Owner("notify_one", "out")
    /\ sleepers' \in IF Len(tasks) = 1 THEN NotifyOne(sleepers) ELSE {sleepers}
    /\ UNCHANGED <<tasks, done, wpc, task>>

SubmitNotify ==
    /\ Owner("notify_one", "out")
    /\ sleepers' \in NotifyOne(sleepers)
    /\ UNCHANGED <<tasks, done, wpc, task>>

DestroySet ==
    /\ Owner("out", "notify_all")
    /\ done' = TRUE
    /\ UNCHANGED <<tasks, sleepers, wpc, task>>

DestroyNotify_One ==
    /\ Owner("notify_all", "join")
    /\ sleepers' \in NotifyOne(sleepers)
    /\ UNCHANGED <<tasks, done, wpc, task>>

DestroyNotify ==
    /\ Owner("notify_all", "join")
    /\ sleepers' = {}
    /\ UNCHANGED <<tasks, done, wpc, task>>

DestroyJoin ==
    /\ Owner("join", "destroyed")
    /\ \A w \in Workers : wpc[w] = "gone"
    /\ UNCHANGED <<tasks, done, sleepers, wpc, task>>

OwnerInside == SubmitNotify \/ DestroyNotify \/ DestroyJoin

-----------------------------------------------------------------------------
Next ==
    \/ \E w \in Workers : Worker(w) \/ WorkerLoop(w) \/ SpuriousWakeup(w)
    \/ \E t \in Tasks : Len(tasks) < QueueBound /\ SubmitPush(t)
    \/ DestroySet
    \/ OwnerInside
    \/ owner = "destroyed" /\ UNCHANGED poolvars

Safety == Init /\ [][Next]_poolvars

(* The processor and the mutex come to everyone who can use them, and tasks *)
(* return.  Nobody has to submit or to destroy.                             *)
Fairness ==
    /\ \A w \in Workers : WF_poolvars(Worker(w)) /\ WF_poolvars(WorkerLoop(w))
    /\ WF_poolvars(OwnerInside)

Spec == Safety /\ Fairness

-----------------------------------------------------------------------------
(* The type invariant, with the place of the sleepers and the states of the *)
(* owner in which the pool is done.                                         *)
TypeOK ==
    /\ tasks \in Seq(Tasks)
    /\ done \in BOOLEAN
    /\ wpc \in [Workers -> {"wait", "run", "gone"}]
    /\ sleepers \subseteq {w \in Workers : wpc[w] = "wait"}
    /\ task \in [Workers -> Tasks]
    /\ owner \in {"out", "notify_one", "notify_all", "join", "destroyed"}
    /\ done <=> owner \in {"notify_all", "join", "destroyed"}

AwakeWorkers == {w \in Workers : AtWait(w)}

(* While a worker sleeps, every queued task has an awake worker of its own, *)
(* or the owner is about to wake one: the notification outside the mutex    *)
(* (threadpool.cpp:37) may come late, but it is never one too few.          *)
NoLostTask ==
    sleepers # {} /\ ~done =>
        Len(tasks) <= Cardinality(AwakeWorkers) + (IF owner = "notify_one" THEN 1 ELSE 0)

(* And the destructor wakes everybody: whoever sleeps in a pool that is     *)
(* done sleeps before the broadcast.                                        *)
DoneWakesAll == done /\ sleepers # {} => owner = "notify_all"

NoLostWakeup == NoLostTask /\ DoneWakesAll

(* The destructor drops nothing: when the workers are joined the queue is   *)
(* empty and no task is running.  No worker leaves before the queue is      *)
(* empty, although `done` is set while tasks are waiting.                   *)
DestroyedEmpty ==
    (\E w \in Workers : wpc[w] = "gone") => done /\ tasks = <<>>

(* The destructor returns.                                                  *)
DestroyReturns == (owner = "notify_all") ~> (owner = "destroyed")
=============================================================================
