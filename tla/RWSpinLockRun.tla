---------------------------- MODULE RWSpinLockRun ----------------------------
(****************************************************************************)
(* The benchmark ReadsWrites of src/tasks/rw-spinlock/run.cpp: some threads *)
(* lock for reading and unlock, the others lock for writing and check that  *)
(* they are alone by a shared counter, each a number of times.              *)
(****************************************************************************)
EXTENDS RWSpinLock

CONSTANTS
    ReadThreads,    \* the threads that read; the others write
    Rounds          \* bound: how often KeepRunning() says yes to a thread

VARIABLES
    round,          \* round[t]: the rounds t has begun
    counter,        \* the writers' shared counter
    check           \* check[t]: how far t's check has come

runvars == <<vars, round, counter, check>>

RunInit ==
    /\ Init
    /\ round = [t \in Threads |-> 0]
    /\ counter = 0
    /\ check = [t \in Threads |-> "none"]

(* A round begins with the call of LockRead or LockWrite.                   *)
Begin(t) ==
    /\ round[t] < Rounds
    /\ round' = [round EXCEPT ![t] = @ + 1]
    /\ IF t \in ReadThreads THEN CallLockRead(t) ELSE CallLockWrite(t)
    /\ UNCHANGED <<counter, check>>

(* if (counter++) throw; counter--;                                         *)
Increment(t) ==
    /\ pc[t] = "writing" /\ check[t] = "none"
    /\ check' = [check EXCEPT ![t] = IF counter = 0 THEN "counted" ELSE "threw"]
    /\ counter' = counter + 1
    /\ UNCHANGED <<vars, round>>

Decrement(t) ==
    /\ pc[t] = "writing" /\ check[t] = "counted"
    /\ check' = [check EXCEPT ![t] = "done"]
    /\ counter' = counter - 1
    /\ UNCHANGED <<vars, round>>

End(t) ==
    /\ pc[t] = "writing" => check[t] = "done"
    /\ Unlock(t)
    /\ check' = [check EXCEPT ![t] = "none"]
    /\ UNCHANGED <<round, counter>>

RunStep(t) ==
    \/ Begin(t)
    \/ Acquire(t) /\ UNCHANGED <<round, counter, check>>
    \/ Increment(t)
    \/ Decrement(t)
    \/ End(t)

Finished == \A t \in Threads : pc[t] = "idle" /\ round[t] = Rounds

RunNext ==
    \/ \E t \in Threads : RunStep(t)
    \/ Finished /\ UNCHANGED runvars

(* The weakest scheduling there is: as long as something can change, some   *)
(* thread changes something, no matter which.                               *)
RunSpec == RunInit /\ [][RunNext]_runvars /\ WF_runvars(RunNext)

-----------------------------------------------------------------------------
(* Line 20: "invalid counter" is never thrown.                              *)
NeverInvalid == \A t \in Threads : check[t] # "threw"

(* No livelock, even under a scheduler that may neglect any thread: a       *)
(* compare-exchange only fails because another one succeeded, so a finite   *)
(* number of rounds ends.                                                   *)
RunEnds == <>Finished
=============================================================================
