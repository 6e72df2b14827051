------------------------------ MODULE ShmMatrix ------------------------------
(****************************************************************************)
(* src/tasks/shm-matrix: main.cpp and its peer tester.py, two processes on  *)
(* one shared region: a flag, the header (n and m), the matrix and, behind  *)
(* it, the result.  A matrix is its name, and A to the n is <<A, n>>.  The  *)
(* computation itself is MatPow's; here it is one step that reads the       *)
(* region and one that writes to it.                                        *)
(* An operator named X_Y is a slip Y in X that the properties must notice.  *)
(****************************************************************************)
EXTENDS MatUtil, Sequences

CONSTANTS
    Requests,   \* what tester.py may ask: records of n, m and matrix
    Rounds      \* how many requests it makes: 4

DATA_READY == 0
CALC_STARTED == 1
CALC_FINISHED == 2
STOP_AND_EXIT == -1

VARIABLES
    flag, header, matrix, result,   \* the shared region; header is n and m
    pc,         \* where shm-matrix is
    st,         \* its local variable st
    local,      \* the request it read from the region
    tester,     \* where tester.py is
    asked,      \* its requests so far
    answers     \* the results it has taken from the region

shmvars == <<flag, header, matrix, result, pc, st, local, tester, asked, answers>>

Nothing == "nothing"

(* tester.py creates the region (lines 11-15) and starts shm-matrix.        *)
ShmInit ==
    /\ flag = CALC_FINISHED
    /\ header = [n |-> 0, m |-> 0]
    /\ matrix = Nothing /\ result = [of |-> Nothing, n |-> 0]
    /\ pc = "poll"
    /\ st = CALC_FINISHED
    /\ local = [n |-> 0, m |-> 0]
    /\ tester = "header"
    /\ asked = <<>>
    /\ answers = <<>>

-----------------------------------------------------------------------------
(* shm-matrix                                                               *)

Server(from, to) ==
    /\ pc = from /\ pc' = to
    /\ UNCHANGED <<header, matrix, tester, asked, answers>>

Load_NotFinished ==
    /\ pc = "poll"
    /\ st' = flag
    /\ Server("poll", IF flag = STOP_AND_EXIT THEN "exited" ELSE "started")
    /\ UNCHANGED <<flag, result, local>>

(* The polling loop, lines 55-61.                                           *)
Load ==
    /\ st' = flag
    /\ Server("poll", CASE flag = DATA_READY -> "started"
                        [] flag = STOP_AND_EXIT -> "exited"
                        [] OTHER -> "poll")
    /\ UNCHANGED <<flag, result, local>>

Start_Finished ==
    /\ Server("started", "read")
    /\ flag' = CALC_FINISHED
    /\ UNCHANGED <<st, local, result>>

Start ==
    /\ Server("started", "read")
    /\ flag' = CALC_STARTED
    /\ UNCHANGED <<st, local, result>>

ReadHeader ==
    /\ Server("read", "pow")
    /\ local' = header
    /\ UNCHANGED <<flag, st, result>>

(* mat_pow: without a thread matutil.cpp:50 divides by zero, and the        *)
(* process dies.                                                            *)
Power ==
    /\ Server("pow", IF Threads(local.m) = 0 THEN "crashed" ELSE "finish")
    /\ result' = IF Threads(local.m) = 0 THEN result ELSE [of |-> matrix, n |-> local.n]
    /\ UNCHANGED <<flag, st, local>>

Finish_Ready ==
    /\ Server("finish", "poll")
    /\ flag' = DATA_READY
    /\ UNCHANGED <<st, local, result>>

Finish ==
    /\ Server("finish", "poll")
    /\ flag' = CALC_FINISHED
    /\ UNCHANGED <<st, local, result>>

ShmMatrix == Load \/ Start \/ ReadHeader \/ Power \/ Finish

-----------------------------------------------------------------------------
(* tester.py                                                                *)

Tester(from, to) ==
    /\ tester = from /\ tester' = to
    /\ UNCHANGED <<pc, st, local, result>>

Current == asked[Len(asked)]

WriteHeader ==
    /\ Tester("header", "matrix")
    /\ \E r \in Requests :
         /\ asked' = Append(asked, r)
         /\ header' = [n |-> r.n, m |-> r.m]
    /\ UNCHANGED <<flag, matrix, answers>>

WriteMatrix ==
    /\ Tester("matrix", "ready")
    /\ matrix' = Current.matrix
    /\ UNCHANGED <<flag, header, asked, answers>>

WriteReady ==
    /\ Tester("ready", "wait")
    /\ flag' = DATA_READY
    /\ UNCHANGED <<header, matrix, asked, answers>>

(* Lines 74-80: poll for the result and take it; lines 57 and 88: the next  *)
(* request, or the stop.                                                    *)
TakeResult ==
    /\ flag = CALC_FINISHED
    /\ Tester("wait", IF Len(asked) < Rounds THEN "header" ELSE "stop")
    /\ answers' = Append(answers, result)
    /\ UNCHANGED <<flag, header, matrix, asked>>

WriteStop ==
    /\ Tester("stop", "join")
    /\ flag' = STOP_AND_EXIT
    /\ UNCHANGED <<header, matrix, asked, answers>>

Join ==
    /\ pc = "exited"
    /\ Tester("join", "passed")
    /\ UNCHANGED <<flag, header, matrix, asked, answers>>

TesterPy == WriteHeader \/ WriteMatrix \/ WriteReady \/ TakeResult \/ WriteStop \/ Join

ShmNext == ShmMatrix \/ TesterPy \/ (tester = "passed" /\ UNCHANGED shmvars)

ShmSpec == ShmInit /\ [][ShmNext]_shmvars /\ WF_shmvars(ShmMatrix) /\ WF_shmvars(TesterPy)

-----------------------------------------------------------------------------
(* Lines 81-84 of tester.py: every answer is the power of its own request,  *)
(* never one of an earlier matrix or exponent.                              *)
AnswersCorrect ==
    \A i \in 1 .. Len(answers) :
        answers[i] = [of |-> asked[i].matrix, n |-> asked[i].n]

(* The header and the matrix are never read and written at once: while      *)
(* shm-matrix is between the poll and the end of its computation, tester.py *)
(* only waits, and what it wrote is still there.                            *)
RegionOwned ==
    pc \in {"started", "read", "pow", "finish"} =>
        /\ tester = "wait"
        /\ header = [n |-> Current.n, m |-> Current.m] /\ matrix = Current.matrix

(* Lines 88-91 of tester.py: every request is answered, and shm-matrix      *)
(* exits with 0 after the stop.                                             *)
TesterPasses ==
    tester = "header" ~> tester = "passed" /\ Len(answers) = Rounds
=============================================================================
