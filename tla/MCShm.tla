-------------------------------- MODULE MCShm --------------------------------
(* The programs of src/tasks/shm-matrix, one of three from the start: the   *)
(* thread pool in the hands of any program that submits and destroys at any *)
(* time; the pool in the hands of mat_pow; and the two processes, for which *)
(* a mat_pow is one step.  Two parts of the state idle in each, so that the *)
(* state spaces add up: mpc is "elsewhere" when nobody is in mat_pow, and   *)
(* tester "nowhere" when there are no two processes.                        *)
EXTENDS MCShmMatrix, MatPow

allvars == <<shmvars, powvars>>

Anybody == mpc = "elsewhere" /\ tester = "nowhere"
InPow == mpc # "elsewhere"
Processes == tester # "nowhere"

(* The idle parts.                                                          *)
NoPow ==
    /\ Init /\ task = [w \in Workers |-> 0]
    /\ mpc = "elsewhere"
    /\ power = 0 /\ n = 0 /\ tasks_left = 0 /\ th = 0
    /\ mats = [k \in {"result", "base", "temp", "transpose"} |-> Matrix(0)]
    /\ left = "result"
    /\ row = [w \in Workers |-> 0]

NoProcesses ==
    /\ tester = "nowhere"
    /\ flag = CALC_FINISHED /\ st = CALC_FINISHED /\ pc = "poll"
    /\ header = [n |-> 0, m |-> 0] /\ local = header
    /\ matrix = Nothing /\ result = [of |-> Nothing, n |-> 0]
    /\ asked = <<>> /\ answers = <<>>

ProgramsInit ==
    \/ NoPow /\ NoProcesses
    \/ PowInit /\ NoProcesses
    \/ NoPow /\ ShmInit

ByAnybody(A) == Anybody /\ PoolOnly(A) /\ UNCHANGED shmvars
ByPow(A) == InPow /\ A /\ UNCHANGED shmvars
ByProcesses(A) == Processes /\ A /\ UNCHANGED powvars

ProgramsNext == ByAnybody(Next) \/ ByPow(PowNext) \/ ByProcesses(ShmNext)

(* The fairness of ThreadPool, of MatPow and of ShmMatrix.                  *)
ProgramsFairness ==
    /\ WF_allvars(ByAnybody(OwnerInside)) /\ WF_allvars(ByPow(Pow))
    /\ WF_allvars(ByProcesses(ShmMatrix)) /\ WF_allvars(ByProcesses(TesterPy))
    /\ \A w \in Workers :
         /\ WF_allvars(ByAnybody(Worker(w)))
         /\ WF_allvars(ByAnybody(WorkerLoop(w)))
         /\ WF_allvars(ByPow(PoolWorker(w)))

ProgramsSpec == ProgramsInit /\ [][ProgramsNext]_allvars /\ ProgramsFairness
=============================================================================
