--------------------------- MODULE ShmMatrixProofs ---------------------------
(****************************************************************************)
(* The flag protocol of ShmMatrix, for any requests, any number of rounds   *)
(* and any number of hardware threads (the one that crashes it included):   *)
(* the flag says whose turn it is, and whose turn it is says what lies in   *)
(* the region.                                                              *)
(****************************************************************************)
EXTENDS ShmMatrix, TLAPS

Answer(r) == [of |-> r.matrix, n |-> r.n]

Types ==
    /\ asked \in Seq(Requests)
    /\ answers \in Seq({Answer(r) : r \in Requests})

HeaderWritten == header = [n |-> Current.n, m |-> Current.m]
MatrixWritten == matrix = Current.matrix
Pending == Len(asked) = Len(answers) + 1
Quiet == flag = CALC_FINISHED /\ pc = "poll"

(* The turns.  While tester.py waits the request is there, and the flag     *)
(* follows shm-matrix from the poll to the result.                          *)
Working ==
    \/ flag = DATA_READY /\ pc \in {"poll", "started"}
    \/ flag = CALC_STARTED /\ pc = "read"
    \/ flag = CALC_STARTED /\ pc \in {"pow", "crashed"} /\ local.n = Current.n
    \/ flag = CALC_STARTED /\ pc = "finish" /\ result = Answer(Current)
    \/ Quiet /\ result = Answer(Current)

Turn ==
    \/ tester = "header" /\ Quiet /\ Len(asked) = Len(answers)
    \/ tester = "matrix" /\ Quiet /\ Pending /\ HeaderWritten
    \/ tester = "ready" /\ Quiet /\ Pending /\ HeaderWritten /\ MatrixWritten
    \/ tester = "wait" /\ Working /\ Pending /\ HeaderWritten /\ MatrixWritten
    \/ tester = "stop" /\ Quiet /\ Len(asked) = Len(answers)
    \/ /\ tester \in {"join", "passed"} /\ Len(asked) = Len(answers)
       /\ flag = STOP_AND_EXIT /\ pc \in {"poll", "exited"}

Answered == \A i \in 1 .. Len(answers) : answers[i] = Answer(asked[i])

IInv == Types /\ Turn /\ Answered

LEMMA Inits == ShmInit => IInv
<1> SUFFICES ASSUME ShmInit PROVE IInv
  OBVIOUS
<1>1. asked = <<>> /\ answers = <<>> /\ tester = "header" /\ Quiet
  BY DEF ShmInit, Quiet
<1> QED
  BY <1>1 DEF IInv, Types, Turn, Answered

(* A step of shm-matrix: it is tester.py that waits, or the stop.           *)
LEMMA ServerStep == ASSUME IInv, ShmMatrix PROVE IInv'
<1>1. /\ UNCHANGED <<header, matrix, tester, asked, answers>>
      /\ Types' /\ Answered' /\ Current' = Current
  BY DEF ShmMatrix, Load, Start, ReadHeader, Power, Finish, Server, IInv, Types, Answered, Current
<1>2. CASE Load
  BY <1>1, <1>2 DEF Load, Server, IInv, Turn, Working, Quiet, Pending, HeaderWritten,
     MatrixWritten, DATA_READY, CALC_STARTED, CALC_FINISHED, STOP_AND_EXIT
<1>3. CASE Start
  BY <1>1, <1>3 DEF Start, Server, IInv, Turn, Working, Quiet, Pending, HeaderWritten,
     MatrixWritten, DATA_READY, CALC_STARTED, CALC_FINISHED, STOP_AND_EXIT
<1>4. CASE ReadHeader
  BY <1>1, <1>4 DEF ReadHeader, Server, IInv, Turn, Working, Quiet, Pending, HeaderWritten,
     MatrixWritten
<1>5. CASE Power
  BY <1>1, <1>5 DEF Power, Server, IInv, Turn, Working, Quiet, Pending, HeaderWritten,
     MatrixWritten, Answer
<1>6. CASE Finish
  BY <1>1, <1>6 DEF Finish, Server, IInv, Turn, Working, Quiet, Pending, HeaderWritten,
     MatrixWritten, Answer
<1> QED
  BY <1>2, <1>3, <1>4, <1>5, <1>6 DEF ShmMatrix

LEMMA TesterStep == ASSUME IInv, TesterPy PROVE IInv'
<1>1. UNCHANGED <<pc, st, local, result>> /\ Len(asked) \in Nat /\ Len(answers) \in Nat
  BY DEF TesterPy, WriteHeader, WriteMatrix, WriteReady, TakeResult, WriteStop, Join, Tester,
     IInv, Types
<1>2. CASE WriteHeader
  <2>1. PICK r \in Requests : asked' = Append(asked, r) /\ header' = [n |-> r.n, m |-> r.m]
    BY <1>2 DEF WriteHeader
  <2>2. /\ tester' = "matrix" /\ Quiet /\ Len(asked) = Len(answers)
        /\ answers' = answers /\ flag' = flag
    BY <1>2 DEF WriteHeader, Tester, IInv, Turn
  <2>3. /\ asked' \in Seq(Requests) /\ Len(asked') = Len(asked) + 1 /\ asked'[Len(asked')] = r
        /\ \A i \in 1 .. Len(asked) : asked'[i] = asked[i]
    BY <2>1 DEF IInv, Types
  <2>4. Types' /\ Answered'
    BY <2>2, <2>3 DEF IInv, Types, Answered
  <2>5. Turn'
    BY <1>1, <2>1, <2>2, <2>3 DEF Turn, Quiet, Pending, HeaderWritten, Current
  <2> QED
    BY <2>4, <2>5 DEF IInv
<1>3. CASE WriteMatrix
  <2>1. UNCHANGED <<flag, header, asked, answers>> /\ matrix' = Current.matrix /\ Current' = Current
    BY <1>3 DEF WriteMatrix, Current
  <2> QED
    BY <1>1, <1>3, <2>1 DEF WriteMatrix, Tester, IInv, Types, Answered, Turn, Quiet, Pending,
       HeaderWritten, MatrixWritten
<1>4. CASE WriteReady
  <2>1. UNCHANGED <<header, matrix, asked, answers>> /\ Current' = Current
    BY <1>4 DEF WriteReady, Current
  <2> QED
    BY <1>1, <1>4, <2>1 DEF WriteReady, Tester, IInv, Types, Answered, Turn, Working, Quiet,
       Pending, HeaderWritten, MatrixWritten
<1>5. CASE TakeResult
  <2>1. /\ UNCHANGED <<flag, header, matrix, asked>> /\ answers' = Append(answers, result)
        /\ flag = CALC_FINISHED /\ tester = "wait" /\ tester' \in {"header", "stop"}
    BY <1>5 DEF TakeResult, Tester
  <2>2. Quiet /\ result = Answer(Current) /\ Len(asked) = Len(answers) + 1
    BY <2>1 DEF IInv, Turn, Working, Pending, Quiet, DATA_READY, CALC_STARTED, CALC_FINISHED
  <2>3. Current \in Requests /\ Current = asked[Len(answers) + 1]
    BY <1>1, <2>2 DEF IInv, Types, Current
  <2>4. /\ answers' \in Seq({Answer(r) : r \in Requests}) /\ Len(answers') = Len(answers) + 1
        /\ answers'[Len(answers) + 1] = Answer(Current)
        /\ \A i \in 1 .. Len(answers) : answers'[i] = answers[i]
    <3>1. result \in {Answer(r) : r \in Requests}
      BY <2>2, <2>3
    <3>2. answers \in Seq({Answer(r) : r \in Requests})
      BY DEF IInv, Types
    <3> QED
      BY <2>1, <2>2, <3>1, <3>2
  <2>5. Types' /\ Answered'
    BY <1>1, <2>1, <2>3, <2>4 DEF IInv, Types, Answered
  <2>6. Turn'
    BY <1>1, <2>1, <2>2, <2>4 DEF Turn, Quiet
  <2> QED
    BY <2>5, <2>6 DEF IInv
<1>6. CASE WriteStop
  BY <1>1, <1>6 DEF WriteStop, Tester, IInv, Types, Answered, Turn, Quiet
<1>7. CASE Join
  BY <1>1, <1>7 DEF Join, Tester, IInv, Types, Answered, Turn
<1> QED
  BY <1>2, <1>3, <1>4, <1>5, <1>6, <1>7 DEF TesterPy

LEMMA Inductive == ShmSpec => []IInv
<1>1. IInv /\ [ShmNext]_shmvars => IInv'
  <2> SUFFICES ASSUME IInv, [ShmNext]_shmvars PROVE IInv'
    OBVIOUS
  <2>1. CASE UNCHANGED shmvars
    BY <2>1 DEF shmvars, IInv, Types, Answered, Turn, Working, Quiet, Pending, HeaderWritten,
       MatrixWritten, Current
  <2> QED
    BY <2>1, ServerStep, TesterStep DEF ShmNext
<1> QED
  BY <1>1, Inits, PTL DEF ShmSpec

(* From its poll to the end of its computation shm-matrix has the region    *)
(* for itself, and the request in it is the one that tester.py waits for.   *)
THEOREM RegionNeverShared == ShmSpec => []RegionOwned
<1>1. IInv => RegionOwned
  BY DEF IInv, Turn, Working, Quiet, HeaderWritten, MatrixWritten, RegionOwned
<1> QED
  BY <1>1, Inductive, PTL

(* No answer is the power of an earlier request or of a part of one.        *)
THEOREM AnswersRight == ShmSpec => []AnswersCorrect
<1>1. IInv => AnswersCorrect
  BY DEF IInv, Answered, Answer, AnswersCorrect
<1> QED
  BY <1>1, Inductive, PTL
=============================================================================
