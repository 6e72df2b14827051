-------------------------- MODULE RWSpinLockProofs ---------------------------
(****************************************************************************)
(* RWSpinLock for any finite set of threads that the int can count: the     *)
(* counter encodes the holders exactly, and a writer is alone; and the      *)
(* benchmark, whose writers' check never throws for any number of rounds.   *)
(****************************************************************************)
EXTENDS RWSpinLockRun, FiniteSetTheorems, TLAPS

USE DEF PCs

(* What Exclusion and CounterExact need to be inductive: a stale `expected` *)
(* leaves room for the reader that holds it, which is not counted in it.    *)
StaleRoom ==
    \A t \in Threads :
        /\ expected[t] <= 2 * Cardinality(Threads)
        /\ pc[t] = "read_cas" => expected[t] <= 2 * (Cardinality(Threads) - 1)

Types ==
    /\ rw_counter \in Nat
    /\ pc \in [Threads -> PCs]
    /\ expected \in [Threads -> Nat]
    /\ \A t \in Threads : pc[t] = "read_cas" => expected[t] % 2 = 0

IInv == Types /\ CounterExact /\ Exclusion /\ StaleRoom

(* The sizes of a set of threads, one more and one less.                    *)
LEMMA Sizes ==
    ASSUME NEW S \in SUBSET Threads
    PROVE  /\ Cardinality(S) \in Nat
           /\ Cardinality(S) <= Cardinality(Threads)
           /\ S = {} <=> Cardinality(S) = 0
           /\ \A t \in Threads \ S :
                /\ Cardinality(S \union {t}) = Cardinality(S) + 1
                /\ Cardinality(S) <= Cardinality(Threads) - 1
           /\ \A t \in S : Cardinality(S \ {t}) = Cardinality(S) - 1
<1>1. IsFiniteSet(S)
  BY ThreadsAssumption, FS_Subset
<1>2. Cardinality(S) \in Nat /\ Cardinality(Threads) \in Nat
  BY <1>1, ThreadsAssumption, FS_CardinalityType
<1>3. Cardinality(S) <= Cardinality(Threads)
  BY ThreadsAssumption, FS_Subset
<1>4. S = {} <=> Cardinality(S) = 0
  BY <1>1, FS_EmptySet
<1>5. ASSUME NEW t \in Threads \ S
      PROVE  /\ Cardinality(S \union {t}) = Cardinality(S) + 1
             /\ Cardinality(S) <= Cardinality(Threads) - 1
  <2>1. Cardinality(S \union {t}) = Cardinality(S) + 1
    BY <1>1, FS_AddElement
  <2>2. S \union {t} \in SUBSET Threads
    OBVIOUS
  <2>3. Cardinality(S \union {t}) <= Cardinality(Threads)
    BY <2>2, ThreadsAssumption, FS_Subset
  <2> QED
    BY <1>2, <2>1, <2>3
<1>6. \A t \in S : Cardinality(S \ {t}) = Cardinality(S) - 1
  BY <1>1, FS_RemoveElement
<1> QED
  BY <1>2, <1>3, <1>4, <1>5, <1>6

(* What the value of the counter says of the holders.                       *)
LEMMA Decode ==
    ASSUME IInv
    PROVE  /\ rw_counter = 0 => Readers = {} /\ Writers = {}
           /\ rw_counter % 2 = 0 => Writers = {}
           /\ \A w \in Writers : rw_counter = 1
           /\ rw_counter <= 2 * Cardinality(Threads)
<1> USE DEF IInv, Types, CounterExact
<1>1. Readers \in SUBSET Threads /\ Writers \in SUBSET Threads
  BY DEF Readers, Writers
<1>2. Cardinality(Readers) \in Nat /\ Cardinality(Writers) \in Nat
  BY <1>1, Sizes
<1>3. rw_counter = 0 => Readers = {} /\ Writers = {}
  <2>1. rw_counter = 0 => Cardinality(Readers) = 0 /\ Cardinality(Writers) = 0
    BY <1>2
  <2> QED
    BY <2>1, <1>1, Sizes
<1>4. ASSUME NEW w \in Writers PROVE rw_counter = 1
  <2>1. Readers = {} /\ Writers = {w}
    BY DEF Exclusion
  <2>2. Cardinality(Readers) = 0 /\ Cardinality(Writers) = 1
    BY <2>1, FS_EmptySet, FS_Singleton
  <2> QED
    BY <2>2
<1>5. rw_counter <= 2 * Cardinality(Threads)
  <2>0. Cardinality(Threads) \in Nat
    BY ThreadsAssumption, FS_CardinalityType
  <2>1. CASE Writers = {}
    <3>1. Cardinality(Writers) = 0 /\ Cardinality(Readers) <= Cardinality(Threads)
      BY <2>1, <1>1, Sizes
    <3> QED
      BY <3>1, <2>0, <1>2
  <2>2. CASE Writers # {}
    <3>1. rw_counter = 1
      BY <2>2, <1>4
    <3>2. Cardinality(Threads) # 0
      BY <2>2, <1>1, ThreadsAssumption, FS_EmptySet
    <3> QED
      BY <3>1, <3>2, <2>0
  <2> QED
    BY <2>1, <2>2
<1> QED
  BY <1>3, <1>4, <1>5

LEMMA InductiveInit == Init => IInv
<1> SUFFICES ASSUME Init PROVE IInv
  OBVIOUS
<1>1. Readers = {} /\ Writers = {}
  BY DEF Init, Readers, Writers
<1>2. Cardinality(Readers) = 0 /\ Cardinality(Writers) = 0
  BY <1>1, FS_EmptySet
<1>3. Cardinality(Threads) \in Nat
  BY ThreadsAssumption, FS_CardinalityType
<1>4. \A t \in Threads : Cardinality(Threads) # 0
  BY ThreadsAssumption, FS_EmptySet
<1> QED
  BY <1>1, <1>2, <1>3, <1>4 DEF Init, IInv, Types, CounterExact, Exclusion, StaleRoom

LEMMA InductiveStep == IInv /\ [Next]_vars => IInv'
<1> SUFFICES ASSUME IInv, [Next]_vars PROVE IInv'
  OBVIOUS
<1> DEFINE R == Readers
           W == Writers
<1> USE DEF IInv, Types, CounterExact, Exclusion, StaleRoom
<1>a. R \in SUBSET Threads /\ W \in SUBSET Threads /\ R' \in SUBSET Threads
  BY DEF Readers, Writers
<1>b. Cardinality(R) \in Nat /\ Cardinality(W) \in Nat /\ Cardinality(Threads) \in Nat
  BY <1>a, Sizes, ThreadsAssumption, FS_CardinalityType
<1>0. CASE UNCHANGED vars
  BY <1>0 DEF vars, Readers, Writers
<1>1. ASSUME NEW t \in Threads, CallLockRead(t) PROVE IInv'
  <2>1. R' = R /\ W' = W
    BY <1>1 DEF CallLockRead, Goto, Readers, Writers
  <2> QED
    BY <1>1, <2>1 DEF CallLockRead, Goto
<1>2. ASSUME NEW t \in Threads, CallLockWrite(t) PROVE IInv'
  <2>1. R' = R /\ W' = W
    BY <1>2 DEF CallLockWrite, Goto, Readers, Writers
  <2> QED
    BY <1>2, <2>1 DEF CallLockWrite, Goto
<1>3. ASSUME NEW t \in Threads, ReadLoad(t) PROVE IInv'
  <2>1. R' = R /\ W' = W /\ t \notin R
    BY <1>3 DEF ReadLoad, Goto, Readers, Writers
  <2>2. CASE WriterBit(rw_counter) = 1
    <3>1. expected' = [expected EXCEPT ![t] = rw_counter] /\ UNCHANGED <<rw_counter, pc>>
      BY <1>3, <2>2 DEF ReadLoad
    <3>2. rw_counter <= 2 * Cardinality(Threads) /\ pc[t] # "read_cas"
      BY <1>3, <2>2, Decode DEF ReadLoad
    <3>3. Types' /\ StaleRoom'
      BY <3>1, <3>2
    <3> QED
      BY <2>1, <3>1, <3>3
  <2>3. CASE WriterBit(rw_counter) # 1
    <3>1. rw_counter % 2 = 0
      <4>1. rw_counter \in Nat /\ rw_counter % 2 # 1
        BY <2>3 DEF WriterBit
      <4> HIDE DEF IInv
      <4> QED
        BY <4>1
    <3>2. Writers = {}
      BY <3>1, Decode
    <3>3. Cardinality(W) = 0
      BY <3>2, <1>a, Sizes
    <3>4. Cardinality(R) <= Cardinality(Threads) - 1
      BY <1>a, <2>1, Sizes
    <3>5. rw_counter = 2 * Cardinality(R) + Cardinality(W)
      OBVIOUS
    <3>6. rw_counter <= 2 * (Cardinality(Threads) - 1)
      <4> HIDE DEF R, W, IInv
      <4> QED
        BY <1>b, <3>3, <3>4, <3>5
    <3> QED
      BY <1>3, <1>b, <2>1, <2>3, <3>1, <3>6 DEF ReadLoad, Goto
  <2> QED
    BY <2>2, <2>3
<1>4. ASSUME NEW t \in Threads, ReadCas(t) PROVE IInv'
  <2>1. CASE rw_counter # expected[t]
    <3>1. R' = R /\ W' = W
      BY <1>4, <2>1 DEF ReadCas, Goto, Readers, Writers
    <3> QED
      BY <1>4, <2>1, <3>1, Decode DEF ReadCas, Goto
  <2>2. CASE rw_counter = expected[t]
    <3>1. rw_counter % 2 = 0
      BY <1>4, <2>2 DEF ReadCas, Goto
    <3>2. W = {} /\ W' = W
      BY <1>4, <2>2, <3>1, Decode DEF ReadCas, Goto, Writers
    <3>3. R' = R \union {t} /\ t \in Threads \ R
      BY <1>4, <2>2 DEF ReadCas, Goto, Readers
    <3>4. Cardinality(R') = Cardinality(R) + 1
      BY <1>a, <3>3, Sizes
    <3>5. rw_counter' = rw_counter + 2
      BY <1>4, <2>2 DEF ReadCas
    <3>6. CounterExact'
      <4>1. rw_counter = 2 * Cardinality(R) + Cardinality(W)
        OBVIOUS
      <4> HIDE DEF R, W
      <4>2. rw_counter' = 2 * Cardinality(R') + Cardinality(W')
        BY <1>b, <3>2, <3>4, <3>5, <4>1
      <4> QED
        BY <4>2 DEF R, W
    <3> QED
      BY <1>4, <2>2, <3>2, <3>5, <3>6 DEF ReadCas, Goto
  <2> QED
    BY <2>1, <2>2
<1>5. ASSUME NEW t \in Threads, UnlockRead(t) PROVE IInv'
  <2>1. R' = R \ {t} /\ t \in R /\ W' = W
    BY <1>5 DEF UnlockRead, Goto, Readers, Writers
  <2>2. Cardinality(R') = Cardinality(R) - 1 /\ Cardinality(R') \in Nat
    BY <1>a, <2>1, Sizes
  <2>3. rw_counter' = rw_counter - 2
    BY <1>5 DEF UnlockRead
  <2>4. CounterExact' /\ rw_counter' \in Nat
    <3>1. rw_counter = 2 * Cardinality(R) + Cardinality(W)
      OBVIOUS
    <3> HIDE DEF R, W
    <3>2. rw_counter' = 2 * Cardinality(R') + Cardinality(W') /\ rw_counter' \in Nat
      BY <1>b, <2>1, <2>2, <2>3, <3>1
    <3> QED
      BY <3>2 DEF R, W
  <2> QED
    BY <1>5, <2>1, <2>4 DEF UnlockRead, Goto
<1>6. ASSUME NEW t \in Threads, WriteCas(t) PROVE IInv'
  <2>1. R = {} /\ W = {}
    BY <1>6, Decode DEF WriteCas
  <2>2. R' = {} /\ W' = {t}
    BY <1>6, <2>1 DEF WriteCas, Goto, Readers, Writers
  <2>3. Cardinality(R') = 0 /\ Cardinality(W') = 1
    BY <2>2, FS_EmptySet, FS_Singleton
  <2> QED
    BY <1>6, <2>2, <2>3 DEF WriteCas, Goto
<1>7. ASSUME NEW t \in Threads, UnlockWrite(t) PROVE IInv'
  <2>1. R = {} /\ W = {t} /\ rw_counter = 1
    BY <1>7, Decode DEF UnlockWrite, Goto, Writers
  <2>2. R' = {} /\ W' = {}
    BY <1>7, <2>1 DEF UnlockWrite, Goto, Readers, Writers
  <2>3. Cardinality(R') = 0 /\ Cardinality(W') = 0
    BY <2>2, FS_EmptySet
  <2>4. rw_counter' = 0
    BY <1>7, <2>1 DEF UnlockWrite, WriterBit
  <2> QED
    BY <1>7, <2>2, <2>3, <2>4 DEF UnlockWrite, Goto
<1> QED
  BY <1>0, <1>1, <1>2, <1>3, <1>4, <1>5, <1>6, <1>7 DEF Next, Acquire, Unlock

LEMMA Inductive == Safety => []IInv
  BY InductiveInit, InductiveStep, PTL DEF Safety

(* The int encodes the holders exactly: no update is lost to a stale load.  *)
THEOREM CounterEncodesHolders == Safety => []CounterExact
<1>1. IInv => CounterExact
  BY DEF IInv
<1> QED
  BY <1>1, Inductive, PTL

(* A writer excludes everybody.                                             *)
THEOREM LockSafe == Safety => []Exclusion
<1>1. IInv => Exclusion
  BY DEF IInv
<1> QED
  BY <1>1, Inductive, PTL

(* The int never overflows: for any number of threads it can count, neither *)
(* its value nor the sum computed from a stale load is out of range.        *)
THEOREM NoOverflow == Safety => []TypeOK
<1>1. IInv => TypeOK
  <2> SUFFICES ASSUME IInv PROVE TypeOK
    OBVIOUS
  <2> USE DEF IInv, Types
  <2>1. Cardinality(Threads) \in Nat /\ MaxInt \in Nat /\ 2 * Cardinality(Threads) <= MaxInt
    BY ThreadsAssumption, MaxIntAssumption, FS_CardinalityType
  <2>2. rw_counter \in 0 .. MaxInt
    BY <2>1, Decode
  <2>3. ASSUME NEW t \in Threads
        PROVE  /\ expected[t] \in 0 .. MaxInt
               /\ pc[t] = "read_cas" => expected[t] % 2 = 0 /\ expected[t] + 2 <= MaxInt
    BY <2>1 DEF StaleRoom
  <2> QED
    BY <2>2, <2>3 DEF TypeOK
<1> QED
  BY <1>1, Inductive, PTL

-----------------------------------------------------------------------------
(* The benchmark on top of the lock.  The counter is 1 exactly while a      *)
(* writer stands between its increment and its decrement; Exclusion of the  *)
(* lock is what makes it 0 for the next one.                                *)

Counted == {t \in Threads : check[t] = "counted"}

CheckTypeOK ==
    /\ counter \in Int
    /\ check \in [Threads -> {"none", "counted", "done", "threw"}]

(* A check belongs to a writer inside, and counter counts those under way.  *)
CheckInv ==
    /\ CheckTypeOK /\ NeverInvalid
    /\ \A t \in Threads : check[t] # "none" => t \in Writers
    /\ counter = IF Counted = {} THEN 0 ELSE 1

LEMMA RunRefines == RunInit /\ [][RunNext]_runvars => Safety
<1>1. RunInit => Init
  BY DEF RunInit
<1>2. [RunNext]_runvars => [Next]_vars
  BY DEF RunNext, RunStep, Begin, Increment, Decrement, End, Acquire, Unlock, Next, runvars, vars
<1> QED
  BY <1>1, <1>2, PTL DEF Safety

LEMMA CheckInit == RunInit => CheckInv
BY DEF RunInit, CheckInv, CheckTypeOK, NeverInvalid, Counted

LEMMA CheckNext == IInv /\ IInv' /\ CheckInv /\ [RunNext]_runvars => CheckInv'
<1> SUFFICES ASSUME IInv, IInv', CheckInv, [RunNext]_runvars PROVE CheckInv'
  OBVIOUS
<1> USE DEF CheckInv, CheckTypeOK, NeverInvalid
<1>1. /\ pc \in [Threads -> PCs] /\ Exclusion
      /\ \A t \in Writers : Writers = {t}
  BY DEF IInv, Types, Exclusion
<1>2. CASE UNCHANGED runvars
  BY <1>2 DEF runvars, vars, Counted, Writers
<1>3. ASSUME NEW t \in Threads, Begin(t) PROVE CheckInv'
  <2>1. /\ pc[t] = "idle" /\ \A u \in Threads \ {t} : pc'[u] = pc[u]
        /\ counter' = counter /\ check' = check
    BY <1>1, <1>3 DEF Begin, CallLockRead, CallLockWrite, Goto
  <2> QED
    BY <2>1 DEF Counted, Writers
<1>4. ASSUME NEW t \in Threads, Acquire(t), UNCHANGED <<counter, check>> PROVE CheckInv'
  <2>1. pc[t] # "writing" /\ \A u \in Threads \ {t} : pc'[u] = pc[u]
    BY <1>1, <1>4 DEF Acquire, ReadLoad, ReadCas, WriteCas, Goto
  <2> QED
    BY <1>4, <2>1 DEF Counted, Writers
<1>5. ASSUME NEW t \in Threads, Increment(t) PROVE CheckInv'
  <2>1. /\ Writers = {t} /\ pc' = pc /\ check[t] = "none" /\ counter' = counter + 1
        /\ check' = [check EXCEPT ![t] = IF counter = 0 THEN "counted" ELSE "threw"]
    BY <1>1, <1>5 DEF Increment, Writers, vars
  <2>2. Counted = {} /\ counter = 0
    BY <2>1 DEF Counted
  <2>3. Counted' = {t}
    BY <2>1, <2>2 DEF Counted
  <2> QED
    BY <2>1, <2>2, <2>3 DEF Writers
<1>6. ASSUME NEW t \in Threads, Decrement(t) PROVE CheckInv'
  <2>1. /\ Writers = {t} /\ pc' = pc /\ check[t] = "counted" /\ counter' = counter - 1
        /\ check' = [check EXCEPT ![t] = "done"]
    BY <1>1, <1>6 DEF Decrement, Writers, vars
  <2>2. Counted = {t} /\ Counted' = {}
    BY <2>1 DEF Counted
  <2> QED
    BY <2>1, <2>2 DEF Writers
<1>7. ASSUME NEW t \in Threads, End(t) PROVE CheckInv'
  <2>1. /\ pc[t] \in {"reading", "writing"} /\ \A u \in Threads \ {t} : pc'[u] = pc[u]
        /\ counter' = counter /\ check' = [check EXCEPT ![t] = "none"]
        /\ pc[t] = "writing" => check[t] = "done"
    BY <1>1, <1>7 DEF End, Unlock, UnlockRead, UnlockWrite, Goto
  <2>2. t \notin Counted /\ Counted' = Counted
    BY <2>1 DEF Counted, Writers
  <2> QED
    BY <2>1, <2>2 DEF Writers
<1> QED
  BY <1>2, <1>3, <1>4, <1>5, <1>6, <1>7 DEF RunNext, RunStep

(* Line 20 of run.cpp: "invalid counter" is never thrown.                   *)
THEOREM CheckNeverThrows == RunSpec => []NeverInvalid
<1>1. CheckInv => NeverInvalid
  BY DEF CheckInv
<1> QED
  BY <1>1, RunRefines, Inductive, CheckInit, CheckNext, PTL DEF RunSpec
=============================================================================
