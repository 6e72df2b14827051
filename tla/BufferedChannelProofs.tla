------------------------ MODULE BufferedChannelProofs ------------------------
(****************************************************************************)
(* BufferedChannel for any finite set of threads, any values and any        *)
(* capacity: the types and the bound, the wakeups, and that the code        *)
(* implements the FIFO channel; and its test, for any numbers of senders    *)
(* and receivers: the assertions hold.                                      *)
(****************************************************************************)
EXTENDS ChannelTest, FiniteSetTheorems, TLAPS

USE DEF Results, PCs

(* One of a set of sleepers, or none when nobody sleeps.                    *)
LEMMA NotifyOneFact ==
    ASSUME NEW S, NEW R \in NotifyOne(S)
    PROVE  /\ R \subseteq S
           /\ S # {} => \E w \in S : R = S \ {w}
  BY DEF NotifyOne

(* TypeOK holds initially.                                                  *)
LEMMA TypeInit == Init => TypeOK
<1> SUFFICES ASSUME Init PROVE TypeOK
  OBVIOUS
<1>1. channel \in Seq(Values) /\ Len(channel) = 0
  BY DEF Init
<1> QED
  BY <1>1, CapacityAssumption DEF Init, TypeOK

(* Every step keeps the types, the places of the sleepers and the bound.    *)
LEMMA TypeStep == TypeOK /\ [Next]_vars => TypeOK'
<1> SUFFICES ASSUME TypeOK, [Next]_vars PROVE TypeOK'
  OBVIOUS
<1> USE CapacityAssumption DEF TypeOK
<1>1. CASE UNCHANGED vars
  BY <1>1 DEF vars
<1>2. ASSUME NEW t \in Threads, NEW v \in Values, CallSend(t, v) PROVE TypeOK'
  BY <1>2 DEF CallSend, Call
<1>3. ASSUME NEW t \in Threads, CallRecv(t) PROVE TypeOK'
  BY <1>3 DEF CallRecv, Call
<1>4. ASSUME NEW t \in Threads, CallClose(t) PROVE TypeOK'
  BY <1>4 DEF CallClose, Call
<1>5. ASSUME NEW t \in Threads, SpuriousWakeup(t) PROVE TypeOK'
  BY <1>5 DEF SpuriousWakeup
<1>6. ASSUME NEW t \in Threads, SendWait(t) PROVE TypeOK'
  BY <1>6 DEF SendWait, AtSend
<1>7. ASSUME NEW t \in Threads, SendThrow(t) PROVE TypeOK'
  BY <1>7 DEF SendThrow, AtSend, Return
<1>8. ASSUME NEW t \in Threads, SendPush(t) PROVE TypeOK'
  <2>1. c_not_empty' \subseteq c_not_empty
    BY <1>8, NotifyOneFact DEF SendPush
  <2>2. /\ channel' \in Seq(Values)
        /\ Capacity >= 0 => Len(channel') <= Capacity
    BY <1>8 DEF SendPush, HasRoom
  <2> QED
    BY <1>8, <2>1, <2>2 DEF SendPush, AtSend, Return
<1>9. ASSUME NEW t \in Threads, RecvWait(t) PROVE TypeOK'
  BY <1>9 DEF RecvWait, AtRecv
<1>10. ASSUME NEW t \in Threads, RecvNull(t) PROVE TypeOK'
  BY <1>10 DEF RecvNull, AtRecv, Return
<1>11. ASSUME NEW t \in Threads, RecvPop(t) PROVE TypeOK'
  <2>1. c_not_full' \subseteq c_not_full
    BY <1>11, NotifyOneFact DEF RecvPop
  <2>2. /\ channel' \in Seq(Values) /\ Head(channel) \in Values
        /\ Capacity >= 0 => Len(channel') <= Capacity
    BY <1>11 DEF RecvPop
  <2> QED
    BY <1>11, <2>1, <2>2 DEF RecvPop, AtRecv, Return
<1>12. ASSUME NEW t \in Threads, CloseSet(t) PROVE TypeOK'
  BY <1>12 DEF CloseSet
<1>13. ASSUME NEW t \in Threads, CloseNotifyNotEmpty(t) PROVE TypeOK'
  BY <1>13 DEF CloseNotifyNotEmpty
<1>14. ASSUME NEW t \in Threads, CloseNotifyNotFull(t) PROVE TypeOK'
  BY <1>14 DEF CloseNotifyNotFull, Return
<1> QED
  BY <1>1, <1>2, <1>3, <1>4, <1>5, <1>6, <1>7, <1>8, <1>9, <1>10, <1>11, <1>12,
     <1>13, <1>14 DEF Next, Step

(* The types hold in every behaviour of the channel; in particular the      *)
(* deque never holds more than a non-negative capacity.                     *)
THEOREM TypeCorrect == Safety => []TypeOK
<1>1. Init => TypeOK
  BY TypeInit
<1>2. TypeOK /\ [Next]_vars => TypeOK'
  BY TypeStep
<1> QED
  BY <1>1, <1>2, PTL DEF Safety
-----------------------------------------------------------------------------
(* The wakeups.                                                             *)

Wakeups == NoLostWakeup /\ CloseWakesAll

(* The sizes of a set of threads, one more and one less.                    *)
LEMMA Sizes ==
    ASSUME NEW S \in SUBSET Threads, NEW t \in Threads
    PROVE  /\ Cardinality(S) \in Nat
           /\ t \notin S => Cardinality(S \union {t}) = Cardinality(S) + 1
           /\ t \in S => Cardinality(S \ {t}) = Cardinality(S) - 1
<1>1. IsFiniteSet(S)
  BY ThreadsAssumption, FS_Subset
<1> QED
  BY <1>1, FS_CardinalityType, FS_AddElement, FS_RemoveElement

(* A larger set of threads is not smaller in size.                          *)
LEMMA SizesMonotone ==
    ASSUME NEW S \in SUBSET Threads, NEW R \in SUBSET S
    PROVE  Cardinality(R) <= Cardinality(S)
  BY ThreadsAssumption, FS_Subset

(* Every step keeps: an element of the channel per awake receiver while     *)
(* another receiver sleeps.                                                 *)
LEMMA NotEmptyStep == TypeOK /\ NoLostNotEmpty /\ [Next]_vars => NoLostNotEmpty'
<1> SUFFICES ASSUME TypeOK, NoLostNotEmpty, [Next]_vars,
                    c_not_empty' # {}, ~is_closed'
             PROVE  Len(channel') <= Cardinality(AwakeReceivers')
  BY DEF NoLostNotEmpty
<1> DEFINE A == AwakeReceivers
<1>a. A \in SUBSET Threads /\ A' \in SUBSET Threads /\ Len(channel) \in Nat
  BY DEF AwakeReceivers, TypeOK
<1>b. c_not_empty # {} /\ ~is_closed => Len(channel) <= Cardinality(A)
  BY DEF NoLostNotEmpty
<1>c. ASSUME channel' = channel, A \subseteq A', c_not_empty # {}, ~is_closed
      PROVE  Len(channel') <= Cardinality(A')
  <2>1. Cardinality(A) <= Cardinality(A')
    BY <1>a, <1>c, SizesMonotone
  <2>2. Cardinality(A) \in Nat /\ Cardinality(A') \in Nat
    BY <1>a, ThreadsAssumption, FS_Subset, FS_CardinalityType
  <2> HIDE DEF A
  <2> QED
    BY <1>a, <1>b, <1>c, <2>1, <2>2
<1> USE DEF TypeOK, AtRecv
<1>1. CASE UNCHANGED vars
  BY <1>1, <1>c DEF vars, AwakeReceivers
<1>2. ASSUME NEW t \in Threads, NEW v \in Values, CallSend(t, v)
      PROVE  Len(channel') <= Cardinality(A')
  BY <1>2, <1>c DEF CallSend, Call, AwakeReceivers
<1>3. ASSUME NEW t \in Threads, CallRecv(t)
      PROVE  Len(channel') <= Cardinality(A')
  BY <1>3, <1>c DEF CallRecv, Call, AwakeReceivers
<1>4. ASSUME NEW t \in Threads, CallClose(t)
      PROVE  Len(channel') <= Cardinality(A')
  BY <1>4, <1>c DEF CallClose, Call, AwakeReceivers
<1>5. ASSUME NEW t \in Threads, SpuriousWakeup(t)
      PROVE  Len(channel') <= Cardinality(A')
  BY <1>5, <1>c DEF SpuriousWakeup, AwakeReceivers
<1>6. ASSUME NEW t \in Threads, SendWait(t)
      PROVE  Len(channel') <= Cardinality(A')
  BY <1>6, <1>c DEF SendWait, AtSend, AwakeReceivers
<1>7. ASSUME NEW t \in Threads, SendThrow(t)
      PROVE  Len(channel') <= Cardinality(A')
  BY <1>7 DEF SendThrow
<1>8. ASSUME NEW t \in Threads, SendPush(t)
      PROVE  Len(channel') <= Cardinality(A')
  <2>1. PICK w \in c_not_empty : c_not_empty' = c_not_empty \ {w}
    BY <1>8, NotifyOneFact DEF SendPush
  <2>2. w \in Threads /\ w \notin A /\ A' = A \union {w}
    BY <1>8, <2>1 DEF SendPush, AtSend, Return, AwakeReceivers
  <2>3. Len(channel') = Len(channel) + 1 /\ Len(channel) <= Cardinality(A)
    BY <1>8, <1>b, <2>1 DEF SendPush
  <2>4. Cardinality(A') = Cardinality(A) + 1 /\ Cardinality(A) \in Nat
    BY <1>a, <2>2, Sizes
  <2> QED
    BY <1>a, <2>3, <2>4
<1>9. ASSUME NEW t \in Threads, RecvWait(t)
      PROVE  Len(channel') <= Cardinality(A')
  <2>1. Len(channel') = 0
    BY <1>9 DEF RecvWait
  <2> QED
    BY <1>a, <2>1, ThreadsAssumption, FS_Subset, FS_CardinalityType
<1>10. ASSUME NEW t \in Threads, RecvNull(t)
       PROVE  Len(channel') <= Cardinality(A')
  BY <1>10 DEF RecvNull
<1>11. ASSUME NEW t \in Threads, RecvPop(t)
       PROVE  Len(channel') <= Cardinality(A')
  <2>1. t \in A /\ A' = A \ {t}
    BY <1>11 DEF RecvPop, Return, AwakeReceivers
  <2>2. Len(channel') = Len(channel) - 1 /\ Len(channel) <= Cardinality(A)
    BY <1>11, <1>b DEF RecvPop
  <2>3. Cardinality(A') = Cardinality(A) - 1 /\ Cardinality(A) \in Nat
    BY <1>a, <2>1, Sizes
  <2> QED
    BY <1>a, <2>2, <2>3
<1>12. ASSUME NEW t \in Threads, CloseSet(t)
       PROVE  Len(channel') <= Cardinality(A')
  BY <1>12 DEF CloseSet
<1>13. ASSUME NEW t \in Threads, CloseNotifyNotEmpty(t)
       PROVE  Len(channel') <= Cardinality(A')
  BY <1>13 DEF CloseNotifyNotEmpty
<1>14. ASSUME NEW t \in Threads, CloseNotifyNotFull(t)
       PROVE  Len(channel') <= Cardinality(A')
  BY <1>14, <1>c DEF CloseNotifyNotFull, Return, AwakeReceivers
<1> QED
  BY <1>1, <1>2, <1>3, <1>4, <1>5, <1>6, <1>7, <1>8, <1>9, <1>10, <1>11, <1>12,
     <1>13, <1>14 DEF Next, Step
(* Every step keeps: an awake sender per free place while another sender    *)
(* sleeps.                                                                  *)
LEMMA NotFullStep == TypeOK /\ NoLostNotFull /\ [Next]_vars => NoLostNotFull'
<1> SUFFICES ASSUME TypeOK, NoLostNotFull, [Next]_vars,
                    c_not_full' # {}, ~is_closed'
             PROVE  Capacity >= 0 /\ Capacity - Len(channel') <= Cardinality(AwakeSenders')
  BY DEF NoLostNotFull
<1> DEFINE A == AwakeSenders
           Goal == Capacity >= 0 /\ Capacity - Len(channel') <= Cardinality(A')
<1>a. /\ A \in SUBSET Threads /\ A' \in SUBSET Threads
      /\ Len(channel) \in Nat /\ Capacity \in Int
  BY CapacityAssumption DEF AwakeSenders, TypeOK
<1>b. c_not_full # {} /\ ~is_closed =>
        Capacity >= 0 /\ Capacity - Len(channel) <= Cardinality(A)
  BY DEF NoLostNotFull
<1>c. ASSUME channel' = channel, A \subseteq A', c_not_full # {}, ~is_closed
      PROVE  Goal
  <2>1. Cardinality(A) <= Cardinality(A')
    BY <1>a, <1>c, SizesMonotone
  <2>2. Cardinality(A) \in Nat /\ Cardinality(A') \in Nat
    BY <1>a, ThreadsAssumption, FS_Subset, FS_CardinalityType
  <2> HIDE DEF A
  <2> QED
    BY <1>a, <1>b, <1>c, <2>1, <2>2
<1> USE DEF TypeOK, AtSend
<1>1. CASE UNCHANGED vars
  BY <1>1, <1>c DEF vars, AwakeSenders
<1>2. ASSUME NEW t \in Threads, NEW v \in Values, CallSend(t, v) PROVE Goal
  BY <1>2, <1>c DEF CallSend, Call, AwakeSenders
<1>3. ASSUME NEW t \in Threads, CallRecv(t) PROVE Goal
  BY <1>3, <1>c DEF CallRecv, Call, AwakeSenders
<1>4. ASSUME NEW t \in Threads, CallClose(t) PROVE Goal
  BY <1>4, <1>c DEF CallClose, Call, AwakeSenders
<1>5. ASSUME NEW t \in Threads, SpuriousWakeup(t) PROVE Goal
  BY <1>5, <1>c DEF SpuriousWakeup, AwakeSenders
<1>6. ASSUME NEW t \in Threads, SendWait(t) PROVE Goal
  <2>1. Capacity >= 0 /\ Capacity - Len(channel') <= 0
    BY <1>6, <1>a DEF SendWait, HasRoom
  <2>2. Cardinality(A') \in Nat
    BY <1>a, ThreadsAssumption, FS_Subset, FS_CardinalityType
  <2>3. Len(channel') \in Nat
    BY <1>6, <1>a DEF SendWait
  <2> QED
    BY <1>a, <2>1, <2>2, <2>3
<1>7. ASSUME NEW t \in Threads, SendThrow(t) PROVE Goal
  BY <1>7 DEF SendThrow
<1>8. ASSUME NEW t \in Threads, SendPush(t) PROVE Goal
  <2>1. t \in A /\ A' = A \ {t}
    BY <1>8 DEF SendPush, Return, AwakeSenders
  <2>2. /\ Len(channel') = Len(channel) + 1
        /\ Capacity >= 0 /\ Capacity - Len(channel) <= Cardinality(A)
    BY <1>8, <1>b DEF SendPush
  <2>3. Cardinality(A') = Cardinality(A) - 1 /\ Cardinality(A) \in Nat
    BY <1>a, <2>1, Sizes
  <2> QED
    BY <1>a, <2>2, <2>3
<1>9. ASSUME NEW t \in Threads, RecvWait(t) PROVE Goal
  BY <1>9, <1>c DEF RecvWait, AtRecv, AwakeSenders
<1>10. ASSUME NEW t \in Threads, RecvNull(t) PROVE Goal
  BY <1>10 DEF RecvNull
<1>11. ASSUME NEW t \in Threads, RecvPop(t) PROVE Goal
  <2>1. PICK w \in c_not_full : c_not_full' = c_not_full \ {w}
    BY <1>11, NotifyOneFact DEF RecvPop
  <2>2. w \in Threads /\ w \notin A /\ A' = A \union {w}
    BY <1>11, <2>1 DEF RecvPop, AtRecv, Return, AwakeSenders
  <2>3. /\ Len(channel') = Len(channel) - 1
        /\ Capacity >= 0 /\ Capacity - Len(channel) <= Cardinality(A)
    BY <1>11, <1>b, <2>1 DEF RecvPop
  <2>4. Cardinality(A') = Cardinality(A) + 1 /\ Cardinality(A) \in Nat
    BY <1>a, <2>2, Sizes
  <2> QED
    BY <1>a, <2>3, <2>4
<1>12. ASSUME NEW t \in Threads, CloseSet(t) PROVE Goal
  BY <1>12 DEF CloseSet
<1>13. ASSUME NEW t \in Threads, CloseNotifyNotEmpty(t) PROVE Goal
  BY <1>13, <1>c DEF CloseNotifyNotEmpty, AwakeSenders
<1>14. ASSUME NEW t \in Threads, CloseNotifyNotFull(t) PROVE Goal
  BY <1>14 DEF CloseNotifyNotFull
<1> QED
  BY <1>1, <1>2, <1>3, <1>4, <1>5, <1>6, <1>7, <1>8, <1>9, <1>10, <1>11, <1>12,
     <1>13, <1>14 DEF Next, Step

(* Every step keeps: a broadcast is still to come for whoever sleeps on a   *)
(* closed channel.                                                          *)
LEMMA CloseStep == TypeOK /\ CloseWakesAll /\ [Next]_vars => CloseWakesAll'
<1> SUFFICES ASSUME TypeOK, CloseWakesAll, [Next]_vars, is_closed'
             PROVE  CloseWakesAll'
  BY DEF CloseWakesAll
<1> USE DEF TypeOK, CloseWakesAll
<1>1. CASE UNCHANGED vars
  BY <1>1 DEF vars
<1>2. ASSUME NEW t \in Threads, NEW v \in Values, CallSend(t, v) PROVE CloseWakesAll'
  BY <1>2 DEF CallSend, Call
<1>3. ASSUME NEW t \in Threads, CallRecv(t) PROVE CloseWakesAll'
  BY <1>3 DEF CallRecv, Call
<1>4. ASSUME NEW t \in Threads, CallClose(t) PROVE CloseWakesAll'
  BY <1>4 DEF CallClose, Call
<1>5. ASSUME NEW t \in Threads, SpuriousWakeup(t) PROVE CloseWakesAll'
  BY <1>5 DEF SpuriousWakeup
<1>6. ASSUME NEW t \in Threads, SendWait(t) PROVE CloseWakesAll'
  BY <1>6 DEF SendWait
<1>7. ASSUME NEW t \in Threads, SendThrow(t) PROVE CloseWakesAll'
  BY <1>7 DEF SendThrow, AtSend, Return
<1>8. ASSUME NEW t \in Threads, SendPush(t) PROVE CloseWakesAll'
  BY <1>8 DEF SendPush
<1>9. ASSUME NEW t \in Threads, RecvWait(t) PROVE CloseWakesAll'
  BY <1>9 DEF RecvWait
<1>10. ASSUME NEW t \in Threads, RecvNull(t) PROVE CloseWakesAll'
  BY <1>10 DEF RecvNull, AtRecv, Return
<1>11. ASSUME NEW t \in Threads, RecvPop(t) PROVE CloseWakesAll'
  <2>1. c_not_full' \subseteq c_not_full
    BY <1>11, NotifyOneFact DEF RecvPop
  <2> QED
    BY <1>11, <2>1 DEF RecvPop, AtRecv, Return
<1>12. ASSUME NEW t \in Threads, CloseSet(t) PROVE CloseWakesAll'
  <2>1. pc'[t] = "notify_not_empty"
    BY <1>12 DEF CloseSet
  <2> QED
    BY <2>1
<1>13. ASSUME NEW t \in Threads, CloseNotifyNotEmpty(t) PROVE CloseWakesAll'
  <2>1. c_not_empty' = {} /\ pc'[t] = "notify_not_full"
    BY <1>13 DEF CloseNotifyNotEmpty
  <2> QED
    BY <2>1
<1>14. ASSUME NEW t \in Threads, CloseNotifyNotFull(t) PROVE CloseWakesAll'
  BY <1>14 DEF CloseNotifyNotFull, Return
<1> QED
  BY <1>1, <1>2, <1>3, <1>4, <1>5, <1>6, <1>7, <1>8, <1>9, <1>10, <1>11, <1>12,
     <1>13, <1>14 DEF Next, Step

LEMMA WakeupsKept == Safety => []Wakeups
<1>1. Init => Wakeups
  BY DEF Init, Wakeups, NoLostWakeup, NoLostNotEmpty, NoLostNotFull, CloseWakesAll
<1>2. TypeOK /\ Wakeups /\ [Next]_vars => Wakeups'
  BY NotEmptyStep, NotFullStep, CloseStep DEF Wakeups, NoLostWakeup
<1> QED
  BY <1>1, <1>2, TypeCorrect, PTL DEF Safety

(* No wakeup is ever lost: whoever sleeps on an open channel is matched by  *)
(* as many threads that are awake as there is to take or room to fill.      *)
THEOREM NoLostWakeups == Safety => []NoLostWakeup
<1>1. Wakeups => NoLostWakeup
  BY DEF Wakeups
<1> QED
  BY <1>1, WakeupsKept, PTL

(* Nobody sleeps through a Close, also if it runs between the check and the *)
(* sleep of a waiting thread.                                               *)
THEOREM CloseForgetsNobody == Safety => []CloseWakesAll
<1>1. Wakeups => CloseWakesAll
  BY DEF Wakeups
<1> QED
  BY <1>1, WakeupsKept, PTL

(* Senders and receivers never all sleep at each other.                     *)
THEOREM MutualSleep == Safety => []NoMutualSleep
<1>1. TypeOK /\ Wakeups => NoMutualSleep
  <2> SUFFICES ASSUME TypeOK, Wakeups, Capacity > 0, c_not_empty # {}, c_not_full # {}
               PROVE  \E t \in Threads : pc[t] # "idle" /\ t \notin c_not_empty \union c_not_full
    BY DEF NoMutualSleep
  <2>1. CASE is_closed
    BY <2>1 DEF TypeOK, Wakeups, CloseWakesAll
  <2>2. CASE ~is_closed
    <3>1. /\ Len(channel) \in Nat
          /\ Len(channel) <= Cardinality(AwakeReceivers)
          /\ Capacity - Len(channel) <= Cardinality(AwakeSenders)
      BY <2>2 DEF TypeOK, Wakeups, NoLostWakeup, NoLostNotEmpty, NoLostNotFull
    <3>2. AwakeReceivers # {} \/ AwakeSenders # {}
      <4> SUFFICES ASSUME AwakeReceivers = {}, AwakeSenders = {} PROVE FALSE
        OBVIOUS
      <4>1. Cardinality(AwakeReceivers) = 0 /\ Cardinality(AwakeSenders) = 0
        BY FS_EmptySet
      <4> QED
        BY <3>1, <4>1, CapacityAssumption
    <3>3. PICK t \in Threads : AtRecv(t) \/ AtSend(t)
      BY <3>2 DEF AwakeReceivers, AwakeSenders
    <3> QED
      BY <3>3 DEF TypeOK, AtRecv, AtSend
  <2> QED
    BY <2>1, <2>2
<1> QED
  BY <1>1, TypeCorrect, WakeupsKept, PTL
-----------------------------------------------------------------------------
(* The refinement: each critical section that completes a call is the step  *)
(* of the FIFO channel, every other step of the code changes nothing there. *)

LEMMA RefinesInit == Init => C!Init
  BY DEF Init, C!Init, ChannelOp

LEMMA RefinesStep == TypeOK /\ [Next]_vars => [C!Next]_(C!vars)
<1> SUFFICES ASSUME TypeOK, [Next]_vars PROVE [C!Next]_(C!vars)
  OBVIOUS
<1> USE DEF TypeOK, ChannelOp
<1>1. CASE UNCHANGED vars
  BY <1>1 DEF vars, C!vars
<1>2. ASSUME NEW t \in Threads, NEW v \in Values, CallSend(t, v) PROVE C!CallSend(t, v)
  BY <1>2 DEF CallSend, Call, C!CallSend, C!Invoke
<1>3. ASSUME NEW t \in Threads, CallRecv(t) PROVE C!CallRecv(t)
  BY <1>3 DEF CallRecv, Call, C!CallRecv, C!Invoke
<1>4. ASSUME NEW t \in Threads, CallClose(t) PROVE C!CallClose(t)
  BY <1>4 DEF CallClose, Call, C!CallClose, C!Invoke
<1>5. ASSUME NEW t \in Threads, SpuriousWakeup(t) PROVE UNCHANGED C!vars
  BY <1>5 DEF SpuriousWakeup, C!vars
<1>6. ASSUME NEW t \in Threads, SendWait(t) PROVE UNCHANGED C!vars
  BY <1>6 DEF SendWait, C!vars
<1>7. ASSUME NEW t \in Threads, SendThrow(t) PROVE C!Refuse(t)
  BY <1>7 DEF SendThrow, AtSend, Return, C!Refuse, C!Return
<1>8. ASSUME NEW t \in Threads, SendPush(t) PROVE C!Accept(t)
  BY <1>8 DEF SendPush, AtSend, HasRoom, Return, C!Accept, C!Return
<1>9. ASSUME NEW t \in Threads, RecvWait(t) PROVE UNCHANGED C!vars
  BY <1>9 DEF RecvWait, C!vars
<1>10. ASSUME NEW t \in Threads, RecvNull(t) PROVE C!EndOfStream(t)
  BY <1>10 DEF RecvNull, AtRecv, Return, C!EndOfStream, C!Return
<1>11. ASSUME NEW t \in Threads, RecvPop(t) PROVE C!Deliver(t)
  BY <1>11 DEF RecvPop, AtRecv, Return, C!Deliver, C!Return
<1>12. ASSUME NEW t \in Threads, CloseSet(t) PROVE C!Shut(t)
  BY <1>12 DEF CloseSet, C!Shut
<1>13. ASSUME NEW t \in Threads, CloseNotifyNotEmpty(t) PROVE UNCHANGED C!vars
  BY <1>13 DEF CloseNotifyNotEmpty, C!vars
<1>14. ASSUME NEW t \in Threads, CloseNotifyNotFull(t) PROVE C!ShutReturn(t)
  BY <1>14 DEF CloseNotifyNotFull, Return, C!ShutReturn, C!Return
<1> QED
  BY <1>1, <1>2, <1>3, <1>4, <1>5, <1>6, <1>7, <1>8, <1>9, <1>10, <1>11, <1>12,
     <1>13, <1>14 DEF Next, Step, C!Next

(* The code implements the FIFO channel: for every number of threads and    *)
(* every capacity, each value accepted by Send is delivered at most once,   *)
(* in the order of acceptance, also across Close.                           *)
THEOREM ChannelImplemented == Safety => ImplementsChannel
  BY RefinesInit, RefinesStep, TypeCorrect, PTL DEF Safety, ImplementsChannel, C!Safety

-----------------------------------------------------------------------------
(* The test.  Its invariant says where every value fetched from the counter *)
(* is: each at one place of the senders' side at most, each pushed value at *)
(* one place behind the push.                                               *)

(* Where every thread of the test is, and what its last call gave it.       *)
ClientsOK ==
    /\ client \in [Threads -> {"loop", "called", "done"}]
    /\ counter \in Nat /\ free_slots \in Int /\ was_closed \in BOOLEAN
    /\ send_values \in [Senders -> Seq(Values)]
    /\ recv_values \in [Receivers -> Seq(Values)]
    /\ \A t \in Threads : client[t] # "called" => pc[t] = "idle"
    /\ \A s \in Senders : /\ pc[s] \in {"idle", "send"}
                          /\ client[s] = "called" => pc[s] = "send" \/ Sent(s) \/ Threw(s)
    /\ \A r \in Receivers : /\ pc[r] \in {"idle", "recv"}
                            /\ Answered(r) => ret[r] \in Values \union {NullOpt}
    /\ pc[Main] \notin {"send", "recv"}
    /\ client[Main] = "done" => \A t \in Threads : client[t] = "done"

(* An exception and a nullopt come from a channel that main closes, and the *)
(* nullopt from one that stays empty.                                       *)
EndsAreRight ==
    /\ is_closed \/ pc[Main] # "idle" => was_closed
    /\ \A s \in Senders : Threw(s) \/ client[s] = "done" => is_closed
    /\ \A r \in Receivers : (Answered(r) /\ ret[r] = NullOpt) \/ client[r] = "done"
                              => is_closed /\ channel = <<>>

(* The senders that fetch no value any more.                                *)
Doomed == {s \in Senders : client[s] = "done" \/ (client[s] = "called" /\ ~Sent(s))}

CounterBounded ==
    IF is_closed THEN counter <= SendBound + Cardinality(Doomed)
                 ELSE counter <= SendBound

(* free_slots is never smaller than the free places, with those of the      *)
(* receivers in Recv and of the senders that have not counted theirs yet.   *)
SlotsCover ==
    free_slots >= Capacity - Len(channel) + Cardinality({s \in Senders : Sent(s)})
                    + Cardinality({r \in Receivers : pc[r] = "recv"})

(* What a thread holds: its vector, and in place 0 the value of its call.   *)
SendPlaces(s) == (IF client[s] = "called" THEN {0} ELSE {}) \union DOMAIN send_values[s]
SendAt(s, i) == IF i = 0 THEN arg[s] ELSE send_values[s][i]

RecvPlaces(r) ==
    (IF Answered(r) /\ ret[r] # NullOpt THEN {0} ELSE {}) \union DOMAIN recv_values[r]
RecvAt(r, i) == IF i = 0 THEN ret[r] ELSE recv_values[r][i]

(* No value is fetched twice.                                               *)
SendOnce ==
    \A s \in Senders : \A i \in SendPlaces(s) :
        /\ SendAt(s, i) < counter
        /\ \A s2 \in Senders : \A j \in SendPlaces(s2) :
             SendAt(s, i) = SendAt(s2, j) => s = s2 /\ i = j

(* No value is at two places behind Send's push.                            *)
RecvOnce ==
    /\ \A i, j \in DOMAIN channel : channel[i] = channel[j] => i = j
    /\ \A r \in Receivers : \A i \in RecvPlaces(r) :
         /\ \A j \in DOMAIN channel : channel[j] # RecvAt(r, i)
         /\ \A r2 \in Receivers : \A j \in RecvPlaces(r2) :
              RecvAt(r, i) = RecvAt(r2, j) => r = r2 /\ i = j

(* What was pushed is in the channel or with a receiver, and nothing else.  *)
Pushed(v) ==
    \E s \in Senders : \E i \in SendPlaces(s) : (i = 0 => Sent(s)) /\ SendAt(s, i) = v

Behind(v) ==
    \/ \E i \in DOMAIN channel : channel[i] = v
    \/ \E r \in Receivers : \E i \in RecvPlaces(r) : RecvAt(r, i) = v

NothingLost == \A v \in Values : Pushed(v) <=> Behind(v)

TestInv ==
    /\ TypeOK /\ ClientsOK /\ EndsAreRight /\ CounterBounded /\ SlotsCover
    /\ SendOnce /\ RecvOnce /\ NothingLost

(* What a step inside a call changes, as far as the test can see it.        *)
ClientsStay ==
    UNCHANGED <<client, counter, free_slots, was_closed, send_values, recv_values, arg>>

Ends(t, result) ==
    /\ pc' = [pc EXCEPT ![t] = "idle"]
    /\ ret' = [ret EXCEPT ![t] = result]
    /\ UNCHANGED is_closed
    /\ ClientsStay

Pushes(s) ==
    pc[s] = "send" /\ ~is_closed /\ channel' = Append(channel, arg[s]) /\ Ends(s, Void)
Throws(s) ==
    pc[s] = "send" /\ is_closed /\ channel' = channel /\ Ends(s, RuntimeError)
Pops(r) ==
    pc[r] = "recv" /\ channel # <<>> /\ channel' = Tail(channel) /\ Ends(r, Head(channel))
Nulls(r) ==
    /\ pc[r] = "recv" /\ channel = <<>> /\ is_closed /\ channel' = channel
    /\ Ends(r, NullOpt)
Closes ==
    /\ pc[Main] # "idle" /\ (is_closed => is_closed')
    /\ pc'[Main] \notin {"send", "recv"}
    /\ \A t \in Threads \ {Main} : pc'[t] = pc[t] /\ ret'[t] = ret[t]
    /\ channel' = channel /\ ClientsStay
Stays == UNCHANGED <<channel, is_closed, pc, ret>> /\ ClientsStay

TestStep ==
    \/ \E s \in Senders : \/ SenderCall(s) \/ SenderCount(s) \/ SenderEnd(s)
                          \/ Pushes(s) \/ Throws(s)
    \/ \E r \in Receivers : \/ ReceiverCall(r) \/ ReceiverNote(r) \/ ReceiverEnd(r)
                            \/ Pops(r) \/ Nulls(r)
    \/ MainClose \/ MainJoin \/ Closes \/ Stays

(* Every step of the test is one of these.                                  *)
LEMMA TestSteps == TypeOK /\ ClientsOK /\ [TestNext]_testvars => TestStep
<1> SUFFICES ASSUME TypeOK, ClientsOK, [TestNext]_testvars PROVE TestStep
  OBVIOUS
<1> USE DEF TestStep, Ends, ClientsStay
<1>a. Threads = Senders \union Receivers \union {Main}
  BY TestAssumption
<1>b. /\ \A t \in Threads : pc[t] = "send" => t \in Senders
      /\ \A t \in Threads : pc[t] = "recv" => t \in Receivers
      /\ \A t \in Threads : pc[t] \notin {"idle", "send", "recv"} => t = Main
  BY <1>a DEF ClientsOK
<1>1. CASE UNCHANGED testvars
  BY <1>1 DEF testvars, vars, Stays
<1>2. ASSUME NEW t \in Threads, Lambda(t) PROVE TestStep
  BY <1>2 DEF Lambda
<1>3. ASSUME NEW t \in Threads, InChannel(SpuriousWakeup(t)) PROVE TestStep
  BY <1>3 DEF InChannel, SpuriousWakeup, Stays
<1>4. ASSUME NEW t \in Threads, InChannel(Step(t)) PROVE TestStep
  <2>1. CASE SendWait(t) \/ RecvWait(t)
    BY <1>4, <2>1 DEF InChannel, SendWait, RecvWait, Stays
  <2>2. CASE SendPush(t)
    <3>1. Pushes(t) /\ t \in Senders
      BY <1>4, <1>b, <2>2 DEF InChannel, SendPush, AtSend, Return, Pushes
    <3> QED
      BY <3>1
  <2>3. CASE SendThrow(t)
    <3>1. Throws(t) /\ t \in Senders
      BY <1>4, <1>b, <2>3 DEF InChannel, SendThrow, AtSend, Return, Throws
    <3> QED
      BY <3>1
  <2>4. CASE RecvNull(t)
    <3>1. Nulls(t) /\ t \in Receivers
      BY <1>4, <1>b, <2>4 DEF InChannel, RecvNull, AtRecv, Return, Nulls
    <3> QED
      BY <3>1
  <2>5. CASE RecvPop(t)
    <3>1. Pops(t) /\ t \in Receivers
      BY <1>4, <1>b, <2>5 DEF InChannel, RecvPop, AtRecv, Return, Pops
    <3> QED
      BY <3>1
  <2>6. CASE CloseSet(t) \/ CloseNotifyNotEmpty(t) \/ CloseNotifyNotFull(t)
    <3>1. pc[t] \notin {"idle", "send", "recv"} /\ t = Main
      BY <2>6, <1>b DEF CloseSet, CloseNotifyNotEmpty, CloseNotifyNotFull
    <3>2. Closes
      BY <1>4, <2>6, <3>1 DEF InChannel, CloseSet, CloseNotifyNotEmpty,
        CloseNotifyNotFull, Return, Closes, TypeOK
    <3> QED
      BY <3>2
  <2> QED
    BY <1>4, <2>1, <2>2, <2>3, <2>4, <2>5, <2>6 DEF InChannel, Step
<1> QED
  BY <1>1, <1>2, <1>3, <1>4 DEF TestNext, Done

(* What taking the first value of a channel leaves.                         *)
LEMMA PopFact ==
    ASSUME NEW c \in Seq(Values), c # <<>>
    PROVE  /\ Head(c) \in Values /\ Head(c) = c[1] /\ 1 \in DOMAIN c
           /\ Tail(c) \in Seq(Values) /\ Len(Tail(c)) = Len(c) - 1
           /\ DOMAIN Tail(c) = 1 .. Len(c) - 1
           /\ \A i \in DOMAIN Tail(c) : i + 1 \in DOMAIN c /\ Tail(c)[i] = c[i + 1]
  OBVIOUS

(* The places of a sequence start at 1 and hold its elements.               *)
LEMMA ElementFact ==
    ASSUME NEW S, NEW c \in Seq(S), NEW i \in DOMAIN c
    PROVE  i \in Nat /\ i # 0 /\ c[i] \in S
  OBVIOUS

(* Every step keeps the threads' places.                                    *)
LEMMA ClientsStep == TypeOK /\ TypeOK' /\ ClientsOK /\ TestStep => ClientsOK'
<1> SUFFICES ASSUME TypeOK, TypeOK', ClientsOK, TestStep PROVE ClientsOK'
  OBVIOUS
<1> USE TestAssumption, ResultsAssumption DEF TypeOK, ClientsOK, Goto, Sent, Threw,
    Answered, Ends, ClientsStay
<1>1. ASSUME NEW s \in Senders, SenderCall(s) PROVE ClientsOK'
  BY <1>1 DEF SenderCall, CallSend, Call
<1>2. ASSUME NEW s \in Senders, SenderCount(s) PROVE ClientsOK'
  BY <1>2 DEF SenderCount, vars, Sent
<1>3. ASSUME NEW s \in Senders, SenderEnd(s) PROVE ClientsOK'
  BY <1>3 DEF SenderEnd, vars, Threw
<1>4. ASSUME NEW s \in Senders, Pushes(s) PROVE ClientsOK'
  BY <1>4 DEF Pushes
<1>5. ASSUME NEW s \in Senders, Throws(s) PROVE ClientsOK'
  BY <1>5 DEF Throws
<1>6. ASSUME NEW r \in Receivers, ReceiverCall(r) PROVE ClientsOK'
  BY <1>6 DEF ReceiverCall, CallRecv, Call
<1>7. ASSUME NEW r \in Receivers, ReceiverNote(r) PROVE ClientsOK'
  BY <1>7 DEF ReceiverNote, vars
<1>8. ASSUME NEW r \in Receivers, ReceiverEnd(r) PROVE ClientsOK'
  BY <1>8 DEF ReceiverEnd, vars
<1>9. ASSUME NEW r \in Receivers, Pops(r) PROVE ClientsOK'
  <2>1. Head(channel) \in Values
    BY <1>9, PopFact DEF Pops
  <2> QED
    BY <1>9, <2>1 DEF Pops
<1>10. ASSUME NEW r \in Receivers, Nulls(r) PROVE ClientsOK'
  BY <1>10 DEF Nulls
<1>11. CASE MainClose
  BY <1>11 DEF MainClose, CallClose, Call
<1>12. CASE MainJoin
  BY <1>12 DEF MainJoin, vars
<1>13. CASE Closes
  <2>1. \A t \in Senders \union Receivers : t \in Threads \ {Main}
    BY DEF Closes
  <2>2. \A t \in Senders \union Receivers : pc'[t] = pc[t] /\ ret'[t] = ret[t]
    BY <1>13, <2>1 DEF Closes
  <2>3. Main \in Threads /\ client[Main] = "called"
    BY <1>13 DEF Closes
  <2> QED
    BY <1>13, <2>1, <2>2, <2>3 DEF Closes
<1>14. CASE Stays
  BY <1>14 DEF Stays
<1> QED
  BY <1>1, <1>2, <1>3, <1>4, <1>5, <1>6, <1>7,
     <1>8, <1>9, <1>10, <1>11, <1>12, <1>13, <1>14 DEF TestStep

(* Every step keeps: exceptions and nullopts come from a closing channel.   *)
LEMMA EndsStep == TypeOK /\ ClientsOK /\ EndsAreRight /\ TestStep => EndsAreRight'
<1> SUFFICES ASSUME TypeOK, ClientsOK, EndsAreRight, TestStep PROVE EndsAreRight'
  OBVIOUS
<1> USE TestAssumption, ResultsAssumption
    DEF TypeOK, ClientsOK, EndsAreRight, Goto, Sent, Threw, Answered, Ends, ClientsStay
<1>1. ASSUME NEW s \in Senders, SenderCall(s) PROVE EndsAreRight'
  BY <1>1 DEF SenderCall, CallSend, Call
<1>2. ASSUME NEW s \in Senders, SenderCount(s) PROVE EndsAreRight'
  BY <1>2 DEF SenderCount, vars, Sent
<1>3. ASSUME NEW s \in Senders, SenderEnd(s) PROVE EndsAreRight'
  BY <1>3 DEF SenderEnd, vars, Threw
<1>4. ASSUME NEW s \in Senders, Pushes(s) PROVE EndsAreRight'
  BY <1>4 DEF Pushes
<1>5. ASSUME NEW s \in Senders, Throws(s) PROVE EndsAreRight'
  BY <1>5 DEF Throws
<1>6. ASSUME NEW r \in Receivers, ReceiverCall(r) PROVE EndsAreRight'
  BY <1>6 DEF ReceiverCall, CallRecv, Call
<1>7. ASSUME NEW r \in Receivers, ReceiverNote(r) PROVE EndsAreRight'
  BY <1>7 DEF ReceiverNote, vars
<1>8. ASSUME NEW r \in Receivers, ReceiverEnd(r) PROVE EndsAreRight'
  BY <1>8 DEF ReceiverEnd, vars
<1>9. ASSUME NEW r \in Receivers, Pops(r) PROVE EndsAreRight'
  <2>1. Head(channel) \in Values
    BY <1>9, PopFact DEF Pops
  <2> QED
    BY <1>9, <2>1 DEF Pops
<1>10. ASSUME NEW r \in Receivers, Nulls(r) PROVE EndsAreRight'
  BY <1>10 DEF Nulls
<1>11. CASE MainClose
  BY <1>11 DEF MainClose, CallClose, Call
<1>12. CASE MainJoin
  BY <1>12 DEF MainJoin, vars
<1>13. CASE Closes
  <2>1. \A t \in Senders \union Receivers : t \in Threads \ {Main}
    BY DEF Closes
  <2>2. \A t \in Senders \union Receivers : pc'[t] = pc[t] /\ ret'[t] = ret[t]
    BY <1>13, <2>1 DEF Closes
  <2>3. Main \in Threads /\ client[Main] = "called"
    BY <1>13 DEF Closes
  <2> QED
    BY <1>13, <2>1, <2>2, <2>3 DEF Closes
<1>14. CASE Stays
  BY <1>14 DEF Stays
<1> QED
  BY <1>1, <1>2, <1>3, <1>4, <1>5, <1>6, <1>7,
     <1>8, <1>9, <1>10, <1>11, <1>12, <1>13, <1>14 DEF TestStep

(* A value can still be fetched while a sender may call.                    *)
LEMMA CounterInValues ==
    ASSUME ClientsOK, CounterBounded, NEW s \in Senders, SenderCall(s)
    PROVE  counter \in Values
<1>1. Doomed \in SUBSET Senders /\ Senders \in SUBSET Threads /\ s \in Threads \ Doomed
  BY TestAssumption DEF Doomed, SenderCall, Goto
<1>2. /\ Cardinality(Doomed) \in Nat /\ Cardinality(Senders) \in Nat
      /\ Cardinality(Doomed \union {s}) = Cardinality(Doomed) + 1
      /\ Cardinality(Doomed \union {s}) <= Cardinality(Senders)
  <2>1. Doomed \in SUBSET Threads /\ Doomed \union {s} \in SUBSET Senders
    BY <1>1
  <2> QED
    BY <1>1, <2>1, Sizes, SizesMonotone
<1>3. counter \in Nat /\ SendBound \in Nat
      /\ counter <= SendBound + Cardinality(Doomed)
  BY <1>2, TestAssumption DEF ClientsOK, CounterBounded, SenderCall
<1> QED
  BY <1>2, <1>3, TestAssumption

(* The test uses the channel as its clients may.                            *)
LEMMA TestUsesChannel ==
    ClientsOK /\ CounterBounded /\ [TestNext]_testvars => [Next]_vars
<1> SUFFICES ASSUME ClientsOK, CounterBounded, [TestNext]_testvars PROVE [Next]_vars
  OBVIOUS
<1>1. CASE UNCHANGED testvars
  BY <1>1 DEF testvars
<1>2. ASSUME NEW t \in Threads, InChannel(Step(t)) \/ InChannel(SpuriousWakeup(t))
      PROVE  Next
  BY <1>2 DEF InChannel, Next
<1>3. ASSUME NEW s \in Senders, SenderCall(s) PROVE Next
  BY <1>3, CounterInValues, TestAssumption DEF SenderCall, Next
<1>4. ASSUME NEW t \in Threads, Lambda(t) PROVE [Next]_vars
  BY <1>3, <1>4, TestAssumption DEF Lambda, SenderCount, SenderEnd, ReceiverCall, ReceiverNote,
    ReceiverEnd, MainClose, MainJoin, Next
<1> QED
  BY <1>1, <1>2, <1>4 DEF TestNext, Done

(* Every step keeps the bound on the values fetched.                        *)
LEMMA CounterStep ==
    TypeOK /\ ClientsOK /\ ClientsOK' /\ CounterBounded /\ TestStep => CounterBounded'
<1> SUFFICES ASSUME TypeOK, ClientsOK, ClientsOK', CounterBounded, TestStep
             PROVE  CounterBounded'
  OBVIOUS
<1>a. Doomed \in SUBSET Threads /\ Doomed' \in SUBSET Threads
  BY TestAssumption DEF Doomed
<1>b. /\ SendBound \in Nat /\ counter \in Nat
      /\ Cardinality(Doomed) \in Nat /\ Cardinality(Doomed') \in Nat
  BY <1>a, Sizes, TestAssumption, ThreadsAssumption, FS_Subset, FS_CardinalityType DEF ClientsOK
<1>c. ASSUME counter' = counter, is_closed => is_closed' /\ Doomed \subseteq Doomed'
      PROVE  CounterBounded'
  <2>1. is_closed => Cardinality(Doomed) <= Cardinality(Doomed')
    BY <1>a, <1>c, SizesMonotone
  <2> QED
    BY <1>b, <1>c, <2>1 DEF CounterBounded
<1> USE TestAssumption, ResultsAssumption
    DEF TypeOK, ClientsOK, Doomed, Goto, Sent, Threw, Answered, Ends, ClientsStay
<1>1. ASSUME NEW s \in Senders, SenderCall(s) PROVE CounterBounded'
  <2>1. /\ s \in Threads \ Doomed /\ counter' = counter + 1 /\ is_closed' = is_closed
        /\ counter < SendBound \/ is_closed
        /\ is_closed => Doomed' = Doomed \union {s}
    BY <1>1 DEF SenderCall, CallSend, Call
  <2> HIDE DEF Doomed, TypeOK, ClientsOK
  <2>2. is_closed => Cardinality(Doomed') = Cardinality(Doomed) + 1
    BY <1>a, <2>1, Sizes
  <2> QED
    BY <1>b, <2>1, <2>2 DEF CounterBounded
<1>2. ASSUME NEW s \in Senders, SenderCount(s) PROVE CounterBounded'
  BY <1>2, <1>c DEF SenderCount, vars
<1>3. ASSUME NEW s \in Senders, SenderEnd(s) PROVE CounterBounded'
  BY <1>3, <1>c DEF SenderEnd, vars
<1>4. ASSUME NEW s \in Senders, Pushes(s) PROVE CounterBounded'
  BY <1>4, <1>c DEF Pushes
<1>5. ASSUME NEW s \in Senders, Throws(s) PROVE CounterBounded'
  BY <1>5, <1>c DEF Throws
<1>6. ASSUME NEW r \in Receivers, ReceiverCall(r) PROVE CounterBounded'
  BY <1>6, <1>c DEF ReceiverCall, CallRecv, Call
<1>7. ASSUME NEW r \in Receivers, ReceiverNote(r) PROVE CounterBounded'
  BY <1>7, <1>c DEF ReceiverNote, vars
<1>8. ASSUME NEW r \in Receivers, ReceiverEnd(r) PROVE CounterBounded'
  BY <1>8, <1>c DEF ReceiverEnd, vars
<1>9. ASSUME NEW r \in Receivers, Pops(r) PROVE CounterBounded'
  BY <1>9, <1>c DEF Pops
<1>10. ASSUME NEW r \in Receivers, Nulls(r) PROVE CounterBounded'
  BY <1>10, <1>c DEF Nulls
<1>11. CASE MainClose
  BY <1>11, <1>c DEF MainClose, CallClose, Call
<1>12. CASE MainJoin
  BY <1>12, <1>c DEF MainJoin, vars
<1>13. CASE Closes
  <2>1. \A s \in Senders : s \in Threads \ {Main}
    OBVIOUS
  <2> HIDE DEF Doomed, TypeOK, ClientsOK
  <2>2. \A s \in Senders : pc'[s] = pc[s] /\ ret'[s] = ret[s] /\ client'[s] = client[s]
    BY <1>13, <2>1 DEF Closes
  <2>3. Doomed' = Doomed
    BY <2>2 DEF Doomed
  <2> QED
    BY <1>13, <1>c, <2>3 DEF Closes
<1>14. CASE Stays
  BY <1>14, <1>c DEF Stays
<1> QED
  BY <1>1, <1>2, <1>3, <1>4, <1>5, <1>6, <1>7,
     <1>8, <1>9, <1>10, <1>11, <1>12, <1>13, <1>14 DEF TestStep

(* Every step keeps: a place known to the test for every place there is,    *)
(* for every receiver in Recv and for every Send not counted yet.           *)
SentBy == {s \in Senders : Sent(s)}
InRecv == {r \in Receivers : pc[r] = "recv"}

LEMMA SlotsStep ==
    TypeOK /\ TypeOK' /\ ClientsOK /\ ClientsOK' /\ SlotsCover /\ TestStep => SlotsCover'
<1> SUFFICES ASSUME TypeOK, TypeOK', ClientsOK, ClientsOK', SlotsCover, TestStep
             PROVE  SlotsCover'
  OBVIOUS
<1>a. SentBy \in SUBSET Threads /\ SentBy' \in SUBSET Threads
      /\ InRecv \in SUBSET Threads /\ InRecv' \in SUBSET Threads
  BY TestAssumption DEF SentBy, InRecv
<1>b. /\ free_slots \in Int /\ Capacity \in Int
      /\ Len(channel) \in Nat /\ Len(channel') \in Nat
      /\ Cardinality(SentBy) \in Nat /\ Cardinality(InRecv) \in Nat
      /\ Cardinality(SentBy') \in Nat /\ Cardinality(InRecv') \in Nat
  BY <1>a, ThreadsAssumption, FS_Subset, FS_CardinalityType, CapacityAssumption
     DEF ClientsOK, TypeOK
<1>c. /\ free_slots >= Capacity - Len(channel) + Cardinality(SentBy) + Cardinality(InRecv)
      /\ (free_slots' >= Capacity - Len(channel') + Cardinality(SentBy') + Cardinality(InRecv'))
            => SlotsCover'
  BY DEF SlotsCover, SentBy, InRecv
<1>d. ASSUME free_slots' = free_slots, channel' = channel, SentBy' = SentBy, InRecv' = InRecv
      PROVE  SlotsCover'
  BY <1>c, <1>d
<1>e. /\ Senders \intersect Receivers = {} /\ Main \notin Senders \union Receivers
      /\ Senders \union Receivers \subseteq Threads
      /\ Void # RuntimeError /\ pc \in [Threads -> PCs] /\ ret \in [Threads -> Results]
      /\ client \in [Threads -> {"loop", "called", "done"}]
  BY TestAssumption, ResultsAssumption DEF TypeOK, ClientsOK
<1>1. ASSUME NEW s \in Senders, SenderCall(s) PROVE SlotsCover'
  BY <1>1, <1>d, <1>e DEF SenderCall, CallSend, Call, Goto, Ends, ClientsStay, Sent,
     SentBy, InRecv
<1>2. ASSUME NEW s \in Senders, SenderCount(s) PROVE SlotsCover'
  <2>1. s \in SentBy /\ SentBy' = SentBy \ {s} /\ InRecv' = InRecv
    BY <1>2, <1>e DEF SenderCount, Goto, Sent, vars, SentBy, InRecv
  <2>2. Cardinality(SentBy') = Cardinality(SentBy) - 1
    BY <1>a, <2>1, Sizes
  <2>3. free_slots' = free_slots - 1 /\ channel' = channel
    BY <1>2 DEF SenderCount, vars
  <2> QED
    BY <1>b, <1>c, <2>1, <2>2, <2>3
<1>3. ASSUME NEW s \in Senders, SenderEnd(s) PROVE SlotsCover'
  BY <1>3, <1>d, <1>e DEF SenderEnd, vars, Goto, Sent, Threw, SentBy, InRecv
<1>4. ASSUME NEW s \in Senders, Pushes(s) PROVE SlotsCover'
  <2>1. s \in Threads \ SentBy /\ SentBy' = SentBy \union {s} /\ InRecv' = InRecv
    BY <1>4, <1>e DEF Pushes, Ends, ClientsStay, Sent, SentBy, InRecv, ClientsOK
  <2>2. Cardinality(SentBy') = Cardinality(SentBy) + 1
    BY <1>a, <2>1, Sizes
  <2>3. free_slots' = free_slots /\ Len(channel') = Len(channel) + 1
    BY <1>4 DEF Pushes, Ends, ClientsStay, TypeOK
  <2> QED
    BY <1>b, <1>c, <2>1, <2>2, <2>3
<1>5. ASSUME NEW s \in Senders, Throws(s) PROVE SlotsCover'
  BY <1>5, <1>d, <1>e DEF Throws, Goto, Ends, ClientsStay, Sent, SentBy, InRecv
<1>6. ASSUME NEW r \in Receivers, ReceiverCall(r) PROVE SlotsCover'
  <2>1. r \in Threads \ InRecv /\ SentBy' = SentBy /\ InRecv' = InRecv \union {r}
    BY <1>6, <1>e DEF ReceiverCall, CallRecv, Call, Goto, Sent, SentBy, InRecv
  <2>2. Cardinality(InRecv') = Cardinality(InRecv) + 1
    BY <1>a, <2>1, Sizes
  <2>3. free_slots' = free_slots + 1 /\ channel' = channel
    BY <1>6 DEF ReceiverCall, CallRecv, Call
  <2> QED
    BY <1>b, <1>c, <2>1, <2>2, <2>3
<1>7. ASSUME NEW r \in Receivers, ReceiverNote(r) PROVE SlotsCover'
  BY <1>7, <1>d, <1>e DEF ReceiverNote, vars, Goto, Ends, ClientsStay, Sent, SentBy, InRecv
<1>8. ASSUME NEW r \in Receivers, ReceiverEnd(r) PROVE SlotsCover'
  BY <1>8, <1>d, <1>e DEF ReceiverEnd, vars, Goto, Ends, ClientsStay, Sent, SentBy, InRecv
<1>9. ASSUME NEW r \in Receivers, Pops(r) PROVE SlotsCover'
  <2>1. r \in InRecv /\ SentBy' = SentBy /\ InRecv' = InRecv \ {r}
    BY <1>9, <1>e DEF Pops, Ends, ClientsStay, Sent, SentBy, InRecv
  <2>2. Cardinality(InRecv') = Cardinality(InRecv) - 1
    BY <1>a, <2>1, Sizes
  <2>3. free_slots' = free_slots /\ Len(channel') = Len(channel) - 1
    BY <1>9, PopFact DEF Pops, Ends, ClientsStay, TypeOK
  <2> QED
    BY <1>b, <1>c, <2>1, <2>2, <2>3
<1>10. ASSUME NEW r \in Receivers, Nulls(r) PROVE SlotsCover'
  <2>1. r \in InRecv /\ SentBy' = SentBy /\ InRecv' = InRecv \ {r}
    BY <1>10, <1>e DEF Nulls, Ends, ClientsStay, Sent, SentBy, InRecv
  <2>2. Cardinality(InRecv') = Cardinality(InRecv) - 1
    BY <1>a, <2>1, Sizes
  <2>3. free_slots' = free_slots /\ channel' = channel
    BY <1>10 DEF Nulls, Ends, ClientsStay
  <2> QED
    BY <1>b, <1>c, <2>1, <2>2, <2>3
<1>11. CASE MainClose
  BY <1>11, <1>d, <1>e DEF MainClose, CallClose, Call, Goto, Ends, ClientsStay, Sent,
     SentBy, InRecv
<1>12. CASE MainJoin
  BY <1>12, <1>d, <1>e DEF MainJoin, vars, Goto, Ends, ClientsStay, Sent, SentBy, InRecv
<1>13. CASE Closes
  <2>1. \A t \in Senders \union Receivers : pc'[t] = pc[t] /\ ret'[t] = ret[t]
    BY <1>13, <1>e DEF Closes
  <2>2. SentBy' = SentBy /\ InRecv' = InRecv
    BY <1>13, <2>1 DEF Closes, ClientsStay, Sent, SentBy, InRecv
  <2> QED
    BY <1>13, <1>d, <2>2 DEF Closes, ClientsStay
<1>14. CASE Stays
  BY <1>14, <1>d, <1>e DEF Stays, Goto, Ends, ClientsStay, Sent, SentBy, InRecv
<1> QED
  BY <1>1, <1>2, <1>3, <1>4, <1>5, <1>6, <1>7,
     <1>8, <1>9, <1>10, <1>11, <1>12, <1>13, <1>14 DEF TestStep

(* Every step keeps: no value is fetched twice.                             *)
LEMMA SendOnceStep == TypeOK /\ ClientsOK /\ SendOnce /\ TestStep => SendOnce'
<1> SUFFICES ASSUME TypeOK, ClientsOK, SendOnce, TestStep PROVE SendOnce'
  OBVIOUS
<1>a. counter \in Nat
  BY DEF ClientsOK
<1>b. ASSUME NEW s \in Senders, NEW i \in SendPlaces(s) PROVE SendAt(s, i) \in Nat /\ i \in Nat
  <2>1. Values \subseteq Nat /\ s \in Threads
    BY TestAssumption
  <2>2. send_values[s] \in Seq(Values) /\ arg[s] \in Values
    BY <2>1 DEF ClientsOK, TypeOK
  <2>3. CASE i = 0
    BY <2>1, <2>2, <2>3 DEF SendAt
  <2>4. CASE i \in DOMAIN send_values[s]
    BY <2>1, <2>2, <2>4, ElementFact DEF SendAt
  <2> QED
    BY <2>3, <2>4 DEF SendPlaces
<1>c. ASSUME counter' = counter,
             \A s \in Senders :
                /\ SendPlaces(s)' \subseteq SendPlaces(s)
                /\ \A i \in SendPlaces(s) : SendAt(s, i)' = SendAt(s, i)
      PROVE  SendOnce'
  BY <1>c DEF SendOnce
<1>e. /\ Senders \intersect Receivers = {} /\ Main \notin Senders \union Receivers
      /\ Senders \subseteq Threads
      /\ client \in [Threads -> {"loop", "called", "done"}]
      /\ arg \in [Threads -> Values]
      /\ send_values \in [Senders -> Seq(Values)]
  BY TestAssumption DEF TypeOK, ClientsOK
<1>1. ASSUME NEW s \in Senders, SenderCall(s) PROVE SendOnce'
  <2>1. /\ SendPlaces(s)' = SendPlaces(s) \union {0} /\ 0 \notin SendPlaces(s)
        /\ SendAt(s, 0)' = counter /\ counter' = counter + 1
        /\ \A i \in SendPlaces(s) : SendAt(s, i)' = SendAt(s, i)
    BY <1>1, <1>e DEF SenderCall, CallSend, Call, Goto, SendPlaces, SendAt
  <2>2. \A s2 \in Senders \ {s} :
          /\ SendPlaces(s2)' = SendPlaces(s2)
          /\ \A i \in SendPlaces(s2) : SendAt(s2, i)' = SendAt(s2, i)
    BY <1>1, <1>e DEF SenderCall, CallSend, Call, Goto, SendPlaces, SendAt
  <2> QED
    BY <1>a, <1>b, <2>1, <2>2 DEF SendOnce
<1>2. ASSUME NEW s \in Senders, SenderCount(s) PROVE SendOnce'
  <2>1. PICK n \in Nat : n = Len(send_values[s])
    BY <1>e
  <2>2. /\ SendPlaces(s)' = (SendPlaces(s) \ {0}) \union {n + 1} /\ 0 \in SendPlaces(s)
        /\ n + 1 \notin SendPlaces(s) /\ SendAt(s, n + 1)' = SendAt(s, 0) /\ counter' = counter
        /\ \A i \in SendPlaces(s) \ {0} : SendAt(s, i)' = SendAt(s, i)
    BY <1>2, <1>e, <2>1 DEF SenderCount, vars, Goto, Sent, SendPlaces, SendAt
  <2>3. \A s2 \in Senders \ {s} :
          /\ SendPlaces(s2)' = SendPlaces(s2)
          /\ \A i \in SendPlaces(s2) : SendAt(s2, i)' = SendAt(s2, i)
    BY <1>2, <1>e DEF SenderCount, vars, Goto, SendPlaces, SendAt
  <2> QED
    BY <1>a, <1>b, <2>2, <2>3 DEF SendOnce
<1>3. ASSUME NEW s \in Senders, SenderEnd(s) PROVE SendOnce'
  BY <1>3, <1>c, <1>e DEF SenderEnd, vars, Ends, ClientsStay, Goto, SendPlaces, SendAt
<1>4. ASSUME NEW s \in Senders, Pushes(s) PROVE SendOnce'
  BY <1>4, <1>c, <1>e DEF Pushes, Ends, ClientsStay, Goto, SendPlaces, SendAt
<1>5. ASSUME NEW s \in Senders, Throws(s) PROVE SendOnce'
  BY <1>5, <1>c, <1>e DEF Throws, Ends, ClientsStay, Goto, SendPlaces, SendAt
<1>6. ASSUME NEW r \in Receivers, ReceiverCall(r) PROVE SendOnce'
  BY <1>6, <1>c, <1>e DEF ReceiverCall, CallRecv, Call, Ends, ClientsStay, Goto,
     SendPlaces, SendAt
<1>7. ASSUME NEW r \in Receivers, ReceiverNote(r) PROVE SendOnce'
  BY <1>7, <1>c, <1>e DEF ReceiverNote, vars, Ends, ClientsStay, Goto, SendPlaces, SendAt
<1>8. ASSUME NEW r \in Receivers, ReceiverEnd(r) PROVE SendOnce'
  BY <1>8, <1>c, <1>e DEF ReceiverEnd, vars, Ends, ClientsStay, Goto, SendPlaces, SendAt
<1>9. ASSUME NEW r \in Receivers, Pops(r) PROVE SendOnce'
  BY <1>9, <1>c, <1>e DEF Pops, Ends, ClientsStay, Goto, SendPlaces, SendAt
<1>10. ASSUME NEW r \in Receivers, Nulls(r) PROVE SendOnce'
  BY <1>10, <1>c, <1>e DEF Nulls, Ends, ClientsStay, Goto, SendPlaces, SendAt
<1>11. CASE MainClose
  BY <1>11, <1>c, <1>e DEF MainClose, CallClose, Call, Ends, ClientsStay, Goto, SendPlaces,
     SendAt
<1>12. CASE MainJoin
  BY <1>12, <1>c, <1>e DEF MainJoin, vars, Ends, ClientsStay, Goto, SendPlaces, SendAt
<1>13. CASE Closes
  BY <1>13, <1>c, <1>e DEF Closes, Ends, ClientsStay, Goto, SendPlaces, SendAt
<1>14. CASE Stays
  BY <1>14, <1>c, <1>e DEF Stays, Ends, ClientsStay, Goto, SendPlaces, SendAt
<1> QED
  BY <1>1, <1>2, <1>3, <1>4, <1>5, <1>6, <1>7,
     <1>8, <1>9, <1>10, <1>11, <1>12, <1>13, <1>14 DEF TestStep

RecvKeeps(r) ==
    /\ RecvPlaces(r)' = RecvPlaces(r)
    /\ \A i \in RecvPlaces(r) : RecvAt(r, i)' = RecvAt(r, i)

(* What a step moves on the receivers' side.                                *)
Received(r, p, i) ==
    /\ RecvPlaces(r)' = (RecvPlaces(r) \ {0}) \union {i} /\ i \notin RecvPlaces(r)
    /\ \A j \in RecvPlaces(r) \ {0} : RecvAt(r, j)' = RecvAt(r, j)
    /\ RecvAt(r, i)' = p
    /\ \A q \in Receivers \ {r} : RecvKeeps(q)

LEMMA RecvSide ==
    ASSUME TypeOK, ClientsOK, TestStep
    PROVE  \/ channel' = channel /\ \A r \in Receivers : RecvKeeps(r)
           \/ \E s \in Senders : Pushes(s) /\ \A r \in Receivers : RecvKeeps(r)
           \/ \E r \in Receivers : /\ channel # <<>> /\ channel' = Tail(channel)
                                   /\ 0 \notin RecvPlaces(r)
                                   /\ Received(r, Head(channel), 0)
           \/ \E r \in Receivers : /\ channel' = channel /\ 0 \in RecvPlaces(r)
                                   /\ \E i \in Nat : Received(r, RecvAt(r, 0), i)
<1> DEFINE Same == channel' = channel /\ \A r \in Receivers : RecvKeeps(r)
<1>e. /\ Senders \intersect Receivers = {} /\ Main \notin Senders \union Receivers
      /\ Senders \union Receivers \union {Main} = Threads /\ NullOpt \notin Values
      /\ client \in [Threads -> {"loop", "called", "done"}]
      /\ ret \in [Threads -> Results] /\ pc \in [Threads -> PCs]
      /\ recv_values \in [Receivers -> Seq(Values)] /\ channel \in Seq(Values)
  BY TestAssumption, ResultsAssumption DEF TypeOK, ClientsOK
<1> USE DEF Ends, ClientsStay, Goto, RecvPlaces, RecvAt, Answered, RecvKeeps
<1>1. ASSUME NEW s \in Senders, SenderCall(s) PROVE Same
  BY <1>1, <1>e DEF SenderCall, CallSend, Call
<1>2. ASSUME NEW s \in Senders, SenderCount(s) PROVE Same
  BY <1>2, <1>e DEF SenderCount, vars
<1>3. ASSUME NEW s \in Senders, SenderEnd(s) PROVE Same
  BY <1>3, <1>e DEF SenderEnd, vars
<1>4. ASSUME NEW s \in Senders, Pushes(s) PROVE \A r \in Receivers : RecvKeeps(r)
  BY <1>4, <1>e DEF Pushes
<1>5. ASSUME NEW s \in Senders, Throws(s) PROVE Same
  BY <1>5, <1>e DEF Throws
<1>6. ASSUME NEW r \in Receivers, ReceiverCall(r) PROVE Same
  BY <1>6, <1>e DEF ReceiverCall, CallRecv, Call
<1>7. ASSUME NEW r \in Receivers, ReceiverNote(r)
      PROVE  /\ channel' = channel /\ 0 \in RecvPlaces(r)
             /\ \E i \in Nat : Received(r, RecvAt(r, 0), i)
  <2>1. PICK n \in Nat : n = Len(recv_values[r])
    BY <1>e
  <2>2. /\ RecvPlaces(r)' = (RecvPlaces(r) \ {0}) \union {n + 1} /\ n + 1 \notin RecvPlaces(r)
        /\ channel' = channel /\ 0 \in RecvPlaces(r)
    BY <1>7, <1>e, <2>1 DEF ReceiverNote, vars
  <2>3. /\ \A j \in RecvPlaces(r) \ {0} : RecvAt(r, j)' = RecvAt(r, j)
        /\ RecvAt(r, n + 1)' = RecvAt(r, 0)
    BY <1>7, <1>e, <2>1 DEF ReceiverNote, vars
  <2>4. \A q \in Receivers \ {r} : RecvKeeps(q)
    BY <1>7, <1>e DEF ReceiverNote, vars
  <2> QED
    BY <2>1, <2>2, <2>3, <2>4 DEF Received
<1>8. ASSUME NEW r \in Receivers, ReceiverEnd(r) PROVE Same
  BY <1>8, <1>e DEF ReceiverEnd, vars
<1>9. ASSUME NEW r \in Receivers, Pops(r)
      PROVE  /\ channel # <<>> /\ channel' = Tail(channel) /\ 0 \notin RecvPlaces(r)
             /\ Received(r, Head(channel), 0)
  <2>1. /\ 0 \notin RecvPlaces(r) /\ RecvPlaces(r)' = RecvPlaces(r) \union {0}
        /\ RecvAt(r, 0)' = Head(channel)
    <3>1. Head(channel) \in Values /\ client[r] = "called"
      BY <1>9, <1>e, PopFact DEF Pops, ClientsOK
    <3> QED
      BY <1>9, <1>e, <3>1 DEF Pops
  <2>2. \A j \in RecvPlaces(r) \ {0} : RecvAt(r, j)' = RecvAt(r, j)
    BY <1>9, <1>e DEF Pops
  <2>3. \A q \in Receivers \ {r} : RecvKeeps(q)
    BY <1>9, <1>e DEF Pops
  <2> QED
    BY <1>9, <2>1, <2>2, <2>3 DEF Received, Pops
<1>10. ASSUME NEW r \in Receivers, Nulls(r) PROVE Same
  BY <1>10, <1>e DEF Nulls
<1>11. CASE MainClose
  BY <1>11, <1>e DEF MainClose, CallClose, Call
<1>12. CASE MainJoin
  BY <1>12, <1>e DEF MainJoin, vars
<1>13. CASE Closes
  <2>1. \A r \in Receivers : pc'[r] = pc[r] /\ ret'[r] = ret[r]
    BY <1>13, <1>e DEF Closes
  <2> QED
    BY <1>13, <1>e, <2>1 DEF Closes
<1>14. CASE Stays
  BY <1>14, <1>e DEF Stays
<1> QED
  BY <1>1, <1>2, <1>3, <1>4, <1>5, <1>6, <1>7,
     <1>8, <1>9, <1>10, <1>11, <1>12, <1>13, <1>14 DEF TestStep

(* What a Send pushed is counted on the senders' side from that step on.    *)
LEMMA PushChanges ==
    ASSUME NEW c \in Seq(Values), NEW v
    PROVE  Append(c, v) # c /\ (c # <<>> => Append(c, v) # Tail(c))
<1>1. Len(Append(c, v)) = Len(c) + 1 /\ Len(c) \in Nat
  OBVIOUS
<1>2. c # <<>> => Len(Tail(c)) = Len(c) - 1
  BY PopFact
<1> QED
  BY <1>1, <1>2

SendKeeps(s) ==
    /\ SendPlaces(s)' = SendPlaces(s) /\ Sent(s)' = Sent(s)
    /\ \A i \in SendPlaces(s) : SendAt(s, i)' = SendAt(s, i)

LEMMA PushedStep ==
    ASSUME TypeOK, ClientsOK, TestStep, \A s \in Senders : ~Pushes(s), NEW v
    PROVE  Pushed(v)' <=> Pushed(v)
<1> DEFINE Same == Pushed(v)' <=> Pushed(v)
<1>c. ASSUME \A s \in Senders : SendKeeps(s) PROVE Same
  BY <1>c DEF SendKeeps, Pushed
<1>e. /\ Senders \intersect Receivers = {} /\ Main \notin Senders \union Receivers
      /\ Senders \union Receivers \union {Main} = Threads /\ Void # RuntimeError
      /\ client \in [Threads -> {"loop", "called", "done"}]
      /\ ret \in [Threads -> Results] /\ pc \in [Threads -> PCs] /\ arg \in [Threads -> Values]
      /\ send_values \in [Senders -> Seq(Values)]
  BY TestAssumption, ResultsAssumption DEF TypeOK, ClientsOK
<1>1. ASSUME NEW s \in Senders, SenderCall(s) PROVE Same
  <2>1. /\ SendPlaces(s)' = SendPlaces(s) \union {0} /\ 0 \notin SendPlaces(s)
        /\ ~Sent(s) /\ ~Sent(s)'
    BY <1>1, <1>e DEF SenderCall, CallSend, Call, Goto, SendPlaces, Sent
  <2>2. \A i \in SendPlaces(s) : SendAt(s, i)' = SendAt(s, i)
    BY <1>1, <1>e, <2>1 DEF SenderCall, SendAt
  <2>3. \A q \in Senders \ {s} : SendKeeps(q)
    BY <1>1, <1>e DEF SendKeeps, SenderCall, CallSend, Call, Goto, SendPlaces, SendAt, Sent
  <2> QED
    BY <2>1, <2>2, <2>3 DEF SendKeeps, Pushed
<1>2. ASSUME NEW s \in Senders, SenderCount(s) PROVE Same
  <2>1. PICK n \in Nat : n = Len(send_values[s])
    BY <1>e
  <2>2. /\ SendPlaces(s)' = (SendPlaces(s) \ {0}) \union {n + 1} /\ 0 \in SendPlaces(s)
        /\ n + 1 \notin SendPlaces(s) /\ SendAt(s, n + 1)' = SendAt(s, 0) /\ Sent(s)
        /\ \A i \in SendPlaces(s) \ {0} : SendAt(s, i)' = SendAt(s, i)
    BY <1>2, <1>e, <2>1 DEF SenderCount, vars, Goto, Sent, SendPlaces, SendAt
  <2>3. \A q \in Senders \ {s} : SendKeeps(q)
    BY <1>2, <1>e DEF SendKeeps, SenderCount, vars, Goto, SendPlaces, SendAt, Sent
  <2> QED
    BY <2>2, <2>3 DEF SendKeeps, Pushed
<1>3. ASSUME NEW s \in Senders, SenderEnd(s) PROVE Same
  <2>1. SendPlaces(s)' = SendPlaces(s) \ {0} /\ ~Sent(s) /\ ~Sent(s)'
    BY <1>3, <1>e DEF SenderEnd, vars, Goto, SendPlaces, Sent, Threw
  <2>2. \A i \in SendPlaces(s) : SendAt(s, i)' = SendAt(s, i)
    BY <1>3 DEF SenderEnd, vars, SendAt
  <2>3. \A q \in Senders \ {s} : SendKeeps(q)
    BY <1>3, <1>e DEF SendKeeps, SenderEnd, vars, Goto, SendPlaces, SendAt, Sent
  <2> QED
    BY <2>1, <2>2, <2>3 DEF SendKeeps, Pushed
<1>4. ASSUME NEW s \in Senders, Pushes(s) PROVE Same
  BY <1>4
<1>5. ASSUME NEW s \in Senders, Throws(s) PROVE Same
  <2>1. \A q \in Senders : SendKeeps(q)
    BY <1>5, <1>e DEF SendKeeps, Throws, Ends, ClientsStay, Goto, SendPlaces, SendAt, Sent
  <2> QED
    BY <1>c, <2>1
<1>6. ASSUME NEW r \in Receivers, ReceiverCall(r) PROVE Same
  <2>1. \A s \in Senders : SendKeeps(s)
    BY <1>6, <1>e DEF SendKeeps, ReceiverCall, CallRecv, Call, Ends, ClientsStay, Goto,
       SendPlaces, SendAt, Sent
  <2> QED
    BY <1>c, <2>1
<1>7. ASSUME NEW r \in Receivers, ReceiverNote(r) PROVE Same
  <2>1. \A s \in Senders : SendKeeps(s)
    BY <1>7, <1>e DEF SendKeeps, ReceiverNote, vars, Ends, ClientsStay, Goto, SendPlaces,
       SendAt, Sent
  <2> QED
    BY <1>c, <2>1
<1>8. ASSUME NEW r \in Receivers, ReceiverEnd(r) PROVE Same
  <2>1. \A s \in Senders : SendKeeps(s)
    BY <1>8, <1>e DEF SendKeeps, ReceiverEnd, vars, Ends, ClientsStay, Goto, SendPlaces,
       SendAt, Sent
  <2> QED
    BY <1>c, <2>1
<1>9. ASSUME NEW r \in Receivers, Pops(r) PROVE Same
  <2>1. \A s \in Senders : SendKeeps(s)
    BY <1>9, <1>e DEF SendKeeps, Pops, Ends, ClientsStay, Goto, SendPlaces, SendAt, Sent
  <2> QED
    BY <1>c, <2>1
<1>10. ASSUME NEW r \in Receivers, Nulls(r) PROVE Same
  <2>1. \A s \in Senders : SendKeeps(s)
    BY <1>10, <1>e DEF SendKeeps, Nulls, Ends, ClientsStay, Goto, SendPlaces, SendAt, Sent
  <2> QED
    BY <1>c, <2>1
<1>11. CASE MainClose
  <2>1. \A s \in Senders : SendKeeps(s)
    BY <1>11, <1>e DEF SendKeeps, MainClose, CallClose, Call, Ends, ClientsStay, Goto,
       SendPlaces, SendAt, Sent
  <2> QED
    BY <1>c, <2>1
<1>12. CASE MainJoin
  <2>1. \A s \in Senders : SendKeeps(s)
    BY <1>12, <1>e DEF SendKeeps, MainJoin, vars, Ends, ClientsStay, Goto, SendPlaces,
       SendAt, Sent
  <2> QED
    BY <1>c, <2>1
<1>13. CASE Closes
  <2>1. \A s \in Senders : pc'[s] = pc[s] /\ ret'[s] = ret[s]
    BY <1>13, <1>e DEF Closes
  <2> QED
    BY <1>13, <1>c, <1>e, <2>1 DEF SendKeeps, Closes, ClientsStay, SendPlaces, SendAt, Sent
<1>14. CASE Stays
  <2>1. \A s \in Senders : SendKeeps(s)
    BY <1>14, <1>e DEF SendKeeps, Stays, Ends, ClientsStay, Goto, SendPlaces, SendAt, Sent
  <2> QED
    BY <1>c, <2>1
<1> QED
  BY <1>1, <1>2, <1>3, <1>4, <1>5, <1>6, <1>7,
     <1>8, <1>9, <1>10, <1>11, <1>12, <1>13, <1>14 DEF TestStep

LEMMA PushedPush ==
    ASSUME TypeOK, ClientsOK, NEW s \in Senders, Pushes(s), NEW v
    PROVE  Pushed(v)' <=> Pushed(v) \/ v = arg[s]
<1>1. /\ SendPlaces(s)' = SendPlaces(s) /\ 0 \in SendPlaces(s) /\ ~Sent(s) /\ Sent(s)'
      /\ \A q \in Senders : \A i \in SendPlaces(q) : SendAt(q, i)' = SendAt(q, i)
      /\ SendAt(s, 0) = arg[s]
  BY TestAssumption DEF Pushes, Ends, ClientsStay, TypeOK, ClientsOK, Sent, SendPlaces, SendAt
<1>2. \A q \in Senders \ {s} : SendKeeps(q)
  BY TestAssumption DEF Pushes, Ends, ClientsStay, TypeOK, ClientsOK, Sent, SendPlaces,
     SendAt, SendKeeps
<1> QED
  BY <1>1, <1>2 DEF SendKeeps, Pushed

(* The other side: a push adds the value there as well.                     *)
LEMMA BehindPush ==
    ASSUME TypeOK, ClientsOK, TestStep, NEW s \in Senders, Pushes(s)
    PROVE  /\ \A r \in Receivers : RecvKeeps(r)
           /\ \A v : Behind(v)' <=> Behind(v) \/ v = arg[s]
<1>0. channel \in Seq(Values) /\ channel' = Append(channel, arg[s]) /\ arg[s] \in Values
  BY TestAssumption DEF TypeOK, Pushes
<1>1. \A r \in Receivers : RecvKeeps(r)
  BY <1>0, RecvSide, PushChanges
<1>2. \A v : (\E i \in DOMAIN channel' : channel'[i] = v)
                <=> (\E i \in DOMAIN channel : channel[i] = v) \/ v = arg[s]
  <2>1. /\ DOMAIN channel' = DOMAIN channel \union {Len(channel) + 1}
        /\ \A i \in DOMAIN channel : channel'[i] = channel[i]
        /\ channel'[Len(channel) + 1] = arg[s]
    BY <1>0
  <2> QED
    BY <2>1
<1> QED
  BY <1>1, <1>2 DEF Behind, RecvKeeps

LEMMA BehindStep ==
    ASSUME TypeOK, ClientsOK, TestStep, \A s \in Senders : ~Pushes(s), NEW v
    PROVE  Behind(v)' <=> Behind(v)
<1>1. CASE channel' = channel /\ \A r \in Receivers : RecvKeeps(r)
  BY <1>1 DEF Behind, RecvKeeps
<1>2. ASSUME NEW r \in Receivers, channel # <<>>, channel' = Tail(channel),
             0 \notin RecvPlaces(r), Received(r, Head(channel), 0)
      PROVE  Behind(v)' <=> Behind(v)
  <2>0. channel \in Seq(Values)
    BY DEF TypeOK
  <2>1. (\E i \in DOMAIN channel : channel[i] = v)
          <=> (\E i \in DOMAIN channel' : channel'[i] = v) \/ v = Head(channel)
    <3>1. ASSUME NEW i \in DOMAIN channel, i # 1
          PROVE  i - 1 \in DOMAIN channel' /\ channel'[i - 1] = channel[i]
      BY <1>2, <2>0, <3>1
    <3>2. /\ 1 \in DOMAIN channel /\ channel[1] = Head(channel)
          /\ \A i \in DOMAIN channel' : i + 1 \in DOMAIN channel /\ channel'[i] = channel[i + 1]
      BY <1>2, <2>0, PopFact
    <3>3. ASSUME NEW i \in DOMAIN channel, channel[i] = v
          PROVE  (\E j \in DOMAIN channel' : channel'[j] = v) \/ v = Head(channel)
      <4>1. CASE i = 1
        BY <3>2, <3>3, <4>1
      <4>2. CASE i # 1
        BY <3>1, <3>3, <4>2
      <4> QED
        BY <4>1, <4>2
    <3> QED
      BY <3>2, <3>3
  <2>2. (\E q \in Receivers : \E i \in RecvPlaces(q)' : RecvAt(q, i)' = v)
          <=> (\E q \in Receivers : \E i \in RecvPlaces(q) : RecvAt(q, i) = v)
              \/ v = Head(channel)
    BY <1>2 DEF Received, RecvKeeps
  <2> QED
    BY <2>1, <2>2 DEF Behind
<1>3. ASSUME NEW r \in Receivers, channel' = channel, 0 \in RecvPlaces(r),
             NEW i \in Nat, Received(r, RecvAt(r, 0), i)
      PROVE  Behind(v)' <=> Behind(v)
  BY <1>3 DEF Behind, Received, RecvKeeps
<1> QED
  BY <1>1, <1>2, <1>3, RecvSide

(* Every step keeps: what was pushed is in the channel or with a receiver.  *)
LEMMA NothingLostStep == TypeOK /\ ClientsOK /\ NothingLost /\ TestStep => NothingLost'
<1> SUFFICES ASSUME TypeOK, ClientsOK, NothingLost, TestStep, NEW v \in Values
             PROVE  Pushed(v)' <=> Behind(v)'
  BY DEF NothingLost
<1>0. Pushed(v) <=> Behind(v)
  BY DEF NothingLost
<1>1. CASE \A s \in Senders : ~Pushes(s)
  BY <1>0, <1>1, PushedStep, BehindStep
<1>2. ASSUME NEW s \in Senders, Pushes(s) PROVE Pushed(v)' <=> Behind(v)'
  BY <1>0, <1>2, PushedPush, BehindPush
<1> QED
  BY <1>1, <1>2

(* Every step keeps: no value is at two places behind the push.             *)
LEMMA RecvOnceStep ==
    TypeOK /\ ClientsOK /\ SendOnce /\ NothingLost /\ RecvOnce /\ TestStep => RecvOnce'
<1> SUFFICES ASSUME TypeOK, ClientsOK, SendOnce, NothingLost, RecvOnce, TestStep
             PROVE  RecvOnce'
  OBVIOUS
<1>0. channel \in Seq(Values)
  BY DEF TypeOK
<1>1. CASE channel' = channel /\ \A r \in Receivers : RecvKeeps(r)
  BY <1>1 DEF RecvOnce, RecvKeeps
<1>2. ASSUME NEW s \in Senders, Pushes(s) PROVE RecvOnce'
  <2>1. \A r \in Receivers : RecvKeeps(r)
    BY <1>2, BehindPush
  <2>2. arg[s] \in Values /\ channel' = Append(channel, arg[s])
    BY <1>2, TestAssumption DEF TypeOK, Pushes
  <2>3. ~Behind(arg[s])
    <3>1. 0 \in SendPlaces(s) /\ SendAt(s, 0) = arg[s] /\ ~Sent(s)
      BY <1>2, TestAssumption DEF Pushes, ClientsOK, Sent, SendPlaces, SendAt
    <3>2. ~Pushed(arg[s])
      BY <3>1 DEF Pushed, SendOnce
    <3> QED
      BY <2>2, <3>2 DEF NothingLost
  <2>4. /\ DOMAIN channel' = DOMAIN channel \union {Len(channel) + 1}
        /\ \A i \in DOMAIN channel : channel'[i] = channel[i]
        /\ channel'[Len(channel) + 1] = arg[s]
    BY <1>0, <2>2
  <2>5. \A i \in DOMAIN channel : channel[i] # arg[s]
    BY <2>3 DEF Behind
  <2>6. \A r \in Receivers : \A i \in RecvPlaces(r) : RecvAt(r, i) # arg[s]
    BY <2>3 DEF Behind
  <2>7. \A i, j \in DOMAIN channel' : channel'[i] = channel'[j] => i = j
    BY <2>4, <2>5 DEF RecvOnce
  <2> QED
    BY <2>1, <2>4, <2>6, <2>7 DEF RecvOnce, RecvKeeps
<1>3. ASSUME NEW r \in Receivers, channel # <<>>, channel' = Tail(channel),
             0 \notin RecvPlaces(r), Received(r, Head(channel), 0)
      PROVE  RecvOnce'
  <2>1. /\ Head(channel) = channel[1] /\ 1 \in DOMAIN channel
        /\ \A i \in DOMAIN channel' :
             i \in Nat \ {0} /\ i + 1 \in DOMAIN channel /\ channel'[i] = channel[i + 1]
    BY <1>0, <1>3, PopFact
  <2>2. \A i, j \in DOMAIN channel' : channel'[i] = channel'[j] => i = j
    BY <2>1 DEF RecvOnce
  <2>3. \A j \in DOMAIN channel' : channel'[j] # Head(channel)
    BY <2>1 DEF RecvOnce
  <2>4. \A q \in Receivers : \A i \in RecvPlaces(q) : RecvAt(q, i) # Head(channel)
    BY <2>1 DEF RecvOnce
  <2>5. \A q \in Receivers : \A i \in RecvPlaces(q)' :
          \/ q = r /\ i = 0 /\ RecvAt(q, i)' = Head(channel)
          \/ ~(q = r /\ i = 0) /\ i \in RecvPlaces(q) /\ RecvAt(q, i)' = RecvAt(q, i)
    BY <1>3 DEF Received, RecvKeeps
  <2>6. \A q \in Receivers : \A i \in RecvPlaces(q)' : \A j \in DOMAIN channel' :
          channel'[j] # RecvAt(q, i)'
    BY <2>1, <2>3, <2>5 DEF RecvOnce
  <2>7. \A q \in Receivers : \A i \in RecvPlaces(q)' :
          \A q2 \in Receivers : \A j \in RecvPlaces(q2)' :
             RecvAt(q, i)' = RecvAt(q2, j)' => q = q2 /\ i = j
    BY <2>4, <2>5 DEF RecvOnce
  <2> QED
    BY <2>2, <2>6, <2>7 DEF RecvOnce
<1>4. ASSUME NEW r \in Receivers, channel' = channel, 0 \in RecvPlaces(r),
             NEW n \in Nat, Received(r, RecvAt(r, 0), n)
      PROVE  RecvOnce'
  <2>1. \A q \in Receivers : \A i \in RecvPlaces(q)' :
          \/ q = r /\ i = n /\ RecvAt(q, i)' = RecvAt(r, 0)
          \/ /\ ~(q = r /\ i = n) /\ ~(q = r /\ i = 0)
             /\ i \in RecvPlaces(q) /\ RecvAt(q, i)' = RecvAt(q, i)
    BY <1>4 DEF Received, RecvKeeps
  <2>2. \A q \in Receivers : \A i \in RecvPlaces(q)' : \A j \in DOMAIN channel' :
          channel'[j] # RecvAt(q, i)'
    BY <1>4, <2>1 DEF RecvOnce
  <2>3. \A q \in Receivers : \A i \in RecvPlaces(q)' :
          \A q2 \in Receivers : \A j \in RecvPlaces(q2)' :
             RecvAt(q, i)' = RecvAt(q2, j)' => q = q2 /\ i = j
    BY <1>4, <2>1 DEF RecvOnce
  <2> QED
    BY <1>4, <2>2, <2>3 DEF RecvOnce
<1> QED
  BY <1>1, <1>2, <1>3, <1>4, RecvSide

(* A value that is in at most one place occurs once or never.               *)
LEMMA OccursOnce ==
    ASSUME NEW vectors, NEW v,
           \A t, u \in DOMAIN vectors : \A i \in DOMAIN vectors[t], j \in DOMAIN vectors[u] :
              vectors[t][i] = v /\ vectors[u][j] = v => t = u /\ i = j
    PROVE  Occurrences(v, vectors) =
             IF \E t \in DOMAIN vectors : \E i \in DOMAIN vectors[t] : vectors[t][i] = v
             THEN 1 ELSE 0
<1> DEFINE Places == UNION {{t} \X {i \in DOMAIN vectors[t] : vectors[t][i] = v} :
                              t \in DOMAIN vectors}
<1>1. \A p : p \in Places <=> \E t \in DOMAIN vectors : \E i \in DOMAIN vectors[t] :
                                vectors[t][i] = v /\ p = <<t, i>>
  OBVIOUS
<1>2. Occurrences(v, vectors) = Cardinality(Places)
  BY DEF Occurrences
<1> HIDE DEF Places
<1>3. ASSUME NEW t \in DOMAIN vectors, NEW i \in DOMAIN vectors[t], vectors[t][i] = v
      PROVE  Cardinality(Places) = 1
  <2>1. Places = {<<t, i>>}
    BY <1>1, <1>3
  <2> QED
    BY <2>1, FS_Singleton
<1>4. CASE ~\E t \in DOMAIN vectors : \E i \in DOMAIN vectors[t] : vectors[t][i] = v
  <2>1. Places = {}
    BY <1>1, <1>4
  <2> QED
    BY <1>2, <1>4, <2>1, FS_EmptySet
<1> QED
  BY <1>2, <1>3, <1>4

LEMMA TestInvInit == TestInit => TestInv
<1> SUFFICES ASSUME TestInit PROVE TestInv
  OBVIOUS
<1>1. TypeOK
  BY TypeInit DEF TestInit
<1>2. /\ \A s \in Senders : ~Sent(s) /\ SendPlaces(s) = {}
      /\ \A r \in Receivers : ~Answered(r) /\ RecvPlaces(r) = {}
  BY TestAssumption DEF TestInit, Sent, Answered, SendPlaces, RecvPlaces
<1>3. ClientsOK /\ EndsAreRight
  <2>1. \A t \in Threads : client[t] = "loop" /\ pc[t] = "idle"
    BY DEF TestInit, Init
  <2>2. Senders \union Receivers \union {Main} = Threads
    BY TestAssumption
  <2>3. /\ client \in [Threads -> {"loop", "called", "done"}]
        /\ counter \in Nat /\ free_slots \in Int /\ was_closed \in BOOLEAN
        /\ send_values \in [Senders -> Seq(Values)]
        /\ recv_values \in [Receivers -> Seq(Values)]
    <3>1. <<>> \in Seq(Values)
      OBVIOUS
    <3>2. /\ send_values \in [Senders -> {<<>>}] /\ recv_values \in [Receivers -> {<<>>}]
          /\ client \in [Threads -> {"loop"}]
          /\ counter = 0 /\ free_slots = Capacity /\ was_closed = FALSE
      BY DEF TestInit
    <3> QED
      BY <3>1, <3>2, CapacityAssumption
  <2>4. EndsAreRight
    <3>1. ~is_closed
      BY DEF TestInit, Init
    <3> QED
      BY <2>1, <2>2, <3>1 DEF EndsAreRight, Threw, Answered
  <2> QED
    BY <2>1, <2>2, <2>3, <2>4, <1>2 DEF ClientsOK
<1>4. CounterBounded
  BY TestAssumption DEF TestInit, Init, CounterBounded
<1>5. SlotsCover
  <2>1. {s \in Senders : Sent(s)} = {} /\ {r \in Receivers : pc[r] = "recv"} = {}
    BY <1>2, TestAssumption DEF TestInit, Init
  <2>2. Len(channel) = 0 /\ free_slots = Capacity
    BY DEF TestInit, Init
  <2>3. /\ Cardinality({s \in Senders : Sent(s)}) = 0
        /\ Cardinality({r \in Receivers : pc[r] = "recv"}) = 0
    BY <2>1, FS_EmptySet
  <2> QED
    BY <2>2, <2>3, CapacityAssumption DEF SlotsCover
<1>6. SendOnce /\ RecvOnce /\ NothingLost
  BY <1>2 DEF SendOnce, RecvOnce, NothingLost, Pushed, Behind, TestInit, Init
<1> QED
  BY <1>1, <1>3, <1>4, <1>5, <1>6 DEF TestInv

LEMMA TestInvStep == TestInv /\ [TestNext]_testvars => TestInv'
<1> SUFFICES ASSUME TestInv, [TestNext]_testvars PROVE TestInv'
  OBVIOUS
<1>1. TestStep
  BY TestSteps DEF TestInv
<1>2. TypeOK'
  BY TypeStep, TestUsesChannel DEF TestInv
<1>3. ClientsOK'
  BY <1>1, <1>2, ClientsStep DEF TestInv
<1> QED
  BY <1>1, <1>2, <1>3, EndsStep, CounterStep, SlotsStep, SendOnceStep, RecvOnceStep,
     NothingLostStep
     DEF TestInv

(* What the test asserts follows.                                           *)
LEMMA TestInvAsserts == TestInv => TestAssertions
<1> SUFFICES ASSUME TestInv PROVE TestAssertions
  OBVIOUS
<1> USE DEF TestInv
<1>1. ASSUME NEW s \in Senders, Sent(s) PROVE free_slots >= 1
  <2> DEFINE A == {q \in Senders : Sent(q)}
             B == {r \in Receivers : pc[r] = "recv"}
  <2>1. A \in SUBSET Threads /\ B \in SUBSET Threads /\ s \in A
    BY <1>1, TestAssumption
  <2>2. Cardinality(A) \in Nat /\ Cardinality(B) \in Nat
    BY <2>1, ThreadsAssumption, FS_Subset, FS_CardinalityType
  <2>3. Cardinality(A) # 0
    BY <2>1, ThreadsAssumption, FS_Subset, FS_EmptySet
  <2>4. /\ Capacity \in Int /\ Len(channel) \in Nat
        /\ Len(channel) <= Capacity /\ free_slots \in Int
    BY TestAssumption, CapacityAssumption DEF TypeOK, ClientsOK
  <2>5. free_slots >= Capacity - Len(channel) + Cardinality(A) + Cardinality(B)
    BY DEF SlotsCover
  <2> HIDE DEF A, B
  <2> QED
    BY <2>2, <2>3, <2>4, <2>5
<1>2. /\ \A s \in Senders : Threw(s) => was_closed
      /\ \A r \in Receivers : Answered(r) /\ ret[r] = NullOpt => was_closed
  BY DEF EndsAreRight
<1>3. ASSUME client[Main] = "done", NEW v \in Values
      PROVE  Occurrences(v, send_values) = Occurrences(v, recv_values)
  <2>1. /\ \A t \in Senders \union Receivers : client[t] = "done"
        /\ DOMAIN send_values = Senders /\ DOMAIN recv_values = Receivers
    BY <1>3, TestAssumption DEF ClientsOK
  <2>2. channel = <<>>
    BY <2>1, TestAssumption DEF EndsAreRight
  <2>3. \A s \in Senders : /\ SendPlaces(s) = DOMAIN send_values[s]
                          /\ \A i \in SendPlaces(s) : i # 0 /\ SendAt(s, i) = send_values[s][i]
    BY <2>1, ElementFact DEF SendPlaces, SendAt, ClientsOK
  <2>4. \A r \in Receivers : /\ RecvPlaces(r) = DOMAIN recv_values[r]
                            /\ \A i \in RecvPlaces(r) : i # 0 /\ RecvAt(r, i) = recv_values[r][i]
    BY <2>1, ElementFact DEF RecvPlaces, RecvAt, Answered, ClientsOK
  <2>5. (\E s \in Senders : \E i \in DOMAIN send_values[s] : send_values[s][i] = v)
          <=> (\E r \in Receivers : \E i \in DOMAIN recv_values[r] : recv_values[r][i] = v)
    BY <2>2, <2>3, <2>4 DEF NothingLost, Pushed, Behind
  <2>6. Occurrences(v, send_values) =
          IF \E s \in Senders : \E i \in DOMAIN send_values[s] : send_values[s][i] = v
          THEN 1 ELSE 0
    <3>1. \A t, u \in DOMAIN send_values :
            \A i \in DOMAIN send_values[t], j \in DOMAIN send_values[u] :
               send_values[t][i] = v /\ send_values[u][j] = v => t = u /\ i = j
      BY <2>1, <2>3 DEF SendOnce
    <3> QED
      BY <2>1, <3>1, OccursOnce
  <2>7. Occurrences(v, recv_values) =
          IF \E r \in Receivers : \E i \in DOMAIN recv_values[r] : recv_values[r][i] = v
          THEN 1 ELSE 0
    <3>1. \A t, u \in DOMAIN recv_values :
            \A i \in DOMAIN recv_values[t], j \in DOMAIN recv_values[u] :
               recv_values[t][i] = v /\ recv_values[u][j] = v => t = u /\ i = j
      BY <2>1, <2>4 DEF RecvOnce
    <3> QED
      BY <2>1, <3>1, OccursOnce
  <2> QED
    BY <2>5, <2>6, <2>7
<1> QED
  BY <1>1, <1>2, <1>3 DEF TestAssertions

(* The assertions of the test hold for any numbers of senders and receivers *)
(* (at least one), any buffer and any moment of the close: the senders find *)
(* a place, nobody is sent away before the close, and after the joins every *)
(* value whose Send returned was received once, and no other.               *)
THEOREM TestPasses == TestSpec => []TestAssertions
  BY TestInvInit, TestInvStep, TestInvAsserts, PTL DEF TestSpec
==============================================================================
