--------------------------- MODULE BufferedChannel ---------------------------
(****************************************************************************)
(* src/tasks/buffered-channel/buffered_channel.h: a bounded multi-producer  *)
(* multi-consumer channel over one mutex and two condition variables.       *)
(* An operator named X_Y is a slip Y in X that the properties must notice;  *)
(* no specification uses it.                                                *)
(*                                                                          *)
(* Grain of atomicity.  `channel`, `is_closed` and the sleepers of the two  *)
(* condition variables change only under `lock`, except in the two          *)
(* notify_all calls of Close, so everything a thread does between two       *)
(* releases of the mutex is one step; each notify_all of Close is a step of *)
(* its own.  A thread that holds no lock and does not sleep may be          *)
(* overtaken by anyone: a thread that was notified has only been moved out  *)
(* of the sleepers, and looks at the predicate of its wait when it next     *)
(* gets the mutex.                                                          *)
(****************************************************************************)
EXTENDS Integers, Sequences, FiniteSets

CONSTANTS
    Threads,    \* the threads that share the channel; any may call anything
    Values,     \* the values they send
    Capacity,   \* the constructor's `size`
    \* how a call ends that does not end with a received value
    Void, NullOpt, RuntimeError

ASSUME ThreadsAssumption == IsFiniteSet(Threads)
ASSUME CapacityAssumption == Capacity \in Int
ASSUME ResultsAssumption ==
    /\ {Void, NullOpt, RuntimeError} \intersect Values = {}
    /\ Void # NullOpt /\ Void # RuntimeError /\ NullOpt # RuntimeError

VARIABLES
    channel,        \* the deque
    is_closed,
    c_not_empty,    \* the threads asleep in c_not_empty.wait
    c_not_full,     \* the threads asleep in c_not_full.wait
    pc,             \* pc[t]: where thread t is
    arg,            \* arg[t]: the parameter of t's last Send
    ret             \* ret[t]: how t's last call ended, until the next one

vars == <<channel, is_closed, c_not_empty, c_not_full, pc, arg, ret>>

Results == Values \union {Void, NullOpt, RuntimeError}

PCs == {"idle", "send", "recv", "close", "notify_not_empty", "notify_not_full"}

HasRoom_OffByOne == Capacity < 0 \/ Len(channel) <= Capacity

(* channel.size() < capacity compares a size_t with an int, which is        *)
(* converted to size_t: a negative capacity is larger than any size.        *)
HasRoom == Capacity < 0 \/ Len(channel) < Capacity

(* notify_one wakes any one sleeper, and is lost when nobody sleeps.        *)
NotifyOne(sleepers) ==
    IF sleepers = {} THEN {{}} ELSE {sleepers \ {t} : t \in sleepers}

Init ==
    /\ channel = <<>>
    /\ is_closed = FALSE
    /\ c_not_empty = {}
    /\ c_not_full = {}
    /\ pc = [t \in Threads |-> "idle"]
    /\ arg \in [Threads -> Values]
    /\ ret = [t \in Threads |-> Void]

-----------------------------------------------------------------------------
(* The callers: an idle thread may call any method.                         *)

Call(t, method) ==
    /\ pc[t] = "idle"
    /\ pc' = [pc EXCEPT ![t] = method]
    /\ ret' = [ret EXCEPT ![t] = Void]
    /\ UNCHANGED <<channel, is_closed, c_not_empty, c_not_full>>

CallSend(t, v) == Call(t, "send") /\ arg' = [arg EXCEPT ![t] = v]
CallRecv(t) == Call(t, "recv") /\ UNCHANGED arg
CallClose(t) == Call(t, "close") /\ UNCHANGED arg

Return(t, result) ==
    /\ pc' = [pc EXCEPT ![t] = "idle"]
    /\ ret' = [ret EXCEPT ![t] = result]
    /\ UNCHANGED arg

-----------------------------------------------------------------------------
(* Send: one step from getting the mutex to giving it up, in the wait or at *)
(* the end.                                                                 *)

AtSend(t) == pc[t] = "send" /\ t \notin c_not_full

SendWait(t) ==
    /\ AtSend(t)
    /\ ~is_closed /\ ~HasRoom
    /\ c_not_full' = c_not_full \union {t}
    /\ UNCHANGED <<channel, is_closed, c_not_empty, pc, arg, ret>>

SendThrow(t) ==
    /\ AtSend(t)
    /\ is_closed
    /\ Return(t, RuntimeError)
    /\ UNCHANGED <<channel, is_closed, c_not_empty, c_not_full>>

SendPush_NotifyIfEmpty(t) ==
    /\ AtSend(t)
    /\ ~is_closed /\ HasRoom
    /\ channel' = Append(channel, arg[t])
    /\ c_not_empty' \in IF channel = <<>> THEN NotifyOne(c_not_empty) ELSE {c_not_empty}
    /\ Return(t, Void)
    /\ UNCHANGED <<is_closed, c_not_full>>

SendPush(t) ==
    /\ AtSend(t)
    /\ ~is_closed /\ HasRoom
    /\ channel' = Append(channel, arg[t])
    /\ c_not_empty' \in NotifyOne(c_not_empty)
    /\ Return(t, Void)
    /\ UNCHANGED <<is_closed, c_not_full>>

-----------------------------------------------------------------------------
(* Recv                                                                     *)

AtRecv(t) == pc[t] = "recv" /\ t \notin c_not_empty

RecvWait(t) ==
    /\ AtRecv(t)
    /\ channel = <<>> /\ ~is_closed
    /\ c_not_empty' = c_not_empty \union {t}
    /\ UNCHANGED <<channel, is_closed, c_not_full, pc, arg, ret>>

RecvNull_WhenClosed(t) ==
    /\ AtRecv(t)
    /\ is_closed
    /\ Return(t, NullOpt)
    /\ UNCHANGED <<channel, is_closed, c_not_empty, c_not_full>>

RecvNull(t) ==
    /\ AtRecv(t)
    /\ channel = <<>> /\ is_closed
    /\ Return(t, NullOpt)
    /\ UNCHANGED <<channel, is_closed, c_not_empty, c_not_full>>

RecvPop_Newest(t) ==
    /\ AtRecv(t)
    /\ channel # <<>>
    /\ channel' = SubSeq(channel, 1, Len(channel) - 1)
    /\ c_not_full' \in NotifyOne(c_not_full)
    /\ Return(t, channel[Len(channel)])
    /\ UNCHANGED <<is_closed, c_not_empty>>

RecvPop_NoNotify(t) ==
    /\ AtRecv(t)
    /\ channel # <<>>
    /\ channel' = Tail(channel)
    /\ Return(t, Head(channel))
    /\ UNCHANGED <<is_closed, c_not_empty, c_not_full>>

RecvPop(t) ==
    /\ AtRecv(t)
    /\ channel # <<>>
    /\ channel' = Tail(channel)
    /\ c_not_full' \in NotifyOne(c_not_full)
    /\ Return(t, Head(channel))
    /\ UNCHANGED <<is_closed, c_not_empty>>

-----------------------------------------------------------------------------
(* Close: the flag under the mutex, then the two broadcasts without it.     *)

CloseSet(t) ==
    /\ pc[t] = "close"
    /\ is_closed' = TRUE
    /\ pc' = [pc EXCEPT ![t] = "notify_not_empty"]
    /\ UNCHANGED <<channel, c_not_empty, c_not_full, arg, ret>>

CloseNotifyNotEmpty_One(t) ==
    /\ pc[t] = "notify_not_empty"
    /\ c_not_empty' \in NotifyOne(c_not_empty)
    /\ pc' = [pc EXCEPT ![t] = "notify_not_full"]
    /\ UNCHANGED <<channel, is_closed, c_not_full, arg, ret>>

CloseNotifyNotEmpty(t) ==
    /\ pc[t] = "notify_not_empty"
    /\ c_not_empty' = {}
    /\ pc' = [pc EXCEPT ![t] = "notify_not_full"]
    /\ UNCHANGED <<channel, is_closed, c_not_full, arg, ret>>

CloseNotifyNotFull(t) ==
    /\ pc[t] = "notify_not_full"
    /\ c_not_full' = {}
    /\ Return(t, Void)
    /\ UNCHANGED <<channel, is_closed, c_not_empty>>

-----------------------------------------------------------------------------
(* A condition variable may wake a sleeper for no reason; the wait with a   *)
(* predicate then looks again.                                              *)
SpuriousWakeup(t) ==
    /\ t \in c_not_empty \union c_not_full
    /\ c_not_empty' = c_not_empty \ {t}
    /\ c_not_full' = c_not_full \ {t}
    /\ UNCHANGED <<channel, is_closed, pc, arg, ret>>

(* What thread t does inside a call, when it gets the processor and the     *)
(* mutex.                                                                   *)
Step(t) ==
    \/ SendWait(t)
    \/ SendThrow(t)
    \/ SendPush(t)
    \/ RecvWait(t)
    \/ RecvNull(t)
    \/ RecvPop(t)
    \/ CloseSet(t)
    \/ CloseNotifyNotEmpty(t)
    \/ CloseNotifyNotFull(t)

Next ==
    \E t \in Threads :
        \/ \E v \in Values : CallSend(t, v)
        \/ CallRecv(t)
        \/ CallClose(t)
        \/ Step(t)
        \/ SpuriousWakeup(t)

(* A thread that can run is scheduled and gets the mutex some day.  Nothing *)
(* is assumed of which thread a notification picks, of spurious wakeups or  *)
(* of the callers.                                                          *)
Fairness == \A t \in Threads : WF_vars(Step(t))

Safety == Init /\ [][Next]_vars

Spec == Safety /\ Fairness

-----------------------------------------------------------------------------
(* The type invariant, with the place in the code of every sleeper and the  *)
(* bound on the buffer, however many senders were woken for one free place. *)
TypeOK ==
    /\ channel \in Seq(Values)
    /\ Capacity >= 0 => Len(channel) <= Capacity
    /\ is_closed \in BOOLEAN
    /\ c_not_empty \subseteq {t \in Threads : pc[t] = "recv"}
    /\ c_not_full \subseteq {t \in Threads : pc[t] = "send"}
    /\ pc \in [Threads -> PCs]
    /\ arg \in [Threads -> Values]
    /\ ret \in [Threads -> Results]

(* The threads that will look at the channel without anyone's help.         *)
AwakeReceivers == {t \in Threads : AtRecv(t)}
AwakeSenders == {t \in Threads : AtSend(t)}

(* No element waits for a receiver that nobody woke: while a receiver       *)
(* sleeps on an open channel, every element of the channel has an awake     *)
(* receiver of its own (Send's notify_one, line 23, is never one too few,   *)
(* whoever took the element the last one was for).                          *)
NoLostNotEmpty ==
    c_not_empty # {} /\ ~is_closed
        => Len(channel) <= Cardinality(AwakeReceivers)

(* The same for free places and senders (Recv's notify_one, line 36).  A    *)
(* channel without bound has no sleeping sender at all.                     *)
NoLostNotFull ==
    c_not_full # {} /\ ~is_closed
        => /\ Capacity >= 0
           /\ Capacity - Len(channel) <= Cardinality(AwakeSenders)

NoLostWakeup == NoLostNotEmpty /\ NoLostNotFull

(* Nobody sleeps through Close: whoever still sleeps on a closed channel    *)
(* has a Close in front of the broadcast that will wake him (lines 41-46:   *)
(* the flag is set under the mutex, so a wait that missed the flag is       *)
(* already a sleeper when the broadcast comes).                             *)
CloseWakesAll ==
    is_closed =>
        /\ c_not_empty # {} =>
             \E t \in Threads : pc[t] = "notify_not_empty"
        /\ c_not_full # {} =>
             \E t \in Threads : pc[t] \in {"notify_not_empty", "notify_not_full"}

(* Senders and receivers never all sleep at each other: with a capacity of  *)
(* at least one, a sleeping sender and a sleeping receiver imply that       *)
(* somebody inside a call can run.                                          *)
NoMutualSleep ==
    Capacity > 0 /\ c_not_empty # {} /\ c_not_full # {} =>
        \E t \in Threads : pc[t] # "idle" /\ t \notin c_not_empty \union c_not_full

-----------------------------------------------------------------------------
(* The channel implements the abstract one: a call takes effect in the      *)
(* critical section that completes it, and Close when it sets the flag.     *)
ChannelOp ==
    [t \in Threads |->
        IF pc[t] \in {"notify_not_empty", "notify_not_full"} THEN "shut" ELSE pc[t]]

C == INSTANCE Channel WITH queue <- channel, closed <- is_closed, op <- ChannelOp

(* Every behaviour of the code is one of the FIFO channel.                  *)
ImplementsChannel == C!Safety

(* Calls that can be answered are answered, as the FIFO channel promises:   *)
(* values do not rot in the buffer beside a pending Recv, free places do    *)
(* not rot beside a pending Send, and Close ends every pending call.        *)
ChannelProgress == C!Progress
=============================================================================
