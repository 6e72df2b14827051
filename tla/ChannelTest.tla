----------------------------- MODULE ChannelTest -----------------------------
(****************************************************************************)
(* RunTest of src/tasks/buffered-channel/test.cpp on BufferedChannel:       *)
(* senders that send until Send throws, receivers that receive until there  *)
(* is nothing, and a main thread that closes the channel under them at some *)
(* moment and joins everybody.  A thread's local steps between two calls    *)
(* are one step where they touch one shared variable only.                  *)
(****************************************************************************)
EXTENDS BufferedChannel

CONSTANTS
    Senders, Receivers, Main,   \* the threads of the test
    SendBound                   \* bound: values fetched before the close

ASSUME TestAssumption ==
    /\ Threads = Senders \union Receivers \union {Main}
    /\ Senders \intersect Receivers = {} /\ Main \notin Senders \union Receivers
    /\ Receivers # {} /\ Capacity >= 0
    /\ SendBound \in Nat
    /\ Values = 0 .. SendBound + Cardinality(Senders) - 1

VARIABLES
    client,         \* client[t]: where t's lambda is
    counter,        \* the next value
    free_slots,     \* the test's own estimate of the free places
    was_closed,
    send_values,    \* send_values[s]: what s has sent
    recv_values     \* recv_values[r]: what r has received

testvars == <<vars, client, counter, free_slots, was_closed, send_values, recv_values>>

TestInit ==
    /\ Init /\ arg = [t \in Threads |-> 0]
    /\ client = [t \in Threads |-> "loop"]
    /\ counter = 0
    /\ free_slots = Capacity
    /\ was_closed = FALSE
    /\ send_values = [s \in Senders |-> <<>>]
    /\ recv_values = [r \in Receivers |-> <<>>]

Goto(t, from, to) == client[t] = from /\ client' = [client EXCEPT ![t] = to]

(* A sender: fetch a value and call Send; on return count the place used,   *)
(* note the value; after an exception leave.                                *)
SenderCall(s) ==
    /\ Goto(s, "loop", "called")
    /\ counter < SendBound \/ is_closed
    /\ counter' = counter + 1
    /\ CallSend(s, counter)
    /\ UNCHANGED <<free_slots, was_closed, send_values, recv_values>>

Sent(s) == client[s] = "called" /\ pc[s] = "idle" /\ ret[s] = Void
Threw(s) == client[s] = "called" /\ pc[s] = "idle" /\ ret[s] = RuntimeError

SenderCount(s) ==
    /\ Sent(s)
    /\ Goto(s, "called", "loop")
    /\ free_slots' = free_slots - 1
    /\ send_values' = [send_values EXCEPT ![s] = Append(@, arg[s])]
    /\ UNCHANGED <<vars, counter, was_closed, recv_values>>

SenderEnd(s) ==
    /\ Threw(s)
    /\ Goto(s, "called", "done")
    /\ UNCHANGED <<vars, counter, free_slots, was_closed, send_values, recv_values>>

(* A receiver: announce a free place, call Recv, note what came.            *)
ReceiverCall(r) ==
    /\ Goto(r, "loop", "called")
    /\ free_slots' = free_slots + 1
    /\ CallRecv(r)
    /\ UNCHANGED <<counter, was_closed, send_values, recv_values>>

Answered(r) == client[r] = "called" /\ pc[r] = "idle"

ReceiverNote(r) ==
    /\ Answered(r) /\ ret[r] # NullOpt
    /\ Goto(r, "called", "loop")
    /\ recv_values' = [recv_values EXCEPT ![r] = Append(@, ret[r])]
    /\ UNCHANGED <<vars, counter, free_slots, was_closed, send_values>>

ReceiverEnd(r) ==
    /\ Answered(r) /\ ret[r] = NullOpt
    /\ Goto(r, "called", "done")
    /\ UNCHANGED <<vars, counter, free_slots, was_closed, send_values, recv_values>>

(* The main thread: sleep, raise was_closed, Close, join.                   *)
MainClose ==
    /\ Goto(Main, "loop", "called")
    /\ was_closed' = TRUE
    /\ CallClose(Main)
    /\ UNCHANGED <<counter, free_slots, send_values, recv_values>>

MainJoin ==
    /\ pc[Main] = "idle"
    /\ \A t \in Threads \ {Main} : client[t] = "done"
    /\ Goto(Main, "called", "done")
    /\ UNCHANGED <<vars, counter, free_slots, was_closed, send_values, recv_values>>

Lambda(t) ==
    \/ t \in Senders /\ (SenderCall(t) \/ SenderCount(t) \/ SenderEnd(t))
    \/ t \in Receivers /\ (ReceiverCall(t) \/ ReceiverNote(t) \/ ReceiverEnd(t))
    \/ t = Main /\ (MainClose \/ MainJoin)

InChannel(A) ==
    A /\ UNCHANGED <<client, counter, free_slots, was_closed, send_values, recv_values>>

Done == client[Main] = "done" /\ UNCHANGED testvars

TestNext ==
    \/ \E t \in Threads :
         \/ Lambda(t)
         \/ InChannel(Step(t))
         \/ InChannel(SpuriousWakeup(t))
    \/ Done

(* The threads are scheduled.  How long main sleeps before it closes the    *)
(* channel is left open, so that progress is not Close's doing alone.       *)
TestSpec ==
    /\ TestInit
    /\ [][TestNext]_testvars
    /\ \A t \in Threads \ {Main} : WF_testvars(Lambda(t))
    /\ WF_testvars(MainJoin)
    /\ \A t \in Threads : WF_testvars(InChannel(Step(t)))

-----------------------------------------------------------------------------
(* How often v occurs in the vectors of a side.                             *)
Occurrences(v, vectors) ==
    Cardinality(UNION {{t} \X {i \in DOMAIN vectors[t] : vectors[t][i] = v} :
                          t \in DOMAIN vectors})

(* What the test asserts.  In the lambdas (lines 42, 45, 58): a finished    *)
(* Send finds a place the test knows of, an exception or a nullopt means    *)
(* that main had announced the close.  (Line 42 asserts 0 <= free_slots;    *)
(* the code gives one more, since a receiver announces its place before     *)
(* Recv.)  After the joins (lines 18-25): every value whose Send returned   *)
(* was received exactly once, and no other; Close drops nothing accepted.   *)
TestAssertions ==
    /\ \A s \in Senders : Sent(s) => free_slots >= 1
    /\ \A s \in Senders : Threw(s) => was_closed
    /\ \A r \in Receivers : Answered(r) /\ ret[r] = NullOpt => was_closed
    /\ client[Main] = "done" =>
         \A v \in Values : Occurrences(v, send_values) = Occurrences(v, recv_values)

(* After Close every sender is thrown out, every receiver drains the        *)
(* channel and stops, and main joins them all (lines 70-72).                *)
TestEnds == was_closed ~> (client[Main] = "done")
=============================================================================
