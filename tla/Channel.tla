------------------------------- MODULE Channel -------------------------------
(****************************************************************************)
(* What a buffered channel promises its callers: a FIFO queue of at most    *)
(* Capacity values, on which a call takes effect in ONE step somewhere      *)
(* between its invocation and its return.  There is no mutex, no condition  *)
(* variable and nobody sleeps: a call that cannot proceed is just pending.  *)
(* BufferedChannel is shown to implement this specification.                *)
(****************************************************************************)
EXTENDS Integers, Sequences

CONSTANTS
    Threads,    \* the callers
    Values,     \* what they send
    Capacity,   \* the size given to the constructor
    Void, NullOpt, RuntimeError     \* the outcomes that are no received value

VARIABLES
    queue,      \* the values sent and not yet received, oldest first
    closed,     \* has a Close taken effect?
    op,         \* op[t]: the call thread t is in
    arg,        \* arg[t]: the value of t's last Send
    ret         \* ret[t]: what t's last call returned, until the next one

vars == <<queue, closed, op, arg, ret>>

Init ==
    /\ queue = <<>>
    /\ closed = FALSE
    /\ op = [t \in Threads |-> "idle"]
    /\ arg \in [Threads -> Values]
    /\ ret = [t \in Threads |-> Void]

Invoke(t, call) ==
    /\ op[t] = "idle"
    /\ op' = [op EXCEPT ![t] = call]
    /\ ret' = [ret EXCEPT ![t] = Void]
    /\ UNCHANGED <<queue, closed>>

Return(t, result) ==
    /\ op' = [op EXCEPT ![t] = "idle"]
    /\ ret' = [ret EXCEPT ![t] = result]
    /\ UNCHANGED arg

CallSend(t, v) == Invoke(t, "send") /\ arg' = [arg EXCEPT ![t] = v]
CallRecv(t) == Invoke(t, "recv") /\ UNCHANGED arg
CallClose(t) == Invoke(t, "close") /\ UNCHANGED arg

(* A value is accepted when the channel is open and has a free place ...    *)
Accept(t) ==
    /\ op[t] = "send"
    /\ ~closed
    /\ Capacity < 0 \/ Len(queue) < Capacity
    /\ queue' = Append(queue, arg[t])
    /\ Return(t, Void)
    /\ UNCHANGED closed

(* ... and refused when the channel is closed, full or not.                 *)
Refuse(t) ==
    /\ op[t] = "send"
    /\ closed
    /\ Return(t, RuntimeError)
    /\ UNCHANGED <<queue, closed>>

(* The oldest value goes to exactly one receiver, also after Close.         *)
Deliver(t) ==
    /\ op[t] = "recv"
    /\ queue # <<>>
    /\ queue' = Tail(queue)
    /\ Return(t, Head(queue))
    /\ UNCHANGED closed

(* Only a closed and drained channel answers "nothing".                     *)
EndOfStream(t) ==
    /\ op[t] = "recv"
    /\ queue = <<>>
    /\ closed
    /\ Return(t, NullOpt)
    /\ UNCHANGED <<queue, closed>>

Shut(t) ==
    /\ op[t] = "close"
    /\ closed' = TRUE
    /\ op' = [op EXCEPT ![t] = "shut"]
    /\ UNCHANGED <<queue, arg, ret>>

ShutReturn(t) ==
    /\ op[t] = "shut"
    /\ Return(t, Void)
    /\ UNCHANGED <<queue, closed>>

Next ==
    \E t \in Threads :
        \/ \E v \in Values : CallSend(t, v)
        \/ CallRecv(t)
        \/ CallClose(t)
        \/ Accept(t)
        \/ Refuse(t)
        \/ Deliver(t)
        \/ EndOfStream(t)
        \/ Shut(t)
        \/ ShutReturn(t)

(****************************************************************************)
(* Progress.  Refusals, ends of stream and closes come to every caller.     *)
(* Acceptance and delivery come to SOME caller only: a receiver may see     *)
(* others take every value, so no more than that can be promised.           *)
(****************************************************************************)
Progress ==
    /\ \A t \in Threads :
         /\ WF_vars(Refuse(t))
         /\ WF_vars(EndOfStream(t))
         /\ WF_vars(Shut(t))
         /\ WF_vars(ShutReturn(t))
    /\ WF_vars(\E t \in Threads : Accept(t))
    /\ WF_vars(\E t \in Threads : Deliver(t))

Safety == Init /\ [][Next]_vars

Spec == Safety /\ Progress
=============================================================================
