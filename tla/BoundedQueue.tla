---------------------------- MODULE BoundedQueue ----------------------------
(***************************************************************************)
(* The queue between two stages of the detector (bounded_queue.hpp): it    *)
(* holds Capacity items, drops the oldest one when a new one finds it full *)
(* and lets its only consumer drain it after it was closed.  Every         *)
(* operation runs under the queue's mutex, so each is one step; what is    *)
(* not atomic is the consumer's sleep on the condition variable, which is  *)
(* a step of its own and ends only when a producer or the closer wakes it. *)
(***************************************************************************)
EXTENDS Naturals, Sequences

CONSTANT Capacity   \* capacity_, positive

VARIABLES
    queue,      \* queue_: the waiting items, the oldest first
    closed,     \* closed_
    asleep      \* the consumer sleeps on condition_

Init == queue = <<>> /\ closed = FALSE /\ asleep = FALSE

QueueTypeOK(Item) ==
    /\ queue \in Seq(Item)
    /\ Len(queue) <= Capacity
    /\ closed \in BOOLEAN
    /\ asleep \in BOOLEAN

\* Faulty variant (mutation only): the full queue refuses the new item.
JoinedKeepOldest(v) == IF Len(queue) >= Capacity THEN queue ELSE Append(queue, v)

\* The waiting items after v joined them.
Joined(v) ==
    Append(IF Len(queue) >= Capacity THEN Tail(queue) ELSE queue, v)

\* push(): a closed queue hands the item straight back.
Push(v) ==
    \/ /\ closed
       /\ UNCHANGED <<queue, closed, asleep>>
    \/ /\ ~closed
       /\ queue' = Joined(v)
       /\ asleep' = FALSE
       /\ UNCHANGED closed

\* wait_and_pop() finds neither an item nor the end and sleeps.
Sleep ==
    /\ ~asleep
    /\ queue = <<>> /\ ~closed
    /\ asleep' = TRUE
    /\ UNCHANGED <<queue, closed>>

\* wait_and_pop() returns the oldest item; also after close().
Pop(v) ==
    /\ ~asleep
    /\ queue # <<>>
    /\ v = Head(queue)
    /\ queue' = Tail(queue)
    /\ UNCHANGED <<closed, asleep>>

\* wait_and_pop() returns a null pointer: nothing will come any more.
Ended ==
    /\ ~asleep
    /\ queue = <<>> /\ closed
    /\ UNCHANGED <<queue, closed, asleep>>

\* close()
Close ==
    /\ closed' = TRUE
    /\ asleep' = FALSE
    /\ UNCHANGED queue
=============================================================================
