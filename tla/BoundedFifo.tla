----------------------------- MODULE BoundedFifo -----------------------------
(***************************************************************************)
(* What the blocking queue promises its users: the items come out in the   *)
(* order they went in, each to one thread and once, at most Capacity of    *)
(* them are kept, and nothing else but clear() loses an item.              *)
(***************************************************************************)
EXTENDS Naturals, Sequences

CONSTANTS Threads, Values, Unset, Capacity

VARIABLES
    queue,   \* the items, oldest first
    item     \* what each thread took last

Init ==
    /\ queue = <<>>
    /\ item = [t \in Threads |-> Unset]

Put(v) ==
    /\ Len(queue) < Capacity
    /\ queue' = Append(queue, v)
    /\ UNCHANGED item

Take(t) ==
    /\ queue # <<>>
    /\ item' = [item EXCEPT ![t] = Head(queue)]
    /\ queue' = Tail(queue)

Clear ==
    /\ queue' = <<>>
    /\ UNCHANGED item

Next ==
    \/ \E v \in Values : Put(v)
    \/ \E t \in Threads : Take(t)
    \/ Clear

Spec == Init /\ [][Next]_<<queue, item>>
=============================================================================
