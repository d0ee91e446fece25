------------------------------- MODULE KeyBag --------------------------------
(***************************************************************************)
(* What a user of the red-black tree may expect: a bag of keys, here a set *)
(* of items that have keys.                                                *)
(***************************************************************************)
CONSTANTS Items, Key

VARIABLES
    bag,     \* the items in it
    asked,   \* the last request
    state    \* idle, busy with the request, destroyed

Init == bag = {} /\ asked = <<>> /\ state = "idle"

Insert(i) ==
    /\ state = "idle" /\ i \notin bag
    /\ asked' = <<"insert", i>>
    /\ bag' = bag \cup {i} /\ state' = "busy"

\* Of items with the same key any one.
Takes(k) ==
    /\ \E i \in bag : Key[i] = k /\ bag' = bag \ {i}
    /\ state' \in {"idle", "busy"}

FindsNone(k) ==
    /\ \A i \in bag : Key[i] # k
    /\ UNCHANGED <<bag, state>>

Remove(k) ==
    /\ state = "idle" /\ asked' = <<"remove", k>>
    /\ Takes(k) \/ FindsNone(k)

\* What remains of a request is no change of the bag.
Finish ==
    /\ state = "busy" /\ state' = "idle"
    /\ UNCHANGED <<bag, asked>>

\* Nothing is put in.
Destroy ==
    /\ state = "idle" /\ state' = "destroyed"
    /\ bag' \subseteq bag /\ UNCHANGED asked

Next ==
    \/ \E i \in Items : Insert(i) \/ Remove(Key[i])
    \/ Finish \/ Destroy

Spec == Init /\ [][Next]_<<bag, asked, state>>
=============================================================================
