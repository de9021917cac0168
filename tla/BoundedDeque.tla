--------------------------- MODULE BoundedDeque ---------------------------
(* What a static queue promises its user: a sequence of bounded length.    *)
(* There is no ring, no wrap-around and no cell here; putting the elements *)
(* into one contiguous range and comparing two queues change nothing.      *)
EXTENDS Integers, SequencesExt

CONSTANTS
    Queues,         \* the queues in use
    Capacity,       \* how many elements each of them holds at most
    Values,         \* the elements
    Default,        \* a default constructed element
    Moved           \* what a move leaves in its source

VARIABLE items      \* the elements of each queue, the front first

Change(q, seq) == items' = [items EXCEPT ![q] = seq]

Init == items = [q \in Queues |-> <<>>]

Push(q) ==
    /\ Len(items[q]) < Capacity[q]
    /\ \E v \in Values : \/ Change(q, Append(items[q], v))
                         \/ Change(q, <<v>> \o items[q])

Pop(q) ==
    \E n \in 0..Len(items[q]) :
        \/ Change(q, SubSeq(items[q], n + 1, Len(items[q])))
        \/ Change(q, SubSeq(items[q], 1, n))

Grow(q) ==
    \E n \in Len(items[q])..Capacity[q] :
        Change(q, items[q] \o [i \in 1..(n - Len(items[q])) |-> Default])

(* The new element is found where it was asked to be, everything else      *)
(* before and after it as it was.                                          *)
Insert(q) ==
    /\ Len(items[q]) < Capacity[q]
    /\ \E i \in 1..(Len(items[q]) + 1), v \in Values :
            Change(q, InsertAt(items[q], i, v))

Erase(q) ==
    \E i \in DOMAIN items[q] : Change(q, RemoveAt(items[q], i))

(* A copy leaves its source alone, a move leaves it as many elements.      *)
Assign(q, other) ==
    /\ q # other
    /\ Len(items[other]) <= Capacity[q]
    /\ \/ Change(q, items[other])
       \/ items' = [items EXCEPT ![q] = items[other],
                                 ![other] = [i \in DOMAIN @ |-> Moved]]

Next ==
    \E q \in Queues :
        \/ Push(q)
        \/ Pop(q)
        \/ Grow(q)
        \/ Insert(q)
        \/ Erase(q)
        \/ \E other \in Queues : Assign(q, other)

Spec == Init /\ [][Next]_items
=============================================================================
