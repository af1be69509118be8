------------------------------- MODULE ItemList -------------------------------
(***************************************************************************)
(* What the functions of client_list.h promise: a sequence of items.  An   *)
(* index counts from 0.                                                    *)
(***************************************************************************)
EXTENDS Integers, Sequences, SequencesExt

CONSTANTS
    Items,  \* what a node may point to
    NULL

VARIABLES
    items,  \* the items of the list, first to last
    call    \* the call in progress: what it is, its index and its item

Idle == [op |-> "idle", index |-> 0, item |-> NULL]

\* linked_list_create.
Init == items = <<>> /\ call = Idle

\* linked_list_append: "at the last index".
AppendItem ==
    /\ call = Idle
    /\ \E x \in Items : items' = Append(items, x)
    /\ UNCHANGED call

\* linked_list_remove: "remove a Node from a LinkedList by reference".
RemoveItem ==
    /\ call = Idle
    /\ \E i \in DOMAIN items : items' = RemoveAt(items, i)
    /\ UNCHANGED call

\* A function that takes more than a step is called.
Call ==
    /\ call = Idle
    /\ \/ \E i \in 0..(Len(items) - 1), x \in Items :
             call' = [op |-> "insert", index |-> i, item |-> x]
       \/ \E i \in 0..(Len(items) - 1) :
             call' = [op |-> "pop", index |-> i, item |-> NULL]
       \/ call' = [op |-> "clear", index |-> 0, item |-> NULL]
    /\ UNCHANGED items

\* What the call does:
\*   linked_list_insert: "at a specific index, shifting items after it to the
\*   right";
\*   linked_list_pop: "remove a Node from a LinkedList by index";
\*   linked_list_clear: "remove all nodes from the LinkedList".
Effect ==
    CASE call.op = "insert" -> InsertAt(items, call.index + 1, call.item)
      [] call.op = "pop" -> RemoveAt(items, call.index + 1)
      [] call.op = "clear" -> <<>>

\* It returns; an insertion may have found no memory.
Return ==
    /\ call # Idle
    /\ items' = Effect \/ (call.op = "insert" /\ UNCHANGED items)
    /\ call' = Idle

Next == AppendItem \/ RemoveItem \/ Call \/ Return

Spec == Init /\ [][Next]_<<items, call>>
===============================================================================
