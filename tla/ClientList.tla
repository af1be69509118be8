------------------------------ MODULE ClientList ------------------------------
(***************************************************************************)
(* The doubly linked list under the cache (utils/client_list.c), node by   *)
(* node.  A caller runs one function at a time; the loops that walk to an  *)
(* index or free every node take a step for each node.                     *)
(*                                                                         *)
(* ClientCache has this list as a sequence of entries.  That the links     *)
(* amount to a sequence is what is shown here.                             *)
(***************************************************************************)
EXTENDS Integers, Sequences, SequencesExt

CONSTANTS
    Nodes,          \* addresses calloc may return for a node
    Items,          \* what a node may point to
    MemoryFaults,   \* calloc may return NULL while there is memory
    NULL            \* no node

ASSUME ListAssumption == NULL \notin Nodes /\ MemoryFaults \in BOOLEAN

VARIABLES
    head, tail, size,   \* the LinkedList
    back, front, item,  \* the three words of every node
    heap,               \* nodes that are allocated
    pc,                 \* the loop the call in progress is in
    cur, pos,           \* local variables of that loop
    index, arg,         \* the arguments of the call
    order               \* history: the nodes of the list, first to last

list == <<head, tail, size>>
links == <<back, front>>
locals == <<cur, pos, index, arg>>
vars == <<list, links, item, heap, pc, locals, order>>

TypeOK ==
    /\ {head, tail, cur} \subseteq Nodes \cup {NULL}
    /\ size \in Nat /\ pos \in Nat /\ index \in Nat
    /\ back \in [Nodes -> Nodes \cup {NULL}]
    /\ front \in [Nodes -> Nodes \cup {NULL}]
    /\ item \in [Nodes -> Items \cup {NULL}]
    /\ heap \subseteq Nodes
    /\ pc \in {"idle", "insert", "pop", "clear"}
    /\ arg \in Items \cup {NULL}
    /\ order \in Seq(Nodes)

\* linked_list_create: calloc zeroes the list.
Init ==
    /\ head = NULL /\ tail = NULL /\ size = 0
    /\ back = [n \in Nodes |-> NULL]
    /\ front = [n \in Nodes |-> NULL]
    /\ item = [n \in Nodes |-> NULL]
    /\ heap = {}
    /\ pc = "idle" /\ cur = NULL /\ pos = 0 /\ index = 0 /\ arg = NULL
    /\ order = <<>>

-----------------------------------------------------------------------------
\* The call returns.
Return ==
    /\ pc' = "idle" /\ cur' = NULL /\ pos' = 0
    /\ index' = 0 /\ arg' = NULL

\* calloc returns a node n for item x; how n is linked is up to the caller.
Allocate(n, x) ==
    /\ n \in Nodes \ heap
    /\ heap' = heap \cup {n}
    /\ item' = [item EXCEPT ![n] = x]
    /\ size' = size + 1

\* calloc returns NULL, and the list stays as it is.
NoMemory ==
    /\ MemoryFaults \/ heap = Nodes
    /\ UNCHANGED <<list, links, item, heap, order>>

\* Mutant: the new node does not know the one before it.
LinkLastForward(n) ==
    /\ back' = [back EXCEPT ![n] = NULL]
    /\ IF tail = NULL
       THEN head' = n /\ front' = [front EXCEPT ![n] = NULL]
       ELSE /\ front' = [front EXCEPT ![n] = NULL, ![tail] = n]
            /\ UNCHANGED head
    /\ tail' = n

\* The new node n becomes the tail.
LinkLast(n) ==
    /\ back' = [back EXCEPT ![n] = tail]
    /\ IF tail = NULL
       THEN head' = n /\ front' = [front EXCEPT ![n] = NULL]
       ELSE /\ front' = [front EXCEPT ![n] = NULL, ![tail] = n]
            /\ UNCHANGED head
    /\ tail' = n

\* linked_list_append, also what linked_list_insert does with an index beyond
\* the list.
LinkedListAppend(x) ==
    /\ pc = "idle"
    /\ \/ \E n \in Nodes :
             /\ Allocate(n, x)
             /\ LinkLast(n)
             /\ order' = Append(order, n)
       \/ NoMemory
    /\ UNCHANGED <<pc, locals>>

-----------------------------------------------------------------------------
\* Mutant: the walk from the end starts one node late.
SeekFromSize(i, x, what) ==
    /\ pc = "idle" /\ i < size
    /\ pc' = what /\ index' = i /\ arg' = x
    /\ IF i <= size \div 2 THEN cur' = head /\ pos' = 0
                           ELSE cur' = tail /\ pos' = size
    /\ UNCHANGED <<list, links, item, heap, order>>

\* linked_list_get_index starts at the nearer end.
Seek(i, x, what) ==
    /\ pc = "idle" /\ i < size
    /\ pc' = what /\ index' = i /\ arg' = x
    /\ IF i <= size \div 2 THEN cur' = head /\ pos' = 0
                           ELSE cur' = tail /\ pos' = size - 1
    /\ UNCHANGED <<list, links, item, heap, order>>

\* ... and goes on towards the index.
Walk ==
    /\ pc \in {"insert", "pop"} /\ pos # index
    /\ IF pos < index THEN cur' = front[cur] /\ pos' = pos + 1
                      ELSE cur' = back[cur] /\ pos' = pos - 1
    /\ UNCHANGED <<list, links, item, heap, pc, index, arg, order>>

\* linked_list_insert of x at an index within the list.
LinkedListInsert(i, x) == Seek(i, x, "insert")

\* The new node n goes between node m and the one before it.
LinkBefore(n, m) ==
    /\ back' = [back EXCEPT ![n] = back[m], ![m] = n]
    /\ IF back[m] = NULL
       THEN head' = n /\ front' = [front EXCEPT ![n] = m]
       ELSE /\ front' = [front EXCEPT ![n] = m, ![back[m]] = n]
            /\ UNCHANGED head
    /\ UNCHANGED tail

\* Mutant: the new node goes behind the one found.
InsertNodeBehind ==
    /\ pc = "insert" /\ pos = index
    /\ \/ \E n \in Nodes :
             /\ Allocate(n, arg)
             /\ IF cur = tail
                THEN LinkLast(n)
                ELSE /\ back' = [back EXCEPT ![n] = cur, ![front[cur]] = n]
                     /\ front' = [front EXCEPT ![n] = front[cur], ![cur] = n]
                     /\ UNCHANGED <<head, tail>>
             /\ order' = InsertAt(order, index + 2, n)
       \/ NoMemory
    /\ Return

\* ... the new node goes before the one found.
InsertNode ==
    /\ pc = "insert" /\ pos = index
    /\ \/ \E n \in Nodes :
             /\ Allocate(n, arg)
             /\ LinkBefore(n, cur)
             /\ order' = InsertAt(order, index + 1, n)
       \/ NoMemory
    /\ Return

-----------------------------------------------------------------------------
\* The neighbours of node n are linked with one another.
Unlink(n) ==
    /\ IF back[n] = NULL THEN head' = front[n] ELSE UNCHANGED head
    /\ IF front[n] = NULL THEN tail' = back[n] ELSE UNCHANGED tail
    /\ back' = [m \in Nodes |-> IF m = n THEN NULL
                                ELSE IF m = front[n] THEN back[n] ELSE back[m]]
    /\ front' = [m \in Nodes |-> IF m = n THEN NULL
                                 ELSE IF m = back[n] THEN front[n] ELSE front[m]]

\* Mutant: linked_list_pop counts the node that linked_list_remove counts too.
RemoveCountedTwice(i, n) ==
    /\ Unlink(n)
    /\ size' = size - 2
    /\ heap' = heap \ {n}
    /\ item' = [item EXCEPT ![n] = NULL]
    /\ order' = RemoveAt(order, i + 1)

\* linked_list_remove of node number i of the list.  What a node held is gone
\* once it is freed.
RemoveNode(i, n) ==
    /\ Unlink(n)
    /\ size' = size - 1
    /\ heap' = heap \ {n}
    /\ item' = [item EXCEPT ![n] = NULL]
    /\ order' = RemoveAt(order, i + 1)

\* ... a node its caller came upon in a foreach.
LinkedListRemove(i) ==
    /\ pc = "idle" /\ i < Len(order)
    /\ RemoveNode(i, order[i + 1])
    /\ UNCHANGED <<pc, locals>>

\* linked_list_pop; beyond the list it does nothing.
LinkedListPop(i) == Seek(i, NULL, "pop")

PopNode ==
    /\ pc = "pop" /\ pos = index
    /\ RemoveNode(index, cur)
    /\ Return

-----------------------------------------------------------------------------
\* linked_list_clear.
LinkedListClear ==
    /\ pc = "idle"
    /\ pc' = "clear" /\ cur' = head
    /\ UNCHANGED <<list, links, item, heap, pos, index, arg, order>>

\* ... frees a node after it has read its link ...
ClearNode ==
    /\ pc = "clear" /\ cur # NULL
    /\ cur' = front[cur]
    /\ heap' = heap \ {cur}
    /\ UNCHANGED <<list, links, item, pc, pos, index, arg, order>>

\* ... and forgets the nodes at the end.
ClearDone ==
    /\ pc = "clear" /\ cur = NULL
    /\ head' = NULL /\ tail' = NULL /\ size' = 0
    /\ order' = <<>>
    /\ back' = [n \in Nodes |-> IF n \in heap THEN back[n] ELSE NULL]
    /\ front' = [n \in Nodes |-> IF n \in heap THEN front[n] ELSE NULL]
    /\ item' = [n \in Nodes |-> IF n \in heap THEN item[n] ELSE NULL]
    /\ Return
    /\ UNCHANGED heap

Loop == Walk \/ InsertNode \/ PopNode \/ ClearNode \/ ClearDone

Next ==
    \/ \E x \in Items : LinkedListAppend(x)
    \/ \E i \in 0..(size - 1) :
          \/ \E x \in Items : LinkedListInsert(i, x)
          \/ LinkedListPop(i) \/ LinkedListRemove(i)
    \/ LinkedListClear
    \/ Loop

Spec == Init /\ [][Next]_vars

-----------------------------------------------------------------------------
(***************************************************************************)
(* Properties.                                                             *)
(***************************************************************************)

\* The node before position i of the list, and the one at it; NULL at the ends.
At(i) == IF i \in 1..Len(order) THEN order[i] ELSE NULL

\* Between two calls the nodes can be read off the links in either direction,
\* size counts them, and they are the nodes that are allocated: no node is
\* lost, none is left behind in the list after it was freed.
Linked ==
    pc # "clear" =>
        /\ size = Len(order)
        /\ heap = {order[i] : i \in 1..Len(order)}
        /\ head = At(1) /\ tail = At(Len(order))
        /\ \A i \in 1..Len(order) :
              /\ back[order[i]] = At(i - 1)
              /\ front[order[i]] = At(i + 1)

\* A loop only looks at nodes that are allocated, and the walk of
\* linked_list_get_index, from whichever end, is where it thinks it is.
InBounds ==
    /\ pc # "idle" /\ cur # NULL => cur \in heap
    /\ pc \in {"insert", "pop"} => cur = At(pos + 1) /\ cur # NULL

\* The items of the nodes are a list as client_list.h describes it.
Abstract == INSTANCE ItemList WITH
    items <- [i \in 1..Len(order) |-> item[order[i]]],
    call <- [op |-> pc, index |-> index, item |-> arg]

\* Whatever end the walk starts from and however the links are changed, each
\* function does to the sequence of items what it was asked to, at the index
\* and with the item it was called with, and no node changes its item.
ImplementsItemList == Abstract!Spec
===============================================================================
