--------------------------- MODULE ClientListProofs ---------------------------
(***************************************************************************)
(* Proofs about ClientList, for any nodes and items, with memory failing   *)
(* or not: the links of the nodes are those of a sequence, and each step   *)
(* does to the items what ItemList has it do.                              *)
(***************************************************************************)
EXTENDS ClientList, ListLemmas

(***************************************************************************)
(* The inductive invariant.                                                *)
(***************************************************************************)

\* What holds in the middle of linked_list_clear too: no node is twice in the
\* list, and every node leads to the next.
Chain ==
    /\ size = Len(order)
    /\ \A i, j \in 1..Len(order) : order[i] = order[j] => i = j
    /\ \A i \in 1..Len(order) : front[order[i]] = At(i + 1)

\* What linked_list_clear has left are the last nodes, from cur on.
ClearedUpTo(c) ==
    cur = At(c) /\ heap = {order[i] : i \in c..Len(order)}

\* The arguments of the call, and where it is.
CallOK ==
    /\ pc \in {"idle", "clear"} => index = 0 /\ arg = NULL
    /\ pc = "insert" => arg \in Items
    /\ pc = "pop" => arg = NULL
    /\ pc \in {"insert", "pop"} => index < size /\ pos < size
    /\ pc = "clear" => \E c \in 1..(Len(order) + 1) : ClearedUpTo(c)

ListInv == TypeOK /\ Chain /\ Linked /\ InBounds /\ CallOK

-----------------------------------------------------------------------------
\* The nodes of the list are nodes, and there are size of them.
LEMMA OrderFacts ==
    ASSUME TypeOK
    PROVE  /\ Len(order) \in Nat
           /\ DOMAIN order = 1..Len(order)
           /\ \A i \in 1..Len(order) : order[i] \in Nodes /\ order[i] # NULL
           /\ NULL \notin Nodes
           /\ \A i \in Int : At(i) \in Nodes \cup {NULL}
<1>1. order \in Seq(Nodes) /\ NULL \notin Nodes
    BY ListAssumption DEF TypeOK
<1>2. Len(order) \in Nat /\ DOMAIN order = 1..Len(order)
    BY <1>1, LenProperties
<1>3. \A i \in 1..Len(order) : order[i] \in Nodes /\ order[i] # NULL
    BY <1>1, ElementOfSeq
<1> QED  BY <1>1, <1>2, <1>3 DEF At

\* At first there is no node.
LEMMA ListInit == Init => ListInv
<1> SUFFICES ASSUME Init PROVE ListInv
    OBVIOUS
<1>1. order = <<>> /\ Len(order) = 0 /\ order \in Seq(Nodes)
    BY DEF Init
<1>2. TypeOK
    BY <1>1 DEF Init, TypeOK
<1>3. Chain
    BY <1>1 DEF Init, Chain
<1>4. Linked
    <2>1. {order[i] : i \in 1..Len(order)} = {}
        BY <1>1
    <2> QED  BY <1>1, <2>1 DEF Init, Linked, At
<1>5. InBounds
    BY DEF Init, InBounds
<1>6. CallOK
    BY DEF Init, CallOK
<1> QED  BY <1>2, <1>3, <1>4, <1>5, <1>6 DEF ListInv

-----------------------------------------------------------------------------
(***************************************************************************)
(* What each way of linking does to the list.                              *)
(***************************************************************************)

\* The nodes are a list in both directions: Linked without its condition, and
\* no node twice.
Shape ==
    /\ size = Len(order)
    /\ heap = {order[i] : i \in 1..Len(order)}
    /\ head = At(1) /\ tail = At(Len(order))
    /\ \A i \in 1..Len(order) :
          /\ back[order[i]] = At(i - 1)
          /\ front[order[i]] = At(i + 1)
    /\ \A i, j \in 1..Len(order) : order[i] = order[j] => i = j

\* Outside a clear the list has its shape, of which Linked is a part.
LEMMA ShapeOfList ==
    /\ ListInv /\ pc # "clear" => Shape
    /\ Shape => Linked /\ Chain
BY DEF ListInv, Shape, Linked, Chain

\* A node put at the end.
LEMMA AppendKeepsShape ==
    ASSUME TypeOK, Shape, NEW n \in Nodes, NEW x \in Items,
           Allocate(n, x), LinkLast(n), order' = Append(order, n)
    PROVE  /\ Shape'
           /\ back' \in [Nodes -> Nodes \cup {NULL}]
           /\ front' \in [Nodes -> Nodes \cup {NULL}]
           /\ order' \in Seq(Nodes)
           /\ {head', tail'} \subseteq Nodes \cup {NULL}
<1> DEFINE l == Len(order)
<1>1. /\ l \in Nat /\ NULL \notin Nodes
      /\ \A i \in 1..l : order[i] \in Nodes /\ order[i] # NULL
    BY OrderFacts
<1>2. order \in Seq(Nodes)
    BY DEF TypeOK
<1>3. /\ order' \in Seq(Nodes)
      /\ Len(order') = l + 1
      /\ \A i \in 1..l : order'[i] = order[i]
      /\ order'[l + 1] = n
    BY <1>2
<1>4. \A i \in 1..l : order[i] # n
    BY DEF Allocate, Shape
<1>5. tail = IF l = 0 THEN NULL ELSE order[l]
    BY <1>1 DEF Shape, At
<1>6. /\ back' \in [Nodes -> Nodes \cup {NULL}]
      /\ front' \in [Nodes -> Nodes \cup {NULL}]
      /\ {head', tail'} \subseteq Nodes \cup {NULL}
    BY DEF LinkLast, TypeOK
<1>7. /\ back'[n] = tail
      /\ \A m \in Nodes \ {n} : back'[m] = back[m]
    BY DEF LinkLast, TypeOK
<1>8. /\ front'[n] = NULL
      /\ l > 0 => front'[order[l]] = n
      /\ \A m \in Nodes \ {n, tail} : front'[m] = front[m]
    BY <1>1, <1>4, <1>5 DEF LinkLast, TypeOK
<1>9. size' = Len(order')
    BY <1>3 DEF Allocate, Shape
<1>10. heap' = {order'[i] : i \in 1..Len(order')}
    <2>1. \A i \in 1..(l + 1) : i = l + 1 \/ i \in 1..l
        BY <1>1
    <2>2. l + 1 \in 1..(l + 1) /\ \A i \in 1..l : i \in 1..(l + 1)
        BY <1>1
    <2>3. heap = {order[i] : i \in 1..l} /\ heap' = heap \cup {n}
        BY DEF Allocate, Shape
    <2> HIDE DEF l
    <2> QED  BY <2>1, <2>2, <2>3, <1>3
<1>11. head' = At(1)' /\ tail' = At(Len(order))'
    <2>1. tail' = n
        BY DEF LinkLast
    <2>2. CASE l = 0
        BY <2>1, <2>2, <1>3, <1>5 DEF LinkLast, At
    <2>3. CASE l > 0
        <3>1. head' = head
            BY <2>3, <1>1, <1>5 DEF LinkLast
        <3>2. head = order[1] /\ order'[1] = order[1]
            BY <2>3, <1>1, <1>3 DEF Shape, At
        <3> QED  BY <2>1, <2>3, <3>1, <3>2, <1>1, <1>3 DEF At
    <2> QED  BY <2>2, <2>3, <1>1
<1>12. ASSUME NEW i \in 1..Len(order')
       PROVE  back'[order'[i]] = At(i - 1)' /\ front'[order'[i]] = At(i + 1)'
    <2>1. CASE i = l + 1
        <3>1. order'[i] = n /\ At(i + 1)' = NULL
            BY <2>1, <1>1, <1>3 DEF At
        <3>2. At(i - 1)' = tail
            BY <2>1, <1>1, <1>3, <1>5 DEF At
        <3> QED  BY <3>1, <3>2, <1>7, <1>8
    <2>2. CASE i \in 1..l
        <3>1. order'[i] = order[i] /\ order[i] \in Nodes \ {n}
            BY <2>2, <1>1, <1>3, <1>4
        <3>2. back'[order[i]] = At(i - 1) /\ At(i - 1)' = At(i - 1)
            <4>1. back[order[i]] = At(i - 1)
                BY <2>2 DEF Shape
            <4> QED  BY <2>2, <3>1, <4>1, <1>1, <1>3, <1>7 DEF At
        <3>3. front'[order[i]] = At(i + 1)'
            <4>1. CASE i = l
                BY <2>2, <4>1, <1>1, <1>3, <1>8 DEF At
            <4>2. CASE i < l
                <5>1. order[i] # tail
                    BY <2>2, <4>2, <1>1, <1>5 DEF Shape
                <5>2. front'[order[i]] = At(i + 1)
                    BY <2>2, <3>1, <5>1, <1>8 DEF Shape
                <5> QED  BY <2>2, <4>2, <5>2, <1>1, <1>3 DEF At
            <4> QED  BY <2>2, <4>1, <4>2, <1>1
        <3> QED  BY <3>1, <3>2, <3>3
    <2> QED  BY <2>1, <2>2, <1>1, <1>3
<1>13. \A i, j \in 1..Len(order') : order'[i] = order'[j] => i = j
    BY <1>1, <1>3, <1>4 DEF Shape
<1> HIDE DEF l
<1> QED  BY <1>3, <1>6, <1>9, <1>10, <1>11, <1>12, <1>13 DEF Shape

\* A node put before number k of the list.
LEMMA InsertKeepsShape ==
    ASSUME TypeOK, Shape, NEW n \in Nodes, NEW x \in Items,
           NEW k \in 1..Len(order),
           Allocate(n, x), LinkBefore(n, order[k]), order' = InsertAt(order, k, n)
    PROVE  /\ Shape'
           /\ back' \in [Nodes -> Nodes \cup {NULL}]
           /\ front' \in [Nodes -> Nodes \cup {NULL}]
           /\ order' \in Seq(Nodes)
           /\ {head', tail'} \subseteq Nodes \cup {NULL}
<1> DEFINE l == Len(order)
           m == order[k]
<1>1. /\ l \in Nat /\ NULL \notin Nodes /\ k \in 1..l
      /\ \A i \in 1..l : order[i] \in Nodes /\ order[i] # NULL
    BY OrderFacts
<1>2. order \in Seq(Nodes) /\ k \in 1..(l + 1)
    BY <1>1 DEF TypeOK
<1>3. /\ order' \in Seq(Nodes)
      /\ Len(order') = l + 1
      /\ \A i \in 1..(l + 1) :
            order'[i] = IF i < k THEN order[i] ELSE IF i = k THEN n ELSE order[i - 1]
    <2>1. order \in Seq(Nodes) /\ k \in 1..(Len(order) + 1) /\ n \in Nodes
        BY <1>2
    <2>2. Inserted(Nodes, order, k, n, InsertAt(order, k, n))
        BY <2>1, InsertAtProperties
    <2> QED  BY <2>2 DEF Inserted
<1>4. \A i \in 1..l : order[i] # n
    BY DEF Allocate, Shape
<1>5. m \in Nodes /\ m # n /\ back[m] = IF k = 1 THEN NULL ELSE order[k - 1]
    <2>1. back[m] = At(k - 1)
        BY DEF Shape
    <2> QED  BY <2>1, <1>1, <1>4 DEF At
<1> HIDE DEF m
<1>6. /\ back' \in [Nodes -> Nodes \cup {NULL}]
      /\ front' \in [Nodes -> Nodes \cup {NULL}]
      /\ {head', tail'} \subseteq Nodes \cup {NULL}
    BY <1>5 DEF LinkBefore, TypeOK, m
<1>7. /\ back'[n] = back[m]
      /\ back'[m] = n
      /\ \A o \in Nodes \ {n, m} : back'[o] = back[o]
    BY <1>5 DEF LinkBefore, TypeOK, m
<1>8. /\ front'[n] = m
      /\ k > 1 => front'[order[k - 1]] = n
      /\ \A o \in Nodes \ {n, back[m]} : front'[o] = front[o]
    <2>1. k > 1 => order[k - 1] \in Nodes /\ order[k - 1] # NULL /\ order[k - 1] # n
        BY <1>1, <1>4
    <2> QED  BY <2>1, <1>1, <1>5 DEF LinkBefore, TypeOK, m
<1>9. size' = Len(order')
    BY <1>3 DEF Allocate, Shape
<1>10. heap' = {order'[i] : i \in 1..Len(order')}
    <2>1. heap = {order[i] : i \in 1..l} /\ heap' = heap \cup {n}
        BY DEF Allocate, Shape
    <2>2. \A i \in 1..l : \E j \in 1..(l + 1) : order'[j] = order[i]
        <3> TAKE i \in 1..l
        <3>1. CASE i < k
            BY <3>1, <1>1, <1>3
        <3>2. CASE i >= k
            <4>1. i + 1 \in 1..(l + 1) /\ ~(i + 1 < k) /\ i + 1 # k /\ (i + 1) - 1 = i
                BY <3>2, <1>1
            <4>2. order'[i + 1] = order[i]
                BY <4>1, <1>3
            <4> QED  BY <4>1, <4>2
        <3> QED  BY <3>1, <3>2, <1>1
    <2>3. \A j \in 1..(l + 1) : order'[j] = n \/ \E i \in 1..l : order'[j] = order[i]
        <3> TAKE j \in 1..(l + 1)
        <3>1. CASE j < k
            BY <3>1, <1>1, <1>3
        <3>2. CASE j = k
            BY <3>2, <1>3
        <3>3. CASE j > k
            <4>1. j - 1 \in 1..l
                BY <3>3, <1>1
            <4>2. order'[j] = order[j - 1]
                BY <3>3, <1>1, <1>3
            <4> QED  BY <4>1, <4>2
        <3> QED  BY <3>1, <3>2, <3>3, <1>1
    <2>4. k \in 1..(l + 1) /\ order'[k] = n
        BY <1>1, <1>3
    <2>5. Len(order') = l + 1
        BY <1>3
    <2> HIDE DEF l
    <2>6. heap' \subseteq {order'[i] : i \in 1..(l + 1)}
        BY <2>1, <2>2, <2>4
    <2>7. {order'[i] : i \in 1..(l + 1)} \subseteq heap'
        BY <2>1, <2>3
    <2> QED  BY <2>5, <2>6, <2>7
<1>11. head' = At(1)' /\ tail' = At(Len(order))'
    <2>1. tail' = order[l]
        BY <1>1 DEF LinkBefore, Shape, At
    <2>2. order'[l + 1] = order[l]
        BY <1>1, <1>3
    <2>3. CASE k = 1
        <3>1. head' = n
            BY <2>3, <1>5 DEF LinkBefore, m
        <3> QED  BY <2>1, <2>2, <2>3, <3>1, <1>1, <1>3 DEF At
    <2>4. CASE k > 1
        <3>1. back[m] # NULL
            BY <2>4, <1>1, <1>5
        <3>2. head' = order[1]
            BY <3>1, <1>1 DEF LinkBefore, Shape, At, m
        <3>3. order'[1] = order[1]
            BY <2>4, <1>1, <1>3
        <3> QED  BY <2>1, <2>2, <3>2, <3>3, <1>1, <1>3 DEF At
    <2> QED  BY <2>3, <2>4, <1>1
<1>12. ASSUME NEW i \in 1..Len(order')
       PROVE  back'[order'[i]] = At(i - 1)' /\ front'[order'[i]] = At(i + 1)'
    <2>1. i \in 1..(l + 1)
        BY <1>3
    <2>2. CASE i = k
        <3>1. order'[i] = n /\ order'[i + 1] = m
            BY <2>2, <1>1, <1>3 DEF m
        <3>2. At(i + 1)' = m
            BY <2>2, <3>1, <1>1, <1>3 DEF At
        <3>3. At(i - 1)' = back[m]
            BY <2>2, <1>1, <1>3, <1>5 DEF At
        <3> QED  BY <3>1, <3>2, <3>3, <1>7, <1>8
    <2>3. CASE i < k
        <3>1. order'[i] = order[i] /\ i \in 1..l
            BY <2>1, <2>3, <1>1, <1>3
        <3>2. order[i] \in Nodes \ {n, m}
            BY <2>3, <3>1, <1>1, <1>4 DEF Shape, m
        <3>3. back'[order[i]] = At(i - 1) /\ At(i - 1)' = At(i - 1)
            <4>1. back[order[i]] = At(i - 1)
                BY <3>1 DEF Shape
            <4> QED  BY <2>3, <3>1, <3>2, <4>1, <1>1, <1>3, <1>7 DEF At
        <3>4. CASE i = k - 1
            <4>1. At(i + 1)' = n
                BY <3>4, <1>1, <1>3 DEF At
            <4>2. front'[order[i]] = n
                BY <2>1, <3>4, <1>1, <1>8
            <4> QED  BY <3>1, <3>3, <4>1, <4>2
        <3>5. CASE i < k - 1
            <4>1. order[i] # back[m]
                BY <2>1, <3>1, <3>5, <1>1, <1>5 DEF Shape
            <4>2. front'[order[i]] = At(i + 1)
                BY <3>1, <3>2, <4>1, <1>8 DEF Shape
            <4>3. At(i + 1)' = At(i + 1)
                BY <2>1, <3>5, <1>1, <1>3 DEF At
            <4> QED  BY <3>1, <3>3, <4>2, <4>3
        <3> QED  BY <2>1, <2>3, <3>4, <3>5, <1>1
    <2>4. CASE i > k
        <3>1. order'[i] = order[i - 1] /\ i - 1 \in 1..l /\ i - 1 >= k
            BY <2>1, <2>4, <1>1, <1>3
        <3>2. order[i - 1] \in Nodes \ {n}
            BY <3>1, <1>1, <1>4
        <3>3. order[i - 1] # back[m]
            BY <3>1, <1>1, <1>5 DEF Shape
        <3>4. front'[order[i - 1]] = At(i + 1)'
            <4>1. front'[order[i - 1]] = At((i - 1) + 1)
                BY <3>1, <3>2, <3>3, <1>8 DEF Shape
            <4>2. At(i + 1)' = At((i - 1) + 1)
                BY <2>1, <2>4, <1>1, <1>3 DEF At
            <4> QED  BY <4>1, <4>2
        <3>5. CASE i - 1 = k
            <4>1. At(i - 1)' = n
                BY <3>5, <1>1, <1>3 DEF At
            <4>2. back'[order[i - 1]] = n
                BY <3>5, <1>7 DEF m
            <4> QED  BY <3>1, <3>4, <4>1, <4>2
        <3>6. CASE i - 1 > k
            <4>1. order[i - 1] # m
                BY <3>1, <3>6, <1>1 DEF Shape, m
            <4>2. back'[order[i - 1]] = At((i - 1) - 1)
                BY <3>1, <3>2, <4>1, <1>7 DEF Shape
            <4>3. At(i - 1)' = At((i - 1) - 1)
                BY <2>1, <3>6, <1>1, <1>3 DEF At
            <4> QED  BY <3>1, <3>4, <4>2, <4>3
        <3> QED  BY <2>1, <3>1, <3>5, <3>6, <1>1
    <2> QED  BY <2>1, <2>2, <2>3, <2>4, <1>1
<1>13. \A i, j \in 1..Len(order') : order'[i] = order'[j] => i = j
    <2> DEFINE from(i) == IF i < k THEN i ELSE i - 1
    <2>1. \A i \in 1..(l + 1) : i # k => order'[i] = order[from(i)] /\ from(i) \in 1..l
        BY <1>1, <1>3
    <2>2. order'[k] = n
        BY <1>1, <1>3
    <2>3. \A i, j \in 1..(l + 1) :
             i # k /\ j # k /\ from(i) = from(j) => i = j
        BY <1>1
    <2> HIDE DEF from, l
    <2>4. \A i, j \in 1..l : order[i] = order[j] => i = j
        BY DEF Shape, l
    <2>5. ASSUME NEW i \in 1..(l + 1), NEW j \in 1..(l + 1), order'[i] = order'[j]
          PROVE  i = j
        <3>1. CASE i = k \/ j = k
            BY <3>1, <2>1, <2>2, <2>5, <1>4 DEF l
        <3>2. CASE i # k /\ j # k
            <4>1. from(i) = from(j)
                BY <3>2, <2>1, <2>4, <2>5
            <4> QED  BY <3>2, <4>1, <2>3
        <3> QED  BY <3>1, <3>2
    <2>6. Len(order') = l + 1
        BY <1>3 DEF l
    <2> QED  BY <2>5, <2>6
<1> HIDE DEF l
<1> QED  BY <1>3, <1>6, <1>9, <1>10, <1>11, <1>12, <1>13 DEF Shape

\* Node number i taken out, counted from 0.
LEMMA RemoveKeepsShape ==
    ASSUME TypeOK, Shape, NEW i \in 0..(Len(order) - 1),
           RemoveNode(i, order[i + 1])
    PROVE  /\ Shape'
           /\ back' \in [Nodes -> Nodes \cup {NULL}]
           /\ front' \in [Nodes -> Nodes \cup {NULL}]
           /\ order' \in Seq(Nodes)
           /\ {head', tail'} \subseteq Nodes \cup {NULL}
<1> DEFINE l == Len(order)
           r == i + 1
           m == order[r]
<1>1. /\ l \in Nat /\ NULL \notin Nodes /\ r \in 1..l
      /\ \A j \in 1..l : order[j] \in Nodes /\ order[j] # NULL
    BY OrderFacts
<1>2. order \in Seq(Nodes) /\ order' = RemoveAt(order, r)
    BY DEF TypeOK, RemoveNode
<1>3. /\ order' \in Seq(Nodes)
      /\ Len(order') = l - 1
      /\ \A j \in 1..(l - 1) :
            order'[j] = IF j < r THEN order[j] ELSE order[j + 1]
    BY <1>1, <1>2, RemoveAtProperties
<1>4. \A j, k \in 1..l : order[j] = order[k] => j = k
    BY DEF Shape
<1>5. /\ m \in Nodes
      /\ back[m] = IF r = 1 THEN NULL ELSE order[r - 1]
      /\ front[m] = IF r = l THEN NULL ELSE order[r + 1]
    <2>1. back[m] = At(r - 1) /\ front[m] = At(r + 1)
        BY <1>1 DEF Shape
    <2> QED  BY <2>1, <1>1 DEF At
<1>6. Unlink(m)
    BY DEF RemoveNode
<1> HIDE DEF r, m
<1>7. /\ back' \in [Nodes -> Nodes \cup {NULL}]
      /\ front' \in [Nodes -> Nodes \cup {NULL}]
      /\ {head', tail'} \subseteq Nodes \cup {NULL}
    BY <1>5, <1>6 DEF Unlink, TypeOK
<1>8. \A o \in Nodes \ {m} :
         /\ back'[o] = IF o = front[m] THEN back[m] ELSE back[o]
         /\ front'[o] = IF o = back[m] THEN front[m] ELSE front[o]
    BY <1>6 DEF Unlink
<1>9. \A j \in 1..l :
         /\ j # r - 1 => order[j] # back[m]
         /\ j # r + 1 => order[j] # front[m]
    <2>1. r > 1 => r - 1 \in 1..l
        BY <1>1
    <2>2. r < l => r + 1 \in 1..l
        BY <1>1
    <2> QED  BY <2>1, <2>2, <1>1, <1>4, <1>5
<1>10. size' = Len(order')
    BY <1>3 DEF RemoveNode, Shape
<1>11. heap' = {order'[j] : j \in 1..Len(order')}
    <2>1. heap = {order[j] : j \in 1..l} /\ heap' = heap \ {m}
        BY DEF RemoveNode, Shape, m, r
    <2>2. ASSUME NEW j \in 1..l, j # r
          PROVE  \E k \in 1..(l - 1) : order'[k] = order[j]
        <3>1. CASE j < r
            BY <3>1, <1>1, <1>3
        <3>2. CASE j > r
            <4>1. j - 1 \in 1..(l - 1) /\ ~(j - 1 < r) /\ (j - 1) + 1 = j
                BY <3>2, <1>1
            <4>2. order'[j - 1] = order[j]
                BY <4>1, <1>3
            <4> QED  BY <4>1, <4>2
        <3> QED  BY <2>2, <3>1, <3>2, <1>1
    <2>3. ASSUME NEW k \in 1..(l - 1)
          PROVE  \E j \in 1..l : j # r /\ order'[k] = order[j]
        <3>1. CASE k < r
            BY <3>1, <1>1, <1>3
        <3>2. CASE k >= r
            <4>1. k + 1 \in 1..l /\ k + 1 # r /\ order'[k] = order[k + 1]
                BY <3>2, <1>1, <1>3
            <4> QED  BY <4>1
        <3> QED  BY <3>1, <3>2, <1>1
    <2>4. \A j \in 1..l : j # r => order[j] # m
        BY <1>1, <1>4 DEF m
    <2>5. Len(order') = l - 1 /\ m = order[r]
        BY <1>3 DEF m
    <2> HIDE DEF l
    <2>6. heap' \subseteq {order'[k] : k \in 1..(l - 1)}
        BY <2>1, <2>2, <2>5
    <2>7. {order'[k] : k \in 1..(l - 1)} \subseteq heap'
        BY <2>1, <2>3, <2>4
    <2> QED  BY <2>5, <2>6, <2>7
<1>12. head' = At(1)'
    <2>1. CASE r = 1
        <3>1. head' = front[m]
            BY <2>1, <1>5, <1>6 DEF Unlink
        <3> QED  BY <2>1, <3>1, <1>1, <1>3, <1>5 DEF At
    <2>2. CASE r > 1
        <3>1. back[m] # NULL
            BY <2>2, <1>1, <1>5
        <3>2. head' = order[1]
            BY <3>1, <1>1, <1>6 DEF Unlink, Shape, At
        <3> QED  BY <2>2, <3>2, <1>1, <1>3 DEF At
    <2> QED  BY <2>1, <2>2, <1>1
<1>13. tail' = At(Len(order))'
    <2>1. CASE r = l
        <3>1. tail' = back[m]
            BY <2>1, <1>5, <1>6 DEF Unlink
        <3> QED  BY <2>1, <3>1, <1>1, <1>3, <1>5 DEF At
    <2>2. CASE r < l
        <3>1. front[m] # NULL
            BY <2>2, <1>1, <1>5
        <3>2. tail' = order[l]
            BY <3>1, <1>1, <1>6 DEF Unlink, Shape, At
        <3>3. order'[l - 1] = order[l]
            BY <2>2, <1>1, <1>3
        <3> QED  BY <2>2, <3>2, <3>3, <1>1, <1>3 DEF At
    <2> QED  BY <2>1, <2>2, <1>1
<1>14. ASSUME NEW j \in 1..Len(order')
       PROVE  back'[order'[j]] = At(j - 1)' /\ front'[order'[j]] = At(j + 1)'
    <2>1. j \in 1..(l - 1) /\ j \in 1..l /\ j + 1 \in 1..l /\ r \in Int
        <3>1. j \in 1..(l - 1)
            BY <1>3
        <3> QED  BY <3>1, <1>1
    <2>2. CASE j < r
        <3>1. order'[j] = order[j] /\ j \in 1..l
            BY <2>1, <2>2, <1>3
        <3>2. order[j] \in Nodes \ {m}
            BY <2>2, <3>1, <1>1, <1>4 DEF m
        <3>3. back'[order[j]] = At(j - 1)'
            <4>1. order[j] # front[m]
                <5>1. j \in 1..l /\ j # r + 1
                    BY <2>1, <2>2, <1>1
                <5> QED  BY <5>1, <1>9
            <4>2. back'[order[j]] = At(j - 1)
                BY <3>1, <3>2, <4>1, <1>8 DEF Shape
            <4> QED  BY <2>1, <2>2, <4>2, <1>1, <1>3 DEF At
        <3>4. CASE j = r - 1
            <4>1. order[j] = back[m]
                BY <2>1, <3>4, <1>1, <1>5
            <4>2. front'[order[j]] = front[m]
                BY <3>2, <4>1, <1>8
            <4>3. At(j + 1)' = front[m]
                BY <3>4, <1>1, <1>3, <1>5 DEF At
            <4> QED  BY <3>1, <3>3, <4>2, <4>3
        <3>5. CASE j < r - 1
            <4>1. order[j] # back[m]
                <5>1. j \in 1..l /\ j # r - 1
                    BY <2>1, <3>5, <1>1
                <5> QED  BY <5>1, <1>9
            <4>2. front'[order[j]] = At(j + 1)
                BY <3>1, <3>2, <4>1, <1>8 DEF Shape
            <4>3. j + 1 \in 1..(l - 1) /\ order'[j + 1] = order[j + 1]
                <5>1. j + 1 \in 1..(l - 1) /\ j + 1 < r
                    BY <2>1, <3>5, <1>1
                <5> QED  BY <5>1, <1>3
            <4>4. At(j + 1)' = At(j + 1)
                BY <2>1, <4>3, <1>3 DEF At
            <4> QED  BY <3>1, <3>3, <4>2, <4>4
        <3> QED  BY <2>1, <2>2, <3>4, <3>5, <1>1
    <2>3. CASE j >= r
        <3>1. order'[j] = order[j + 1] /\ j + 1 \in 1..l /\ j + 1 > r
            BY <2>1, <2>3, <1>1, <1>3
        <3>2. order[j + 1] \in Nodes \ {m}
            BY <3>1, <1>1, <1>4 DEF m
        <3>3. front'[order[j + 1]] = At(j + 1)'
            <4>1. order[j + 1] # back[m]
                <5>1. j + 1 \in 1..l /\ j + 1 # r - 1
                    BY <2>1, <3>1, <1>1
                <5> QED  BY <5>1, <1>9
            <4>2. front'[order[j + 1]] = At((j + 1) + 1)
                BY <3>1, <3>2, <4>1, <1>8 DEF Shape
            <4>3. At(j + 1)' = At((j + 1) + 1)
                BY <2>1, <2>3, <1>1, <1>3 DEF At
            <4> QED  BY <4>2, <4>3
        <3>4. CASE j = r
            <4>1. order[j + 1] = front[m]
                BY <2>1, <3>4, <1>1, <1>5
            <4>2. back'[order[j + 1]] = back[m]
                BY <3>2, <4>1, <1>8
            <4>3. At(j - 1)' = back[m]
                BY <2>1, <3>4, <1>1, <1>3, <1>5 DEF At
            <4> QED  BY <3>1, <3>3, <4>2, <4>3
        <3>5. CASE j > r
            <4>1. order[j + 1] # front[m]
                <5>1. j + 1 \in 1..l /\ j + 1 # r + 1
                    BY <2>1, <3>5, <1>1
                <5> QED  BY <5>1, <1>9
            <4>2. back'[order[j + 1]] = At((j + 1) - 1)
                BY <3>1, <3>2, <4>1, <1>8 DEF Shape
            <4>3. At(j - 1)' = At((j + 1) - 1)
                BY <2>1, <3>5, <1>1, <1>3 DEF At
            <4> QED  BY <3>1, <3>3, <4>2, <4>3
        <3> QED  BY <2>1, <2>3, <3>4, <3>5, <1>1
    <2> QED  BY <2>1, <2>2, <2>3, <1>1
<1>15. \A j, k \in 1..Len(order') : order'[j] = order'[k] => j = k
    <2> DEFINE from(j) == IF j < r THEN j ELSE j + 1
    <2>1. \A j \in 1..(l - 1) : order'[j] = order[from(j)] /\ from(j) \in 1..l
        BY <1>1, <1>3
    <2>2. \A j, k \in 1..(l - 1) : from(j) = from(k) => j = k
        BY <1>1
    <2>3. Len(order') = l - 1
        BY <1>3
    <2> HIDE DEF from, l
    <2> QED  BY <2>1, <2>2, <2>3, <1>4
<1> HIDE DEF l
<1> QED  BY <1>3, <1>7, <1>10, <1>11, <1>12, <1>13, <1>14, <1>15 DEF Shape

-----------------------------------------------------------------------------
(***************************************************************************)
(* Every step keeps the invariant.                                         *)
(***************************************************************************)

\* A walk is where it counts, within the list.
Stands == pos < size /\ cur = At(pos + 1)

\* No call is in progress.
Rests == pc = "idle" /\ index = 0 /\ arg = NULL

\* A walk that stands at a position of the list stands at a node of it.
LEMMA Standing == TypeOK /\ Shape /\ Stands => InBounds
<1> SUFFICES ASSUME TypeOK, Shape, Stands
             PROVE  InBounds
    OBVIOUS
<1>1. pos + 1 \in 1..Len(order)
    BY OrderFacts DEF TypeOK, Shape, Stands
<1>2. cur = At(pos + 1) /\ cur = order[pos + 1] /\ cur # NULL /\ cur \in heap
    BY <1>1, OrderFacts DEF At, Shape, Stands
<1> QED  BY <1>2 DEF InBounds

\* Once a call has returned the invariant is about the links alone.
LEMMA Returned == TypeOK /\ Shape /\ Rests => ListInv
<1> SUFFICES ASSUME TypeOK, Shape, Rests
             PROVE  ListInv
    OBVIOUS
<1>1. Linked /\ Chain
    BY ShapeOfList
<1>2. InBounds /\ CallOK
    BY DEF InBounds, CallOK, Rests
<1> QED  BY <1>1, <1>2 DEF ListInv

\* A step that leaves the nodes and their links alone leaves their shape.
LEMMA ShapeUntouched ==
    ASSUME Shape, UNCHANGED <<list, links, heap, order>>
    PROVE  Shape'
BY DEF Shape, list, links, At

\* linked_list_append keeps the links.
LEMMA AppendKeeps ==
    ASSUME ListInv, NEW x \in Items, LinkedListAppend(x)
    PROVE  ListInv'
<1>1. TypeOK /\ Shape /\ pc = "idle" /\ index = 0 /\ arg = NULL
    BY ShapeOfList DEF ListInv, LinkedListAppend, CallOK
<1>2. UNCHANGED <<pc, cur, pos, index, arg>>
    BY DEF LinkedListAppend, locals
<1>3. TypeOK' /\ Shape'
    <2>1. CASE \E n \in Nodes : Allocate(n, x) /\ LinkLast(n) /\ order' = Append(order, n)
        <3>1. PICK n \in Nodes : Allocate(n, x) /\ LinkLast(n) /\ order' = Append(order, n)
            BY <2>1
        <3>2. /\ Shape'
              /\ back' \in [Nodes -> Nodes \cup {NULL}]
              /\ front' \in [Nodes -> Nodes \cup {NULL}]
              /\ order' \in Seq(Nodes)
              /\ {head', tail'} \subseteq Nodes \cup {NULL}
            BY <1>1, <3>1, AppendKeepsShape
        <3>3. /\ size' \in Nat
              /\ heap' \subseteq Nodes
              /\ item' \in [Nodes -> Items \cup {NULL}]
            BY <1>1, <3>1 DEF Allocate, TypeOK
        <3> QED  BY <1>1, <1>2, <3>2, <3>3 DEF TypeOK
    <2>2. CASE NoMemory
        BY <1>1, <1>2, <2>2, ShapeUntouched DEF NoMemory, list, links, TypeOK
    <2> QED  BY <2>1, <2>2 DEF LinkedListAppend
<1>4. Rests'
    BY <1>1, <1>2 DEF Rests
<1> QED  BY <1>3, <1>4, Returned, PTL

\* A walk begins at one of the ends.
LEMMA SeekKeeps ==
    ASSUME ListInv, NEW i \in 0..(size - 1), NEW x \in Items \cup {NULL},
           NEW what \in {"insert", "pop"},
           what = "insert" => x \in Items, what = "pop" => x = NULL,
           Seek(i, x, what)
    PROVE  ListInv'
<1>1. TypeOK /\ Shape
    BY ShapeOfList DEF ListInv, Seek
<1>2. /\ Shape'
      /\ UNCHANGED <<head, tail, size, back, front, item, heap, order>>
    BY <1>1, ShapeUntouched DEF Seek, list, links
<1>3. size = Len(order) /\ size \in Nat /\ i \in Nat /\ i < size
    BY <1>1 DEF Shape, TypeOK
<1>4. pos' \in Nat /\ pos' < size' /\ cur' = At(pos' + 1)
    <2>1. CASE i <= size \div 2
        BY <2>1, <1>1, <1>2, <1>3 DEF Seek, Shape
    <2>2. CASE ~(i <= size \div 2)
        <3>1. cur' = At(size) /\ pos' = size - 1
            BY <2>2, <1>1 DEF Seek, Shape
        <3>2. (size - 1) + 1 = size /\ size - 1 \in Nat
            BY <1>3
        <3> QED  BY <3>1, <3>2, <1>2, <1>3
    <2> QED  BY <2>1, <2>2
<1>5. cur' = At(pos + 1)'
    BY <1>2, <1>4 DEF At
<1>6. At(pos + 1)' \in Nodes \cup {NULL}
    BY <1>1, <1>2, <1>4, OrderFacts DEF At
<1>7. TypeOK'
    BY <1>1, <1>2, <1>3, <1>4, <1>5, <1>6 DEF TypeOK, Seek
<1>8. Shape' /\ Stands'
    BY <1>2, <1>4, <1>5 DEF Stands
<1>9. InBounds'
    BY <1>7, <1>8, Standing, PTL
<1>10. Linked' /\ Chain'
    BY <1>8, ShapeOfList, PTL
<1>11. CallOK'
    BY <1>2, <1>3, <1>4 DEF CallOK, Seek
<1> QED  BY <1>7, <1>9, <1>10, <1>11 DEF ListInv

\* ... and goes on along the links.
LEMMA WalkKeeps ==
    ASSUME ListInv, Walk
    PROVE  ListInv'
<1>1. TypeOK /\ Shape /\ pc \in {"insert", "pop"} /\ pos # index
    BY ShapeOfList DEF ListInv, Walk
<1>2. /\ Shape'
      /\ UNCHANGED <<head, tail, size, back, front, item, heap, order, pc, index, arg>>
    BY <1>1, ShapeUntouched DEF Walk, list, links
<1>3. /\ size = Len(order) /\ size \in Nat
      /\ pos \in Nat /\ pos < size
      /\ index \in Nat /\ index < size
    BY <1>1 DEF ListInv, Shape, TypeOK, CallOK
<1>4. pos + 1 \in 1..Len(order) /\ cur = order[pos + 1]
    <2>1. cur = At(pos + 1)
        BY <1>1 DEF ListInv, InBounds
    <2> QED  BY <2>1, <1>3 DEF At
<1>5. back[cur] = At((pos + 1) - 1) /\ front[cur] = At((pos + 1) + 1)
    BY <1>1, <1>4 DEF Shape
<1>6. pos' \in Nat /\ pos' < size' /\ cur' = At(pos' + 1)
    <2>1. CASE pos < index
        <3>1. cur' = At((pos + 1) + 1) /\ pos' = pos + 1
            BY <2>1, <1>5 DEF Walk
        <3> QED  BY <2>1, <3>1, <1>2, <1>3
    <2>2. CASE pos > index
        <3>1. cur' = At((pos + 1) - 1) /\ pos' = pos - 1
            BY <2>2, <1>3, <1>5 DEF Walk
        <3>2. (pos + 1) - 1 = (pos - 1) + 1 /\ pos - 1 \in Nat
            BY <2>2, <1>3
        <3> QED  BY <3>1, <3>2, <1>2, <1>3
    <2> QED  BY <2>1, <2>2, <1>1, <1>3
<1>7. cur' = At(pos + 1)'
    BY <1>2, <1>6 DEF At
<1>8. At(pos + 1)' \in Nodes \cup {NULL}
    BY <1>1, <1>2, <1>6, OrderFacts DEF At
<1>9. TypeOK'
    BY <1>1, <1>2, <1>6, <1>7, <1>8 DEF TypeOK
<1>10. Shape' /\ Stands'
    BY <1>2, <1>6, <1>7 DEF Stands
<1>11. InBounds'
    BY <1>9, <1>10, Standing, PTL
<1>12. Linked' /\ Chain'
    BY <1>10, ShapeOfList, PTL
<1>13. CallOK'
    BY <1>1, <1>2, <1>6 DEF ListInv, CallOK
<1> QED  BY <1>9, <1>11, <1>12, <1>13 DEF ListInv

\* The node at the end of a walk is the one with the index.
LEMMA Found ==
    ASSUME ListInv, pc \in {"insert", "pop"}, pos = index
    PROVE  /\ TypeOK /\ Shape
           /\ index \in 0..(Len(order) - 1)
           /\ index + 1 \in 1..Len(order)
           /\ cur = order[index + 1]
<1>1. TypeOK /\ Shape
    BY ShapeOfList DEF ListInv
<1>2. index \in Nat /\ index < Len(order) /\ Len(order) \in Nat
    BY <1>1, OrderFacts DEF ListInv, Shape, TypeOK, CallOK
<1>3. cur = At(index + 1)
    BY DEF ListInv, InBounds
<1> QED  BY <1>1, <1>2, <1>3 DEF At

\* linked_list_insert keeps the links.
LEMMA InsertKeeps ==
    ASSUME ListInv, InsertNode
    PROVE  ListInv'
<1>1. /\ TypeOK /\ Shape
      /\ index + 1 \in 1..Len(order) /\ cur = order[index + 1]
      /\ arg \in Items
    BY Found DEF InsertNode, ListInv, CallOK
<1>2. pc' = "idle" /\ cur' = NULL /\ pos' = 0 /\ index' = 0 /\ arg' = NULL
    BY DEF InsertNode, Return
<1>3. TypeOK' /\ Shape'
    <2>1. CASE \E n \in Nodes : Allocate(n, arg) /\ LinkBefore(n, cur)
                              /\ order' = InsertAt(order, index + 1, n)
        <3>1. PICK n \in Nodes : Allocate(n, arg) /\ LinkBefore(n, cur)
                                 /\ order' = InsertAt(order, index + 1, n)
            BY <2>1
        <3>2. LinkBefore(n, order[index + 1])
            BY <1>1, <3>1
        <3>3. /\ Shape'
              /\ back' \in [Nodes -> Nodes \cup {NULL}]
              /\ front' \in [Nodes -> Nodes \cup {NULL}]
              /\ order' \in Seq(Nodes)
              /\ {head', tail'} \subseteq Nodes \cup {NULL}
            BY <1>1, <3>1, <3>2, InsertKeepsShape
        <3>4. /\ size' \in Nat
              /\ heap' \subseteq Nodes
              /\ item' \in [Nodes -> Items \cup {NULL}]
            BY <1>1, <3>1 DEF Allocate, TypeOK
        <3> QED  BY <1>1, <1>2, <3>3, <3>4 DEF TypeOK
    <2>2. CASE NoMemory
        BY <1>1, <1>2, <2>2, ShapeUntouched DEF NoMemory, list, links, TypeOK
    <2> QED  BY <2>1, <2>2 DEF InsertNode
<1>4. Rests'
    BY <1>2 DEF Rests
<1> QED  BY <1>3, <1>4, Returned, PTL

\* linked_list_remove, called by itself or by linked_list_pop.
LEMMA RemoveKeeps ==
    ASSUME TypeOK, Shape, NEW i \in 0..(Len(order) - 1),
           RemoveNode(i, order[i + 1]),
           pc' = "idle", cur' \in {cur, NULL}, pos' \in {pos, 0},
           index' = 0, arg' = NULL
    PROVE  ListInv'
<1>1. /\ Shape'
      /\ back' \in [Nodes -> Nodes \cup {NULL}]
      /\ front' \in [Nodes -> Nodes \cup {NULL}]
      /\ order' \in Seq(Nodes)
      /\ {head', tail'} \subseteq Nodes \cup {NULL}
    BY RemoveKeepsShape
<1>2. /\ size' \in Nat
      /\ heap' \subseteq Nodes
      /\ item' \in [Nodes -> Items \cup {NULL}]
    <2>1. size \in Nat /\ size > 0
        BY OrderFacts DEF Shape
    <2> QED  BY <2>1 DEF RemoveNode, TypeOK
<1>3. TypeOK'
    BY <1>1, <1>2 DEF TypeOK
<1>4. Shape' /\ Rests'
    BY <1>1 DEF Rests
<1> QED  BY <1>3, <1>4, Returned, PTL

\* linked_list_remove keeps the links.
LEMMA LinkedListRemoveKeeps ==
    ASSUME ListInv, NEW i \in 0..(size - 1), LinkedListRemove(i)
    PROVE  ListInv'
<1>1. TypeOK /\ Shape /\ pc = "idle" /\ index = 0 /\ arg = NULL
    BY ShapeOfList DEF ListInv, LinkedListRemove, CallOK
<1>2. i \in 0..(Len(order) - 1) /\ RemoveNode(i, order[i + 1])
    BY <1>1 DEF LinkedListRemove, Shape
<1>3. UNCHANGED <<pc, cur, pos, index, arg>>
    BY DEF LinkedListRemove, locals
<1> QED  BY <1>1, <1>2, <1>3, RemoveKeeps

\* linked_list_pop keeps the links.
LEMMA PopKeeps ==
    ASSUME ListInv, PopNode
    PROVE  ListInv'
<1>1. /\ TypeOK /\ Shape
      /\ index \in 0..(Len(order) - 1) /\ cur = order[index + 1]
    BY Found DEF PopNode
<1>2. RemoveNode(index, order[index + 1])
    BY <1>1 DEF PopNode
<1>3. pc' = "idle" /\ cur' = NULL /\ pos' = 0 /\ index' = 0 /\ arg' = NULL
    BY DEF PopNode, Return
<1> QED  BY <1>1, <1>2, <1>3, RemoveKeeps

\* linked_list_clear begins at the head.
LEMMA ClearKeeps ==
    ASSUME ListInv, LinkedListClear
    PROVE  ListInv'
<1>1. TypeOK /\ Shape /\ index = 0 /\ arg = NULL
    BY ShapeOfList DEF ListInv, LinkedListClear, CallOK
<1>2. /\ pc' = "clear" /\ cur' = head
      /\ UNCHANGED <<head, tail, size, back, front, item, heap, pos, index, arg, order>>
    BY DEF LinkedListClear, list, links
<1>3. TypeOK'
    BY <1>1, <1>2 DEF TypeOK
<1>4. Chain' /\ Linked'
    BY <1>1, <1>2 DEF Chain, Linked, Shape, At
<1>5. Len(order) \in Nat
    BY <1>1, OrderFacts
<1>6. ClearedUpTo(1)'
    BY <1>1, <1>2 DEF ClearedUpTo, Shape, At
<1>7. CallOK'
    BY <1>1, <1>2, <1>5, <1>6 DEF CallOK
<1>8. InBounds'
    <2>1. head # NULL => head \in heap
        BY <1>1 DEF Shape, At
    <2> QED  BY <2>1, <1>2 DEF InBounds
<1> QED  BY <1>3, <1>4, <1>7, <1>8 DEF ListInv

\* linked_list_clear frees the nodes in order.
LEMMA ClearNodeKeeps ==
    ASSUME ListInv, ClearNode
    PROVE  ListInv'
<1>1. /\ TypeOK /\ Chain /\ pc = "clear" /\ cur # NULL
      /\ index = 0 /\ arg = NULL
    BY DEF ListInv, ClearNode, CallOK
<1>2. /\ cur' = front[cur] /\ heap' = heap \ {cur}
      /\ UNCHANGED <<head, tail, size, back, front, item, pc, pos, index, arg, order>>
    BY DEF ClearNode, list, links
<1>3. PICK c \in 1..(Len(order) + 1) : ClearedUpTo(c)
    BY <1>1 DEF ListInv, CallOK
<1>4. Len(order) \in Nat /\ \A i \in 1..Len(order) : order[i] \in Nodes
    BY <1>1, OrderFacts
<1>5. c \in 1..Len(order) /\ cur = order[c]
    BY <1>1, <1>3 DEF ClearedUpTo, At
<1>6. cur' = At(c + 1)
    BY <1>1, <1>2, <1>5 DEF Chain
<1>7. heap' = {order[i] : i \in (c + 1)..Len(order)}
    <2>1. heap = {order[i] : i \in c..Len(order)}
        BY <1>3 DEF ClearedUpTo
    <2>2. \A i \in c..Len(order) :
             i \in (c + 1)..Len(order) <=> order[i] # order[c]
        BY <1>1, <1>4, <1>5 DEF Chain
    <2>3. (c + 1)..Len(order) \subseteq c..Len(order)
        BY <1>4, <1>5
    <2> QED  BY <2>1, <2>2, <2>3, <1>2, <1>5
<1>8. ClearedUpTo(c + 1)' /\ c + 1 \in 1..(Len(order) + 1)
    BY <1>2, <1>4, <1>5, <1>6, <1>7 DEF ClearedUpTo, At
<1>9. TypeOK'
    <2>1. front[cur] \in Nodes \cup {NULL}
        BY <1>1, <1>4, <1>5 DEF TypeOK
    <2> QED  BY <2>1, <1>1, <1>2 DEF TypeOK
<1>10. Chain' /\ Linked'
    BY <1>1, <1>2 DEF Chain, Linked, At
<1>11. CallOK'
    BY <1>1, <1>2, <1>8 DEF CallOK
<1>12. InBounds'
    <2>1. cur' # NULL => c + 1 \in (c + 1)..Len(order) /\ cur' = order[c + 1]
        BY <1>4, <1>5, <1>6 DEF At
    <2> QED  BY <2>1, <1>1, <1>2, <1>7 DEF InBounds
<1> QED  BY <1>9, <1>10, <1>11, <1>12 DEF ListInv

\* linked_list_clear ends with an empty list.
LEMMA ClearDoneKeeps ==
    ASSUME ListInv, ClearDone
    PROVE  ListInv'
<1>1. TypeOK /\ Chain /\ pc = "clear" /\ cur = NULL
    BY DEF ListInv, ClearDone
<1>2. /\ head' = NULL /\ tail' = NULL /\ size' = 0 /\ order' = <<>>
      /\ pc' = "idle" /\ cur' = NULL /\ pos' = 0 /\ index' = 0 /\ arg' = NULL
      /\ heap' = heap
    BY DEF ClearDone, Return
<1>3. PICK c \in 1..(Len(order) + 1) : ClearedUpTo(c)
    BY <1>1 DEF ListInv, CallOK
<1>4. /\ Len(order) \in Nat
      /\ \A i \in 1..Len(order) : order[i] # NULL
    BY <1>1, OrderFacts
<1>5. c = Len(order) + 1
    BY <1>1, <1>3, <1>4 DEF ClearedUpTo, At
<1>6. heap = {}
    BY <1>3, <1>4, <1>5 DEF ClearedUpTo
<1>7. TypeOK'
    BY <1>1, <1>2 DEF ClearDone, TypeOK
<1>8. Shape'
    <2>1. Len(order') = 0 /\ {order'[i] : i \in 1..Len(order')} = {}
        BY <1>2
    <2> QED  BY <2>1, <1>2, <1>6 DEF Shape, At
<1>9. Rests'
    BY <1>2 DEF Rests
<1> QED  BY <1>7, <1>8, <1>9, Returned, PTL

\* The invariant is inductive.
LEMMA ListStep == ListInv /\ [Next]_vars => ListInv'
<1> SUFFICES ASSUME ListInv, [Next]_vars PROVE ListInv'
    OBVIOUS
<1>1. ASSUME NEW x \in Items, LinkedListAppend(x) PROVE ListInv'
    BY <1>1, AppendKeeps
<1>2. ASSUME NEW i \in 0..(size - 1), NEW x \in Items, LinkedListInsert(i, x)
      PROVE  ListInv'
    BY <1>2, SeekKeeps DEF LinkedListInsert
<1>3. ASSUME NEW i \in 0..(size - 1), LinkedListPop(i) PROVE ListInv'
    BY <1>3, SeekKeeps DEF LinkedListPop
<1>4. ASSUME NEW i \in 0..(size - 1), LinkedListRemove(i) PROVE ListInv'
    BY <1>4, LinkedListRemoveKeeps
<1>5. CASE LinkedListClear
    BY <1>5, ClearKeeps
<1>6. CASE Walk
    BY <1>6, WalkKeeps
<1>7. CASE InsertNode
    BY <1>7, InsertKeeps
<1>8. CASE PopNode
    BY <1>8, PopKeeps
<1>9. CASE ClearNode
    BY <1>9, ClearNodeKeeps
<1>10. CASE ClearDone
    BY <1>10, ClearDoneKeeps
<1>11. CASE UNCHANGED vars
    BY <1>11 DEF vars, list, links, locals, ListInv, TypeOK, Chain, Linked,
                 InBounds, CallOK, ClearedUpTo, At
<1> QED
    BY <1>1, <1>2, <1>3, <1>4, <1>5, <1>6, <1>7, <1>8, <1>9, <1>10, <1>11
    DEF Next, Loop

\* It holds for any sequence of calls.
LEMMA ListInvariant == Spec => []ListInv
BY ListInit, ListStep, PTL DEF Spec

-----------------------------------------------------------------------------
\* linked_list_append, _insert, _pop, _remove and _clear keep size, links and
\* nodes within their types: in particular the size never goes below zero.
THEOREM ListTypeCorrect == Spec => []TypeOK
<1>1. ListInv => TypeOK
    BY DEF ListInv
<1> QED  BY <1>1, ListInvariant, PTL

\* Whatever nodes are put in and taken out, first, last or between, the links
\* lead through all of them in both directions, and what is allocated is what
\* is in the list.
THEOREM NodesAreLinked == Spec => []Linked
<1>1. ListInv => Linked
    BY DEF ListInv
<1> QED  BY <1>1, ListInvariant, PTL

\* linked_list_get_index stands where it counts, from either end, and neither
\* it nor linked_list_clear looks at a node that was freed.
THEOREM WalksAreInBounds == Spec => []InBounds
<1>1. ListInv => InBounds
    BY DEF ListInv
<1> QED  BY <1>1, ListInvariant, PTL

-----------------------------------------------------------------------------
(***************************************************************************)
(* The nodes implement the list of items.                                  *)
(***************************************************************************)

\* What the variables of ItemList stand for.
TheItems == [i \in 1..Len(order) |-> item[order[i]]]
TheCall == [op |-> pc, index |-> index, item |-> arg]

\* One item for each node.
Itemized ==
    /\ TheItems \in Seq(Items \cup {NULL})
    /\ Len(TheItems) = Len(order)
    /\ \A i \in 1..Len(order) : TheItems[i] = item[order[i]]

\* The items are those of the nodes, in their order.
LEMMA ItemsFacts == TypeOK => Itemized
<1> SUFFICES ASSUME TypeOK PROVE Itemized
    OBVIOUS
<1>1. /\ Len(order) \in Nat
      /\ \A i \in 1..Len(order) : item[order[i]] \in Items \cup {NULL}
    BY OrderFacts DEF TypeOK
<1>2. TheItems \in [1..Len(order) -> Items \cup {NULL}]
    BY <1>1 DEF TheItems
<1>3. TheItems \in Seq(Items \cup {NULL}) /\ Len(TheItems) = Len(order)
    BY <1>1, <1>2, SeqDef, LenProperties
<1> QED  BY <1>3 DEF Itemized, TheItems

\* At first the list is empty in both.
LEMMA ItemsInit == Init => Abstract!Init
<1> SUFFICES ASSUME Init PROVE Abstract!Init
    OBVIOUS
<1>1. order = <<>> /\ pc = "idle" /\ index = 0 /\ arg = NULL
    BY DEF Init
<1>2. [i \in 1..Len(order) |-> item[order[i]]] = <<>>
    BY <1>1
<1> QED  BY <1>1, <1>2 DEF Abstract!Init, Abstract!Idle

\* Two lists of items are the same when the items are.
LEMMA SameItems ==
    ASSUME TypeOK', NEW s \in Seq(Items \cup {NULL}),
           Len(s) = Len(order'),
           \A i \in 1..Len(order') : s[i] = item'[order'[i]]
    PROVE  TheItems' = s
<1>1. /\ TheItems' \in Seq(Items \cup {NULL})
      /\ Len(TheItems') = Len(order')
      /\ \A i \in 1..Len(order') : TheItems'[i] = item'[order'[i]]
    <2>1. Itemized'
        BY ItemsFacts, PTL
    <2> QED  BY <2>1 DEF Itemized
<1> HIDE DEF TheItems
<1> QED  BY <1>1, SeqEqual

\* A node that comes into the list brings its item and changes no other.
LEMMA AppendItems ==
    ASSUME TypeOK, Shape, TypeOK', NEW n \in Nodes, NEW x \in Items,
           Allocate(n, x), order' = Append(order, n)
    PROVE  TheItems' = Append(TheItems, x)
<1>1. /\ TheItems \in Seq(Items \cup {NULL})
      /\ Len(TheItems) = Len(order)
      /\ \A i \in 1..Len(order) : TheItems[i] = item[order[i]]
    BY ItemsFacts DEF Itemized
<1>2. /\ Len(order) \in Nat /\ order \in Seq(Nodes)
      /\ \A i \in 1..Len(order) : order[i] \in Nodes
    BY OrderFacts DEF TypeOK
<1>3. /\ Len(order') = Len(order) + 1
      /\ order'[Len(order) + 1] = n
      /\ \A i \in 1..Len(order) : order'[i] = order[i]
    BY <1>2
<1>4. item'[n] = x /\ \A i \in 1..Len(order) : item'[order[i]] = item[order[i]]
    BY <1>2 DEF Allocate, Shape, TypeOK
<1> DEFINE s == Append(TheItems, x)
<1>5. /\ s \in Seq(Items \cup {NULL})
      /\ Len(s) = Len(order) + 1
      /\ s[Len(order) + 1] = x
      /\ \A i \in 1..Len(order) : s[i] = TheItems[i]
    BY <1>1, <1>2, AppendProperties
<1> HIDE DEF s
<1>6. \A i \in 1..Len(order') : s[i] = item'[order'[i]]
    BY <1>1, <1>2, <1>3, <1>4, <1>5
<1>7. TheItems' = s
    BY <1>3, <1>5, <1>6, SameItems
<1> QED  BY <1>7 DEF s

\* A node put before another is an item put there.
LEMMA InsertItems ==
    ASSUME TypeOK, Shape, TypeOK', NEW n \in Nodes, NEW x \in Items,
           NEW k \in 1..Len(order),
           Allocate(n, x), order' = InsertAt(order, k, n)
    PROVE  TheItems' = InsertAt(TheItems, k, x)
<1>1. /\ TheItems \in Seq(Items \cup {NULL})
      /\ Len(TheItems) = Len(order)
      /\ \A i \in 1..Len(order) : TheItems[i] = item[order[i]]
    BY ItemsFacts DEF Itemized
<1>2. /\ Len(order) \in Nat /\ order \in Seq(Nodes)
      /\ k \in 1..(Len(order) + 1) /\ k \in 1..(Len(TheItems) + 1)
      /\ \A i \in 1..Len(order) : order[i] \in Nodes
    BY <1>1, OrderFacts DEF TypeOK
<1>3. Inserted(Nodes, order, k, n, order')
    BY <1>2, InsertAtProperties
<1>4. item'[n] = x /\ \A i \in 1..Len(order) : item'[order[i]] = item[order[i]]
    BY <1>2 DEF Allocate, Shape, TypeOK
<1> DEFINE s == InsertAt(TheItems, k, x)
<1>5. Inserted(Items \cup {NULL}, TheItems, k, x, s)
    <2>1. x \in Items \cup {NULL}
        OBVIOUS
    <2> HIDE DEF TheItems
    <2> QED  BY <2>1, <1>1, <1>2, InsertAtProperties
<1> HIDE DEF s
<1>6. ASSUME NEW i \in 1..(Len(order) + 1)
      PROVE  s[i] = item'[order'[i]]
    <2>1. /\ order'[i] = IF i < k THEN order[i] ELSE IF i = k THEN n ELSE order[i - 1]
          /\ s[i] = IF i < k THEN TheItems[i] ELSE IF i = k THEN x ELSE TheItems[i - 1]
        BY <1>1, <1>3, <1>5 DEF Inserted
    <2>2. CASE i < k
        <3>1. i \in 1..Len(order)
            BY <2>2, <1>2
        <3> QED  BY <2>1, <2>2, <3>1, <1>1, <1>4
    <2>3. CASE i = k
        BY <2>1, <2>3, <1>2, <1>4
    <2>4. CASE i > k
        <3>1. i - 1 \in 1..Len(order) /\ ~(i < k) /\ i # k
            BY <2>4, <1>2
        <3> QED  BY <2>1, <3>1, <1>1, <1>4
    <2> QED  BY <2>2, <2>3, <2>4, <1>2
<1>7. /\ Len(order') = Len(order) + 1
      /\ s \in Seq(Items \cup {NULL}) /\ Len(s) = Len(order) + 1
    BY <1>1, <1>3, <1>5 DEF Inserted
<1>8. TheItems' = s
    BY <1>6, <1>7, SameItems
<1> QED  BY <1>8 DEF s

\* A node removed is an item removed.
LEMMA RemoveItems ==
    ASSUME TypeOK, Shape, TypeOK', NEW i \in 0..(Len(order) - 1),
           RemoveNode(i, order[i + 1])
    PROVE  TheItems' = RemoveAt(TheItems, i + 1)
<1> DEFINE r == i + 1
           m == order[r]
<1>1. /\ TheItems \in Seq(Items \cup {NULL})
      /\ Len(TheItems) = Len(order)
      /\ \A j \in 1..Len(order) : TheItems[j] = item[order[j]]
    BY ItemsFacts DEF Itemized
<1>2. /\ Len(order) \in Nat /\ order \in Seq(Nodes)
      /\ r \in 1..Len(order) /\ r \in 1..Len(TheItems)
      /\ \A j \in 1..Len(order) : order[j] \in Nodes
    BY <1>1, OrderFacts DEF TypeOK
<1>3. order' = RemoveAt(order, r)
    BY DEF RemoveNode
<1>4. \A j \in 1..Len(order) : j # r => item'[order[j]] = item[order[j]]
    BY <1>2 DEF RemoveNode, Shape, TypeOK
<1> HIDE DEF r, m
<1>5. /\ Len(order') = Len(order) - 1
      /\ \A j \in 1..(Len(order) - 1) :
            order'[j] = IF j < r THEN order[j] ELSE order[j + 1]
    BY <1>2, <1>3, RemoveAtProperties
<1> DEFINE s == RemoveAt(TheItems, r)
<1>6. /\ s \in Seq(Items \cup {NULL})
      /\ Len(s) = Len(TheItems) - 1
      /\ \A j \in 1..(Len(TheItems) - 1) :
            s[j] = IF j < r THEN TheItems[j] ELSE TheItems[j + 1]
    <2> HIDE DEF TheItems
    <2> QED  BY <1>1, <1>2, RemoveAtProperties
<1> HIDE DEF s
<1>7. ASSUME NEW j \in 1..(Len(order) - 1)
      PROVE  s[j] = item'[order'[j]]
    <2>1. CASE j < r
        <3>1. j \in 1..Len(order) /\ j # r
            BY <2>1, <1>2
        <3>2. s[j] = TheItems[j] /\ order'[j] = order[j]
            BY <2>1, <1>1, <1>5, <1>6
        <3> QED  BY <3>1, <3>2, <1>1, <1>4
    <2>2. CASE j >= r
        <3>1. j + 1 \in 1..Len(order) /\ j + 1 # r
            BY <2>2, <1>2
        <3>2. s[j] = TheItems[j + 1] /\ order'[j] = order[j + 1]
            <4>1. ~(j < r)
                BY <2>2, <1>2
            <4> QED  BY <4>1, <1>1, <1>5, <1>6
        <3> QED  BY <3>1, <3>2, <1>1, <1>4
    <2> QED  BY <2>1, <2>2, <1>2
<1>8. TheItems' = s
    BY <1>1, <1>5, <1>6, <1>7, SameItems
<1> QED  BY <1>8 DEF s, r

\* The steps of a call that changes the list are no step of the items, until
\* it returns.
LEMMA Begins ==
    ASSUME ListInv, NEW i \in 0..(size - 1), NEW x \in Items \cup {NULL},
           NEW what \in {"insert", "pop"},
           what = "insert" => x \in Items, what = "pop" => x = NULL,
           Seek(i, x, what)
    PROVE  Abstract!Call
<1>1. TypeOK /\ size = Len(order) /\ pc = "idle" /\ index = 0 /\ arg = NULL
    BY DEF ListInv, Chain, Seek, CallOK
<1>2. Len(TheItems) = Len(order)
    BY <1>1, ItemsFacts DEF Itemized
<1>3. /\ pc' = what /\ index' = i /\ arg' = x
      /\ TheItems' = TheItems
    BY DEF Seek, TheItems
<1>4. i \in 0..(Len(TheItems) - 1)
    BY <1>1, <1>2
<1>5. TheCall = Abstract!Idle
    BY <1>1 DEF TheCall, Abstract!Idle
<1>6. \/ what = "insert" /\ x \in Items /\ TheCall' = [op |-> "insert", index |-> i, item |-> x]
      \/ what = "pop" /\ TheCall' = [op |-> "pop", index |-> i, item |-> NULL]
    BY <1>3 DEF TheCall
<1> QED  BY <1>3, <1>4, <1>5, <1>6 DEF Abstract!Call, TheItems, TheCall

\* An append appends the item.
LEMMA AppendImplements ==
    ASSUME ListInv, ListInv', NEW x \in Items, LinkedListAppend(x)
    PROVE  Abstract!AppendItem \/ UNCHANGED <<TheItems, TheCall>>
<1>1. /\ TypeOK /\ TypeOK' /\ Shape
      /\ pc = "idle" /\ index = 0 /\ arg = NULL
    BY ShapeOfList DEF ListInv, LinkedListAppend, CallOK
<1>2. TheCall = Abstract!Idle /\ UNCHANGED TheCall
    BY <1>1 DEF TheCall, Abstract!Idle, LinkedListAppend, locals
<1>3. CASE \E n \in Nodes : Allocate(n, x) /\ order' = Append(order, n)
    <2>1. TheItems' = Append(TheItems, x)
        BY <1>1, <1>3, AppendItems
    <2> QED  BY <1>2, <2>1 DEF Abstract!AppendItem, TheItems, TheCall
<1>4. CASE NoMemory
    BY <1>2, <1>4 DEF NoMemory, TheItems
<1> QED  BY <1>3, <1>4 DEF LinkedListAppend

\* A removal removes the item.
LEMMA RemoveImplements ==
    ASSUME ListInv, ListInv', NEW i \in 0..(size - 1), LinkedListRemove(i)
    PROVE  Abstract!RemoveItem
<1>1. /\ TypeOK /\ TypeOK' /\ Shape
      /\ pc = "idle" /\ index = 0 /\ arg = NULL
    BY ShapeOfList DEF ListInv, LinkedListRemove, CallOK
<1>2. TheCall = Abstract!Idle /\ UNCHANGED TheCall
    BY <1>1 DEF TheCall, Abstract!Idle, LinkedListRemove, locals
<1>3. i \in 0..(Len(order) - 1) /\ RemoveNode(i, order[i + 1])
    BY <1>1 DEF LinkedListRemove, Shape
<1>4. TheItems' = RemoveAt(TheItems, i + 1)
    BY <1>1, <1>3, RemoveItems
<1>5. i + 1 \in DOMAIN TheItems
    BY <1>1, <1>3, OrderFacts DEF TheItems
<1>6. TheItems' = Abstract!RemoveAt(TheItems, i + 1)
    BY <1>4 DEF RemoveAt, Abstract!RemoveAt
<1>7. \E k \in DOMAIN TheItems : TheItems' = Abstract!RemoveAt(TheItems, k)
    BY <1>5, <1>6
<1> QED  BY <1>2, <1>7, Zenon DEF Abstract!RemoveItem, TheItems, TheCall

\* An insertion takes effect when the node is linked.
LEMMA InsertImplements ==
    ASSUME ListInv, ListInv', InsertNode
    PROVE  Abstract!Return
<1>1. /\ TypeOK /\ TypeOK' /\ Shape /\ pc = "insert"
      /\ index + 1 \in 1..Len(order) /\ cur = order[index + 1]
      /\ arg \in Items
    BY Found DEF InsertNode, ListInv, CallOK
<1>2. TheCall' = Abstract!Idle /\ TheCall # Abstract!Idle
    BY <1>1 DEF TheCall, Abstract!Idle, InsertNode, Return
<1>3. TheCall.op = "insert"
    BY <1>1 DEF TheCall
<1>4. CASE \E n \in Nodes : Allocate(n, arg) /\ order' = InsertAt(order, index + 1, n)
    <2>1. TheItems' = InsertAt(TheItems, index + 1, arg)
        BY <1>1, <1>4, InsertItems
    <2>2. TheItems' = Abstract!InsertAt(TheItems, index + 1, arg)
        BY <2>1 DEF InsertAt, Abstract!InsertAt
    <2>3. TheItems' = Abstract!Effect
        BY <1>1, <2>2 DEF Abstract!Effect, TheItems
    <2> QED  BY <1>2, <2>3 DEF Abstract!Return, TheItems, TheCall
<1>5. CASE NoMemory
    <2>1. UNCHANGED TheItems
        BY <1>5 DEF NoMemory, TheItems
    <2> QED  BY <1>2, <1>3, <2>1 DEF Abstract!Return, TheItems, TheCall
<1> QED  BY <1>4, <1>5 DEF InsertNode

\* A pop takes effect when the node is unlinked.
LEMMA PopImplements ==
    ASSUME ListInv, ListInv', PopNode
    PROVE  Abstract!Return
<1>1. /\ TypeOK /\ TypeOK' /\ Shape /\ pc = "pop"
      /\ index \in 0..(Len(order) - 1) /\ cur = order[index + 1]
    BY Found DEF PopNode, ListInv
<1>2. TheCall' = Abstract!Idle /\ TheCall # Abstract!Idle
    BY <1>1 DEF TheCall, Abstract!Idle, PopNode, Return
<1>3. RemoveNode(index, order[index + 1])
    BY <1>1 DEF PopNode
<1>4. TheItems' = RemoveAt(TheItems, index + 1)
    BY <1>1, <1>3, RemoveItems
<1>5. TheItems' = Abstract!RemoveAt(TheItems, index + 1)
    BY <1>4 DEF RemoveAt, Abstract!RemoveAt
<1>6. TheItems' = Abstract!Effect
    BY <1>1, <1>5 DEF Abstract!Effect, TheItems
<1> QED  BY <1>2, <1>6 DEF Abstract!Return, TheItems, TheCall

\* A clear takes effect when it ends.
LEMMA ClearImplements ==
    /\ ListInv /\ LinkedListClear => Abstract!Call
    /\ ListInv /\ ClearDone => Abstract!Return
<1>1. ASSUME ListInv, LinkedListClear PROVE Abstract!Call
    <2>1. pc = "idle" /\ index = 0 /\ arg = NULL
        BY <1>1 DEF ListInv, LinkedListClear, CallOK
    <2>2. /\ TheCall = Abstract!Idle
          /\ TheCall' = [op |-> "clear", index |-> 0, item |-> NULL]
          /\ UNCHANGED TheItems
        BY <1>1, <2>1 DEF LinkedListClear, TheCall, TheItems, Abstract!Idle
    <2> QED  BY <2>2 DEF Abstract!Call, TheItems, TheCall
<1>2. ASSUME ListInv, ClearDone PROVE Abstract!Return
    <2>1. pc = "clear" /\ pc' = "idle" /\ index' = 0 /\ arg' = NULL /\ order' = <<>>
        BY <1>2 DEF ClearDone, Return
    <2>2. TheCall' = Abstract!Idle /\ TheCall # Abstract!Idle
        BY <2>1 DEF TheCall, Abstract!Idle
    <2>3. TheItems' = <<>>
        BY <2>1 DEF TheItems
    <2>4. TheItems' = Abstract!Effect
        BY <2>1, <2>3 DEF Abstract!Effect
    <2> QED  BY <2>2, <2>4 DEF Abstract!Return, TheItems, TheCall
<1> QED  BY <1>1, <1>2

\* Every step is one of the sequence of items or none.
LEMMA ItemStep ==
    ListInv /\ ListInv' /\ [Next]_vars
        => [Abstract!Next]_<<[i \in 1..Len(order) |-> item[order[i]]],
                             [op |-> pc, index |-> index, item |-> arg]>>
<1> SUFFICES ASSUME ListInv, ListInv', [Next]_vars
             PROVE  Abstract!Next \/ UNCHANGED <<TheItems, TheCall>>
    BY DEF TheItems, TheCall
<1>1. ASSUME NEW x \in Items, LinkedListAppend(x)
      PROVE  Abstract!Next \/ UNCHANGED <<TheItems, TheCall>>
    BY <1>1, AppendImplements DEF Abstract!Next
<1>2. ASSUME NEW i \in 0..(size - 1), NEW x \in Items, LinkedListInsert(i, x)
      PROVE  Abstract!Next
    BY <1>2, Begins DEF LinkedListInsert, Abstract!Next
<1>3. ASSUME NEW i \in 0..(size - 1), LinkedListPop(i)
      PROVE  Abstract!Next
    BY <1>3, Begins DEF LinkedListPop, Abstract!Next
<1>4. ASSUME NEW i \in 0..(size - 1), LinkedListRemove(i)
      PROVE  Abstract!Next
    BY <1>4, RemoveImplements DEF Abstract!Next
<1>5. CASE LinkedListClear
    BY <1>5, ClearImplements DEF Abstract!Next
<1>6. CASE Walk
    BY <1>6 DEF Walk, TheItems, TheCall
<1>7. CASE InsertNode
    BY <1>7, InsertImplements DEF Abstract!Next
<1>8. CASE PopNode
    BY <1>8, PopImplements DEF Abstract!Next
<1>9. CASE ClearNode
    BY <1>9 DEF ClearNode, TheItems, TheCall
<1>10. CASE ClearDone
    BY <1>10, ClearImplements DEF Abstract!Next
<1>11. CASE UNCHANGED vars
    BY <1>11 DEF vars, locals, TheItems, TheCall
<1> QED
    BY <1>1, <1>2, <1>3, <1>4, <1>5, <1>6, <1>7, <1>8, <1>9, <1>10, <1>11
    DEF Next, Loop

\* The functions of client_list.c do to the items what client_list.h says of
\* them, for lists of any length: every step of the nodes is a step of the
\* list of items, or none.
THEOREM ListImplementsItems == Spec => ImplementsItemList
BY ItemsInit, ListInvariant, ItemStep, PTL DEF Spec, ImplementsItemList, Abstract!Spec
===============================================================================
