------------------------------ MODULE ListLemmas ------------------------------
(***************************************************************************)
(* What the operators of SequencesExt that lists are changed with do to    *)
(* the elements, one by one, and recursion along a sequence: induction is  *)
(* by the least number of a set.                                           *)
(***************************************************************************)
EXTENDS Integers, Sequences, SequencesExt, SequenceTheorems, WellFoundedInduction,
        TLAPS

\* RemoveAt drops the element at n and moves those behind it up by one.
LEMMA RemoveAtProperties ==
    ASSUME NEW S, NEW s \in Seq(S), NEW n \in 1..Len(s)
    PROVE  /\ RemoveAt(s, n) \in Seq(S)
           /\ Len(RemoveAt(s, n)) = Len(s) - 1
           /\ DOMAIN RemoveAt(s, n) = 1..(Len(s) - 1)
           /\ \A i \in 1..(Len(s) - 1) :
                 RemoveAt(s, n)[i] = IF i < n THEN s[i] ELSE s[i + 1]
<1> DEFINE a == SubSeq(s, 1, n - 1)
           b == SubSeq(s, n + 1, Len(s))
<1>1. Len(s) \in Nat /\ \A i \in 1..Len(s) : s[i] \in S
    BY LenProperties, ElementOfSeq
<1>2. /\ a \in Seq(S)
      /\ Len(a) = n - 1
      /\ \A i \in 1..(n - 1) : a[i] = s[i]
    <2>1. n - 1 \in Int /\ 1 \in Int /\ \A i \in 1..(n - 1) : s[i] \in S
        BY <1>1
    <2> QED  BY <2>1, <1>1, SubSeqProperties, SMTT(30)
<1>3. /\ b \in Seq(S)
      /\ Len(b) = Len(s) - n
      /\ \A i \in 1..(Len(s) - n) : b[i] = s[n + i]
    <2>1. n + 1 \in Int /\ Len(s) \in Int /\ \A i \in (n + 1)..Len(s) : s[i] \in S
        BY <1>1
    <2> QED  BY <2>1, <1>1, SubSeqProperties, SMTT(30)
<1>4. RemoveAt(s, n) = a \o b
    BY DEF RemoveAt
<1>5. /\ a \o b \in Seq(S)
      /\ Len(a \o b) = Len(a) + Len(b)
      /\ \A i \in 1..(Len(a) + Len(b)) :
            (a \o b)[i] = IF i <= Len(a) THEN a[i] ELSE b[i - Len(a)]
    BY <1>2, <1>3, ConcatProperties
<1> HIDE DEF a, b
<1>6. DOMAIN (a \o b) = 1..(Len(s) - 1)
    BY <1>5, <1>1, <1>2, <1>3, LenProperties
<1>7. ASSUME NEW i \in 1..(Len(s) - 1)
      PROVE  (a \o b)[i] = IF i < n THEN s[i] ELSE s[i + 1]
    <2>1. CASE i < n
        <3>1. (a \o b)[i] = a[i] /\ a[i] = s[i]
            BY <2>1, <1>1, <1>2, <1>3, <1>5
        <3> QED  BY <2>1, <3>1
    <2>2. CASE i >= n
        <3>1. (a \o b)[i] = b[i - (n - 1)]
            BY <2>2, <1>1, <1>2, <1>3, <1>5
        <3>2. i - (n - 1) \in 1..(Len(s) - n) /\ n + (i - (n - 1)) = i + 1
            BY <2>2, <1>1
        <3>3. b[i - (n - 1)] = s[n + (i - (n - 1))]
            BY <3>2, <1>3
        <3> QED  BY <2>2, <3>1, <3>2, <3>3, <1>1
    <2>3. i < n \/ i >= n
        BY <1>1
    <2> QED  BY <2>1, <2>2, <2>3, Zenon
<1> QED  BY <1>1, <1>2, <1>3, <1>4, <1>5, <1>6, <1>7

\* s followed by t, of k and of l elements.
LEMMA Concatenation ==
    ASSUME NEW S, NEW s \in Seq(S), NEW t \in Seq(S), NEW k, NEW l,
           Len(s) = k, Len(t) = l
    PROVE  /\ k \in Nat /\ l \in Nat
           /\ s \o t \in Seq(S) /\ Len(s \o t) = k + l
           /\ \A i \in 1..(k + l) : (s \o t)[i] = IF i <= k THEN s[i] ELSE t[i - k]
<1>1. k \in Nat /\ l \in Nat
    BY LenProperties
<1>2. /\ s \o t \in Seq(S)
      /\ Len(s \o t) = Len(s) + Len(t)
      /\ \A i \in 1..(Len(s) + Len(t)) :
            (s \o t)[i] = IF i <= Len(s) THEN s[i] ELSE t[i - Len(s)]
    BY ConcatProperties
<1> QED  BY <1>1, <1>2, Zenon

\* r is s with e at n, and what was there and behind it moved on by one.
Inserted(S, s, n, e, r) ==
    /\ r \in Seq(S)
    /\ Len(r) = Len(s) + 1
    /\ \A i \in 1..(Len(s) + 1) :
          r[i] = IF i < n THEN s[i] ELSE IF i = n THEN e ELSE s[i - 1]

\* InsertAt puts an element at n.
LEMMA InsertAtProperties ==
    ASSUME NEW S, NEW s \in Seq(S), NEW n \in 1..(Len(s) + 1), NEW e \in S
    PROVE  Inserted(S, s, n, e, InsertAt(s, n, e))
<1> DEFINE a == SubSeq(s, 1, n - 1)
           b == SubSeq(s, n, Len(s))
           c == a \o <<e>>
<1>1. Len(s) \in Nat /\ \A i \in 1..Len(s) : s[i] \in S
    BY LenProperties, ElementOfSeq
<1>2. /\ a \in Seq(S)
      /\ Len(a) = n - 1
      /\ \A i \in 1..(n - 1) : a[i] = s[i]
    <2>1. n - 1 \in Int /\ 1 \in Int /\ \A i \in 1..(n - 1) : s[i] \in S
        BY <1>1
    <2> QED  BY <2>1, <1>1, SubSeqProperties, SMTT(30)
<1>3. /\ b \in Seq(S)
      /\ Len(b) = Len(s) - n + 1
      /\ \A i \in 1..(Len(s) - n + 1) : b[i] = s[n + i - 1]
    <2>1. n \in Int /\ Len(s) \in Int /\ \A i \in n..Len(s) : s[i] \in S
        BY <1>1
    <2> QED  BY <2>1, <1>1, SubSeqProperties, SMTT(30)
<1>4. InsertAt(s, n, e) = c \o b
    BY DEF InsertAt
<1> HIDE DEF a, b
<1>5. /\ c \in Seq(S)
      /\ Len(c) = n
      /\ \A i \in 1..n : c[i] = IF i < n THEN s[i] ELSE e
    <2>1. <<e>> \in Seq(S) /\ Len(<<e>>) = 1 /\ <<e>>[1] = e
        OBVIOUS
    <2>2. /\ c \in Seq(S)
          /\ Len(c) = Len(a) + 1
          /\ \A i \in 1..(Len(a) + 1) :
                c[i] = IF i <= Len(a) THEN a[i] ELSE <<e>>[i - Len(a)]
        BY <1>2, <2>1, ConcatProperties
    <2> HIDE DEF c
    <2> QED  BY <2>1, <2>2, <1>1, <1>2
<1> HIDE DEF c
<1>6. /\ c \o b \in Seq(S)
      /\ Len(c \o b) = Len(c) + Len(b)
      /\ \A i \in 1..(Len(c) + Len(b)) :
            (c \o b)[i] = IF i <= Len(c) THEN c[i] ELSE b[i - Len(c)]
    BY <1>3, <1>5, ConcatProperties
<1>7. ASSUME NEW i \in 1..(Len(s) + 1)
      PROVE  (c \o b)[i] = IF i < n THEN s[i] ELSE IF i = n THEN e ELSE s[i - 1]
    <2>1. CASE i <= n
        <3>1. (c \o b)[i] = c[i] /\ i \in 1..n
            BY <2>1, <1>1, <1>3, <1>5, <1>6
        <3> QED  BY <2>1, <3>1, <1>5
    <2>2. CASE i > n
        <3>1. (c \o b)[i] = b[i - n]
            BY <2>2, <1>1, <1>3, <1>5, <1>6
        <3>2. i - n \in 1..(Len(s) - n + 1) /\ n + (i - n) - 1 = i - 1
            BY <2>2, <1>1
        <3>3. b[i - n] = s[n + (i - n) - 1]
            BY <3>2, <1>3
        <3> QED  BY <2>2, <3>1, <3>2, <3>3, <1>1
    <2>3. i <= n \/ i > n
        BY <1>1
    <2> QED  BY <2>1, <2>2, <2>3, Zenon
<1> QED  BY <1>1, <1>3, <1>4, <1>5, <1>6, <1>7 DEF Inserted
-----------------------------------------------------------------------------
(***************************************************************************)
(* Recursion along a sequence.  Induction is by the least number of a set, *)
(* which the theorems on well-founded sets provide.                        *)
(***************************************************************************)

\* The order of the numbers is well-founded.
LEMMA NatLess ==
    \E R : IsWellFoundedOn(R, Nat) /\ \A x, y \in Nat : x < y => <<x, y>> \in R
<1>1. IsWellFoundedOn(OpToRel(<, Nat), Nat)
    BY NatLessThanWellFounded
<1>2. \A x, y \in Nat : x < y => <<x, y>> \in OpToRel(<, Nat)
    BY DEF OpToRel
<1> QED  BY <1>1, <1>2

\* A set of numbers has a least one.
LEMMA LeastNumber ==
    ASSUME NEW T, T \subseteq Nat, T # {}
    PROVE  \E x \in T : \A y \in T : x <= y
<1>1. PICK R : IsWellFoundedOn(R, Nat) /\ \A x, y \in Nat : x < y => <<x, y>> \in R
    BY NatLess
<1>2. IsWellFoundedOn(R, Nat)
    BY <1>1
<1>3. \E x \in T : \A y \in T : ~(<<y, x>> \in R)
    BY <1>2, WFMin, Zenon
<1>4. PICK x \in T : \A y \in T : ~(<<y, x>> \in R)
    BY <1>3
<1>5. x \in Nat /\ \A y \in T : y \in Nat /\ ~(y < x)
    BY <1>1, <1>4
<1> QED  BY <1>4, <1>5

\* What holds of 0 and passes from each number to the next holds up to n.
LEMMA Reaches ==
    ASSUME NEW n \in Nat, NEW T, 0 \in T, \A i \in 1..n : i - 1 \in T => i \in T
    PROVE  \A i \in 0..n : i \in T
<1> DEFINE U == (0..n) \ T
<1>1. SUFFICES U = {}
    BY <1>1
<1>2. SUFFICES ASSUME U # {} PROVE FALSE
    OBVIOUS
<1>3. U \subseteq Nat
    OBVIOUS
<1>4. PICK k \in U : \A y \in U : k <= y
    <2> HIDE DEF U
    <2> QED  BY <1>2, <1>3, LeastNumber
<1>5. k \in 1..n
    BY <1>4
<1>6. k - 1 \in T
    <2>1. ~(k <= k - 1) /\ k - 1 \in 0..n
        BY <1>5
    <2> QED  BY <1>4, <2>1
<1> QED  BY <1>4, <1>5, <1>6

\* f has on 0..n a first value in X, and each of the others is made from the
\* one before.
Iterates(f, n, X, base, step) ==
    /\ f \in [0..n -> X]
    /\ f[0] = base
    /\ \A i \in 1..n : f[i] = step[i][f[i - 1]]

IsStep(step, n, X) == step \in [1..n -> [X -> X]]

\* Any first value and any steps give such a function.
LEMMA Iteration ==
    ASSUME NEW n \in Nat, NEW X, NEW base \in X, NEW step, IsStep(step, n, X)
    PROVE  \E f : Iterates(f, n, X, base, step)
<1> USE DEF IsStep
<1> DEFINE Solves(f, k) ==
              /\ f \in [0..k -> X] /\ f[0] = base
              /\ \A i \in 1..k : f[i] = step[i][f[i - 1]]
           T == {k \in 0..n : \E f : Solves(f, k)}
<1>1. 0 \in T
    <2> DEFINE f == [i \in 0..0 |-> base]
    <2>1. Solves(f, 0)
        OBVIOUS
    <2>2. \E g : Solves(g, 0)
        <3> HIDE DEF f, Solves
        <3> QED  BY <2>1
    <2> HIDE DEF Solves
    <2> QED  BY <2>2
<1>2. ASSUME NEW k \in 1..n, k - 1 \in T
      PROVE  k \in T
    <2>1. PICK g : Solves(g, k - 1)
        BY <1>2
    <2> DEFINE f == [i \in 0..k |-> IF i = k THEN step[k][g[k - 1]] ELSE g[i]]
    <2>2. g[k - 1] \in X /\ step[k] \in [X -> X]
        BY <2>1
    <2>3. step[k][g[k - 1]] \in X
        BY <2>2
    <2>4. f \in [0..k -> X] /\ f[0] = base
        BY <2>1, <2>3
    <2>5. ASSUME NEW i \in 1..k
          PROVE  f[i] = step[i][f[i - 1]]
        <3>1. f[i - 1] = g[i - 1]
            OBVIOUS
        <3>2. i # k => f[i] = g[i] /\ i \in 1..(k - 1)
            OBVIOUS
        <3> QED  BY <2>1, <3>1, <3>2
    <2>6. Solves(f, k)
        BY <2>4, <2>5
    <2> HIDE DEF f, Solves
    <2> QED  BY <2>6
<1>3. n \in T
    <2> HIDE DEF T
    <2>1. \A i \in 1..n : i - 1 \in T => i \in T
        BY <1>2
    <2>2. \A i \in 0..n : i \in T
        BY <1>1, <2>1, Reaches
    <2> QED  BY <2>2
<1> QED  BY <1>3 DEF Iterates

\* FlattenSeq puts one sequence behind the other.
LEMMA FlattenProperties ==
    ASSUME NEW S, NEW seqs \in Seq(Seq(S))
    PROVE  \E g \in [0..Len(seqs) -> Seq(S)] :
              /\ g[0] = <<>>
              /\ \A i \in 1..Len(seqs) : g[i] = g[i - 1] \o seqs[i]
              /\ FlattenSeq(seqs) = g[Len(seqs)]
<1> DEFINE n == Len(seqs)
<1>1. n \in Nat /\ \A i \in 1..n : seqs[i] \in Seq(S)
    BY LenProperties, ElementOfSeq
<1> DEFINE step == [i \in 1..n |-> [s \in Seq(S) |-> s \o seqs[i]]]
<1>2. step \in [1..n -> [Seq(S) -> Seq(S)]]
    <2>1. \A i \in 1..n : \A s \in Seq(S) : s \o seqs[i] \in Seq(S)
        BY <1>1, ConcatProperties
    <2> QED  BY <2>1
<1>3. <<>> \in Seq(S)
    BY EmptySeq
<1>4. \A i \in 1..n : \A s \in Seq(S) : step[i][s] = s \o seqs[i]
    OBVIOUS
<1> HIDE DEF step, n
<1>0. n \in Nat
    BY <1>1
<1>5. PICK g \in [0..n -> Seq(S)] :
          g[0] = <<>> /\ \A i \in 1..n : g[i] = step[i][g[i - 1]]
    <2> DEFINE E == Seq(S)  e == <<>>
    <2>1. e \in E
        BY <1>3
    <2>2. IsStep(step, n, E)
        BY <1>2 DEF IsStep
    <2> HIDE DEF E, e
    <2>3. \E f : Iterates(f, n, E, e, step)
        BY <1>0, <2>1, <2>2, Iteration
    <2> QED  BY <2>3 DEF E, e, Iterates
<1>6. ASSUME NEW i \in 1..n
      PROVE  g[i] = g[i - 1] \o seqs[i]
    <2>1. i - 1 \in 0..n
        BY <1>0
    <2>2. g[i - 1] \in Seq(S)
        BY <2>1
    <2> QED  BY <1>4, <1>5, <2>2
<1>7. FlattenSeq(seqs) = g[n]
    <2>1. CASE n = 0
        <3>1. seqs = <<>>
            BY <2>1, EmptySeq DEF n
        <3> QED  BY <1>5, <2>1, <3>1 DEF FlattenSeq, n
    <2>2. CASE n # 0
        <3> DEFINE Def(f) == [i \in 1..n |-> IF i = 1 THEN seqs[i] ELSE f[i - 1] \o seqs[i]]
                   h == [i \in 1..n |-> g[i]]
                   flatten == CHOOSE f : f = Def(f)
        <3>1. g[0] \o seqs[1] = seqs[1]
            BY <1>1, <1>5, <2>2, ConcatEmptySeq
        <3>2. h = Def(h)
            <4>1. ASSUME NEW i \in 1..n
                  PROVE  h[i] = IF i = 1 THEN seqs[i] ELSE h[i - 1] \o seqs[i]
                <5>1. CASE i = 1
                    <6>1. g[i] = g[i - 1] \o seqs[i]
                        BY <1>6
                    <6>2. i - 1 = 0
                        BY <5>1
                    <6> QED  BY <3>1, <5>1, <6>1, <6>2
                <5>2. CASE i # 1
                    <6>1. i - 1 \in 1..n
                        BY <1>0, <5>2
                    <6> QED  BY <1>6, <5>2, <6>1
                <5> QED  BY <5>1, <5>2
            <4> QED  BY <4>1
        <3>3. flatten = Def(flatten)
            <4> HIDE DEF h, Def
            <4> QED  BY <3>2
        <3> HIDE DEF flatten
        <3>4. \A i \in 1..n :
                 flatten[i] = IF i = 1 THEN seqs[i] ELSE flatten[i - 1] \o seqs[i]
            BY <3>3
        <3> DEFINE T == {i \in 0..n : i = 0 \/ flatten[i] = g[i]}
        <3>5. ASSUME NEW i \in 1..n, i - 1 \in T
              PROVE  i \in T
            <4>1. g[i] = g[i - 1] \o seqs[i]
                BY <1>6
            <4>2. CASE i = 1
                <5>1. i - 1 = 0
                    BY <4>2
                <5>2. flatten[i] = seqs[i]
                    BY <3>4, <4>2
                <5>3. flatten[i] = g[i]
                    BY <3>1, <4>1, <4>2, <5>1, <5>2
                <5> QED  BY <1>0, <5>3
            <4>3. CASE i # 1
                <5>1. flatten[i - 1] = g[i - 1]
                    BY <3>5, <4>3
                <5>2. flatten[i] = g[i]
                    BY <3>4, <4>1, <4>3, <5>1
                <5> QED  BY <1>0, <5>2
            <4> QED  BY <4>2, <4>3
        <3>6. n \in T
            <4>1. 0 \in T /\ \A i \in 1..n : i - 1 \in T => i \in T
                BY <1>0, <3>5
            <4> HIDE DEF T
            <4>2. \A i \in 0..n : i \in T
                BY <1>0, <4>1, Reaches
            <4> QED  BY <1>0, <4>2
        <3>7. flatten[n] = g[n]
            BY <2>2, <3>6
        <3> QED  BY <1>1, <2>2, <3>7 DEF FlattenSeq, n, flatten
    <2> QED  BY <2>1, <2>2
<1> QED  BY <1>5, <1>6, <1>7 DEF n

\* Where the items of each sequence are in the flattened one.
LEMMA FlattenPlaces ==
    ASSUME NEW S, NEW seqs \in Seq(Seq(S))
    PROVE  /\ FlattenSeq(seqs) \in Seq(S)
           /\ \E off \in [0..Len(seqs) -> Nat] :
                 /\ off[0] = 0 /\ Len(FlattenSeq(seqs)) = off[Len(seqs)]
                 /\ \A i \in 1..Len(seqs) :
                       /\ off[i] = off[i - 1] + Len(seqs[i])
                       /\ \A h \in 1..Len(seqs[i]) :
                             /\ off[i - 1] + h \in 1..Len(FlattenSeq(seqs))
                             /\ FlattenSeq(seqs)[off[i - 1] + h] = seqs[i][h]
<1> DEFINE n == Len(seqs)  f == FlattenSeq(seqs)
<1>1. n \in Nat /\ \A i \in 1..n : seqs[i] \in Seq(S) /\ Len(seqs[i]) \in Nat
    <2>1. \A i \in 1..n : seqs[i] \in Seq(S)
        BY ElementOfSeq
    <2> QED  BY <2>1, LenProperties
<1>2. PICK g \in [0..n -> Seq(S)] :
          /\ g[0] = <<>>
          /\ \A i \in 1..n : g[i] = g[i - 1] \o seqs[i]
          /\ f = g[n]
    BY FlattenProperties
<1> DEFINE off == [i \in 0..n |-> Len(g[i])]
<1> HIDE DEF n, f
<1>3. off \in [0..n -> Nat] /\ \A i \in 0..n : off[i] = Len(g[i]) /\ g[i] \in Seq(S)
    BY <1>2, LenProperties
<1>4. off[0] = 0
    <2>1. 0 \in 0..n
        BY <1>1
    <2>2. Len(g[0]) = 0
        BY <1>2, EmptySeq
    <2> QED  BY <1>3, <2>1, <2>2
<1> HIDE DEF off
<1>5. ASSUME NEW i \in 1..n
      PROVE  /\ i - 1 \in 0..n /\ i \in 0..n /\ off[i - 1] \in Nat
             /\ off[i] = off[i - 1] + Len(seqs[i])
             /\ \A h \in 1..off[i - 1] : g[i][h] = g[i - 1][h]
             /\ \A h \in 1..Len(seqs[i]) : g[i][off[i - 1] + h] = seqs[i][h]
    <2>1. i - 1 \in 0..n /\ i \in 0..n
        BY <1>1
    <2> DEFINE u == g[i - 1]  v == seqs[i]  m == off[i - 1]  k == Len(v)
    <2>2. u \in Seq(S) /\ v \in Seq(S) /\ g[i] = u \o v
          /\ m \in Nat /\ k \in Nat /\ off[i] = Len(u \o v)
        BY <1>1, <1>2, <1>3, <2>1
    <2>3. Len(u) = m /\ Len(v) = k
        BY <1>3, <2>1
    <2> HIDE DEF u, v, m, k
    <2>4. /\ Len(u \o v) = m + k
          /\ \A h \in 1..(m + k) : (u \o v)[h] = IF h <= m THEN u[h] ELSE v[h - m]
        <3>1. u \in Seq(S) /\ v \in Seq(S)
            BY <2>2
        <3> QED  BY <2>3, <3>1, Concatenation
    <2>5. \A h \in 1..m : h \in 1..(m + k) /\ h <= m
        BY <2>2
    <2>6. \A h \in 1..k : m + h \in 1..(m + k) /\ ~(m + h <= m) /\ m + h - m = h
        BY <2>2
    <2>7. /\ \A h \in 1..m : g[i][h] = u[h]
          /\ \A h \in 1..k : g[i][m + h] = v[h]
        BY <2>2, <2>4, <2>5, <2>6
    <2>8. off[i] = m + k
        BY <2>2, <2>4
    <2> QED  BY <2>1, <2>2, <2>7, <2>8 DEF u, v, m, k
<1> DEFINE Placed(j, i) ==
              \A h \in 1..Len(seqs[i]) :
                  off[i - 1] + h \in 1..off[j] /\ g[j][off[i - 1] + h] = seqs[i][h]
           T == {j \in 0..n : \A i \in 1..j : Placed(j, i)}
<1>6. 0 \in T
    <2>1. 1..0 = {} /\ 0 \in 0..n
        BY <1>1
    <2> HIDE DEF Placed
    <2> QED  BY <2>1
<1>7. ASSUME NEW j \in 1..n, j - 1 \in T
      PROVE  j \in T
    <2>1. /\ j - 1 \in 0..n /\ j \in 0..n /\ off[j - 1] \in Nat
          /\ off[j] = off[j - 1] + Len(seqs[j])
          /\ \A h \in 1..off[j - 1] : g[j][h] = g[j - 1][h]
          /\ \A h \in 1..Len(seqs[j]) : g[j][off[j - 1] + h] = seqs[j][h]
        BY <1>5
    <2>2. Len(seqs[j]) \in Nat
        BY <1>1
    <2>3. \A h \in 1..off[j - 1] : h \in 1..off[j]
        BY <2>1, <2>2
    <2>4. Placed(j, j)
        <3>1. \A h \in 1..Len(seqs[j]) : off[j - 1] + h \in 1..off[j]
            BY <2>1, <2>2
        <3> QED  BY <2>1, <3>1
    <2>5. ASSUME NEW i \in 1..(j - 1)
          PROVE  Placed(j, i)
        <3>1. Placed(j - 1, i)
            BY <1>7
        <3> QED  BY <2>1, <2>3, <3>1
    <2>6. \A i \in 1..j : i = j \/ i \in 1..(j - 1)
        BY <1>1
    <2> HIDE DEF Placed
    <2> QED  BY <2>1, <2>4, <2>5, <2>6
<1>8. \A i \in 1..n : Placed(n, i)
    <2>1. \A j \in 0..n : j \in T
        <3> HIDE DEF T
        <3> QED  BY <1>1, <1>6, <1>7, Reaches
    <2>2. n \in 0..n
        BY <1>1
    <2> HIDE DEF Placed
    <2> QED  BY <2>1, <2>2
<1>9. f \in Seq(S) /\ Len(f) = off[n]
    BY <1>1, <1>2, <1>3
<1>10. \A i \in 1..n : off[i] = off[i - 1] + Len(seqs[i])
    BY <1>5
<1>11. \A i \in 1..n : \A h \in 1..Len(seqs[i]) :
          off[i - 1] + h \in 1..Len(f) /\ f[off[i - 1] + h] = seqs[i][h]
    BY <1>2, <1>8, <1>9
<1> QED  BY <1>3, <1>4, <1>9, <1>10, <1>11 DEF n, f
===============================================================================
