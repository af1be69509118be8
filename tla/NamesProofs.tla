------------------------------ MODULE NamesProofs ------------------------------
(***************************************************************************)
(* Proofs about RequestNames and HashMd5, for any requests, any size of a  *)
(* block and of the buffers, and whatever the stack holds.                 *)
(*                                                                         *)
(* From the name of a file to its request: the blocks that are hashed put  *)
(* together are the padded key; padding loses nothing, so that one file is *)
(* of one key; a key whose parts spell no label has one way to be taken    *)
(* apart; a part is the words of its argument, as far as they fit; and the *)
(* escapes of a path can be read one after the other up to the next label. *)
(***************************************************************************)
EXTENDS RequestNames, ListLemmas, FiniteSetTheorems

-----------------------------------------------------------------------------
(***************************************************************************)
(* Division, and the number of zeros that MD5 asks for.                    *)
(***************************************************************************)

\* n is x times b, and r more.
Splits(n, b, x, r) == x \in Int /\ r \in 0..(b - 1) /\ n = b * x + r

\* Quotient and remainder.
LEMMA DivFacts ==
    ASSUME NEW n \in Nat, NEW b \in Nat \ {0}
    PROVE  /\ n \div b \in Nat /\ n % b \in 0..(b - 1)
           /\ n = b * (n \div b) + (n % b)
           /\ Splits(n, b, n \div b, n % b)
BY DEF Splits

\* ... are the only ones.
LEMMA DivUnique ==
    ASSUME NEW b \in Nat \ {0}, NEW n, NEW x, NEW y, NEW r, NEW s,
           Splits(n, b, x, r), Splits(n, b, y, s)
    PROVE  x = y /\ r = s
<1>1. ASSUME NEW u \in Int, NEW v \in Int, NEW k \in 0..(b - 1), NEW l \in 0..(b - 1),
             b * u + k = b * v + l, u < v
      PROVE  FALSE
    <2>1. b * (v - u) = k - l
        BY <1>1
    <2>2. v - u \in Nat /\ v - u >= 1
        BY <1>1
    <2>3. b * (v - u) >= b
        BY <2>2
    <2> QED  BY <2>1, <2>3
<1>2. ~(x < y) /\ ~(y < x)
    BY <1>1 DEF Splits
<1> QED  BY <1>2 DEF Splits

\* The bytes that are left over when whole blocks are digested.
LEMMA Remainder ==
    ASSUME NEW n \in Nat
    PROVE  /\ n \div Block \in Nat /\ n % Block \in 0..(Block - 1)
           /\ n = Block * (n \div Block) + (n % Block)
           /\ (n % LoSize) % Block = n % Block
<1> USE HashAssumption
<1>1. /\ n \div Block \in Nat /\ n % Block \in 0..(Block - 1)
      /\ n = Block * (n \div Block) + (n % Block)
    BY DivFacts
<1> DEFINE lo == n % LoSize  hi == n \div LoSize
<1>2. lo \in Nat /\ hi \in Nat /\ n = LoSize * hi + lo
    <2>1. /\ n \div LoSize \in Nat /\ n % LoSize \in 0..(LoSize - 1)
          /\ n = LoSize * (n \div LoSize) + (n % LoSize)
        BY DivFacts
    <2>2. LoSize - 1 \in Nat /\ 0..(LoSize - 1) \subseteq Nat
        OBVIOUS
    <2>3. n % LoSize \in Nat
        BY <2>1, <2>2
    <2> QED  BY <2>1, <2>3
<1> DEFINE m == LoSize \div Block
<1>3. m \in Nat /\ LoSize = Block * m
    <2>1. m \in Nat /\ LoSize = Block * m + (LoSize % Block)
        BY DivFacts
    <2> QED  BY <2>1
<1> DEFINE a == lo \div Block  b == lo % Block
<1>4. a \in Nat /\ b \in 0..(Block - 1) /\ lo = Block * a + b
    BY <1>2, DivFacts
<1> HIDE DEF lo, hi, m, a, b
<1>5. n = Block * (m * hi + a) + b
    <2>1. n = (Block * m) * hi + (Block * a + b)
        BY <1>2, <1>3, <1>4
    <2>2. (Block * m) * hi = Block * (m * hi)
        BY <1>2, <1>3
    <2>3. m * hi \in Nat
        BY <1>2, <1>3
    <2>4. Block * (m * hi) + Block * a = Block * (m * hi + a)
        BY <1>4, <2>3
    <2> QED  BY <1>4, <2>1, <2>2, <2>3, <2>4
<1>6. m * hi + a \in Int
    BY <1>2, <1>3, <1>4
<1>7. b = n % Block
    <2>1. Splits(n, Block, m * hi + a, b) /\ Block \in Nat \ {0}
        BY <1>4, <1>5, <1>6 DEF Splits
    <2>2. Splits(n, Block, n \div Block, n % Block)
        BY DivFacts
    <2> QED  BY <2>1, <2>2, DivUnique
<1> QED  BY <1>1, <1>7 DEF b, lo

\* The zeros between the mark and the length: to the end of the block, or of
\* the next when the length has no room.
ZerosNeeded(used) ==
    IF Block - used - 1 < LengthSize THEN 2 * Block - used - 3 ELSE Block - used - 3

\* They are what MD5 asks for.
LEMMA ZerosAreNeeded ==
    ASSUME NEW n \in Nat
    PROVE  LET z == CHOOSE k \in 0..(Block - 1) : (n + 1 + k + LengthSize) % Block = 0
           IN  z = ZerosNeeded(n % Block) /\ z \in 0..(Block - 1)
<1> USE HashAssumption DEF LengthSize
<1> DEFINE r == n % Block  q == n \div Block
           Fills(k) == (n + 1 + k + LengthSize) % Block = 0
<1>1. q \in Nat /\ r \in 0..(Block - 1) /\ n = Block * q + r
    BY Remainder
<1> HIDE DEF r, q
<1> DEFINE w == ZerosNeeded(r)
<1>2. w \in 0..(Block - 1)
    BY <1>1 DEF ZerosNeeded
<1>3. r + w + 3 = Block \/ r + w + 3 = 2 * Block
    BY <1>1 DEF ZerosNeeded
<1> HIDE DEF w
<1>4. ASSUME NEW k \in 0..(Block - 1)
      PROVE  Fills(k) <=> k = w
    <2> DEFINE p == n + 1 + k + 2
    <2>1. p \in Nat /\ p = Block * q + (r + k + 3)
        BY <1>1
    <2>2. p \div Block \in Nat /\ p % Block \in 0..(Block - 1)
          /\ p = Block * (p \div Block) + (p % Block)
          /\ Splits(p, Block, p \div Block, p % Block)
        BY <2>1, DivFacts
    <2> HIDE DEF p
    <2>3. ASSUME p % Block = 0
          PROVE  k = w
        <3> DEFINE d == p \div Block
        <3>1. d \in Nat /\ Block * d = Block * q + (r + k + 3)
            BY <2>1, <2>2, <2>3
        <3> HIDE DEF d
        <3>2. PICK c \in 1..2 : r + w + 3 = Block * c
            BY <1>3
        <3>3. Block * d + 0 = Block * (q + c) + (k - w)
            BY <1>1, <1>2, <3>1, <3>2
        <3>4. CASE k >= w
            <4>1. Splits(Block * d, Block, q + c, k - w) /\ k - w \in Int
                BY <1>1, <1>2, <3>1, <3>3, <3>4 DEF Splits
            <4>2. Splits(Block * d, Block, d, 0)
                BY <3>1 DEF Splits
            <4>3. k - w = 0
                BY <4>1, <4>2, DivUnique
            <4> QED  BY <1>2, <4>3
        <3>5. CASE k < w
            <4> DEFINE e == Block * (q + c)
            <4>1. Splits(e, Block, q + c, 0)
                BY <1>1, <3>2 DEF Splits
            <4>2. Splits(e, Block, d, w - k)
                BY <1>1, <1>2, <3>1, <3>3, <3>5 DEF Splits
            <4>3. w - k = 0
                BY <4>1, <4>2, DivUnique
            <4> QED  BY <1>2, <4>3
        <3> QED  BY <1>2, <3>4, <3>5
    <2>4. ASSUME k = w
          PROVE  p % Block = 0
        <3>1. PICK c \in 1..2 : r + w + 3 = Block * c
            BY <1>3
        <3>2. p = Block * (q + c) + 0
            BY <1>1, <2>1, <2>4, <3>1
        <3>3. Splits(p, Block, q + c, 0)
            BY <1>1, <3>2 DEF Splits
        <3> QED  BY <2>2, <3>3, DivUnique
    <2> QED  BY <2>3, <2>4 DEF p
<1> HIDE DEF Fills
<1>5. (CHOOSE k \in 0..(Block - 1) : Fills(k)) = w
    BY <1>2, <1>4
<1> QED  BY <1>2, <1>5 DEF Fills, w, r

-----------------------------------------------------------------------------
(***************************************************************************)
(* What is hashed is the padded text.                                      *)
(***************************************************************************)

\* Blocks that have the bytes of a text, in their order.
CutInBlocks(S, bs, p) ==
    /\ p \in Seq(S) /\ bs \in Seq(Seq(S))
    /\ Len(p) = Block * Len(bs)
    /\ \A b \in 1..Len(bs) :
          /\ Len(bs[b]) = Block
          /\ \A i \in 1..Block : bs[b][i] = p[Block * (b - 1) + i]

\* They are the text.
LEMMA BlocksSpell ==
    ASSUME NEW S, NEW p, NEW bs, CutInBlocks(S, bs, p)
    PROVE  FlattenSeq(bs) = p
<1> USE HashAssumption DEF CutInBlocks
<1> DEFINE n == Len(bs)
<1>1. n \in Nat /\ Len(p) \in Nat /\ Block \in Nat /\ \A b \in 1..n : bs[b] \in Seq(S)
    BY LenProperties, ElementOfSeq
<1>2. PICK g \in [0..n -> Seq(S)] :
          /\ g[0] = <<>>
          /\ \A i \in 1..n : g[i] = g[i - 1] \o bs[i]
          /\ FlattenSeq(bs) = g[n]
    BY FlattenProperties
<1> HIDE DEF n
<1> DEFINE T == {k \in 0..n : /\ Len(g[k]) = Block * k
                              /\ \A j \in 1..(Block * k) : g[k][j] = p[j]}
<1>3. 0 \in T
    BY <1>1, <1>2
<1>4. ASSUME NEW k \in 1..n, k - 1 \in T
      PROVE  k \in T
    <2> DEFINE m == Block * (k - 1)
    <2>1. k - 1 \in 0..n /\ m \in Nat /\ Block * k = m + Block
        BY <1>1
    <2>2. /\ g[k - 1] \in Seq(S) /\ bs[k] \in Seq(S)
          /\ g[k] = g[k - 1] \o bs[k]
        BY <1>1, <1>2, <2>1
    <2>3. /\ Len(g[k - 1]) = m
          /\ \A j \in 1..m : g[k - 1][j] = p[j]
        BY <1>4
    <2>4. Len(bs[k]) = Block /\ \A i \in 1..Block : bs[k][i] = p[m + i]
        BY DEF n
    <2> HIDE DEF m
    <2>5. /\ Len(g[k]) = m + Block
          /\ \A j \in 1..(m + Block) :
                g[k][j] = IF j <= m THEN g[k - 1][j] ELSE bs[k][j - m]
        <3> DEFINE u == g[k - 1]  v == bs[k]
        <3>1. u \in Seq(S) /\ v \in Seq(S) /\ Len(u) = m /\ Len(v) = Block
            BY <2>2, <2>3, <2>4
        <3> HIDE DEF u, v
        <3>2. /\ Len(u \o v) = m + Block
              /\ \A j \in 1..(m + Block) :
                    (u \o v)[j] = IF j <= m THEN u[j] ELSE v[j - m]
            BY <3>1, Concatenation
        <3> QED  BY <2>2, <3>2 DEF u, v
    <2>6. ASSUME NEW j \in 1..(m + Block)
          PROVE  g[k][j] = p[j]
        <3>1. CASE j <= m
            <4>1. j \in 1..m
                BY <2>1, <3>1
            <4> QED  BY <2>3, <2>5, <3>1, <4>1
        <3>2. CASE ~(j <= m)
            <4>1. j - m \in 1..Block /\ m + (j - m) = j
                BY <1>1, <2>1, <3>2
            <4>2. bs[k][j - m] = p[m + (j - m)]
                BY <2>4, <4>1
            <4> QED  BY <2>5, <3>2, <4>1, <4>2
        <3> QED  BY <3>1, <3>2
    <2> QED  BY <2>1, <2>5, <2>6
<1>5. n \in T
    <2> HIDE DEF T
    <2>1. \A i \in 0..n : i \in T
        BY <1>1, <1>3, <1>4, Reaches
    <2> QED  BY <1>1, <2>1
<1>6. Len(g[n]) = Len(p) /\ \A j \in 1..Len(p) : g[n][j] = p[j]
    BY <1>5 DEF n
<1>7. g[n] \in Seq(S)
    BY <1>1, <1>2
<1> QED  BY <1>2, <1>6, <1>7, SeqEqual

\* The bytes of the padded text, one by one.
LEMMA PaddedProperties ==
    ASSUME NEW D, NEW data \in Seq(D)
    PROVE  LET n == Len(data)
               z == ZerosNeeded(n % Block)
               p == Padded(data)
               lo == ToString(8 * (n % LoSize))
               hi == ToString(n \div LoSize)
           IN  /\ n \in Nat /\ z \in 0..(Block - 1)
               /\ p \in Seq(D \cup {"80", "00", lo, hi})
               /\ Len(p) = n + z + 3
               /\ \A i \in 1..(n + z + 3) :
                     p[i] = IF i <= n THEN data[i]
                            ELSE IF i = n + 1 THEN "80"
                            ELSE IF i <= n + 1 + z THEN "00"
                            ELSE IF i = n + z + 2 THEN lo ELSE hi
<1> DEFINE n == Len(data)
           z == ZerosNeeded(n % Block)
           lo == ToString(8 * (n % LoSize))
           hi == ToString(n \div LoSize)
           X == D \cup {"80", "00", lo, hi}
           mark == <<"80">>
           zeros == Zeros(z)
           length == <<lo, hi>>
           dm == data \o mark
           dmz == dm \o zeros
           p == dmz \o length
<1>1. n \in Nat
    BY LenProperties
<1>2. z = (CHOOSE k \in 0..(Block - 1) : (n + 1 + k + LengthSize) % Block = 0)
      /\ z \in 0..(Block - 1)
    BY <1>1, ZerosAreNeeded
<1>3. z \in Nat
    BY <1>2, HashAssumption
<1>4. Padded(data) = p
    BY <1>2 DEF Padded
<1> HIDE DEF n, z, lo, hi
<1>5. data \in Seq(X) /\ Len(data) = n
    <2>1. D \subseteq X
        OBVIOUS
    <2> HIDE DEF X
    <2> QED  BY <2>1, SeqMonotonic DEF n
<1>6. mark \in Seq(X) /\ Len(mark) = 1 /\ mark[1] = "80"
    OBVIOUS
<1>7. zeros \in Seq(X) /\ Len(zeros) = z /\ \A i \in 1..z : zeros[i] = "00"
    BY <1>3 DEF Zeros
<1>8. length \in Seq(X) /\ Len(length) = 2 /\ length[1] = lo /\ length[2] = hi
    OBVIOUS
<1> HIDE DEF X, mark, zeros, length
<1>9. /\ dm \in Seq(X) /\ Len(dm) = n + 1
      /\ \A i \in 1..(n + 1) : dm[i] = IF i <= n THEN data[i] ELSE mark[i - n]
    <2> DEFINE one == Len(mark)
    <2>1. /\ dm \in Seq(X) /\ Len(dm) = n + one
          /\ \A i \in 1..(n + one) : dm[i] = IF i <= n THEN data[i] ELSE mark[i - n]
        <3> HIDE DEF one
        <3>1. Len(mark) = one
            BY DEF one
        <3> QED  BY <1>5, <1>6, <3>1, Concatenation
    <2> QED  BY <1>6, <2>1
<1> HIDE DEF dm
<1>10. /\ dmz \in Seq(X) /\ Len(dmz) = n + 1 + z
       /\ \A i \in 1..(n + 1 + z) :
             dmz[i] = IF i <= n + 1 THEN dm[i] ELSE zeros[i - (n + 1)]
    BY <1>7, <1>9, Concatenation
<1> HIDE DEF dmz
<1>11. /\ p \in Seq(X) /\ Len(p) = n + 1 + z + 2
       /\ \A i \in 1..(n + 1 + z + 2) :
             p[i] = IF i <= n + 1 + z THEN dmz[i] ELSE length[i - (n + 1 + z)]
    <2> DEFINE two == Len(length)
    <2>1. /\ p \in Seq(X) /\ Len(p) = n + 1 + z + two
          /\ \A i \in 1..(n + 1 + z + two) :
                p[i] = IF i <= n + 1 + z THEN dmz[i] ELSE length[i - (n + 1 + z)]
        <3> HIDE DEF two
        <3>1. Len(length) = two
            BY DEF two
        <3> QED  BY <1>8, <1>10, <3>1, Concatenation
    <2> QED  BY <1>8, <2>1
<1> HIDE DEF p
<1>12. ASSUME NEW i \in 1..(n + z + 3)
       PROVE  p[i] = IF i <= n THEN data[i]
                     ELSE IF i = n + 1 THEN "80"
                     ELSE IF i <= n + 1 + z THEN "00"
                     ELSE IF i = n + z + 2 THEN lo ELSE hi
    <2>1. CASE i <= n
        <3>1. i <= n + 1 /\ i <= n + 1 + z
            BY <1>1, <1>3, <2>1
        <3>2. p[i] = dmz[i]
            BY <1>1, <1>3, <1>11, <3>1
        <3>3. dmz[i] = dm[i]
            BY <1>1, <1>3, <1>10, <3>1
        <3>4. dm[i] = data[i]
            BY <1>1, <1>9, <2>1, <3>1
        <3> QED  BY <2>1, <3>2, <3>3, <3>4
    <2>2. CASE i = n + 1
        <3>1. p[i] = dm[i] /\ dm[i] = mark[i - n] /\ i - n = 1
            BY <1>1, <1>3, <1>9, <1>10, <1>11, <2>2
        <3> QED  BY <1>1, <1>6, <2>2, <3>1
    <2>3. CASE i > n + 1 /\ i <= n + 1 + z
        <3>1. p[i] = zeros[i - (n + 1)] /\ i - (n + 1) \in 1..z
            BY <1>1, <1>3, <1>10, <1>11, <2>3
        <3> QED  BY <1>1, <1>7, <2>3, <3>1
    <2>4. CASE i > n + 1 + z
        <3>1. p[i] = length[i - (n + 1 + z)]
            BY <1>1, <1>3, <1>11, <2>4
        <3>2. (i = n + z + 2 /\ i - (n + 1 + z) = 1)
              \/ (i # n + z + 2 /\ i - (n + 1 + z) = 2)
            BY <1>1, <1>3, <2>4
        <3> QED  BY <1>1, <1>3, <1>8, <2>4, <3>1, <3>2
    <2> QED  BY <1>1, <1>3, <2>1, <2>2, <2>3, <2>4
<1>13. Len(p) = n + z + 3
    BY <1>1, <1>3, <1>11
<1> QED  BY <1>1, <1>2, <1>4, <1>11, <1>12, <1>13 DEF n, z, lo, hi, X, p

\* A buffer of which every byte is in X is a block of them.
LEMMA BlockOf ==
    ASSUME NEW X, NEW buffer, NEW used, NEW bytes,
           \A i \in 1..Block : Put(buffer, used, bytes)[i] \in X
    PROVE  Put(buffer, used, bytes) \in Seq(X) /\ Len(Put(buffer, used, bytes)) = Block
<1> DEFINE e == Put(buffer, used, bytes)
<1>1. Block \in Nat
    BY HashAssumption
<1>2. e = [i \in 1..Block |-> e[i]]
    BY DEF Put
<1> HIDE DEF e
<1>3. \A i \in 1..Block : e[i] \in X
    BY DEF e
<1>4. e \in [1..Block -> X]
    BY <1>2, <1>3
<1> QED  BY <1>1, <1>4 DEF e

\* The buffer with the zeros and the length, from the given byte on.
Closing(buffer, used, lo, hi) ==
    Put(buffer, used, Zeros(Block - LengthSize - used) \o <<lo, hi>>)

\* The last bytes of the last block.
LEMMA Ending ==
    ASSUME NEW buffer, NEW used \in 0..(Block - 2), NEW lo, NEW hi
    PROVE  \A i \in 1..Block :
              Closing(buffer, used, lo, hi)[i] =
                 IF i <= used THEN buffer[i]
                 ELSE IF i <= Block - 2 THEN "00"
                 ELSE IF i = Block - 1 THEN lo ELSE hi
<1> USE HashAssumption DEF LengthSize
<1> DEFINE k == Block - LengthSize - used
           two == 2
           zeros == Zeros(k)
           length == <<lo, hi>>
           S == {"00", lo, hi}
           bytes == zeros \o length
<1>1. k \in Nat /\ used + k + 2 = Block /\ used \in Nat
    <2>1. Block \in Nat /\ Block > 2
        OBVIOUS
    <2>2. used \in Nat /\ used <= Block - 2
        BY <2>1
    <2> QED  BY <2>1, <2>2
<1> HIDE DEF k
<1>2. zeros \in Seq(S) /\ Len(zeros) = k /\ \A i \in 1..k : zeros[i] = "00"
    BY <1>1 DEF Zeros
<1>3. length \in Seq(S) /\ Len(length) = two /\ length[1] = lo /\ length[2] = hi
    OBVIOUS
<1>4. /\ Len(bytes) = k + two
      /\ \A i \in 1..(k + two) :
            bytes[i] = IF i <= k THEN zeros[i] ELSE length[i - k]
    <2> HIDE DEF zeros, length, S, two
    <2> QED  BY <1>2, <1>3, Concatenation
<1> HIDE DEF zeros, length, bytes, S
<1>5. ASSUME NEW i \in 1..Block
      PROVE  Put(buffer, used, bytes)[i] =
                 IF i <= used THEN buffer[i]
                 ELSE IF i <= Block - 2 THEN "00"
                 ELSE IF i = Block - 1 THEN lo ELSE hi
    <2>1. Put(buffer, used, bytes)[i] =
              IF i \in (used + 1)..(used + (k + two)) THEN bytes[i - used] ELSE buffer[i]
        BY <1>4 DEF Put
    <2>2. CASE i <= used
        BY <1>1, <2>1, <2>2
    <2>3. CASE i > used
        <3>1. /\ Put(buffer, used, bytes)[i] = bytes[i - used]
              /\ i - used \in 1..(k + two)
            BY <1>1, <2>1, <2>3
        <3>2. CASE i <= Block - 2
            <4>1. i - used \in 1..k
                BY <1>1, <2>3, <3>2
            <4>2. bytes[i - used] = zeros[i - used]
                BY <1>4, <3>1, <4>1
            <4> QED  BY <1>2, <2>3, <3>1, <3>2, <4>1, <4>2
        <3>3. CASE i > Block - 2
            <4>1. bytes[i - used] = length[i - used - k]
                BY <1>1, <1>4, <3>1, <3>3
            <4>2. (i = Block - 1 /\ i - used - k = 1) \/ (i # Block - 1 /\ i - used - k = 2)
                BY <1>1, <3>3
            <4> QED  BY <1>1, <1>3, <2>3, <3>1, <3>3, <4>1, <4>2
        <3> QED  BY <1>1, <3>2, <3>3
    <2> QED  BY <1>1, <2>2, <2>3
<1> QED  BY <1>5 DEF Closing, bytes, zeros, length, k

\* Whatever the length of a text and whatever the stack held, the blocks that
\* are digested are those of the padded text.
LEMMA HashBlocks ==
    ASSUME NEW D, NEW data \in Seq(D), NEW junk
    PROVE  \E S : CutInBlocks(S, HashMd5String(data, junk), Padded(data))
<1> DEFINE n == Len(data)
           q == n \div Block
           r == n % Block
           z == ZerosNeeded(r)
           lo == ToString(8 * (n % LoSize))
           hi == ToString(n \div LoSize)
           X == D \cup {"80", "00", lo, hi}
           p == Padded(data)
           rest == SubSeq(data, q * Block + 1, n)
           blocks == [b \in 1..q |-> SubSeq(data, (b - 1) * Block + 1, b * Block)]
           buffer == Put(junk, 0, rest)
           marked == Put(buffer, r, <<"80">>)
           LastBlock(front, from) == Closing(front, from, lo, hi)
           full == Put(marked, r + 1, Zeros(Block - r - 1))
<1>1. /\ n \in Nat /\ q \in Nat /\ r \in 0..(Block - 1)
      /\ n = Block * q + r /\ (n % LoSize) % Block = r
    BY LenProperties, Remainder
<1>2. HashMd5String(data, junk) =
          IF Block - r - 1 < LengthSize
          THEN blocks \o <<full, LastBlock(full, 0)>>
          ELSE Append(blocks, LastBlock(marked, r + 1))
    BY <1>1 DEF HashMd5String, Md5Final, Md5Update, Md5Init, Closing
<1>3. /\ z \in 0..(Block - 1) /\ p \in Seq(X) /\ Len(p) = n + z + 3
      /\ \A i \in 1..(n + z + 3) :
            p[i] = IF i <= n THEN data[i]
                   ELSE IF i = n + 1 THEN "80"
                   ELSE IF i <= n + 1 + z THEN "00"
                   ELSE IF i = n + z + 2 THEN lo ELSE hi
    BY PaddedProperties
<1> HIDE DEF p
<1>4. Block \in Nat /\ Block > 2
    BY HashAssumption
<1>5. data \in Seq(X) /\ \A i \in 1..n : data[i] \in X
    <2>1. \A i \in 1..n : data[i] \in D
        BY ElementOfSeq
    <2>2. D \subseteq X
        OBVIOUS
    <2> HIDE DEF X, n
    <2> QED  BY <2>1, <2>2, SeqMonotonic
<1>6. {"80", "00", lo, hi} \subseteq X
    OBVIOUS
<1> HIDE DEF n, q, r, lo, hi, X
<1> DEFINE m == Block * q
<1>7. m \in Nat /\ n = m + r /\ q * Block = m /\ r \in Nat /\ r < Block
    BY <1>1, <1>4
<1>8. Len(rest) = r /\ \A i \in 1..r : rest[i] = data[m + i]
    <2>1. /\ Len(SubSeq(data, m + 1, n)) = IF m + 1 <= n THEN n - (m + 1) + 1 ELSE 0
          /\ \A i \in 1..(n - (m + 1) + 1) : SubSeq(data, m + 1, n)[i] = data[m + 1 + i - 1]
        <3> DEFINE first == m + 1
        <3>1. first \in Int /\ n \in Int /\ \A i \in first..n : data[i] \in X
            BY <1>5, <1>7
        <3> HIDE DEF first
        <3>2. /\ Len(SubSeq(data, first, n)) = IF first <= n THEN n - first + 1 ELSE 0
              /\ \A i \in 1..(n - first + 1) : SubSeq(data, first, n)[i] = data[first + i - 1]
            BY <3>1, SubSeqProperties
        <3> QED  BY <3>2 DEF first
    <2> HIDE DEF m
    <2>2. n - (m + 1) + 1 = r /\ (m + 1 <= n <=> r # 0)
        BY <1>7
    <2>3. \A i \in 1..r : m + 1 + i - 1 = m + i
        BY <1>7
    <2> QED  BY <1>7, <2>1, <2>2, <2>3
<1>9. /\ blocks \in Seq(Seq(X)) /\ Len(blocks) = q
      /\ \A b \in 1..q :
            /\ Len(blocks[b]) = Block
            /\ \A i \in 1..Block : blocks[b][i] = data[Block * (b - 1) + i]
    <2>1. ASSUME NEW b \in 1..q
          PROVE  /\ blocks[b] \in Seq(X) /\ Len(blocks[b]) = Block
                 /\ \A i \in 1..Block : blocks[b][i] = data[Block * (b - 1) + i]
        <3> DEFINE k == Block * (b - 1)  first == k + 1  last == k + Block
        <3>1. k \in Nat /\ (b - 1) * Block = k /\ b * Block = last /\ last <= n
            <4>1. b - 1 \in Nat /\ q - b \in Nat /\ q = b + (q - b)
                BY <1>1
            <4>2. k \in Nat /\ Block * (q - b) \in Nat
                BY <1>4, <4>1
            <4>3. Block * q = k + Block + Block * (q - b)
                BY <1>1, <1>4, <4>1
            <4> QED  BY <1>4, <1>7, <4>1, <4>2, <4>3
        <3> HIDE DEF k
        <3>2. first \in Int /\ last \in Int /\ \A i \in first..last : data[i] \in X
            BY <1>4, <1>5, <1>7, <3>1
        <3>3. blocks[b] = SubSeq(data, first, last)
            BY <3>1
        <3>4. /\ SubSeq(data, first, last) \in Seq(X)
              /\ Len(SubSeq(data, first, last)) =
                    IF first <= last THEN last - first + 1 ELSE 0
              /\ \A i \in 1..(last - first + 1) :
                    SubSeq(data, first, last)[i] = data[first + i - 1]
            <4> HIDE DEF first, last
            <4> QED  BY <3>2, SubSeqProperties
        <3>5. first <= last /\ last - first + 1 = Block
              /\ \A i \in 1..Block : first + i - 1 = k + i
            BY <1>4, <3>1
        <3> HIDE DEF first, last
        <3> QED  BY <3>3, <3>4, <3>5 DEF k
    <2>2. blocks \in Seq(Seq(X)) /\ Len(blocks) = q
        <3>1. blocks \in [1..q -> Seq(X)]
            BY <2>1
        <3>2. DOMAIN blocks = 1..q
            OBVIOUS
        <3> HIDE DEF blocks
        <3> QED  BY <1>1, <3>1
    <2> QED  BY <2>1, <2>2
<1> HIDE DEF m, blocks, rest
<1>10. \A i \in 1..Block :
          marked[i] = IF i <= r THEN data[m + i] ELSE IF i = r + 1 THEN "80" ELSE junk[i]
    <2>1. \A i \in 1..Block : buffer[i] = IF i <= r THEN data[m + i] ELSE junk[i]
        BY <1>4, <1>7, <1>8 DEF Put
    <2> HIDE DEF buffer
    <2>2. \A i \in 1..Block : marked[i] = IF i = r + 1 THEN "80" ELSE buffer[i]
        BY <1>4, <1>7 DEF Put
    <2> QED  BY <1>7, <2>1, <2>2
<1> HIDE DEF marked
<1>11. \A i \in 1..(r + z + 3) :
           p[m + i] = IF i <= r THEN data[m + i]
                      ELSE IF i = r + 1 THEN "80"
                      ELSE IF i <= r + 1 + z THEN "00"
                      ELSE IF i = r + z + 2 THEN lo ELSE hi
    <2>1. ASSUME NEW i \in 1..(r + z + 3)
          PROVE  /\ m + i \in 1..(n + z + 3)
                 /\ (m + i <= n <=> i <= r) /\ (m + i = n + 1 <=> i = r + 1)
                 /\ (m + i <= n + 1 + z <=> i <= r + 1 + z)
                 /\ (m + i = n + z + 2 <=> i = r + z + 2)
        <3> HIDE DEF z
        <3> QED  BY <1>3, <1>4, <1>7
    <2> HIDE DEF z
    <2> QED  BY <1>3, <2>1
<1>12. /\ (Block - r - 1 < LengthSize) =>
             r + 2 >= Block /\ r + z + 3 = 2 * Block /\ Len(p) = m + 2 * Block
       /\ ~(Block - r - 1 < LengthSize) =>
             r + 3 <= Block /\ r + z + 3 = Block /\ Len(p) = m + Block
    <2>1. (Block - r - 1 < LengthSize) => z = 2 * Block - r - 3
        BY <1>7 DEF ZerosNeeded
    <2>2. ~(Block - r - 1 < LengthSize) => z = Block - r - 3
        BY <1>7 DEF ZerosNeeded
    <2> HIDE DEF z
    <2> QED  BY <1>3, <1>4, <1>7, <2>1, <2>2 DEF LengthSize
<1>13. z \in Nat
    BY <1>3, <1>4
<1>14. \A b \in 1..q : \A i \in 1..Block : blocks[b][i] = p[Block * (b - 1) + i]
    <2> SUFFICES ASSUME NEW b \in 1..q, NEW i \in 1..Block
                 PROVE  blocks[b][i] = p[Block * (b - 1) + i]
        OBVIOUS
    <2> DEFINE k == Block * (b - 1)
    <2>1. k \in Nat /\ k + Block <= m
        <3>1. b - 1 \in Nat /\ q - b \in Nat /\ q = b + (q - b)
            BY <1>1
        <3>2. k \in Nat /\ Block * (q - b) \in Nat
            BY <1>4, <3>1
        <3>3. Block * q = k + Block + Block * (q - b)
            BY <1>1, <1>4, <3>1
        <3> QED  BY <1>4, <3>2, <3>3 DEF m
    <2>2. k + i \in 1..n /\ k + i \in 1..(n + z + 3)
        <3> HIDE DEF k, z
        <3> QED  BY <1>4, <1>7, <1>13, <2>1
    <2>3. p[k + i] = data[k + i]
        <3> HIDE DEF k, z
        <3> QED  BY <1>3, <2>2
    <2> QED  BY <1>9, <2>3
<1> HIDE DEF z
<1>15. p \in Seq(X) /\ \A i \in 1..Len(p) : p[i] \in X
    BY <1>3, ElementOfSeq
<1>16. CASE Block - r - 1 < LengthSize
    <2> DEFINE final == LastBlock(full, 0)
               two == <<full, final>>
               bs == blocks \o two
    <2>1. r + 2 >= Block /\ r + z + 3 = 2 * Block /\ Len(p) = m + 2 * Block
        BY <1>12, <1>16
    <2>2. \A i \in 1..Block : full[i] = p[m + i]
        <3>1. \A i \in 1..Block : full[i] = IF i <= r + 1 THEN marked[i] ELSE "00"
            BY <1>4, <1>7 DEF Put, Zeros
        <3> HIDE DEF full
        <3> QED  BY <1>4, <1>7, <1>10, <1>11, <1>13, <2>1, <3>1
    <2>3. \A i \in 1..Block : final[i] = p[m + Block + i]
        <3>1. \A i \in 1..Block :
                 final[i] = IF i <= 0 THEN full[i] ELSE IF i <= Block - 2 THEN "00"
                            ELSE IF i = Block - 1 THEN lo ELSE hi
            <4> DEFINE from == 0
            <4>1. from \in 0..(Block - 2)
                BY <1>4
            <4> HIDE DEF full, from
            <4>2. ASSUME NEW f, NEW a, NEW b
                  PROVE  \A i \in 1..Block :
                     Closing(f, from, a, b)[i] =
                        IF i <= from THEN f[i] ELSE IF i <= Block - 2 THEN "00"
                        ELSE IF i = Block - 1 THEN a ELSE b
                BY <4>1, Ending
            <4>3. \A i \in 1..Block :
                     Closing(full, from, lo, hi)[i] =
                        IF i <= from THEN full[i] ELSE IF i <= Block - 2 THEN "00"
                        ELSE IF i = Block - 1 THEN lo ELSE hi
                BY <4>2
            <4> QED  BY <4>3 DEF from
        <3> HIDE DEF final, full
        <3>2. ASSUME NEW i \in 1..Block
              PROVE  /\ Block + i \in 1..(r + z + 3)
                     /\ ~(Block + i <= r) /\ Block + i # r + 1
                     /\ (Block + i <= r + 1 + z <=> i <= Block - 2)
                     /\ (Block + i = r + z + 2 <=> i = Block - 1)
                     /\ ~(i <= 0) /\ m + (Block + i) = m + Block + i
            BY <1>4, <1>7, <1>13, <2>1
        <3>3. ASSUME NEW i \in 1..Block
              PROVE  final[i] = p[m + Block + i]
            <4> DEFINE j == Block + i
            <4>1. p[m + j] = IF j <= r THEN data[m + j]
                             ELSE IF j = r + 1 THEN "80"
                             ELSE IF j <= r + 1 + z THEN "00"
                             ELSE IF j = r + z + 2 THEN lo ELSE hi
                <5>1. j \in 1..(r + z + 3)
                    BY <3>2
                <5> HIDE DEF j
                <5> QED  BY <1>11, <5>1
            <4>2. p[m + j] = IF i <= Block - 2 THEN "00"
                             ELSE IF i = Block - 1 THEN lo ELSE hi
                BY <3>2, <4>1, Zenon
            <4>3. final[i] = IF i <= Block - 2 THEN "00"
                             ELSE IF i = Block - 1 THEN lo ELSE hi
                BY <3>1, <3>2, Zenon
            <4>4. m + j = m + Block + i
                BY <3>2
            <4> QED  BY <4>2, <4>3, <4>4, Zenon
        <3> QED  BY <3>3
    <2>4. full \in Seq(X) /\ Len(full) = Block
        <3>1. \A i \in 1..Block : full[i] \in X
            <4> HIDE DEF full
            <4>1. \A i \in 1..Block : m + i \in 1..Len(p)
                BY <1>4, <1>7, <2>1
            <4> QED  BY <1>15, <2>2, <4>1
        <3> HIDE DEF marked
        <3> QED  BY <3>1, BlockOf DEF Closing
    <2>5. final \in Seq(X) /\ Len(final) = Block
        <3>1. \A i \in 1..Block : final[i] \in X
            <4> HIDE DEF full, final
            <4>1. \A i \in 1..Block : m + Block + i \in 1..Len(p)
                BY <1>4, <1>7, <2>1
            <4> QED  BY <1>15, <2>3, <4>1
        <3> HIDE DEF full
        <3> QED  BY <3>1, BlockOf DEF Closing
    <2> HIDE DEF full, final
    <2>6. two \in Seq(Seq(X)) /\ Len(two) = 2 /\ two[1] = full /\ two[2] = final
        BY <2>4, <2>5
    <2>7. /\ bs \in Seq(Seq(X)) /\ Len(bs) = q + 2
          /\ \A b \in 1..(q + 2) : bs[b] = IF b <= q THEN blocks[b] ELSE two[b - q]
        <3> DEFINE l == Len(two)  E == Seq(X)
        <3>1. /\ bs \in Seq(Seq(X)) /\ Len(bs) = q + l
              /\ \A b \in 1..(q + l) : bs[b] = IF b <= q THEN blocks[b] ELSE two[b - q]
            <4>1. blocks \in Seq(E) /\ two \in Seq(E) /\ Len(blocks) = q
                BY <1>9, <2>6
            <4>2. Len(two) = l
                OBVIOUS
            <4> HIDE DEF l, E, two
            <4>3. /\ bs \in Seq(E) /\ Len(bs) = q + l
                  /\ \A b \in 1..(q + l) : bs[b] = IF b <= q THEN blocks[b] ELSE two[b - q]
                BY <4>1, <4>2, Concatenation
            <4> QED  BY <4>3 DEF E
        <3> QED  BY <2>6, <3>1
    <2> HIDE DEF two, bs
    <2>8. Len(p) = Block * Len(bs)
        BY <1>1, <1>4, <2>1, <2>7 DEF m
    <2>9. ASSUME NEW b \in 1..Len(bs)
          PROVE  /\ Len(bs[b]) = Block
                 /\ \A i \in 1..Block : bs[b][i] = p[Block * (b - 1) + i]
        <3>1. CASE b <= q
            <4>1. b \in 1..q /\ b \in 1..(q + 2)
                BY <1>1, <2>7, <3>1
            <4>2. bs[b] = blocks[b]
                BY <2>7, <3>1, <4>1
            <4> QED  BY <1>9, <1>14, <4>1, <4>2
        <3>2. CASE b = q + 1
            <4>1. bs[b] = full
                <5>1. b \in 1..(q + 2) /\ ~(b <= q) /\ b - q = 1
                    BY <1>1, <2>7, <3>2
                <5> QED  BY <2>6, <2>7, <5>1
            <4>2. Block * (b - 1) = m
                <5>1. b - 1 = q
                    BY <1>1, <3>2
                <5> QED  BY <5>1 DEF m
            <4> QED  BY <2>2, <2>4, <4>1, <4>2
        <3>3. CASE b = q + 2
            <4>1. bs[b] = final
                <5>1. b \in 1..(q + 2) /\ ~(b <= q) /\ b - q = 2
                    BY <1>1, <2>7, <3>3
                <5> QED  BY <2>6, <2>7, <5>1
            <4>2. Block * (b - 1) = m + Block
                <5>1. b - 1 = q + 1
                    BY <1>1, <3>3
                <5>2. Block * (q + 1) = Block * q + Block
                    BY <1>1, <1>4
                <5> QED  BY <5>1, <5>2 DEF m
            <4> QED  BY <2>3, <2>5, <4>1, <4>2
        <3> QED  BY <1>1, <2>7, <3>1, <3>2, <3>3
    <2>10. HashMd5String(data, junk) = bs
        BY <1>2, <1>16 DEF bs, two, final
    <2> QED  BY <1>15, <2>7, <2>8, <2>9, <2>10 DEF CutInBlocks, p
<1>17. CASE ~(Block - r - 1 < LengthSize)
    <2> DEFINE final == LastBlock(marked, r + 1)
               bs == Append(blocks, final)
    <2>1. r + 3 <= Block /\ r + z + 3 = Block /\ Len(p) = m + Block
        BY <1>12, <1>17
    <2>2. \A i \in 1..Block : final[i] = p[m + i]
        <3>1. \A i \in 1..Block :
                 final[i] = IF i <= r + 1 THEN marked[i] ELSE IF i <= Block - 2 THEN "00"
                            ELSE IF i = Block - 1 THEN lo ELSE hi
            <4> DEFINE from == r + 1
            <4>1. from \in 0..(Block - 2)
                BY <1>4, <1>7, <2>1
            <4> HIDE DEF from
            <4>2. ASSUME NEW f, NEW a, NEW b
                  PROVE  \A i \in 1..Block :
                     Closing(f, from, a, b)[i] =
                        IF i <= from THEN f[i] ELSE IF i <= Block - 2 THEN "00"
                        ELSE IF i = Block - 1 THEN a ELSE b
                BY <4>1, Ending
            <4>3. \A i \in 1..Block :
                     Closing(marked, from, lo, hi)[i] =
                        IF i <= from THEN marked[i] ELSE IF i <= Block - 2 THEN "00"
                        ELSE IF i = Block - 1 THEN lo ELSE hi
                BY <4>2
            <4> QED  BY <4>3 DEF from
        <3> HIDE DEF final
        <3>2. ASSUME NEW i \in 1..Block
              PROVE  /\ i \in 1..(r + z + 3) /\ i \in Int
                     /\ (i <= r + 1 + z <=> i <= Block - 2)
                     /\ (i = r + z + 2 <=> i = Block - 1)
            BY <1>4, <1>7, <1>13, <2>1
        <3>3. ASSUME NEW i \in 1..Block
              PROVE  final[i] = p[m + i]
            <4>1. p[m + i] = IF i <= r THEN data[m + i]
                             ELSE IF i = r + 1 THEN "80"
                             ELSE IF i <= r + 1 + z THEN "00"
                             ELSE IF i = r + z + 2 THEN lo ELSE hi
                BY <1>11, <3>2
            <4>2. CASE i <= r + 1
                <5>1. final[i] = marked[i]
                    BY <3>1, <4>2
                <5>2. i <= r \/ (i = r + 1 /\ ~(i <= r))
                    BY <1>7, <4>2
                <5> QED  BY <1>10, <4>1, <5>1, <5>2, Zenon
            <4>3. CASE ~(i <= r + 1)
                <5>1. ~(i <= r) /\ i # r + 1
                    BY <1>7, <4>3
                <5> QED  BY <3>1, <3>2, <4>1, <4>3, <5>1, Zenon
            <4> QED  BY <4>2, <4>3
        <3> QED  BY <3>3
    <2>3. final \in Seq(X) /\ Len(final) = Block
        <3>1. \A i \in 1..Block : final[i] \in X
            <4> HIDE DEF final
            <4>1. \A i \in 1..Block : m + i \in 1..Len(p)
                BY <1>4, <1>7, <2>1
            <4> QED  BY <1>15, <2>2, <4>1
        <3> QED  BY <3>1, BlockOf DEF Closing
    <2> HIDE DEF final
    <2>4. /\ bs \in Seq(Seq(X)) /\ Len(bs) = q + 1
          /\ \A b \in 1..q : bs[b] = blocks[b]
          /\ bs[q + 1] = final
        <3> DEFINE E == Seq(X)
        <3>1. blocks \in Seq(E) /\ final \in E /\ Len(blocks) = q
            BY <1>9, <2>3
        <3> HIDE DEF E
        <3>2. /\ Append(blocks, final) \in Seq(E)
              /\ Len(Append(blocks, final)) = Len(blocks) + 1
              /\ \A b \in 1..Len(blocks) : Append(blocks, final)[b] = blocks[b]
              /\ Append(blocks, final)[Len(blocks) + 1] = final
            BY <3>1, AppendProperties
        <3> QED  BY <3>1, <3>2, Zenon DEF E
    <2> HIDE DEF bs
    <2>5. Len(p) = Block * Len(bs)
        BY <1>1, <1>4, <2>1, <2>4 DEF m
    <2>6. ASSUME NEW b \in 1..Len(bs)
          PROVE  /\ Len(bs[b]) = Block
                 /\ \A i \in 1..Block : bs[b][i] = p[Block * (b - 1) + i]
        <3>1. CASE b <= q
            <4>1. bs[b] = blocks[b] /\ b \in 1..q
                BY <1>1, <2>4, <3>1
            <4> QED  BY <1>9, <1>14, <4>1
        <3>2. CASE b = q + 1
            <4>1. bs[b] = final /\ Block * (b - 1) = m
                BY <1>1, <2>4, <3>2 DEF m
            <4> QED  BY <2>2, <2>3, <4>1
        <3> QED  BY <1>1, <2>4, <3>1, <3>2
    <2>7. HashMd5String(data, junk) = bs
        BY <1>2, <1>17 DEF bs, final
    <2> QED  BY <1>15, <2>4, <2>5, <2>6, <2>7 DEF CutInBlocks, p
<1> QED  BY <1>16, <1>17

LEMMA HashIsPadded ==
    ASSUME NEW D, NEW data \in Seq(D), NEW junk
    PROVE  FlattenSeq(HashMd5String(data, junk)) = Padded(data)
BY HashBlocks, BlocksSpell

\* A text can be cut in one way only.
LEMMA BlocksAreUnique ==
    ASSUME NEW S, NEW T, NEW p, NEW bs, NEW cs,
           CutInBlocks(S, bs, p), CutInBlocks(T, cs, p)
    PROVE  bs = cs
<1> USE DEF CutInBlocks
<1>1. Len(bs) \in Nat /\ Len(cs) \in Nat /\ Block \in Nat \ {0}
    BY LenProperties, HashAssumption
<1>2. Len(bs) = Len(cs)
    <2>1. Splits(Len(p), Block, Len(bs), 0) /\ Splits(Len(p), Block, Len(cs), 0)
        <3> DEFINE k == Len(bs)  l == Len(cs)
        <3>1. k \in Nat /\ l \in Nat /\ Len(p) = Block * k /\ Len(p) = Block * l
            BY <1>1
        <3> HIDE DEF k, l, CutInBlocks
        <3>2. 0 \in 0..(Block - 1) /\ Block * k = Block * k + 0 /\ Block * l = Block * l + 0
            BY <1>1, <3>1
        <3>3. Splits(Len(p), Block, k, 0) /\ Splits(Len(p), Block, l, 0)
            BY <3>1, <3>2 DEF Splits
        <3> QED  BY <3>3 DEF k, l
    <2> QED  BY <1>1, <2>1, DivUnique
<1>3. ASSUME NEW b \in 1..Len(bs)
      PROVE  bs[b] = cs[b]
    <2> DEFINE X == S \cup T  u == bs[b]  v == cs[b]
    <2>1. u \in Seq(S) /\ v \in Seq(T)
        BY <1>2, ElementOfSeq
    <2>2. u \in Seq(X) /\ v \in Seq(X)
        <3>1. S \subseteq X /\ T \subseteq X
            OBVIOUS
        <3> HIDE DEF X, u, v
        <3> QED  BY <2>1, <3>1, SeqMonotonic
    <2>3. Len(u) = Len(v) /\ \A i \in 1..Len(u) : u[i] = v[i]
        BY <1>2
    <2> HIDE DEF u, v, X
    <2>4. u = v
        BY <2>2, <2>3, SeqEqual
    <2> QED  BY <2>4 DEF u, v
<1>4. bs = cs
    <2> DEFINE X == Seq(S) \cup Seq(T)
    <2>1. bs \in Seq(X) /\ cs \in Seq(X)
        <3>1. Seq(S) \subseteq X /\ Seq(T) \subseteq X
            OBVIOUS
        <3>2. bs \in Seq(Seq(S)) /\ cs \in Seq(Seq(T))
            OBVIOUS
        <3> HIDE DEF X, CutInBlocks
        <3> QED  BY <3>1, <3>2, SeqMonotonic
    <2> HIDE DEF X, CutInBlocks
    <2> QED  BY <1>2, <1>3, <2>1, SeqEqual
<1> QED  BY <1>4

\* What the stack held does not show.
LEMMA HashIsOfText ==
    ASSUME NEW D, NEW data \in Seq(D), NEW junk, NEW other
    PROVE  HashMd5String(data, junk) = HashMd5String(data, other)
<1>1. PICK S : CutInBlocks(S, HashMd5String(data, junk), Padded(data))
    BY HashBlocks
<1>2. PICK T : CutInBlocks(T, HashMd5String(data, other), Padded(data))
    BY HashBlocks
<1> QED  BY <1>1, <1>2, BlocksAreUnique

\* The mark is the last byte before the length that is not a zero.
LEMMA MarkIsLast ==
    ASSUME NEW D, NEW a \in Seq(D), NEW b \in Seq(D), Padded(a) = Padded(b)
    PROVE  ~(Len(a) < Len(b))
<1> DEFINE m == Len(a)  n == Len(b)
           y == ZerosNeeded(m % Block)  z == ZerosNeeded(n % Block)
           p == Padded(a)
<1>1. /\ m \in Nat /\ y \in 0..(Block - 1) /\ Len(p) = m + y + 3
      /\ \A i \in 1..(m + y + 3) : i > m + 1 /\ i <= m + 1 + y => p[i] = "00"
    <2>1. /\ m \in Nat /\ y \in 0..(Block - 1) /\ Len(p) = m + y + 3
          /\ \A i \in 1..(m + y + 3) :
                p[i] = IF i <= m THEN a[i] ELSE IF i = m + 1 THEN "80"
                       ELSE IF i <= m + 1 + y THEN "00"
                       ELSE IF i = m + y + 2 THEN ToString(8 * (m % LoSize))
                       ELSE ToString(m \div LoSize)
        BY PaddedProperties
    <2> HIDE DEF m, y, p
    <2> QED  BY <2>1
<1>2. /\ n \in Nat /\ z \in 0..(Block - 1) /\ Len(p) = n + z + 3
      /\ \A i \in 1..(n + z + 3) : i = n + 1 => p[i] = "80"
    <2> DEFINE q == Padded(b)
    <2>1. /\ n \in Nat /\ z \in 0..(Block - 1) /\ Len(q) = n + z + 3
          /\ \A i \in 1..(n + z + 3) :
                q[i] = IF i <= n THEN b[i] ELSE IF i = n + 1 THEN "80"
                       ELSE IF i <= n + 1 + z THEN "00"
                       ELSE IF i = n + z + 2 THEN ToString(8 * (n % LoSize))
                       ELSE ToString(n \div LoSize)
        BY PaddedProperties
    <2>2. q = p
        OBVIOUS
    <2> HIDE DEF n, z, p, q
    <2> QED  BY <2>1, <2>2
<1>3. Block \in Nat
    BY HashAssumption
<1> HIDE DEF m, n, y, z, p
<1>4. ASSUME m < n
      PROVE  FALSE
    <2>1. /\ n + 1 \in 1..(m + y + 3) /\ n + 1 > m + 1 /\ n + 1 <= m + 1 + y
          /\ n + 1 \in 1..(n + z + 3)
        BY <1>1, <1>2, <1>3, <1>4
    <2>2. p[n + 1] = "00" /\ p[n + 1] = "80"
        BY <1>1, <1>2, <2>1
    <2> QED  BY <2>2
<1> QED  BY <1>4 DEF m, n

\* Padding loses nothing: two texts with the same padded text are the same.
LEMMA PaddedTellsText ==
    ASSUME NEW D, NEW a \in Seq(D), NEW b \in Seq(D), Padded(a) = Padded(b)
    PROVE  a = b
<1> DEFINE n == Len(a)
<1>1. n \in Nat /\ Len(b) = n
    <2>1. ~(Len(a) < Len(b)) /\ ~(Len(b) < Len(a))
        BY MarkIsLast
    <2> QED  BY <2>1, LenProperties
<1>2. ASSUME NEW d \in Seq(D), Len(d) = n
      PROVE  \A i \in 1..n : Padded(d)[i] = d[i]
    <2> DEFINE z == ZerosNeeded(n % Block)  p == Padded(d)
    <2>1. /\ z \in 0..(Block - 1)
          /\ \A i \in 1..(n + z + 3) :
                p[i] = IF i <= n THEN d[i] ELSE IF i = n + 1 THEN "80"
                       ELSE IF i <= n + 1 + z THEN "00"
                       ELSE IF i = n + z + 2 THEN ToString(8 * (n % LoSize))
                       ELSE ToString(n \div LoSize)
        <3> HIDE DEF n
        <3>1. n = Len(d)
            BY <1>2
        <3> QED  BY <3>1, PaddedProperties
    <2> HIDE DEF n, z, p
    <2>2. Block \in Nat /\ z \in Nat
        BY <2>1, HashAssumption
    <2>3. \A i \in 1..n : i \in 1..(n + z + 3) /\ i <= n
        BY <1>1, <2>2
    <2>4. \A i \in 1..n : p[i] = d[i]
        BY <2>1, <2>3
    <2> QED  BY <2>4 DEF p
<1>3. \A i \in 1..n : a[i] = b[i]
    <2>1. \A i \in 1..n : Padded(a)[i] = a[i]
        BY <1>2
    <2>2. \A i \in 1..n : Padded(b)[i] = b[i]
        BY <1>1, <1>2
    <2> QED  BY <2>1, <2>2
<1> QED  BY <1>1, <1>3, SeqEqual

\* Files of the same name are of the same text.
LEMMA HashTellsText ==
    ASSUME NEW D, NEW a \in Seq(D), NEW b \in Seq(D), NEW junk, NEW other,
           HashMd5String(a, junk) = HashMd5String(b, other)
    PROVE  a = b
<1>1. Padded(a) = Padded(b)
    <2>1. FlattenSeq(HashMd5String(a, junk)) = Padded(a)
        BY HashIsPadded
    <2>2. FlattenSeq(HashMd5String(b, other)) = Padded(b)
        BY HashIsPadded
    <2> QED  BY <2>1, <2>2
<1> QED  BY <1>1, PaddedTellsText

-----------------------------------------------------------------------------
(***************************************************************************)
(* Keys.                                                                   *)
(***************************************************************************)

\* One step of normalize_string_for_cache ...
Added(out, c, size) ==
    IF Len(out) + 1 >= size THEN out
    ELSE IF c \notin Separators THEN Append(out, Lower(c))
    ELSE IF out = <<>> \/ out[Len(out)] = "_" THEN out
    ELSE Append(out, "_")

\* ... and the end of it.
Stripped(s) == IF s # <<>> /\ s[Len(s)] = "_" THEN Front(s) ELSE s

\* What it makes of items of S.
Letters(S) == {Lower(c) : c \in S} \cup {"_"}

LEMMA AddedType ==
    ASSUME NEW S, NEW out \in Seq(Letters(S)), NEW c \in S, NEW size
    PROVE  Added(out, c, size) \in Seq(Letters(S))
<1>1. Lower(c) \in Letters(S) /\ "_" \in Letters(S)
    BY DEF Letters
<1> HIDE DEF Letters
<1>2. Append(out, Lower(c)) \in Seq(Letters(S)) /\ Append(out, "_") \in Seq(Letters(S))
    BY <1>1, AppendProperties
<1> QED  BY <1>2 DEF Added

\* The buffer after each item of a text.
NormalizeRun(S, in, size, out) ==
    /\ out \in [0..Len(in) -> Seq(Letters(S))]
    /\ out[0] = <<>>
    /\ \A i \in 1..Len(in) : out[i] = Added(out[i - 1], in[i], size)
    /\ Normalize(in, size) = Stripped(out[Len(in)])

LEMMA Normalizing ==
    ASSUME NEW S, NEW in \in Seq(S), NEW size
    PROVE  \E out : NormalizeRun(S, in, size, out)
<1> DEFINE n == Len(in)  X == Seq(Letters(S))
           Def(f) == [i \in 0..n |-> IF i = 0 THEN <<>> ELSE Added(f[i - 1], in[i], size)]
           out == CHOOSE f : f = Def(f)
<1>1. n \in Nat /\ \A i \in 1..n : in[i] \in S
    BY LenProperties, ElementOfSeq
<1>2. \E f : f = Def(f)
    <2> DEFINE step == [i \in 1..n |-> [s \in X |-> Added(s, in[i], size)]]
               e == <<>>
    <2>1. e \in X
        BY EmptySeq
    <2>2. IsStep(step, n, X)
        BY <1>1, AddedType DEF IsStep
    <2>3. \A i \in 1..n : \A s \in X : step[i][s] = Added(s, in[i], size)
        OBVIOUS
    <2> HIDE DEF e, X, step, n
    <2>4. PICK f : Iterates(f, n, X, e, step)
        BY <1>1, <2>1, <2>2, Iteration
    <2>5. f \in [0..n -> X] /\ f[0] = e /\ \A i \in 1..n : f[i] = step[i][f[i - 1]]
        BY <2>4 DEF Iterates
    <2>6. ASSUME NEW i \in 0..n
          PROVE  f[i] = IF i = 0 THEN <<>> ELSE Added(f[i - 1], in[i], size)
        <3>1. CASE i = 0
            BY <2>5, <3>1 DEF e
        <3>2. CASE i # 0
            <4>1. i \in 1..n /\ i - 1 \in 0..n
                BY <1>1, <3>2
            <4>2. f[i - 1] \in X
                BY <2>5, <4>1
            <4> QED  BY <2>3, <2>5, <3>2, <4>1, <4>2
        <3> QED  BY <3>1, <3>2
    <2>7. f = Def(f)
        <3>1. f = [i \in 0..n |-> f[i]]
            BY <2>5
        <3> QED  BY <2>6, <3>1
    <2> QED  BY <2>7
<1>3. out = Def(out)
    <2> HIDE DEF Def
    <2> QED  BY <1>2
<1>4. Normalize(in, size) = Stripped(out[n])
    BY DEF Normalize, Stripped, Added
<1> HIDE DEF out
<1>5. /\ out = [i \in 0..n |-> out[i]]
      /\ out[0] = <<>>
      /\ \A i \in 1..n : out[i] = Added(out[i - 1], in[i], size)
    <2>1. out = [i \in 0..n |-> out[i]]
        BY <1>3
    <2>2. \A i \in 0..n : out[i] = IF i = 0 THEN <<>> ELSE Added(out[i - 1], in[i], size)
        BY <1>3
    <2>3. 0 \in 0..n /\ \A i \in 1..n : i \in 0..n /\ i # 0
        BY <1>1
    <2> HIDE DEF n
    <2> QED  BY <2>1, <2>2, <2>3
<1> DEFINE T == {i \in 0..n : out[i] \in X}
<1>6. 0 \in T
    BY <1>1, <1>5, EmptySeq
<1>7. ASSUME NEW i \in 1..n, i - 1 \in T
      PROVE  i \in T
    <2>1. out[i - 1] \in X /\ in[i] \in S
        BY <1>1, <1>7
    <2>2. out[i] \in X
        BY <1>5, <2>1, AddedType
    <2> QED  BY <2>2
<1>8. \A i \in 0..n : i \in T
    <2> HIDE DEF T, n
    <2> QED  BY <1>1, <1>6, <1>7, Reaches
<1>9. out \in [0..n -> X]
    <2>1. \A i \in 0..n : out[i] \in X
        BY <1>8
    <2> HIDE DEF X, n
    <2> QED  BY <1>5, <2>1
<1> QED  BY <1>4, <1>5, <1>9 DEF NormalizeRun

LEMMA StrippedProperties ==
    ASSUME NEW S, NEW s \in Seq(S)
    PROVE  /\ Stripped(s) \in Seq(S)
           /\ Stripped(s) = s \/ (Len(s) > 0 /\ s[Len(s)] = "_")
           /\ \/ Len(Stripped(s)) = Len(s)
              \/ Len(s) > 0 /\ s[Len(s)] = "_" /\ Len(Stripped(s)) = Len(s) - 1
           /\ \A i \in 1..Len(Stripped(s)) : Stripped(s)[i] = s[i]
<1>1. Len(s) \in Nat /\ (s # <<>> => Len(s) > 0)
    BY LenProperties, EmptySeq
<1>2. CASE s # <<>> /\ s[Len(s)] = "_"
    <2> DEFINE n == Len(s)  m == n - 1  f == SubSeq(s, 1, m)
    <2>1. Stripped(s) = f
        BY <1>2 DEF Stripped, Front
    <2>2. n \in Nat /\ n > 0 /\ m \in Nat /\ \A i \in 1..m : s[i] \in S
        <3>1. \A i \in 1..n : s[i] \in S
            BY ElementOfSeq
        <3>2. n \in Nat /\ n > 0
            BY <1>1, <1>2
        <3> HIDE DEF n
        <3> QED  BY <3>1, <3>2
    <2> HIDE DEF m
    <2>3. /\ f \in Seq(S) /\ Len(f) = m
          /\ \A i \in 1..m : f[i] = s[i]
        <3>1. /\ f \in Seq(S) /\ Len(f) = IF 1 <= m THEN m - 1 + 1 ELSE 0
              /\ \A i \in 1..(m - 1 + 1) : f[i] = s[1 + i - 1]
            BY <2>2, SubSeqProperties
        <3> HIDE DEF f
        <3>2. m - 1 + 1 = m /\ (~(1 <= m) => m = 0)
            BY <2>2
        <3>3. \A i \in 1..m : 1 + i - 1 = i
            BY <2>2
        <3> QED  BY <3>1, <3>2, <3>3
    <2> HIDE DEF f
    <2> QED  BY <1>2, <2>1, <2>2, <2>3 DEF m
<1>3. CASE ~(s # <<>> /\ s[Len(s)] = "_")
    <2>1. Stripped(s) = s
        BY <1>3 DEF Stripped
    <2> QED  BY <2>1
<1> QED  BY <1>2, <1>3

LEMMA NormalizeType ==
    ASSUME NEW S, NEW in \in Seq(S), NEW size
    PROVE  Normalize(in, size) \in Seq(Letters(S))
<1>1. PICK out : NormalizeRun(S, in, size, out)
    BY Normalizing
<1>2. Len(in) \in 0..Len(in)
    BY LenProperties
<1>3. out[Len(in)] \in Seq(Letters(S)) /\ Normalize(in, size) = Stripped(out[Len(in)])
    BY <1>1, <1>2 DEF NormalizeRun
<1> QED  BY <1>3, StrippedProperties

\* The items of the arguments of all requests ...
Items ==
    UNION {UNION {{r.args[i][j] : j \in 1..Len(r.args[i])} : i \in DOMAIN r.args} :
              r \in Requests}

\* ... and those of keys.
KeyItems ==
    Letters(Items) \cup {"weather", "cities", "homepage", ":",
                         "city=", "country=", "region=", "query="}

LEMMA ArgumentType ==
    ASSUME NEW r \in Requests, NEW i \in DOMAIN r.args, r.args[i] # NULL
    PROVE  r.args[i] \in Seq(Items)
<1> DEFINE t == r.args[i]  S == {t[j] : j \in 1..Len(t)}
<1>1. t \in Seq(S)
    BY RequestAssumption DEF IsText
<1>2. S \subseteq Items
    BY DEF Items
<1> HIDE DEF t, S
<1> QED  BY <1>1, <1>2, SeqMonotonic DEF t

LEMMA PartType ==
    ASSUME NEW r \in Requests, NEW i \in DOMAIN r.args
    PROVE  Part(r.args[i]) \in Seq(KeyItems)
<1> DEFINE p == Part(r.args[i])  L == Letters(Items)
<1>1. p \in Seq(L)
    <2>1. CASE r.args[i] = NULL
        BY <2>1, EmptySeq DEF Part
    <2>2. CASE r.args[i] # NULL
        BY <2>2, ArgumentType, NormalizeType DEF Part
    <2> QED  BY <2>1, <2>2
<1>2. L \subseteq KeyItems
    BY DEF KeyItems
<1> HIDE DEF p, L
<1> QED  BY <1>1, <1>2, SeqMonotonic DEF p

\* A request has one of three methods and its arguments.
LEMMA Methods ==
    ASSUME NEW r \in Requests
    PROVE  \/ r.method = "weather" /\ DOMAIN r.args = 1..3
           \/ r.method = "cities" /\ DOMAIN r.args = 1..1
           \/ r.method = "homepage" /\ DOMAIN r.args = 1..0
<1>1. r.method \in DOMAIN Arity /\ DOMAIN r.args = 1..Arity[r.method]
    BY RequestAssumption
<1>2. DOMAIN Arity = {"weather", "cities", "homepage"}
      /\ Arity["weather"] = 3 /\ Arity["cities"] = 1 /\ Arity["homepage"] = 0
    BY DEF Arity
<1> QED  BY <1>1, <1>2

LEMMA KeyType ==
    ASSUME NEW r \in Requests
    PROVE  Key(r) \in Seq(KeyItems)
<1> DEFINE Labels == {"weather", "cities", "homepage", ":",
                      "city=", "country=", "region=", "query="}
<1>1. Labels \subseteq KeyItems
    BY DEF KeyItems
<1>2. CASE r.method = "weather"
    <2> DEFINE head == <<"weather", ":", "city=">>
               country == <<":", "country=">>  region == <<":", "region=">>
               a == Part(r.args[1])  b == Part(r.args[2])  c == Part(r.args[3])
    <2>1. head \in Seq(KeyItems) /\ country \in Seq(KeyItems) /\ region \in Seq(KeyItems)
        BY <1>1
    <2>2. a \in Seq(KeyItems) /\ b \in Seq(KeyItems) /\ c \in Seq(KeyItems)
        <3>1. 1 \in DOMAIN r.args /\ 2 \in DOMAIN r.args /\ 3 \in DOMAIN r.args
            BY <1>2, Methods
        <3> QED  BY <3>1, PartType
    <2>3. Key(r) = head \o a \o country \o b \o region \o c
        BY <1>2 DEF Key
    <2> HIDE DEF head, country, region, a, b, c
    <2>4. head \o a \in Seq(KeyItems)
        BY <2>1, <2>2, ConcatProperties
    <2>5. head \o a \o country \in Seq(KeyItems)
        BY <2>1, <2>4, ConcatProperties
    <2>6. head \o a \o country \o b \in Seq(KeyItems)
        BY <2>2, <2>5, ConcatProperties
    <2>7. head \o a \o country \o b \o region \in Seq(KeyItems)
        BY <2>1, <2>6, ConcatProperties
    <2> QED  BY <2>2, <2>3, <2>7, ConcatProperties
<1>3. CASE r.method = "cities"
    <2> DEFINE head == <<"cities", ":", "query=">>  a == Part(r.args[1])
    <2>1. head \in Seq(KeyItems)
        BY <1>1
    <2>2. a \in Seq(KeyItems)
        <3>1. 1 \in DOMAIN r.args
            BY <1>3, Methods
        <3> QED  BY <3>1, PartType
    <2>3. Key(r) = head \o a
        BY <1>3 DEF Key
    <2> HIDE DEF head, a
    <2> QED  BY <2>1, <2>2, <2>3, ConcatProperties
<1>4. CASE r.method = "homepage"
    <2>1. Key(r) = <<"homepage", ":">>
        BY <1>4 DEF Key
    <2> QED  BY <1>1, <2>1
<1> QED  BY <1>2, <1>3, <1>4, Methods

-----------------------------------------------------------------------------
(***************************************************************************)
(* The words of a text, and what is made of them.                          *)
(***************************************************************************)

\* Counting the elements of a set along the numbers.
LEMMA Counting ==
    ASSUME NEW n \in Nat, NEW K, K \subseteq 1..n
    PROVE  /\ \A i \in 0..n : Count(K, i) \in Nat
           /\ Count(K, 0) = 0
           /\ \A i \in 1..n :
                 Count(K, i) = IF i \in K THEN Count(K, i - 1) + 1 ELSE Count(K, i - 1)
           /\ Count(K, n) = Cardinality(K)
<1> DEFINE Upto(i) == {j \in K : j <= i}
<1>0. \A x \in K : x \in Int /\ 1 <= x /\ x <= n
    OBVIOUS
<1>1. IsFiniteSet(1..n)
    BY FS_Interval
<1>2. ASSUME NEW i \in 0..n
      PROVE  IsFiniteSet(Upto(i)) /\ Cardinality(Upto(i)) \in Nat
    <2>1. Upto(i) \subseteq 1..n
        OBVIOUS
    <2> HIDE DEF Upto
    <2>2. IsFiniteSet(Upto(i))
        BY <1>1, <2>1, FS_Subset
    <2> QED  BY <2>2, FS_CardinalityType
<1>3. Count(K, 0) = 0
    <2>1. \A x \in K : ~(x <= 0)
        BY <1>0
    <2>2. Upto(0) = {}
        BY <2>1, Zenon
    <2> QED  BY <2>2, FS_EmptySet DEF Count
<1>4. ASSUME NEW i \in 1..n
      PROVE  Count(K, i) = IF i \in K THEN Count(K, i - 1) + 1 ELSE Count(K, i - 1)
    <2>1. i - 1 \in 0..n
        OBVIOUS
    <2>2. CASE i \in K
        <3>0. \A x \in K : (x <= i <=> x <= i - 1 \/ x = i) /\ ~(i <= i - 1)
            BY <1>0
        <3>1. Upto(i) = Upto(i - 1) \cup {i} /\ i \notin Upto(i - 1)
            BY <2>2, <3>0, Zenon
        <3> HIDE DEF Upto
        <3>2. IsFiniteSet(Upto(i - 1))
            BY <1>2, <2>1
        <3>3. Cardinality(Upto(i - 1) \cup {i}) = Cardinality(Upto(i - 1)) + 1
            BY <3>1, <3>2, FS_AddElement
        <3> QED  BY <2>2, <3>1, <3>3 DEF Count, Upto
    <2>3. CASE i \notin K
        <3>0. \A x \in K : x <= i <=> x <= i - 1
            BY <1>0, <2>3
        <3>1. Upto(i) = Upto(i - 1)
            BY <3>0, Zenon
        <3> QED  BY <2>3, <3>1 DEF Count
    <2> QED  BY <2>2, <2>3
<1>5. Upto(n) = K
    BY <1>0
<1> QED  BY <1>2, <1>3, <1>4, <1>5 DEF Count

\* Up to a later number there are as many or more, up to a later element more.
LEMMA CountGrows ==
    ASSUME NEW n \in Nat, NEW K, K \subseteq 1..n, NEW i \in 0..n, NEW j \in 0..n, i < j
    PROVE  /\ Count(K, i) <= Count(K, j)
           /\ j \in K => Count(K, i) < Count(K, j)
<1> DEFINE T == {x \in 0..n : x >= i => Count(K, i) <= Count(K, x)}
<1>1. /\ \A x \in 0..n : Count(K, x) \in Nat
      /\ Count(K, 0) = 0
      /\ \A x \in 1..n :
            Count(K, x) = IF x \in K THEN Count(K, x - 1) + 1 ELSE Count(K, x - 1)
      /\ Count(K, n) = Cardinality(K)
    BY Counting
<1>2. 0 \in T
    BY <1>1
<1>3. ASSUME NEW x \in 1..n, x - 1 \in T
      PROVE  x \in T
    <2>1. x - 1 \in 0..n /\ x \in 0..n
        OBVIOUS
    <2>2. CASE x <= i
        BY <1>1, <2>1, <2>2
    <2>3. CASE x > i
        <3>1. Count(K, i) <= Count(K, x - 1)
            BY <1>3, <2>3
        <3>2. Count(K, x - 1) <= Count(K, x)
            BY <1>1, <2>1
        <3>3. Count(K, i) <= Count(K, x)
            BY <1>1, <2>1, <3>1, <3>2
        <3> QED  BY <3>3
    <2> QED  BY <2>2, <2>3
<1>4. \A x \in 0..n : x \in T
    <2> HIDE DEF T
    <2> QED  BY <1>2, <1>3, Reaches
<1>5. j - 1 \in 0..n /\ j - 1 >= i /\ j \in 1..n
    OBVIOUS
<1>6. Count(K, i) <= Count(K, j - 1) /\ Count(K, i) <= Count(K, j)
    BY <1>4, <1>5
<1> QED  BY <1>1, <1>5, <1>6

\* Every number up to that of the elements is that of one of them, and of no
\* other.
LEMMA CountReaches ==
    ASSUME NEW n \in Nat, NEW K, K \subseteq 1..n, NEW k \in 1..Cardinality(K)
    PROVE  \E j \in K : Count(K, j) = k /\ \A i \in K : Count(K, i) = k => i = j
<1>1. /\ \A x \in 0..n : Count(K, x) \in Nat
      /\ Count(K, 0) = 0
      /\ \A x \in 1..n :
            Count(K, x) = IF x \in K THEN Count(K, x - 1) + 1 ELSE Count(K, x - 1)
      /\ Count(K, n) = Cardinality(K)
    BY Counting
<1> DEFINE T == {x \in 0..n : Count(K, x) >= k}
<1>2. n \in T
    BY <1>1
<1>3. PICK j \in T : \A y \in T : j <= y
    <2>1. T \subseteq Nat /\ T # {}
        BY <1>2
    <2> HIDE DEF T
    <2> QED  BY <2>1, LeastNumber
<1>4. j \in 1..n /\ j - 1 \in 0..n /\ ~(j <= j - 1)
    BY <1>1, <1>3
<1>5. Count(K, j - 1) < k
    <2>1. j - 1 \notin T
        BY <1>3, <1>4
    <2> QED  BY <1>1, <1>4, <2>1
<1>6. j \in K /\ Count(K, j) = k
    BY <1>1, <1>3, <1>4, <1>5
<1>7. ASSUME NEW i \in K, Count(K, i) = k
      PROVE  i = j
    <2>1. i \in 0..n /\ i \in Int /\ j \in Int /\ j \in 0..n
        BY <1>4
    <2>2. ~(i < j)
        <3>1. i < j => Count(K, i) < Count(K, j)
            BY <1>6, <2>1, CountGrows
        <3> QED  BY <1>1, <1>6, <1>7, <2>1, <3>1
    <2>3. ~(j < i)
        <3>1. j < i => Count(K, j) < Count(K, i)
            BY <2>1, CountGrows
        <3> QED  BY <1>1, <1>6, <1>7, <2>1, <3>1
    <2> QED  BY <2>1, <2>2, <2>3
<1> QED  BY <1>6, <1>7

\* A letter was met by i ...
Seen(t, i) == \E j \in 1..i : Letter(t, j)

\* ... and i is a separator behind it that another one follows, or the end.
Pending(t, i) == i \in DOMAIN t /\ ~Letter(t, i) /\ Seen(t, i) /\ i \notin Kept(t)

\* The items that are out after i when there is room for all of them ...
Sofar(t, i) == Count(Kept(t), i) + (IF Pending(t, i) THEN 1 ELSE 0)

\* ... and what they are.
Item(t, k) == IF k <= Len(Words(t)) THEN Words(t)[k] ELSE "_"

LEMMA WordsProperties ==
    ASSUME NEW S, NEW t \in Seq(S)
    PROVE  /\ Kept(t) \subseteq 1..Len(t) /\ DOMAIN t = 1..Len(t) /\ Len(t) \in Nat
           /\ Words(t) \in Seq(Letters(S))
           /\ Len(Words(t)) \in Nat /\ Len(Words(t)) = Count(Kept(t), Len(t))
           /\ \A j \in Kept(t) :
                 /\ Count(Kept(t), j) \in 1..Len(Words(t))
                 /\ Words(t)[Count(Kept(t), j)] =
                       IF Letter(t, j) THEN Lower(t[j]) ELSE "_"
<1> DEFINE n == Len(t)  K == Kept(t)  c == Cardinality(K)
           At(k) == CHOOSE i \in K : Count(K, i) = k
           Elem(i) == IF Letter(t, i) THEN Lower(t[i]) ELSE "_"
           w == [k \in 1..c |-> Elem(At(k))]
<1>1. n \in Nat /\ DOMAIN t = 1..n /\ K \subseteq 1..n
    BY LenProperties DEF Kept
<1>2. Words(t) = w
    BY DEF Words
<1> HIDE DEF K, n
<1>3. /\ \A x \in 0..n : Count(K, x) \in Nat
      /\ Count(K, 0) = 0
      /\ \A x \in 1..n :
            Count(K, x) = IF x \in K THEN Count(K, x - 1) + 1 ELSE Count(K, x - 1)
      /\ Count(K, n) = c
    BY <1>1, Counting
<1>4. c \in Nat
    BY <1>1, <1>3
<1> HIDE DEF c
<1>5. ASSUME NEW k \in 1..c
      PROVE  At(k) \in K /\ Count(K, At(k)) = k /\ \A i \in K : Count(K, i) = k => i = At(k)
    <2>1. PICK j \in K : Count(K, j) = k /\ \A i \in K : Count(K, i) = k => i = j
        BY <1>1, CountReaches DEF c
    <2>2. At(k) = j
        BY <2>1
    <2> HIDE DEF At
    <2> QED  BY <2>1, <2>2
<1>6. ASSUME NEW j \in K
      PROVE  Elem(j) \in Letters(S)
    <2>1. t[j] \in S
        BY <1>1, ElementOfSeq DEF n
    <2> QED  BY <2>1 DEF Letters
<1>7. w \in Seq(Letters(S)) /\ Len(w) = c
    <2> HIDE DEF At, Elem
    <2>1. \A k \in 1..c : Elem(At(k)) \in Letters(S)
        BY <1>5, <1>6
    <2> QED  BY <1>4, <2>1
<1>8. ASSUME NEW j \in K
      PROVE  Count(K, j) \in 1..c /\ w[Count(K, j)] = Elem(j)
    <2>1. j \in 1..n /\ j \in 0..n /\ j - 1 \in 0..n /\ n \in 0..n
        BY <1>1
    <2>2. Count(K, j) \in Nat /\ Count(K, j) >= 1
        BY <1>3, <2>1
    <2>3. Count(K, j) <= c
        <3>1. j < n => Count(K, j) <= Count(K, n)
            BY <1>1, <2>1, CountGrows
        <3>2. j < n \/ j = n
            BY <1>1, <2>1
        <3> QED  BY <1>3, <1>4, <2>2, <3>1, <3>2
    <2>4. Count(K, j) \in 1..c
        BY <1>4, <2>2, <2>3
    <2>5. j = At(Count(K, j))
        <3> HIDE DEF At
        <3> QED  BY <1>5, <2>4
    <2> HIDE DEF At, Elem
    <2> QED  BY <2>4, <2>5
<1> QED  BY <1>1, <1>2, <1>3, <1>4, <1>7, <1>8 DEF n, K

\* How the items that are out grow along a text.
LEMMA SofarSteps ==
    ASSUME NEW S, NEW t \in Seq(S)
    PROVE  /\ Sofar(t, 0) = 0
           /\ \A i \in 0..Len(t) : Sofar(t, i) \in Nat
           /\ \A i \in 1..Len(t) :
                 /\ Letter(t, i) =>
                       /\ Sofar(t, i) = Sofar(t, i - 1) + 1
                       /\ Item(t, Sofar(t, i)) = Lower(t[i])
                 /\ ~Letter(t, i) /\ Letter(t, i - 1) =>
                       /\ Sofar(t, i) = Sofar(t, i - 1) + 1
                       /\ Item(t, Sofar(t, i)) = "_"
                 /\ ~Letter(t, i) /\ ~Letter(t, i - 1) =>
                       Sofar(t, i) = Sofar(t, i - 1)
<1> DEFINE n == Len(t)  K == Kept(t)  w == Words(t)  P(i) == Pending(t, i)
<1>1. /\ K \subseteq 1..n /\ DOMAIN t = 1..n /\ n \in Nat
      /\ Len(w) \in Nat /\ Len(w) = Count(K, n)
      /\ \A j \in K : /\ Count(K, j) \in 1..Len(w)
                      /\ w[Count(K, j)] = IF Letter(t, j) THEN Lower(t[j]) ELSE "_"
    BY WordsProperties
<1>2. n \in Nat /\ K \subseteq 1..n /\ DOMAIN t = 1..n
    BY <1>1
<1>3. /\ \A i \in 1..n : Letter(t, i) => i \in K
      /\ \A i \in 1..n :
            ~Letter(t, i) => (i \in K <=> Letter(t, i + 1) /\ Seen(t, i))
    BY <1>1 DEF Kept, Seen
<1>4. ~Letter(t, 0) /\ 0 \notin DOMAIN t
    <2>1. 0 \notin 1..n
        BY <1>2
    <2> QED  BY <1>2, <2>1, Zenon DEF Letter
<1>5. /\ \A i \in 0..n : Sofar(t, i) = Count(K, i) + (IF P(i) THEN 1 ELSE 0)
      /\ \A i \in 1..n : P(i) <=> ~Letter(t, i) /\ Seen(t, i) /\ i \notin K
      /\ ~P(0)
    BY <1>1, <1>4 DEF Sofar, Pending
<1>6. \A i \in 1..n : Seen(t, i) <=> Seen(t, i - 1) \/ Letter(t, i)
    <2> SUFFICES ASSUME NEW i \in 1..n
                 PROVE  Seen(t, i) <=> Seen(t, i - 1) \/ Letter(t, i)
        OBVIOUS
    <2>1. 1..i = (1..(i - 1)) \cup {i}
        OBVIOUS
    <2> QED  BY <2>1, Zenon DEF Seen
<1> HIDE DEF n, K, w, P
<1>7. /\ \A x \in 0..n : Count(K, x) \in Nat
      /\ Count(K, 0) = 0
      /\ \A x \in 1..n :
            Count(K, x) = IF x \in K THEN Count(K, x - 1) + 1 ELSE Count(K, x - 1)
      /\ Count(K, n) = Cardinality(K)
    BY <1>1, Counting
<1>8. \A x \in 0..n : Count(K, x) \in Nat
    BY <1>7
<1>9. \A x \in 1..n : Count(K, x) = IF x \in K THEN Count(K, x - 1) + 1 ELSE Count(K, x - 1)
    BY <1>7
<1>10. Sofar(t, 0) = 0
    <2>1. 0 \in 0..n
        BY <1>2
    <2>2. Sofar(t, 0) = Count(K, 0) + 0
        BY <1>5, <2>1, Zenon
    <2> QED  BY <1>7, <2>2
<1>11. ASSUME NEW i \in 0..n
       PROVE  Sofar(t, i) \in Nat
    BY <1>5, <1>7
<1>12. ASSUME NEW i \in 1..n
       PROVE  i - 1 \in 0..n /\ i \in 0..n /\ (i - 1 = 0 \/ i - 1 \in 1..n) /\ i - 1 + 1 = i
    BY <1>2
\* Nothing is pending behind a letter, nor before one.
<1>13. ASSUME NEW i \in 1..n, Letter(t, i) \/ Letter(t, i - 1)
       PROVE  ~P(i - 1)
    <2>1. CASE i - 1 = 0
        BY <1>5, <2>1
    <2>2. CASE i - 1 \in 1..n
        <3>1. CASE Letter(t, i - 1)
            BY <1>5, <2>2, <3>1
        <3>2. CASE ~Letter(t, i - 1)
            <4>1. Letter(t, i - 1 + 1)
                BY <1>12, <1>13, <3>2
            <4> QED  BY <1>3, <1>5, <2>2, <3>2, <4>1
        <3> QED  BY <3>1, <3>2
    <2> QED  BY <1>12, <2>1, <2>2
<1>14. ASSUME NEW i \in 1..n, Letter(t, i)
       PROVE  Sofar(t, i) = Sofar(t, i - 1) + 1 /\ Item(t, Sofar(t, i)) = Lower(t[i])
    <2>1. i \in K /\ ~P(i) /\ ~P(i - 1)
        BY <1>3, <1>5, <1>13, <1>14
    <2>2. Sofar(t, i) = Count(K, i) /\ Sofar(t, i - 1) = Count(K, i - 1)
        BY <1>5, <1>8, <1>9, <1>12, <2>1
    <2>3. Item(t, Count(K, i)) = Lower(t[i])
        <3>1. Count(K, i) \in 1..Len(w) /\ w[Count(K, i)] = Lower(t[i])
            BY <1>1, <1>14, <2>1, Zenon
        <3>2. Count(K, i) <= Len(w)
            <4>1. Len(w) \in Nat
                BY <1>1
            <4> QED  BY <3>1, <4>1
        <3> QED  BY <3>1, <3>2, Zenon DEF Item, w
    <2> QED  BY <1>8, <1>9, <2>1, <2>2, <2>3
<1>15. ASSUME NEW i \in 1..n, ~Letter(t, i), Letter(t, i - 1)
       PROVE  Sofar(t, i) = Sofar(t, i - 1) + 1 /\ Item(t, Sofar(t, i)) = "_"
    <2>1. ~P(i - 1) /\ i - 1 \in 1..n
        BY <1>4, <1>12, <1>13, <1>15
    <2>2. Seen(t, i)
        BY <1>6, <2>1, <1>15
    <2>3. Sofar(t, i - 1) = Count(K, i - 1)
        BY <1>5, <1>8, <1>9, <1>12, <2>1
    <2>4. CASE i \in K
        <3>1. Sofar(t, i) = Count(K, i) /\ Count(K, i) = Count(K, i - 1) + 1
            BY <1>5, <1>8, <1>9, <1>12, <2>4
        <3>2. Item(t, Count(K, i)) = "_"
            BY <1>1, <1>15, <2>4 DEF Item, w
        <3> QED  BY <2>3, <3>1, <3>2
    <2>5. CASE i \notin K
        <3> DEFINE k == Count(K, i) + 1
        <3>1. /\ P(i) /\ Count(K, i) = Count(K, i - 1) /\ Sofar(t, i) = k
              /\ Count(K, i) \in Nat
            BY <1>5, <1>8, <1>9, <1>12, <1>15, <2>2, <2>5
        <3>2. ASSUME k <= Len(w)
              PROVE  w[k] = "_"
            <4>1. k \in 1..Cardinality(K)
                <5>1. Len(w) \in Nat /\ Len(w) = Cardinality(K)
                    BY <1>1, <1>7
                <5> QED  BY <3>1, <3>2, <5>1
            <4>2. PICK j \in K : Count(K, j) = k
                <5> HIDE DEF k
                <5> QED  BY <1>2, <4>1, CountReaches
            <4>3. j \in 1..n /\ j \in 0..n
                BY <1>2
            <4>4. i < j
                <5>1. j < i => Count(K, j) <= Count(K, i)
                    BY <1>2, <1>12, <4>3, CountGrows
                <5>2. j # i
                    BY <2>5
                <5> QED  BY <3>1, <4>2, <4>3, <5>1, <5>2
            <4>5. ASSUME Letter(t, j)
                  PROVE  FALSE
                <5>1. CASE j = i + 1
                    BY <1>3, <1>15, <2>2, <2>5, <4>5, <5>1
                <5>2. CASE j # i + 1
                    <6>1. j - 1 \in 1..n /\ i < j - 1 /\ j - 1 + 1 = j /\ j - 1 \in 0..n
                        BY <1>2, <4>3, <4>4, <5>2
                    <6>2. Seen(t, j - 1)
                        <7>1. i - 1 \in 1..(j - 1)
                            BY <2>1, <4>3, <4>4
                        <7> QED  BY <1>15, <7>1 DEF Seen
                    <6>3. j - 1 \in K
                        BY <1>3, <4>5, <6>1, <6>2
                    <6>4. Count(K, i) < Count(K, j - 1)
                        BY <1>2, <1>12, <6>1, <6>3, CountGrows
                    <6>5. Count(K, j) = Count(K, j - 1) + 1
                        BY <1>8, <1>9, <4>3
                    <6>6. Count(K, j - 1) \in Nat
                        BY <1>8, <1>9, <6>1
                    <6> QED  BY <3>1, <4>2, <6>4, <6>5, <6>6
                <5> QED  BY <5>1, <5>2
            <4> QED  BY <1>1, <4>2, <4>5
        <3>3. Item(t, k) = "_"
            BY <3>2 DEF Item, w
        <3> QED  BY <2>3, <3>1, <3>3
    <2> QED  BY <2>4, <2>5
<1>16. ASSUME NEW i \in 1..n, ~Letter(t, i), ~Letter(t, i - 1)
       PROVE  Sofar(t, i) = Sofar(t, i - 1)
    <2>1. CASE i - 1 = 0
        <3>1. ~Seen(t, i - 1)
            BY <2>1 DEF Seen
        <3>2. ~Seen(t, i) /\ i \notin K /\ ~P(i)
            BY <1>3, <1>5, <1>6, <1>16, <3>1
        <3> QED  BY <1>5, <1>8, <1>9, <1>12, <2>1, <3>2
    <2>2. CASE i - 1 \in 1..n
        <3>1. i - 1 \notin K
            <4>1. ~Letter(t, i - 1 + 1)
                BY <1>12, <1>16
            <4> QED  BY <1>3, <1>16, <2>2, <4>1
        <3>2. P(i - 1) <=> Seen(t, i - 1)
            BY <1>5, <1>16, <2>2, <3>1
        <3>3. Seen(t, i) <=> Seen(t, i - 1)
            BY <1>6, <1>16
        <3>4. (i \in K => Seen(t, i)) /\ (P(i) <=> Seen(t, i) /\ i \notin K)
            BY <1>3, <1>5, <1>16
        <3> QED  BY <1>5, <1>8, <1>9, <1>12, <3>2, <3>3, <3>4
    <2> QED  BY <1>12, <2>1, <2>2
<1> QED  BY <1>10, <1>11, <1>14, <1>15, <1>16 DEF n

LEMMA LowerIsNoSeparator ==
    ASSUME NEW c, c \notin Separators
    PROVE  Lower(c) # "_"
<1>1. DOMAIN Small = {"A", "B"} /\ Small["A"] = "a" /\ Small["B"] = "b"
    BY DEF Small
<1>2. CASE c \in {"A", "B"}
    BY <1>1, <1>2 DEF Lower
<1>3. CASE c \notin {"A", "B"}
    <2>1. Lower(c) = c /\ "_" \in Separators
        BY <1>1, <1>3 DEF Lower, Separators
    <2> QED  BY <2>1
<1> QED  BY <1>2, <1>3

\* The items that fit a buffer.
Room(size) == IF size = 0 THEN 0 ELSE size - 1

Least(i, j) == IF i <= j THEN i ELSE j

\* The buffer holds the items that are out, as many as fit.
LEMMA RunProperties ==
    ASSUME NEW S, NEW t \in Seq(S), NEW size \in Nat, NEW out,
           NormalizeRun(S, t, size, out)
    PROVE  \A i \in 0..Len(t) :
              /\ Len(out[i]) = Least(Sofar(t, i), Room(size))
              /\ \A k \in 1..Len(out[i]) : out[i][k] = Item(t, k)
<1> DEFINE n == Len(t)
           Shows(i) == /\ Sofar(t, i) = 0 => ~Letter(t, i)
                       /\ Sofar(t, i) > 0 => (Item(t, Sofar(t, i)) = "_" <=> ~Letter(t, i))
           Holds(i) == /\ Len(out[i]) = Least(Sofar(t, i), Room(size))
                       /\ \A k \in 1..Len(out[i]) : out[i][k] = Item(t, k)
           T == {i \in 0..n : Shows(i) /\ Holds(i)}
<1>1. n \in Nat /\ DOMAIN t = 1..n
    BY LenProperties
<1>2. /\ out \in [0..n -> Seq(Letters(S))]
      /\ out[0] = <<>>
      /\ \A i \in 1..n : out[i] = Added(out[i - 1], t[i], size)
    BY DEF NormalizeRun
<1>3. /\ Sofar(t, 0) = 0
      /\ \A i \in 0..n : Sofar(t, i) \in Nat
      /\ \A i \in 1..n :
            /\ Letter(t, i) =>
                  /\ Sofar(t, i) = Sofar(t, i - 1) + 1
                  /\ Item(t, Sofar(t, i)) = Lower(t[i])
            /\ ~Letter(t, i) /\ Letter(t, i - 1) =>
                  /\ Sofar(t, i) = Sofar(t, i - 1) + 1
                  /\ Item(t, Sofar(t, i)) = "_"
            /\ ~Letter(t, i) /\ ~Letter(t, i - 1) =>
                  Sofar(t, i) = Sofar(t, i - 1)
    BY SofarSteps
<1>4. Sofar(t, 0) = 0 /\ \A i \in 0..n : Sofar(t, i) \in Nat
    BY <1>3, Zenon
<1>5. Room(size) \in Nat /\ \A l \in Nat : l + 1 >= size <=> l >= Room(size)
    BY DEF Room
<1> HIDE DEF n
<1>6. 0 \in T
    <2>1. 0 \in 0..n /\ 0 \notin 1..n
        BY <1>1
    <2>2. ~Letter(t, 0)
        BY <1>1, <2>1 DEF Letter
    <2>3. Shows(0)
        <3>1. ~(Sofar(t, 0) > 0)
            BY <1>4
        <3> QED  BY <2>2, <3>1
    <2>4. Len(out[0]) = 0 /\ Least(0, Room(size)) = 0
        BY <1>2, <1>5 DEF Least
    <2>5. Holds(0)
        <3>1. Sofar(t, 0) = 0
            BY <1>3
        <3>2. \A k \in 1..Len(out[0]) : FALSE
            BY <2>4
        <3> QED  BY <2>4, <3>1, <3>2
    <2> QED  BY <2>1, <2>3, <2>5
<1>7. ASSUME NEW i \in 1..n, i - 1 \in T
      PROVE  i \in T
    <2> DEFINE o == out[i - 1]  l == Sofar(t, i - 1)  m == Sofar(t, i)  c == t[i]
    <2>1. i - 1 \in 0..n /\ i \in 0..n
        BY <1>1
    <2>2. l \in Nat /\ m \in Nat /\ l + 1 # 0 /\ l + 1 # l
        BY <1>4, <2>1
    <2>3. Shows(i - 1) /\ Holds(i - 1)
        BY <1>7
    <2>4. Letter(t, i) <=> c \notin Separators
        BY <1>1 DEF Letter
    <2>5. m = l + 1 \/ m = l
        BY <1>3
    <2>6. /\ Letter(t, i) => m = l + 1 /\ Item(t, m) = Lower(c)
          /\ ~Letter(t, i) /\ Letter(t, i - 1) => m = l + 1 /\ Item(t, m) = "_"
          /\ ~Letter(t, i) /\ ~Letter(t, i - 1) => m = l
        BY <1>3
    <2>7. /\ l = 0 => ~Letter(t, i - 1)
          /\ l > 0 => (Item(t, l) = "_" <=> ~Letter(t, i - 1))
        BY <2>3
    <2>8. Shows(i)
        <3>1. CASE Letter(t, i)
            <4>1. m = l + 1 /\ Item(t, m) = Lower(c) /\ Lower(c) # "_"
                BY <1>3, <2>4, <3>1, LowerIsNoSeparator
            <4>2. m # 0
                BY <2>2, <4>1, Zenon
            <4> QED  BY <3>1, <4>1, <4>2, Zenon
        <3>2. CASE ~Letter(t, i) /\ Letter(t, i - 1)
            <4>1. m = l + 1 /\ Item(t, m) = "_"
                BY <1>3, <3>2
            <4>2. m # 0
                BY <2>2, <4>1, Zenon
            <4> QED  BY <3>2, <4>1, <4>2, Zenon
        <3>3. CASE ~Letter(t, i) /\ ~Letter(t, i - 1)
            <4>1. m = l
                BY <1>3, <3>3
            <4> QED  BY <2>3, <3>3, <4>1
        <3> QED  BY <3>1, <3>2, <3>3
    <2>9. /\ o \in Seq(Letters(S)) /\ out[i] = Added(o, c, size)
          /\ Len(o) = Least(l, Room(size)) /\ Len(o) \in Nat
          /\ \A k \in 1..Len(o) : o[k] = Item(t, k)
        <3>1. o \in Seq(Letters(S))
            BY <1>2, <2>1
        <3> QED  BY <1>2, <2>3, <3>1, LenProperties
    <2> HIDE DEF o, l, m, c, Shows
    <2>10. CASE Len(o) + 1 >= size
        <3>1. out[i] = o
            BY <2>9, <2>10 DEF Added
        <3>2. Len(o) >= Room(size)
            BY <1>5, <2>9, <2>10
        <3>3. Least(m, Room(size)) = Len(o)
            BY <1>5, <2>2, <2>5, <2>9, <3>2 DEF Least
        <3>4. Holds(i)
            BY <2>9, <3>1, <3>3 DEF m
        <3> QED  BY <2>1, <2>8, <3>4
    <2>11. CASE ~(Len(o) + 1 >= size)
        <3>1. Len(o) < Room(size) /\ Len(o) = l
            BY <1>5, <2>2, <2>9, <2>11 DEF Least
        <3>2. CASE m = l
            <4>1. out[i] = o
                <5>1. ~Letter(t, i) /\ ~Letter(t, i - 1)
                    BY <2>6, <2>2, <3>2, Zenon
                <5>2. l = 0 => o = <<>>
                    BY <2>9, <3>1, EmptySeq
                <5>3. l > 0 => o[Len(o)] = "_"
                    <6>1. l > 0 => Item(t, l) = "_"
                        BY <2>7, <5>1, Zenon
                    <6>2. l > 0 => l \in 1..Len(o)
                        BY <2>2, <3>1
                    <6> QED  BY <2>9, <3>1, <6>1, <6>2
                <5>4. l = 0 \/ l > 0
                    BY <2>2
                <5> QED  BY <2>4, <2>9, <2>11, <5>1, <5>2, <5>3, <5>4 DEF Added
            <4>2. Least(m, Room(size)) = Len(o)
                BY <1>5, <2>2, <3>1, <3>2 DEF Least
            <4>3. Holds(i)
                BY <2>9, <4>1, <4>2 DEF m
            <4> QED  BY <2>1, <2>8, <4>3
        <3>3. CASE m = l + 1
            <4> DEFINE e == IF Letter(t, i) THEN Lower(c) ELSE "_"
            <4>0. m # l
                BY <2>2, <3>3
            <4>1. Item(t, m) = e
                BY <2>6, <4>0, Zenon
            <4>2. out[i] = Append(o, e)
                <5>1. CASE Letter(t, i)
                    BY <2>4, <2>9, <2>11, <5>1 DEF Added
                <5>2. CASE ~Letter(t, i)
                    <6>1. Letter(t, i - 1)
                        BY <2>6, <4>0, <5>2, Zenon
                    <6>2. l # 0 /\ l > 0
                        <7>1. l # 0
                            BY <2>7, <6>1, Zenon
                        <7> QED  BY <2>2, <7>1
                    <6>3. Item(t, l) # "_"
                        BY <2>7, <6>1, <6>2, Zenon
                    <6>4. l \in 1..Len(o)
                        BY <2>2, <3>1, <6>2
                    <6>5. o # <<>> /\ o[Len(o)] # "_"
                        BY <2>9, <3>1, <6>2, <6>3, <6>4
                    <6> QED  BY <2>4, <2>9, <2>11, <5>2, <6>5 DEF Added
                <5> QED  BY <5>1, <5>2
            <4> HIDE DEF e
            <4>3. /\ Len(out[i]) = l + 1
                  /\ \A k \in 1..l : out[i][k] = o[k]
                  /\ out[i][l + 1] = e
                <5> DEFINE X == Letters(S) \cup {e}
                <5>1. o \in Seq(X) /\ e \in X
                    <6>1. Letters(S) \subseteq X /\ e \in X
                        OBVIOUS
                    <6> HIDE DEF X
                    <6> QED  BY <2>9, <6>1, SeqMonotonic
                <5> HIDE DEF X
                <5> QED  BY <3>1, <4>2, <5>1, AppendProperties
            <4>4. Least(m, Room(size)) = l + 1
                BY <1>5, <2>2, <3>1, <3>3 DEF Least
            <4>5. \A k \in 1..(l + 1) : out[i][k] = Item(t, k)
                <5>1. \A k \in 1..(l + 1) : k \in 1..l \/ k = l + 1
                    BY <2>2
                <5> QED  BY <2>9, <3>1, <3>3, <4>1, <4>3, <5>1
            <4>6. Holds(i)
                BY <4>3, <4>4, <4>5 DEF m
            <4> QED  BY <2>1, <2>8, <4>6
        <3> QED  BY <2>5, <3>2, <3>3
    <2> QED  BY <2>10, <2>11
<1>8. \A i \in 0..n : i \in T
    <2> HIDE DEF T
    <2> QED  BY <1>1, <1>6, <1>7, Reaches
<1>9. \A i \in 0..n : Holds(i)
    BY <1>8
<1> QED  BY <1>9 DEF n

\* The words end with a letter.
LEMMA WordsEnd ==
    ASSUME NEW S, NEW t \in Seq(S), Len(Words(t)) > 0
    PROVE  Words(t)[Len(Words(t))] # "_"
<1> DEFINE n == Len(t)  K == Kept(t)  w == Words(t)
<1>1. /\ K \subseteq 1..n /\ DOMAIN t = 1..n /\ n \in Nat
      /\ Len(w) \in Nat /\ Len(w) = Count(K, n)
      /\ \A j \in K : w[Count(K, j)] = IF Letter(t, j) THEN Lower(t[j]) ELSE "_"
    BY WordsProperties
<1>2. n \in Nat /\ K \subseteq 1..n /\ Len(w) \in Nat /\ Len(w) > 0
    BY <1>1
<1>3. \A i \in K : ~Letter(t, i) => Letter(t, i + 1)
    BY DEF Kept
<1>4. \A i \in 1..n : Letter(t, i) => i \in K /\ t[i] \notin Separators
    BY <1>1 DEF Kept, Letter
<1>5. \A i : Letter(t, i) => i \in 1..n
    BY <1>1 DEF Letter
<1> HIDE DEF n, K, w
<1>6. Count(K, n) = Cardinality(K)
    BY <1>2, Counting
<1>7. Len(w) \in 1..Cardinality(K)
    <2>1. Cardinality(K) = Len(w)
        BY <1>1, <1>6
    <2> QED  BY <1>2, <2>1
<1>8. PICK j \in K : Count(K, j) = Len(w)
    BY <1>2, <1>7, CountReaches
<1>9. j \in 1..n
    BY <1>2
<1>10. Letter(t, j)
    <2> SUFFICES ASSUME ~Letter(t, j)
                 PROVE  FALSE
        OBVIOUS
    <2>1. Letter(t, j + 1) /\ j + 1 \in 1..n
        BY <1>3, <1>5
    <2>2. j + 1 \in K
        BY <1>4, <2>1
    <2>3. j < j + 1 /\ j \in 0..n /\ j + 1 \in 0..n /\ n \in 0..n
        BY <1>2, <1>9, <2>1
    <2>4. Count(K, j) < Count(K, j + 1)
        BY <1>2, <2>2, <2>3, CountGrows
    <2>5. Count(K, j + 1) <= Count(K, n)
        <3>1. j + 1 < n => Count(K, j + 1) <= Count(K, n)
            BY <1>2, <2>3, CountGrows
        <3>2. \A x \in 0..n : Count(K, x) \in Nat
            BY <1>2, Counting
        <3>3. j + 1 < n \/ j + 1 = n
            BY <1>2, <2>1
        <3> QED  BY <2>3, <3>1, <3>2, <3>3
    <2>6. Count(K, j + 1) \in Nat /\ Count(K, n) = Len(w)
        <3>1. \A x \in 0..n : Count(K, x) \in Nat
            BY <1>2, Counting
        <3> QED  BY <1>1, <2>3, <3>1
    <2> QED  BY <1>2, <1>8, <2>4, <2>5, <2>6
<1>11. w[Len(w)] = Lower(t[j]) /\ t[j] \notin Separators
    BY <1>1, <1>4, <1>8, <1>9, <1>10
<1> QED  BY <1>11, LowerIsNoSeparator DEF w

\* What a buffer of some size keeps of the words.
Shortened(w, size) == Stripped(SubSeq(w, 1, Least(Len(w), Room(size))))

\* normalize_string_for_cache makes the words of a text, as far as they fit.
LEMMA NormalizeIsWords ==
    ASSUME NEW S, NEW t \in Seq(S), NEW size \in Nat
    PROVE  Normalize(t, size) = Shortened(Words(t), size)
<1> DEFINE n == Len(t)  w == Words(t)  m == Len(w)  X == Letters(S)
           cap == Room(size)  L == Sofar(t, n)
<1>1. PICK out : NormalizeRun(S, t, size, out)
    BY Normalizing
<1> DEFINE o == out[n]
<1>2. n \in 0..n /\ cap \in Nat
    BY LenProperties DEF Room
<1>3. /\ o \in Seq(X) /\ Normalize(t, size) = Stripped(o)
      /\ Len(o) = Least(L, cap)
      /\ \A k \in 1..Len(o) : o[k] = Item(t, k)
    <2>1. /\ Len(o) = Least(L, cap)
          /\ \A k \in 1..Len(o) : o[k] = Item(t, k)
        BY <1>1, <1>2, RunProperties
    <2>2. o \in Seq(X) /\ Normalize(t, size) = Stripped(o)
        BY <1>1, <1>2 DEF NormalizeRun
    <2> QED  BY <2>1, <2>2
<1>4. w \in Seq(X) /\ m \in Nat /\ m = Count(Kept(t), n)
    BY WordsProperties
<1>5. L = m \/ L = m + 1
    BY <1>4 DEF Sofar
<1>6. \A k \in Nat : Item(t, k) = IF k <= m THEN w[k] ELSE "_"
    BY DEF Item
<1>7. m > 0 => w[m] # "_"
    BY WordsEnd
<1> DEFINE c == Least(m, cap)  s == SubSeq(w, 1, c)
<1>8. c \in Nat /\ c <= m
    BY <1>2, <1>4 DEF Least
<1>9. s \in Seq(X) /\ Len(s) = c /\ \A k \in 1..c : s[k] = w[k]
    <2> HIDE DEF w, c, X, m
    <2>1. \A k \in 1..c : w[k] \in X
        <3>1. \A k \in 1..Len(w) : w[k] \in X
            BY <1>4, ElementOfSeq
        <3>2. \A k \in 1..c : k \in 1..m
            BY <1>4, <1>8
        <3> QED  BY <3>1, <3>2 DEF m
    <2>2. /\ s \in Seq(X) /\ Len(s) = IF 1 <= c THEN c - 1 + 1 ELSE 0
          /\ \A k \in 1..(c - 1 + 1) : s[k] = w[1 + k - 1]
        BY <1>8, <2>1, SubSeqProperties
    <2>3. c - 1 + 1 = c /\ (~(1 <= c) => c = 0) /\ \A k \in 1..c : 1 + k - 1 = k
        BY <1>8
    <2> HIDE DEF s
    <2> QED  BY <2>2, <2>3
<1>10. Shortened(w, size) = Stripped(s)
    BY DEF Shortened
<1> HIDE DEF n, w, m, X, cap, L, o, c, s
<1>11. CASE m >= cap
    <2>1. c = cap /\ Len(o) = cap
        BY <1>2, <1>3, <1>4, <1>5, <1>11 DEF Least, c
    <2>2. \A k \in 1..cap : k \in Nat /\ k <= m
        BY <1>2, <1>4, <1>11
    <2>3. \A k \in 1..cap : o[k] = s[k]
        BY <1>3, <1>6, <1>9, <2>1, <2>2
    <2>4. o = s
        BY <1>3, <1>9, <2>1, <2>3, SeqEqual
    <2> QED  BY <1>3, <1>10, <2>4 DEF w
<1>12. CASE m < cap
    <2>1. c = m /\ Len(o) = L
        BY <1>2, <1>3, <1>4, <1>5, <1>12 DEF Least, c
    <2>2. Stripped(s) = s
        <3>1. m > 0 => s[m] # "_"
            <4>1. m > 0 => m \in 1..c
                BY <1>4, <2>1
            <4>2. m > 0 => s[m] = w[m]
                BY <1>9, <4>1
            <4> QED  BY <1>7, <4>2
        <3>2. m = 0 => s = <<>>
            BY <1>9, <2>1, EmptySeq
        <3>3. m = 0 \/ m > 0
            BY <1>4
        <3> QED  BY <1>9, <2>1, <3>1, <3>2, <3>3 DEF Stripped
    <2>3. \A k \in 1..m : k \in Nat /\ k <= m /\ k \in 1..Len(o)
        BY <1>4, <1>5, <2>1
    <2>4. \A k \in 1..m : o[k] = s[k]
        BY <1>3, <1>6, <1>9, <2>1, <2>3
    <2>5. Stripped(o) \in Seq(X) /\ Len(Stripped(o)) = m
          /\ \A k \in 1..m : Stripped(o)[k] = o[k]
        <3>1. /\ Stripped(o) \in Seq(X)
              /\ Stripped(o) = o \/ (Len(o) > 0 /\ o[Len(o)] = "_")
              /\ \/ Len(Stripped(o)) = Len(o)
                 \/ Len(o) > 0 /\ o[Len(o)] = "_" /\ Len(Stripped(o)) = Len(o) - 1
              /\ \A k \in 1..Len(Stripped(o)) : Stripped(o)[k] = o[k]
            BY <1>3, StrippedProperties
        <3>2. CASE L = m
            <4>1. m > 0 => o[m] # "_"
                <5>1. m > 0 => m \in 1..m
                    BY <1>4
                <5> QED  BY <1>7, <1>9, <2>1, <2>4, <5>1
            <4>2. ~(Len(o) > 0 /\ o[Len(o)] = "_")
                BY <2>1, <3>2, <4>1
            <4> QED  BY <2>1, <3>1, <3>2, <4>2
        <3>3. CASE L = m + 1
            <4>1. m + 1 \in 1..Len(o) /\ m + 1 \in Nat /\ ~(m + 1 <= m)
                BY <1>4, <2>1, <3>3
            <4>2. o[m + 1] = "_"
                BY <1>3, <1>6, <4>1
            <4>3. o # <<>> /\ o[Len(o)] = "_"
                <5>1. Len(o) = m + 1 /\ Len(o) # 0
                    BY <1>4, <2>1, <3>3
                <5>2. o # <<>>
                    BY <5>1
                <5> QED  BY <4>2, <5>1, <5>2
            <4>4. Stripped(o) = Front(o)
                BY <4>3 DEF Stripped
            <4>5. Len(Stripped(o)) = m
                <5> DEFINE f == SubSeq(o, 1, Len(o) - 1)
                <5>1. Len(o) - 1 = m
                    BY <1>4, <2>1, <3>3
                <5>2. \A k \in 1..m : o[k] \in X
                    BY <1>3, <2>3, ElementOfSeq
                <5>3. Len(SubSeq(o, 1, m)) = IF 1 <= m THEN m - 1 + 1 ELSE 0
                    BY <1>4, <5>2, SubSeqProperties
                <5>4. f = SubSeq(o, 1, m)
                    BY <5>1
                <5>5. Len(f) = m
                    BY <1>4, <5>3, <5>4
                <5> QED  BY <4>4, <5>5 DEF Front
            <4> QED  BY <3>1, <4>5
        <3> QED  BY <1>5, <3>2, <3>3
    <2>6. \A k \in 1..m : Stripped(o)[k] = s[k]
        BY <2>4, <2>5
    <2>7. Stripped(o) = s
        BY <1>9, <2>1, <2>5, <2>6, SeqEqual
    <2> QED  BY <1>3, <1>10, <2>2, <2>7 DEF w
<1> QED  BY <1>2, <1>4, <1>11, <1>12

\* ... all of them when there are fewer than the buffer has bytes.
LEMMA WordsThatFit ==
    ASSUME NEW S, NEW t \in Seq(S), NEW size \in Nat, Len(Words(t)) < size
    PROVE  Normalize(t, size) = Words(t)
<1> DEFINE w == Words(t)  X == Letters(S)
<1>1. w \in Seq(X) /\ Len(w) \in Nat
    BY WordsProperties
<1>2. Least(Len(w), Room(size)) = Len(w)
    BY <1>1 DEF Least, Room
<1>3. SubSeq(w, 1, Len(w)) = w
    BY <1>1, SubSeqFull
<1>4. Len(w) > 0 => w[Len(w)] # "_"
    BY WordsEnd
<1>5. Normalize(t, size) = Stripped(w)
    BY <1>2, <1>3, NormalizeIsWords DEF Shortened
<1>6. Len(w) = 0 => w = <<>>
    BY <1>1, EmptySeq
<1> HIDE DEF w
<1>7. Stripped(w) = w
    <2>1. Len(w) = 0 \/ Len(w) > 0
        BY <1>1
    <2> QED  BY <1>4, <1>6, <2>1 DEF Stripped
<1> QED  BY <1>5, <1>7 DEF w

-----------------------------------------------------------------------------
(***************************************************************************)
(* What a key tells of its request.                                        *)
(***************************************************************************)

\* Only a and b are lower case of something else.
LEMMA LowerIsOf ==
    ASSUME NEW c, NEW x, x \notin {"a", "b"}, Lower(c) = x
    PROVE  c = x
<1>1. DOMAIN Small = {"A", "B"} /\ Small["A"] = "a" /\ Small["B"] = "b"
    BY DEF Small
<1> QED  BY <1>1 DEF Lower

\* Neither a separator nor the lower case of something else.
IsMark(c) == c \notin {"a", "b", "_"}

\* Two items side by side in the words of a text are side by side in the text.
LEMMA WordsSpell ==
    ASSUME NEW S, NEW t \in Seq(S), NEW c, NEW l,
           IsMark(c), IsMark(l),
           Spells(Words(t), c, l)
    PROVE  Spells(t, c, l)
<1> DEFINE n == Len(t)  K == Kept(t)  w == Words(t)
<1>1. /\ K \subseteq 1..n /\ DOMAIN t = 1..n /\ n \in Nat
      /\ Len(w) \in Nat /\ Len(w) = Count(K, n)
      /\ \A j \in K : w[Count(K, j)] = IF Letter(t, j) THEN Lower(t[j]) ELSE "_"
    BY WordsProperties
<1>2. K \subseteq 1..n /\ n \in Nat /\ Len(w) \in Nat /\ Len(w) = Count(K, n)
    BY <1>1
<1>3. PICK i \in 1..(Len(w) - 1) : w[i] = c /\ w[i + 1] = l
    BY DEF Spells
<1>4. \A j \in 1..n : Letter(t, j) => j \in K
    BY <1>1 DEF Kept
<1>5. \A j \in 1..n : ~Letter(t, j) => (j \in K <=> Letter(t, j + 1) /\ Seen(t, j))
    BY <1>1 DEF Kept, Seen
<1>6. n \in Nat /\ K \subseteq 1..n /\ Len(w) \in Nat /\ i \in 1..(Len(w) - 1)
    BY <1>2
<1> HIDE DEF n, K, w
<1>7. /\ \A x \in 0..n : Count(K, x) \in Nat
      /\ Count(K, 0) = 0
      /\ \A x \in 1..n :
            Count(K, x) = IF x \in K THEN Count(K, x - 1) + 1 ELSE Count(K, x - 1)
      /\ Count(K, n) = Cardinality(K)
    BY <1>6, Counting
<1>8. i \in 1..Cardinality(K) /\ i + 1 \in 1..Cardinality(K)
    <2>1. Cardinality(K) = Len(w)
        BY <1>2, <1>7
    <2> QED  BY <1>6, <2>1
<1>9. PICK j \in K : Count(K, j) = i
    BY <1>6, <1>8, CountReaches
<1>10. PICK k \in K : Count(K, k) = i + 1
    <2> DEFINE m == i + 1
    <2>1. m \in 1..Cardinality(K)
        BY <1>8
    <2> HIDE DEF m
    <2>2. \E k \in K : Count(K, k) = m
        BY <1>6, <2>1, CountReaches
    <2> QED  BY <2>2 DEF m
<1>11. Letter(t, j) /\ t[j] = c /\ Letter(t, k) /\ t[k] = l
    <2>1. Letter(t, j) /\ Lower(t[j]) = c
        BY <1>1, <1>3, <1>9 DEF IsMark
    <2>2. Letter(t, k) /\ Lower(t[k]) = l
        BY <1>1, <1>3, <1>10 DEF IsMark
    <2> QED  BY <2>1, <2>2, LowerIsOf DEF IsMark
<1>12. j \in 1..n /\ k \in 1..n /\ j \in 0..n /\ k \in 0..n /\ k - 1 \in 0..n
    BY <1>6
<1>13. j < k
    <2>1. k < j => Count(K, k) <= Count(K, j)
        BY <1>6, <1>12, CountGrows
    <2>2. k # j
        BY <1>6, <1>9, <1>10
    <2> QED  BY <1>6, <1>9, <1>10, <1>12, <2>1, <2>2
<1>14. k = j + 1
    <2> SUFFICES ASSUME k # j + 1
                 PROVE  FALSE
        OBVIOUS
    <2>1. k - 1 \in 1..n /\ j < k - 1 /\ k - 1 + 1 = k
        BY <1>12, <1>13
    <2>2. Seen(t, k - 1)
        <3>1. j \in 1..(k - 1)
            BY <1>12, <2>1
        <3> QED  BY <1>11, <3>1 DEF Seen
    <2>3. k - 1 \in K
        BY <1>4, <1>5, <1>11, <2>1, <2>2
    <2>4. Count(K, j) < Count(K, k - 1)
        BY <1>6, <1>12, <2>1, <2>3, CountGrows
    <2>5. Count(K, k) = Count(K, k - 1) + 1 /\ Count(K, k - 1) \in Nat
        BY <1>7, <1>12
    <2> QED  BY <1>6, <1>9, <1>10, <2>4, <2>5
<1>15. j \in 1..(n - 1)
    BY <1>6, <1>12, <1>14
<1> QED  BY <1>11, <1>14, <1>15 DEF Spells, n

\* So are two items of what is made of it.
LEMMA NormalizeSpells ==
    ASSUME NEW S, NEW t \in Seq(S), NEW size \in Nat, NEW c, NEW l,
           IsMark(c), IsMark(l),
           Spells(Normalize(t, size), c, l)
    PROVE  Spells(t, c, l)
<1> DEFINE w == Words(t)  X == Letters(S)  m == Least(Len(w), Room(size))
           s == SubSeq(w, 1, m)  p == Normalize(t, size)
<1>1. w \in Seq(X) /\ Len(w) \in Nat /\ \A k \in 1..Len(w) : w[k] \in X
    BY WordsProperties, ElementOfSeq
<1>2. m \in Nat /\ m <= Len(w)
    BY <1>1 DEF Least, Room
<1>3. p = Stripped(s)
    BY NormalizeIsWords DEF Shortened
<1> HIDE DEF w, X, m, p
<1>4. s \in Seq(X) /\ Len(s) = m /\ \A k \in 1..m : s[k] = w[k]
    <2>1. \A k \in 1..m : w[k] \in X
        BY <1>1, <1>2
    <2>2. /\ s \in Seq(X) /\ Len(s) = IF 1 <= m THEN m - 1 + 1 ELSE 0
          /\ \A k \in 1..(m - 1 + 1) : s[k] = w[1 + k - 1]
        BY <1>2, <2>1, SubSeqProperties
    <2>3. m - 1 + 1 = m /\ (~(1 <= m) => m = 0) /\ \A k \in 1..m : 1 + k - 1 = k
        BY <1>2
    <2> HIDE DEF s
    <2> QED  BY <2>2, <2>3
<1> HIDE DEF s
<1>5. Len(p) \in Nat /\ Len(p) <= m /\ \A k \in 1..Len(p) : p[k] = s[k]
    <2>1. /\ Stripped(s) \in Seq(X)
          /\ Len(Stripped(s)) = Len(s) \/ Len(Stripped(s)) = Len(s) - 1
          /\ \A i \in 1..Len(Stripped(s)) : Stripped(s)[i] = s[i]
        BY <1>4, StrippedProperties
    <2>2. Len(p) \in Nat
        BY <1>3, <2>1, LenProperties
    <2>3. Len(p) = m \/ Len(p) = m - 1
        BY <1>3, <1>4, <2>1
    <2>4. Len(p) <= m
        BY <1>2, <2>2, <2>3
    <2> QED  BY <1>3, <2>1, <2>2, <2>4
<1>6. PICK i \in 1..(Len(p) - 1) : p[i] = c /\ p[i + 1] = l
    BY DEF Spells, p
<1>7. i \in 1..Len(p) /\ i + 1 \in 1..Len(p) /\ i \in 1..m /\ i + 1 \in 1..m
      /\ i \in 1..(Len(w) - 1)
    BY <1>1, <1>2, <1>5
<1>8. w[i] = c /\ w[i + 1] = l
    BY <1>4, <1>5, <1>6, <1>7
<1>9. Spells(w, c, l)
    BY <1>7, <1>8 DEF Spells
<1> QED  BY <1>9, WordsSpell DEF w

\* A text, a label of two items and what follows.
LEMMA LabelPlace ==
    ASSUME NEW S, NEW d \in Seq(S), NEW z \in Seq(S), NEW c \in S, NEW l \in S
    PROVE  /\ Len(d) \in Nat
           /\ ((d \o <<c, l>>) \o z)[Len(d) + 1] = c
           /\ ((d \o <<c, l>>) \o z)[Len(d) + 2] = l
           /\ \A h \in 1..Len(d) : ((d \o <<c, l>>) \o z)[h] = d[h]
<1> DEFINE two == 2  L == <<c, l>>
           q == (d \o L) \o z  k == Len(d)  u == d \o L  g == Len(z)
<1>1. L \in Seq(S) /\ Len(L) = two /\ L[1] = c /\ L[2] = l
    OBVIOUS
<1>2. k \in Nat /\ g \in Nat
    BY LenProperties
<1> HIDE DEF L
<1>3. /\ u \in Seq(S) /\ Len(u) = k + two
      /\ \A h \in 1..(k + two) : u[h] = IF h <= k THEN d[h] ELSE L[h - k]
    <2>1. Len(d) = k
        OBVIOUS
    <2> HIDE DEF two, k
    <2> QED  BY <1>1, <2>1, Concatenation
<1> HIDE DEF u
<1>4. \A h \in 1..(k + two + g) : q[h] = IF h <= k + two THEN u[h] ELSE z[h - (k + two)]
    <2> DEFINE v == k + two
    <2>1. Len(u) = v /\ Len(z) = g
        BY <1>3
    <2> HIDE DEF v, g
    <2>2. \A h \in 1..(v + g) : (u \o z)[h] = IF h <= v THEN u[h] ELSE z[h - v]
        BY <1>3, <2>1, Concatenation
    <2> QED  BY <2>2 DEF u, v
<1> HIDE DEF q, k, g
<1>5. /\ k + 1 \in 1..(k + two) /\ k + 2 \in 1..(k + two)
      /\ k + 1 \in 1..(k + two + g) /\ k + 2 \in 1..(k + two + g)
      /\ ~(k + 1 <= k) /\ ~(k + 2 <= k) /\ k + 1 - k = 1 /\ k + 2 - k = 2
      /\ k + 1 <= k + two /\ k + 2 <= k + two
    BY <1>2
<1>6. q[k + 1] = c /\ q[k + 2] = l
    <2>1. q[k + 1] = u[k + 1] /\ q[k + 2] = u[k + 2]
        BY <1>4, <1>5
    <2>2. ASSUME NEW n \in 1..(k + two), ~(n <= k)
          PROVE  u[n] = L[n - k]
        BY <1>3, <2>2, Zenon
    <2> DEFINE n == k + 1  m == k + 2
    <2>3. u[n] = L[n - k] /\ u[m] = L[m - k] /\ n - k = 1 /\ m - k = 2
        <3>1. /\ n \in 1..(k + two) /\ m \in 1..(k + two)
              /\ ~(n <= k) /\ ~(m <= k) /\ n - k = 1 /\ m - k = 2
            BY <1>2
        <3> HIDE DEF n, m, two
        <3> QED  BY <2>2, <3>1, Zenon
    <2> HIDE DEF L
    <2>4. u[n] = L[1] /\ u[m] = L[2]
        <3> HIDE DEF n, m
        <3> QED  BY <2>3, Zenon
    <2> QED  BY <1>1, <2>1, <2>4
<1>7. ASSUME NEW h \in 1..k
      PROVE  q[h] = d[h]
    <2>1. h \in 1..(k + two) /\ h \in 1..(k + two + g) /\ h <= k /\ h <= k + two
        BY <1>2
    <2> QED  BY <1>3, <1>4, <2>1
<1> QED  BY <1>2, <1>6, <1>7 DEF q, k, L

\* A label that neither of two texts spells ends both at the same place.
LEMMA LabelIsFirst ==
    ASSUME NEW S, NEW a \in Seq(S), NEW b \in Seq(S), NEW x \in Seq(S), NEW y \in Seq(S),
           NEW c \in S, NEW l \in S, c # l,
           (a \o <<c, l>>) \o x = (b \o <<c, l>>) \o y, ~Spells(b, c, l)
    PROVE  ~(Len(a) < Len(b))
<1> DEFINE p == (a \o <<c, l>>) \o x  q == (b \o <<c, l>>) \o y
           i == Len(a)  j == Len(b)
<1>1. p = q
    OBVIOUS
<1>2. i \in Nat /\ p[i + 1] = c /\ p[i + 2] = l
    BY LabelPlace
<1>3. j \in Nat /\ q[j + 1] = c /\ \A h \in 1..j : q[h] = b[h]
    BY LabelPlace
<1>4. ~\E h \in 1..(j - 1) : b[h] = c /\ b[h + 1] = l
    BY DEF Spells
<1> HIDE DEF p, q, i, j
<1>5. ASSUME i < j
      PROVE  FALSE
    <2>1. i + 1 \in 1..j
        BY <1>2, <1>3, <1>5
    <2>2. CASE i + 1 = j
        <3>1. j + 1 = i + 2
            BY <1>2, <1>3, <2>2
        <3> QED  BY <1>1, <1>2, <1>3, <3>1
    <2>3. CASE i + 1 # j
        <3>1. i + 2 \in 1..j /\ i + 1 \in 1..(j - 1) /\ i + 1 + 1 = i + 2
            BY <1>2, <1>3, <2>1, <2>3
        <3>2. b[i + 1] = c /\ b[i + 2] = l
            BY <1>1, <1>2, <1>3, <2>1, <3>1
        <3> QED  BY <1>4, <3>1, <3>2
    <2> QED  BY <2>2, <2>3
<1> QED  BY <1>5 DEF i, j

LEMMA LabelSplits ==
    ASSUME NEW S, NEW a \in Seq(S), NEW b \in Seq(S), NEW x \in Seq(S), NEW y \in Seq(S),
           NEW c \in S, NEW l \in S, c # l,
           (a \o <<c, l>>) \o x = (b \o <<c, l>>) \o y,
           ~Spells(a, c, l), ~Spells(b, c, l)
    PROVE  a = b /\ x = y
<1> DEFINE p == (a \o <<c, l>>) \o x  q == (b \o <<c, l>>) \o y
           u == a \o <<c, l>>
<1>1. p = q
    OBVIOUS
<1>2. ~(Len(a) < Len(b)) /\ ~(Len(b) < Len(a))
    BY LabelIsFirst
<1>3. Len(a) \in Nat /\ Len(b) \in Nat
      /\ (\A h \in 1..Len(a) : p[h] = a[h]) /\ (\A h \in 1..Len(b) : q[h] = b[h])
    BY LabelPlace
<1> HIDE DEF p, q
<1>4. Len(a) = Len(b)
    BY <1>2, <1>3
<1>5. a = b
    BY <1>1, <1>3, <1>4, SeqEqual
<1>6. u \in Seq(S)
    <2> DEFINE L == <<c, l>>
    <2>1. L \in Seq(S)
        OBVIOUS
    <2> HIDE DEF L
    <2>2. a \o L \in Seq(S)
        BY <2>1, ConcatProperties
    <2> QED  BY <2>2 DEF L
<1>7. u \o x = u \o y
    BY <1>1, <1>5 DEF p, q
<1> HIDE DEF u
<1> QED  BY <1>5, <1>6, <1>7, ConcatSimplifications

\* The key of a method is a head of three or two items and the parts.
LEMMA KeyOfWeather ==
    ASSUME NEW r \in Requests, r.method = "weather"
    PROVE  LET a == Part(r.args[1])  b == Part(r.args[2])  c == Part(r.args[3])
           IN  /\ a \in Seq(KeyItems) /\ b \in Seq(KeyItems) /\ c \in Seq(KeyItems)
               /\ Key(r) = <<"weather", ":", "city=">>
                     \o ((a \o <<":", "country=">>) \o ((b \o <<":", "region=">>) \o c))
<1> DEFINE X == KeyItems  head == <<"weather", ":", "city=">>
           country == <<":", "country=">>  region == <<":", "region=">>
           a == Part(r.args[1])  b == Part(r.args[2])  c == Part(r.args[3])
<1>1. head \in Seq(X) /\ country \in Seq(X) /\ region \in Seq(X)
    BY DEF KeyItems
<1>2. a \in Seq(X) /\ b \in Seq(X) /\ c \in Seq(X)
    <2>1. 1 \in DOMAIN r.args /\ 2 \in DOMAIN r.args /\ 3 \in DOMAIN r.args
        BY Methods
    <2> QED  BY <2>1, PartType
<1>3. Key(r) = ((((head \o a) \o country) \o b) \o region) \o c
    BY DEF Key
<1> HIDE DEF X, head, country, region, a, b, c
<1>0. \A p, q, o \in Seq(X) : (p \o q) \o o = p \o (q \o o)
    BY ConcatAssociative
<1> DEFINE v == a \o country  w == b \o region  t == w \o c  z == head \o v
<1>4. v \in Seq(X) /\ w \in Seq(X)
    BY <1>1, <1>2, ConcatProperties
<1>5. (head \o a) \o country = z
    <2> HIDE DEF t, w
    <2>1. (head \o a) \o country = head \o (a \o country)
        BY <1>0, <1>1, <1>2, Zenon
    <2> QED  BY <2>1
<1>6. Key(r) = ((z \o b) \o region) \o c
    BY <1>3, <1>5
<1>7. z \in Seq(X) /\ t \in Seq(X)
    <2> HIDE DEF v, w
    <2> QED  BY <1>1, <1>2, <1>4, ConcatProperties
<1>8. Key(r) = (z \o w) \o c
    <2>1. (z \o b) \o region = z \o (b \o region)
        <3>1. z \in Seq(X) /\ b \in Seq(X) /\ region \in Seq(X)
            BY <1>1, <1>2, <1>7
        <3> HIDE DEF z
        <3> QED  BY <1>0, <3>1
    <2> HIDE DEF z
    <2> QED  BY <1>6, <2>1
<1>9. (z \o w) \o c = z \o t
    <2>1. (z \o w) \o c = z \o (w \o c)
        <3>1. z \in Seq(X) /\ w \in Seq(X) /\ c \in Seq(X)
            BY <1>2, <1>4, <1>7
        <3> HIDE DEF z, w
        <3> QED  BY <1>0, <3>1
    <2> HIDE DEF z, w
    <2> QED  BY <2>1
<1>10. z \o t = head \o (v \o t)
    <2>1. (head \o v) \o t = head \o (v \o t)
        <3> HIDE DEF v, t
        <3> QED  BY <1>0, <1>1, <1>4, <1>7, Zenon
    <2> HIDE DEF v, t
    <2> QED  BY <2>1
<1>11. Key(r) = head \o (v \o t)
    BY <1>8, <1>9, <1>10
<1> QED  BY <1>2, <1>11 DEF X, head, country, region, a, b, c

LEMMA KeyOfCities ==
    ASSUME NEW r \in Requests, r.method = "cities"
    PROVE  LET a == Part(r.args[1])
           IN  /\ a \in Seq(KeyItems)
               /\ Key(r) = <<"cities", ":", "query=">> \o a
<1>1. 1 \in DOMAIN r.args
    BY Methods
<1> QED  BY <1>1, PartType DEF Key

\* The first item of a key is the method.
LEMMA KeyTellsMethod ==
    ASSUME NEW r \in Requests
    PROVE  Key(r)[1] = r.method
<1>1. ASSUME NEW h \in Seq(KeyItems), Len(h) = 3, NEW z \in Seq(KeyItems)
      PROVE  (h \o z)[1] = h[1]
    <2>1. \A i \in 1..(Len(h) + Len(z)) :
              (h \o z)[i] = IF i <= Len(h) THEN h[i] ELSE z[i - Len(h)]
        BY ConcatProperties
    <2>2. Len(z) \in Nat
        BY LenProperties
    <2>3. 1 \in 1..(Len(h) + Len(z)) /\ 1 <= Len(h)
        BY <1>1, <2>2
    <2> QED  BY <2>1, <2>3
<1>2. CASE r.method = "weather"
    <2> DEFINE a == Part(r.args[1])  b == Part(r.args[2])  c == Part(r.args[3])
               head == <<"weather", ":", "city=">>
               country == <<":", "country=">>  region == <<":", "region=">>
               z == (a \o country) \o ((b \o region) \o c)
    <2>1. /\ a \in Seq(KeyItems) /\ b \in Seq(KeyItems) /\ c \in Seq(KeyItems)
          /\ Key(r) = head \o z
        BY <1>2, KeyOfWeather
    <2>2. country \in Seq(KeyItems) /\ region \in Seq(KeyItems)
          /\ head \in Seq(KeyItems) /\ Len(head) = 3 /\ head[1] = "weather"
        BY DEF KeyItems
    <2> HIDE DEF country, region, a, b, c, head
    <2>3. z \in Seq(KeyItems)
        <3>1. a \o country \in Seq(KeyItems) /\ b \o region \in Seq(KeyItems)
            BY <2>1, <2>2, ConcatProperties
        <3>2. (b \o region) \o c \in Seq(KeyItems)
            BY <2>1, <3>1, ConcatProperties
        <3> QED  BY <3>1, <3>2, ConcatProperties
    <2> HIDE DEF z
    <2> QED  BY <1>1, <1>2, <2>1, <2>2, <2>3
<1>3. CASE r.method = "cities"
    <2> DEFINE a == Part(r.args[1])  head == <<"cities", ":", "query=">>
    <2>1. a \in Seq(KeyItems) /\ Key(r) = head \o a
        BY <1>3, KeyOfCities
    <2>2. head \in Seq(KeyItems) /\ Len(head) = 3 /\ head[1] = "cities"
        BY DEF KeyItems
    <2> HIDE DEF head, a
    <2> QED  BY <1>1, <1>3, <2>1, <2>2
<1>4. CASE r.method = "homepage"
    BY <1>4 DEF Key
<1> QED  BY <1>2, <1>3, <1>4, Methods

\* No part of the key spells the label that follows it.
Unambiguous(r) ==
    r.method = "weather" =>
        /\ ~Spells(Part(r.args[1]), ":", "country=")
        /\ ~Spells(Part(r.args[2]), ":", "region=")

LEMMA PlainIsUnambiguous ==
    ASSUME NEW r \in Requests, Plain(r)
    PROVE  Unambiguous(r)
<1> SUFFICES ASSUME r.method = "weather"
             PROVE  /\ ~Spells(Part(r.args[1]), ":", "country=")
                    /\ ~Spells(Part(r.args[2]), ":", "region=")
    BY DEF Unambiguous
<1>1. /\ ~Spells(r.args[1], ":", "country=")
      /\ r.args[2] = NULL \/ ~Spells(r.args[2], ":", "region=")
    BY DEF Plain
<1>2. 1 \in DOMAIN r.args /\ 2 \in DOMAIN r.args
    BY Methods
<1>3. IsMark(":") /\ IsMark("country=") /\ IsMark("region=")
    BY DEF IsMark
<1>4. ASSUME NEW c, NEW l
      PROVE  ~Spells(<<>>, c, l)
    <2>1. 1..(Len(<<>>) - 1) = {}
        OBVIOUS
    <2> QED  BY <2>1 DEF Spells
<1>5. ASSUME NEW i \in DOMAIN r.args, NEW c, NEW l, IsMark(c), IsMark(l),
             r.args[i] = NULL \/ ~Spells(r.args[i], c, l)
      PROVE  ~Spells(Part(r.args[i]), c, l)
    <2>1. CASE r.args[i] = NULL
        BY <1>4, <2>1 DEF Part
    <2>2. CASE r.args[i] # NULL
        <3>1. r.args[i] \in Seq(Items) /\ Part(r.args[i]) = Normalize(r.args[i], KeyBuffer)
            BY <2>2, ArgumentType DEF Part
        <3>2. KeyBuffer \in Nat
            BY RequestAssumption
        <3> QED  BY <1>5, <2>2, <3>1, <3>2, NormalizeSpells
    <2> QED  BY <2>1, <2>2
<1> QED  BY <1>1, <1>2, <1>3, <1>5

\* Two requests that have the same key, and parts that spell no label, have
\* the same method and the same parts.
LEMMA KeysTellParts ==
    ASSUME NEW r \in Requests, NEW s \in Requests, Key(r) = Key(s),
           Unambiguous(r), Unambiguous(s)
    PROVE  r.method = s.method /\ \A i \in DOMAIN r.args : Part(r.args[i]) = Part(s.args[i])
<1>1. r.method = s.method
    BY KeyTellsMethod
<1>2. CASE r.method = "weather"
    <2> DEFINE X == KeyItems  head == <<"weather", ":", "city=">>
               m == ":"  k == "country="  g == "region="
               a == Part(r.args[1])  b == Part(r.args[2])  c == Part(r.args[3])
               d == Part(s.args[1])  e == Part(s.args[2])  f == Part(s.args[3])
               x == (b \o <<m, g>>) \o c  y == (e \o <<m, g>>) \o f
               u == (a \o <<m, k>>) \o x  v == (d \o <<m, k>>) \o y
    <2>1. /\ a \in Seq(X) /\ b \in Seq(X) /\ c \in Seq(X) /\ Key(r) = head \o u
        BY <1>2, KeyOfWeather
    <2>2. /\ d \in Seq(X) /\ e \in Seq(X) /\ f \in Seq(X) /\ Key(s) = head \o v
        BY <1>1, <1>2, KeyOfWeather
    <2>3. head \in Seq(X) /\ m \in X /\ k \in X /\ g \in X /\ m # k /\ m # g
        BY DEF KeyItems
    <2>4. ~Spells(a, m, k) /\ ~Spells(b, m, g) /\ ~Spells(d, m, k) /\ ~Spells(e, m, g)
        BY <1>1, <1>2 DEF Unambiguous
    <2> HIDE DEF X, head, m, k, g, a, b, c, d, e, f
    <2>5. <<m, k>> \in Seq(X) /\ <<m, g>> \in Seq(X)
        BY <2>3
    <2>6. x \in Seq(X) /\ y \in Seq(X)
        <3> DEFINE L == <<m, g>>
        <3>1. L \in Seq(X)
            BY <2>5
        <3> HIDE DEF L
        <3>2. b \o L \in Seq(X) /\ e \o L \in Seq(X)
            BY <2>1, <2>2, <3>1, ConcatProperties
        <3>3. (b \o L) \o c \in Seq(X) /\ (e \o L) \o f \in Seq(X)
            BY <2>1, <2>2, <3>2, ConcatProperties
        <3> QED  BY <3>3 DEF L
    <2>7. u = v
        <3>1. u \in Seq(X) /\ v \in Seq(X)
            <4> DEFINE L == <<m, k>>
            <4>1. L \in Seq(X)
                BY <2>5
            <4> HIDE DEF L, x, y
            <4>2. a \o L \in Seq(X) /\ d \o L \in Seq(X)
                BY <2>1, <2>2, <4>1, ConcatProperties
            <4>3. (a \o L) \o x \in Seq(X) /\ (d \o L) \o y \in Seq(X)
                BY <2>6, <4>2, ConcatProperties
            <4> QED  BY <4>3 DEF L
        <3>2. head \o u = head \o v
            BY <2>1, <2>2
        <3> HIDE DEF u, v
        <3> QED  BY <2>3, <3>1, <3>2, ConcatSimplifications
    <2>8. ASSUME NEW p \in Seq(X), NEW q \in Seq(X), NEW z \in Seq(X), NEW w \in Seq(X),
                 NEW l \in X, m # l, ~Spells(p, m, l), ~Spells(q, m, l),
                 (p \o <<m, l>>) \o z = (q \o <<m, l>>) \o w
          PROVE  p = q /\ z = w
        <3>1. /\ p \in Seq(X) /\ q \in Seq(X) /\ z \in Seq(X) /\ w \in Seq(X)
              /\ m \in X /\ l \in X /\ m # l /\ ~Spells(p, m, l) /\ ~Spells(q, m, l)
              /\ (p \o <<m, l>>) \o z = (q \o <<m, l>>) \o w
            BY <2>3, <2>8
        <3> HIDE <2>8
        <3> QED  BY <3>1, LabelSplits, ZenonT(60)
    <2> DEFINE K == <<m, k>>  G == <<m, g>>
    <2>9. a = d /\ x = y
        <3>1. (a \o K) \o x = (d \o K) \o y
            BY <2>7
        <3>2. \A p, q, z, w \in Seq(X) :
                 ~Spells(p, m, k) /\ ~Spells(q, m, k) /\ (p \o K) \o z = (q \o K) \o w
                     => p = q /\ z = w
            BY <2>3, <2>8, Zenon
        <3> HIDE DEF x, y, K
        <3> QED  BY <2>1, <2>2, <2>4, <2>6, <3>1, <3>2
    <2>10. b = e /\ c = f
        <3>1. (b \o G) \o c = (e \o G) \o f
            BY <2>9
        <3>2. \A p, q, z, w \in Seq(X) :
                 ~Spells(p, m, g) /\ ~Spells(q, m, g) /\ (p \o G) \o z = (q \o G) \o w
                     => p = q /\ z = w
            BY <2>3, <2>8, Zenon
        <3> HIDE DEF x, y, G
        <3> QED  BY <2>1, <2>2, <2>4, <3>1, <3>2
    <2>11. DOMAIN r.args = 1..3
        BY <1>2, Methods
    <2>12. \A i \in 1..3 : i = 1 \/ i = 2 \/ i = 3
        OBVIOUS
    <2> QED  BY <1>1, <2>9, <2>10, <2>11, <2>12 DEF a, b, c, d, e, f
<1>3. CASE r.method = "cities"
    <2> DEFINE X == KeyItems  head == <<"cities", ":", "query=">>
               a == Part(r.args[1])  d == Part(s.args[1])
    <2>1. a \in Seq(X) /\ Key(r) = head \o a
        BY <1>3, KeyOfCities
    <2>2. d \in Seq(X) /\ Key(s) = head \o d
        BY <1>1, <1>3, KeyOfCities
    <2>3. head \in Seq(X)
        BY DEF KeyItems
    <2>4. DOMAIN r.args = 1..1 /\ \A i \in 1..1 : i = 1
        BY <1>3, Methods
    <2> HIDE DEF X, head, a, d
    <2>5. head \o a = head \o d
        BY <2>1, <2>2
    <2>6. a = d
        BY <2>1, <2>2, <2>3, <2>5, ConcatSimplifications
    <2> QED  BY <1>1, <2>4, <2>6 DEF a, d
<1>4. CASE r.method = "homepage"
    <2>1. DOMAIN r.args = {}
        BY <1>4, Methods
    <2> QED  BY <1>1, <2>1
<1> QED  BY <1>2, <1>3, <1>4, Methods

\* The words of an argument that may be missing.
WordsOf(text) == IF text = NULL THEN <<>> ELSE Words(text)

\* A part of a key is the words of its argument, as far as they fit.
LEMMA PartIsWords ==
    ASSUME NEW r \in Requests, NEW i \in DOMAIN r.args
    PROVE  Part(r.args[i]) = Shortened(WordsOf(r.args[i]), KeyBuffer)
<1>1. KeyBuffer \in Nat
    BY RequestAssumption
<1>2. CASE r.args[i] = NULL
    <2>1. Part(r.args[i]) = <<>> /\ WordsOf(r.args[i]) = <<>>
        BY <1>2 DEF Part, WordsOf
    <2> DEFINE e == <<>>  k == Least(Len(e), Room(KeyBuffer))  zero == 0
    <2>2. k = zero
        BY <1>1 DEF Least, Room
    <2>3. SubSeq(e, 1, zero) = e
        OBVIOUS
    <2> HIDE DEF zero, e
    <2>4. Shortened(e, KeyBuffer) = Stripped(e)
        <3>1. Shortened(e, KeyBuffer) = Stripped(SubSeq(e, 1, k))
            BY DEF Shortened
        <3> HIDE DEF k
        <3> QED  BY <2>2, <2>3, <3>1
    <2>5. Stripped(<<>>) = <<>>
        BY DEF Stripped
    <2> QED  BY <2>1, <2>4, <2>5 DEF e
<1>3. CASE r.args[i] # NULL
    <2>1. r.args[i] \in Seq(Items)
        BY <1>3, ArgumentType
    <2> QED  BY <1>1, <1>3, <2>1, NormalizeIsWords DEF Part, WordsOf
<1> QED  BY <1>2, <1>3

\* Requests that differ in case and separators only have the same key.
LEMMA SameKey ==
    ASSUME NEW r \in Requests, NEW s \in Requests, Same(r, s)
    PROVE  Key(r) = Key(s)
<1>1. r.method = s.method /\ \A i \in DOMAIN r.args : WordsOf(r.args[i]) = WordsOf(s.args[i])
    BY DEF Same, WordsOf
<1>2. DOMAIN r.args = DOMAIN s.args
    BY <1>1, RequestAssumption
<1>3. \A i \in DOMAIN r.args : Part(r.args[i]) = Part(s.args[i])
    BY <1>1, <1>2, PartIsWords
<1>4. CASE r.method = "weather"
    <2>1. 1 \in DOMAIN r.args /\ 2 \in DOMAIN r.args /\ 3 \in DOMAIN r.args
        BY <1>4, Methods
    <2> QED  BY <1>1, <1>3, <1>4, <2>1 DEF Key
<1>5. CASE r.method = "cities"
    <2>1. 1 \in DOMAIN r.args
        BY <1>5, Methods
    <2> QED  BY <1>1, <1>3, <1>5, <2>1 DEF Key
<1>6. CASE r.method = "homepage"
    BY <1>1, <1>6 DEF Key
<1> QED  BY <1>4, <1>5, <1>6, Methods

\* Requests that fit their buffers, spell no label and have the same key are
\* the same.
LEMMA KeyTellsRequest ==
    ASSUME NEW r \in Requests, NEW s \in Requests, Plain(r), Plain(s), Key(r) = Key(s)
    PROVE  Same(r, s)
<1>1. Unambiguous(r) /\ Unambiguous(s)
    BY PlainIsUnambiguous
<1>2. r.method = s.method /\ \A i \in DOMAIN r.args : Part(r.args[i]) = Part(s.args[i])
    BY <1>1, KeysTellParts
<1>3. DOMAIN r.args = DOMAIN s.args
    BY <1>2, RequestAssumption
<1>4. ASSUME NEW q \in Requests, Plain(q), NEW i \in DOMAIN q.args
      PROVE  Part(q.args[i]) = WordsOf(q.args[i])
    <2>1. CASE q.args[i] = NULL
        BY <2>1 DEF Part, WordsOf
    <2>2. CASE q.args[i] # NULL
        <3>1. q.args[i] \in Seq(Items) /\ KeyBuffer \in Nat
            BY <2>2, ArgumentType, RequestAssumption
        <3>2. Len(Words(q.args[i])) < KeyBuffer
            BY <1>4, <2>2 DEF Plain
        <3> QED  BY <2>2, <3>1, <3>2, WordsThatFit DEF Part, WordsOf
    <2> QED  BY <2>1, <2>2
<1>5. \A i \in DOMAIN r.args : WordsOf(r.args[i]) = WordsOf(s.args[i])
    BY <1>2, <1>3, <1>4
<1> QED  BY <1>2, <1>5 DEF Same, WordsOf

-----------------------------------------------------------------------------
(***************************************************************************)
(* What a path tells of its request.                                       *)
(***************************************************************************)

\* What url_encode makes of one item ...
Escaped(c) ==
    IF c \in Unreserved THEN <<c>> ELSE IF c = " " THEN <<"+">> ELSE <<"%", c, c>>

\* ... and the items it begins with, which no label is among.
Heads == Unreserved \cup {"+", "%"}

\* Items of an encoded text.
Encoded(S) == S \cup {"+", "%"}

\* Escapes that begin alike are of the same length, and those that are the
\* same are of the same item.
LEMMA EscapeFacts ==
    /\ \A S : \A c \in S : Escaped(c) \in Seq(Encoded(S))
    /\ \A c : Len(Escaped(c)) \in {1, 3} /\ Escaped(c)[1] \in Heads
    /\ \A c, d : Escaped(c)[1] = Escaped(d)[1] => Len(Escaped(c)) = Len(Escaped(d))
    /\ \A c, d : /\ Escaped(c)[1] = Escaped(d)[1]
                 /\ Len(Escaped(c)) = 3 => Escaped(c)[2] = Escaped(d)[2]
                 => c = d
<1> DEFINE Alone(c) == /\ c \in Unreserved /\ Len(Escaped(c)) = 1 /\ Escaped(c)[1] = c
           Space(c) == /\ c = " " /\ Len(Escaped(c)) = 1 /\ Escaped(c)[1] = "+"
           Other(c) == /\ Len(Escaped(c)) = 3
                       /\ Escaped(c)[1] = "%" /\ Escaped(c)[2] = c
<1>1. "+" \notin Unreserved /\ "%" \notin Unreserved /\ "+" # "%"
    BY DEF Unreserved
<1>2. ASSUME NEW c
      PROVE  Alone(c) \/ Space(c) \/ Other(c)
    BY DEF Escaped
<1>3. \A S : \A c \in S : Escaped(c) \in Seq(Encoded(S))
    <2> SUFFICES ASSUME NEW S, NEW c \in S
                 PROVE  Escaped(c) \in Seq(Encoded(S))
        OBVIOUS
    <2>1. c \in Encoded(S) /\ "+" \in Encoded(S) /\ "%" \in Encoded(S)
        BY DEF Encoded
    <2>2. <<c>> \in Seq(Encoded(S)) /\ <<"+">> \in Seq(Encoded(S))
          /\ <<"%", c, c>> \in Seq(Encoded(S))
        BY <2>1
    <2> QED  BY <2>2 DEF Escaped
<1>4. \A c : Len(Escaped(c)) \in {1, 3} /\ Escaped(c)[1] \in Heads
    BY <1>2 DEF Heads
<1>5. ASSUME NEW c, NEW d, Escaped(c)[1] = Escaped(d)[1]
      PROVE  \/ Alone(c) /\ Alone(d)
             \/ Space(c) /\ Space(d)
             \/ Other(c) /\ Other(d)
    <2>1. (Alone(c) \/ Space(c) \/ Other(c)) /\ (Alone(d) \/ Space(d) \/ Other(d))
        BY <1>2
    <2> QED  BY <1>1, <1>5, <2>1
<1>6. ASSUME NEW c, NEW d, Escaped(c)[1] = Escaped(d)[1]
      PROVE  Len(Escaped(c)) = Len(Escaped(d))
    BY <1>5, <1>6
<1>7. ASSUME NEW c, NEW d, Escaped(c)[1] = Escaped(d)[1],
             Len(Escaped(c)) = 3 => Escaped(c)[2] = Escaped(d)[2]
      PROVE  c = d
    <2>1. CASE Alone(c) /\ Alone(d)
        BY <1>7, <2>1
    <2>2. CASE Space(c) /\ Space(d)
        BY <2>2
    <2>3. CASE Other(c) /\ Other(d)
        BY <1>7, <2>3
    <2> QED  BY <1>5, <1>7, <2>1, <2>2, <2>3
<1> QED  BY <1>3, <1>4, <1>6, <1>7

\* An encoded text, and where the escape of each of its items is.
LEMMA EncodedPlaces ==
    ASSUME NEW S, NEW t \in Seq(S)
    PROVE  /\ UrlEncode(t) \in Seq(Encoded(S))
           /\ \E off \in [0..Len(t) -> Nat] :
                 /\ off[0] = 0 /\ Len(UrlEncode(t)) = off[Len(t)]
                 /\ \A i \in 1..Len(t) :
                       /\ off[i] = off[i - 1] + Len(Escaped(t[i]))
                       /\ \A h \in 1..Len(Escaped(t[i])) :
                             /\ off[i - 1] + h \in 1..Len(UrlEncode(t))
                             /\ UrlEncode(t)[off[i - 1] + h] = Escaped(t[i])[h]
<1> DEFINE n == Len(t)  X == Encoded(S)  seqs == [i \in 1..n |-> Escaped(t[i])]
<1>1. UrlEncode(t) = FlattenSeq(seqs)
    BY DEF UrlEncode, Escaped
<1>2. n \in Nat /\ \A i \in 1..n : t[i] \in S
    BY LenProperties, ElementOfSeq
<1>3. \A i \in 1..n : Escaped(t[i]) \in Seq(X)
    BY <1>2, EscapeFacts
<1> HIDE DEF X
<1>4. seqs \in Seq(Seq(X)) /\ Len(seqs) = n
    <2> DEFINE E == Seq(X)
    <2>1. \A i \in 1..n : Escaped(t[i]) \in E
        BY <1>3
    <2> HIDE DEF E, n
    <2>2. seqs \in Seq(E) /\ Len(seqs) = n
        BY <1>2, <2>1
    <2> QED  BY <2>2 DEF E
<1>5. \A i \in 1..n : seqs[i] = Escaped(t[i])
    OBVIOUS
<1> HIDE DEF seqs, n
<1> DEFINE f == FlattenSeq(seqs)
<1>6. /\ f \in Seq(X)
      /\ \E off \in [0..Len(seqs) -> Nat] :
            /\ off[0] = 0 /\ Len(f) = off[Len(seqs)]
            /\ \A i \in 1..Len(seqs) :
                  /\ off[i] = off[i - 1] + Len(seqs[i])
                  /\ \A h \in 1..Len(seqs[i]) :
                        /\ off[i - 1] + h \in 1..Len(f)
                        /\ f[off[i - 1] + h] = seqs[i][h]
    BY <1>4, FlattenPlaces
<1> HIDE DEF f
<1>7. PICK off \in [0..n -> Nat] :
          /\ off[0] = 0 /\ Len(f) = off[n]
          /\ \A i \in 1..n :
                /\ off[i] = off[i - 1] + Len(seqs[i])
                /\ \A h \in 1..Len(seqs[i]) :
                      off[i - 1] + h \in 1..Len(f) /\ f[off[i - 1] + h] = seqs[i][h]
    BY <1>4, <1>6
<1>8. \A i \in 1..n :
          /\ off[i] = off[i - 1] + Len(Escaped(t[i]))
          /\ \A h \in 1..Len(Escaped(t[i])) :
                off[i - 1] + h \in 1..Len(f) /\ f[off[i - 1] + h] = Escaped(t[i])[h]
    BY <1>5, <1>7
<1>9. UrlEncode(t) = f
    BY <1>1 DEF f
<1> QED  BY <1>6, <1>7, <1>8, <1>9 DEF n, X

\* Nothing follows, or something that no escape begins with.
Breaks(x) == x # <<>> => x[1] \notin Heads

\* Of two texts whose encodings are followed by a break, neither goes on where
\* the other has ended.
LEMMA EncodedAgree ==
    ASSUME NEW S, NEW a \in Seq(S), NEW b \in Seq(S), NEW X,
           Encoded(S) \subseteq X, NEW x \in Seq(X), NEW y \in Seq(X),
           UrlEncode(a) \o x = UrlEncode(b) \o y, Breaks(y)
    PROVE  Len(a) <= Len(b) /\ \A i \in 1..Len(a) : a[i] = b[i]
<1> DEFINE u == UrlEncode(a)  v == UrlEncode(b)  m == Len(a)  n == Len(b)
           k == Len(u)  l == Len(v)  p == u \o x  q == v \o y  g == Len(x)  h == Len(y)
<1>1. PICK f \in [0..m -> Nat] :
          /\ f[0] = 0 /\ k = f[m]
          /\ \A i \in 1..m :
                /\ f[i] = f[i - 1] + Len(Escaped(a[i]))
                /\ \A j \in 1..Len(Escaped(a[i])) :
                      f[i - 1] + j \in 1..k /\ u[f[i - 1] + j] = Escaped(a[i])[j]
    BY EncodedPlaces
<1>2. PICK e \in [0..n -> Nat] :
          /\ e[0] = 0 /\ l = e[n]
          /\ \A i \in 1..n :
                /\ e[i] = e[i - 1] + Len(Escaped(b[i]))
                /\ \A j \in 1..Len(Escaped(b[i])) :
                      e[i - 1] + j \in 1..l /\ v[e[i - 1] + j] = Escaped(b[i])[j]
    BY EncodedPlaces
<1>3. m \in Nat /\ n \in Nat
    BY LenProperties
<1>4. u \in Seq(X) /\ v \in Seq(X)
    <2>1. u \in Seq(Encoded(S)) /\ v \in Seq(Encoded(S))
        BY EncodedPlaces
    <2> HIDE DEF u, v
    <2> QED  BY <2>1, SeqMonotonic
<1>5. p = q
    OBVIOUS
<1> HIDE DEF u, v
<1>6. /\ k \in Nat /\ g \in Nat /\ Len(p) = k + g
      /\ \A i \in 1..(k + g) : p[i] = IF i <= k THEN u[i] ELSE x[i - k]
    <2>1. u \in Seq(X) /\ k \in Nat /\ g \in Nat
        BY <1>4, LenProperties
    <2>2. /\ Len(u \o x) = k + g
          /\ \A i \in 1..(k + g) :
                (u \o x)[i] = IF i <= k THEN u[i] ELSE x[i - k]
        BY <2>1, ConcatProperties
    <2> QED  BY <2>1, <2>2
<1>7. /\ l \in Nat /\ h \in Nat /\ Len(q) = l + h
      /\ \A i \in 1..(l + h) : q[i] = IF i <= l THEN v[i] ELSE y[i - l]
    <2>1. v \in Seq(X) /\ l \in Nat /\ h \in Nat
        BY <1>4, LenProperties
    <2>2. /\ Len(v \o y) = l + h
          /\ \A i \in 1..(l + h) :
                (v \o y)[i] = IF i <= l THEN v[i] ELSE y[i - l]
        BY <2>1, ConcatProperties
    <2> QED  BY <2>1, <2>2
<1>8. h > 0 => y[1] \notin Heads
    <2>1. h > 0 => y # <<>>
        BY EmptySeq
    <2> QED  BY <2>1 DEF Breaks
<1> HIDE DEF m, n, k, l, g, h, p, q
<1>9. ASSUME NEW i \in 1..m
      PROVE  /\ f[i] = f[i - 1] + Len(Escaped(a[i])) /\ f[i - 1] \in Nat
             /\ \A j \in 1..Len(Escaped(a[i])) :
                   f[i - 1] + j \in 1..Len(p) /\ p[f[i - 1] + j] = Escaped(a[i])[j]
    <2>1. i - 1 \in 0..m
        BY <1>3
    <2>2. f[i - 1] \in Nat
        BY <1>1, <2>1
    <2>3. \A o \in 1..k : o \in 1..Len(p) /\ p[o] = u[o]
        <3>1. \A o \in 1..k : o \in 1..(k + g) /\ o <= k
            BY <1>6
        <3> QED  BY <1>6, <3>1
    <2>4. /\ f[i] = f[i - 1] + Len(Escaped(a[i]))
          /\ \A j \in 1..Len(Escaped(a[i])) :
                f[i - 1] + j \in 1..k /\ u[f[i - 1] + j] = Escaped(a[i])[j]
        BY <1>1, Zenon
    <2> QED  BY <2>2, <2>3, <2>4, Zenon
<1>10. ASSUME NEW i \in 1..n
       PROVE  /\ e[i] = e[i - 1] + Len(Escaped(b[i])) /\ e[i - 1] \in Nat
              /\ \A j \in 1..Len(Escaped(b[i])) : q[e[i - 1] + j] = Escaped(b[i])[j]
    <2>1. i - 1 \in 0..n
        BY <1>3
    <2>2. e[i - 1] \in Nat
        BY <1>2, <2>1
    <2>3. \A o \in 1..l : q[o] = v[o]
        <3>1. \A o \in 1..l : o \in 1..(l + h) /\ o <= l
            BY <1>7
        <3> QED  BY <1>7, <3>1
    <2>4. /\ e[i] = e[i - 1] + Len(Escaped(b[i]))
          /\ \A j \in 1..Len(Escaped(b[i])) :
                e[i - 1] + j \in 1..l /\ v[e[i - 1] + j] = Escaped(b[i])[j]
        BY <1>2, Zenon
    <2> QED  BY <2>2, <2>3, <2>4, Zenon
<1> DEFINE T == {i \in 0..m : i <= n /\ f[i] = e[i] /\ \A j \in 1..i : a[j] = b[j]}
<1>11. 0 \in T
    BY <1>1, <1>2, <1>3
<1>12. ASSUME NEW i \in 1..m, i - 1 \in T
       PROVE  i \in T
    <2>1. i - 1 <= n /\ f[i - 1] = e[i - 1] /\ \A j \in 1..(i - 1) : a[j] = b[j]
        BY <1>12
    <2> DEFINE o == f[i - 1]  c == a[i]  d == b[i]
    <2>2. /\ o \in Nat /\ f[i] = o + Len(Escaped(c)) /\ e[i - 1] = o
          /\ \A j \in 1..Len(Escaped(c)) : o + j \in 1..Len(p) /\ p[o + j] = Escaped(c)[j]
        BY <1>9, <2>1
    <2> HIDE DEF o, c, d
    <2>3. /\ Len(Escaped(c)) \in {1, 3} /\ Escaped(c)[1] \in Heads
          /\ 1 \in 1..Len(Escaped(c))
        <3>1. Len(Escaped(c)) \in {1, 3} /\ Escaped(c)[1] \in Heads
            BY EscapeFacts
        <3> QED  BY <3>1
    <2>4. o + 1 \in 1..Len(p) /\ p[o + 1] \in Heads
        BY <2>2, <2>3
    <2>5. i <= n
        <3> SUFFICES ASSUME i - 1 = n
                     PROVE  FALSE
            BY <1>3, <2>1
        <3>1. l = o
            BY <1>2, <2>2
        <3>2. h > 0 /\ o + 1 \in 1..(l + h) /\ ~(o + 1 <= l) /\ o + 1 - l = 1
            BY <1>5, <1>7, <2>2, <2>4, <3>1
        <3>3. q[o + 1] = y[1]
            <4> DEFINE s == o + 1
            <4>1. s \in 1..(l + h) /\ ~(s <= l) /\ s - l = 1
                BY <2>2, <3>1, <3>2
            <4> HIDE DEF s
            <4>2. q[s] = y[s - l]
                BY <1>7, <4>1
            <4> QED  BY <4>1, <4>2 DEF s
        <3> QED  BY <1>5, <1>8, <2>4, <3>2, <3>3
    <2>6. i \in 1..n
        BY <2>5
    <2>7. /\ e[i] = o + Len(Escaped(d))
          /\ \A j \in 1..Len(Escaped(d)) : q[o + j] = Escaped(d)[j]
        BY <1>10, <2>2, <2>6 DEF d
    <2>8. 1 \in 1..Len(Escaped(d))
        <3> DEFINE w == Len(Escaped(d))
        <3>1. w \in {1, 3}
            BY EscapeFacts
        <3> HIDE DEF w
        <3>2. 1 \in 1..w
            BY <3>1
        <3> QED  BY <3>2 DEF w
    <2>9. Escaped(c)[1] = Escaped(d)[1]
        BY <1>5, <2>2, <2>3, <2>7, <2>8
    <2>10. Len(Escaped(c)) = Len(Escaped(d))
        BY <2>9, EscapeFacts
    <2>11. Len(Escaped(c)) = 3 => Escaped(c)[2] = Escaped(d)[2]
        <3>1. Len(Escaped(c)) = 3 =>
                  2 \in 1..Len(Escaped(c)) /\ 2 \in 1..Len(Escaped(d))
            BY <2>10
        <3> QED  BY <1>5, <2>2, <2>7, <3>1
    <2>12. c = d
        BY <2>9, <2>11, EscapeFacts
    <2>13. f[i] = e[i]
        BY <2>2, <2>7, <2>10
    <2>14. \A j \in 1..i : a[j] = b[j]
        <3>1. \A j \in 1..i : j = i \/ j \in 1..(i - 1)
            BY <1>3
        <3>2. a[i] = b[i]
            BY <2>12 DEF c, d
        <3> QED  BY <2>1, <3>1, <3>2
    <2>15. i \in 0..m
        BY <1>3
    <2> QED  BY <2>5, <2>13, <2>14, <2>15
<1>13. m \in T
    <2> HIDE DEF T
    <2>1. \A i \in 0..m : i \in T
        BY <1>3, <1>11, <1>12, Reaches
    <2> QED  BY <1>3, <2>1
<1> QED  BY <1>13 DEF m, n

\* Two texts of items of S have encodings that are alike as far as x and y.
EncodedAlike(S, X, a, b, x, y) ==
    /\ a \in Seq(S) /\ b \in Seq(S) /\ Encoded(S) \subseteq X
    /\ x \in Seq(X) /\ y \in Seq(X) /\ Breaks(x) /\ Breaks(y)
    /\ UrlEncode(a) \o x = UrlEncode(b) \o y

\* A text can be told from its encoding, and so can what follows it.
LEMMA EncodedSplits ==
    ASSUME NEW S, NEW X, NEW a, NEW b, NEW x, NEW y, EncodedAlike(S, X, a, b, x, y)
    PROVE  a = b /\ x = y
<1>0. /\ a \in Seq(S) /\ b \in Seq(S) /\ Encoded(S) \subseteq X
      /\ x \in Seq(X) /\ y \in Seq(X) /\ Breaks(x) /\ Breaks(y)
      /\ UrlEncode(a) \o x = UrlEncode(b) \o y
    BY DEF EncodedAlike
<1>1. Len(a) <= Len(b) /\ \A i \in 1..Len(a) : a[i] = b[i]
    BY <1>0, EncodedAgree
<1>2. Len(b) <= Len(a)
    <2>1. UrlEncode(b) \o y = UrlEncode(a) \o x
        BY <1>0
    <2> QED  BY <1>0, <2>1, EncodedAgree
<1>3. Len(a) = Len(b)
    BY <1>0, <1>1, <1>2, LenProperties
<1>4. a = b
    BY <1>0, <1>1, <1>3, SeqEqual
<1> DEFINE u == UrlEncode(a)
<1>5. u \in Seq(X)
    <2>1. u \in Seq(Encoded(S))
        BY <1>0, EncodedPlaces
    <2> HIDE DEF u
    <2> QED  BY <1>0, <2>1, SeqMonotonic
<1>6. u \o x = u \o y
    BY <1>0, <1>4
<1> HIDE DEF u
<1> QED  BY <1>0, <1>4, <1>5, <1>6, ConcatSimplifications

\* An argument in a path, and what the server is given of it.
Piece(label, text) ==
    IF text # NULL /\ text # <<>> THEN <<label>> \o UrlEncode(text) ELSE <<>>

Given(text) == IF text = NULL THEN <<>> ELSE text

\* No label of a path is the beginning of an escape.
Labels == {"?city=", "&country=", "&region=", "?query="}

\* The items of paths.
PathItems == Encoded(Items) \cup Labels \cup {"/v1/weather", "/v1/cities", "/"}

\* An argument that may be missing.
IsArgument(t) == t = NULL \/ t \in Seq(Items)

\* Nothing follows, or the label of another argument.
Follows(x, labels) == x # <<>> => x[1] \in labels

LEMMA LabelsBreak == Labels \cap Heads = {}
BY DEF Labels, Heads, Unreserved

LEMMA LabelledType ==
    ASSUME NEW l \in Labels, NEW t \in Seq(Items), NEW x \in Seq(PathItems)
    PROVE  /\ <<l>> \in Seq(PathItems) /\ UrlEncode(t) \in Seq(PathItems)
           /\ UrlEncode(t) \o x \in Seq(PathItems)
           /\ (<<l>> \o UrlEncode(t)) \o x = <<l>> \o (UrlEncode(t) \o x)
           /\ (<<l>> \o UrlEncode(t)) \o x # <<>>
           /\ ((<<l>> \o UrlEncode(t)) \o x)[1] = l
<1> DEFINE X == PathItems  u == UrlEncode(t)  e == <<l>>
<1>1. e \in Seq(X) /\ Len(e) = 1 /\ e[1] = l
    BY DEF PathItems
<1>2. u \in Seq(X)
    <2>1. u \in Seq(Encoded(Items))
        BY EncodedPlaces
    <2>2. Encoded(Items) \subseteq X
        BY DEF PathItems
    <2> HIDE DEF u, X
    <2> QED  BY <2>1, <2>2, SeqMonotonic
<1> HIDE DEF X, u, e
<1>3. u \o x \in Seq(X)
    BY <1>2, ConcatProperties DEF X
<1>4. (e \o u) \o x = e \o (u \o x)
    BY <1>1, <1>2, ConcatAssociative DEF X
<1> DEFINE v == u \o x
<1>5. e \o v # <<>> /\ (e \o v)[1] = l
    <2>1. v \in Seq(X)
        BY <1>3
    <2> HIDE DEF v
    <2>2. /\ Len(e \o v) = Len(e) + Len(v)
          /\ \A i \in 1..(Len(e) + Len(v)) :
                (e \o v)[i] = IF i <= Len(e) THEN e[i] ELSE v[i - Len(e)]
        BY <1>1, <2>1, ConcatProperties
    <2>3. Len(v) \in Nat
        BY <2>1, LenProperties
    <2>4. 1 \in 1..(Len(e) + Len(v)) /\ 1 <= Len(e)
        BY <1>1, <2>3
    <2>5. (e \o v)[1] = l
        BY <1>1, <2>2, <2>4
    <2>6. Len(e \o v) # 0
        BY <1>1, <2>2, <2>3
    <2> QED  BY <2>5, <2>6, EmptySeq
<1> QED  BY <1>1, <1>2, <1>3, <1>4, <1>5 DEF X, u, e

LEMMA PieceType ==
    ASSUME NEW l \in Labels, NEW t, IsArgument(t), NEW x \in Seq(PathItems), NEW L,
           Follows(x, L)
    PROVE  /\ Piece(l, t) \in Seq(PathItems) /\ Piece(l, t) \o x \in Seq(PathItems)
           /\ Follows(Piece(l, t) \o x, L \cup {l})
<1>1. CASE t # NULL /\ t # <<>>
    <2>1. t \in Seq(Items) /\ Piece(l, t) = <<l>> \o UrlEncode(t)
        BY <1>1 DEF IsArgument, Piece
    <2> DEFINE u == UrlEncode(t)  e == <<l>>  v == u \o x
    <2>2. /\ e \in Seq(PathItems) /\ u \in Seq(PathItems) /\ v \in Seq(PathItems)
          /\ (e \o u) \o x = e \o v /\ ((e \o u) \o x)[1] = l
        BY <2>1, LabelledType
    <2>3. Piece(l, t) = e \o u
        BY <2>1
    <2> HIDE DEF u, e, v
    <2>4. e \o u \in Seq(PathItems) /\ e \o v \in Seq(PathItems)
        BY <2>2, ConcatProperties
    <2> QED  BY <2>2, <2>3, <2>4 DEF Follows
<1>2. CASE ~(t # NULL /\ t # <<>>)
    <2>1. Piece(l, t) = <<>>
        BY <1>2 DEF Piece
    <2>2. <<>> \in Seq(PathItems) /\ <<>> \o x = x
        BY EmptySeq, ConcatEmptySeq
    <2> QED  BY <2>1, <2>2 DEF Follows
<1> QED  BY <1>1, <1>2

\* The pieces of two arguments are alike as far as x and y, which begin with
\* other labels.
PiecesAlike(l, a, b, L, x, y) ==
    /\ l \in Labels /\ IsArgument(a) /\ IsArgument(b) /\ L \subseteq Labels \ {l}
    /\ x \in Seq(PathItems) /\ y \in Seq(PathItems) /\ Follows(x, L) /\ Follows(y, L)
    /\ Piece(l, a) \o x = Piece(l, b) \o y

\* An argument can be told from its piece of a path, and so can what follows.
LEMMA PieceSplits ==
    ASSUME NEW l, NEW a, NEW b, NEW L, NEW x, NEW y, PiecesAlike(l, a, b, L, x, y)
    PROVE  Given(a) = Given(b) /\ x = y
<1> USE DEF PiecesAlike
<1>1. <<>> \o x = x /\ <<>> \o y = y
    BY ConcatEmptySeq
<1>2. CASE a # NULL /\ a # <<>> /\ b # NULL /\ b # <<>>
    <2>1. a \in Seq(Items) /\ Piece(l, a) = <<l>> \o UrlEncode(a)
        BY <1>2 DEF IsArgument, Piece
    <2>2. b \in Seq(Items) /\ Piece(l, b) = <<l>> \o UrlEncode(b)
        BY <1>2 DEF IsArgument, Piece
    <2> DEFINE u == UrlEncode(a)  v == UrlEncode(b)  e == <<l>>  p == u \o x  q == v \o y
    <2>3. e \in Seq(PathItems) /\ p \in Seq(PathItems) /\ (e \o u) \o x = e \o p
        BY <2>1, LabelledType
    <2>4. q \in Seq(PathItems) /\ (e \o v) \o y = e \o q
        BY <2>2, LabelledType
    <2>5. e \o p = e \o q
        BY <2>1, <2>2, <2>3, <2>4
    <2>6. p = q
        <3> HIDE DEF e, p, q
        <3> QED  BY <2>3, <2>4, <2>5, ConcatSimplifications
    <2>7. Breaks(x) /\ Breaks(y)
        BY LabelsBreak DEF Breaks, Follows
    <2>8. Encoded(Items) \subseteq PathItems
        BY DEF PathItems
    <2>9. a = b /\ x = y
        <3>1. EncodedAlike(Items, PathItems, a, b, x, y)
            BY <2>1, <2>2, <2>6, <2>7, <2>8 DEF EncodedAlike
        <3> QED  BY <3>1, EncodedSplits
    <2> QED  BY <2>9
<1>3. CASE a # NULL /\ a # <<>> /\ ~(b # NULL /\ b # <<>>)
    <2>1. a \in Seq(Items) /\ Piece(l, a) = <<l>> \o UrlEncode(a) /\ Piece(l, b) = <<>>
        BY <1>3 DEF IsArgument, Piece
    <2>2. y # <<>> /\ y[1] = l
        BY <1>1, <2>1, LabelledType
    <2> QED  BY <2>2 DEF Follows
<1>4. CASE ~(a # NULL /\ a # <<>>) /\ b # NULL /\ b # <<>>
    <2>1. b \in Seq(Items) /\ Piece(l, b) = <<l>> \o UrlEncode(b) /\ Piece(l, a) = <<>>
        BY <1>4 DEF IsArgument, Piece
    <2>2. x # <<>> /\ x[1] = l
        BY <1>1, <2>1, LabelledType
    <2> QED  BY <2>2 DEF Follows
<1>5. CASE ~(a # NULL /\ a # <<>>) /\ ~(b # NULL /\ b # <<>>)
    BY <1>1, <1>5 DEF Piece, Given
<1> QED  BY <1>2, <1>3, <1>4, <1>5

\* A path is the name of a method and the pieces of its arguments.
LEMMA PathPieces ==
    ASSUME NEW r \in Requests
    PROVE  /\ r.method = "weather" =>
                  /\ \A i \in 1..3 : IsArgument(r.args[i])
                  /\ Path(r) = <<"/v1/weather">> \o
                        (Piece("?city=", r.args[1]) \o
                            (Piece("&country=", r.args[2]) \o
                                (Piece("&region=", r.args[3]) \o <<>>)))
           /\ r.method = "cities" =>
                  /\ IsArgument(r.args[1])
                  /\ Path(r) = <<"/v1/cities">> \o (Piece("?query=", r.args[1]) \o <<>>)
           /\ r.method = "homepage" => Path(r) = <<"/">>
<1> DEFINE X == PathItems
<1>1. \A i \in DOMAIN r.args : IsArgument(r.args[i])
    BY ArgumentType DEF IsArgument
<1>2. <<>> \in Seq(X) /\ Follows(<<>>, {})
    BY EmptySeq DEF Follows
<1>3. /\ "?city=" \in Labels /\ "&country=" \in Labels
      /\ "&region=" \in Labels /\ "?query=" \in Labels
    BY DEF Labels
<1>4. ASSUME NEW l \in Labels, NEW t, IsArgument(t)
      PROVE  Piece(l, t) \in Seq(X) /\ Piece(l, t) \o <<>> = Piece(l, t)
    <2>1. Piece(l, t) \in Seq(X)
        BY <1>2, <1>4, PieceType
    <2> QED  BY <2>1, ConcatEmptySeq
<1>5. ASSUME r.method = "weather"
      PROVE  /\ \A i \in 1..3 : IsArgument(r.args[i])
             /\ Path(r) = <<"/v1/weather">> \o
                   (Piece("?city=", r.args[1]) \o
                       (Piece("&country=", r.args[2]) \o
                           (Piece("&region=", r.args[3]) \o <<>>)))
    <2> DEFINE head == <<"/v1/weather">>  a == Piece("?city=", r.args[1])
               b == Piece("&country=", r.args[2])  c == Piece("&region=", r.args[3])
    <2>1. \A i \in 1..3 : IsArgument(r.args[i])
        BY <1>1, <1>5, Methods
    <2>2. IsArgument(r.args[1]) /\ IsArgument(r.args[2]) /\ IsArgument(r.args[3])
        BY <2>1
    <2>3. /\ a \in Seq(X) /\ b \in Seq(X) /\ c \in Seq(X) /\ c \o <<>> = c
          /\ head \in Seq(X)
        BY <1>3, <1>4, <2>2 DEF PathItems
    <2>4. Path(r) = ((head \o a) \o b) \o c
        BY <1>5 DEF Path, Piece
    <2>5. \A p, q, o \in Seq(X) : p \o q \in Seq(X) /\ (p \o q) \o o = p \o (q \o o)
        BY ConcatAssociative, ConcatProperties
    <2> HIDE DEF head, a, b, c, X
    <2>6. ((head \o a) \o b) \o c = (head \o a) \o (b \o c)
        <3> DEFINE u == head \o a
        <3>1. u \in Seq(X)
            BY <2>3, <2>5
        <3> HIDE DEF u
        <3>2. (u \o b) \o c = u \o (b \o c)
            BY <2>3, <2>5, <3>1
        <3> QED  BY <3>2 DEF u
    <2>7. (head \o a) \o (b \o c) = head \o (a \o (b \o c))
        <3> DEFINE u == b \o c
        <3>1. u \in Seq(X)
            BY <2>3, <2>5
        <3> HIDE DEF u
        <3>2. (head \o a) \o u = head \o (a \o u)
            BY <2>3, <2>5, <3>1
        <3> QED  BY <3>2 DEF u
    <2>8. Path(r) = head \o (a \o (b \o (c \o <<>>)))
        BY <2>3, <2>4, <2>6, <2>7
    <2> QED  BY <2>1, <2>8 DEF head, a, b, c
<1>6. ASSUME r.method = "cities"
      PROVE  /\ IsArgument(r.args[1])
             /\ Path(r) = <<"/v1/cities">> \o (Piece("?query=", r.args[1]) \o <<>>)
    <2>1. IsArgument(r.args[1])
        <3>1. 1 \in DOMAIN r.args
            BY <1>6, Methods
        <3> QED  BY <1>1, <3>1
    <2>2. Piece("?query=", r.args[1]) \o <<>> = Piece("?query=", r.args[1])
        BY <1>3, <1>4, <2>1
    <2> QED  BY <1>6, <2>1, <2>2 DEF Path, Piece
<1>7. ASSUME r.method = "homepage"
      PROVE  Path(r) = <<"/">>
    BY <1>7 DEF Path
<1> QED  BY <1>5, <1>6, <1>7

\* The first item of a path is that of its method.
LEMMA PathTellsMethod ==
    ASSUME NEW r \in Requests, NEW s \in Requests, Path(r) = Path(s)
    PROVE  r.method = s.method
<1> DEFINE name == [weather |-> "/v1/weather", cities |-> "/v1/cities", homepage |-> "/"]
<1>1. ASSUME NEW w \in PathItems, NEW z \in Seq(PathItems)
      PROVE  (<<w>> \o z)[1] = w
    <2> DEFINE h == <<w>>  X == PathItems
    <2>1. h \in Seq(X) /\ Len(h) = 1 /\ h[1] = w
        OBVIOUS
    <2> HIDE DEF h, X
    <2>2. z \in Seq(X)
        BY DEF X
    <2>3. \A i \in 1..(Len(h) + Len(z)) :
              (h \o z)[i] = IF i <= Len(h) THEN h[i] ELSE z[i - Len(h)]
        BY <2>1, <2>2, ConcatProperties
    <2>4. 1 \in 1..(Len(h) + Len(z)) /\ 1 <= Len(h)
        BY <2>1, <2>2, LenProperties
    <2>5. (h \o z)[1] = h[1]
        BY <2>3, <2>4
    <2> QED  BY <2>1, <2>5 DEF h
<1>2. /\ "?city=" \in Labels /\ "&country=" \in Labels
      /\ "&region=" \in Labels /\ "?query=" \in Labels
    BY DEF Labels
<1>3. "/v1/weather" \in PathItems /\ "/v1/cities" \in PathItems /\ "/" \in PathItems
    BY DEF PathItems
<1>4. <<>> \in Seq(PathItems) /\ \A x : Follows(x, {x[1]})
    BY EmptySeq DEF Follows
<1>5. ASSUME NEW l \in Labels, NEW t, IsArgument(t), NEW x \in Seq(PathItems)
      PROVE  Piece(l, t) \o x \in Seq(PathItems)
    BY <1>4, <1>5, PieceType
<1>6. ASSUME NEW q \in Requests
      PROVE  Path(q)[1] = name[q.method]
    <2>1. CASE q.method = "weather"
        <3> DEFINE c == Piece("&region=", q.args[3]) \o <<>>
                   b == Piece("&country=", q.args[2]) \o c
                   a == Piece("?city=", q.args[1]) \o b
        <3>1. /\ IsArgument(q.args[1]) /\ IsArgument(q.args[2]) /\ IsArgument(q.args[3])
              /\ Path(q) = <<"/v1/weather">> \o a
            BY <2>1, PathPieces
        <3>2. c \in Seq(PathItems)
            BY <1>2, <1>4, <1>5, <3>1
        <3> HIDE DEF c
        <3>3. b \in Seq(PathItems)
            BY <1>2, <1>5, <3>1, <3>2
        <3> HIDE DEF b
        <3>4. a \in Seq(PathItems)
            BY <1>2, <1>5, <3>1, <3>3
        <3> HIDE DEF a
        <3>5. Path(q)[1] = "/v1/weather"
            BY <1>1, <1>3, <3>1, <3>4
        <3> QED  BY <2>1, <3>5
    <2>2. CASE q.method = "cities"
        <3> DEFINE a == Piece("?query=", q.args[1]) \o <<>>
        <3>1. IsArgument(q.args[1]) /\ Path(q) = <<"/v1/cities">> \o a
            BY <2>2, PathPieces
        <3>2. a \in Seq(PathItems)
            BY <1>2, <1>4, <1>5, <3>1
        <3> HIDE DEF a
        <3>3. Path(q)[1] = "/v1/cities"
            BY <1>1, <1>3, <3>1, <3>2
        <3> QED  BY <2>2, <3>3
    <2>3. CASE q.method = "homepage"
        BY <2>3, PathPieces
    <2> QED  BY <2>1, <2>2, <2>3, Methods
<1>7. name[r.method] = name[s.method]
    BY <1>6
<1> QED  BY <1>7, Methods

\* Requests with the same path have the same method and are given the same
\* arguments.
LEMMA PathTellsRequest ==
    ASSUME NEW r \in Requests, NEW s \in Requests, Path(r) = Path(s)
    PROVE  /\ r.method = s.method
           /\ \A i \in DOMAIN r.args : Given(r.args[i]) = Given(s.args[i])
<1> DEFINE X == PathItems
<1>1. /\ "?city=" \in Labels /\ "&country=" \in Labels
      /\ "&region=" \in Labels /\ "?query=" \in Labels
      /\ {"&region="} \subseteq Labels \ {"&country="}
      /\ {"&country=", "&region="} \subseteq Labels \ {"?city="}
    BY DEF Labels
<1>2. <<>> \in Seq(X) /\ \A L : Follows(<<>>, L)
    BY EmptySeq DEF Follows
<1>3. ASSUME NEW q \in Requests, q.method = "weather"
      PROVE  LET c == Piece("&region=", q.args[3]) \o <<>>
                 b == Piece("&country=", q.args[2]) \o c
                 a == Piece("?city=", q.args[1]) \o b
             IN  /\ IsArgument(q.args[1]) /\ IsArgument(q.args[2]) /\ IsArgument(q.args[3])
                 /\ a \in Seq(X) /\ b \in Seq(X) /\ c \in Seq(X)
                 /\ Follows(b, {"&country=", "&region="}) /\ Follows(c, {"&region="})
                 /\ Path(q) = <<"/v1/weather">> \o a
    <2> DEFINE c == Piece("&region=", q.args[3]) \o <<>>
               b == Piece("&country=", q.args[2]) \o c
               a == Piece("?city=", q.args[1]) \o b
    <2>1. /\ IsArgument(q.args[1]) /\ IsArgument(q.args[2]) /\ IsArgument(q.args[3])
          /\ Path(q) = <<"/v1/weather">> \o a
        BY <1>3, PathPieces
    <2>2. c \in Seq(X) /\ Follows(c, {"&region="})
        <3>1. Follows(c, {} \cup {"&region="}) /\ c \in Seq(X)
            BY <1>1, <1>2, <2>1, PieceType
        <3> QED  BY <3>1
    <2> HIDE DEF c
    <2>3. b \in Seq(X) /\ Follows(b, {"&country=", "&region="})
        <3>1. Follows(b, {"&region="} \cup {"&country="}) /\ b \in Seq(X)
            BY <1>1, <2>1, <2>2, PieceType
        <3>2. {"&region="} \cup {"&country="} = {"&country=", "&region="}
            OBVIOUS
        <3> QED  BY <3>1, <3>2
    <2> HIDE DEF b
    <2>4. a \in Seq(X)
        BY <1>1, <2>1, <2>3, PieceType
    <2> QED  BY <2>1, <2>2, <2>3, <2>4 DEF b, c
<1>4. r.method = s.method
    BY PathTellsMethod
<1>5. CASE r.method = "weather"
    <2> DEFINE head == <<"/v1/weather">>
               c(q) == Piece("&region=", q.args[3]) \o <<>>
               b(q) == Piece("&country=", q.args[2]) \o c(q)
               a(q) == Piece("?city=", q.args[1]) \o b(q)
    <2>1. ASSUME NEW q \in Requests, q.method = "weather"
          PROVE  /\ IsArgument(q.args[1]) /\ IsArgument(q.args[2]) /\ IsArgument(q.args[3])
                 /\ a(q) \in Seq(X) /\ b(q) \in Seq(X) /\ c(q) \in Seq(X)
                 /\ Follows(b(q), {"&country=", "&region="}) /\ Follows(c(q), {"&region="})
                 /\ Path(q) = head \o a(q)
        BY <1>3, <2>1
    <2>2. s.method = "weather"
        BY <1>4, <1>5
    <2>3. head \in Seq(X)
        BY DEF PathItems
    <2>4. a(r) = a(s)
        <3>1. head \o a(r) = head \o a(s) /\ a(r) \in Seq(X) /\ a(s) \in Seq(X)
            BY <1>5, <2>1, <2>2
        <3> HIDE DEF head, a, X
        <3> QED  BY <2>3, <3>1, ConcatSimplifications
    <2>5. Given(r.args[1]) = Given(s.args[1]) /\ b(r) = b(s)
        <3>1. PiecesAlike("?city=", r.args[1], s.args[1], {"&country=", "&region="},
                          b(r), b(s))
            <4> HIDE DEF b, c
            <4> QED  BY <1>1, <1>5, <2>1, <2>2, <2>4 DEF PiecesAlike
        <3> HIDE DEF b, c
        <3> QED  BY <3>1, PieceSplits
    <2>6. Given(r.args[2]) = Given(s.args[2]) /\ c(r) = c(s)
        <3>1. PiecesAlike("&country=", r.args[2], s.args[2], {"&region="}, c(r), c(s))
            <4> HIDE DEF c
            <4> QED  BY <1>1, <1>5, <2>1, <2>2, <2>5 DEF PiecesAlike
        <3> HIDE DEF c
        <3> QED  BY <3>1, PieceSplits
    <2>7. Given(r.args[3]) = Given(s.args[3])
        <3>1. PiecesAlike("&region=", r.args[3], s.args[3], {}, <<>>, <<>>)
            BY <1>1, <1>2, <1>5, <2>1, <2>2, <2>6 DEF PiecesAlike
        <3> QED  BY <3>1, PieceSplits
    <2>8. DOMAIN r.args = 1..3 /\ \A i \in 1..3 : i = 1 \/ i = 2 \/ i = 3
        BY <1>5, Methods
    <2> QED  BY <1>4, <2>5, <2>6, <2>7, <2>8
<1>6. CASE r.method = "cities"
    <2> DEFINE head == <<"/v1/cities">>
               a(q) == Piece("?query=", q.args[1]) \o <<>>
    <2>1. ASSUME NEW q \in Requests, q.method = "cities"
          PROVE  IsArgument(q.args[1]) /\ a(q) \in Seq(X) /\ Path(q) = head \o a(q)
        <3>1. IsArgument(q.args[1]) /\ Path(q) = head \o a(q)
            BY <2>1, PathPieces
        <3> QED  BY <1>1, <1>2, <3>1, PieceType
    <2>2. s.method = "cities"
        BY <1>4, <1>6
    <2>3. head \in Seq(X)
        BY DEF PathItems
    <2>4. a(r) = a(s)
        <3>1. head \o a(r) = head \o a(s) /\ a(r) \in Seq(X) /\ a(s) \in Seq(X)
            BY <1>6, <2>1, <2>2
        <3> HIDE DEF head, a, X
        <3> QED  BY <2>3, <3>1, ConcatSimplifications
    <2>5. Given(r.args[1]) = Given(s.args[1])
        <3>1. PiecesAlike("?query=", r.args[1], s.args[1], {}, <<>>, <<>>)
            BY <1>1, <1>2, <1>6, <2>1, <2>2, <2>4 DEF PiecesAlike
        <3> QED  BY <3>1, PieceSplits
    <2>6. DOMAIN r.args = 1..1 /\ \A i \in 1..1 : i = 1
        BY <1>6, Methods
    <2> QED  BY <1>4, <2>5, <2>6
<1>7. CASE r.method = "homepage"
    <2>1. DOMAIN r.args = {}
        BY <1>7, Methods
    <2> QED  BY <1>4, <2>1
<1> QED  BY <1>5, <1>6, <1>7, Methods

-----------------------------------------------------------------------------
(***************************************************************************)
(* What an answer was asked for.                                           *)
(***************************************************************************)

\* A file is called by the hash of a key.
IsFileOf(name, r) == \E junk \in Junk : name = HashMd5String(Key(r), junk)

\* The response in the cache has the file of its request, and was sent for it
\* or for what was left of it.
StoredInv ==
    stored # NULL =>
        /\ stored.request \in Requests
        /\ stored.sent \in Sent(stored.request)
        /\ IsFileOf(stored.file, stored.request)
        /\ stored.path = Cut(Path(stored.sent))
        /\ ~short => stored.sent = stored.request

\* What was answered was sent for a request with the same key.
AnswerInv ==
    /\ file # NULL => IsFileOf(file, asked)
    /\ answer # NULL /\ ~short => Key(answer) = Key(asked)

NamesInv == TypeOK /\ StoredInv /\ AnswerInv

\* What is sent may be asked for too.
LEMMA SentType == \A r \in Requests : Sent(r) \subseteq Requests
BY OptionalAssumption DEF Sent

\* Requests with the same file have the same key.
LEMMA FilesTellKeys ==
    ASSUME NEW r \in Requests, NEW s \in Requests, NEW name,
           IsFileOf(name, r), IsFileOf(name, s)
    PROVE  Key(r) = Key(s)
<1>1. PICK j \in Junk : name = HashMd5String(Key(r), j)
    BY DEF IsFileOf
<1>2. PICK k \in Junk : name = HashMd5String(Key(s), k)
    BY DEF IsFileOf
<1>3. Key(r) \in Seq(KeyItems) /\ Key(s) \in Seq(KeyItems)
    BY KeyType
<1> QED  BY <1>1, <1>2, <1>3, HashTellsText

LEMMA NamesInit == Init => NamesInv
<1> SUFFICES ASSUME Init
             PROVE  NamesInv
    OBVIOUS
<1>1. stored = NULL /\ asked \in Requests /\ file = NULL /\ answer = NULL /\ short = FALSE
    BY RequestAssumption DEF Init
<1>2. made \in 0..MaxRequests
    BY RequestAssumption DEF Init
<1> QED  BY <1>1, <1>2 DEF NamesInv, TypeOK, StoredInv, AnswerInv

LEMMA NamesStep == NamesInv /\ [Next]_vars => NamesInv'
<1> SUFFICES ASSUME NamesInv, [Next]_vars
             PROVE  NamesInv'
    OBVIOUS
<1>1. CASE Next
    <2>1. made < MaxRequests /\ made' = made + 1 /\ made' \in 0..MaxRequests
        BY <1>1, RequestAssumption DEF Next, NamesInv, TypeOK
    <2>2. PICK r \in Requests : Hit(r) \/ Miss(r) \/ Reject(r)
        BY <1>1 DEF Next
    <2>3. CASE Hit(r)
        <3>1. /\ IsFileOf(file', r) /\ stored # NULL /\ stored.file = file'
              /\ asked' = r /\ answer' = stored.sent
              /\ stored' = stored /\ short' = short
            BY <2>3 DEF Hit, Cached, IsFileOf
        <3>2. /\ stored.request \in Requests /\ stored.sent \in Requests
              /\ IsFileOf(stored.file, stored.request)
            BY <3>1, SentType DEF NamesInv, StoredInv
        <3>3. Key(stored.request) = Key(r)
            BY <3>1, <3>2, FilesTellKeys
        <3>4. TypeOK'
            BY <2>1, <3>1, <3>2 DEF NamesInv, TypeOK
        <3>5. StoredInv'
            BY <3>1 DEF NamesInv, StoredInv
        <3>6. AnswerInv'
            <4>1. IsFileOf(file', asked')
                BY <3>1
            <4>2. ~short' => Key(answer') = Key(asked')
                BY <3>1, <3>3 DEF NamesInv, StoredInv
            <4> QED  BY <4>1, <4>2 DEF AnswerInv, IsFileOf
        <3> QED  BY <3>4, <3>5, <3>6 DEF NamesInv
    <2>4. CASE Miss(r)
        <3>1. /\ IsFileOf(file', r)
              /\ asked' = r /\ answer' \in Sent(r)
              /\ stored' = [file |-> file', request |-> r, sent |-> answer',
                            path |-> Cut(Path(answer'))]
              /\ short' = (short \/ answer' # r)
            BY <2>4 DEF Miss, IsFileOf
        <3>2. answer' \in Requests
            BY <3>1, SentType
        <3>3. TypeOK'
            <4>1. short' \in BOOLEAN
                BY <3>1
            <4> QED  BY <2>1, <3>1, <3>2, <4>1 DEF TypeOK
        <3>4. /\ stored'.request = r /\ stored'.sent = answer' /\ stored'.file = file'
              /\ stored'.path = Cut(Path(answer'))
            BY <3>1
        <3>5. StoredInv'
            <4>1. ~short' => answer' = r
                BY <3>1
            <4> QED  BY <3>1, <3>4, <4>1 DEF StoredInv, IsFileOf
        <3>6. AnswerInv'
            BY <3>1, <3>4 DEF AnswerInv, IsFileOf
        <3> QED  BY <3>3, <3>5, <3>6 DEF NamesInv
    <2>5. CASE Reject(r)
        <3>1. /\ asked' = r /\ file' = NULL /\ answer' = NULL
              /\ stored' = stored /\ short' = short
            BY <2>5 DEF Reject
        <3>2. TypeOK'
            BY <2>1, <3>1 DEF NamesInv, TypeOK
        <3>3. StoredInv'
            BY <3>1 DEF NamesInv, StoredInv
        <3>4. AnswerInv'
            BY <3>1 DEF AnswerInv
        <3> QED  BY <3>2, <3>3, <3>4 DEF NamesInv
    <2> QED  BY <2>2, <2>3, <2>4, <2>5
<1>2. CASE UNCHANGED vars
    BY <1>2 DEF vars, NamesInv, TypeOK, StoredInv, AnswerInv, IsFileOf
<1> QED  BY <1>1, <1>2

LEMMA NamesInvariant == Spec => []NamesInv
BY NamesInit, NamesStep, PTL DEF Spec

\* Whatever is asked for in whatever order, every variable keeps its type.
THEOREM NamesTypeCorrect == Spec => []TypeOK
<1>1. NamesInv => TypeOK
    BY DEF NamesInv
<1> QED  BY <1>1, NamesInvariant, PTL

\* For a key of any length and any rest on the stack, what is hashed is the key
\* padded as MD5 says: a command finds the files of the ones before.
THEOREM FilesAreHashes == Spec => []FileIsHashOfKey
<1>1. NamesInv => FileIsHashOfKey
    <2> SUFFICES ASSUME NamesInv, file # NULL
                 PROVE  FlattenSeq(file) = Padded(Key(asked))
        BY DEF FileIsHashOfKey
    <2>1. asked \in Requests /\ IsFileOf(file, asked)
        BY DEF NamesInv, TypeOK, AnswerInv
    <2>2. PICK junk \in Junk : file = HashMd5String(Key(asked), junk)
        BY <2>1 DEF IsFileOf
    <2> QED  BY <2>1, <2>2, KeyType, HashIsPadded
<1> QED  BY <1>1, NamesInvariant, PTL

\* The key of a request says what was asked for: whatever requests were made
\* before in whatever order, the cache answers with the response to one that
\* differs in case and separators only.
THEOREM AnswersAreAskedFor == Spec => []AnswersTheRequest
<1>1. NamesInv => AnswersTheRequest
    <2> SUFFICES ASSUME NamesInv, answer # NULL, ~short, Plain(asked), Plain(answer)
                 PROVE  Same(asked, answer)
        BY DEF AnswersTheRequest
    <2>1. asked \in Requests /\ answer \in Requests
        BY DEF NamesInv, TypeOK
    <2>2. Key(asked) = Key(answer)
        BY DEF NamesInv, AnswerInv
    <2> QED  BY <2>1, <2>2, KeyTellsRequest
<1> QED  BY <1>1, NamesInvariant, PTL

\* A response that was stored for the same words is found, whatever their case
\* and their separators are and whatever the stack held at each hash.
THEOREM FoundAgain == Spec => FoundInAnyCase
<1>1. NamesInv /\ [Next]_vars
        => [stored # NULL /\ file' # NULL /\ Same(asked', stored.request)
            => answer' = stored.sent]_vars
    <2> SUFFICES ASSUME NamesInv, Next, stored # NULL, file' # NULL,
                        Same(asked', stored.request)
                 PROVE  answer' = stored.sent
        OBVIOUS
    <2>1. PICK r \in Requests : Hit(r) \/ Miss(r) \/ Reject(r)
        BY DEF Next
    <2>2. CASE Hit(r)
        BY <2>2 DEF Hit
    <2>3. CASE Miss(r)
        <3>1. asked' = r /\ ~Cached(file')
            BY <2>3 DEF Miss
        <3>2. PICK junk \in Junk : file' = HashMd5String(Key(r), junk)
            BY <2>3 DEF Miss
        <3>3. stored.request \in Requests /\ IsFileOf(stored.file, stored.request)
            BY DEF NamesInv, StoredInv
        <3>4. Key(r) = Key(stored.request) /\ Key(r) \in Seq(KeyItems)
            BY <3>1, <3>3, SameKey, KeyType
        <3>5. PICK other \in Junk : stored.file = HashMd5String(Key(r), other)
            BY <3>3, <3>4 DEF IsFileOf
        <3>6. stored.file = file'
            BY <3>2, <3>4, <3>5, HashIsOfText
        <3> QED  BY <3>1, <3>6 DEF Cached
    <2>4. CASE Reject(r)
        BY <2>4 DEF Reject
    <2> QED  BY <2>1, <2>2, <2>3, <2>4
<1> QED  BY <1>1, NamesInvariant, PTL DEF Spec, FoundInAnyCase

\* The path of a request says what was asked for: no two requests with
\* different arguments are asked for with the same path, unless it is cut.
THEOREM PathsAreTold == Spec => []PathsTellArguments
<1>1. NamesInv => PathsTellArguments
    <2> SUFFICES ASSUME NamesInv, stored # NULL, stored.path = Path(asked),
                        stored.path = Path(stored.sent)
                 PROVE  LET given(r) == [i \in DOMAIN r.args |->
                                            IF r.args[i] = NULL THEN <<>> ELSE r.args[i]]
                        IN  /\ asked.method = stored.sent.method
                            /\ given(asked) = given(stored.sent)
        BY DEF PathsTellArguments
    <2> DEFINE r == asked  s == stored.sent
    <2>1. r \in Requests /\ s \in Requests
        BY SentType DEF NamesInv, TypeOK, StoredInv
    <2>2. Path(r) = Path(s)
        OBVIOUS
    <2> HIDE DEF r, s
    <2>3. r.method = s.method /\ \A i \in DOMAIN r.args : Given(r.args[i]) = Given(s.args[i])
        BY <2>1, <2>2, PathTellsRequest
    <2>4. DOMAIN r.args = DOMAIN s.args
        BY <2>1, <2>3, RequestAssumption
    <2> QED  BY <2>3, <2>4 DEF Given, r, s
<1> QED  BY <1>1, NamesInvariant, PTL
===============================================================================
