-------------------------- MODULE ChunkedDecodeProofs --------------------------
(***************************************************************************)
(* Proofs about ChunkedDecode, for any bodies, any size of the first       *)
(* buffer, any strtoul, and with memory failing or not.                    *)
(***************************************************************************)
EXTENDS ChunkedDecode, ListLemmas

\* The text is no longer than what of the body is dealt with.
TextWithinBody == in \in Bodies /\ Len(out) <= pos

DecodeInv == TypeOK /\ TextWithinBody /\ RoomForText

\* What the body and the text are made of.
Bytes == {in[i] : i \in 1..Len(in)}

\* The lengths and positions as numbers, for the provers.
LEMMA Lengths ==
    ASSUME DecodeInv
    PROVE  /\ Len(in) \in Nat /\ Len(out) \in Nat
           /\ out \in Seq(Bytes)
           /\ pos \in Nat /\ pos <= Len(in)
           /\ size \in Nat /\ alloc \in Nat /\ FirstAlloc \in Nat
<1>1. IsSeq(in)
    BY DecodeAssumption DEF DecodeInv, TextWithinBody
<1>2. in \in Seq(Bytes)
    BY <1>1 DEF IsSeq, Bytes
<1>3. Len(in) \in Nat
    BY <1>2, LenProperties
<1>4. out \in Seq(Bytes)
    BY DEF DecodeInv, TypeOK, Bytes
<1>5. Len(out) \in Nat
    BY <1>4, LenProperties
<1>6. pos \in 0..Len(in) /\ size \in Nat /\ alloc \in Nat
    BY DEF DecodeInv, TypeOK
<1> QED  BY <1>3, <1>4, <1>5, <1>6, DecodeAssumption

\* Part of the body is made of its bytes.
LEMMA PartOfBody ==
    ASSUME Len(in) \in Nat, NEW m \in 0..Len(in), NEW n \in 0..Len(in), m <= n
    PROVE  /\ SubSeq(in, m + 1, n) \in Seq(Bytes)
           /\ Len(SubSeq(in, m + 1, n)) = n - m
<1>1. m + 1 \in Int /\ n \in Int /\ \A i \in (m + 1)..n : in[i] \in Bytes
    BY DEF Bytes
<1>2. /\ SubSeq(in, m + 1, n) \in Seq(Bytes)
      /\ Len(SubSeq(in, m + 1, n)) = IF m + 1 <= n THEN n - (m + 1) + 1 ELSE 0
    BY <1>1, SubSeqProperties
<1> QED  BY <1>2

-----------------------------------------------------------------------------
\* At first the text is empty and the buffer is not.
LEMMA DecodeInit == Init => DecodeInv
<1> SUFFICES ASSUME Init PROVE DecodeInv
    OBVIOUS
<1>1. IsSeq(in)
    BY DecodeAssumption DEF Init
<1>2. Len(in) \in Nat
    BY <1>1, LenProperties DEF IsSeq
<1>3. out \in Seq(Bytes) /\ Len(out) = 0
    BY DEF Init
<1>4. pos \in 0..Len(in) /\ size \in Nat /\ alloc \in Nat
    BY <1>2, DecodeAssumption DEF Init
<1>5. TypeOK
    BY <1>3, <1>4 DEF TypeOK, Init, Bytes
<1>6. TextWithinBody
    BY <1>3 DEF TextWithinBody, Init
<1>7. RoomForText
    BY <1>3, DecodeAssumption DEF RoomForText, Init
<1> QED  BY <1>5, <1>6, <1>7 DEF DecodeInv

\* A step that leaves the text and the buffer alone keeps the invariant when
\* what it moves stays in its type.
LEMMA TextUntouched ==
    ASSUME DecodeInv, UNCHANGED <<in, out, alloc>>,
           pos' \in 0..Len(in), pos <= pos', size' \in Nat,
           pc' \in {"line", "last", "chunk", "end", "done"},
           result' \in {"none", "ok", "malformed", "nomem"}
    PROVE  DecodeInv'
<1>1. TypeOK'
    BY DEF DecodeInv, TypeOK
<1>2. TextWithinBody'
    <2>1. pos' \in Nat
        BY Lengths
    <2> QED  BY <2>1, Lengths DEF DecodeInv, TextWithinBody
<1>3. RoomForText'
    BY DEF DecodeInv, RoomForText
<1> QED  BY <1>1, <1>2, <1>3 DEF DecodeInv

\* A body that is given up leaves nothing behind.
LEMMA FailKeeps ==
    ASSUME DecodeInv, NEW why \in {"malformed", "nomem"}, Fail(why)
    PROVE  DecodeInv'
BY TextUntouched, Lengths DEF Fail, DecodeInv, TypeOK

\* The line is within the body, and so is the line end behind it.
LEMMA ReadSizeKeeps == DecodeInv /\ ReadSize => DecodeInv'
<1> SUFFICES ASSUME DecodeInv, ReadSize PROVE DecodeInv'
    OBVIOUS
<1> USE Lengths
<1>1. PICK end \in (pos + 1)..(Len(in) - 1) :
          /\ LineEndsAt(end)
          /\ Strtoul(SubSeq(in, pos + 1, end)) # NULL
          /\ size' = Strtoul(SubSeq(in, pos + 1, end))
          /\ pos' = end + 2
    BY DEF ReadSize
<1>2. end + 1 < Len(in)
    BY <1>1 DEF LineEndsAt, CRLFAt
<1>3. pos' \in 0..Len(in) /\ pos <= pos'
    BY <1>1, <1>2
<1>4. in \in Bodies /\ pos + 1 \in 1..Len(in) /\ end \in 1..Len(in)
    BY <1>2 DEF DecodeInv, TextWithinBody
<1>5. Strtoul(SubSeq(in, pos + 1, end)) \in Nat \cup {NULL}
    BY <1>4, DecodeAssumption
<1>6. size' \in Nat
    BY <1>1, <1>5
<1>7. pc' \in {"last", "chunk"} /\ UNCHANGED <<in, out, alloc, result>>
    BY DEF ReadSize
<1>8. result' \in {"none", "ok", "malformed", "nomem"}
    BY <1>7 DEF DecodeInv, TypeOK
<1> QED  BY <1>3, <1>6, <1>7, <1>8, TextUntouched

\* The chunk of size 0 ends the loop.
LEMMA LastChunkKeeps == DecodeInv /\ LastChunk => DecodeInv'
<1> SUFFICES ASSUME DecodeInv, LastChunk PROVE DecodeInv'
    OBVIOUS
<1>1. pos' \in 0..Len(in) /\ pos <= pos'
    BY Lengths DEF LastChunk, CRLFAt
<1> QED  BY <1>1, TextUntouched DEF LastChunk, DecodeInv, TypeOK

\* The buffer grows when the chunk, which is within the body, does not fit: it
\* was no larger than the body then.
LEMMA GrowKeeps == DecodeInv /\ Grow => DecodeInv'
<1> SUFFICES ASSUME DecodeInv, Grow PROVE DecodeInv'
    OBVIOUS
<1> USE Lengths
<1>1. alloc' = 2 * alloc /\ UNCHANGED <<in, pos, size, out, pc, result>>
    BY DEF Grow
<1>2. alloc <= Len(in)
    BY DEF Grow, Fits, DecodeInv, TextWithinBody
<1>3. TypeOK'
    <2>1. alloc' \in Nat
        BY <1>1
    <2> QED  BY <1>1, <2>1 DEF DecodeInv, TypeOK
<1>4. TextWithinBody'
    BY <1>1 DEF DecodeInv, TextWithinBody
<1>5. RoomForText'
    <2>1. Len(out) + 1 <= 2 * alloc /\ 2 * alloc <= 2 * Len(in)
        BY <1>2 DEF DecodeInv, RoomForText
    <2> QED  BY <1>1, <2>1 DEF RoomForText
<1> QED  BY <1>3, <1>4, <1>5 DEF DecodeInv

\* The chunk and its line end are within the body, the text grows by the chunk.
LEMMA TakeChunkKeeps == DecodeInv /\ TakeChunk => DecodeInv'
<1> SUFFICES ASSUME DecodeInv, TakeChunk PROVE DecodeInv'
    OBVIOUS
<1> USE Lengths
<1> DEFINE chunk == SubSeq(in, pos + 1, pos + size)
<1>1. /\ out' = out \o chunk
      /\ pos' = pos + size + 2 /\ pc' = "line"
      /\ UNCHANGED <<in, size, alloc, result>>
    BY DEF TakeChunk
<1>2. pos + size + 2 <= Len(in)
    BY DEF TakeChunk, CRLFAt
<1>3. chunk \in Seq(Bytes) /\ Len(chunk) = size
    <2>1. pos \in 0..Len(in) /\ pos + size \in 0..Len(in) /\ pos <= pos + size
        BY <1>2
    <2>2. Len(chunk) = (pos + size) - pos /\ chunk \in Seq(Bytes)
        BY <2>1, PartOfBody
    <2> QED  BY <2>2
<1> HIDE DEF chunk
<1>4. out' \in Seq(Bytes) /\ Len(out') = Len(out) + size
    BY <1>1, <1>3, ConcatProperties
<1>5. TypeOK'
    <2>1. out' \in Seq({in'[i] : i \in 1..Len(in')})
        BY <1>1, <1>4 DEF Bytes
    <2>2. pos' \in 0..Len(in')
        BY <1>1, <1>2
    <2> QED  BY <1>1, <2>1, <2>2 DEF DecodeInv, TypeOK
<1>6. TextWithinBody'
    <2>1. Len(out) + size <= pos + size + 2
        BY DEF DecodeInv, TextWithinBody
    <2> QED  BY <1>1, <1>4, <2>1 DEF DecodeInv, TextWithinBody
<1>7. RoomForText'
    <2>1. Len(out) + size + 1 <= alloc
        BY DEF TakeChunk, Fits
    <2> QED  BY <1>1, <1>4, <2>1 DEF DecodeInv, RoomForText
<1> QED  BY <1>5, <1>6, <1>7 DEF DecodeInv

\* The buffer needs no more room at the end.
LEMMA FinishKeeps == DecodeInv /\ Finish => DecodeInv'
<1> SUFFICES ASSUME DecodeInv, Finish PROVE DecodeInv'
    OBVIOUS
<1>1. ~(Len(out) + 1 > alloc)
    BY Lengths DEF DecodeInv, RoomForText
<1>2. UNCHANGED <<in, pos, size, out, alloc>> /\ pc' = "done" /\ result' = "ok"
    BY <1>1 DEF Finish
<1> QED  BY <1>2, TextUntouched, Lengths DEF DecodeInv, TypeOK

\* The invariant is inductive.
LEMMA DecodeStep == DecodeInv /\ [Next]_vars => DecodeInv'
<1> SUFFICES ASSUME DecodeInv, [Next]_vars PROVE DecodeInv'
    OBVIOUS
<1>1. CASE ReadSize
    BY <1>1, ReadSizeKeeps
<1>2. CASE BadLine
    BY <1>2, FailKeeps DEF BadLine
<1>3. CASE LastChunk
    BY <1>3, LastChunkKeeps
<1>4. CASE Grow
    BY <1>4, GrowKeeps
<1>5. CASE TakeChunk
    BY <1>5, TakeChunkKeeps
<1>6. CASE BadChunk
    BY <1>6, FailKeeps DEF BadChunk
<1>7. CASE LoopEnds
    BY <1>7, TextUntouched, Lengths DEF LoopEnds, DecodeInv, TypeOK
<1>8. CASE Finish
    BY <1>8, FinishKeeps
<1>9. CASE NoMemory
    BY <1>9, FailKeeps DEF NoMemory
<1>10. CASE UNCHANGED vars
    BY <1>10, TextUntouched, Lengths DEF vars, DecodeInv, TypeOK
<1> QED
    BY <1>1, <1>2, <1>3, <1>4, <1>5, <1>6, <1>7, <1>8, <1>9, <1>10
    DEF Next, Decode

\* It holds for every body.
LEMMA DecodeInvariant == Spec => []DecodeInv
BY DecodeInit, DecodeStep, PTL DEF Spec

-----------------------------------------------------------------------------
\* Every index and length of decode_chunked stays where it belongs: pos never
\* passes the end of the body, whatever the body is.
THEOREM DecodeTypeCorrect == Spec => []TypeOK
<1>1. DecodeInv => TypeOK
    BY DEF DecodeInv
<1> QED  BY <1>1, DecodeInvariant, PTL

\* Nothing is written beyond the buffer, of whatever size at first, and it is
\* never more than twice the body: the growth by doubling is neither short by
\* the NUL nor without bound.
THEOREM BufferIsEnough == Spec => []RoomForText
<1>1. DecodeInv => RoomForText
    BY DEF DecodeInv
<1> QED  BY <1>1, DecodeInvariant, PTL

-----------------------------------------------------------------------------
(***************************************************************************)
(* What the bytes from a position on stand for is defined by recursion     *)
(* towards the end of the body.  Induction is by the least number of a     *)
(* set.                                                                    *)
(***************************************************************************)

\* Of a body that may come.
LEMMA BodyFacts ==
    ASSUME in \in Bodies
    PROVE  /\ in \in Seq(Bytes) /\ Len(in) \in Nat
           /\ NULL \notin Seq(Bytes) /\ NULL \notin Nat
           /\ \A i, j \in 1..Len(in) : Strtoul(SubSeq(in, i, j)) \in Nat \cup {NULL}
<1>1. in \in Seq(Bytes)
    BY DecodeAssumption DEF IsSeq, Bytes
<1> QED  BY <1>1, LenProperties, DecodeAssumption DEF Bytes

\* The first line end is one, and no other is before it.
LEMMA FirstEndIsFirst ==
    ASSUME in \in Bodies, NEW p \in 0..Len(in), Ends(p) # {}
    PROVE  FirstEnd(p) \in Ends(p) /\ \A r \in Ends(p) : FirstEnd(p) <= r
<1>1. Ends(p) \subseteq Nat
    BY BodyFacts DEF Ends
<1>2. \E q \in Ends(p) : \A r \in Ends(p) : q <= r
    BY <1>1, LeastNumber
<1> QED  BY <1>2 DEF FirstEnd

\* A line that has a number is within the body.
LEMMA SizeType ==
    ASSUME in \in Bodies, NEW p \in 0..Len(in)
    PROVE  /\ Size(p).value \in Nat \cup {NULL}
           /\ Size(p).value # NULL =>
                 Size(p).from \in Nat /\ p < Size(p).from /\ Size(p).from <= Len(in)
<1> USE BodyFacts
<1>1. CASE Ends(p) = {} \/ FirstEnd(p) = p
    BY <1>1 DEF Size
<1>2. CASE ~(Ends(p) = {} \/ FirstEnd(p) = p)
    <2>1. FirstEnd(p) \in Ends(p)
        BY <1>2, FirstEndIsFirst
    <2>2. FirstEnd(p) \in (p + 1)..(Len(in) - 2)
        BY <1>2, <2>1 DEF Ends
    <2>3. p + 1 \in 1..Len(in) /\ FirstEnd(p) \in 1..Len(in)
        BY <2>2
    <2>4. Strtoul(SubSeq(in, p + 1, FirstEnd(p))) \in Nat \cup {NULL}
        BY <2>3
    <2> QED  BY <1>2, <2>2, <2>4 DEF Size
<1> QED  BY <1>1, <1>2

\* What a chunk is depends on what follows it.
LEMMA ChunksLater ==
    ASSUME in \in Bodies, NEW p \in 0..Len(in), NEW f, NEW g,
           \A q \in (p + 1)..Len(in) : f[q] = g[q]
    PROVE  Chunks(f, p) = Chunks(g, p)
<1> USE BodyFacts
<1>1. CASE p = Len(in) \/ Size(p).value \in {NULL, 0}
    BY <1>1 DEF Chunks
<1>2. CASE ~(p = Len(in) \/ Size(p).value \in {NULL, 0})
    <2> DEFINE n == Size(p).value  m == Size(p).from
    <2>1. n \in Nat /\ m \in Nat /\ p < m /\ m <= Len(in)
        BY <1>2, SizeType
    <2> HIDE DEF n, m
    <2>2. m + n \in Ends(m) => m + n + 2 \in (p + 1)..Len(in)
        BY <2>1 DEF Ends
    <2>3. Chunk(f, m, n) = Chunk(g, m, n)
        BY <2>2 DEF Chunk
    <2> QED  BY <1>2, <2>3 DEF Chunks, m, n
<1> QED  BY <1>1, <1>2

\* There is a function that the recursion defines.
LEMMA MeaningExists ==
    ASSUME in \in Bodies
    PROVE  \E f : f = [p \in 0..Len(in) |-> Chunks(f, p)]
<1> USE BodyFacts
<1> DEFINE From(k) == (Len(in) - k)..Len(in)
           Solves(f, k) == f = [p \in From(k) |-> Chunks(f, p)]
           T == {k \in 0..Len(in) : ~\E f : Solves(f, k)}
<1>1. SUFFICES T = {}
    <2>1. Len(in) \notin T
        BY <1>1
    <2>2. PICK f : Solves(f, Len(in))
        BY <2>1
    <2>3. From(Len(in)) = 0..Len(in)
        OBVIOUS
    <2> QED  BY <2>2, <2>3
<1>2. SUFFICES ASSUME T # {} PROVE FALSE
    OBVIOUS
<1>3. T \subseteq Nat
    OBVIOUS
<1> HIDE DEF T
<1>4. PICK k \in T : \A y \in T : k <= y
    BY <1>2, <1>3, LeastNumber
<1>5. k \in 0..Len(in) /\ ~\E f : Solves(f, k)
    BY <1>4 DEF T
<1> DEFINE here == Len(in) - k
<1>6. PICK g : /\ DOMAIN g = (here + 1)..Len(in)
               /\ \A p \in (here + 1)..Len(in) : g[p] = Chunks(g, p)
    <2>1. CASE k = 0
        <3> DEFINE e == [p \in (here + 1)..Len(in) |-> NULL]
        <3>1. (here + 1)..Len(in) = {}
            BY <2>1
        <3>2. DOMAIN e = (here + 1)..Len(in)
            OBVIOUS
        <3> HIDE DEF e
        <3> QED  BY <3>1, <3>2
    <2>2. CASE k # 0
        <3>1. k - 1 \in 0..Len(in) /\ k - 1 \notin T
            BY <1>4, <1>5, <2>2
        <3>2. PICK g : Solves(g, k - 1)
            BY <3>1 DEF T
        <3>3. From(k - 1) = (here + 1)..Len(in)
            BY <1>5
        <3> QED  BY <3>2, <3>3
    <2> QED  BY <2>1, <2>2
<1> DEFINE f == [p \in From(k) |-> IF p = here THEN Chunks(g, p) ELSE g[p]]
<1>7. From(k) \subseteq 0..Len(in) /\ here \in 0..Len(in) /\ here \in From(k)
    BY <1>5
<1>8. \A q \in (here + 1)..Len(in) : f[q] = g[q] /\ q \in From(k)
    BY <1>5
<1>9. ASSUME NEW p \in From(k)
      PROVE  Chunks(f, p) = Chunks(g, p)
    <2>1. \A q \in (p + 1)..Len(in) : f[q] = g[q]
        BY <1>5, <1>8
    <2> HIDE DEF f
    <2> QED  BY <1>7, <2>1, ChunksLater
<1>10. ASSUME NEW p \in From(k)
       PROVE  f[p] = Chunks(f, p)
    <2>1. p = here \/ p \in (here + 1)..Len(in)
        BY <1>5
    <2>2. p \in (here + 1)..Len(in) => g[p] = Chunks(g, p)
        BY <1>6
    <2>3. f[p] = Chunks(g, p)
        BY <2>1, <2>2, <1>8
    <2> QED  BY <1>9, <2>3
<1>11. Solves(f, k)
    <2> DEFINE h == [p \in From(k) |-> Chunks(f, p)]
    <2>1. DOMAIN f = From(k) /\ DOMAIN h = From(k)
        OBVIOUS
    <2>2. \A p \in From(k) : h[p] = f[p]
        BY <1>10
    <2> QED  BY <2>1, <2>2, Zenon
<1> QED  BY <1>5, <1>11

\* MeaningFrom is that function.
LEMMA MeaningIs ==
    ASSUME in \in Bodies
    PROVE  \A p \in 0..Len(in) : MeaningFrom[p] = Chunks(MeaningFrom, p)
<1>1. PICK f : f = [p \in 0..Len(in) |-> Chunks(f, p)]
    BY MeaningExists
<1>2. MeaningFrom = CHOOSE g : g = [p \in 0..Len(in) |-> Chunks(g, p)]
    BY DEF MeaningFrom
<1>3. MeaningFrom = [p \in 0..Len(in) |-> Chunks(MeaningFrom, p)]
    BY <1>1, <1>2
<1> HIDE DEF MeaningFrom
<1> QED  BY <1>3

\* What bytes stand for is a text made of them.
LEMMA MeaningType ==
    ASSUME in \in Bodies
    PROVE  \A p \in 0..Len(in) : MeaningFrom[p] \in Seq(Bytes) \cup {NULL}
<1> USE BodyFacts
<1> HIDE DEF MeaningFrom
<1> DEFINE Wrong(p) == MeaningFrom[p] \notin Seq(Bytes) \cup {NULL}
           T == {k \in 0..Len(in) : Wrong(Len(in) - k)}
<1>1. SUFFICES T = {}
    <2>1. \A p \in 0..Len(in) : Len(in) - p \in 0..Len(in) /\ Len(in) - (Len(in) - p) = p
        OBVIOUS
    <2>2. \A p \in 0..Len(in) : ~Wrong(Len(in) - (Len(in) - p))
        BY <1>1, <2>1
    <2> QED  BY <2>1, <2>2
<1>2. SUFFICES ASSUME T # {} PROVE FALSE
    OBVIOUS
<1>3. T \subseteq Nat
    OBVIOUS
<1>4. PICK k \in T : \A y \in T : k <= y
    <2> HIDE DEF T
    <2> QED  BY <1>2, <1>3, LeastNumber
<1> DEFINE p == Len(in) - k
<1>5. k \in 0..Len(in) /\ p \in 0..Len(in) /\ Wrong(p)
    BY <1>4
<1>6. ASSUME NEW q \in 0..Len(in), p < q
      PROVE  ~Wrong(q)
    <2>1. Len(in) - q \in 0..Len(in) /\ Len(in) - (Len(in) - q) = q
        BY <1>5
    <2>2. ~(k <= Len(in) - q)
        BY <1>5, <1>6
    <2>3. Len(in) - q \notin T
        BY <1>4, <2>2
    <2> QED  BY <2>1, <2>3
<1> HIDE DEF T, p
<1>7. MeaningFrom[p] = Chunks(MeaningFrom, p)
    BY <1>5, MeaningIs
<1>8. CASE p = Len(in) \/ Size(p).value \in {NULL, 0}
    <2>1. <<>> \in Seq(Bytes)
        OBVIOUS
    <2> QED  BY <1>5, <1>7, <1>8, <2>1 DEF Chunks
<1>9. CASE ~(p = Len(in) \/ Size(p).value \in {NULL, 0})
    <2> DEFINE n == Size(p).value  m == Size(p).from
    <2>1. n \in Nat /\ m \in Nat /\ p < m /\ m <= Len(in)
        BY <1>5, <1>9, SizeType
    <2>2. MeaningFrom[p] = Chunk(MeaningFrom, m, n)
        BY <1>7, <1>9 DEF Chunks
    <2> HIDE DEF n, m
    <2>3. CASE m + n \notin Ends(m) \/ MeaningFrom[m + n + 2] = NULL
        BY <1>5, <2>2, <2>3 DEF Chunk
    <2>4. CASE ~(m + n \notin Ends(m) \/ MeaningFrom[m + n + 2] = NULL)
        <3>1. m + n + 2 \in 0..Len(in) /\ p < m + n + 2
            BY <1>5, <2>1, <2>4 DEF Ends
        <3>2. MeaningFrom[m + n + 2] \in Seq(Bytes)
            BY <1>6, <2>4, <3>1
        <3>3. SubSeq(in, m + 1, m + n) \in Seq(Bytes)
            BY <2>1, <3>1, PartOfBody
        <3>4. MeaningFrom[p] = SubSeq(in, m + 1, m + n) \o MeaningFrom[m + n + 2]
            BY <2>2, <2>4 DEF Chunk
        <3>5. MeaningFrom[p] \in Seq(Bytes)
            BY <3>2, <3>3, <3>4, ConcatProperties
        <3> QED  BY <1>5, <3>5
    <2> QED  BY <2>3, <2>4
<1> QED  BY <1>8, <1>9

-----------------------------------------------------------------------------
(***************************************************************************)
(* The text is what the bytes dealt with stand for.                        *)
(***************************************************************************)

\* A text, and what the rest of the body stands for.
Joined(text, rest) == IF rest = NULL THEN NULL ELSE text \o rest

\* What has been copied, together with what is still to be read, is what the
\* body stands for.
MeaningInv ==
    /\ pc = "line" => Meaning = Joined(out, MeaningFrom[pos])
    /\ pc = "chunk" => Meaning = Joined(out, Chunk(MeaningFrom, pos, size))
    /\ pc \in {"last", "end"} => Meaning = out
    /\ pc # "done" => result = "none"
    /\ DecodesMeaning

\* The body stays what it is.
LEMMA MeaningStays ==
    ASSUME UNCHANGED in
    PROVE  /\ MeaningFrom' = MeaningFrom /\ Meaning' = Meaning
           /\ \A p, n : Chunk(MeaningFrom, p, n)' = Chunk(MeaningFrom, p, n)
<1>1. MeaningFrom' = MeaningFrom
    BY DEF MeaningFrom, Chunks, Chunk, Size, FirstEnd, Ends
<1>2. Meaning' = Meaning
    BY <1>1 DEF Meaning
<1>3. ASSUME NEW p, NEW n
      PROVE  Chunk(MeaningFrom, p, n)' = Chunk(MeaningFrom, p, n)
    BY <1>1 DEF Chunk, Ends
<1> QED  BY <1>1, <1>2, <1>3

\* The line that the code finds is the one the size is read from.
LEMMA LineIsFirst ==
    ASSUME in \in Bodies, pos \in 0..Len(in), NEW end \in (pos + 1)..(Len(in) - 1),
           LineEndsAt(end)
    PROVE  Size(pos) = [value |-> Strtoul(SubSeq(in, pos + 1, end)), from |-> end + 2]
<1> USE BodyFacts
<1>1. end \in Ends(pos)
    BY DEF LineEndsAt, CRLFAt, Ends
<1>2. FirstEnd(pos) \in Ends(pos) /\ FirstEnd(pos) <= end
    BY <1>1, FirstEndIsFirst
<1>3. FirstEnd(pos) = end
    <2>1. FirstEnd(pos) \in pos..(Len(in) - 2) /\ CRLFAt(FirstEnd(pos))
        BY <1>2 DEF Ends, CRLFAt
    <2>2. ~(FirstEnd(pos) \in pos..(end - 1))
        BY <2>1 DEF LineEndsAt
    <2> QED  BY <1>2, <2>1, <2>2
<1> QED  BY <1>1, <1>3 DEF Size

\* ... and when it finds none with a number there is none.
LEMMA NoLineNoSize ==
    ASSUME in \in Bodies, pos \in 0..Len(in),
           ~\E end \in (pos + 1)..(Len(in) - 1) :
               LineEndsAt(end) /\ Strtoul(SubSeq(in, pos + 1, end)) # NULL
    PROVE  Size(pos).value = NULL
<1> USE BodyFacts
<1>1. CASE Ends(pos) = {} \/ FirstEnd(pos) = pos
    BY <1>1 DEF Size
<1>2. CASE ~(Ends(pos) = {} \/ FirstEnd(pos) = pos)
    <2> DEFINE end == FirstEnd(pos)
    <2>1. end \in Ends(pos) /\ \A r \in Ends(pos) : end <= r
        BY <1>2, FirstEndIsFirst
    <2>2. end \in (pos + 1)..(Len(in) - 2) /\ CRLFAt(end)
        BY <1>2, <2>1 DEF Ends, CRLFAt
    <2>3. \A q \in pos..(end - 1) : ~CRLFAt(q)
        <3> SUFFICES ASSUME NEW q \in pos..(end - 1), CRLFAt(q)
                     PROVE  FALSE
            OBVIOUS
        <3>1. q \in Ends(pos) /\ q < end
            BY <2>2 DEF Ends, CRLFAt
        <3> QED  BY <2>1, <2>2, <3>1
    <2>4. LineEndsAt(end) /\ end \in (pos + 1)..(Len(in) - 1)
        BY <2>2, <2>3 DEF LineEndsAt
    <2>5. Strtoul(SubSeq(in, pos + 1, end)) = NULL
        BY <2>4
    <2> QED  BY <1>2, <2>5 DEF Size
<1> QED  BY <1>1, <1>2

\* At first everything is still to be read.
LEMMA MeaningInit == Init => MeaningInv
<1> SUFFICES ASSUME Init PROVE MeaningInv
    OBVIOUS
<1> USE BodyFacts
<1>1. in \in Bodies /\ pos = 0 /\ out = <<>> /\ pc = "line" /\ result = "none"
    BY DEF Init
<1>2. MeaningFrom[0] \in Seq(Bytes) \cup {NULL}
    BY <1>1, MeaningType
<1> HIDE DEF MeaningFrom
<1>3. Meaning = Joined(out, MeaningFrom[pos])
    <2>1. MeaningFrom[0] # NULL => <<>> \o MeaningFrom[0] = MeaningFrom[0]
        BY <1>2
    <2> QED  BY <1>1, <2>1 DEF Meaning, Joined
<1> QED  BY <1>1, <1>3 DEF MeaningInv, DecodesMeaning

\* Every step keeps what the text and the rest stand for together.
LEMMA MeaningStep ==
    ASSUME DecodeInv, MeaningInv, [Next]_vars
    PROVE  MeaningInv'
<1> USE Lengths
<1> HIDE DEF MeaningFrom, Meaning
<1>1. in \in Bodies /\ pos \in 0..Len(in)
    BY DEF DecodeInv, TextWithinBody, TypeOK
<1>2. in' = in
    BY DEF Next, Decode, ReadSize, BadLine, LastChunk, Grow, TakeChunk, BadChunk,
           LoopEnds, Finish, NoMemory, Fail, vars
<1>3. /\ MeaningFrom' = MeaningFrom /\ Meaning' = Meaning
      /\ \A p, n : Chunk(MeaningFrom, p, n)' = Chunk(MeaningFrom, p, n)
    BY <1>2, MeaningStays
<1>4. /\ MeaningFrom[pos] = Chunks(MeaningFrom, pos)
      /\ NULL \notin Seq(Bytes) /\ NULL \notin Nat
      /\ <<>> # NULL /\ out \o <<>> = out
    <2>1. <<>> \in Seq(Bytes) /\ out \in Seq(Bytes)
        OBVIOUS
    <2>2. out \o <<>> = out
        BY <2>1, ConcatEmptySeq
    <2> QED  BY <1>1, <2>1, <2>2, MeaningIs, BodyFacts
<1>5. ASSUME NEW why \in {"malformed", "nomem"}, Fail(why),
             why = "malformed" => Meaning = NULL
      PROVE  MeaningInv'
    BY <1>3, <1>5 DEF Fail, MeaningInv, DecodesMeaning
<1>6. CASE ReadSize
    <2>1. PICK end \in (pos + 1)..(Len(in) - 1) :
              /\ LineEndsAt(end)
              /\ Strtoul(SubSeq(in, pos + 1, end)) # NULL
              /\ size' = Strtoul(SubSeq(in, pos + 1, end))
              /\ pos' = end + 2
        BY <1>6 DEF ReadSize
    <2>2. Size(pos) = [value |-> size', from |-> pos'] /\ size' # NULL
        BY <1>1, <2>1, LineIsFirst
    <2>3. pos # Len(in) /\ pc = "line" /\ result' = "none" /\ out' = out
        BY <1>6 DEF ReadSize, MeaningInv
    <2>4. Meaning = Joined(out, Chunks(MeaningFrom, pos))
        BY <1>4, <2>3 DEF MeaningInv
    <2>5. CASE size' = 0
        <3>1. Chunks(MeaningFrom, pos) = <<>>
            BY <2>2, <2>3, <2>5 DEF Chunks
        <3>3. Meaning = out
            BY <1>4, <2>4, <3>1 DEF Joined
        <3>4. pc' = "last"
            BY <1>6, <2>5 DEF ReadSize
        <3> QED  BY <1>3, <2>3, <3>3, <3>4 DEF MeaningInv, DecodesMeaning
    <2>6. CASE size' # 0
        <3>1. Chunks(MeaningFrom, pos) = Chunk(MeaningFrom, pos', size')
            BY <2>2, <2>3, <2>6 DEF Chunks
        <3>2. Meaning' = Joined(out', Chunk(MeaningFrom, pos, size)')
            BY <1>2, <1>3, <2>3, <2>4, <3>1 DEF Chunk, Ends, Joined
        <3>3. pc' = "chunk"
            BY <1>6, <2>6 DEF ReadSize
        <3> QED  BY <2>3, <3>2, <3>3 DEF MeaningInv, DecodesMeaning, Joined
    <2> QED  BY <2>5, <2>6
<1>7. CASE BadLine
    <2>1. Size(pos).value = NULL
        BY <1>1, <1>7, NoLineNoSize DEF BadLine
    <2>2. Chunks(MeaningFrom, pos) = NULL
        BY <1>7, <2>1 DEF BadLine, Chunks
    <2>3. Meaning = NULL
        BY <1>4, <1>7, <2>2 DEF BadLine, MeaningInv, Joined
    <2> QED  BY <1>5, <1>7, <2>3 DEF BadLine
<1>8. CASE LastChunk
    BY <1>3, <1>8 DEF LastChunk, MeaningInv, DecodesMeaning
<1>9. CASE Grow \/ UNCHANGED vars
    BY <1>3, <1>9 DEF Grow, vars, MeaningInv, DecodesMeaning, Joined
<1>10. CASE TakeChunk
    <2> DEFINE chunk == SubSeq(in, pos + 1, pos + size)
               rest == MeaningFrom[pos + size + 2]
    <2>1. pos + size \in Ends(pos) /\ pos + size + 2 \in 0..Len(in)
        <3>1. CRLFAt(pos + size)
            BY <1>10 DEF TakeChunk
        <3>2. pos + size \in pos..(Len(in) - 2) /\ pos + size + 2 \in 0..Len(in)
            BY <3>1 DEF CRLFAt
        <3> QED  BY <3>1, <3>2 DEF CRLFAt, Ends
    <2>2. rest \in Seq(Bytes) \cup {NULL}
        BY <1>1, <2>1, MeaningType
    <2>3. chunk \in Seq(Bytes)
        <3>1. pos \in 0..Len(in) /\ pos + size \in 0..Len(in) /\ pos <= pos + size
            BY <1>1, <2>1
        <3> QED  BY <3>1, PartOfBody
    <2>4. Meaning = Joined(out, Chunk(MeaningFrom, pos, size))
        BY <1>10 DEF TakeChunk, MeaningInv
    <2>5. Chunk(MeaningFrom, pos, size) = IF rest = NULL THEN NULL ELSE chunk \o rest
        BY <2>1 DEF Chunk
    <2>6. /\ out' = out \o chunk /\ pos' = pos + size + 2 /\ pc' = "line"
          /\ result' = "none"
        BY <1>10 DEF TakeChunk, MeaningInv
    <2> HIDE DEF chunk, rest
    <2>7. Meaning = Joined(out \o chunk, rest)
        <3>1. CASE rest = NULL
            BY <2>4, <2>5, <3>1 DEF Joined
        <3>2. CASE rest # NULL
            <4>1. rest \in Seq(Bytes) /\ chunk \o rest \in Seq(Bytes)
                BY <2>2, <2>3, <3>2, ConcatProperties
            <4>2. chunk \o rest # NULL
                BY <1>4, <4>1
            <4>3. (out \o chunk) \o rest = out \o (chunk \o rest)
                BY <2>3, <4>1, ConcatAssociative
            <4> QED  BY <2>4, <2>5, <3>2, <4>2, <4>3 DEF Joined
        <3> QED  BY <3>1, <3>2
    <2>8. Meaning' = Joined(out', MeaningFrom'[pos'])
        BY <1>3, <2>6, <2>7 DEF rest
    <2> QED  BY <2>6, <2>8 DEF MeaningInv, DecodesMeaning, Joined
<1>11. CASE BadChunk
    <2>1. pos + size \notin Ends(pos)
        BY <1>11 DEF BadChunk, CRLFAt, Ends
    <2>2. Chunk(MeaningFrom, pos, size) = NULL
        BY <2>1 DEF Chunk
    <2>3. Meaning = NULL
        BY <1>11, <2>2 DEF BadChunk, MeaningInv, Joined
    <2> QED  BY <1>5, <1>11, <2>3 DEF BadChunk
<1>12. CASE LoopEnds
    <2>1. MeaningFrom[pos] = <<>>
        BY <1>4, <1>12 DEF LoopEnds, Chunks
    <2>3. Meaning = out
        BY <1>4, <1>12, <2>1 DEF LoopEnds, MeaningInv, Joined
    <2> QED  BY <1>3, <1>12, <2>3 DEF LoopEnds, MeaningInv, DecodesMeaning
<1>13. CASE Finish
    BY <1>3, <1>13 DEF Finish, MeaningInv, DecodesMeaning
<1>14. CASE NoMemory
    BY <1>5, <1>14 DEF NoMemory
<1> QED
    BY <1>6, <1>7, <1>8, <1>9, <1>10, <1>11, <1>12, <1>13, <1>14 DEF Next, Decode

\* A body is refused only when it is not a sequence of chunks, and otherwise
\* the text is the bytes of its chunks, for any body: a chunk may hold line
\* ends, digits and whatever looks like another chunk.
THEOREM TextIsMeaning == Spec => []DecodesMeaning
<1>1. MeaningInv => DecodesMeaning
    BY DEF MeaningInv
<1>2. DecodeInv /\ MeaningInv /\ [Next]_vars => MeaningInv'
    BY MeaningStep
<1> QED  BY <1>1, <1>2, MeaningInit, DecodeInvariant, PTL DEF Spec
================================================================================
