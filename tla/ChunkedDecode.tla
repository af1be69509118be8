---------------------------- MODULE ChunkedDecode ----------------------------
(***************************************************************************)
(* decode_chunked (network/http_client.c): the body of a response with     *)
(* "Transfer-Encoding: chunked" is taken apart, a chunk at a time, into a  *)
(* buffer that grows by doubling.                                          *)
(*                                                                         *)
(* HttpClient has this function as Decodes, which says what it accepts of  *)
(* a body that the server may have cut short.  Here is how it comes to     *)
(* that, byte by byte: the indices, the buffer and the early returns.      *)
(*                                                                         *)
(* Bytes are counted from 0, as in the code: byte p is in[p + 1].          *)
(* Numbers do not wrap: no size a body announces is near 2^64.             *)
(***************************************************************************)
EXTENDS Integers, Sequences

CONSTANTS
    Bodies,         \* what may follow the header of a response
    CR, LF,         \* two of the bytes
    Strtoul(_),     \* the hexadecimal number a line begins with, or NULL
    FirstAlloc,     \* bytes allocated at first, 1024
    MemoryFaults,   \* malloc and realloc may return NULL
    NULL

IsSeq(s) == s \in Seq({s[i] : i \in 1..Len(s)})

\* Lines are cut out of bodies, and are not empty when they are read.
ASSUME DecodeAssumption ==
    /\ \A b \in Bodies :
          /\ IsSeq(b)
          /\ \A i, j \in 1..Len(b) : Strtoul(SubSeq(b, i, j)) \in Nat \cup {NULL}
          /\ NULL \notin Seq({b[i] : i \in 1..Len(b)})
    /\ FirstAlloc \in Nat \ {0}
    /\ MemoryFaults \in BOOLEAN
    /\ NULL \notin Nat

VARIABLES
    in,     \* the body
    pos,    \* the bytes of it that are dealt with
    size,   \* chunk_size
    out,    \* buf, up to buf_len
    alloc,  \* bytes allocated for buf
    pc,     \* "line": about to read a size, "last": it was zero,
            \* "chunk": it was not, "end": after the loop, "done"
    result  \* what the function has returned

vars == <<in, pos, size, out, alloc, pc, result>>

TypeOK ==
    /\ pos \in 0..Len(in)
    /\ size \in Nat
    /\ out \in Seq({in[i] : i \in 1..Len(in)})
    /\ alloc \in Nat
    /\ pc \in {"line", "last", "chunk", "end", "done"}
    /\ result \in {"none", "ok", "malformed", "nomem"}

Init ==
    /\ in \in Bodies
    /\ pos = 0 /\ size = 0 /\ out = <<>> /\ alloc = FirstAlloc
    /\ pc = "line" /\ result = "none"

\* The bytes p and p + 1 are there and end a line.
CRLFAt(p) == p + 1 < Len(in) /\ in[p + 1] = CR /\ in[p + 2] = LF

\* Mutant: the search for a line stops at any CR.
LineEndsAtCR(p) ==
    /\ p \in pos..(Len(in) - 1) /\ in[p + 1] = CR
    /\ \A q \in pos..(p - 1) : in[q + 1] # CR

\* The line that begins at pos ends at p.
LineEndsAt(p) ==
    /\ p \in pos..(Len(in) - 1) /\ CRLFAt(p)
    /\ \A q \in pos..(p - 1) : ~CRLFAt(q)

\* Mutant: the buffer is not counted with the NUL that ends it.
FitsExactly == Len(out) + size <= alloc

\* The chunk and the NUL behind it find room in the buffer.
Fits == Len(out) + size + 1 <= alloc

-----------------------------------------------------------------------------
\* The buffer is freed; the body that was passed in is left to the caller.
Fail(why) ==
    /\ result' = why /\ pc' = "done"
    /\ UNCHANGED <<in, pos, size, out, alloc>>

\* The next line has a number, the size of the chunk.
ReadSize ==
    /\ pc = "line" /\ pos < Len(in)
    /\ \E end \in (pos + 1)..(Len(in) - 1) :
          /\ LineEndsAt(end)
          /\ Strtoul(SubSeq(in, pos + 1, end)) # NULL
          /\ size' = Strtoul(SubSeq(in, pos + 1, end))
          /\ pos' = end + 2
    /\ pc' = IF size' = 0 THEN "last" ELSE "chunk"
    /\ UNCHANGED <<in, out, alloc, result>>

\* ... it has none, is empty or does not end.
BadLine ==
    /\ pc = "line" /\ pos < Len(in)
    /\ ~\E end \in (pos + 1)..(Len(in) - 1) :
          LineEndsAt(end) /\ Strtoul(SubSeq(in, pos + 1, end)) # NULL
    /\ Fail("malformed")

\* An empty chunk is the last one, whatever follows the line behind it.
LastChunk ==
    /\ pc = "last"
    /\ pos' = IF CRLFAt(pos) THEN pos + 2 ELSE pos
    /\ pc' = "end"
    /\ UNCHANGED <<in, size, out, alloc, result>>

\* Mutant: the buffer grows by a fixed amount, once it is there.
GrowOnce ==
    /\ pc = "chunk" /\ pos + size <= Len(in) /\ ~Fits
    /\ alloc' = IF alloc = FirstAlloc THEN 2 * alloc ELSE alloc
    /\ UNCHANGED <<in, pos, size, out, pc, result>>

\* The buffer grows until the chunk fits.
Grow ==
    /\ pc = "chunk" /\ pos + size <= Len(in) /\ ~Fits
    /\ alloc' = 2 * alloc
    /\ UNCHANGED <<in, pos, size, out, pc, result>>

\* Mutant: the line end behind a chunk is taken for granted.
TakeChunkBlindly ==
    /\ pc = "chunk" /\ pos + size <= Len(in) /\ Fits
    /\ out' = out \o SubSeq(in, pos + 1, pos + size)
    /\ pos' = IF pos + size + 2 > Len(in) THEN Len(in) ELSE pos + size + 2
    /\ pc' = "line"
    /\ UNCHANGED <<in, size, alloc, result>>

\* The chunk is copied, and a line end follows.
TakeChunk ==
    /\ pc = "chunk" /\ pos + size <= Len(in) /\ Fits
    /\ CRLFAt(pos + size)
    /\ out' = out \o SubSeq(in, pos + 1, pos + size)
    /\ pos' = pos + size + 2
    /\ pc' = "line"
    /\ UNCHANGED <<in, size, alloc, result>>

\* ... is longer than what is left of the body, or nothing ends it.
BadChunk ==
    /\ pc = "chunk"
    /\ \/ pos + size > Len(in)
       \/ Fits /\ ~CRLFAt(pos + size)
    /\ Fail("malformed")

\* The body ends where a line would begin.
LoopEnds ==
    /\ pc = "line" /\ pos = Len(in)
    /\ pc' = "end"
    /\ UNCHANGED <<in, pos, size, out, alloc, result>>

\* The text is ended with a NUL and handed over.
Finish ==
    /\ pc = "end"
    /\ alloc' = IF Len(out) + 1 > alloc THEN Len(out) + 1 ELSE alloc
    /\ pc' = "done" /\ result' = "ok"
    /\ UNCHANGED <<in, pos, size, out>>

\* One of the allocations fails: the buffer, the copy of a line, a larger
\* buffer.
NoMemory ==
    /\ MemoryFaults
    /\ \/ pc = "line" /\ pos = 0
       \/ pc = "line" /\ \E end \in (pos + 1)..(Len(in) - 1) : LineEndsAt(end)
       \/ pc = "chunk" /\ pos + size <= Len(in) /\ ~Fits
    /\ Fail("nomem")

Decode ==
    \/ ReadSize \/ BadLine \/ LastChunk
    \/ Grow \/ TakeChunk \/ BadChunk
    \/ LoopEnds \/ Finish

Next == Decode \/ NoMemory

\* A loop of the program goes on; that memory runs out is not for it to wait
\* for.
Spec == Init /\ [][Next]_vars /\ WF_vars(Decode)

-----------------------------------------------------------------------------
(***************************************************************************)
(* Properties.                                                             *)
(***************************************************************************)

\* The line ends from p on, and the first of them.
Ends(p) == {q \in p..(Len(in) - 2) : in[q + 1] = CR /\ in[q + 2] = LF}
FirstEnd(p) == CHOOSE q \in Ends(p) : \A r \in Ends(p) : q <= r

\* The number on the line at p, and where the next line begins.
Size(p) ==
    IF Ends(p) = {} \/ FirstEnd(p) = p
    THEN [value |-> NULL, from |-> p]
    ELSE [value |-> Strtoul(SubSeq(in, p + 1, FirstEnd(p))),
          from |-> FirstEnd(p) + 2]

\* A chunk of n bytes at p, when later[q] is what the bytes from q on stand for.
Chunk(later, p, n) ==
    IF p + n \notin Ends(p) \/ later[p + n + 2] = NULL THEN NULL
    ELSE SubSeq(in, p + 1, p + n) \o later[p + n + 2]

Chunks(later, p) ==
    IF p = Len(in) THEN <<>>
    ELSE IF Size(p).value = NULL THEN NULL
    ELSE IF Size(p).value = 0 THEN <<>>
    ELSE Chunk(later, Size(p).from, Size(p).value)

\* What the bytes from p on stand for: chunks, each a size, a line end, that
\* many bytes and a line end, up to an empty one or the end of the bytes.
\* NULL when they are something else.
MeaningFrom[p \in 0..Len(in)] == Chunks(MeaningFrom, p)

Meaning == MeaningFrom[0]

\* A body is refused when it is not a sequence of chunks; when it is, the text
\* returned is the bytes of the chunks, none more, none twice and no part of
\* a size or a line end: a chunk may hold anything, line ends and digits too.
DecodesMeaning ==
    /\ result = "ok" => out = Meaning
    /\ result = "malformed" => Meaning = NULL

\* There is room for the bytes copied and the NUL behind them at any time, so
\* that the realloc at the end never happens, and the buffer is at most twice
\* the body, unless it is as large as at first.
RoomForText ==
    /\ Len(out) + 1 <= alloc
    /\ alloc = FirstAlloc \/ alloc <= 2 * Len(in)

\* The function returns: each turn of its loops comes nearer to the end of the
\* body, or to a buffer that is large enough.
Returns == <>(pc = "done")
==============================================================================
