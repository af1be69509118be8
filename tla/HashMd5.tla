------------------------------- MODULE HashMd5 -------------------------------
(***************************************************************************)
(* How hash_md5_string (utils/hash_md5.c) cuts its data into blocks and    *)
(* pads the last one.  What body() computes from a block is the published  *)
(* algorithm and left out: two digests are taken to be equal when their    *)
(* blocks are.                                                             *)
(*                                                                         *)
(* The context is on the stack and used for a single update, so that       *)
(* m_d5_update finds nothing in the buffer but what was on the stack.      *)
(***************************************************************************)
EXTENDS Integers, Sequences, TLC

CONSTANTS
    Block,      \* bytes of a block, 64
    LoSize      \* lo counts modulo this, 2^29

ASSUME HashAssumption ==
    /\ {Block, LoSize} \subseteq Nat \ {0}
    /\ Block > 2 /\ LoSize % Block = 0

\* The length takes two numbers at the end of the last block, lo and hi, in the
\* code four bytes each.
LengthSize == 2

Zeros(n) == [i \in 1..n |-> "00"]

\* The buffer with some bytes replaced, from the given one on.
Put(buffer, used, bytes) ==
    [i \in 1..Block |-> IF i \in (used + 1)..(used + Len(bytes))
                        THEN bytes[i - used] ELSE buffer[i]]

\* m_d5_init; junk is what the buffer holds.
Md5Init(junk) == [lo |-> 0, hi |-> 0, buffer |-> junk, blocks |-> <<>>]

\* m_d5_update of a fresh context: whole blocks are digested, the rest stays
\* in the buffer.
Md5Update(ctx, data) ==
    LET whole == Len(data) \div Block
    IN  [ctx EXCEPT
            !.lo = Len(data) % LoSize,
            !.hi = Len(data) \div LoSize,
            !.blocks = [b \in 1..whole |->
                SubSeq(data, (b - 1) * Block + 1, b * Block)],
            !.buffer = Put(@, 0, SubSeq(data, whole * Block + 1, Len(data)))]

\* Mutant: a block that has no room for the length is not cleared.
Md5FinalDirty(ctx) ==
    LET used == ctx.lo % Block
        marked == Put(ctx.buffer, used, <<"80">>)
        room == Block - used - 1
        length == <<ToString(8 * ctx.lo), ToString(ctx.hi)>>
        Final(buffer, from) ==
            Put(buffer, from, Zeros(Block - LengthSize - from) \o length)
    IN  IF room < LengthSize
        THEN ctx.blocks \o <<marked, Final(marked, 0)>>
        ELSE Append(ctx.blocks, Final(marked, used + 1))

\* m_d5_final: a mark, zeros and the length, which may need another block.
Md5Final(ctx) ==
    LET used == ctx.lo % Block
        marked == Put(ctx.buffer, used, <<"80">>)
        room == Block - used - 1
        length == <<ToString(8 * ctx.lo), ToString(ctx.hi)>>
        Final(buffer, from) ==
            Put(buffer, from, Zeros(Block - LengthSize - from) \o length)
        full == Put(marked, used + 1, Zeros(room))
    IN  IF room < LengthSize
        THEN ctx.blocks \o <<full, Final(full, 0)>>
        ELSE Append(ctx.blocks, Final(marked, used + 1))

\* hash_md5_binary, as far as the blocks that are digested.
HashMd5String(data, junk) == Md5Final(Md5Update(Md5Init(junk), data))

-----------------------------------------------------------------------------
\* RFC 1321: the message, a mark, as few zeros as it takes to leave room for
\* the length, and the length.
Padded(data) ==
    LET zeros == CHOOSE n \in 0..(Block - 1) :
                    (Len(data) + 1 + n + LengthSize) % Block = 0
    IN  data \o <<"80">> \o Zeros(zeros)
          \o <<ToString(8 * (Len(data) % LoSize)),
               ToString(Len(data) \div LoSize)>>
==============================================================================
