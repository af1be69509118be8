--------------------------- MODULE MCChunkedDecode ---------------------------
(***************************************************************************)
(* Values for the run of ChunkedDecode.                                    *)
(***************************************************************************)
EXTENDS ChunkedDecode, SequencesExt

CONSTANT MaxParts   \* bound of the run: the parts a body is made of

\* A byte is a hexadecimal digit, a "g", CR or LF; line ends come in one piece,
\* so may CR alone and two chunks, one with a line end for its data.
Line == <<"CR", "LF">>
Parts == {<<"0">>, <<"1">>, <<"2">>, <<"g">>, <<"CR">>, Line,
          <<"1">> \o Line \o <<"g">> \o Line, <<"2">> \o Line \o Line \o Line}

\* Bodies of up to MaxParts parts.
ShortBodies ==
    {FlattenSeq(parts) : parts \in UNION {[1..n -> Parts] : n \in 0..MaxParts}}

Digit == [d \in {"0", "1", "2"} |->
            CASE d = "0" -> 0 [] d = "1" -> 1 [] d = "2" -> 2]

\* strtoul: the digits at the start of a line.
HexNumber(line) ==
    LET digits == {i \in 1..Len(line) :
                      \A j \in 1..i : line[j] \in DOMAIN Digit}
        value[i \in 0..Len(line)] ==
            IF i = 0 THEN 0 ELSE 16 * value[i - 1] + Digit[line[i]]
    IN  IF digits = {} THEN NULL
        ELSE value[CHOOSE i \in digits : \A j \in digits : j <= i]
==============================================================================
