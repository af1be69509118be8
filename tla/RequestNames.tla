----------------------------- MODULE RequestNames -----------------------------
(***************************************************************************)
(* How a request is named: the path it has in the URL (url_encode in       *)
(* utils/utils.c, parse_url in network/http_client.c), its cache key       *)
(* (normalize_string_for_cache in utils/utils.c and the methods of         *)
(* api/weather_client.cpp) and its file, which is called by the hash of    *)
(* the key (get_cache_filepath in utils/client_cache.c).                   *)
(*                                                                         *)
(* WeatherClient knows a request by its key alone.  Here the keys are made *)
(* from the arguments, and requests are made one after the other with the  *)
(* response of one of them in the cache: is what it answers with the       *)
(* response to the request that was made?                                  *)
(*                                                                         *)
(* A text is a sequence of bytes; a label of a key or a path is one item   *)
(* of such a sequence, which arguments may hold too.                       *)
(***************************************************************************)
EXTENDS HashMd5, SequencesExt

CONSTANTS
    Requests,       \* what commands may ask for: a method and its arguments
    Junk,           \* what the stack holds when a key is hashed
    CityMax,        \* the longest city name, 100 bytes
    KeyBuffer,      \* bytes of the buffer of a normalised text, 256
    PathMax,        \* bytes of a path, 511
    MaxRequests,    \* bound of the model: requests made
    MemoryFaults,   \* malloc may return NULL
    NULL            \* an argument that is not given, no answer, no file

Separators == {" ", "\t", "+", "_"}

\* The letters that texts have both of.
Small == [A |-> "a", B |-> "b"]
Lower(c) == IF c \in DOMAIN Small THEN Small[c] ELSE c

\* Items that url_encode leaves alone.
Unreserved == {"a", "A", "b", "B", "-", "_", ".", "~"}

Homepage == [method |-> "homepage", args |-> <<>>]

\* How many arguments a method has.
Arity == [weather |-> 3, cities |-> 1, homepage |-> 0]

IsText(t) == t \in Seq({t[i] : i \in 1..Len(t)})

ASSUME RequestAssumption ==
    /\ Homepage \in Requests
    /\ \A r \in Requests :
          /\ r.method \in DOMAIN Arity
          /\ DOMAIN r.args = 1..Arity[r.method]
          /\ \A i \in DOMAIN r.args : r.args[i] = NULL \/ IsText(r.args[i])
    /\ NULL \notin Requests
    /\ {KeyBuffer, MaxRequests} \subseteq Nat

VARIABLES
    stored,     \* the response in the cache: its file, the request it was
                \* stored for, the one it was sent for and the path of that;
                \* NULL when there is none
    asked,      \* the request made last
    file,       \* the name of its file, NULL when it was rejected
    answer,     \* the request that its response was sent for, NULL when it
                \* threw
    short,      \* an argument was left out for want of memory
    made        \* how many requests were made

vars == <<stored, asked, file, answer, short, made>>

TypeOK ==
    /\ asked \in Requests
    /\ answer \in Requests \cup {NULL}
    /\ stored # NULL => stored.request \in Requests
    /\ short \in BOOLEAN /\ made \in 0..MaxRequests

Init ==
    /\ stored = NULL /\ asked = Homepage /\ file = NULL /\ answer = NULL
    /\ short = FALSE /\ made = 0

-----------------------------------------------------------------------------
\* Mutant: only the case is normalised.
LowerOnly(in, size) == [i \in 1..Len(in) |-> Lower(in[i])]

\* normalize_string_for_cache into a buffer of the given size.
Normalize(in, size) ==
    LET Add(out, c) ==
            IF Len(out) + 1 >= size THEN out
            ELSE IF c \notin Separators THEN Append(out, Lower(c))
            ELSE IF out = <<>> \/ out[Len(out)] = "_" THEN out
            ELSE Append(out, "_")
        out[i \in 0..Len(in)] == IF i = 0 THEN <<>> ELSE Add(out[i - 1], in[i])
        all == out[Len(in)]
    IN  IF all # <<>> /\ all[Len(all)] = "_" THEN Front(all) ELSE all

\* The part of a key for an argument that may be missing.
Part(text) == IF text = NULL THEN <<>> ELSE Normalize(text, KeyBuffer)

\* Mutant: the region is not labelled.
UnlabelledKey(r) ==
    CASE r.method = "weather" ->
            <<"weather", ":", "city=">> \o Part(r.args[1])
            \o <<":", "country=">> \o Part(r.args[2]) \o Part(r.args[3])
      [] r.method = "cities" ->
            <<"cities", ":", "query=">> \o Part(r.args[1])
      [] r.method = "homepage" -> <<"homepage", ":">>

\* buildCacheKey.
Key(r) ==
    CASE r.method = "weather" ->
            <<"weather", ":", "city=">> \o Part(r.args[1])
            \o <<":", "country=">> \o Part(r.args[2])
            \o <<":", "region=">> \o Part(r.args[3])
      [] r.method = "cities" ->
            <<"cities", ":", "query=">> \o Part(r.args[1])
      [] r.method = "homepage" -> <<"homepage", ":">>

\* Mutant: a "+" is left as it is.
EncodeButPlus(text) ==
    LET Escape(c) == IF c \in Unreserved \cup {"+"} THEN <<c>>
                     ELSE IF c = " " THEN <<"+">>
                     ELSE <<"%", c, c>>
    IN  FlattenSeq([i \in 1..Len(text) |-> Escape(text[i])])

\* url_encode; the two digits of an escape stand as the byte itself.
UrlEncode(text) ==
    LET Escape(c) == IF c \in Unreserved THEN <<c>>
                     ELSE IF c = " " THEN <<"+">>
                     ELSE <<"%", c, c>>
    IN  FlattenSeq([i \in 1..Len(text) |-> Escape(text[i])])

\* The path of the URL.
Path(r) ==
    LET Param(label, i) ==
            IF r.args[i] # NULL /\ r.args[i] # <<>>
            THEN <<label>> \o UrlEncode(r.args[i]) ELSE <<>>
    IN  CASE r.method = "weather" ->
                <<"/v1/weather">> \o Param("?city=", 1)
                \o Param("&country=", 2) \o Param("&region=", 3)
          [] r.method = "cities" -> <<"/v1/cities">> \o Param("?query=", 1)
          [] r.method = "homepage" -> <<"/">>

\* parse_url keeps as much of it as there is room for.
Cut(path) == IF Len(path) <= PathMax THEN path ELSE SubSeq(path, 1, PathMax)

\* validate_city_name, and the length of a query.
Valid(r) ==
    CASE r.method = "weather" ->
            r.args[1] # NULL /\ Len(r.args[1]) \in 1..CityMax
      [] r.method = "cities" -> r.args[1] # NULL /\ Len(r.args[1]) >= 2
      [] r.method = "homepage" -> TRUE

\* Requests without the country or the region of another one.
Reduced(r) ==
    {s \in [method : {r.method},
            args : [DOMAIN r.args -> {r.args[i] : i \in DOMAIN r.args} \cup {NULL}]] :
        \A i \in DOMAIN r.args :
            s.args[i] = r.args[i] \/ (i > 1 /\ s.args[i] = NULL)}

\* A country and a region may be left out by the caller.
ASSUME OptionalAssumption == \A r \in Requests : Reduced(r) \subseteq Requests

\* Mutant: a city or a query may be left out too.
SentWithoutCity(r) ==
    {s \in [method : {r.method},
            args : [DOMAIN r.args -> {r.args[i] : i \in DOMAIN r.args} \cup {NULL}]] :
        \A i \in DOMAIN r.args :
            \/ s.args[i] = r.args[i]
            \/ MemoryFaults /\ r.args[i] # <<>> /\ s.args[i] = NULL}

\* The request as it is sent: without a country or a region url_encode finds
\* no memory for.
Sent(r) ==
    {s \in Reduced(r) :
        \A i \in DOMAIN r.args :
            s.args[i] = r.args[i] \/ (MemoryFaults /\ r.args[i] # <<>>)}

-----------------------------------------------------------------------------
\* There is a response in the file of that name.
Cached(name) == stored # NULL /\ stored.file = name

\* makeRequest finds the response in the cache.
Hit(r) ==
    /\ Valid(r)
    /\ \E junk \in Junk : file' = HashMd5String(Key(r), junk)
    /\ Cached(file')
    /\ asked' = r /\ answer' = stored.sent
    /\ UNCHANGED <<stored, short>>

\* ... or gets it from the server and stores it, in place of the one before.
Miss(r) ==
    /\ Valid(r)
    /\ \E junk \in Junk : file' = HashMd5String(Key(r), junk)
    /\ ~Cached(file')
    /\ asked' = r /\ answer' \in Sent(r)
    /\ stored' = [file |-> file', request |-> r, sent |-> answer',
                  path |-> Cut(Path(answer'))]
    /\ short' = (short \/ answer' # r)

\* A method throws before it asks, also when a city or a query cannot be
\* encoded.
Reject(r) ==
    /\ ~Valid(r) \/ (MemoryFaults /\ r.args # <<>>)
    /\ asked' = r /\ file' = NULL /\ answer' = NULL
    /\ UNCHANGED <<stored, short>>

Next ==
    /\ made < MaxRequests /\ made' = made + 1
    /\ \E r \in Requests : Hit(r) \/ Miss(r) \/ Reject(r)

Spec == Init /\ [][Next]_vars

-----------------------------------------------------------------------------
(***************************************************************************)
(* Properties.                                                             *)
(***************************************************************************)

\* There is an item at i, which is not a separator.
Letter(text, i) == i \in DOMAIN text /\ text[i] \notin Separators

\* The letters of a text, and a separator before each word but the first.
Kept(text) ==
    {i \in DOMAIN text :
        Letter(text, i) \/ (Letter(text, i + 1) /\ \E j \in 1..i : Letter(text, j))}

\* How many of some numbers are at most i.
Count(numbers, i) == Cardinality({j \in numbers : j <= i})

\* The words of a text in lower case, with "_" between them.
Words(text) ==
    LET kept == Kept(text)
        At(k) == CHOOSE i \in kept : Count(kept, i) = k
    IN  [k \in 1..Cardinality(kept) |->
            IF Letter(text, At(k)) THEN Lower(text[At(k)]) ELSE "_"]

\* Two requests differ in no more than case and separators; a country or a
\* region without a word is the same as none.
Same(r, s) ==
    /\ r.method = s.method
    /\ \A i \in DOMAIN r.args :
          LET W(text) == IF text = NULL THEN <<>> ELSE Words(text)
          IN  W(r.args[i]) = W(s.args[i])

\* The text has one item after the other somewhere.
Spells(text, colon, label) ==
    \E i \in 1..(Len(text) - 1) : text[i] = colon /\ text[i + 1] = label

\* No argument spells the label that follows it in the key, or is longer than
\* its buffer.
Plain(r) ==
    /\ \A i \in DOMAIN r.args :
          r.args[i] = NULL \/ Len(Words(r.args[i])) < KeyBuffer
    /\ r.method = "weather" =>
          /\ ~Spells(r.args[1], ":", "country=")
          /\ r.args[2] = NULL \/ ~Spells(r.args[2], ":", "region=")

\* The cache answers with the response to the request that was made: keys that
\* are put together from labels and texts that may hold colons, equal signs
\* and most of a label, then hashed, are taken for one another only when the
\* requests are the same.  (A request that lost its country for want of memory
\* is stored as the one that has it.)
AnswersTheRequest ==
    answer # NULL /\ ~short /\ Plain(asked) /\ Plain(answer)
        => Same(asked, answer)

\* However the words of a request are written, in whatever case and with
\* whatever between them, a response that is in the cache is found.
FoundInAnyCase ==
    [][stored # NULL /\ file' # NULL /\ Same(asked', stored.request)
        => answer' = stored.sent]_vars

\* The server can tell the arguments of two requests from their paths, unless
\* one is cut: no two are asked for with the same one.
PathsTellArguments ==
    stored # NULL /\ answer # NULL =>
        LET sent == stored.sent
            given(r) == [i \in DOMAIN r.args |->
                            IF r.args[i] = NULL THEN <<>> ELSE r.args[i]]
        IN  stored.path = Path(asked) /\ stored.path = Path(sent)
            => asked.method = sent.method /\ given(asked) = given(sent)

\* What is hashed is the key, padded as MD5 says, whatever its length is and
\* whatever the stack held: a command finds the files of the ones before.
FileIsHashOfKey ==
    file # NULL => FlattenSeq(file) = Padded(Key(asked))
===============================================================================
