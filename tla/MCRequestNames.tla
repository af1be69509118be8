---------------------------- MODULE MCRequestNames ----------------------------
(***************************************************************************)
(* Values for the run of RequestNames.                                     *)
(***************************************************************************)
EXTENDS RequestNames

\* One text written in several ways and another one, parts of labels and
\* whole ones, texts too short and too long; among them are requests that
\* share a key although they are not the same.
Names == {<<>>, <<"a">>, <<"a", " ", "b">>, <<" ", "A", "_", " ", "b">>,
          <<"a", "+", "b">>, <<"a", ":", "country=", "a">>,
          <<"a", "b", "a", "b", "a">>}
Countries == {NULL, <<>>, <<" ">>, <<"a">>, <<"A", "_">>, <<"a", ":", "country=">>,
              <<"a", ":", "region=", "a">>}
Regions == {NULL, <<"a">>, <<"a", ":", "region=">>, <<"b", "b", "b", "b", "b">>,
            <<"b", "b", "b", "b", "b", "a">>}

SomeRequests ==
    {[method |-> "weather", args |-> <<c, n, r>>] :
        c \in Names, n \in Countries, r \in Regions}
    \cup {[method |-> "cities", args |-> <<q>>] : q \in Names}
    \cup {Homepage}

\* The stack holds zeros, or what a text is made of.
SomeJunk == {[i \in 1..Block |-> "00"], [i \in 1..Block |-> "a"]}
===============================================================================
