--------------------------- MODULE HttpClientProofs ---------------------------
(***************************************************************************)
(* Proofs about HttpClient, for any timeout, any number of addresses,      *)
(* calls and chunks, and any server.                                       *)
(***************************************************************************)
EXTENDS HttpClient, TLAPS

-----------------------------------------------------------------------------
(***************************************************************************)
(* Types, descriptors and bodies.                                          *)
(***************************************************************************)

\* How many descriptors there are, and in whose hands, at each point of a
\* call; between calls there is no connection either.
DescriptorsOK ==
    /\ pc \in {"idle", "gone", "socket"} => open = 0 /\ ~held /\ peer = "none"
    /\ pc = "connect" => open = 1 /\ ~held
    /\ pc \in {"send", "receive"} => open = 1 /\ held

\* A call in progress has been counted and has no result yet, and what has
\* been sent is part of a response.
CallOK ==
    /\ pc \notin {"idle", "gone"} => calls > 0 /\ result = "none"
    /\ sent > 0 => answer # NULL

\* TypeOK in parts: the control of a call, what has gone over the connection,
\* the response the client keeps, and the flags.
ControlTypes ==
    /\ pc \in {"idle", "socket", "connect", "send", "receive", "gone"}
    /\ addrs \in 0..MaxAddrs
    /\ open \in Nat
    /\ result \in {"none", "ok", "error"}

ConnectionTypes ==
    /\ peer \in {"none", "syn", "refused", "up", "fin", "rst"}
    /\ answer \in Response \cup {NULL}
    /\ sent \in Nat /\ got \in 0..sent
    /\ waited \in Nat
    /\ elapsed \in Nat

ContentTypes ==
    /\ status \in Statuses \cup {0}
    /\ body \in Body \cup {NULL}
    /\ heap \subseteq 1..calls
    /\ calls \in Nat

FlagTypes == held \in BOOLEAN /\ asked \in BOOLEAN

\* TypeOK, in parts.
LEMMA TypeParts == TypeOK <=> ControlTypes /\ ConnectionTypes /\ ContentTypes /\ FlagTypes
BY DEF TypeOK, ControlTypes, ConnectionTypes, ContentTypes, FlagTypes

HttpInv ==
    /\ ControlTypes /\ ConnectionTypes /\ ContentTypes /\ FlagTypes
    /\ DescriptorsOK /\ CallOK
    /\ BodyOfThisCall /\ WholeChunks

\* A call that returns has no descriptor, no connection and no locals left.
LEMMA ReturnStep ==
    ASSUME HttpInv, pc = "socket" \/ (open = 1 /\ held),
           NEW r \in {"ok", "error"}, Return(r)
    PROVE  /\ pc' = "idle" /\ peer' = "none" /\ result' = r
           /\ open' = 0 /\ held' = FALSE /\ sent' = 0
           /\ UNCHANGED <<answer, calls>>
           /\ ControlTypes' /\ ConnectionTypes' /\ FlagTypes'
           /\ DescriptorsOK' /\ CallOK'
<1>1. /\ pc' = "idle" /\ peer' = "none" /\ result' = r
      /\ open' = 0 /\ held' = FALSE /\ sent' = 0
      /\ UNCHANGED <<answer, calls>>
    BY DEF HttpInv, Return, Close, DescriptorsOK
<1>2. addrs' \in 0..MaxAddrs /\ got' \in 0..sent'
      /\ waited' \in Nat /\ elapsed' \in Nat
    BY HttpAssumption DEF Return
<1>3. held' \in BOOLEAN /\ asked' \in BOOLEAN
    BY DEF Return, Close
<1>4. ControlTypes'
    BY <1>1, <1>2 DEF ControlTypes
<1>5. ConnectionTypes'
    BY <1>1, <1>2 DEF HttpInv, ConnectionTypes
<1>6. FlagTypes'
    BY <1>3 DEF FlagTypes
<1>7. DescriptorsOK' /\ CallOK'
    BY <1>1 DEF DescriptorsOK, CallOK
<1> QED  BY <1>1, <1>4, <1>5, <1>6, <1>7

\* A call that fails gives up its descriptor and touches no response.
LEMMA FailStep ==
    ASSUME HttpInv, pc \notin {"idle", "gone"}, Fail,
           pc = "socket" \/ (open = 1 /\ held)
    PROVE  HttpInv'
<1>1. /\ pc' = "idle" /\ result' = "error"
      /\ UNCHANGED <<answer, calls, status, body, heap>>
      /\ ControlTypes' /\ ConnectionTypes' /\ FlagTypes'
      /\ DescriptorsOK' /\ CallOK'
    BY ReturnStep DEF Fail, contents
<1>2. ContentTypes'
    BY <1>1 DEF HttpInv, ContentTypes
<1>3. BodyOfThisCall' /\ WholeChunks'
    BY <1>1 DEF HttpInv, BodyOfThisCall, WholeChunks
<1> QED  BY <1>1, <1>2, <1>3 DEF HttpInv

\* The parsing of a whole response, or of what there is of one.
LEMMA ReceiveEndStep ==
    ASSUME HttpInv, ReceiveEnd
    PROVE  HttpInv'
<1> USE DEF HttpInv
<1>1. pc = "receive" /\ open = 1 /\ held /\ calls > 0 /\ calls \in Nat
    BY DEF ReceiveEnd, DescriptorsOK, CallOK, ContentTypes
<1>2. ASSUME Return("error"), status' \in Statuses \cup {0, status},
             UNCHANGED <<body, heap>>
      PROVE  HttpInv'
    <2>1. /\ pc' = "idle" /\ result' = "error"
          /\ UNCHANGED <<answer, calls>>
          /\ ControlTypes' /\ ConnectionTypes' /\ FlagTypes'
          /\ DescriptorsOK' /\ CallOK'
        BY <1>1, <1>2, ReturnStep
    <2>2. ContentTypes'
        BY <1>2, <2>1 DEF ContentTypes
    <2>3. BodyOfThisCall' /\ WholeChunks'
        BY <2>1 DEF BodyOfThisCall, WholeChunks
    <2> QED  BY <2>1, <2>2, <2>3
<1>3. ASSUME NEW r \in {"ok", "error"}, Return(r), got > 0,
             status' = answer.status,
             \/ /\ Decodes(answer, got)
                /\ body' = [call |-> calls, units |-> got - 1]
                /\ heap' = heap \cup {calls}
                /\ r = "ok" => Accepts(answer.status)
             \/ r = "error" /\ UNCHANGED heap /\ body' \in {body, NULL}
      PROVE  HttpInv'
    <2>1. /\ pc' = "idle" /\ result' = r /\ UNCHANGED <<answer, calls>>
          /\ ControlTypes' /\ ConnectionTypes' /\ FlagTypes'
          /\ DescriptorsOK' /\ CallOK'
        BY <1>1, <1>3, ReturnStep
    <2>2. answer \in Response /\ answer.status \in Statuses
        BY <1>3 DEF ConnectionTypes, CallOK, Response
    <2>3. got \in Nat /\ got - 1 \in Nat
        BY <1>3 DEF ConnectionTypes
    <2>4. calls \in 1..calls
        BY <1>1
    <2>5. body' \in Body \cup {NULL}
        BY <1>1, <1>3, <2>3 DEF ContentTypes, Body
    <2>6. heap' \subseteq 1..calls
        BY <1>3, <2>4 DEF ContentTypes
    <2>7. ContentTypes'
        BY <1>3, <2>1, <2>2, <2>5, <2>6 DEF ContentTypes
    <2>8. BodyOfThisCall'
        <3>1. r = "ok" => Accepts(answer.status) /\ body' \in Body
            BY <1>1, <1>3, <2>3 DEF Body
        <3> QED  BY <1>3, <2>1, <3>1, NullAssumption DEF BodyOfThisCall, Accepts
    <2>9. WholeChunks'
        BY <1>3, <2>1, <2>2, <2>3 DEF WholeChunks, Decodes
    <2> QED  BY <2>1, <2>7, <2>8, <2>9
<1> QED  BY <1>2, <1>3 DEF ReceiveEnd

\* The invariant is inductive.
LEMMA HttpStep ==
    ASSUME HttpInv, [Next]_vars
    PROVE  HttpInv'
<1> USE DEF HttpInv
<1>1. CASE HttpClientGet
    <2>1. ControlTypes'
        BY <1>1, HttpAssumption DEF HttpClientGet, contents, ControlTypes
    <2>2. ConnectionTypes'
        BY <1>1 DEF HttpClientGet, contents, ConnectionTypes
    <2>3. ContentTypes'
        <3>1. calls \in Nat /\ calls' = calls + 1
            BY <1>1 DEF HttpClientGet, ContentTypes
        <3>2. 1..calls \subseteq 1..calls'
            BY <3>1
        <3> QED  BY <1>1, <3>1, <3>2 DEF HttpClientGet, contents, ContentTypes
    <2>4. DescriptorsOK' /\ CallOK'
        BY <1>1 DEF HttpClientGet, DescriptorsOK, CallOK, ContentTypes
    <2>5. BodyOfThisCall' /\ WholeChunks'
        BY <1>1 DEF HttpClientGet, BodyOfThisCall, WholeChunks
    <2>6. FlagTypes'
        BY <1>1 DEF HttpClientGet, FlagTypes
    <2> QED  BY <2>1, <2>2, <2>3, <2>4, <2>5, <2>6
<1>2. CASE OpenSocket
    <2>1. ControlTypes'
        BY <1>2, HttpAssumption DEF OpenSocket, contents, ControlTypes
    <2>2. ConnectionTypes'
        BY <1>2 DEF OpenSocket, contents, ConnectionTypes
    <2>3. ContentTypes'
        BY <1>2 DEF OpenSocket, contents, ContentTypes
    <2>4. DescriptorsOK' /\ CallOK'
        BY <1>2 DEF OpenSocket, contents, DescriptorsOK, CallOK
    <2>5. BodyOfThisCall' /\ WholeChunks'
        BY <1>2 DEF OpenSocket, contents, BodyOfThisCall, WholeChunks
    <2>6. FlagTypes'
        BY <1>2 DEF OpenSocket, contents, FlagTypes
    <2> QED  BY <2>1, <2>2, <2>3, <2>4, <2>5, <2>6
<1>3. CASE AwaitConnect
    <2>1. ControlTypes'
        BY <1>3 DEF AwaitConnect, contents, ControlTypes, DescriptorsOK
    <2>2. ConnectionTypes'
        BY <1>3 DEF AwaitConnect, contents, ConnectionTypes
    <2>3. ContentTypes'
        BY <1>3 DEF AwaitConnect, contents, ContentTypes
    <2>4. DescriptorsOK' /\ CallOK'
        BY <1>3 DEF AwaitConnect, contents, DescriptorsOK, CallOK
    <2>5. BodyOfThisCall' /\ WholeChunks'
        BY <1>3 DEF AwaitConnect, contents, BodyOfThisCall, WholeChunks
    <2>6. FlagTypes'
        BY <1>3 DEF AwaitConnect, contents, FlagTypes
    <2> QED  BY <2>1, <2>2, <2>3, <2>4, <2>5, <2>6
<1>4. CASE ConnectFails
    BY <1>4, FailStep DEF ConnectFails
<1>5. CASE SendRequest
    <2>1. CASE Fail
        BY <1>5, <2>1, FailStep DEF SendRequest, DescriptorsOK
    <2>2. ASSUME pc = "send", asked' = TRUE, pc' = "receive", waited' = 0,
                 UNCHANGED <<addrs, open, held, peer, answer, sent, got, elapsed,
                             contents, calls, result>>
          PROVE  HttpInv'
        <3>1. ControlTypes'
            BY <2>2 DEF contents, ControlTypes
        <3>2. ConnectionTypes'
            BY <2>2 DEF contents, ConnectionTypes
        <3>3. ContentTypes'
            BY <2>2 DEF contents, ContentTypes
        <3>4. DescriptorsOK' /\ CallOK'
            BY <2>2 DEF contents, DescriptorsOK, CallOK
        <3>5. BodyOfThisCall' /\ WholeChunks'
            BY <2>2 DEF contents, BodyOfThisCall, WholeChunks
        <3>6. FlagTypes'
            BY <2>2 DEF contents, FlagTypes
        <3> QED  BY <3>1, <3>2, <3>3, <3>4, <3>5, <3>6
    <2> QED  BY <1>5, <2>1, <2>2 DEF SendRequest
<1>6. CASE Receive
    <2>1. CASE Fail
        BY <1>6, <2>1, FailStep DEF Receive, DescriptorsOK
    <2>2. ASSUME pc = "receive", NEW n \in (got + 1)..sent, got' = n, waited' = 0,
                 UNCHANGED <<pc, addrs, open, held, connection, elapsed, contents,
                             calls, result>>
          PROVE  HttpInv'
        <3>1. ControlTypes'
            BY <2>2 DEF connection, contents, ControlTypes
        <3>2. ConnectionTypes'
            BY <2>2 DEF connection, contents, ConnectionTypes
        <3>3. ContentTypes'
            BY <2>2 DEF connection, contents, ContentTypes
        <3>4. DescriptorsOK' /\ CallOK'
            BY <2>2 DEF connection, contents, DescriptorsOK, CallOK
        <3>5. BodyOfThisCall' /\ WholeChunks'
            BY <2>2 DEF connection, contents, BodyOfThisCall, WholeChunks
        <3>6. FlagTypes'
            BY <2>2 DEF connection, contents, FlagTypes
        <3> QED  BY <3>1, <3>2, <3>3, <3>4, <3>5, <3>6
    <2> QED  BY <1>6, <2>1, <2>2 DEF Receive
<1>7. CASE ReceiveFails
    BY <1>7, FailStep DEF ReceiveFails, DescriptorsOK
<1>8. CASE ReceiveEnd
    BY <1>8, ReceiveEndStep
<1>9. CASE HttpClientDestroy
    <2>1. ControlTypes'
        BY <1>9 DEF HttpClientDestroy, Close, connection, ControlTypes, DescriptorsOK
    <2>2. ConnectionTypes'
        BY <1>9 DEF HttpClientDestroy, Close, connection, ConnectionTypes
    <2>3. ContentTypes'
        BY <1>9 DEF HttpClientDestroy, Close, connection, ContentTypes
    <2>4. DescriptorsOK' /\ CallOK'
        BY <1>9 DEF HttpClientDestroy, Close, connection, DescriptorsOK, CallOK
    <2>5. BodyOfThisCall' /\ WholeChunks'
        BY <1>9 DEF HttpClientDestroy, Close, connection, BodyOfThisCall, WholeChunks
    <2>6. FlagTypes'
        BY <1>9 DEF HttpClientDestroy, Close, connection, FlagTypes
    <2> QED  BY <2>1, <2>2, <2>3, <2>4, <2>5, <2>6
<1>10. ASSUME PeerAnswers \/ PeerCloses \/ PeerSends
       PROVE  HttpInv'
    <2>1. /\ peer \in {"syn", "up"} /\ peer # "none"
          /\ peer' \in {"syn", "refused", "up", "fin", "rst"}
          /\ answer' \in Response \cup {NULL}
          /\ sent' \in {sent, sent + 1}
          /\ sent' > sent => answer' # NULL
          /\ answer # NULL => answer' = answer
          /\ UNCHANGED <<pc, addrs, open, held, asked, got, waited, elapsed,
                         status, body, heap, calls, result>>
        BY <1>10, NullAssumption
           DEF PeerAnswers, PeerCloses, PeerSends, contents, ConnectionTypes
    <2>2. ControlTypes'
        BY <2>1 DEF ControlTypes
    <2>3. ConnectionTypes'
        BY <2>1 DEF ConnectionTypes
    <2>4. ContentTypes'
        BY <2>1 DEF ContentTypes
    <2>5. DescriptorsOK' /\ CallOK'
        BY <2>1 DEF DescriptorsOK, CallOK, ConnectionTypes
    <2>6. BodyOfThisCall' /\ WholeChunks'
        BY <2>1 DEF DescriptorsOK, BodyOfThisCall, WholeChunks
    <2>7. FlagTypes'
        BY <2>1 DEF FlagTypes
    <2> QED  BY <2>2, <2>3, <2>4, <2>5, <2>6, <2>7
<1>11. CASE Tick
    <2>1. ControlTypes'
        BY <1>11 DEF Tick, connection, contents, ControlTypes
    <2>2. ConnectionTypes'
        BY <1>11 DEF Tick, connection, contents, ConnectionTypes
    <2>3. ContentTypes'
        BY <1>11 DEF Tick, connection, contents, ContentTypes
    <2>4. DescriptorsOK' /\ CallOK'
        BY <1>11 DEF Tick, connection, contents, DescriptorsOK, CallOK
    <2>5. BodyOfThisCall' /\ WholeChunks'
        BY <1>11 DEF Tick, connection, contents, BodyOfThisCall, WholeChunks
    <2>6. FlagTypes'
        BY <1>11 DEF Tick, connection, contents, FlagTypes
    <2> QED  BY <2>1, <2>2, <2>3, <2>4, <2>5, <2>6
<1>12. CASE UNCHANGED vars
    <2>1. ControlTypes'
        BY <1>12 DEF vars, connection, contents, ControlTypes
    <2>2. ConnectionTypes'
        BY <1>12 DEF vars, connection, contents, ConnectionTypes
    <2>3. ContentTypes'
        BY <1>12 DEF vars, connection, contents, ContentTypes
    <2>4. DescriptorsOK' /\ CallOK'
        BY <1>12 DEF vars, connection, contents, DescriptorsOK, CallOK
    <2>5. BodyOfThisCall' /\ WholeChunks'
        BY <1>12 DEF vars, connection, contents, BodyOfThisCall, WholeChunks
    <2>6. FlagTypes'
        BY <1>12 DEF vars, connection, contents, FlagTypes
    <2> QED  BY <2>1, <2>2, <2>3, <2>4, <2>5, <2>6
<1> QED  BY <1>1, <1>2, <1>3, <1>4, <1>5, <1>6, <1>7, <1>8, <1>9, <1>10, <1>11,
            <1>12 DEF Next, ClientStep

\* It holds for every server.
LEMMA HttpInvariant == Spec => []HttpInv
<1>1. ASSUME Init
      PROVE  HttpInv
    <2>1. ControlTypes /\ ConnectionTypes /\ ContentTypes
        BY <1>1, HttpAssumption DEF Init, ControlTypes, ConnectionTypes, ContentTypes
    <2>2. FlagTypes
        BY <1>1 DEF Init, FlagTypes
    <2>3. DescriptorsOK /\ CallOK /\ BodyOfThisCall /\ WholeChunks
        BY <1>1 DEF Init, DescriptorsOK, CallOK, BodyOfThisCall, WholeChunks
    <2> QED  BY <2>1, <2>2, <2>3 DEF HttpInv
<1> QED  BY <1>1, HttpStep, PTL DEF Spec

\* Every call leaves the client and the connection with values of their types.
THEOREM HttpTypeCorrect == Spec => []TypeOK
<1>1. HttpInv => TypeOK
    BY TypeParts DEF HttpInv
<1> QED  BY <1>1, HttpInvariant, PTL

\* A client between calls has no descriptor, so that it can always connect.
THEOREM NoDescriptorIsLeft == Spec => []DescriptorsClosed
<1>1. HttpInv => DescriptorsClosed
    BY DEF HttpInv, DescriptorsOK, DescriptorsClosed
<1> QED  BY <1>1, HttpInvariant, PTL

\* A success comes with the body of its own response.
THEOREM BodyIsOfThisCall == Spec => []BodyOfThisCall
<1>1. HttpInv => BodyOfThisCall
    BY DEF HttpInv
<1> QED  BY <1>1, HttpInvariant, PTL

\* A chunked body is never cut within a chunk.
THEOREM ChunksAreWhole == Spec => []WholeChunks
<1>1. HttpInv => WholeChunks
    BY DEF HttpInv
<1> QED  BY <1>1, HttpInvariant, PTL

-----------------------------------------------------------------------------
(***************************************************************************)
(* The time of a call.                                                     *)
(***************************************************************************)

\* What n selects may take.
Budget(n) == Timeout * n

\* Each unit more allows a timeout more.
LEMMA BudgetFacts ==
    ASSUME NEW m \in Int, NEW n \in Int, m <= n
    PROVE  /\ Budget(n) \in Int
           /\ Budget(0) = 0
           /\ Budget(m) <= Budget(n)
           /\ Budget(n + 1) = Budget(n) + Timeout
<1>1. Timeout \in Nat
    BY HttpAssumption
<1>2. Budget(n) \in Int /\ Budget(0) = 0
    BY <1>1 DEF Budget
<1>3. Budget(m) <= Budget(n)
    <2>1. n - m \in Nat /\ n = m + (n - m)
        OBVIOUS
    <2>2. Timeout * (n - m) \in Nat
        BY <1>1, <2>1
    <2>3. Timeout * n = Timeout * m + Timeout * (n - m)
        BY <1>1
    <2>4. Timeout * m \in Int /\ Timeout * n \in Int
        BY <1>1
    <2> QED  BY <2>2, <2>3, <2>4 DEF Budget
<1>4. Budget(n + 1) = Budget(n) + Timeout
    BY <1>1 DEF Budget
<1> QED  BY <1>2, <1>3, <1>4

\* What the call has spent at each point: a timeout for each address given
\* up, then one for each unit received, and the current select.
TimeInv ==
    /\ waited <= Timeout
    /\ pc \in {"socket", "send"} => elapsed <= Budget(MaxAddrs - addrs)
    /\ pc = "connect" => elapsed <= Budget(MaxAddrs - addrs - 1) + waited
    /\ pc = "receive" => elapsed <= Budget(MaxAddrs - addrs + got) + waited
    /\ elapsed <= Budget(MaxAddrs + got + 1)

\* The time of a call is kept within what it may use up.
LEMMA TimeStep ==
    ASSUME HttpInv, TimeInv, [Next]_vars
    PROVE  TimeInv'
<1>1. /\ addrs \in Nat /\ got \in Nat /\ waited \in Nat /\ elapsed \in Nat
      /\ MaxAddrs \in Nat /\ Timeout \in Nat /\ sent \in Nat
      /\ addrs <= MaxAddrs
    BY HttpAssumption DEF HttpInv, ControlTypes, ConnectionTypes
<1>2. TimeInv => waited <= Timeout
    BY DEF TimeInv
<1>3. CASE HttpClientGet
    <2>1. /\ waited' = 0 /\ elapsed' = 0 /\ got' = 0
          /\ pc' \in {"idle", "socket"}
          /\ addrs' \in Nat /\ addrs' <= MaxAddrs
        BY <1>1, <1>3 DEF HttpClientGet
    <2>2. \A n \in Nat : 0 <= Budget(n)
        BY BudgetFacts
    <2>3. \A n \in Nat : n <= MaxAddrs => MaxAddrs - n \in Nat
        BY <1>1
    <2>4. MaxAddrs + 0 + 1 \in Nat
        BY <1>1
    <2> QED  BY <1>1, <2>1, <2>2, <2>3, <2>4 DEF TimeInv
<1>4. CASE OpenSocket
    <2>1. /\ waited' = 0 /\ elapsed' = elapsed /\ got' = got
          /\ pc = "socket" /\ addrs' = addrs - 1
          /\ pc' \in {"connect", "socket"}
        BY <1>4 DEF OpenSocket
    <2>2. elapsed <= Budget(MaxAddrs - addrs)
        BY <2>1 DEF TimeInv
    <2>3. MaxAddrs - addrs = MaxAddrs - addrs' - 1
        BY <1>1, <2>1
    <2>4. /\ Budget(MaxAddrs - addrs) <= Budget(MaxAddrs - addrs')
          /\ Budget(MaxAddrs - addrs) \in Int /\ Budget(MaxAddrs - addrs') \in Int
        BY <1>1, <2>1, BudgetFacts
    <2> QED  BY <1>1, <2>1, <2>2, <2>3, <2>4 DEF TimeInv
<1>5. CASE AwaitConnect
    <2>1. /\ pc = "connect" /\ pc' \in {"send", "socket"}
          /\ UNCHANGED <<waited, elapsed, got, addrs>>
        BY <1>5 DEF AwaitConnect
    <2>2. elapsed <= Budget(MaxAddrs - addrs - 1) + waited
        BY <2>1 DEF TimeInv
    <2>3. /\ Budget(MaxAddrs - addrs) = Budget(MaxAddrs - addrs - 1) + Timeout
          /\ Budget(MaxAddrs - addrs - 1) \in Int
        <3>1. MaxAddrs - addrs - 1 \in Int
              /\ (MaxAddrs - addrs - 1) + 1 = MaxAddrs - addrs
            BY <1>1
        <3> QED  BY <3>1, BudgetFacts
    <2> QED  BY <1>1, <2>1, <2>2, <2>3 DEF TimeInv
<1>6. ASSUME NEW r, Return(r)
      PROVE  TimeInv'
    <2>1. pc' = "idle" /\ waited' = 0 /\ elapsed' = 0 /\ got' = 0
        BY <1>6 DEF Return
    <2>2. 0 <= Budget(MaxAddrs + 0 + 1)
        <3>1. MaxAddrs + 0 + 1 \in Nat
            BY <1>1
        <3> QED  BY <3>1, BudgetFacts
    <2> QED  BY <1>1, <2>1, <2>2 DEF TimeInv
<1>7. CASE SendRequest /\ ~Fail
    <2>1. /\ pc = "send" /\ pc' = "receive" /\ waited' = 0
          /\ UNCHANGED <<elapsed, got, addrs>>
        BY <1>7 DEF SendRequest
    <2>2. elapsed <= Budget(MaxAddrs - addrs)
        BY <2>1 DEF TimeInv
    <2>3. /\ Budget(MaxAddrs - addrs) <= Budget(MaxAddrs - addrs + got)
          /\ Budget(MaxAddrs - addrs) \in Int
          /\ Budget(MaxAddrs - addrs + got) \in Int
        BY <1>1, BudgetFacts
    <2> QED  BY <1>1, <2>1, <2>2, <2>3 DEF TimeInv
<1>8. CASE Receive /\ ~Fail
    <2>1. /\ pc = "receive" /\ pc' = "receive" /\ waited' = 0
          /\ UNCHANGED <<elapsed, addrs>>
          /\ got' \in Nat /\ got + 1 <= got'
        BY <1>1, <1>8 DEF Receive
    <2>2. elapsed <= Budget(MaxAddrs - addrs + got) + waited
        BY <2>1 DEF TimeInv
    <2>3. /\ Budget(MaxAddrs - addrs + got + 1)
                = Budget(MaxAddrs - addrs + got) + Timeout
          /\ Budget(MaxAddrs - addrs + got) \in Int
        BY <1>1, BudgetFacts
    <2>4. /\ Budget(MaxAddrs - addrs + got + 1) <= Budget(MaxAddrs - addrs + got')
          /\ Budget(MaxAddrs - addrs + got') <= Budget(MaxAddrs + got' + 1)
          /\ Budget(MaxAddrs - addrs + got + 1) \in Int
          /\ Budget(MaxAddrs - addrs + got') \in Int
          /\ Budget(MaxAddrs + got' + 1) \in Int
        <3>1. \A g \in Nat : got + 1 <= g =>
                /\ MaxAddrs - addrs + got + 1 \in Int
                /\ MaxAddrs - addrs + g \in Int
                /\ MaxAddrs + g + 1 \in Int
                /\ MaxAddrs - addrs + got + 1 <= MaxAddrs - addrs + g
                /\ MaxAddrs - addrs + g <= MaxAddrs + g + 1
            BY <1>1
        <3>2. \A g \in Nat : got + 1 <= g =>
                /\ Budget(MaxAddrs - addrs + got + 1) <= Budget(MaxAddrs - addrs + g)
                /\ Budget(MaxAddrs - addrs + g) <= Budget(MaxAddrs + g + 1)
                /\ Budget(MaxAddrs - addrs + got + 1) \in Int
                /\ Budget(MaxAddrs - addrs + g) \in Int
                /\ Budget(MaxAddrs + g + 1) \in Int
            BY <3>1, BudgetFacts
        <3> QED  BY <2>1, <3>2
    <2>5. elapsed <= Budget(MaxAddrs - addrs + got')
        BY <1>1, <1>2, <2>2, <2>3, <2>4
    <2>6. elapsed <= Budget(MaxAddrs + got' + 1)
        BY <1>1, <2>4, <2>5
    <2> QED  BY <1>1, <2>1, <2>4, <2>5, <2>6 DEF TimeInv
<1>9. CASE HttpClientDestroy
    <2>1. pc' = "gone" /\ UNCHANGED <<waited, elapsed, got, addrs>>
        BY <1>9 DEF HttpClientDestroy
    <2> QED  BY <2>1 DEF TimeInv
<1>10. CASE Tick
    <2>1. /\ pc \in {"connect", "receive"} /\ waited < Timeout
          /\ waited' = waited + 1 /\ elapsed' = elapsed + 1
          /\ UNCHANGED <<pc, got, addrs>>
        BY <1>1, <1>10 DEF Tick, TimedOut
    <2>2. CASE pc = "connect"
        <3>1. elapsed <= Budget(MaxAddrs - addrs - 1) + waited
            BY <2>2 DEF TimeInv
        <3>2. /\ Budget(MaxAddrs - addrs - 1) + Timeout = Budget(MaxAddrs - addrs)
              /\ Budget(MaxAddrs - addrs - 1) \in Int
            <4>1. MaxAddrs - addrs - 1 \in Int
                  /\ (MaxAddrs - addrs - 1) + 1 = MaxAddrs - addrs
                BY <1>1
            <4> QED  BY <4>1, BudgetFacts
        <3>3. /\ Budget(MaxAddrs - addrs) <= Budget(MaxAddrs + got + 1)
              /\ Budget(MaxAddrs - addrs) \in Int
              /\ Budget(MaxAddrs + got + 1) \in Int
            BY <1>1, BudgetFacts
        <3> QED  BY <1>1, <2>1, <2>2, <3>1, <3>2, <3>3 DEF TimeInv
    <2>3. CASE pc = "receive"
        <3>1. elapsed <= Budget(MaxAddrs - addrs + got) + waited
            BY <2>3 DEF TimeInv
        <3>2. /\ Budget(MaxAddrs - addrs + got) + Timeout
                    = Budget(MaxAddrs - addrs + got + 1)
              /\ Budget(MaxAddrs - addrs + got) \in Int
            BY <1>1, BudgetFacts
        <3>3. /\ Budget(MaxAddrs - addrs + got + 1) <= Budget(MaxAddrs + got + 1)
              /\ Budget(MaxAddrs - addrs + got + 1) \in Int
              /\ Budget(MaxAddrs + got + 1) \in Int
            BY <1>1, BudgetFacts
        <3> QED  BY <1>1, <2>1, <2>3, <3>1, <3>2, <3>3 DEF TimeInv
    <2> QED  BY <2>1, <2>2, <2>3
<1>11. CASE PeerAnswers \/ PeerSends \/ PeerCloses \/ UNCHANGED vars
    <2>1. UNCHANGED <<pc, waited, elapsed, got, addrs>>
        BY <1>11 DEF PeerAnswers, PeerSends, PeerCloses, vars
    <2> QED  BY <2>1 DEF TimeInv
<1>12. CASE Fail \/ ConnectFails \/ ReceiveFails \/ ReceiveEnd
    BY <1>6, <1>12 DEF Fail, ConnectFails, ReceiveFails, ReceiveEnd
<1> QED  BY <1>3, <1>4, <1>5, <1>6, <1>7, <1>8, <1>9, <1>10, <1>11, <1>12
         DEF Next, ClientStep

\* A call takes at most a timeout for each address and one for each unit of
\* the response, and one more.
THEOREM CallsAreBounded == Spec => []CallTime
<1>1. ASSUME Init
      PROVE  TimeInv
    <2>1. /\ pc = "idle" /\ waited = 0 /\ elapsed = 0 /\ got = 0
          /\ Timeout \in Nat /\ MaxAddrs \in Nat
        BY <1>1, HttpAssumption DEF Init
    <2>2. 0 <= Budget(MaxAddrs + 1)
        BY <2>1, BudgetFacts
    <2> QED  BY <2>1, <2>2 DEF TimeInv
<1>2. TimeInv => CallTime
    BY DEF TimeInv, CallTime, Budget
<1> QED  BY <1>1, <1>2, HttpInvariant, TimeStep, PTL DEF Spec
=============================================================================
