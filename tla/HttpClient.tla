------------------------------ MODULE HttpClient ------------------------------
(***************************************************************************)
(* One GET after another over TCP (network/http_client.c, client_tcp.c).   *)
(*                                                                         *)
(* http_client_get opens a connection, sends the request, receives until   *)
(* the peer closes, and only then looks at what it has.  Each system call  *)
(* that can block or fail is a step; the network and the server are the    *)
(* environment, free to refuse, stall, stop half way, reset or answer      *)
(* with anything.                                                          *)
(*                                                                         *)
(* A response is a head followed by units of body, two for each chunk, and *)
(* for a chunked one two for the final empty chunk.  A response that ends  *)
(* within its head counts as one of which nothing arrived.                 *)
(***************************************************************************)
EXTENDS Integers

CONSTANTS
    Timeout,        \* timeout_ms, in ticks
    MaxAddrs,       \* addresses getaddrinfo may return
    Chunks,         \* chunks in the body of a response
    Statuses,       \* status codes a server may send
    MemoryFaults,   \* malloc and realloc may return NULL
    MaxCalls,       \* bound on the calls of http_client_get
    MaxElapsed,     \* bound on the ticks of a call, beyond what it can take
    NULL            \* no response, no body

\* http_client_create replaces a timeout that is not positive by a default.
\* A status of 0 stands for a status line that sscanf cannot read.
ASSUME HttpAssumption ==
    /\ Timeout \in Nat \ {0}
    /\ MaxAddrs \in Nat \ {0}
    /\ Chunks \in Nat
    /\ Statuses \subseteq Nat
    /\ MemoryFaults \in BOOLEAN
    /\ MaxCalls \in Nat
    /\ MaxElapsed \in Nat

Response == [status : Statuses, chunked : BOOLEAN]
Body == [call : Nat, units : Nat]

ASSUME NullAssumption == NULL \notin Response \cup Body

VARIABLES
    pc,         \* the system call the client makes next
    addrs,      \* addresses client_tcp_connect has yet to try
    open,       \* descriptors the client has open
    held,       \* tcp->fd >= 0
    peer,       \* the connection as the network sees it
    asked,      \* the request has been sent
    answer,     \* the response the server has decided on, or NULL
    sent,       \* units of it the server has sent, the head included
    got,        \* units the client has received in this call
    waited,     \* ticks the current select has lasted
    elapsed,    \* ticks the current call has lasted
    status,     \* client->status_code
    body,       \* client->response_body
    heap,       \* the calls whose response body is still allocated
    calls,      \* calls made
    result      \* how the last call ended, "none" while one runs

connection == <<peer, asked, answer, sent>>
contents == <<status, body, heap>>
vars == <<pc, addrs, open, held, connection, got, waited, elapsed, contents,
          calls, result>>

TypeOK ==
    /\ pc \in {"idle", "socket", "connect", "send", "receive", "gone"}
    /\ addrs \in 0..MaxAddrs
    /\ open \in Nat
    /\ held \in BOOLEAN
    /\ peer \in {"none", "syn", "refused", "up", "fin", "rst"}
    /\ asked \in BOOLEAN
    /\ answer \in Response \cup {NULL}
    /\ sent \in Nat /\ got \in 0..sent
    /\ waited \in Nat
    /\ elapsed \in Nat
    /\ status \in Statuses \cup {0}
    /\ body \in Body \cup {NULL}
    /\ heap \subseteq 1..calls
    /\ calls \in Nat
    /\ result \in {"none", "ok", "error"}

\* http_client_create, client_tcp_create.
Init ==
    /\ pc = "idle" /\ addrs = 0 /\ open = 0 /\ held = FALSE
    /\ peer = "none" /\ asked = FALSE /\ answer = NULL /\ sent = 0
    /\ got = 0 /\ waited = 0 /\ elapsed = 0
    /\ status = 0 /\ body = NULL /\ heap = {}
    /\ calls = 0 /\ result = "none"

-----------------------------------------------------------------------------
(***************************************************************************)
(* Responses.                                                              *)
(***************************************************************************)

\* Units of response r: the head, the halves of its chunks.
Units(r) == 1 + 2 * (IF r.chunked THEN Chunks + 1 ELSE Chunks)

\* Mutant: what is left of a chunk cut short is taken.
DecodesAnything(r, n) == n > 0

\* decode_chunked accepts what ends where a chunk does, the final empty chunk
\* or another; with a length given or not, a body that is not chunked is
\* taken as it comes.  n counts the units received, the head included.
Decodes(r, n) == n > 0 /\ (r.chunked => (n - 1) % 2 = 0)

\* The status codes http_client_get reports as a success.
Accepts(s) == s >= 200 /\ s < 600

-----------------------------------------------------------------------------
(***************************************************************************)
(* The end of a call.                                                      *)
(***************************************************************************)

\* Mutants: the descriptor is forgotten and not closed, or closed without a
\* look at whether there is one.
Forget == held' = FALSE /\ UNCHANGED open
CloseAnyway == held' = FALSE /\ open' = open - 1

\* client_tcp_close.
Close ==
    /\ held' = FALSE
    /\ open' = IF held THEN open - 1 ELSE open

\* http_client_get returns r after client_tcp_close; what it had in local
\* variables is gone.
Return(r) ==
    /\ Close
    /\ pc' = "idle"
    /\ result' = r
    /\ addrs' = 0
    /\ peer' = "none" /\ asked' = FALSE /\ sent' = 0
    /\ got' = 0 /\ waited' = 0 /\ elapsed' = 0
    /\ UNCHANGED <<answer, calls>>

\* Mutant: the result of send_request or receive_response is not looked at.
FailUnnoticed == Return("ok") /\ UNCHANGED contents

\* ... with the client's last response untouched.
Fail == Return("error") /\ UNCHANGED contents

-----------------------------------------------------------------------------
(***************************************************************************)
(* The client.                                                             *)
(***************************************************************************)

\* http_client_get up to the first socket.  parse_url or getaddrinfo may
\* fail, and client_tcp_connect refuses to start with a descriptor in hand.
HttpClientGet ==
    /\ pc = "idle"
    /\ calls < MaxCalls
    /\ calls' = calls + 1
    /\ peer' = "none" /\ asked' = FALSE /\ answer' = NULL /\ sent' = 0
    /\ got' = 0 /\ waited' = 0 /\ elapsed' = 0
    /\ \/ /\ ~held
          /\ \E n \in 1..MaxAddrs : addrs' = n
          /\ pc' = "socket"
          /\ result' = "none"
       \/ /\ UNCHANGED <<pc, addrs>>
          /\ result' = "error"
    /\ UNCHANGED <<open, held, contents>>

\* client_tcp_connect: a socket for the next address and a connect that does
\* not block.
OpenSocket ==
    /\ pc = "socket" /\ addrs > 0
    /\ addrs' = addrs - 1
    /\ \/ /\ open' = open + 1
          /\ pc' = "connect"
          /\ peer' = "syn"
       \/ UNCHANGED <<open, pc, peer>>  \* socket fails, or connect does and
                                        \* the socket is closed
    /\ waited' = 0
    /\ UNCHANGED <<held, asked, answer, sent, got, elapsed, contents, calls,
                   result>>

\* Mutant: a select that lasts a tick longer.
TimedOutLate == waited > Timeout

\* A select has lasted timeout_ms.
TimedOut == waited >= Timeout

\* ... the select for it: the peer has accepted and the descriptor is kept, or
\* it has refused or stayed silent and the next address is due.
AwaitConnect ==
    /\ pc = "connect"
    /\ \/ /\ peer \in {"up", "fin"}
          /\ held' = TRUE
          /\ pc' = "send"
          /\ UNCHANGED <<open, peer>>
       \/ /\ peer \in {"refused", "rst"} \/ (peer = "syn" /\ TimedOut)
          /\ open' = open - 1
          /\ pc' = "socket"
          /\ peer' = "none"
          /\ UNCHANGED held
    /\ UNCHANGED <<addrs, asked, answer, sent, got, waited, elapsed, contents,
                   calls, result>>

\* Mutant: the addresses are tried once more.
ConnectStartsOver ==
    /\ pc = "socket" /\ addrs = 0 /\ addrs' = MaxAddrs
    /\ UNCHANGED <<pc, open, held, connection, got, waited, elapsed, contents,
                   calls, result>>

\* ... until no address is left.
ConnectFails == pc = "socket" /\ addrs = 0 /\ Fail

\* send_request.  The request fits the socket's buffer, so send never blocks.
SendRequest ==
    /\ pc = "send"
    /\ \/ /\ peer # "rst"
          /\ asked' = TRUE
          /\ pc' = "receive"
          /\ waited' = 0
          /\ UNCHANGED <<addrs, open, held, peer, answer, sent, got, elapsed,
                         contents, calls, result>>
       \/ peer = "rst" /\ Fail

\* client_tcp_recv returns some of what has arrived.
Receive ==
    /\ pc = "receive" /\ got < sent
    /\ \/ /\ \E n \in (got + 1)..sent : got' = n
          /\ waited' = 0
          /\ UNCHANGED <<pc, addrs, open, held, connection, elapsed, contents,
                         calls, result>>
       \/ MemoryFaults /\ Fail

\* client_tcp_recv fails: select timed out or the connection was reset.
ReceiveFails ==
    /\ pc = "receive" /\ got = sent
    /\ peer = "rst" \/ (peer = "up" /\ TimedOut)
    /\ Fail

\* The peer has closed: receive_response parses what arrived and replaces the
\* body, http_client_get looks at the status.  The status line may have been
\* read although the head is incomplete.
ReceiveEnd ==
    /\ pc = "receive" /\ got = sent /\ peer = "fin"
    /\ \/ /\ got = 0
          /\ status' \in Statuses \cup {0, status}
          /\ UNCHANGED <<body, heap>>
          /\ Return("error")
       \/ /\ got > 0
          /\ status' = answer.status
          /\ \/ /\ answer.status # 0 /\ Decodes(answer, got)
                /\ body' = [call |-> calls, units |-> got - 1]
                /\ heap' = heap \cup {calls}
                /\ Return(IF Accepts(answer.status) THEN "ok" ELSE "error")
             \/ /\ \/ answer.status = 0 \/ ~Decodes(answer, got)
                   \/ MemoryFaults /\ answer.chunked
                /\ UNCHANGED <<body, heap>>
                /\ Return("error")
             \/ /\ MemoryFaults /\ answer.status # 0 /\ ~answer.chunked
                /\ body' = NULL
                /\ UNCHANGED heap
                /\ Return("error")

\* http_client_destroy frees the last body.
HttpClientDestroy ==
    /\ pc = "idle"
    /\ heap' = IF body = NULL THEN heap ELSE heap \ {body.call}
    /\ body' = NULL
    /\ Close
    /\ pc' = "gone"
    /\ UNCHANGED <<addrs, connection, got, waited, elapsed, status, calls, result>>

ClientStep ==
    \/ OpenSocket \/ AwaitConnect \/ ConnectFails \/ SendRequest
    \/ Receive \/ ReceiveFails \/ ReceiveEnd

-----------------------------------------------------------------------------
(***************************************************************************)
(* The environment.                                                        *)
(***************************************************************************)

\* The address answers the connect.
PeerAnswers ==
    /\ peer = "syn"
    /\ peer' \in {"up", "refused"}
    /\ UNCHANGED <<pc, addrs, open, held, asked, answer, sent, got, waited,
                   elapsed, contents, calls, result>>

\* The server decides on a response and sends its head, then the rest.
PeerSends ==
    /\ peer = "up" /\ asked
    /\ IF answer = NULL THEN answer' \in Response
                        ELSE sent < Units(answer) /\ UNCHANGED answer
    /\ sent' = sent + 1
    /\ UNCHANGED <<pc, addrs, open, held, peer, asked, got, waited, elapsed,
                   contents, calls, result>>

\* The server closes its side or resets the connection, at any time.
PeerCloses ==
    /\ peer = "up"
    /\ peer' \in {"fin", "rst"}
    /\ UNCHANGED <<pc, addrs, open, held, asked, answer, sent, got, waited,
                   elapsed, contents, calls, result>>

\* Time passes while the client has nothing to do but wait.
Tick ==
    /\ \/ pc = "connect" /\ peer = "syn"
       \/ pc = "receive" /\ got = sent /\ peer = "up"
    /\ ~TimedOut
    /\ elapsed < MaxElapsed
    /\ waited' = waited + 1
    /\ elapsed' = elapsed + 1
    /\ UNCHANGED <<pc, addrs, open, held, connection, got, contents, calls,
                   result>>

Next ==
    \/ HttpClientGet \/ ClientStep \/ HttpClientDestroy
    \/ PeerAnswers \/ PeerSends \/ PeerCloses \/ Tick

\* The operating system runs the client and its clock; nothing is asked of
\* the server, which may stay silent for ever.
Fairness == WF_vars(ClientStep) /\ WF_vars(Tick)

Spec == Init /\ [][Next]_vars /\ Fairness

-----------------------------------------------------------------------------
(***************************************************************************)
(* Properties.                                                             *)
(***************************************************************************)

\* Between calls the client has no descriptor: whichever way a call ended,
\* over however many addresses, the next one may connect again.
DescriptorsClosed == pc \in {"idle", "gone"} => open = 0 /\ ~held

\* After a success, the body that http_client_get_body returns is the one of
\* this call, with a status the caller may take for a success, and never an
\* earlier response left over by a call that failed.
BodyOfThisCall ==
    pc = "idle" /\ result = "ok" =>
        /\ body # NULL
        /\ body.call = calls
        /\ body.call \in heap
        /\ status >= 200 /\ status < 600

\* A chunked body is returned in whole chunks, whatever the server left out.
WholeChunks ==
    pc = "idle" /\ result = "ok" /\ answer.chunked => body.units % 2 = 0

\* The time a call takes: a timeout for each address, and one for each part
\* of the response that the server can make the client wait for.
CallTime == elapsed <= Timeout * (MaxAddrs + got + 1)

\* Every call returns, whatever the server does: each select has a timeout
\* and a response has an end.
EveryCallReturns == pc \notin {"idle", "gone"} ~> pc = "idle"

\* weather_client.hpp: setTimeout sets the "request timeout", in milliseconds.
RequestTimeout == elapsed <= Timeout

\* weather_client.hpp: the destructor "automatically cleans up resources".
AllBodiesFreed == pc = "gone" => heap = {}
=============================================================================
