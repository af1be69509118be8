---------------------------- MODULE WeatherClient ----------------------------
(***************************************************************************)
(* One process of the weather client (api/weather_client.cpp): its calls,  *)
(* its list of cached responses and its HTTP client.                       *)
(*                                                                         *)
(* makeRequest looks in the cache, asks the server on a miss, checks the   *)
(* document it gets and stores it.  The cache is ClientCache with a single *)
(* process, the network HttpClient; a step below is a step of one of them  *)
(* together with what the calling code does between two.                   *)
(*                                                                         *)
(* A request is known by its cache key: the methods of WeatherClient       *)
(* derive the URL and the key from the same arguments.  echo has none.     *)
(***************************************************************************)
EXTENDS Integers

CONSTANTS
    Self,           \* the process
    Keys, TTL, MaxEntries, CacheDir, DiskFaults, MaxCallTime, MaxTime,
    MaxStores, Empty, Damaged,
                    \* of ClientCache
    Timeout, MaxAddrs, Chunks, Statuses, MaxCalls, MaxElapsed,
                    \* of HttpClient
    MemoryFaults, NULL
                    \* of both

VARIABLES
    now, files, entries, at, arg, data, linked, todo, began, reply, stored,
    condemned, barred,
                    \* of ClientCache, `at` for its pc
    pc, addrs, open, held, peer, asked, answer, sent, got, waited, elapsed,
    status, body, heap, calls, result,
                    \* of HttpClient
    phase,          \* what the call of the client is busy with
    key,            \* the cache key of the request, NULL for an echo
    kind,           \* the kind of the document the server has for the
                    \* request, NULL when none is being made
    docs,           \* docs[i]: the document stored as response i, or NULL
    outcome         \* what the last step returned to the command, or NULL

cacheVars == <<now, files, entries, at, arg, data, linked, todo, began, reply,
               stored, condemned, barred>>
httpVars == <<pc, addrs, open, held, peer, asked, answer, sent, got, waited,
              elapsed, status, body, heap, calls, result>>
callVars == <<phase, key, kind, docs, outcome>>
vars == <<cacheVars, httpVars, callVars>>

Cache == INSTANCE ClientCache WITH Procs <- {Self}, pc <- at
Http == INSTANCE HttpClient

(***************************************************************************)
(* Documents: what was received, for which request and with which status.  *)
(***************************************************************************)

\* A JSON document, one whose "success" is false, and text that is no JSON.
Kinds == {"data", "error", "text"}

Document == [key : Keys \cup {NULL}, kind : Kinds, status : Nat, units : Nat]
Outcome == [key : Keys \cup {NULL}, doc : Document \cup {NULL}]

\* What the constructors of the cache and of the HTTP client make of the
\* configuration: sizes and times that are positive.
ASSUME ConfigurationAssumption ==
    /\ TTL \in Nat \ {0}
    /\ MaxEntries \in Nat \ {0}
    /\ MaxCallTime \in Nat
    /\ MaxTime \in Nat
    /\ MaxStores \in Nat

ASSUME FaultsAssumption ==
    /\ CacheDir \in BOOLEAN
    /\ MemoryFaults \in BOOLEAN
    /\ DiskFaults \in BOOLEAN

ASSUME NetworkAssumption ==
    /\ Timeout \in Nat \ {0}
    /\ MaxAddrs \in Nat \ {0}
    /\ Chunks \in Nat
    /\ Statuses \subseteq Nat
    /\ MemoryFaults \in BOOLEAN
    /\ MaxCalls \in Nat
    /\ MaxElapsed \in Nat

ASSUME NullAssumption ==
    /\ NULL \notin Keys \cup Kinds \cup Document \cup Outcome
    /\ NULL \notin Keys \cup Cache!Response \cup Cache!File \cup Cache!Reply
    /\ NULL \notin Http!Response \cup Http!Body
    /\ Empty \notin Cache!Response
    /\ Damaged \notin Cache!Response

TypeOK ==
    /\ Cache!TypeOK
    /\ Http!TypeOK
    /\ phase \in {"idle", "lookup", "miss", "http", "store", "clear"}
    /\ key \in Keys \cup {NULL}
    /\ kind \in Kinds \cup {NULL}
    /\ docs \in [1..MaxStores -> Document \cup {NULL}]
    /\ outcome \in Outcome \cup {NULL}

Init ==
    /\ Cache!Init
    /\ Http!Init
    /\ phase = "idle" /\ key = NULL /\ kind = NULL /\ outcome = NULL
    /\ docs = [i \in 1..MaxStores |-> NULL]

\* Mutant: a document cut short still parses.
ParsesAnything(d) == d.kind # "text"

\* json_loads takes a document whole: no prefix of an object is one.
JsonLoads(d) == d.kind # "text" /\ d.units >= 2 * Chunks

\* Mutant: the "success" field is not looked at.
ParsedOnly(d) == JsonLoads(d)

\* The document goes to the cache and to the caller.
Accepted(d) == JsonLoads(d) /\ d.kind # "error"

\* Mutant: the status line is not read.
ReceivedWithoutStatus == [key |-> key, kind |-> kind, units |-> body.units]

\* What http_client_get_body has for the request.
Received ==
    [key |-> key, kind |-> kind, status |-> status, units |-> body.units]

-----------------------------------------------------------------------------
(***************************************************************************)
(* The calls of a command.                                                 *)
(***************************************************************************)

\* The call goes on.
Proceed(k, next) ==
    /\ phase' = next
    /\ key' = k
    /\ outcome' = NULL

\* The call for key k returns d, or throws if that is NULL.
Return(k, d) ==
    /\ phase' = "idle"
    /\ key' = NULL
    /\ outcome' = [key |-> k, doc |-> d]

\* The bounds leave room for one more request.
MayRequest == stored < MaxStores /\ calls < MaxCalls

\* Mutant: the server is asked whatever the cache answers.
AskAnyway(k) ==
    IF reply' = NULL THEN Proceed(k, "lookup") ELSE Proceed(k, "miss")

\* What makeRequest does with the answer of client_cache_get, if there is one
\* yet: return it, or turn to the server.
AfterLookup(k) ==
    \/ reply' = NULL /\ Proceed(k, "lookup")
    \/ /\ reply' # NULL /\ reply'.data # NULL
       /\ Return(k, docs[reply'.data.id])
    \/ /\ reply' # NULL
       /\ reply'.data = NULL \/ MemoryFaults  \* json_loads short of memory
       /\ Proceed(k, "miss")

\* getCurrentWeather, getWeatherByCity, searchCities or getHomepage, with
\* arguments that pass its checks, up to client_cache_get in makeRequest.
MakeRequest(k) ==
    /\ phase = "idle" /\ MayRequest
    /\ Cache!Lookup(Self, k)
    /\ AfterLookup(k)
    /\ UNCHANGED <<httpVars, kind, docs>>

\* ... with arguments that do not, or that cannot be encoded.
RejectArguments ==
    /\ phase = "idle"
    /\ Return(NULL, NULL)
    /\ UNCHANGED <<cacheVars, httpVars, kind, docs>>

\* client_cache_get goes through the file.
ContinueLookup ==
    /\ phase = "lookup"
    /\ Cache!UnlinkStale(Self) \/ Cache!LoadFile(Self)
    /\ AfterLookup(key)
    /\ UNCHANGED <<httpVars, kind, docs>>

\* echo goes to the server straight away.
Echo ==
    /\ phase = "idle" /\ MayRequest
    /\ Proceed(NULL, "miss")
    /\ UNCHANGED <<cacheVars, httpVars, kind, docs>>

\* http_client_get begins; the server has some document for the request.
AskServer ==
    /\ phase = "miss"
    /\ Http!HttpClientGet
    /\ kind' \in Kinds
    /\ Proceed(key, "http")
    /\ UNCHANGED <<cacheVars, docs>>

\* ... and goes on.
HttpStep ==
    /\ phase = "http"
    /\ Http!ClientStep
    /\ outcome' = NULL
    /\ UNCHANGED <<cacheVars, phase, key, kind, docs>>

\* http_client_get has returned: an error, a body that is not a document or
\* an error reported by the API is thrown.
Throw ==
    /\ phase = "http" /\ pc = "idle"
    /\ ~(result = "ok" /\ (key # NULL => Accepted(Received)))
    /\ Return(key, NULL)
    /\ kind' = NULL
    /\ UNCHANGED <<cacheVars, httpVars, docs>>

\* echo returns the body as it is.
EchoBody ==
    /\ phase = "http" /\ pc = "idle" /\ result = "ok" /\ key = NULL
    /\ Return(NULL, Received)
    /\ kind' = NULL
    /\ UNCHANGED <<cacheVars, httpVars, docs>>

\* A document is stored, as far as client_cache_set gets, and returned.
Store ==
    /\ phase = "http" /\ pc = "idle" /\ result = "ok" /\ key # NULL
    /\ Accepted(Received)
    /\ Cache!ClientCacheSet(Self, key)
    /\ IF at'[Self] = "idle"
       THEN Return(key, Received) /\ UNCHANGED docs
       ELSE Proceed(key, "store") /\ docs' = [docs EXCEPT ![stored'] = Received]
    /\ kind' = NULL
    /\ UNCHANGED httpVars

ContinueStore ==
    /\ phase = "store"
    /\ Cache!OpenCacheFile(Self) \/ Cache!WriteCacheFile(Self)
    /\ IF at'[Self] = "idle" THEN Return(key, docs[stored])
                             ELSE Proceed(key, "store")
    /\ UNCHANGED <<httpVars, kind, docs>>

\* clearCache.
ClearCache ==
    /\ phase = "idle"
    /\ Cache!ClientCacheClear(Self)
    /\ Proceed(NULL, "clear")
    /\ UNCHANGED <<httpVars, kind, docs>>

ContinueClear ==
    /\ phase = "clear"
    /\ \/ Cache!ClearFile(Self) \/ Cache!ClearList(Self)
       \/ Cache!ClearDone(Self)
    /\ Proceed(NULL, IF at'[Self] = "idle" THEN "idle" ELSE "clear")
    /\ UNCHANGED <<httpVars, kind, docs>>

\* The process ends, at any time, and the next command is a new one.
Restart ==
    /\ Cache!Restart(Self)
    /\ pc' = "idle" /\ addrs' = 0 /\ open' = 0 /\ held' = FALSE
    /\ peer' = "none" /\ asked' = FALSE /\ answer' = NULL /\ sent' = 0
    /\ got' = 0 /\ waited' = 0 /\ elapsed' = 0
    /\ status' = 0 /\ body' = NULL /\ heap' = {}
    /\ calls' = 0 /\ result' = "none"
    /\ phase' = "idle" /\ key' = NULL /\ kind' = NULL /\ outcome' = NULL
    /\ UNCHANGED docs

-----------------------------------------------------------------------------
\* The network and the server, and a select that lasts.
Network ==
    /\ \/ Http!PeerAnswers \/ Http!PeerSends \/ Http!PeerCloses \/ Http!Tick
    /\ outcome' = NULL
    /\ UNCHANGED <<cacheVars, phase, key, kind, docs>>

\* A second passes.
Clock ==
    /\ Cache!Tick
    /\ outcome' = NULL
    /\ UNCHANGED <<httpVars, phase, key, kind, docs>>

Continue ==
    \/ ContinueLookup \/ AskServer \/ HttpStep \/ Throw \/ EchoBody
    \/ Store \/ ContinueStore \/ ContinueClear

Next ==
    \/ \E k \in Keys : MakeRequest(k)
    \/ RejectArguments \/ Echo \/ ClearCache
    \/ Continue
    \/ Restart \/ Network \/ Clock

\* The process runs and the clock of its selects too.
Fairness == WF_vars(Continue) /\ WF_vars(Network /\ Http!Tick)

Spec == Init /\ [][Next]_vars /\ Fairness

-----------------------------------------------------------------------------
(***************************************************************************)
(* Properties.                                                             *)
(***************************************************************************)

\* What a request returns, from the cache or the server, is the document of
\* that request, whole, and no error of the API: although the HTTP client
\* takes a body that the server cut short, every list and file of the cache
\* outlives the call that filled it, and a write may stop half way.
AnswersAreSound ==
    outcome # NULL /\ outcome.key # NULL /\ outcome.doc # NULL =>
        /\ outcome.doc.key = outcome.key
        /\ outcome.doc.kind = "data"
        /\ outcome.doc.units >= 2 * Chunks

\* The server is not asked for what the cache could answer: no entry and no
\* file of the key is within its time to live and readable when
\* http_client_get is called.
NoNeedlessRequest ==
    [][phase = "miss" /\ phase' = "http" /\ key # NULL =>
        /\ \A i \in DOMAIN entries[Self] :
              entries[Self][i].key = key => Cache!Expired(entries[Self][i])
        /\ ~(Cache!IsCacheFileValid(files[key]) /\ Cache!Parses(files[key]))]_vars

\* weather_client.cpp: "Cache the successful response".
CachesSuccesses ==
    \A i \in 1..MaxStores : docs[i] # NULL => docs[i].status < 400
==============================================================================
