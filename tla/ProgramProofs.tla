----------------------------- MODULE ProgramProofs -----------------------------
(***************************************************************************)
(* Proofs about WeatherClient and Program, for any keys, sizes, servers    *)
(* and faults.                                                             *)
(*                                                                         *)
(* CacheP and HttpP are the proofs of the cache and of the HTTP client,    *)
(* about the instances that WeatherClient is made of: a step of the client *)
(* is a step of either, so that their invariants are kept.  RequestInv     *)
(* adds where the call of the client is within theirs, and which document  *)
(* is behind each response in the list, in a file and in a set.            *)
(***************************************************************************)
EXTENDS Program, Sequences, SequenceTheorems, TLAPS

\* The proofs of the cache, whose one process is Self, and of the HTTP client.
CacheP == INSTANCE StoreProofs WITH Procs <- {Self}, pc <- at
HttpP == INSTANCE HttpClientProofs

-----------------------------------------------------------------------------
(***************************************************************************)
(* The inductive invariant of a request.                                   *)
(***************************************************************************)

CallTypes ==
    /\ phase \in {"idle", "lookup", "miss", "http", "store", "clear"}
    /\ key \in Keys \cup {NULL}
    /\ kind \in Kinds \cup {NULL}
    /\ docs \in [1..MaxStores -> Document \cup {NULL}]
    /\ outcome \in Outcome \cup {NULL}

\* Where the call of the client is, the cache is within the call it makes of
\* it, for the same key.
CallerOK ==
    /\ phase \in {"idle", "miss", "http"} => at[Self] = "idle"
    /\ phase = "lookup" =>
          at[Self] \in {"load", "unlink"} /\ key \in Keys /\ arg[Self] = key
    /\ phase = "store" =>
          /\ at[Self] \in {"open", "write"} /\ key \in Keys /\ arg[Self] = key
          /\ data[Self].id = stored
    /\ phase = "clear" => at[Self] \in {"clear_own", "clear_dir"}
    /\ phase \in {"idle", "clear"} => key = NULL
    /\ phase = "http" => kind \in Kinds

\* The document that is response r of the cache is one of its key.
Known(r) == docs[r.id] # NULL /\ docs[r.id].key = r.key

\* Every document stored may be returned, and every response in a list, in a
\* file or about to be written is a document stored.
DocsOK ==
    /\ stored <= MaxStores
    /\ \A i \in 1..MaxStores :
          docs[i] # NULL =>
              docs[i].kind = "data" /\ docs[i].units >= 2 * Chunks
    /\ \A k \in Keys : CacheP!HoldsResponse(k) => Known(files[k].data)
    /\ \A e \in CacheP!Range(entries[Self]) : Known(e.data)
    /\ CacheP!Writing(Self) => Known(data[Self])

RequestInv ==
    /\ CacheP!FreshInv /\ CacheP!SerialsOK /\ HttpP!HttpInv
    /\ CallTypes /\ CallerOK /\ DocsOK /\ AnswersAreSound

-----------------------------------------------------------------------------
(***************************************************************************)
(* Cache and Http are the modules those proofs are about.                  *)
(***************************************************************************)

\* The sets of values are the same.
LEMMA SameSets ==
    /\ Cache!Response = CacheP!Response /\ Cache!File = CacheP!File
    /\ Cache!Entry = CacheP!Entry /\ Cache!Reply = CacheP!Reply
    /\ Http!Response = HttpP!Response /\ Http!Body = HttpP!Body
BY DEF Cache!Response, CacheP!Response, Cache!File, CacheP!File, Cache!Entry,
       CacheP!Entry, Cache!Reply, CacheP!Reply,
       Http!Response, HttpP!Response, Http!Body, HttpP!Body

\* What the proofs of the two modules assume of their constants.
LEMMA CacheConstants ==
    /\ TTL \in Nat \ {0}
    /\ MaxEntries \in Nat \ {0}
    /\ MaxCallTime \in Nat
    /\ MaxTime \in Nat
    /\ MaxStores \in Nat
BY ConfigurationAssumption

\* NULL and the contents of files that are no response are none of the cache's
\* values.
LEMMA CacheNull ==
    /\ NULL \notin Keys \cup CacheP!Response \cup CacheP!File \cup CacheP!Reply
    /\ Empty \notin CacheP!Response
    /\ Damaged \notin CacheP!Response
BY NullAssumption, SameSets

\* NULL is none of the HTTP client's values.
LEMMA HttpNull == NULL \notin HttpP!Response \cup HttpP!Body
BY NullAssumption, SameSets

\* The operators on lists and files are the same.
LEMMA SameOperators ==
    ASSUME NEW s, NEW k
    PROVE  /\ Cache!Find(s, k) = CacheP!Find(s, k)
           /\ Cache!RemoveAt(s, k) = CacheP!RemoveAt(s, k)
           /\ Cache!Without(s, k) = CacheP!Without(s, k)
           /\ Cache!Full(s) <=> CacheP!Full(s)
           /\ Cache!Oldest(s) = CacheP!Oldest(s)
           /\ Cache!Evicted(s) = CacheP!Evicted(s)
           /\ Cache!AddEntry(s, k) = CacheP!AddEntry(s, k)
           /\ Cache!Expired(k) <=> CacheP!Expired(k)
           /\ Cache!IsCacheFileValid(k) <=> CacheP!IsCacheFileValid(k)
           /\ Cache!Parses(k) <=> CacheP!Parses(k)
           /\ Cache!DeleteFile(k) <=> CacheP!DeleteFile(k)
           /\ Cache!Written(s, k) = CacheP!Written(s, k)
<1>1. /\ Cache!Find(s, k) = CacheP!Find(s, k)
      /\ Cache!RemoveAt(s, k) = CacheP!RemoveAt(s, k)
      /\ Cache!Full(s) <=> CacheP!Full(s)
      /\ Cache!Oldest(s) = CacheP!Oldest(s)
      /\ Cache!AddEntry(s, k) = CacheP!AddEntry(s, k)
    BY DEF Cache!Find, CacheP!Find, Cache!RemoveAt, CacheP!RemoveAt, Cache!Full,
           CacheP!Full, Cache!Oldest, CacheP!Oldest, Cache!AddEntry, CacheP!AddEntry
<1>2. Cache!Without(s, k) = CacheP!Without(s, k)
    BY DEF Cache!Without, CacheP!Without, Cache!Find, CacheP!Find,
           Cache!RemoveAt, CacheP!RemoveAt
<1>3. Cache!Evicted(s) = CacheP!Evicted(s)
    BY DEF Cache!Evicted, CacheP!Evicted, Cache!Full, CacheP!Full,
           Cache!Oldest, CacheP!Oldest, Cache!RemoveAt, CacheP!RemoveAt
<1>4. /\ Cache!Expired(k) <=> CacheP!Expired(k)
      /\ Cache!IsCacheFileValid(k) <=> CacheP!IsCacheFileValid(k)
      /\ Cache!Parses(k) <=> CacheP!Parses(k)
      /\ Cache!DeleteFile(k) <=> CacheP!DeleteFile(k)
      /\ Cache!Written(s, k) = CacheP!Written(s, k)
    BY DEF Cache!Expired, CacheP!Expired, Cache!IsCacheFileValid,
           CacheP!IsCacheFileValid, Cache!Parses, CacheP!Parses,
           Cache!DeleteFile, CacheP!DeleteFile, Cache!Written, CacheP!Written
<1> QED  BY <1>1, <1>2, <1>3, <1>4

\* The actions of the cache are the same, for the one process.
LEMMA SameActions ==
    ASSUME NEW k
    PROVE  /\ Cache!ClientCacheSet(Self, k) <=> CacheP!ClientCacheSet(Self, k)
           /\ Cache!GetExpired(Self, k) <=> CacheP!GetExpired(Self, k)
           /\ Cache!GetUnbacked(Self, k) <=> CacheP!GetUnbacked(Self, k)
           /\ Cache!GetHit(Self, k) <=> CacheP!GetHit(Self, k)
           /\ Cache!GetStat(Self, k) <=> CacheP!GetStat(Self, k)
           /\ Cache!UnlinkStale(Self) <=> CacheP!UnlinkStale(Self)
           /\ Cache!LoadFile(Self) <=> CacheP!LoadFile(Self)
           /\ Cache!OpenCacheFile(Self) <=> CacheP!OpenCacheFile(Self)
           /\ Cache!WriteCacheFile(Self) <=> CacheP!WriteCacheFile(Self)
           /\ Cache!ClientCacheClear(Self) <=> CacheP!ClientCacheClear(Self)
           /\ Cache!ClearFile(Self) <=> CacheP!ClearFile(Self)
           /\ Cache!ClearList(Self) <=> CacheP!ClearList(Self)
           /\ Cache!ClearDone(Self) <=> CacheP!ClearDone(Self)
           /\ Cache!Restart(Self) <=> CacheP!Restart(Self)
           /\ Cache!Tick <=> CacheP!Tick
<1> USE DEF Cache!Idle, CacheP!Idle, Cache!Answer, CacheP!Answer,
        Cache!NoAnswer, CacheP!NoAnswer, Cache!Start, CacheP!Start,
        Cache!Goto, CacheP!Goto, Cache!Return, CacheP!Return,
        Cache!callVars, CacheP!callVars, Cache!ghostVars, CacheP!ghostVars
<1>1. /\ Cache!GetExpired(Self, k) <=> CacheP!GetExpired(Self, k)
      /\ Cache!GetUnbacked(Self, k) <=> CacheP!GetUnbacked(Self, k)
      /\ Cache!GetHit(Self, k) <=> CacheP!GetHit(Self, k)
      /\ Cache!GetStat(Self, k) <=> CacheP!GetStat(Self, k)
    <2> USE DEF Cache!Find, CacheP!Find, Cache!Expired, CacheP!Expired,
                Cache!RemoveAt, CacheP!RemoveAt, Cache!DeleteFile, CacheP!DeleteFile,
                Cache!IsCacheFileValid, CacheP!IsCacheFileValid
    <2>1. Cache!GetExpired(Self, k) <=> CacheP!GetExpired(Self, k)
        BY DEF Cache!GetExpired, CacheP!GetExpired
    <2>2. Cache!GetUnbacked(Self, k) <=> CacheP!GetUnbacked(Self, k)
        BY DEF Cache!GetUnbacked, CacheP!GetUnbacked
    <2>3. Cache!GetHit(Self, k) <=> CacheP!GetHit(Self, k)
        BY DEF Cache!GetHit, CacheP!GetHit
    <2>4. Cache!GetStat(Self, k) <=> CacheP!GetStat(Self, k)
        BY DEF Cache!GetStat, CacheP!GetStat
    <2> QED  BY <2>1, <2>2, <2>3, <2>4
<1>2. /\ Cache!UnlinkStale(Self) <=> CacheP!UnlinkStale(Self)
      /\ Cache!LoadFile(Self) <=> CacheP!LoadFile(Self)
    BY SameOperators DEF Cache!UnlinkStale, CacheP!UnlinkStale, Cache!LoadFile, CacheP!LoadFile
<1>3. Cache!ClientCacheSet(Self, k) <=> CacheP!ClientCacheSet(Self, k)
    BY SameOperators DEF Cache!ClientCacheSet, CacheP!ClientCacheSet
<1>4. /\ Cache!OpenCacheFile(Self) <=> CacheP!OpenCacheFile(Self)
      /\ Cache!WriteCacheFile(Self) <=> CacheP!WriteCacheFile(Self)
    <2>1. Cache!OpenCacheFile(Self) <=> CacheP!OpenCacheFile(Self)
        BY DEF Cache!OpenCacheFile, CacheP!OpenCacheFile
    <2>2. Cache!WriteCacheFile(Self) <=> CacheP!WriteCacheFile(Self)
        BY DEF Cache!WriteCacheFile, CacheP!WriteCacheFile, Cache!Written, CacheP!Written
    <2> QED  BY <2>1, <2>2
<1>5. /\ Cache!ClientCacheClear(Self) <=> CacheP!ClientCacheClear(Self)
      /\ Cache!ClearFile(Self) <=> CacheP!ClearFile(Self)
      /\ Cache!ClearList(Self) <=> CacheP!ClearList(Self)
      /\ Cache!ClearDone(Self) <=> CacheP!ClearDone(Self)
    <2>1. Cache!ClientCacheClear(Self) <=> CacheP!ClientCacheClear(Self)
        BY DEF Cache!ClientCacheClear, CacheP!ClientCacheClear, Cache!InFlight,
               CacheP!InFlight
    <2>2. Cache!ClearFile(Self) <=> CacheP!ClearFile(Self)
        BY DEF Cache!ClearFile, CacheP!ClearFile, Cache!DeleteFile, CacheP!DeleteFile
    <2>3. Cache!ClearList(Self) <=> CacheP!ClearList(Self)
        BY DEF Cache!ClearList, CacheP!ClearList, Cache!Directory, CacheP!Directory
    <2>4. Cache!ClearDone(Self) <=> CacheP!ClearDone(Self)
        BY DEF Cache!ClearDone, CacheP!ClearDone
    <2> QED  BY <2>1, <2>2, <2>3, <2>4
<1>6. /\ Cache!Restart(Self) <=> CacheP!Restart(Self)
      /\ Cache!Tick <=> CacheP!Tick
    BY DEF Cache!Restart, CacheP!Restart, Cache!Tick, CacheP!Tick
<1> QED  BY <1>1, <1>2, <1>3, <1>4, <1>5, <1>6

\* The actions of the HTTP client and of its peer are the same.
LEMMA SameRequests ==
    /\ Http!Init <=> HttpP!Init
    /\ Http!HttpClientGet <=> HttpP!HttpClientGet
    /\ Http!ClientStep <=> HttpP!ClientStep
    /\ Http!PeerAnswers \/ Http!PeerSends \/ Http!PeerCloses \/ Http!Tick
          <=> HttpP!PeerAnswers \/ HttpP!PeerSends \/ HttpP!PeerCloses \/ HttpP!Tick
<1> USE DEF Http!contents, HttpP!contents, Http!connection, HttpP!connection
<1>1. Http!Init <=> HttpP!Init
    BY DEF Http!Init, HttpP!Init
<1>2. Http!HttpClientGet <=> HttpP!HttpClientGet
    BY DEF Http!HttpClientGet, HttpP!HttpClientGet
<1>3. Http!ClientStep <=> HttpP!ClientStep
    <2> USE DEF Http!Return, HttpP!Return, Http!Close, HttpP!Close,
                Http!Fail, HttpP!Fail, Http!TimedOut, HttpP!TimedOut
    <2>1. Http!OpenSocket <=> HttpP!OpenSocket
        BY DEF Http!OpenSocket, HttpP!OpenSocket
    <2>2. Http!AwaitConnect <=> HttpP!AwaitConnect
        BY DEF Http!AwaitConnect, HttpP!AwaitConnect
    <2>3. Http!ConnectFails <=> HttpP!ConnectFails
        BY DEF Http!ConnectFails, HttpP!ConnectFails
    <2>4. Http!SendRequest <=> HttpP!SendRequest
        BY DEF Http!SendRequest, HttpP!SendRequest
    <2>5. Http!Receive <=> HttpP!Receive
        BY DEF Http!Receive, HttpP!Receive
    <2>6. Http!ReceiveFails <=> HttpP!ReceiveFails
        BY DEF Http!ReceiveFails, HttpP!ReceiveFails
    <2>7. Http!ReceiveEnd <=> HttpP!ReceiveEnd
        BY DEF Http!ReceiveEnd, HttpP!ReceiveEnd, Http!Decodes, HttpP!Decodes,
               Http!Accepts, HttpP!Accepts
    <2> QED  BY <2>1, <2>2, <2>3, <2>4, <2>5, <2>6, <2>7
             DEF Http!ClientStep, HttpP!ClientStep
<1>4. Http!PeerAnswers \/ Http!PeerSends \/ Http!PeerCloses \/ Http!Tick
          <=> HttpP!PeerAnswers \/ HttpP!PeerSends \/ HttpP!PeerCloses \/ HttpP!Tick
    <2>1. Http!PeerAnswers <=> HttpP!PeerAnswers
        BY DEF Http!PeerAnswers, HttpP!PeerAnswers
    <2>2. Http!PeerSends <=> HttpP!PeerSends
        BY DEF Http!PeerSends, HttpP!PeerSends, Http!Response, HttpP!Response,
               Http!Units, HttpP!Units
    <2>3. Http!PeerCloses <=> HttpP!PeerCloses
        BY DEF Http!PeerCloses, HttpP!PeerCloses
    <2>4. Http!Tick <=> HttpP!Tick
        BY DEF Http!Tick, HttpP!Tick, Http!TimedOut, HttpP!TimedOut
    <2> QED  BY <2>1, <2>2, <2>3, <2>4
<1> QED  BY <1>1, <1>2, <1>3, <1>4

-----------------------------------------------------------------------------
(***************************************************************************)
(* A step of the program is a step of the client, a step of the cache and, *)
(* unless the process ends, one of the network.                            *)
(***************************************************************************)

\* A step of the command line is one of the client, or leaves it alone.
LEMMA ProgramStep == [ProgramNext]_programVars => [Next]_vars
BY DEF ProgramNext, programVars, ExitAtOnce, Main, ParseFails, Execute,
       ContinueCommand, Exit, Kill, Environment, Next

\* A step of the client is a step of the cache, or leaves it alone.
LEMMA CacheStep ==
    ASSUME key \in Keys \cup {NULL}, [Next]_vars
    PROVE  [CacheP!Next]_(CacheP!vars)
<1>1. UNCHANGED cacheVars => UNCHANGED CacheP!vars
    BY DEF cacheVars, CacheP!vars, CacheP!callVars, CacheP!ghostVars
<1>2. ASSUME NEW k \in Keys, MakeRequest(k)
      PROVE  CacheP!Next
    BY <1>2, SameActions DEF MakeRequest, Cache!Lookup, CacheP!Lookup, CacheP!Next
<1>3. ContinueLookup => CacheP!Next
    BY SameActions DEF ContinueLookup, CacheP!Next, CacheP!Continue
<1>4. Store => CacheP!Next
    BY SameActions DEF Store, CacheP!Next
<1>5. ContinueStore => CacheP!Next
    BY SameActions DEF ContinueStore, CacheP!Next, CacheP!Continue
<1>6. ClearCache \/ ContinueClear => CacheP!Next
    BY SameActions DEF ClearCache, ContinueClear, CacheP!Next, CacheP!Continue
<1>7. Restart \/ Clock => CacheP!Next
    BY SameActions DEF Restart, Clock, CacheP!Next
<1>8. RejectArguments \/ Echo \/ AskServer \/ HttpStep \/ Throw \/ EchoBody
         \/ Network \/ UNCHANGED vars => UNCHANGED CacheP!vars
    BY <1>1 DEF RejectArguments, Echo, AskServer, HttpStep, Throw, EchoBody,
                Network, vars
<1> QED
    BY <1>2, <1>3, <1>4, <1>5, <1>6, <1>7, <1>8 DEF Next, Continue

-----------------------------------------------------------------------------
(***************************************************************************)
(* What the proofs of the two modules give for a step of the client.       *)
(***************************************************************************)

\* The invariants of the cache hold after it, and its responses come from where
\* its proofs say.
LEMMA CacheInvStep ==
    ASSUME RequestInv, [Next]_vars
    PROVE  /\ CacheP!FreshInv' /\ CacheP!SerialsOK'
           /\ CacheP!FileSources /\ CacheP!EntrySources /\ CacheP!CallSources
<1> USE CacheConstants, FaultsAssumption, CacheNull
<1>1. CacheP!FreshInv /\ CacheP!SerialsOK /\ [CacheP!Next]_(CacheP!vars)
    BY CacheStep DEF RequestInv, CallTypes
<1>2. CacheP!FreshInv'
    BY <1>1, CacheP!FreshStep
<1>3. CacheP!SerialsOK'
    BY <1>1, CacheP!SerialsStep
<1>4. CacheP!FileSources /\ CacheP!EntrySources /\ CacheP!CallSources
    BY <1>1, CacheP!FileSourcesStep, CacheP!EntrySourcesStep, CacheP!CallSourcesStep
<1> QED  BY <1>2, <1>3, <1>4

\* The invariant of the HTTP client holds at first.
LEMMA HttpInit == Http!Init => HttpP!HttpInv
<1> SUFFICES ASSUME Http!Init
             PROVE  HttpP!HttpInv
    OBVIOUS
<1> USE DEF Http!Init
<1>1. HttpP!ControlTypes /\ HttpP!ConnectionTypes
    BY NetworkAssumption DEF HttpP!ControlTypes, HttpP!ConnectionTypes
<1>2. HttpP!ContentTypes /\ HttpP!FlagTypes
    BY DEF HttpP!ContentTypes, HttpP!FlagTypes
<1>3. HttpP!DescriptorsOK /\ HttpP!CallOK
    BY DEF HttpP!DescriptorsOK, HttpP!CallOK
<1>4. HttpP!BodyOfThisCall /\ HttpP!WholeChunks
    BY DEF HttpP!BodyOfThisCall, HttpP!WholeChunks
<1> QED  BY <1>1, <1>2, <1>3, <1>4 DEF HttpP!HttpInv

\* ... and after a step of the client, which uses it through http_client_get.
LEMMA HttpInvStep ==
    ASSUME RequestInv, [Next]_vars
    PROVE  HttpP!HttpInv'
<1> USE NetworkAssumption, HttpNull DEF RequestInv
<1>1. ASSUME [HttpP!Next]_(HttpP!vars)
      PROVE  HttpP!HttpInv'
    BY <1>1, HttpP!HttpStep
<1>2. CASE UNCHANGED httpVars
    BY <1>1, <1>2 DEF httpVars, HttpP!vars, HttpP!connection, HttpP!contents
<1>3. CASE AskServer \/ HttpStep \/ Network
    BY <1>1, <1>3, SameRequests DEF AskServer, HttpStep, Network, HttpP!Next
<1>4. CASE Restart
    <2>1. HttpP!ControlTypes' /\ HttpP!ConnectionTypes'
        BY <1>4 DEF Restart, HttpP!ControlTypes, HttpP!ConnectionTypes
    <2>2. HttpP!ContentTypes' /\ HttpP!FlagTypes'
        BY <1>4 DEF Restart, HttpP!ContentTypes, HttpP!FlagTypes
    <2>3. HttpP!DescriptorsOK' /\ HttpP!CallOK'
        BY <1>4 DEF Restart, HttpP!DescriptorsOK, HttpP!CallOK
    <2>4. HttpP!BodyOfThisCall' /\ HttpP!WholeChunks'
        BY <1>4 DEF Restart, HttpP!BodyOfThisCall, HttpP!WholeChunks
    <2> QED  BY <2>1, <2>2, <2>3, <2>4 DEF HttpP!HttpInv
<1> QED
    BY <1>2, <1>3, <1>4
       DEF Next, Continue, MakeRequest, RejectArguments, Echo, ClearCache,
           ContinueLookup, Throw, EchoBody, Store, ContinueStore, ContinueClear,
           Clock, vars

\* The variables of the cache, for the one process.
LEMMA CacheTypes ==
    ASSUME CacheP!FreshInv
    PROVE  /\ now \in Nat /\ stored \in Nat
           /\ files \in [Keys -> CacheP!File \cup {NULL}]
           /\ entries \in [{Self} -> Seq(CacheP!Entry)]
           /\ at \in [{Self} -> CacheP!PCs]
           /\ arg \in [{Self} -> Keys \cup {NULL}]
           /\ data \in [{Self} -> CacheP!Response \cup {NULL}]
           /\ reply \in CacheP!Reply \cup {NULL}
           /\ CacheP!ListOK(entries[Self])
BY DEF CacheP!FreshInv, CacheP!TypeInv, CacheP!TypeOK, CacheP!ListsOK

\* What http_client_get_body has after a success is a document.
LEMMA ReceivedType ==
    ASSUME RequestInv, phase = "http", pc = "idle", result = "ok"
    PROVE  Received \in Document
<1>1. body \in HttpP!Body /\ status \in Nat
    BY NetworkAssumption DEF RequestInv, HttpP!HttpInv, HttpP!ContentTypes,
       HttpP!BodyOfThisCall
<1>2. body.units \in Nat
    BY <1>1 DEF HttpP!Body
<1>3. key \in Keys \cup {NULL} /\ kind \in Kinds
    BY DEF RequestInv, CallTypes, CallerOK
<1> QED  BY <1>1, <1>2, <1>3 DEF Received, Document

-----------------------------------------------------------------------------
(***************************************************************************)
(* What each call leaves to the step after it.                             *)
(***************************************************************************)

\* client_cache_get answers for its key, or goes on to the file of it.
LEMMA LookupCall ==
    ASSUME CacheP!FreshInv, NEW k \in Keys, Cache!Lookup(Self, k)
    PROVE  /\ stored' = stored
           /\ \/ /\ reply' # NULL /\ reply'.key = k /\ at'[Self] = "idle"
                 /\ reply'.data # NULL => \E e \in CacheP!Range(entries[Self]) :
                                             reply'.data = e.data
              \/ /\ reply' = NULL /\ at'[Self] \in {"load", "unlink"}
                 /\ arg'[Self] = k
<1> USE CacheTypes
<1>1. ASSUME NEW d \in CacheP!Response \cup {NULL}, CacheP!Answer(Self, k, d)
      PROVE  reply' # NULL /\ reply'.key = k /\ reply'.data = d
    <2>1. reply' \in CacheP!Reply
        BY <1>1 DEF CacheP!Answer, CacheP!Reply
    <2> QED  BY <1>1, <2>1, CacheNull DEF CacheP!Answer
<1>2. CASE CacheP!GetExpired(Self, k) \/ CacheP!GetUnbacked(Self, k)
    BY <1>1, <1>2 DEF CacheP!GetExpired, CacheP!GetUnbacked, CacheP!Idle,
                      CacheP!callVars, CacheP!ghostVars
<1>3. CASE CacheP!GetHit(Self, k)
    <2>1. PICK i \in CacheP!Find(entries[Self], k) :
                 \/ CacheP!Answer(Self, k, entries[Self][i].data)
                 \/ CacheP!Answer(Self, k, NULL)
        BY <1>3 DEF CacheP!GetHit
    <2>2. entries[Self][i] \in CacheP!Range(entries[Self])
        BY <2>1 DEF CacheP!Find, CacheP!Range
    <2>3. entries[Self][i].data \in CacheP!Response
        <3>1. entries[Self] \in Seq(CacheP!Entry) /\ i \in DOMAIN entries[Self]
            BY <2>1 DEF CacheP!Find
        <3>2. entries[Self][i] \in CacheP!Entry
            BY <3>1, LenProperties, ElementOfSeq
        <3> QED  BY <3>2 DEF CacheP!Entry
    <2>4. stored' = stored /\ at'[Self] = "idle"
        BY <1>3 DEF CacheP!GetHit, CacheP!Idle, CacheP!callVars, CacheP!ghostVars
    <2> QED  BY <1>1, <2>1, <2>2, <2>3, <2>4
<1>4. CASE CacheP!GetStat(Self, k)
    BY <1>4 DEF CacheP!GetStat, CacheP!Start, CacheP!NoAnswer, CacheP!ghostVars
<1> QED  BY <1>2, <1>3, <1>4, SameActions DEF Cache!Lookup

\* ... which is where the answer is then, if there is one.
LEMMA FileCall ==
    ASSUME CacheP!FreshInv, Cache!UnlinkStale(Self) \/ Cache!LoadFile(Self)
    PROVE  /\ stored' = stored
           /\ reply' # NULL /\ reply'.key = arg[Self] /\ at'[Self] = "idle"
           /\ reply'.data # NULL =>
                 /\ CacheP!HoldsResponse(arg[Self])
                 /\ reply'.data = files[arg[Self]].data
<1> DEFINE k == arg[Self]
<1>1. k \in Keys
    BY SameActions DEF CacheP!FreshInv, CacheP!TypeInv, CacheP!CallsOK,
       CacheP!CallOK, CacheP!UnlinkStale, CacheP!LoadFile
<1>2. ASSUME NEW d \in CacheP!Response \cup {NULL}, CacheP!Answer(Self, k, d)
      PROVE  reply' # NULL /\ reply'.key = k /\ reply'.data = d
    <2>1. reply' \in CacheP!Reply
        BY <1>1, <1>2 DEF CacheP!Answer, CacheP!Reply
    <2> QED  BY <1>2, <2>1, CacheNull DEF CacheP!Answer
<1>3. CASE CacheP!UnlinkStale(Self)
    BY <1>2, <1>3, CacheTypes DEF CacheP!UnlinkStale, CacheP!Return, CacheP!ghostVars
<1>4. CASE CacheP!LoadFile(Self)
    <2>1. \/ CacheP!Parses(files[k]) /\ CacheP!Answer(Self, k, files[k].data)
          \/ CacheP!Answer(Self, k, NULL)
        BY <1>4 DEF CacheP!LoadFile
    <2>2. CacheP!Parses(files[k]) => CacheP!HoldsResponse(k)
        BY <1>1, CacheTypes DEF CacheP!Parses, CacheP!HoldsResponse, CacheP!File
    <2>3. stored' = stored /\ at'[Self] = "idle"
        BY <1>4, CacheTypes DEF CacheP!LoadFile, CacheP!Return, CacheP!ghostVars
    <2> QED  BY <1>2, <2>1, <2>2, <2>3 DEF CacheP!HoldsResponse
<1> QED  BY <1>3, <1>4, SameActions

\* client_cache_set gives the new response its number and goes on to the
\* file, or gives up.
LEMMA SetCall ==
    ASSUME CacheP!FreshInv, NEW k \in Keys, Cache!ClientCacheSet(Self, k)
    PROVE  \/ /\ at'[Self] = "open" /\ arg'[Self] = k
              /\ data'[Self] = [key |-> k, id |-> stored + 1, born |-> now]
              /\ stored' = stored + 1 /\ stored' <= MaxStores
           \/ MemoryFaults /\ at'[Self] = "idle" /\ stored' = stored
BY SameActions, CacheTypes, ConfigurationAssumption
   DEF CacheP!ClientCacheSet, CacheP!Start, CacheP!Idle, CacheP!callVars

\* The file is opened and written for the same response.
LEMMA SaveCall ==
    ASSUME CacheP!FreshInv, Cache!OpenCacheFile(Self) \/ Cache!WriteCacheFile(Self)
    PROVE  /\ stored' = stored
           /\ \/ at'[Self] = "write" /\ arg' = arg /\ data' = data
              \/ at'[Self] = "idle"
BY SameActions, CacheTypes
   DEF CacheP!OpenCacheFile, CacheP!WriteCacheFile, CacheP!Goto, CacheP!Return,
       CacheP!ghostVars

\* A step of client_cache_clear stores nothing and writes no file.
LEMMA ClearCall ==
    ASSUME CacheP!FreshInv
    PROVE  /\ Cache!ClientCacheClear(Self) =>
                 stored' = stored /\ at'[Self] = "clear_own"
           /\ Cache!ClearFile(Self) \/ Cache!ClearList(Self) \/ Cache!ClearDone(Self)
                 => stored' = stored /\ at'[Self] \in {"clear_own", "clear_dir", "idle"}
           /\ Cache!Restart(Self) => stored' = stored /\ at'[Self] = "idle"
<1> USE SameActions, CacheTypes DEF CacheP!ghostVars, CacheP!Return
<1>1. Cache!ClientCacheClear(Self) => stored' = stored /\ at'[Self] = "clear_own"
    BY DEF CacheP!ClientCacheClear
<1>2. Cache!ClearFile(Self) => stored' = stored /\ at' = at /\ at[Self] \in {"clear_own", "clear_dir"}
    BY DEF CacheP!ClearFile
<1>3. Cache!ClearList(Self) => stored' = stored /\ at'[Self] = "clear_dir"
    BY DEF CacheP!ClearList
<1>4. Cache!ClearDone(Self) => stored' = stored /\ at'[Self] = "idle"
    BY DEF CacheP!ClearDone
<1>5. Cache!Restart(Self) => stored' = stored /\ at'[Self] = "idle"
    BY DEF CacheP!Restart
<1> QED  BY <1>1, <1>2, <1>3, <1>4, <1>5

\* The clock of the cache changes nothing but the time.
LEMMA ClockCall == Cache!Tick => UNCHANGED <<stored, at, arg, data, files, entries>>
BY DEF Cache!Tick, Cache!callVars, Cache!ghostVars

\* Where a call has got to, the client and the cache agree.
LEMMA CallerStep ==
    ASSUME RequestInv, [Next]_vars
    PROVE  CallerOK'
<1> USE DEF RequestInv, CallTypes
<1>1. ASSUME NEW k \in Keys, MakeRequest(k)
      PROVE  CallerOK'
    BY <1>1, LookupCall DEF MakeRequest, AfterLookup, Proceed, Return, CallerOK
<1>2. CASE ContinueLookup
    BY <1>2, FileCall DEF ContinueLookup, AfterLookup, Proceed, Return, CallerOK
<1>3. CASE RejectArguments \/ Echo \/ Throw \/ EchoBody
    BY <1>3 DEF RejectArguments, Echo, Throw, EchoBody, Proceed, Return,
                CallerOK, cacheVars
<1>4. CASE AskServer
    BY <1>4 DEF AskServer, Proceed, CallerOK, cacheVars
<1>5. CASE HttpStep \/ Network \/ UNCHANGED vars
    BY <1>5 DEF HttpStep, Network, CallerOK, cacheVars, vars, callVars
<1>6. CASE Store
    <2>1. key \in Keys /\ Cache!ClientCacheSet(Self, key)
        BY <1>6 DEF Store
    <2>2. CASE at'[Self] = "idle"
        BY <1>6, <2>2 DEF Store, Return, CallerOK
    <2>3. CASE at'[Self] # "idle"
        <3>1. /\ at'[Self] = "open" /\ arg'[Self] = key
              /\ data'[Self] = [key |-> key, id |-> stored + 1, born |-> now]
              /\ stored' = stored + 1
            BY <2>1, <2>3, SetCall
        <3>2. phase' = "store" /\ key' = key /\ kind' = NULL
            BY <1>6, <2>3 DEF Store, Proceed
        <3> QED  BY <2>1, <3>1, <3>2 DEF CallerOK
    <2> QED  BY <2>2, <2>3
<1>7. CASE ContinueStore
    BY <1>7, SaveCall DEF ContinueStore, Proceed, Return, CallerOK
<1>8. CASE ClearCache \/ ContinueClear
    BY <1>8, ClearCall DEF ClearCache, ContinueClear, Proceed, CallerOK
<1>9. CASE Restart
    BY <1>9, ClearCall DEF Restart, CallerOK
<1>10. CASE Clock
    BY <1>10, ClockCall DEF Clock, CallerOK
<1> QED
    BY <1>1, <1>2, <1>3, <1>4, <1>5, <1>6, <1>7, <1>8, <1>9, <1>10 DEF Next, Continue

\* What a lookup answers is a response stored, to its key.
LEMMA AnswerKnown ==
    ASSUME RequestInv, [Next]_vars, NEW k \in Keys,
           \/ Cache!Lookup(Self, k)
           \/ (Cache!UnlinkStale(Self) \/ Cache!LoadFile(Self)) /\ arg[Self] = k,
           reply' # NULL, reply'.data # NULL
    PROVE  /\ reply'.data.id \in 1..MaxStores
           /\ docs[reply'.data.id] # NULL /\ docs[reply'.data.id].key = k
<1> DEFINE r == reply'.data
<1>1. reply'.key = k
    BY LookupCall, FileCall DEF RequestInv
<1>2. r.key = k
    BY <1>1, CacheInvStep DEF CacheP!FreshInv, CacheP!BoundedStaleness
<1>3. \/ \E e \in CacheP!Range(entries[Self]) : r = e.data
      \/ CacheP!HoldsResponse(k) /\ r = files[k].data
    BY LookupCall, FileCall DEF RequestInv
<1>4. Known(r)
    BY <1>3 DEF RequestInv, DocsOK
<1>5. r.id \in 1..stored
    BY <1>3 DEF RequestInv, CacheP!SerialsOK, CacheP!HoldsResponse
<1>6. stored \in Nat /\ stored <= MaxStores /\ MaxStores \in Nat
    BY CacheTypes, CacheConstants DEF RequestInv, DocsOK
<1> HIDE DEF r
<1>7. r.id \in 1..MaxStores
    BY <1>5, <1>6
<1> QED  BY <1>2, <1>4, <1>7 DEF Known, r

\* The document a set is about to write is the one of its key.
LEMMA StoredKnown ==
    ASSUME RequestInv, phase = "store"
    PROVE  /\ stored \in 1..MaxStores
           /\ docs[stored] # NULL /\ docs[stored].key = key
<1>1. CacheP!Writing(Self) /\ data[Self].id = stored /\ arg[Self] = key
    BY DEF RequestInv, CallerOK, CacheP!Writing
<1>2. stored \in 1..stored
    BY <1>1 DEF RequestInv, CacheP!SerialsOK, CacheP!Writing
<1>3. stored \in Nat /\ stored <= MaxStores /\ MaxStores \in Nat
    BY CacheTypes, CacheConstants DEF RequestInv, DocsOK
<1>4. data[Self].key = arg[Self]
    BY <1>1 DEF RequestInv, CacheP!FreshInv, CacheP!TypeInv, CacheP!CallsOK,
                CacheP!CallOK, CacheP!Writing
<1>5. docs[stored] # NULL /\ docs[stored].key = data[Self].key
    BY <1>1 DEF RequestInv, DocsOK, Known
<1> QED  BY <1>1, <1>2, <1>3, <1>4, <1>5

\* What is accepted is a document of the request, whole and no error.
LEMMA AcceptedIsSound ==
    ASSUME RequestInv, phase = "http", pc = "idle", result = "ok",
           Accepted(Received)
    PROVE  /\ Received \in Document /\ Received.key = key
           /\ Received.kind = "data" /\ Received.units >= 2 * Chunks
BY ReceivedType DEF Accepted, JsonLoads, Received, Document, Kinds

\* The variables of the client keep their types.
LEMMA CallTypesStep ==
    ASSUME RequestInv, [Next]_vars
    PROVE  CallTypes'
<1> USE DEF CallTypes
<1>0. CallTypes
    BY DEF RequestInv
<1>1. ASSUME NEW k \in Keys \cup {NULL}, NEW d \in Document \cup {NULL}, Return(k, d)
      PROVE  phase' = "idle" /\ key' = NULL /\ outcome' \in Outcome
    BY <1>1 DEF Return, Outcome
<1>2. ASSUME NEW k \in Keys, AfterLookup(k),
             \/ Cache!Lookup(Self, k)
             \/ (Cache!UnlinkStale(Self) \/ Cache!LoadFile(Self)) /\ arg[Self] = k
      PROVE  /\ phase' \in {"idle", "lookup", "miss"} /\ key' \in {k, NULL}
             /\ outcome' \in Outcome \cup {NULL}
    <2>1. CASE reply' # NULL /\ reply'.data # NULL /\ Return(k, docs[reply'.data.id])
        BY <1>0, <1>1, <1>2, <2>1, AnswerKnown
    <2>2. CASE Proceed(k, "lookup") \/ Proceed(k, "miss")
        BY <2>2 DEF Proceed
    <2> QED  BY <1>2, <2>1, <2>2 DEF AfterLookup
<1>3. ASSUME NEW k \in Keys, MakeRequest(k)
      PROVE  CallTypes'
    BY <1>0, <1>2, <1>3 DEF MakeRequest
<1>4. CASE ContinueLookup
    <2>1. key \in Keys /\ arg[Self] = key
        BY <1>4 DEF ContinueLookup, RequestInv, CallerOK
    <2> QED  BY <1>0, <1>2, <1>4, <2>1 DEF ContinueLookup
<1>5. CASE RejectArguments \/ Throw
    BY <1>0, <1>1, <1>5 DEF RejectArguments, Throw
<1>6. CASE Echo \/ AskServer \/ ClearCache \/ ContinueClear
    BY <1>0, <1>6 DEF Echo, AskServer, ClearCache, ContinueClear, Proceed
<1>7. CASE HttpStep \/ Network \/ Clock \/ UNCHANGED vars
    BY <1>0, <1>7 DEF HttpStep, Network, Clock, vars, callVars
<1>8. CASE EchoBody
    <2>1. Received \in Document
        BY <1>8, ReceivedType DEF EchoBody
    <2> QED  BY <1>0, <1>1, <1>8, <2>1 DEF EchoBody
<1>9. CASE Store
    <2>1. Received \in Document /\ key \in Keys
        BY <1>0, <1>9, AcceptedIsSound DEF Store
    <2>2. CASE at'[Self] = "idle"
        BY <1>0, <1>1, <1>9, <2>1, <2>2 DEF Store
    <2>3. CASE at'[Self] # "idle"
        BY <1>0, <1>9, <2>1, <2>3 DEF Store, Proceed
    <2> QED  BY <2>2, <2>3
<1>10. CASE ContinueStore
    <2>1. docs[stored] \in Document \cup {NULL}
        BY <1>0, <1>10, StoredKnown DEF ContinueStore
    <2>2. CASE at'[Self] = "idle"
        BY <1>0, <1>1, <1>10, <2>1, <2>2 DEF ContinueStore
    <2>3. CASE at'[Self] # "idle"
        BY <1>0, <1>10, <2>3 DEF ContinueStore, Proceed
    <2> QED  BY <2>2, <2>3
<1>11. CASE Restart
    BY <1>0, <1>11 DEF Restart
<1> QED
    BY <1>3, <1>4, <1>5, <1>6, <1>7, <1>8, <1>9, <1>10, <1>11 DEF Next, Continue

-----------------------------------------------------------------------------
(***************************************************************************)
(* Every response is a document of its key, and so is what is returned.    *)
(***************************************************************************)

\* As long as nothing is stored, the responses are the documents they were.
LEMMA DocsSame ==
    ASSUME RequestInv, [Next]_vars, UNCHANGED <<docs, stored>>
    PROVE  DocsOK'
<1>1. DocsOK
    BY DEF RequestInv
<1>2. CacheP!FileSources /\ CacheP!EntrySources /\ CacheP!CallSources
    BY CacheInvStep
<1>3. stored \in Nat
    BY CacheTypes DEF RequestInv
<1>4. \A r : Known(r) => Known(r)'
    BY DEF Known
<1>5. ASSUME NEW k \in Keys, CacheP!HoldsResponse(k)'
      PROVE  Known(files'[k].data)
    BY <1>1, <1>2, <1>5 DEF DocsOK, CacheP!FileSources
<1>6. ASSUME NEW e \in CacheP!Range(entries'[Self])
      PROVE  Known(e.data)
    BY <1>1, <1>2, <1>3 DEF DocsOK, CacheP!EntrySources
<1>7. ASSUME CacheP!Writing(Self)'
      PROVE  Known(data'[Self])
    BY <1>1, <1>2, <1>3, <1>7 DEF DocsOK, CacheP!CallSources
<1> QED  BY <1>1, <1>4, <1>5, <1>6, <1>7 DEF DocsOK, Known

\* The entry that client_cache_set appends is the only new one.
LEMMA SetEntries ==
    ASSUME CacheP!FreshInv, NEW k \in Keys, Cache!ClientCacheSet(Self, k)
    PROVE  \A e \in CacheP!Range(entries'[Self]) :
               \/ e \in CacheP!Range(entries[Self])
               \/ e.data = [key |-> k, id |-> stored + 1, born |-> now]
<1> USE CacheConstants, FaultsAssumption, CacheNull, CacheTypes
<1> DEFINE room == CacheP!Evicted(CacheP!Without(entries[Self], k))
           d == [key |-> k, id |-> stored + 1, born |-> now]
           e == [key |-> k, data |-> d, created_at |-> now]
<1>1. /\ CacheP!ListOK(room)
      /\ CacheP!Range(room) \subseteq CacheP!Range(entries[Self])
      /\ k \notin CacheP!KeysOf(room)
    BY CacheP!EvictedListOK
<1>2. \/ entries' = [entries EXCEPT ![Self] = Append(room, e)]
      \/ entries' = [entries EXCEPT ![Self] = room]
    BY SameActions DEF CacheP!ClientCacheSet, CacheP!AddEntry
<1>3. e \in CacheP!Entry /\ e.key = k /\ e.data = d /\ e.created_at = now
    BY DEF CacheP!Entry, CacheP!Response
<1>4. \A f \in CacheP!Range(room) : f.created_at <= now
    BY <1>1 DEF CacheP!FreshInv, CacheP!EntriesOK, CacheP!EntryOK
<1> HIDE DEF room, e, d
<1>5. CacheP!Range(Append(room, e)) = CacheP!Range(room) \cup {e}
    BY <1>1, <1>3, <1>4, CacheP!AppendListOK
<1> QED  BY <1>1, <1>2, <1>3, <1>5 DEF d

\* What is stored, listed and written stays a document of its key.
LEMMA DocsStep ==
    ASSUME RequestInv, [Next]_vars
    PROVE  DocsOK'
<1>1. CASE Store /\ at'[Self] # "idle"
    <2>1. /\ key \in Keys /\ Cache!ClientCacheSet(Self, key)
          /\ phase = "http" /\ pc = "idle" /\ result = "ok" /\ Accepted(Received)
          /\ docs' = [docs EXCEPT ![stored'] = Received]
        BY <1>1 DEF Store, RequestInv, CallTypes
    <2>2. /\ data'[Self] = [key |-> key, id |-> stored + 1, born |-> now]
          /\ stored' = stored + 1 /\ stored' <= MaxStores
        BY <1>1, <2>1, SetCall DEF RequestInv
    <2>3. stored \in Nat /\ stored + 1 \in 1..MaxStores
        BY <2>2, CacheTypes, CacheConstants DEF RequestInv
    <2>4. /\ Received \in Document /\ Received.key = key
          /\ Received.kind = "data" /\ Received.units >= 2 * Chunks
        BY <2>1, AcceptedIsSound
    <2>5. DocsOK /\ docs \in [1..MaxStores -> Document \cup {NULL}]
        BY DEF RequestInv, CallTypes
    <2>6. /\ docs'[stored + 1] = Received
          /\ \A i \in 1..MaxStores : i # stored + 1 => docs'[i] = docs[i]
        BY <2>1, <2>2, <2>3, <2>5
    <2>7. Received # NULL
        BY <2>4, NullAssumption
    <2>8. ASSUME NEW r, Known(r), r.id \in 1..stored
          PROVE  Known(r)'
        <3>1. r.id \in 1..MaxStores /\ r.id # stored + 1
            BY <2>3, <2>8, CacheConstants
        <3> QED  BY <2>6, <2>8, <3>1 DEF Known
    <2>9. ASSUME NEW r, r = [key |-> key, id |-> stored + 1, born |-> now]
          PROVE  Known(r)'
        BY <2>4, <2>6, <2>7, <2>9 DEF Known
    <2>10. \A i \in 1..MaxStores :
              docs'[i] # NULL => docs'[i].kind = "data" /\ docs'[i].units >= 2 * Chunks
        BY <2>4, <2>5, <2>6 DEF DocsOK
    <2>11. ~CacheP!Writing(Self)
        BY <2>1 DEF RequestInv, CallerOK, CacheP!Writing
    <2>12. ASSUME NEW k \in Keys, CacheP!HoldsResponse(k)'
           PROVE  Known(files[k].data)' 
        <3>1. CacheP!HoldsResponse(k) /\ files'[k] = files[k]
            BY <2>11, <2>12, CacheInvStep DEF CacheP!FileSources
        <3>2. files[k].data.id \in 1..stored /\ Known(files[k].data)
            BY <2>5, <3>1 DEF RequestInv, CacheP!SerialsOK, CacheP!HoldsResponse, DocsOK
        <3> QED  BY <2>8, <3>1, <3>2
    <2>13. ASSUME NEW e \in CacheP!Range(entries'[Self])
           PROVE  Known(e.data)'
        <3>1. CASE e \in CacheP!Range(entries[Self])
            <4>1. e.data.id \in 1..stored /\ Known(e.data)
                BY <2>5, <3>1 DEF RequestInv, CacheP!SerialsOK, DocsOK
            <4> QED  BY <2>8, <4>1
        <3>2. CASE e.data = [key |-> key, id |-> stored + 1, born |-> now]
            BY <2>9, <3>2
        <3> QED  BY <2>1, <3>1, <3>2, SetEntries DEF RequestInv
    <2> QED  BY <2>2, <2>9, <2>10, <2>12, <2>13 DEF DocsOK
<1>2. CASE ~(Store /\ at'[Self] # "idle")
    <2> USE DEF RequestInv
    <2>1. UNCHANGED docs
        BY <1>2 DEF Next, Continue, MakeRequest, RejectArguments, Echo, ClearCache,
           ContinueLookup, AskServer, HttpStep, Throw, EchoBody, Store,
           ContinueStore, ContinueClear, Restart, Network, Clock, vars, callVars
    <2>2. ASSUME NEW k \in Keys, MakeRequest(k)
          PROVE  UNCHANGED stored
        BY <2>2, LookupCall DEF MakeRequest
    <2>3. ContinueLookup => UNCHANGED stored
        BY FileCall DEF ContinueLookup
    <2>4. Store => UNCHANGED stored
        BY <1>2, SetCall DEF Store, CallTypes
    <2>5. ContinueStore => UNCHANGED stored
        BY SaveCall DEF ContinueStore
    <2>6. ClearCache \/ ContinueClear \/ Restart => UNCHANGED stored
        BY ClearCall DEF ClearCache, ContinueClear, Restart
    <2>7. Clock => UNCHANGED stored
        BY ClockCall DEF Clock
    <2>8. RejectArguments \/ Echo \/ AskServer \/ HttpStep \/ Throw \/ EchoBody
            \/ Network \/ UNCHANGED vars => UNCHANGED stored
        BY DEF RejectArguments, Echo, AskServer, HttpStep, Throw, EchoBody,
               Network, vars, cacheVars
    <2>9. UNCHANGED stored
        BY <2>2, <2>3, <2>4, <2>5, <2>6, <2>7, <2>8 DEF Next, Continue
    <2> QED  BY <2>1, <2>9, DocsSame
<1> QED  BY <1>1, <1>2

\* What a call returns is a whole document of its key.
LEMMA AnswersStep ==
    ASSUME RequestInv, [Next]_vars
    PROVE  AnswersAreSound'
<1>1. ASSUME NEW d, d # NULL, d.key = key \/ key = NULL, d.kind = "data",
             d.units >= 2 * Chunks, Return(key, d)
      PROVE  AnswersAreSound'
    BY <1>1 DEF Return, AnswersAreSound
<1>2. ASSUME NEW k \in Keys, AfterLookup(k),
             \/ Cache!Lookup(Self, k)
             \/ (Cache!UnlinkStale(Self) \/ Cache!LoadFile(Self)) /\ arg[Self] = k
      PROVE  AnswersAreSound'
    <2>1. CASE reply' # NULL /\ reply'.data # NULL /\ Return(k, docs[reply'.data.id])
        <3> DEFINE i == reply'.data.id
        <3>1. i \in 1..MaxStores /\ docs[i] # NULL /\ docs[i].key = k
            BY <1>2, <2>1, AnswerKnown
        <3>2. docs[i].kind = "data" /\ docs[i].units >= 2 * Chunks
            BY <3>1 DEF RequestInv, DocsOK
        <3> QED  BY <2>1, <3>1, <3>2 DEF Return, AnswersAreSound
    <2>2. CASE Proceed(k, "lookup") \/ Proceed(k, "miss")
        BY <2>2 DEF Proceed, AnswersAreSound
    <2> QED  BY <1>2, <2>1, <2>2 DEF AfterLookup
<1>3. ASSUME NEW k \in Keys, MakeRequest(k)
      PROVE  AnswersAreSound'
    BY <1>2, <1>3 DEF MakeRequest
<1>4. CASE ContinueLookup
    <2>1. key \in Keys /\ arg[Self] = key
        BY <1>4 DEF ContinueLookup, RequestInv, CallerOK
    <2> QED  BY <1>2, <1>4, <2>1 DEF ContinueLookup
<1>5. CASE RejectArguments \/ Throw \/ EchoBody
    BY <1>5 DEF RejectArguments, Throw, EchoBody, Return, AnswersAreSound
<1>6. CASE Echo \/ AskServer \/ ClearCache \/ ContinueClear
    BY <1>6 DEF Echo, AskServer, ClearCache, ContinueClear, Proceed, AnswersAreSound
<1>7. CASE HttpStep \/ Network \/ Clock \/ Restart
    BY <1>7 DEF HttpStep, Network, Clock, Restart, AnswersAreSound
<1>8. CASE UNCHANGED vars
    BY <1>8 DEF vars, callVars, AnswersAreSound, RequestInv
<1>9. CASE Store
    <2>1. /\ Received.key = key /\ Received.kind = "data"
          /\ Received.units >= 2 * Chunks
        BY <1>9, AcceptedIsSound DEF Store
    <2> QED  BY <1>9, <2>1 DEF Store, Return, Proceed, AnswersAreSound
<1>10. CASE ContinueStore
    <2>1. stored \in 1..MaxStores /\ docs[stored] # NULL /\ docs[stored].key = key
        BY <1>10, StoredKnown DEF ContinueStore
    <2>2. docs[stored].kind = "data" /\ docs[stored].units >= 2 * Chunks
        BY <2>1 DEF RequestInv, DocsOK
    <2> QED  BY <1>10, <2>1, <2>2 DEF ContinueStore, Return, Proceed, AnswersAreSound
<1> QED
    BY <1>3, <1>4, <1>5, <1>6, <1>7, <1>8, <1>9, <1>10 DEF Next, Continue

-----------------------------------------------------------------------------
(***************************************************************************)
(* The invariant holds of the client, and of every run of the program.     *)
(***************************************************************************)

\* The invariant holds of a client that has just been made.
LEMMA RequestInit == Init => RequestInv
<1> SUFFICES ASSUME Init
             PROVE  RequestInv
    OBVIOUS
<1> USE CacheConstants, FaultsAssumption, CacheNull
<1>1. CacheP!Init
    BY DEF Init, Cache!Init, CacheP!Init
<1>2. CacheP!FreshInv
    BY <1>1, CacheP!FreshInit
<1>6. CacheP!SerialsOK
    BY <1>1 DEF CacheP!Init, CacheP!SerialsOK, CacheP!Range
<1>3. HttpP!HttpInv
    BY HttpInit DEF Init
<1>4. CallTypes /\ CallerOK /\ AnswersAreSound
    BY <1>1 DEF Init, CallTypes, CallerOK, AnswersAreSound, CacheP!Init
<1>5. DocsOK
    BY <1>1 DEF Init, DocsOK, CacheP!Init, CacheP!HoldsResponse, CacheP!Writing,
                CacheP!Range
<1> QED  BY <1>2, <1>3, <1>4, <1>5, <1>6 DEF RequestInv

\* The invariant is inductive.
LEMMA RequestStep ==
    ASSUME RequestInv, [Next]_vars
    PROVE  RequestInv'
BY CacheInvStep, HttpInvStep, CallTypesStep, CallerStep, DocsStep, AnswersStep
   DEF RequestInv

\* It holds of a client by itself, with any calls.
LEMMA RequestInvariant == Spec => []RequestInv
<1>1. RequestInv /\ [Next]_vars => RequestInv'
    BY RequestStep
<1> QED  BY <1>1, RequestInit, PTL DEF Spec

\* It holds of the program, which makes the calls of its commands.
LEMMA ProgramInvariant == ProgramSpec => []RequestInv
<1>1. ProgramInit => RequestInv
    BY RequestInit DEF ProgramInit
<1>2. RequestInv /\ [ProgramNext]_programVars => RequestInv'
    BY ProgramStep, RequestStep
<1> QED  BY <1>1, <1>2, PTL DEF ProgramSpec

\* The variables of the client have their types.
LEMMA RequestTypes == RequestInv => TypeOK
<1> SUFFICES ASSUME RequestInv
             PROVE  TypeOK
    OBVIOUS
<1>1. Cache!TypeOK
    BY SameSets DEF RequestInv, CacheP!FreshInv, CacheP!TypeInv, CacheP!TypeOK,
       Cache!TypeOK, CacheP!PCs, Cache!PCs
<1>2. Http!TypeOK
    BY SameSets DEF RequestInv, HttpP!HttpInv, HttpP!ControlTypes,
       HttpP!ConnectionTypes, HttpP!ContentTypes, HttpP!FlagTypes, Http!TypeOK
<1> QED  BY <1>1, <1>2 DEF RequestInv, CallTypes, TypeOK

\* The variables of the command line have their types.
CliTypes ==
    /\ run \in {"none", "once", "session"}
    /\ turn \in {"read", "execute", "over"}
    /\ shown \in Document \cup {NULL}
    /\ exit \in 0..3 \cup {NULL}
    /\ before \in [Keys -> CacheP!File \cup {NULL}]

\* A command leaves the variables of the command line with their types.
LEMMA CliTypesStep ==
    ASSUME RequestInv, CliTypes, [ProgramNext]_programVars
    PROVE  CliTypes'
<1> USE DEF CliTypes
<1>1. outcome' \in Outcome \cup {NULL}
    BY ProgramStep, CallTypesStep DEF CallTypes
<1>2. files \in [Keys -> CacheP!File \cup {NULL}]
    BY CacheTypes DEF RequestInv
<1>3. ASSUME NEW code \in 0..3, Done(code)
      PROVE  turn' \in {"read", "over"} /\ exit' \in 0..3 \cup {NULL}
    BY <1>3 DEF Done
<1>4. ASSUME Settle
      PROVE  /\ turn' \in {"read", "execute", "over"}
             /\ exit' \in 0..3 \cup {NULL} /\ shown' \in Document \cup {NULL}
    <2>1. outcome' # NULL => outcome'.doc \in Document \cup {NULL}
        BY <1>1 DEF Outcome
    <2>2. CASE phase' # "idle"
        BY <1>4, <2>2 DEF Settle
    <2>3. CASE phase' = "idle" /\ outcome' # NULL /\ outcome'.doc = NULL
        BY <1>3, <1>4, <2>3 DEF Settle
    <2>4. CASE phase' = "idle" /\ ~(outcome' # NULL /\ outcome'.doc = NULL)
        BY <1>3, <1>4, <2>1, <2>4 DEF Settle
    <2> QED  BY <2>2, <2>3, <2>4
<1>5. CASE ExitAtOnce \/ Main \/ Exit \/ Kill
    BY <1>2, <1>5 DEF ExitAtOnce, Main, Exit, Kill
<1>6. CASE ParseFails
    BY <1>2, <1>3, <1>6 DEF ParseFails
<1>7. CASE Execute \/ ContinueCommand
    BY <1>2, <1>4, <1>7 DEF Execute, ContinueCommand
<1>8. CASE Environment \/ UNCHANGED programVars
    BY <1>8 DEF Environment, programVars, cliVars
<1> QED
    BY <1>5, <1>6, <1>7, <1>8 DEF ProgramNext

\* They have them in every process.
LEMMA CliTypesInvariant == ProgramSpec => []CliTypes
<1>1. ProgramInit => CliTypes
    <2>1. ProgramInit => files \in [Keys -> CacheP!File \cup {NULL}]
        BY RequestInit, CacheTypes DEF ProgramInit, RequestInv
    <2> QED  BY <2>1 DEF ProgramInit, CliTypes
<1>2. RequestInv /\ CliTypes /\ [ProgramNext]_programVars => CliTypes'
    BY CliTypesStep
<1> QED  BY <1>1, <1>2, ProgramInvariant, PTL DEF ProgramSpec

\* Whatever commands are given, and wherever a process is stopped, every
\* variable of the program, of its cache and of its connection keeps its type.
THEOREM ProgramTypeCorrect == ProgramSpec => []ProgramTypeOK
<1>1. RequestInv /\ CliTypes => ProgramTypeOK
    BY RequestTypes, SameSets DEF CliTypes, ProgramTypeOK
<1> QED  BY <1>1, ProgramInvariant, CliTypesInvariant, PTL

\* A request returns a whole document of that request, from the server or from
\* the cache, although lists and files outlive the call that filled them, the
\* server may cut a body short and a write may stop half way.
THEOREM RequestsAreSound == Spec => []AnswersAreSound
<1>1. RequestInv => AnswersAreSound
    BY DEF RequestInv
<1> QED  BY <1>1, RequestInvariant, PTL

\* ... through every command of every process of the program.
THEOREM CommandsAreSound == ProgramSpec => []AnswersAreSound
<1>1. RequestInv => AnswersAreSound
    BY DEF RequestInv
<1> QED  BY <1>1, ProgramInvariant, PTL

\* The program uses the cache through the calls of client_cache.h alone, one
\* at a time: what is proved of the cache holds of it in the program.
THEOREM ProgramUsesCache == ProgramSpec => CacheP!Spec
<1>1. ProgramInit => CacheP!Init
    BY DEF ProgramInit, Init, Cache!Init, CacheP!Init
<1>2. RequestInv /\ [ProgramNext]_programVars => [CacheP!Next]_(CacheP!vars)
    BY ProgramStep, CacheStep DEF RequestInv, CallTypes
<1> QED  BY <1>1, <1>2, ProgramInvariant, PTL DEF ProgramSpec, CacheP!Spec

-----------------------------------------------------------------------------
(***************************************************************************)
(* The server is asked last.                                               *)
(***************************************************************************)

\* No entry and no file of key k could be served.
NothingFresh(k) ==
    /\ \A e \in CacheP!Range(entries[Self]) : e.key = k => CacheP!Expired(e)
    /\ ~(CacheP!IsCacheFileValid(files[k]) /\ CacheP!Parses(files[k]))

\* That is so when the client turns to the server; while it looks into the
\* file there is no entry.
SearchedOK ==
    /\ phase = "miss" /\ key # NULL => NothingFresh(key)
    /\ phase = "lookup" => key \notin CacheP!KeysOf(entries[Self])

\* A lookup without an answer leaves nothing of its key that is fresh.
LEMMA LookupMiss ==
    ASSUME MemoryFaults = FALSE, DiskFaults = FALSE,
           CacheP!FreshInv, NEW k \in Keys, Cache!Lookup(Self, k)
    PROVE  /\ reply' # NULL /\ reply'.data = NULL => NothingFresh(k)'
           /\ reply' = NULL => k \notin CacheP!KeysOf(entries'[Self])
<1> USE CacheConstants, FaultsAssumption, CacheNull, CacheTypes
<1>1. CASE CacheP!GetExpired(Self, k) \/ CacheP!GetUnbacked(Self, k)
    <2>1. PICK i \in CacheP!Find(entries[Self], k) :
              entries' = [entries EXCEPT ![Self] = CacheP!RemoveAt(@, i)]
        BY <1>1 DEF CacheP!GetExpired, CacheP!GetUnbacked
    <2>2. i \in DOMAIN entries[Self] /\ entries[Self][i].key = k
        BY CacheP!FindListOK
    <2>3. k \notin CacheP!KeysOf(CacheP!RemoveAt(entries[Self], i))
        BY <2>2, CacheP!RemoveAtListOK
    <2>4. files'[k] = NULL
        BY <1>1 DEF CacheP!GetExpired, CacheP!GetUnbacked, CacheP!DeleteFile
    <2>5. reply' # NULL
        BY <1>1, SameActions, LookupCall, CacheP!FindListOK
           DEF CacheP!GetExpired, CacheP!GetUnbacked, CacheP!Answer, CacheP!Reply
    <2>6. entries'[Self] = CacheP!RemoveAt(entries[Self], i)
        BY <2>1
    <2> QED
        BY <2>3, <2>4, <2>5, <2>6 DEF NothingFresh, CacheP!KeysOf, CacheP!Parses
<1>2. CASE CacheP!GetHit(Self, k)
    <2>1. PICK i \in CacheP!Find(entries[Self], k) :
                 CacheP!Answer(Self, k, entries[Self][i].data)
        BY <1>2 DEF CacheP!GetHit
    <2>2. entries[Self] \in Seq(CacheP!Entry) /\ i \in DOMAIN entries[Self]
        BY <2>1 DEF CacheP!Find
    <2>5. entries[Self][i] \in CacheP!Entry
        BY <2>2, LenProperties, ElementOfSeq
    <2>3. entries[Self][i].data \in CacheP!Response
        BY <2>5 DEF CacheP!Entry
    <2>4. reply' \in CacheP!Reply /\ reply'.data = entries[Self][i].data
        BY <2>1, <2>3 DEF CacheP!Answer, CacheP!Reply
    <2> QED  BY <2>3, <2>4
<1>3. CASE CacheP!GetStat(Self, k)
    <2>1. k \notin CacheP!KeysOf(entries[Self])
        BY <1>3, CacheP!FindListOK DEF CacheP!GetStat
    <2> QED  BY <1>3, <2>1 DEF CacheP!GetStat, CacheP!NoAnswer
<1> QED  BY <1>1, <1>2, <1>3, SameActions DEF Cache!Lookup

\* ... and neither does one that goes through the file.
LEMMA FileMiss ==
    ASSUME MemoryFaults = FALSE, DiskFaults = FALSE,
           CacheP!FreshInv, NEW k \in Keys, arg[Self] = k,
           k \notin CacheP!KeysOf(entries[Self]),
           Cache!UnlinkStale(Self) \/ Cache!LoadFile(Self),
           reply' # NULL, reply'.data = NULL
    PROVE  NothingFresh(k)'
<1> USE CacheConstants, FaultsAssumption, CacheNull, CacheTypes
<1>1. CASE CacheP!UnlinkStale(Self)
    <2>1. files'[k] = NULL /\ entries' = entries
        BY <1>1 DEF CacheP!UnlinkStale, CacheP!DeleteFile, CacheP!ghostVars
    <2> QED  BY <2>1 DEF NothingFresh, CacheP!KeysOf, CacheP!Parses
<1>2. CASE CacheP!LoadFile(Self)
    <2>1. ~CacheP!Parses(files[k])
        <3> SUFFICES ASSUME CacheP!Parses(files[k])
                     PROVE  FALSE
            OBVIOUS
        <3>1. files[k].data \in CacheP!Response
            BY DEF CacheP!Parses, CacheP!File
        <3>2. CacheP!Answer(Self, k, files[k].data)
            BY <1>2 DEF CacheP!LoadFile
        <3>3. reply' \in CacheP!Reply /\ reply'.data = files[k].data
            BY <3>1, <3>2 DEF CacheP!Answer, CacheP!Reply
        <3> QED  BY <3>1, <3>3
    <2>2. entries' = entries /\ files' = files
        BY <1>2, <2>1 DEF CacheP!LoadFile
    <2> QED  BY <2>1, <2>2 DEF NothingFresh, CacheP!KeysOf, CacheP!Parses
<1> QED  BY <1>1, <1>2, SameActions

\* What is too old stays too old.
LEMMA NothingFreshStays ==
    ASSUME CacheP!FreshInv, UNCHANGED <<files, entries>>, now' \in {now, now + 1},
           NEW k \in Keys, NothingFresh(k)
    PROVE  NothingFresh(k)'
<1> USE CacheConstants, CacheTypes
<1>1. ASSUME NEW e \in CacheP!Range(entries[Self]), CacheP!Expired(e)
      PROVE  CacheP!Expired(e)'
    <2>1. e \in CacheP!Entry
        BY <1>1, LenProperties, ElementOfSeq DEF CacheP!Range
    <2>2. e.created_at \in Nat
        BY <2>1 DEF CacheP!Entry
    <2> QED  BY <1>1, <2>2 DEF CacheP!Expired
<1>2. ASSUME CacheP!IsCacheFileValid(files[k])'
      PROVE  CacheP!IsCacheFileValid(files[k])
    <2>1. files[k] # NULL /\ files[k].mtime \in Nat
        BY <1>2 DEF CacheP!IsCacheFileValid, CacheP!File
    <2> QED  BY <1>2, <2>1 DEF CacheP!IsCacheFileValid
<1>3. CacheP!Parses(files[k])' => CacheP!Parses(files[k])
    BY DEF CacheP!Parses
<1> QED  BY <1>1, <1>2, <1>3 DEF NothingFresh

\* From the search to the request nothing becomes fresh.
LEMMA SearchedStep ==
    ASSUME MemoryFaults = FALSE, DiskFaults = FALSE,
           RequestInv, SearchedOK, [Next]_vars
    PROVE  SearchedOK'
<1> USE DEF SearchedOK
<1>0. CacheP!FreshInv /\ CallTypes /\ now \in Nat
    BY CacheTypes DEF RequestInv
<1>1. ASSUME UNCHANGED <<files, entries, phase, key>>, now' \in {now, now + 1}
      PROVE  SearchedOK'
    BY <1>0, <1>1, NothingFreshStays DEF CallTypes
<1>2. ASSUME NEW k \in Keys, AfterLookup(k),
             reply' # NULL /\ reply'.data = NULL => NothingFresh(k)',
             reply' = NULL => k \notin CacheP!KeysOf(entries'[Self])
      PROVE  SearchedOK'
    BY <1>2 DEF AfterLookup, Proceed, Return
<1>3. ASSUME NEW k \in Keys, MakeRequest(k)
      PROVE  SearchedOK'
    BY <1>0, <1>2, <1>3, LookupMiss DEF MakeRequest
<1>4. CASE ContinueLookup
    <2>1. /\ key \in Keys /\ arg[Self] = key
          /\ key \notin CacheP!KeysOf(entries[Self])
        BY <1>4 DEF ContinueLookup, RequestInv, CallerOK
    <2>2. PICK k \in Keys : k = key
        BY <2>1
    <2>3. AfterLookup(key) /\ (Cache!UnlinkStale(Self) \/ Cache!LoadFile(Self))
        BY <1>4 DEF ContinueLookup
    <2>4. reply' # NULL
        BY <1>0, <2>3, FileCall
    <2>5. reply'.data = NULL => NothingFresh(k)'
        BY <1>0, <2>1, <2>2, <2>3, <2>4, FileMiss
    <2> QED  BY <1>2, <2>2, <2>3, <2>4, <2>5
<1>5. CASE RejectArguments \/ Echo \/ AskServer \/ Throw \/ EchoBody \/ Store
              \/ ContinueStore \/ ClearCache \/ ContinueClear \/ Restart
    BY <1>5 DEF RejectArguments, Echo, AskServer, Throw, EchoBody, Store,
                ContinueStore, ClearCache, ContinueClear, Restart, Proceed, Return
<1>6. CASE HttpStep \/ Network \/ UNCHANGED vars
    BY <1>0, <1>1, <1>6 DEF HttpStep, Network, vars, callVars, cacheVars
<1>7. CASE Clock
    BY <1>0, <1>1, <1>7, ClockCall DEF Clock, Cache!Tick
<1> QED
    BY <1>3, <1>4, <1>5, <1>6, <1>7 DEF Next, Continue

\* As long as memory and disk do not fail, the server is never asked for what
\* the cache could answer: the search of client_cache_get misses nothing that
\* is fresh, and nothing becomes fresh between the search and the request.
THEOREM ServerIsAskedLast ==
    ASSUME MemoryFaults = FALSE, DiskFaults = FALSE
    PROVE  ProgramSpec => NoNeedlessRequest
<1>1. ProgramInit => SearchedOK
    BY DEF ProgramInit, Init, SearchedOK
<1>2. RequestInv /\ SearchedOK /\ [ProgramNext]_programVars => SearchedOK'
    BY ProgramStep, SearchedStep
<1>3. RequestInv /\ SearchedOK /\ [ProgramNext]_programVars =>
        [phase = "miss" /\ phase' = "http" /\ key # NULL =>
            /\ \A i \in DOMAIN entries[Self] :
                  entries[Self][i].key = key => Cache!Expired(entries[Self][i])
            /\ ~(Cache!IsCacheFileValid(files[key]) /\ Cache!Parses(files[key]))]_vars
    <2> SUFFICES ASSUME SearchedOK, phase = "miss", key # NULL
                 PROVE  /\ \A i \in DOMAIN entries[Self] :
                              entries[Self][i].key = key =>
                                  Cache!Expired(entries[Self][i])
                        /\ ~(Cache!IsCacheFileValid(files[key])
                                /\ Cache!Parses(files[key]))
        OBVIOUS
    <2> QED  BY SameOperators DEF SearchedOK, NothingFresh, CacheP!Range
<1> QED  BY <1>1, <1>2, <1>3, ProgramInvariant, PTL DEF ProgramSpec, NoNeedlessRequest

-----------------------------------------------------------------------------
(***************************************************************************)
(* The exit code tells what a command has done, for any keys and servers,  *)
(* while memory and disk do not fail: the document that is printed is in   *)
(* its file because a lookup answers from the list only what the files     *)
(* have (StoreInv of the proofs of the cache) and a set has just written   *)
(* it.                                                                     *)
(***************************************************************************)

\* What the exit code is stated for: there is a directory, and neither memory nor
\* disk fails.
Reliable == CacheDir = TRUE /\ MemoryFaults = FALSE /\ DiskFaults = FALSE

-----------------------------------------------------------------------------
(***************************************************************************)
(* The inductive invariant of a command, relative to RequestInv and to the *)
(* invariant StoreInv of the cache.                                        *)
(***************************************************************************)

\* The process is in a command exactly as long as its client is in a call.
TurnOK ==
    /\ run = "none" => turn = "read"
    /\ turn \in {"read", "over"} => phase = "idle"
    /\ turn = "execute" => phase # "idle"

\* The command has written to no file so far.
NothingWritten == \A k \in Keys : files[k] \in {before[k], NULL}

\* Document d is the one in the file of its key.
InItsFile(d) ==
    CacheP!Parses(files[d.key]) /\ docs[files[d.key].data.id] = d

\* Up to the moment it has something to store, a command has only removed.
CommandOK ==
    turn = "execute" /\ phase \in {"lookup", "miss", "http"} => NothingWritten

\* What the exit code tells.
CodeTells ==
    /\ exit = 0 /\ shown # NULL /\ shown.key # NULL =>
          /\ shown.kind = "data" /\ shown.units >= 2 * Chunks
          /\ InItsFile(shown)
    /\ exit = 0 /\ shown = NULL => \A k \in Keys : files[k] = NULL
    /\ exit # 0 => shown = NULL /\ NothingWritten

ExitInv ==
    /\ CacheP!StoreInv /\ TurnOK /\ CommandOK
    /\ turn = "over" => CodeTells

-----------------------------------------------------------------------------
(***************************************************************************)
(* The cache of the program, and what a lookup has found.                  *)
(***************************************************************************)

\* The process of the proofs about the cache is the one there is.
LEMMA TheOneProcess == CacheP!P = Self /\ (Reliable => CacheP!Alone)
BY DEF CacheP!P, CacheP!TheProcess, CacheP!Alone, Reliable

\* List and files of the cache agree in the program too.
LEMMA ListAndFilesStep ==
    ASSUME Reliable, RequestInv, CacheP!StoreInv, [Next]_vars
    PROVE  CacheP!StoreInv'
<1>1. CacheP!FreshInv /\ CacheP!FreshInv' /\ [CacheP!Next]_(CacheP!vars)
    BY CacheStep, CacheInvStep DEF RequestInv, CallTypes
<1> QED
    BY <1>1, TheOneProcess, CacheConstants, FaultsAssumption, CacheNull,
       CacheP!StoreStep

\* What client_cache_get answers is in the file of its key, which it leaves
\* alone; otherwise it does not write, but may remove.
LEMMA LookupFound ==
    ASSUME Reliable, RequestInv, CacheP!StoreInv, NEW k \in Keys,
           Cache!Lookup(Self, k)
    PROVE  /\ \A j \in Keys : files'[j] \in {files[j], NULL}
           /\ reply' # NULL /\ reply'.data # NULL =>
                 /\ files' = files /\ CacheP!Parses(files[k])
                 /\ files[k].data = reply'.data
<1> USE TheOneProcess, CacheTypes, CacheNull DEF Reliable, RequestInv
<1>1. CASE CacheP!GetExpired(Self, k)
    <2>1. reply'.data = NULL
        BY <1>1 DEF CacheP!GetExpired, CacheP!Answer
    <2>2. files' = [files EXCEPT ![k] = NULL]
        BY <1>1 DEF CacheP!GetExpired, CacheP!DeleteFile
    <2> QED  BY <2>1, <2>2
<1>2. CASE CacheP!GetUnbacked(Self, k)
    BY <1>2 DEF CacheP!GetUnbacked, CacheP!Answer
<1>3. CASE CacheP!GetHit(Self, k)
    <2>1. PICK i \in CacheP!Find(entries[Self], k) :
                 CacheP!Answer(Self, k, entries[Self][i].data)
        BY <1>3 DEF CacheP!GetHit
    <2> DEFINE e == entries[Self][i]
    <2>2. i \in DOMAIN entries[Self] /\ e.key = k
        BY <2>1 DEF CacheP!Find
    <2>3. e \in CacheP!Entry
        BY <2>2, LenProperties, ElementOfSeq
    <2>4. e \in CacheP!List /\ at[Self] = "idle"
        BY <1>3, <2>2 DEF CacheP!List, CacheP!Range, CacheP!GetHit, CacheP!Idle
    <2> HIDE DEF e
    <2>5. files[k] # NULL /\ files[k].data = e.data
        BY <2>2, <2>4 DEF CacheP!StoreInv, CacheP!InvLookup, CacheP!Kept
    <2>6. CacheP!Parses(files[k])
        BY <2>3, <2>5 DEF CacheP!Parses, CacheP!Entry
    <2>7. reply'.data = e.data /\ files' = files
        BY <1>3, <2>1 DEF CacheP!GetHit, CacheP!Answer, e
    <2> QED  BY <2>5, <2>6, <2>7
<1>4. CASE CacheP!GetStat(Self, k)
    BY <1>4 DEF CacheP!GetStat, CacheP!NoAnswer
<1> QED  BY <1>1, <1>2, <1>3, <1>4, SameActions DEF Cache!Lookup

\* ... and neither does the part of client_cache_get that goes to the file.
LEMMA FileFound ==
    ASSUME Reliable, RequestInv, NEW k \in Keys, arg[Self] = k,
           Cache!UnlinkStale(Self) \/ Cache!LoadFile(Self)
    PROVE  /\ \A j \in Keys : files'[j] \in {files[j], NULL}
           /\ reply' # NULL /\ reply'.data # NULL =>
                 /\ files' = files /\ CacheP!Parses(files[k])
                 /\ files[k].data = reply'.data
<1> USE CacheTypes, CacheNull DEF Reliable, RequestInv
<1>1. CASE CacheP!UnlinkStale(Self)
    BY <1>1 DEF CacheP!UnlinkStale, CacheP!DeleteFile, CacheP!Answer
<1>2. CASE CacheP!LoadFile(Self)
    BY <1>2 DEF CacheP!LoadFile, CacheP!Answer
<1> QED  BY <1>1, <1>2, SameActions

-----------------------------------------------------------------------------
(***************************************************************************)
(* What a step of the client's call leaves for the command to tell.        *)
(***************************************************************************)

\* A call that has not stored anything has only removed files, and so has one
\* that fails; one that returns a document of a request has it in its file; a
\* clear ends with no file.
Tells ==
    /\ phase \in {"lookup", "miss", "http"} => NothingWritten
    /\ outcome # NULL /\ outcome.doc = NULL => NothingWritten
    /\ outcome # NULL /\ outcome.doc # NULL /\ outcome.doc.key # NULL =>
          outcome.key # NULL /\ InItsFile(outcome.doc)
    /\ outcome = NULL /\ phase = "idle" => \A k \in Keys : files[k] = NULL

\* A call that returns has an outcome.
LEMMA ReturnedType ==
    ASSUME NEW k \in Keys \cup {NULL}, NEW d \in Document \cup {NULL}, Return(k, d)
    PROVE  outcome' # NULL /\ outcome'.key = k /\ outcome'.doc = d
<1>1. outcome' \in Outcome
    BY DEF Return, Outcome
<1> QED  BY <1>1, NullAssumption DEF Return

\* After a lookup: the document returned is in its file.
LEMMA SearchTells ==
    ASSUME Reliable, RequestInv, CacheP!StoreInv, [Next]_vars, NEW k \in Keys,
           AfterLookup(k), UNCHANGED docs,
           \/ Cache!Lookup(Self, k)
           \/ (Cache!UnlinkStale(Self) \/ Cache!LoadFile(Self)) /\ arg[Self] = k,
           \A j \in Keys : files[j] \in {before'[j], NULL}
    PROVE  Tells'
<1>1. \A j \in Keys : files'[j] \in {files[j], NULL}
    BY LookupFound, FileFound
<1>2. NothingWritten'
    BY <1>1 DEF NothingWritten
<1>3. CASE reply' # NULL /\ reply'.data # NULL /\ Return(k, docs[reply'.data.id])
    <2>1. /\ files' = files /\ CacheP!Parses(files[k])
          /\ files[k].data = reply'.data
        BY <1>3, LookupFound, FileFound
    <2> DEFINE d == docs[files[k].data.id]
    <2>2. d # NULL /\ d.key = k
        BY <1>3, <2>1, AnswerKnown
    <2>3. phase' = "idle" /\ outcome' = [key |-> k, doc |-> d]
        BY <1>3, <2>1 DEF Return
    <2>4. CacheP!Parses(files'[k]) /\ docs'[files'[k].data.id] = d
        BY <2>1 DEF CacheP!Parses
    <2> HIDE DEF d
    <2>5. outcome' # NULL /\ outcome'.key = k /\ outcome'.doc = d
        <3>1. PICK f \in Document : f = d
            BY <1>3, <2>1, <2>2, AnswerKnown DEF RequestInv, CallTypes, d
        <3> QED  BY <1>3, <2>1, <2>3, <3>1, ReturnedType DEF d
    <2>6. k # NULL
        BY NullAssumption
    <2>7. InItsFile(outcome.doc)'
        BY <2>2, <2>4, <2>5 DEF InItsFile
    <2> QED  BY <2>2, <2>3, <2>5, <2>6, <2>7 DEF Tells
<1>4. CASE Proceed(k, "lookup") \/ Proceed(k, "miss")
    BY <1>2, <1>4 DEF Proceed, Tells
<1> QED  BY <1>3, <1>4 DEF AfterLookup


\* ... and after any other step.
LEMMA CallTells ==
    ASSUME Reliable, RequestInv, CacheP!StoreInv,
           \/ \E k \in Keys : MakeRequest(k)
           \/ RejectArguments \/ Echo \/ ClearCache \/ Continue,
           phase \in {"idle", "lookup", "miss", "http"} =>
               \A j \in Keys : files[j] \in {before'[j], NULL}
    PROVE  Tells'
<1>0. [Next]_vars
    BY DEF Next
<1>1. ASSUME UNCHANGED files, phase \in {"idle", "lookup", "miss", "http"}
      PROVE  NothingWritten'
    BY <1>1 DEF NothingWritten
<1>2. ASSUME NEW k \in Keys, MakeRequest(k)
      PROVE  Tells'
    BY <1>0, <1>2, SearchTells DEF MakeRequest
<1>3. CASE ContinueLookup
    <2>1. key \in Keys /\ arg[Self] = key /\ phase = "lookup"
        BY <1>3 DEF ContinueLookup, RequestInv, CallerOK
    <2>2. PICK k \in Keys : k = key
        BY <2>1
    <2> QED  BY <1>0, <1>3, <2>1, <2>2, SearchTells DEF ContinueLookup
<1>4. CASE RejectArguments \/ Throw
    <2>1. PICK k \in Keys \cup {NULL} : Return(k, NULL)
        BY <1>4 DEF RejectArguments, Throw, RequestInv, CallTypes
    <2>2. outcome' # NULL /\ outcome'.doc = NULL /\ phase' = "idle"
        BY <2>1, ReturnedType DEF Return
    <2>3. NothingWritten'
        BY <1>1, <1>4 DEF RejectArguments, Throw, cacheVars
    <2> QED  BY <2>2, <2>3 DEF Tells
<1>5. CASE Echo \/ AskServer \/ HttpStep
    <2>1. outcome' = NULL /\ phase' \in {"miss", "http"}
        BY <1>5 DEF Echo, AskServer, HttpStep, Proceed
    <2>2. NothingWritten'
        BY <1>1, <1>5 DEF Echo, AskServer, HttpStep, cacheVars
    <2> QED  BY <2>1, <2>2 DEF Tells
<1>6. CASE EchoBody
    <2>1. Received \in Document /\ Received.key = NULL /\ Return(NULL, Received)
        BY <1>6, ReceivedType DEF EchoBody, Received
    <2>2. Received # NULL
        BY <2>1, NullAssumption
    <2>3. outcome' # NULL /\ outcome'.doc = Received /\ phase' = "idle"
        BY <2>1, ReturnedType DEF Return
    <2> QED  BY <2>1, <2>2, <2>3 DEF Tells
<1>7. CASE Store
    <2>1. key \in Keys /\ Cache!ClientCacheSet(Self, key)
        BY <1>7 DEF Store, RequestInv, CallTypes
    <2>2. at'[Self] = "open"
        BY <2>1, SetCall DEF Reliable, RequestInv
    <2> QED  BY <1>7, <2>2 DEF Store, Proceed, Tells
<1>8. CASE ContinueStore /\ CacheP!OpenCacheFile(Self)
    <2>1. at'[Self] = "write"
        BY <1>8, CacheTypes DEF CacheP!OpenCacheFile, CacheP!Goto, Reliable, RequestInv
    <2> QED  BY <1>8, <2>1 DEF ContinueStore, Proceed, Tells
<1>9. CASE ContinueStore /\ CacheP!WriteCacheFile(Self)
    <2> USE CacheTypes, TheOneProcess DEF RequestInv
    <2>1. /\ arg[Self] = key /\ key \in Keys /\ data[Self].id = stored
          /\ data[Self] \in CacheP!Response /\ at[Self] = "write"
        BY <1>9 DEF ContinueStore, CallerOK, CacheP!WriteCacheFile,
           CacheP!FreshInv, CacheP!TypeInv, CacheP!CallsOK, CacheP!CallOK
    <2>2. stored \in 1..MaxStores /\ docs[stored] # NULL /\ docs[stored].key = key
        BY <1>9, StoredKnown DEF ContinueStore
    <2>3. linked[Self] = TRUE /\ files[key].data = Empty
        BY <2>1 DEF CacheP!StoreInv, CacheP!InvSet
    <2>4. files' = [files EXCEPT ![key] = [data |-> data[Self], mtime |-> now]]
        BY <1>9, <2>1, <2>3 DEF CacheP!WriteCacheFile, CacheP!Written, Reliable
    <2>5. /\ files'[key] = [data |-> data[Self], mtime |-> now]
          /\ files'[key] \in CacheP!File
        BY <2>1, <2>4 DEF CacheP!File
    <2>6. CacheP!Parses(files'[key]) /\ files'[key].data.id = stored
        BY <2>1, <2>5, CacheNull DEF CacheP!Parses
    <2>7. Return(key, docs[stored]) /\ docs' = docs
        BY <1>9 DEF ContinueStore, CacheP!WriteCacheFile, CacheP!Return
    <2>8. PICK d \in Document : d = docs[stored]
        BY <2>2 DEF CallTypes
    <2>9. outcome' # NULL /\ outcome'.doc = d /\ outcome'.key = key /\ phase' = "idle"
        BY <2>1, <2>7, <2>8, ReturnedType DEF Return
    <2>10. InItsFile(outcome.doc)'
        BY <2>2, <2>6, <2>7, <2>8, <2>9 DEF InItsFile
    <2>11. key # NULL /\ d # NULL
        BY <2>1, <2>2, <2>8, NullAssumption
    <2> QED  BY <2>9, <2>10, <2>11 DEF Tells
<1>10. CASE ClearCache
    <2>1. outcome' = NULL /\ phase' = "clear"
        BY <1>10 DEF ClearCache, Proceed
    <2> QED  BY <2>1 DEF Tells
<1>11. CASE ContinueClear
    <2>1. outcome' = NULL /\ phase' \in {"idle", "clear"}
        BY <1>11 DEF ContinueClear, Proceed
    <2>2. ASSUME phase' = "idle"
          PROVE  \A k \in Keys : files'[k] = NULL
        <3> USE CacheTypes, TheOneProcess DEF RequestInv
        <3>1. at'[Self] = "idle"
            BY <1>11, <2>2 DEF ContinueClear, Proceed
        <3>2. ~CacheP!ClearFile(Self)
            BY <3>1 DEF CacheP!ClearFile
        <3>3. ~CacheP!ClearList(Self)
            BY <3>1 DEF CacheP!ClearList
        <3>4. CacheP!ClearDone(Self)
            BY <1>11, <3>2, <3>3, SameActions DEF ContinueClear
        <3>5. at[Self] = "clear_dir" /\ todo[Self] = {} /\ files' = files
            BY <3>4 DEF CacheP!ClearDone
        <3> QED  BY <3>5 DEF CacheP!StoreInv, CacheP!InvClear
    <2> QED  BY <2>1, <2>2 DEF Tells
<1>12. ContinueStore => CacheP!OpenCacheFile(Self) \/ CacheP!WriteCacheFile(Self)
    BY SameActions DEF ContinueStore
<1> QED
    BY <1>2, <1>3, <1>4, <1>5, <1>6, <1>7, <1>8, <1>9, <1>10, <1>11, <1>12 DEF Continue


-----------------------------------------------------------------------------
(***************************************************************************)
(* The invariant.                                                          *)
(***************************************************************************)

\* Process and call begin and end together.
LEMMA TurnStep ==
    ASSUME TurnOK, [ProgramNext]_programVars
    PROVE  TurnOK'
<1> USE DEF TurnOK
<1>1. CASE ExitAtOnce \/ Main
    BY <1>1 DEF ExitAtOnce, Main, vars, callVars
<1>2. CASE ParseFails
    BY <1>2 DEF ParseFails, Done, vars, callVars
<1>3. CASE Execute \/ ContinueCommand
    BY <1>3 DEF Execute, ContinueCommand, Settle, Done
<1>4. CASE Exit \/ Kill
    BY <1>4 DEF Exit, Kill, Restart
<1>5. CASE Environment \/ UNCHANGED programVars
    BY <1>5 DEF Environment, Network, Clock, programVars, cliVars, vars, callVars
<1> QED  BY <1>1, <1>2, <1>3, <1>4, <1>5 DEF ProgramNext

\* The step of a command, and the code it may exit with.
LEMMA SettleStep ==
    ASSUME Reliable, RequestInv', Tells', Settle
    PROVE  CommandOK' /\ (turn' = "over" => CodeTells')
<1>1. CommandOK'
    BY DEF Tells, CommandOK
<1>2. ASSUME turn' = "over"
      PROVE  CodeTells'
    <2>1. phase' = "idle"
        BY <1>2 DEF Settle
    <2>2. CASE outcome' # NULL /\ outcome'.doc = NULL
        <3>1. exit' = 3 /\ shown' = NULL
            BY <1>2, <2>1, <2>2 DEF Settle, Done
        <3> QED  BY <2>2, <3>1 DEF Tells, CodeTells
    <2>3. CASE outcome' # NULL /\ outcome'.doc # NULL
        <3>1. exit' = 0 /\ shown' = outcome'.doc
            BY <1>2, <2>1, <2>3 DEF Settle, Done, Reliable
        <3>2. ASSUME outcome'.doc.key # NULL
              PROVE  /\ outcome'.doc.kind = "data"
                     /\ outcome'.doc.units >= 2 * Chunks
                     /\ InItsFile(shown)'
            BY <2>3, <3>1, <3>2 DEF Tells, RequestInv, AnswersAreSound, InItsFile
        <3> QED  BY <2>3, <3>1, <3>2 DEF CodeTells
    <2>4. CASE outcome' = NULL
        <3>1. exit' = 0 /\ shown' = NULL
            BY <1>2, <2>1, <2>4 DEF Settle, Done, Reliable
        <3> QED  BY <2>1, <2>4, <3>1 DEF Tells, CodeTells
    <2> QED  BY <2>2, <2>3, <2>4
<1> QED  BY <1>1, <1>2

\* The invariant is inductive.
LEMMA ExitStep ==
    ASSUME Reliable, RequestInv, RequestInv', ExitInv, [ProgramNext]_programVars
    PROVE  ExitInv'
<1> USE DEF ExitInv
<1>1. CacheP!StoreInv'
    BY ProgramStep, ListAndFilesStep
<1>2. TurnOK'
    BY TurnStep
<1>3. ASSUME UNCHANGED <<files, docs, phase, turn, shown, exit, before>>
      PROVE  CommandOK' /\ (turn' = "over" => CodeTells')
    BY <1>3 DEF CommandOK, NothingWritten, CodeTells, InItsFile, CacheP!Parses
<1>4. CASE ExitAtOnce \/ Main
    <2>1. turn' = "read"
        BY <1>4 DEF ExitAtOnce, Main, TurnOK
    <2> QED  BY <1>1, <1>2, <2>1 DEF CommandOK
<1>5. CASE ParseFails
    <2>1. turn' # "execute" /\ (turn' = "over" => exit' \in {1, 3})
        BY <1>5 DEF ParseFails, Done
    <2>2. shown' = NULL /\ NothingWritten'
        BY <1>5 DEF ParseFails, NothingWritten, vars, cacheVars
    <2> QED  BY <1>1, <1>2, <2>1, <2>2 DEF CommandOK, CodeTells
<1>6. CASE Execute
    <2>1. before' = files /\ Settle
        BY <1>6 DEF Execute
    <2>2. Tells'
        BY <1>6, <2>1, CallTells DEF Execute
    <2> QED  BY <1>1, <1>2, <2>1, <2>2, SettleStep
<1>7. CASE ContinueCommand
    <2>1. /\ before' = before /\ Settle /\ Continue
          /\ turn = "execute" /\ phase # "idle"
        BY <1>7 DEF ContinueCommand, TurnOK
    <2>2. phase \in {"idle", "lookup", "miss", "http"} =>
              \A k \in Keys : files[k] \in {before'[k], NULL}
        BY <2>1 DEF CommandOK, NothingWritten
    <2>3. Tells'
        BY <2>1, <2>2, CallTells
    <2> QED  BY <1>1, <1>2, <2>1, <2>3, SettleStep
<1>8. CASE Exit \/ Kill
    <2>1. turn' = "read"
        BY <1>8 DEF Exit, Kill
    <2> QED  BY <1>1, <1>2, <2>1 DEF CommandOK
<1>9. CASE Environment
    BY <1>1, <1>2, <1>3, <1>9, ClockCall
       DEF Environment, Network, Clock, cliVars, cacheVars
<1>10. CASE UNCHANGED programVars
    BY <1>1, <1>2, <1>3, <1>10 DEF programVars, cliVars, vars, cacheVars, callVars
<1> QED
    BY <1>1, <1>2, <1>4, <1>5, <1>6, <1>7, <1>8, <1>9, <1>10 DEF ProgramNext

\* The invariant holds before the first process.
LEMMA ExitInit ==
    ASSUME Reliable, ProgramInit
    PROVE  ExitInv
<1>1. CacheP!Init
    BY DEF ProgramInit, Init, Cache!Init, CacheP!Init
<1>2. CacheP!StoreInv
    BY <1>1, TheOneProcess, CacheConstants, FaultsAssumption, CacheNull,
       CacheP!StoreInit
<1>3. TurnOK /\ turn = "read"
    BY DEF ProgramInit, Init, TurnOK
<1> QED  BY <1>2, <1>3 DEF ExitInv, CommandOK

\* A script can rely on the exit code as long as memory and disk do not fail:
\* after a 0 the document printed is whole and in its file for the next
\* command, or the directory is empty; after another code nothing was printed
\* and no file written.
THEOREM ExitCodesTell == ProgramSpec => []ExitCodeTells
<1>1. ASSUME Reliable
      PROVE  ProgramSpec => []ExitCodeTells
    <2>1. ProgramInit => ExitInv
        BY <1>1, ExitInit
    <2>2. RequestInv /\ RequestInv' /\ ExitInv /\ [ProgramNext]_programVars => ExitInv'
        BY <1>1, ExitStep
    <2>3. ExitInv => ExitCodeTells
        BY SameOperators DEF ExitInv, CodeTells, NothingWritten, InItsFile, ExitCodeTells
    <2> QED  BY <2>1, <2>2, <2>3, ProgramInvariant, PTL DEF ProgramSpec
<1>2. ASSUME ~Reliable
      PROVE  ProgramSpec => []ExitCodeTells
    <2>1. ExitCodeTells
        BY <1>2, FaultsAssumption DEF Reliable, ExitCodeTells
    <2> QED  BY <2>1, PTL
<1> QED  BY <1>1, <1>2
==============================================================================
