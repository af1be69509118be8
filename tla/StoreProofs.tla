----------------------------- MODULE StoreProofs -----------------------------
(***************************************************************************)
(* ClientCache implements ResponseStore when one process at a time uses    *)
(* the directory and neither memory nor disk fails.                        *)
(*                                                                         *)
(* StoreInv is inductive relative to FreshInv of ClientCacheProofs: it     *)
(* says how the list and the files agree at each point of a call.          *)
(*                                                                         *)
(* AgeInv follows the ages of the two, and needs neither memory nor disk   *)
(* to work: it is why a lookup removes no file that is still valid.        *)
(***************************************************************************)
EXTENDS ClientCacheProofs

Alone ==
    /\ Procs = {TheProcess}
    /\ CacheDir = TRUE /\ MemoryFaults = FALSE /\ DiskFaults = FALSE

P == TheProcess
List == Range(entries[P])

\* The file of an entry holds its response.
Kept(e) == files[e.key] # NULL /\ files[e.key].data = e.data

\* Between two calls, and in a lookup, every entry has its file, and a lookup
\* that goes to the file found no entry.
InvLookup ==
    pc[P] \in {"idle", "load", "unlink"} =>
        /\ \A e \in List : Kept(e)
        /\ pc[P] # "idle" => arg[P] \notin KeysOf(entries[P])

\* In a set the list has the new response, and its file is about to.
InvSet ==
    pc[P] \in {"open", "write"} =>
        /\ arg[P] \in KeysOf(entries[P])
        /\ \A e \in List : IF e.key = arg[P] THEN e.data = data[P] ELSE Kept(e)
        /\ pc[P] = "write" => /\ files[arg[P]] # NULL
                              /\ files[arg[P]].data = Empty

\* In a clear the files that are left are still to be removed: those of the
\* list before the list goes, all of them after.
InvClear ==
    /\ pc[P] = "clear_own" =>
          \A e \in List : files[e.key] # NULL => Kept(e) /\ e.key \in todo[P]
    /\ pc[P] = "clear_dir" =>
          /\ entries[P] = <<>>
          /\ \A k \in Keys : files[k] # NULL => k \in todo[P]

StoreInv == linked[P] = TRUE /\ InvLookup /\ InvSet /\ InvClear

-----------------------------------------------------------------------------
(***************************************************************************)
(* What the operations on a list leave of its entries.                     *)
(***************************************************************************)

\* The entries that stay are those of other keys.
LEMMA RemoveAtRange ==
    ASSUME NEW s, ListOK(s), NEW n \in DOMAIN s
    PROVE  \A e : e \in Range(RemoveAt(s, n)) <=> e \in Range(s) /\ e.key # s[n].key
<1> DEFINE r == RemoveAt(s, n)
<1>1. s \in Seq(Entry) /\ DOMAIN s = 1..Len(s) /\ Len(s) \in Nat
    BY LenProperties DEF ListOK
<1>2. /\ DOMAIN r = 1..(Len(s) - 1)
      /\ \A i \in 1..(Len(s) - 1) : r[i] = IF i < n THEN s[i] ELSE s[i + 1]
    BY <1>1, RemoveAtProperties
<1>3. Range(r) \subseteq Range(s) /\ s[n].key \notin KeysOf(r)
    BY RemoveAtListOK
<1> HIDE DEF r
<1>4. ASSUME NEW j \in DOMAIN s, s[j].key # s[n].key
      PROVE  s[j] \in Range(r)
    <2>1. CASE j < n
        <3>1. j \in DOMAIN r /\ r[j] = s[j]
            BY <1>1, <1>2, <2>1
        <3> QED  BY <3>1 DEF Range
    <2>2. CASE j > n
        <3>1. j - 1 \in DOMAIN r /\ ~(j - 1 < n) /\ (j - 1) + 1 = j
            BY <1>1, <1>2, <2>2
        <3>2. r[j - 1] = s[j]
            BY <3>1, <1>2
        <3> QED  BY <3>1, <3>2 DEF Range
    <2>3. j # n
        BY <1>4
    <2> QED  BY <2>1, <2>2, <2>3, <1>1
<1> QED  BY <1>3, <1>4 DEF Range, KeysOf, r

\* Without(s, k) has the entries of the other keys.
LEMMA WithoutRange ==
    ASSUME NEW s, ListOK(s), NEW k
    PROVE  \A e : e \in Range(Without(s, k)) <=> e \in Range(s) /\ e.key # k
<1>1. CASE Find(s, k) = {}
    BY <1>1, FindListOK DEF Without, KeysOf
<1>2. CASE Find(s, k) # {}
    <2> DEFINE i == CHOOSE n \in Find(s, k) : TRUE
    <2>1. i \in Find(s, k)
        BY <1>2
    <2> HIDE DEF i
    <2>2. i \in DOMAIN s /\ s[i].key = k
        BY <2>1, FindListOK
    <2>3. Without(s, k) = RemoveAt(s, i)
        BY <1>2 DEF Without, i
    <2> QED  BY <2>2, <2>3, RemoveAtRange
<1> QED  BY <1>1, <1>2

\* An eviction takes the oldest entry of a full list and nothing else.
LEMMA EvictedRange ==
    ASSUME NEW s, ListOK(s)
    PROVE  /\ ~Full(s) => Evicted(s) = s
           /\ Full(s) =>
                 /\ s[Oldest(s)] \in Range(s)
                 /\ \A e : e \in Range(Evicted(s)) <=>
                              e \in Range(s) /\ e.key # s[Oldest(s)].key
<1>1. CASE Full(s)
    <2>1. Len(s) \in Nat
        BY LenProperties DEF ListOK
    <2>2. Len(s) > 0
        BY <1>1, <2>1, SizesAssumption DEF Full
    <2>3. Oldest(s) \in DOMAIN s
        BY <2>2, OldestListOK
    <2>4. Evicted(s) = RemoveAt(s, Oldest(s))
        BY <1>1 DEF Evicted
    <2>5. s[Oldest(s)] \in Range(s)
        BY <2>3 DEF Range
    <2>6. \A e : e \in Range(Evicted(s)) <=>
                     e \in Range(s) /\ e.key # s[Oldest(s)].key
        BY <2>3, <2>4, RemoveAtRange
    <2> QED  BY <1>1, <2>5, <2>6
<1>2. CASE ~Full(s)
    BY <1>2 DEF Evicted
<1> QED  BY <1>1, <1>2

-----------------------------------------------------------------------------
(***************************************************************************)
(* What a list and a directory have for a key.                             *)
(***************************************************************************)

FileData(f) == IF Parses(f) THEN f.data ELSE NULL
Cached(s, fs, k) ==
    LET found == Find(s, k)
    IN  IF found = {} THEN FileData(fs[k])
        ELSE s[CHOOSE i \in found : TRUE].data

Value == [k \in Keys |-> InCache(k)]
Saved == [k \in Keys |-> InFile(k)]

\* An entry comes before a file.
LEMMA CachedIs ==
    ASSUME NEW s, ListOK(s), NEW fs
    PROVE  /\ \A e \in Range(s) : Cached(s, fs, e.key) = e.data
           /\ \A k : k \notin KeysOf(s) => Cached(s, fs, k) = FileData(fs[k])
<1>1. ASSUME NEW k, k \notin KeysOf(s)
      PROVE  Cached(s, fs, k) = FileData(fs[k])
    BY <1>1, FindListOK DEF Cached
<1>2. ASSUME NEW e \in Range(s)
      PROVE  Cached(s, fs, e.key) = e.data
    <2> DEFINE i == CHOOSE n \in Find(s, e.key) : TRUE
    <2>1. e.key \in KeysOf(s)
        BY DEF KeysOf
    <2>2. Find(s, e.key) # {} /\ i \in Find(s, e.key)
        BY <2>1, FindListOK
    <2>3. Cached(s, fs, e.key) = s[i].data
        BY <2>2 DEF Cached
    <2> HIDE DEF i
    <2>4. i \in DOMAIN s /\ s[i].key = e.key
        BY <2>2, FindListOK
    <2>5. PICK j \in DOMAIN s : s[j] = e
        BY DEF Range
    <2>6. i = j
        BY <2>4, <2>5 DEF ListOK
    <2> QED  BY <2>3, <2>5, <2>6
<1> QED  BY <1>1, <1>2

\* value and saved, key by key, before and after a step.
LEMMA ValueFacts ==
    /\ \A k \in Keys : Value[k] = Cached(entries[P], files, k)
    /\ \A k \in Keys : Value'[k] = Cached(entries'[P], files', k)
    /\ \A k \in Keys : Saved[k] = FileData(files[k])
    /\ \A k \in Keys : Saved'[k] = FileData(files'[k])
BY DEF Value, Saved, InCache, InFile, Cached, FileData, P

\* The values before and after a step, entry by entry and file by file.
LEMMA Values ==
    ASSUME FreshInv, FreshInv', Alone
    PROVE  /\ \A e \in List : e \in Entry /\ Value[e.key] = e.data
           /\ \A e \in List' : e \in Entry /\ Value'[e.key] = e.data
           /\ \A k \in Keys : k \notin KeysOf(entries[P]) => Value[k] = Saved[k]
           /\ \A k \in Keys : k \notin KeysOf(entries'[P]) => Value'[k] = Saved'[k]
           /\ \A k \in Keys : Saved[k] = FileData(files[k])
           /\ \A k \in Keys : Saved'[k] = FileData(files'[k])
<1>1. ListOK(entries[P]) /\ ListOK(entries'[P]) /\ P \in Procs
    BY DEF FreshInv, ListsOK, Alone, P, ListOK
<1>2. ASSUME NEW s, ListOK(s), NEW e \in Range(s)
      PROVE  e \in Entry /\ e.key \in Keys
    <2>1. e \in Entry
        BY <1>2, ElementOfSeq, LenProperties DEF ListOK, Range
    <2> QED  BY <2>1 DEF Entry
<1>3. List = Range(entries[P]) /\ List' = Range(entries'[P])
    BY DEF List
<1>4. /\ \A e \in List : e \in Entry /\ e.key \in Keys
      /\ \A e \in List' : e \in Entry /\ e.key \in Keys
    BY <1>1, <1>2, <1>3
<1> QED  BY <1>1, <1>3, <1>4, CachedIs, ValueFacts

-----------------------------------------------------------------------------
(***************************************************************************)
(* The steps of a lookup.                                                  *)
(***************************************************************************)

LastAnswer == IF reply = NULL THEN NULL ELSE [key |-> reply.key, data |-> reply.data]

\* The variables of the one process, one by one.
LEMMA Setting ==
    ASSUME FreshInv, Alone
    PROVE  /\ P \in Procs /\ Procs = {P}
           /\ files \in [Keys -> File \cup {NULL}]
           /\ entries \in [Procs -> Seq(Entry)] /\ ListOK(entries[P])
           /\ pc \in [Procs -> PCs] /\ arg \in [Procs -> Keys \cup {NULL}]
           /\ data \in [Procs -> Response \cup {NULL}]
           /\ linked \in [Procs -> BOOLEAN] /\ todo \in [Procs -> SUBSET Keys]
           /\ NULL \notin Response /\ NULL \notin File /\ NULL \notin Reply
           /\ Empty \notin Response /\ Damaged \notin Response
           /\ \A e \in List : e \in Entry
<1>1. P \in Procs /\ Procs = {P}
    BY DEF Alone, P
<1>2. \A p \in Procs : ListOK(entries[p])
    BY DEF FreshInv, ListsOK
<1>3. ListOK(entries[P])
    BY <1>1, <1>2
<1>4. ASSUME NEW e \in List PROVE e \in Entry
    BY <1>3, ElementOfSeq, LenProperties DEF ListOK, List, Range
<1> QED  BY <1>1, <1>3, <1>4, NullAssumption DEF FreshInv, TypeInv, TypeOK

\* When every entry has its file, the list adds nothing to the directory.
LEMMA SavedIsValue ==
    ASSUME FreshInv, FreshInv', Alone
    PROVE  /\ (\A e \in List : Kept(e)) => Saved = Value
           /\ (\A e \in List : Kept(e))' => Saved' = Value'
<1>1. ASSUME NEW f \in File \cup {NULL}, f # NULL, f.data \in Response
      PROVE  FileData(f) = f.data
    BY <1>1, NullAssumption DEF FileData, Parses
<1>2. ASSUME \A e \in List : Kept(e), NEW k \in Keys
      PROVE  Saved[k] = Value[k]
    <2>1. CASE k \in KeysOf(entries[P])
        <3>1. PICK e \in List : e.key = k
            BY <2>1 DEF KeysOf, List
        <3>2. e \in Entry /\ Value[k] = e.data /\ files[k] # NULL /\ files[k].data = e.data
            BY <1>2, <3>1, Values DEF Kept
        <3>3. files[k] \in File
            BY <3>2, Setting
        <3> QED  BY <1>1, <3>2, <3>3, Values DEF Entry
    <2> QED  BY <2>1, Values
<1>3. ASSUME (\A e \in List : Kept(e))', NEW k \in Keys
      PROVE  Saved'[k] = Value'[k]
    <2>1. CASE k \in KeysOf(entries'[P])
        <3>1. PICK e \in List' : e.key = k
            BY <2>1 DEF KeysOf, List
        <3>2. e \in Entry /\ Value'[k] = e.data /\ files'[k] # NULL /\ files'[k].data = e.data
            BY <1>3, <3>1, Values DEF Kept
        <3>3. files'[k] \in File
            BY <3>2 DEF FreshInv, TypeInv, TypeOK
        <3> QED  BY <1>1, <3>2, <3>3, Values DEF Entry
    <2> QED  BY <2>1, Values
<1> QED  BY <1>2, <1>3 DEF Saved, Value

\* Values depend on the list and the files alone.
LEMMA SameValues ==
    ASSUME UNCHANGED <<files, entries>>
    PROVE  Value' = Value /\ Saved' = Saved /\ List' = List
<1>1. \A k \in Keys : Value'[k] = Value[k] /\ Saved'[k] = Saved[k]
    BY ValueFacts
<1> QED  BY <1>1 DEF Value, Saved, List, P

\* An entry too old goes with its file: the key has nothing any more.
LEMMA GetExpiredStep ==
    ASSUME FreshInv, FreshInv', Alone, StoreInv, NEW k \in Keys, GetExpired(P, k)
    PROVE  StoreInv' /\ Store!Get(k)
<1> USE Setting
<1>1. PICK i \in Find(entries[P], k) : entries' = [entries EXCEPT ![P] = RemoveAt(entries[P], i)]
    BY DEF GetExpired
<1>2. /\ pc[P] = "idle" /\ UNCHANGED <<pc, arg>>
      /\ files' = [files EXCEPT ![k] = NULL] /\ linked'[P] = linked[P]
      /\ reply' = [proc |-> P, key |-> k, data |-> NULL]
    BY DEF GetExpired, Idle, DeleteFile, Answer, callVars, Alone
<1>3. i \in DOMAIN entries[P] /\ entries[P][i].key = k
    BY <1>1, FindListOK
<1>4. \A e : e \in List' <=> e \in List /\ e.key # k
    BY <1>1, <1>3, RemoveAtRange DEF List
<1>5. \A e \in List : Kept(e)
    BY <1>2 DEF StoreInv, InvLookup
<1>6. (\A e \in List : Kept(e))'
    <2> SUFFICES ASSUME NEW e \in List'
                 PROVE  Kept(e)'
        OBVIOUS
    <2>1. e.key # k /\ Kept(e) /\ e.key \in Keys
        BY <1>4, <1>5 DEF Entry
    <2> QED  BY <2>1, <1>2 DEF Kept
<1>7. StoreInv'
    BY <1>2, <1>6 DEF StoreInv, InvLookup, InvSet, InvClear
<1>8. Saved' = Store!Without(Value, {k})
    <2>1. ASSUME NEW j \in Keys
          PROVE  Saved'[j] = IF j \in {k} THEN NULL ELSE Value[j]
        BY <1>2, <1>5, Values, SavedIsValue DEF FileData, Parses
    <2> QED  BY <2>1 DEF Saved, Store!Without
<1>9. Value' = Saved'
    BY <1>6, SavedIsValue
<1>10. LastAnswer' = [key |-> k, data |-> Value'[k]]
    <2>1. Value'[k] = NULL
        BY <1>8, <1>9 DEF Store!Without
    <2>2. reply' # NULL
        BY <1>2 DEF Reply
    <2> QED  BY <1>2, <2>1, <2>2 DEF LastAnswer
<1>11. Changing = Store!Idle /\ UNCHANGED Changing
    BY <1>2 DEF Changing, Store!Idle, P
<1>12. Value' \in {Value, Store!Without(Value, {k})}
    BY <1>8, <1>9
<1> QED
    BY <1>7, <1>9, <1>10, <1>11, <1>12, Zenon
    DEF Store!Get, Value, Saved, LastAnswer

\* A hit answers what the key has.
LEMMA GetHitStep ==
    ASSUME FreshInv, FreshInv', Alone, StoreInv, NEW k \in Keys, GetHit(P, k)
    PROVE  StoreInv' /\ Store!Get(k)
<1> USE Setting
<1>1. PICK i \in Find(entries[P], k) :
          reply' = [proc |-> P, key |-> k, data |-> entries[P][i].data]
    BY DEF GetHit, Answer, Alone
<1>2. pc[P] = "idle" /\ UNCHANGED <<pc, arg, data, todo, files, entries, linked>>
    BY DEF GetHit, Idle, callVars
<1>3. UNCHANGED <<Value, Saved, List>>
    BY <1>2, SameValues
<1>4. StoreInv'
    BY <1>2 DEF StoreInv, InvLookup, InvSet, InvClear, Kept, List
<1>5. Saved = Value
    BY <1>2, SavedIsValue DEF StoreInv, InvLookup
<1>6. LastAnswer' = [key |-> k, data |-> Value'[k]]
    <2>1. i \in DOMAIN entries[P] /\ entries[P][i].key = k
        BY FindListOK
    <2>2. Value'[k] = entries[P][i].data
        BY <1>3, <2>1, Values DEF List, Range
    <2>3. entries[P][i] \in List
        BY <2>1 DEF List, Range
    <2>4. reply' # NULL
        BY <1>1, <2>3 DEF Reply, Entry
    <2> QED  BY <1>1, <2>2, <2>4 DEF LastAnswer
<1>7. Changing = Store!Idle /\ UNCHANGED Changing
    BY <1>2 DEF Changing, Store!Idle, P
<1> QED
    BY <1>3, <1>4, <1>5, <1>6, <1>7, Zenon
    DEF Store!Get, Value, Saved, LastAnswer

\* A lookup that found no entry goes to the file; nothing has changed.
LEMMA GetStatStep ==
    ASSUME FreshInv, FreshInv', Alone, StoreInv, NEW k \in Keys, GetStat(P, k)
    PROVE  StoreInv' /\ Store!Wait
<1> USE Setting
<1>1. /\ pc[P] = "idle" /\ pc'[P] \in {"load", "unlink"} /\ arg'[P] = k
      /\ UNCHANGED <<todo, files, entries, linked>> /\ reply' = NULL
      /\ k \notin KeysOf(entries[P])
    BY FindListOK DEF GetStat, Idle, Start, NoAnswer
<1>2. UNCHANGED <<Value, Saved, List>>
    BY <1>1, SameValues
<1>3. StoreInv'
    BY <1>1 DEF StoreInv, InvLookup, InvSet, InvClear, Kept, List, KeysOf
<1>4. LastAnswer' = NULL /\ UNCHANGED Changing
    BY <1>1 DEF LastAnswer, Changing, P
<1> QED  BY <1>2, <1>3, <1>4, Zenon DEF Store!Wait, Value, Saved, LastAnswer

\* A file too old goes: the key has nothing any more.
LEMMA UnlinkStaleStep ==
    ASSUME FreshInv, FreshInv', Alone, StoreInv, UnlinkStale(P)
    PROVE  StoreInv' /\ \E k \in Keys : Store!Get(k)
<1> USE Setting
<1> DEFINE k == arg[P]
<1>0. pc[P] = "unlink" /\ DeleteFile(k) /\ k \in Keys
    BY DEF UnlinkStale, FreshInv, TypeInv, CallsOK, CallOK
<1>1. /\ pc[P] = "unlink" /\ pc'[P] = "idle" /\ k \in Keys
      /\ UNCHANGED entries
      /\ files' = [files EXCEPT ![k] = NULL] /\ linked'[P] = linked[P]
      /\ reply' = [proc |-> P, key |-> k, data |-> NULL]
    <2>1. files' = [files EXCEPT ![k] = NULL] /\ linked'[P] = linked[P]
        BY <1>0 DEF DeleteFile, Alone
    <2>2. pc'[P] = "idle" /\ UNCHANGED entries
        BY DEF UnlinkStale, Return
    <2> QED  BY <1>0, <2>1, <2>2 DEF UnlinkStale, Answer
<1>2. (\A e \in List : Kept(e)) /\ k \notin KeysOf(entries[P]) /\ List' = List
    BY <1>1 DEF StoreInv, InvLookup, List
<1>3. (\A e \in List : Kept(e))'
    <2> SUFFICES ASSUME NEW e \in List'
                 PROVE  Kept(e)'
        OBVIOUS
    <2>1. e.key # k /\ Kept(e) /\ e.key \in Keys
        BY <1>2 DEF Entry, KeysOf, List
    <2> QED  BY <2>1, <1>1 DEF Kept
<1>4. StoreInv'
    BY <1>1, <1>3 DEF StoreInv, InvLookup, InvSet, InvClear
<1> HIDE DEF k
<1>5. Saved' = Store!Without(Value, {k})
    <2>1. ASSUME NEW j \in Keys
          PROVE  Saved'[j] = IF j \in {k} THEN NULL ELSE Value[j]
        BY <1>1, <1>2, Values, SavedIsValue DEF FileData, Parses
    <2> QED  BY <2>1 DEF Saved, Store!Without
<1>6. Value' = Saved'
    BY <1>3, SavedIsValue
<1>7. LastAnswer' = [key |-> k, data |-> Value'[k]]
    <2>1. Value'[k] = NULL
        BY <1>1, <1>5, <1>6 DEF Store!Without
    <2>2. reply' # NULL
        BY <1>1 DEF Reply
    <2> QED  BY <1>1, <2>1, <2>2 DEF LastAnswer
<1>8. Changing = Store!Idle /\ UNCHANGED Changing
    BY <1>1 DEF Changing, Store!Idle, P
<1>9. Value' \in {Value, Store!Without(Value, {k})}
    BY <1>5, <1>6
<1>10. Store!Get(k)
    BY <1>6, <1>7, <1>8, <1>9, Zenon DEF Store!Get, Value, Saved, LastAnswer
<1> QED  BY <1>1, <1>4, <1>10

\* A file that is loaded is what its key has.
LEMMA LoadFileStep ==
    ASSUME FreshInv, FreshInv', Alone, StoreInv, LoadFile(P)
    PROVE  StoreInv' /\ \E k \in Keys : Store!Get(k)
<1> USE Setting
<1> DEFINE k == arg[P]
           f == files[k]
           e == [key |-> f.data.key, data |-> f.data, created_at |-> now]
<1>1. /\ pc[P] = "load" /\ k \in Keys /\ pc'[P] = "idle"
      /\ UNCHANGED <<files, linked>>
    BY DEF LoadFile, Return, FreshInv, TypeInv, CallsOK, CallOK
<1>2. (\A g \in List : Kept(g)) /\ k \notin KeysOf(entries[P])
    BY <1>1 DEF StoreInv, InvLookup
<1>3. \/ /\ Parses(f) /\ entries' = [entries EXCEPT ![P] = Append(entries[P], e)]
         /\ reply' = [proc |-> P, key |-> k, data |-> f.data]
      \/ /\ ~Parses(f) /\ UNCHANGED entries
         /\ reply' = [proc |-> P, key |-> k, data |-> NULL]
    BY DEF LoadFile, AddEntry, Answer, Alone
<1>4. Parses(f) => f \in File /\ f.data \in Response /\ f.data.key = k
    BY <1>1 DEF Parses, File, FreshInv, FilesOK
<1>5. \A g \in List' : g \in List \/ (Parses(f) /\ g.key = k /\ g.data = f.data)
    <2>1. CASE Parses(f) /\ entries'[P] = Append(entries[P], e)
        <3>1. \A i \in DOMAIN entries'[P] :
                 entries'[P][i] = e \/ (i \in DOMAIN entries[P] /\ entries'[P][i] = entries[P][i])
            BY <2>1
        <3> QED  BY <3>1, <2>1, <1>4 DEF List, Range
    <2>2. CASE UNCHANGED entries
        BY <2>2 DEF List
    <2> QED  BY <2>1, <2>2, <1>3
<1>6. (\A g \in List : Kept(g))'
    <2> SUFFICES ASSUME NEW g \in List'
                 PROVE  Kept(g)'
        OBVIOUS
    <2>1. CASE g \in List
        BY <2>1, <1>1, <1>2 DEF Kept
    <2>2. CASE Parses(f) /\ g.key = k /\ g.data = f.data
        BY <2>2, <1>1 DEF Kept, Parses
    <2> QED  BY <1>5, <2>1, <2>2
<1>7. StoreInv'
    BY <1>1, <1>6 DEF StoreInv, InvLookup, InvSet, InvClear
<1>8. Saved = Value /\ Saved' = Value' /\ Saved' = Saved
    <2>1. \A j \in Keys : Saved'[j] = Saved[j]
        BY <1>1, ValueFacts
    <2>2. Saved' = Saved
        BY <2>1 DEF Saved
    <2> QED  BY <1>2, <1>6, <2>2, SavedIsValue
<1>9. LastAnswer' = [key |-> k, data |-> Value'[k]]
    <2>1. Value'[k] = FileData(f)
        BY <1>1, <1>8, ValueFacts
    <2>2. reply' = [proc |-> P, key |-> k, data |-> FileData(f)]
        BY <1>3 DEF FileData
    <2>3. reply' \in Reply
        BY <2>2, <1>1, <1>4 DEF Reply, FileData
    <2> HIDE DEF k, f
    <2> QED  BY <2>1, <2>2, <2>3 DEF LastAnswer
<1>10. Changing = Store!Idle /\ UNCHANGED Changing
    BY <1>1 DEF Changing, Store!Idle, P
<1> HIDE DEF k
<1>11. Value' \in {Value, Store!Without(Value, {k})}
    BY <1>8
<1>12. Store!Get(k)
    BY <1>8, <1>9, <1>10, <1>11, Zenon DEF Store!Get, Value, Saved, LastAnswer
<1> QED  BY <1>1, <1>7, <1>12

-----------------------------------------------------------------------------
(***************************************************************************)
(* The steps of a set.                                                     *)
(***************************************************************************)

\* An open empties the file: another process would find nothing.
LEMMA OpenStep ==
    ASSUME FreshInv, FreshInv', Alone, StoreInv, OpenCacheFile(P)
    PROVE  StoreInv' /\ Store!Lose
<1> USE Setting
<1> DEFINE k == arg[P]
<1>1. /\ pc[P] = "open" /\ k \in Keys /\ pc'[P] = "write"
      /\ UNCHANGED <<arg, data, entries>> /\ reply' = NULL
      /\ linked'[P] = TRUE
      /\ files' = [files EXCEPT ![k] = [data |-> Empty, mtime |-> now]]
    BY DEF OpenCacheFile, Goto, NoAnswer, Alone, FreshInv, TypeInv, CallsOK, CallOK
<1>2. /\ k \in KeysOf(entries[P]) /\ List' = List
      /\ \A e \in List : IF e.key = k THEN e.data = data[P] ELSE Kept(e)
    BY <1>1 DEF StoreInv, InvSet, List
<1>3. /\ \A j \in Keys : j # k => files'[j] = files[j]
      /\ files'[k] = [data |-> Empty, mtime |-> now] /\ files'[k] # NULL
    <2>1. files'[k] = [data |-> Empty, mtime |-> now]
        BY <1>1
    <2>2. files'[k] \in File
        BY <2>1 DEF File, FreshInv, TypeInv, TypeOK
    <2> QED  BY <1>1, <2>1, <2>2
<1>4. StoreInv'
    <2>1. \A e \in List : e.key # k => Kept(e)'
        BY <1>2, <1>3 DEF Kept, Entry
    <2>2. InvSet'
        BY <1>1, <1>2, <1>3, <2>1 DEF InvSet
    <2> QED  BY <1>1, <2>2 DEF StoreInv, InvLookup, InvClear
<1>5. ASSUME NEW j \in Keys
      PROVE  /\ Saved'[j] = IF j \in {k} THEN NULL ELSE Saved[j]
             /\ Value'[j] = Value[j]
    <2>1. Saved'[j] = IF j \in {k} THEN NULL ELSE Saved[j]
        BY <1>3, Values DEF FileData, Parses
    <2>2. CASE j \in KeysOf(entries[P])
        <3>1. PICK e \in List : e.key = j
            BY <2>2 DEF KeysOf, List
        <3>2. e \in List'
            BY <3>1, <1>2
        <3>3. Value[e.key] = e.data /\ Value'[e.key] = e.data
            BY <3>1, <3>2, Values
        <3> QED  BY <2>1, <3>1, <3>3
    <2>3. CASE j \notin KeysOf(entries[P])
        BY <2>1, <2>3, <1>1, <1>2, Values
    <2> QED  BY <2>1, <2>2, <2>3
<1>6. Changing = [op |-> "set", key |-> k] /\ UNCHANGED Changing
    BY <1>1 DEF Changing, P
<1>7. LastAnswer' = NULL
    BY <1>1 DEF LastAnswer
<1> HIDE DEF k
<1>8. Saved' = Store!Without(Saved, {k}) /\ Value' = Value
    BY <1>5 DEF Saved, Value, Store!Without
<1>9. Changing.op = "set" /\ Changing.key = k
    BY <1>6
<1>10. Saved' = Store!Without(Saved, {Changing.key})
    BY <1>8, <1>9
<1> QED
    BY <1>4, <1>6, <1>7, <1>8, <1>9, <1>10, Zenon
    DEF Store!Lose, Value, Saved, LastAnswer

\* A write completes the set.
LEMMA WriteFileStep ==
    ASSUME FreshInv, FreshInv', Alone, StoreInv, WriteCacheFile(P)
    PROVE  StoreInv' /\ Store!Return
<1> USE Setting
<1> DEFINE k == arg[P]
<1>1. /\ pc[P] = "write" /\ k \in Keys /\ pc'[P] = "idle" /\ arg'[P] = NULL
      /\ UNCHANGED entries /\ reply' = NULL /\ linked'[P] = TRUE
      /\ data[P] \in Response
    BY DEF WriteCacheFile, Return, NoAnswer, FreshInv, TypeInv, CallsOK, CallOK
<1>2. /\ k \in KeysOf(entries[P]) /\ List' = List
      /\ \A e \in List : IF e.key = k THEN e.data = data[P] ELSE Kept(e)
      /\ files[k].data = Empty /\ linked[P]
    BY <1>1 DEF StoreInv, InvSet, List
<1>3. files' = [files EXCEPT ![k] = [data |-> data[P], mtime |-> now]]
    BY <1>2 DEF WriteCacheFile, Written, Alone
<1>4. /\ \A j \in Keys : j # k => files'[j] = files[j]
      /\ files'[k] = [data |-> data[P], mtime |-> now] /\ files'[k] # NULL
    <2>1. files'[k] = [data |-> data[P], mtime |-> now]
        BY <1>1, <1>3
    <2>2. files'[k] \in File
        BY <1>1, <2>1 DEF File, FreshInv, TypeInv, TypeOK
    <2> QED  BY <1>1, <1>3, <2>1, <2>2
<1>5. (\A e \in List : Kept(e))'
    <2> SUFFICES ASSUME NEW e \in List'
                 PROVE  Kept(e)'
        OBVIOUS
    <2> QED  BY <1>2, <1>4 DEF Kept, Entry
<1>6. StoreInv'
    BY <1>1, <1>5 DEF StoreInv, InvLookup, InvSet, InvClear
<1>7. ASSUME NEW j \in Keys
      PROVE  Value'[j] = Value[j]
    <2>1. CASE j \in KeysOf(entries[P])
        <3>1. PICK e \in List : e.key = j
            BY <2>1 DEF KeysOf, List
        <3> QED  BY <3>1, <1>2, Values
    <2>2. CASE j \notin KeysOf(entries[P])
        BY <2>2, <1>1, <1>2, <1>4, Values
    <2> QED  BY <2>1, <2>2
<1>8. Value' = Value /\ Saved' = Value'
    BY <1>5, <1>7, SavedIsValue DEF Value
<1>9. Changing.op = "set" /\ Changing # Store!Idle /\ Changing' = Store!Idle
    <2>1. Changing = [op |-> "set", key |-> k]
        BY <1>1 DEF Changing, P
    <2>2. Changing' = Store!Idle
        BY <1>1 DEF Changing, Store!Idle, P
    <2>3. Changing.op = "set" /\ Store!Idle.op = "none"
        BY <2>1 DEF Store!Idle
    <2> QED  BY <2>2, <2>3
<1>10. LastAnswer' = NULL
    BY <1>1 DEF LastAnswer
<1>11. Value' = IF Changing.op = "clear" THEN Store!Nothing ELSE Value
    BY <1>8, <1>9
<1> QED
    BY <1>6, <1>8, <1>9, <1>10, <1>11, Zenon
    DEF Store!Return, Value, Saved, LastAnswer

\* A set changes the list, and removes one file at most.
LEMMA SetStep ==
    ASSUME FreshInv, FreshInv', Alone, StoreInv, NEW k \in Keys, ClientCacheSet(P, k)
    PROVE  StoreInv' /\ Store!Set(k)
<1> USE Setting
<1> DEFINE kept == Without(entries[P], k)
           room == Evicted(kept)
           d == [key |-> k, id |-> stored + 1, born |-> now]
           e == [key |-> k, data |-> d, created_at |-> now]
<1>1. /\ pc[P] = "idle" /\ pc'[P] = "open" /\ arg'[P] = k /\ data'[P] = d
      /\ entries'[P] = Append(room, e) /\ reply' = NULL
      /\ IF Full(kept) THEN DeleteFile(kept[Oldest(kept)].key)
                       ELSE UNCHANGED <<files, linked>>
    BY DEF ClientCacheSet, Idle, Start, AddEntry, NoAnswer, Alone
<1>2. \A g \in List : Kept(g)
    BY <1>1 DEF StoreInv, InvLookup
<1>3. /\ ListOK(kept) /\ ListOK(room)
      /\ \A g : g \in Range(kept) <=> g \in List /\ g.key # k
    BY WithoutListOK, EvictedListOK, WithoutRange DEF List
<1> HIDE DEF kept
\* The key that makes room, k itself when there is room.
<1>4. PICK v \in Keys :
          /\ \A g : g \in Range(room) <=> g \in List /\ g.key # k /\ g.key # v
          /\ \A j \in Keys : files'[j] = IF j = v /\ v # k THEN NULL ELSE files[j]
          /\ linked'[P] = TRUE
    <2>1. CASE ~Full(kept)
        BY <1>1, <1>3, <2>1, EvictedRange DEF StoreInv
    <2>2. CASE Full(kept)
        <3> DEFINE v == kept[Oldest(kept)].key
        <3>1. /\ kept[Oldest(kept)] \in Range(kept)
              /\ \A g : g \in Range(room) <=> g \in Range(kept) /\ g.key # v
            BY <1>3, <2>2, EvictedRange
        <3>2. v \in Keys /\ v # k
            BY <1>3, <3>1 DEF Entry
        <3>3. DeleteFile(v)
            BY <1>1, <2>2
        <3> HIDE DEF v
        <3>4. files' = [files EXCEPT ![v] = NULL] /\ linked'[P] = TRUE
            BY <1>1, <3>3 DEF DeleteFile, Alone, StoreInv
        <3>5. \A g : g \in Range(room) <=> g \in List /\ g.key # k /\ g.key # v
            BY <1>3, <3>1
        <3>6. \A j \in Keys : files'[j] = IF j = v /\ v # k THEN NULL ELSE files[j]
            BY <3>2, <3>4
        <3> QED  BY <3>2, <3>4, <3>5, <3>6
    <2> QED  BY <2>1, <2>2
<1>5. \A g : g \in List' <=> g = e \/ (g \in List /\ g.key # k /\ g.key # v)
    <2>1. room \in Seq(Entry)
        BY <1>3 DEF ListOK
    <2> HIDE DEF room, e
    <2>2. /\ Len(room) \in Nat /\ DOMAIN room = 1..Len(room)
          /\ DOMAIN Append(room, e) = 1..(Len(room) + 1)
          /\ \A i \in 1..Len(room) : Append(room, e)[i] = room[i]
          /\ Append(room, e)[Len(room) + 1] = e
        BY <2>1, LenProperties, AppendProperties
    <2>3. \A g : g \in Range(Append(room, e)) <=> g = e \/ g \in Range(room)
        <3>1. \A i \in 1..(Len(room) + 1) : i = Len(room) + 1 \/ i \in 1..Len(room)
            BY <2>2
        <3>2. /\ 1..Len(room) \subseteq 1..(Len(room) + 1)
              /\ Len(room) + 1 \in 1..(Len(room) + 1)
            BY <2>2
        <3> QED  BY <2>2, <3>1, <3>2 DEF Range
    <2> QED  BY <1>1, <1>4, <2>3 DEF List
<1> HIDE DEF room
<1>6. e \in List' /\ e.key = k /\ e.data = d
    BY <1>5
<1> HIDE DEF e
<1>7. StoreInv'
    <2>1. \A g \in List' : g.key # k => Kept(g)'
        BY <1>2, <1>4, <1>5, <1>6 DEF Kept, Entry
    <2>2. \A g \in List' : g.key = k => g.data = d
        BY <1>5, <1>6
    <2>3. k \in KeysOf(entries'[P])
        BY <1>6 DEF KeysOf, List
    <2>4. InvSet'
        BY <1>1, <2>1, <2>2, <2>3 DEF InvSet
    <2> QED  BY <1>1, <1>4, <2>4 DEF StoreInv, InvLookup, InvClear
<1>8. Saved = Value
    BY <1>2, SavedIsValue
<1>9. ASSUME NEW j \in Keys
      PROVE  /\ Saved'[j] = IF j \in {v} \ {k} THEN NULL ELSE Saved[j]
             /\ j # k => Value'[j] = IF j \in {v} THEN NULL ELSE Value[j]
    <2>1. Saved'[j] = IF j \in {v} \ {k} THEN NULL ELSE Saved[j]
        BY <1>4, Values DEF FileData, Parses
    <2>2. CASE j # k /\ j \in KeysOf(entries'[P])
        <3>1. PICK g \in List' : g.key = j
            BY <2>2 DEF KeysOf, List
        <3>2. g \in List /\ j # v
            BY <1>5, <1>6, <2>2, <3>1
        <3> QED  BY <2>1, <2>2, <3>1, <3>2, Values
    <2>3. CASE j # k /\ j \notin KeysOf(entries'[P])
        BY <1>8, <2>1, <2>3, Values
    <2> QED  BY <2>1, <2>2, <2>3
<1>10. Value'[k] \in Response
    BY <1>6, Values DEF Entry
<1>11. Value' = [Store!Without(Value, {v}) EXCEPT ![k] = Value'[k]]
    BY <1>9 DEF Value, Store!Without
<1>12. Saved' = Store!Without(Saved, {v} \ {k})
    BY <1>9 DEF Saved, Store!Without
<1>13. Changing = Store!Idle /\ Changing' = [op |-> "set", key |-> k]
    BY <1>1 DEF Changing, Store!Idle, P
<1>14. LastAnswer' = NULL
    BY <1>1 DEF LastAnswer
<1>15. Store!Set(k)
    <2>1. \E x \in Keys : /\ Value' = [Store!Without(Value, {x}) EXCEPT ![k] = Value'[k]]
                          /\ Saved' = Store!Without(Saved, {x} \ {k})
        BY <1>11, <1>12
    <2> QED  BY <1>10, <1>13, <1>14, <2>1, Zenon DEF Store!Set, Value, Saved, LastAnswer
<1> QED  BY <1>7, <1>15

-----------------------------------------------------------------------------
(***************************************************************************)
(* The steps of a clear, a restart and the clock.                          *)
(***************************************************************************)

\* A clear begins.
LEMMA ClearStep ==
    ASSUME FreshInv, FreshInv', Alone, StoreInv, ClientCacheClear(P)
    PROVE  StoreInv' /\ Store!Clear
<1> USE Setting
<1>1. /\ pc[P] = "idle" /\ pc'[P] = "clear_own"
      /\ todo'[P] = {entries[P][i].key : i \in DOMAIN entries[P]}
      /\ UNCHANGED <<files, entries, linked>> /\ reply' = NULL
    BY DEF ClientCacheClear, Idle, NoAnswer
<1>2. UNCHANGED <<Value, Saved, List>>
    BY <1>1, SameValues
<1>3. \A e \in List : Kept(e) /\ e.key \in todo'[P]
    BY <1>1 DEF StoreInv, InvLookup, List, Range
<1>4. StoreInv'
    BY <1>1, <1>2, <1>3 DEF StoreInv, InvLookup, InvSet, InvClear, Kept
<1>5. Changing = Store!Idle /\ Changing' = [op |-> "clear", key |-> NULL]
    BY <1>1 DEF Changing, Store!Idle, P
<1>6. LastAnswer' = NULL
    BY <1>1 DEF LastAnswer
<1> QED  BY <1>2, <1>4, <1>5, <1>6, Zenon DEF Store!Clear, Value, Saved, LastAnswer

\* A clear unlinks a file.
LEMMA ClearFileStep ==
    ASSUME FreshInv, FreshInv', Alone, StoreInv, ClearFile(P)
    PROVE  StoreInv' /\ Store!Lose
<1> USE Setting
<1>1. PICK k \in todo[P] : /\ DeleteFile(k)
                           /\ todo' = [todo EXCEPT ![P] = todo[P] \ {k}]
    BY DEF ClearFile
<1>2. /\ pc[P] \in {"clear_own", "clear_dir"} /\ k \in Keys
      /\ UNCHANGED <<pc, arg, entries>> /\ reply' = NULL
    BY DEF ClearFile, NoAnswer
<1>3. files' = [files EXCEPT ![k] = NULL] /\ linked'[P] = TRUE
    BY <1>1, <1>2 DEF DeleteFile, Alone, StoreInv
<1>4. \A j \in Keys : files'[j] = IF j = k THEN NULL ELSE files[j]
    BY <1>2, <1>3
<1>5. List' = List
    BY <1>2 DEF List
<1>6. StoreInv'
    <2>1. CASE pc[P] = "clear_own"
        <3>1. \A e \in List : files'[e.key] # NULL => Kept(e)' /\ e.key \in todo'[P]
            BY <1>1, <1>4, <2>1 DEF Kept, Entry, StoreInv, InvClear
        <3> QED  BY <1>2, <1>3, <1>5, <2>1, <3>1 DEF StoreInv, InvLookup, InvSet, InvClear
    <2>2. CASE pc[P] = "clear_dir"
        <3>1. \A j \in Keys : files'[j] # NULL => j \in todo'[P]
            BY <1>1, <1>4, <2>2 DEF StoreInv, InvClear
        <3> QED  BY <1>2, <1>3, <2>2, <3>1 DEF StoreInv, InvLookup, InvSet, InvClear
    <2> QED  BY <1>2, <2>1, <2>2
<1> DEFINE gone == {k} \ KeysOf(entries[P])
<1>7. ASSUME NEW j \in Keys
      PROVE  /\ Saved'[j] = IF j \in {k} THEN NULL ELSE Saved[j]
             /\ Value'[j] = IF j \in gone THEN NULL ELSE Value[j]
    <2>1. Saved'[j] = IF j \in {k} THEN NULL ELSE Saved[j]
        BY <1>4, Values DEF FileData, Parses
    <2>2. CASE j \in KeysOf(entries[P])
        <3>1. PICK e \in List : e.key = j
            BY <2>2 DEF KeysOf, List
        <3> QED  BY <2>1, <2>2, <3>1, <1>5, Values
    <2>3. CASE j \notin KeysOf(entries[P])
        BY <2>1, <2>3, <1>2, Values
    <2> QED  BY <2>1, <2>2, <2>3
<1>8. /\ Saved' = Store!Without(Saved, {k})
      /\ Value' = Store!Without(Value, gone)
    BY <1>7 DEF Saved, Value, Store!Without
<1>9. Changing.op = "clear" /\ UNCHANGED Changing
    BY <1>2 DEF Changing, P
<1>10. LastAnswer' = NULL
    BY <1>2 DEF LastAnswer
<1>11. {k} \in SUBSET Keys /\ gone \in SUBSET Keys
    BY <1>2
<1> HIDE DEF gone
<1> QED
    BY <1>6, <1>8, <1>9, <1>10, <1>11, Zenon
    DEF Store!Lose, Value, Saved, LastAnswer

\* A clear empties the list and goes on with the directory.
LEMMA ClearListStep ==
    ASSUME FreshInv, FreshInv', Alone, StoreInv, ClearList(P)
    PROVE  StoreInv' /\ Store!Lose
<1> USE Setting
<1>1. /\ pc[P] = "clear_own" /\ pc'[P] = "clear_dir" /\ todo[P] = {}
      /\ entries'[P] = <<>> /\ todo'[P] = Keys
      /\ UNCHANGED <<files, linked>> /\ reply' = NULL
    BY DEF ClearList, Directory, NoAnswer
<1>2. \A e \in List : files[e.key] = NULL
    BY <1>1 DEF StoreInv, InvClear
<1>3. StoreInv'
    BY <1>1 DEF StoreInv, InvLookup, InvSet, InvClear
<1> DEFINE gone == KeysOf(entries[P]) \cap Keys
<1>4. KeysOf(entries'[P]) = {}
    BY <1>1, EmptyListOK
<1>5. ASSUME NEW j \in Keys
      PROVE  /\ Saved'[j] = Saved[j]
             /\ Value'[j] = IF j \in gone THEN NULL ELSE Value[j]
    <2>1. Saved'[j] = Saved[j] /\ Value'[j] = Saved'[j]
        BY <1>1, <1>4, Values
    <2>2. CASE j \in KeysOf(entries[P])
        <3>1. files[j] = NULL
            BY <1>2, <2>2 DEF KeysOf, List
        <3> QED  BY <2>1, <2>2, <3>1, Values DEF FileData, Parses
    <2>3. CASE j \notin KeysOf(entries[P])
        BY <2>1, <2>3, Values
    <2> QED  BY <2>1, <2>2, <2>3
<1>6. /\ Saved' = Store!Without(Saved, {})
      /\ Value' = Store!Without(Value, gone)
    BY <1>5 DEF Saved, Value, Store!Without
<1>7. Changing.op = "clear" /\ UNCHANGED Changing
    BY <1>1 DEF Changing, P
<1>8. LastAnswer' = NULL
    BY <1>1 DEF LastAnswer
<1>9. {} \in SUBSET Keys /\ gone \in SUBSET Keys
    OBVIOUS
<1> HIDE DEF gone
<1> QED
    BY <1>3, <1>6, <1>7, <1>8, <1>9, Zenon
    DEF Store!Lose, Value, Saved, LastAnswer

\* A clear ends with nothing left.
LEMMA ClearDoneStep ==
    ASSUME FreshInv, FreshInv', Alone, StoreInv, ClearDone(P)
    PROVE  StoreInv' /\ Store!Return
<1> USE Setting
<1>1. /\ pc[P] = "clear_dir" /\ pc'[P] = "idle" /\ todo[P] = {}
      /\ UNCHANGED <<files, entries, linked>> /\ reply' = NULL
    BY DEF ClearDone, Return, NoAnswer
<1>2. (\A j \in Keys : files[j] = NULL) /\ entries[P] = <<>>
    BY <1>1 DEF StoreInv, InvClear
<1>3. List = {} /\ List' = {} /\ KeysOf(entries[P]) = {}
    BY <1>1, <1>2, EmptyListOK DEF List
<1>4. StoreInv'
    BY <1>1, <1>3 DEF StoreInv, InvLookup, InvSet, InvClear
<1>5. \A j \in Keys : Value'[j] = NULL /\ Saved'[j] = NULL
    BY <1>1, <1>2, <1>3, Values DEF FileData, Parses
<1>6. Value' = Store!Nothing /\ Saved' = Value'
    BY <1>5 DEF Value, Saved, Store!Nothing
<1>7. Changing.op = "clear" /\ Changing # Store!Idle /\ Changing' = Store!Idle
    <2>1. Changing = [op |-> "clear", key |-> NULL]
        BY <1>1 DEF Changing, P
    <2>2. Changing' = Store!Idle
        BY <1>1 DEF Changing, Store!Idle, P
    <2>3. Changing.op = "clear" /\ Store!Idle.op = "none"
        BY <2>1 DEF Store!Idle
    <2> QED  BY <2>2, <2>3
<1>8. LastAnswer' = NULL
    BY <1>1 DEF LastAnswer
<1>9. Value' = IF Changing.op = "clear" THEN Store!Nothing ELSE Value
    BY <1>6, <1>7
<1> QED
    BY <1>4, <1>6, <1>7, <1>8, <1>9, Zenon
    DEF Store!Return, Value, Saved, LastAnswer

\* The next process has what the files hold.
LEMMA RestartStep ==
    ASSUME FreshInv, FreshInv', Alone, StoreInv, Restart(P)
    PROVE  StoreInv' /\ Store!Restart
<1> USE Setting
<1>1. /\ pc'[P] = "idle" /\ entries'[P] = <<>> /\ linked'[P] = TRUE
      /\ UNCHANGED files /\ reply' = NULL
    BY DEF Restart, Return, NoAnswer
<1>2. List' = {} /\ KeysOf(entries'[P]) = {}
    BY <1>1, EmptyListOK DEF List
<1>3. StoreInv'
    BY <1>1, <1>2 DEF StoreInv, InvLookup, InvSet, InvClear
<1>4. \A j \in Keys : Value'[j] = Saved[j] /\ Saved'[j] = Saved[j]
    BY <1>1, <1>2, Values
<1>5. Value' = Saved /\ Saved' = Saved
    BY <1>4 DEF Value, Saved
<1>6. Changing' = Store!Idle /\ LastAnswer' = NULL
    BY <1>1 DEF Changing, Store!Idle, P, LastAnswer
<1> QED  BY <1>3, <1>5, <1>6, Zenon DEF Store!Restart, Value, Saved, LastAnswer

\* Time changes no value.
LEMMA TickStep ==
    ASSUME FreshInv, FreshInv', Alone, StoreInv, Tick
    PROVE  StoreInv' /\ Store!Wait
<1>1. UNCHANGED <<pc, arg, data, todo, files, entries, linked>> /\ reply' = NULL
    BY DEF Tick, callVars, NoAnswer
<1>2. UNCHANGED <<Value, Saved, List>>
    BY <1>1, SameValues
<1>3. StoreInv'
    BY <1>1, <1>2 DEF StoreInv, InvLookup, InvSet, InvClear, Kept
<1>4. LastAnswer' = NULL /\ UNCHANGED Changing
    BY <1>1 DEF LastAnswer, Changing, P
<1> QED  BY <1>2, <1>3, <1>4, Zenon DEF Store!Wait, Value, Saved, LastAnswer

-----------------------------------------------------------------------------
(***************************************************************************)
(* The refinement.                                                         *)
(***************************************************************************)

\* At first list and directory are empty.
LEMMA StoreInit == Alone /\ Init => StoreInv /\ Store!Init
<1> SUFFICES ASSUME Alone, Init
             PROVE  StoreInv /\ Store!Init
    OBVIOUS
<1>1. P \in Procs /\ List = {}
    BY EmptyListOK DEF Alone, P, List, Init
<1>2. StoreInv
    BY <1>1 DEF Init, StoreInv, InvLookup, InvSet, InvClear
<1>3. ASSUME NEW k \in Keys
      PROVE  Value[k] = NULL /\ Saved[k] = NULL
    <2>1. Find(entries[P], k) = {}
        BY <1>1, FindListOK, EmptyListOK DEF Init
    <2> QED  BY <2>1, ValueFacts DEF Init, Cached, FileData, Parses
<1>4. Value = Store!Nothing /\ Saved = Store!Nothing
    BY <1>3 DEF Value, Saved, Store!Nothing
<1>5. Changing = Store!Idle /\ LastAnswer = NULL
    BY <1>1 DEF Init, Changing, Store!Idle, LastAnswer, P
<1> QED  BY <1>2, <1>4, <1>5, Zenon DEF Store!Init, Value, Saved, LastAnswer

\* StoreInv is inductive, and every step is one of the abstract store or none.
LEMMA StoreStep ==
    ASSUME FreshInv, FreshInv', Alone, StoreInv, [Next]_vars
    PROVE  StoreInv' /\ [Store!Next]_<<Value, Saved, Changing, LastAnswer>>
<1>1. ASSUME NEW k \in Keys, Lookup(P, k)
      PROVE  StoreInv' /\ Store!Next
    <2>1. ~GetUnbacked(P, k)
        <3> SUFFICES ASSUME GetUnbacked(P, k)
                     PROVE  FALSE
            OBVIOUS
        <3>1. PICK i \in Find(entries[P], k) : files[k] = NULL
            BY DEF GetUnbacked
        <3>2. i \in DOMAIN entries[P] /\ entries[P][i].key = k
            BY FindListOK, Setting
        <3>3. Kept(entries[P][i])
            BY <3>2 DEF GetUnbacked, Idle, StoreInv, InvLookup, List, Range
        <3> QED  BY <3>1, <3>2, <3>3 DEF Kept
    <2> QED
        BY <1>1, <2>1, GetExpiredStep, GetHitStep, GetStatStep
        DEF Lookup, Store!Next
<1>2. ASSUME NEW k \in Keys, ClientCacheSet(P, k)
      PROVE  StoreInv' /\ Store!Next
    BY <1>2, SetStep DEF Store!Next
<1>3. CASE ClientCacheClear(P)
    BY <1>3, ClearStep DEF Store!Next
<1>4. CASE Continue(P)
    BY <1>4, OpenStep, WriteFileStep, UnlinkStaleStep, LoadFileStep,
       ClearFileStep, ClearListStep, ClearDoneStep DEF Continue, Store!Next
<1>5. CASE Restart(P)
    BY <1>5, RestartStep DEF Store!Next
<1>6. CASE Tick
    BY <1>6, TickStep DEF Store!Next
<1>7. CASE UNCHANGED vars
    <2>1. UNCHANGED <<pc, arg, data, todo, files, entries, linked, reply>>
        BY <1>7 DEF vars, callVars
    <2>2. UNCHANGED <<Value, Saved, List>>
        BY <2>1, SameValues
    <2>3. StoreInv'
        BY <2>1, <2>2 DEF StoreInv, InvLookup, InvSet, InvClear, Kept
    <2>4. UNCHANGED <<Changing, LastAnswer>>
        BY <2>1 DEF Changing, LastAnswer, P
    <2> QED  BY <2>2, <2>3, <2>4
<1>8. \A p \in Procs : p = P
    BY Setting
<1> QED  BY <1>1, <1>2, <1>3, <1>4, <1>5, <1>6, <1>7, <1>8 DEF Next

\* With one process and no faults client_cache.c is the map that ResponseStore
\* describes, whatever the sizes: what was stored last is what is answered,
\* from the list or from the file, until it is lost from both.
THEOREM CacheImplementsStore ==
    ASSUME Alone
    PROVE  Spec => ImplementsStore
<1>1. Init => StoreInv /\ Store!Init
    BY StoreInit
<1>2. FreshInv /\ FreshInv' /\ StoreInv /\ [Next]_vars
        => StoreInv' /\ [Store!Next]_<<Value, Saved, Changing, LastAnswer>>
    BY StoreStep
<1>3. FreshInv /\ FreshInv' /\ StoreInv /\ [Next]_vars
        => StoreInv' /\ [Store!Next]_Store!vars
    BY <1>2 DEF Value, Saved, LastAnswer, Store!vars
<1> QED
    BY <1>1, <1>3, FreshInvariant, PTL DEF Spec, ImplementsStore, Store!Spec

\* ... and every entry of the list has its file between two calls, so that the
\* stat of client_cache_get never costs a response.
THEOREM ListIsBackedByFiles ==
    ASSUME Alone
    PROVE  Spec => []BackedByFile
<1>1. Init => StoreInv
    BY StoreInit
<1>2. FreshInv /\ FreshInv' /\ StoreInv /\ [Next]_vars => StoreInv'
    BY StoreStep
<1>3. FreshInv /\ StoreInv => BackedByFile
    <2> SUFFICES ASSUME FreshInv, StoreInv, NEW i \in DOMAIN entries[P], pc[P] = "idle"
                 PROVE  files[entries[P][i].key] # NULL
        BY Setting DEF BackedByFile, Idle
    <2> QED  BY DEF StoreInv, InvLookup, Kept, List, Range
<1> QED  BY <1>1, <1>2, <1>3, FreshInvariant, PTL DEF Spec

-----------------------------------------------------------------------------
(***************************************************************************)
(* The age of the files, for one process and whatever fails.               *)
(***************************************************************************)

\* One process at a time, with any faults.
OneProcess == Procs = {TheProcess}

\* The file of an entry was written by the set that made the entry, or was
\* there when the entry was made from it.
AgesOK == \A e \in List :
    files[e.key] # NULL => files[e.key].mtime <= e.created_at + MaxCallTime

\* A set made its entry when it began; a lookup is about to unlink what was
\* too old already.
AgeInv ==
    /\ AgesOK
    /\ pc[P] \in {"open", "write"} =>
          \A e \in List : e.key = arg[P] => e.created_at = began[P]
    /\ pc[P] = "unlink" /\ files[arg[P]] # NULL => now - files[arg[P]].mtime > TTL

\* The variables of the one process.
LEMMA OneSetting ==
    ASSUME FreshInv, OneProcess
    PROVE  /\ P \in Procs /\ Procs = {P} /\ now \in Nat
           /\ files \in [Keys -> File \cup {NULL}]
           /\ entries \in [Procs -> Seq(Entry)] /\ ListOK(entries[P])
           /\ pc \in [Procs -> PCs] /\ arg \in [Procs -> Keys \cup {NULL}]
           /\ began \in [Procs -> Nat]
           /\ \A e \in List : e \in Entry /\ e.created_at \in Nat
           /\ \A k \in Keys : files[k] # NULL =>
                 files[k] \in File /\ files[k].mtime \in Nat /\ files[k].mtime <= now
           /\ TTL \in Nat /\ MaxCallTime \in Nat
<1>1. P \in Procs /\ Procs = {P}
    BY DEF OneProcess, P
<1>2. ListOK(entries[P])
    BY <1>1 DEF FreshInv, ListsOK
<1>3. ASSUME NEW e \in List
      PROVE  e \in Entry /\ e.created_at \in Nat
    <2>1. e \in Entry
        BY <1>2, ElementOfSeq, LenProperties DEF ListOK, List, Range
    <2> QED  BY <2>1 DEF Entry
<1>4. ASSUME NEW k \in Keys, files[k] # NULL
      PROVE  files[k] \in File /\ files[k].mtime \in Nat /\ files[k].mtime <= now
    BY <1>4 DEF FreshInv, TypeInv, TypeOK, FilesOK, File
<1> QED  BY <1>1, <1>2, <1>3, <1>4, SizesAssumption DEF FreshInv, TypeInv, TypeOK

\* Entries and files that go take nothing from what holds of the others.
LEMMA AgesKept ==
    ASSUME FreshInv, OneProcess, AgesOK, FreshInv',
           \A k \in Keys : files'[k] \in {files[k], NULL},
           \A e \in List' :
              e \in List \/ (e \in Entry /\ e.created_at = now)
    PROVE  AgesOK'
<1> SUFFICES ASSUME NEW e \in List', files'[e.key] # NULL
             PROVE  files'[e.key].mtime <= e.created_at + MaxCallTime
    BY DEF AgesOK
<1>1. e \in Entry /\ e.key \in Keys
    BY OneSetting DEF Entry
<1>2. files'[e.key] = files[e.key]
    BY <1>1
<1>3. CASE e \in List
    BY <1>2, <1>3 DEF AgesOK
<1>4. CASE e.created_at = now
    BY <1>1, <1>2, <1>4, OneSetting
<1> QED  BY <1>3, <1>4

\* A file written by the set in progress is the file of the entry it made.
LEMMA AgesWritten ==
    ASSUME FreshInv, OneProcess, AgeInv, FreshInv', pc[P] \in {"open", "write"},
           NEW d, files' = [files EXCEPT ![arg[P]] = [data |-> d, mtime |-> now]],
           UNCHANGED entries
    PROVE  AgesOK'
<1> SUFFICES ASSUME NEW e \in List, files'[e.key] # NULL
             PROVE  files'[e.key].mtime <= e.created_at + MaxCallTime
    BY DEF AgesOK, List, P
<1>1. e.key \in Keys /\ e.created_at \in Nat
    BY OneSetting DEF Entry
<1>2. arg[P] \in Keys /\ began[P] \in Nat /\ now - began[P] <= MaxCallTime
    BY OneSetting DEF FreshInv, TypeInv, CallsOK, CallOK
<1>3. CASE e.key = arg[P]
    <2>1. e.created_at = began[P]
        BY <1>3 DEF AgeInv
    <2>2. files'[e.key].mtime = now
        BY <1>2, <1>3, OneSetting
    <2> QED  BY <1>2, <2>1, <2>2, OneSetting
<1>4. CASE e.key # arg[P]
    <2>1. files'[e.key] = files[e.key]
        BY <1>1, <1>4, OneSetting
    <2> QED  BY <2>1 DEF AgeInv, AgesOK
<1> QED  BY <1>3, <1>4

\* What a set leaves in the list.
LEMMA SetList ==
    ASSUME FreshInv, OneProcess, NEW k \in Keys, ClientCacheSet(P, k)
    PROVE  \A e \in List' :
              \/ e \in List /\ e.key # k
              \/ e \in Entry /\ e.key = k /\ e.created_at = now
<1> DEFINE room == Evicted(Without(entries[P], k))
           d == [key |-> k, id |-> stored + 1, born |-> now]
           e == [key |-> k, data |-> d, created_at |-> now]
<1>1. ListOK(room) /\ Range(room) \subseteq List /\ k \notin KeysOf(room)
    BY OneSetting, EvictedListOK DEF List
<1>2. \/ entries'[P] = Append(room, e)
      \/ entries'[P] = room
    BY OneSetting DEF ClientCacheSet, AddEntry
<1>3. e \in Entry /\ e.key = k /\ e.created_at = now
    BY OneSetting DEF FreshInv, TypeInv, TypeOK, Entry, Response
<1>4. \A f \in Range(room) : f.created_at <= now
    BY <1>1, OneSetting DEF FreshInv, EntriesOK, EntryOK, List
<1>5. \A f \in Range(room) : f.key # k
    BY <1>1 DEF KeysOf
<1> HIDE DEF room, e
<1>6. Range(Append(room, e)) = Range(room) \cup {e}
    BY <1>1, <1>3, <1>4, AppendListOK
<1>7. List' = Range(entries'[P])
    BY DEF List, P
<1> QED  BY <1>1, <1>2, <1>3, <1>5, <1>6, <1>7

\* The invariant is inductive.
LEMMA AgeStep ==
    ASSUME FreshInv, FreshInv', OneProcess, AgeInv, [Next]_vars
    PROVE  AgeInv'
<1> USE OneSetting
<1>0. AgesOK /\ List' = Range(entries'[P]) /\ P' = P
    BY DEF AgeInv, List, P
<1>1. ASSUME NEW k, DeleteFile(k)
      PROVE  \A j \in Keys : files'[j] \in {files[j], NULL}
    BY <1>1 DEF DeleteFile
<1>2. ASSUME NEW k \in Keys, ClientCacheSet(P, k)
      PROVE  AgeInv'
    <2>1. \A j \in Keys : files'[j] \in {files[j], NULL}
        BY <1>1, <1>2 DEF ClientCacheSet
    <2>2. AgesOK'
        BY <1>0, <1>2, <2>1, SetList, AgesKept
    <2>3. \/ pc'[P] = "open" /\ arg'[P] = k /\ began'[P] = now
          \/ pc'[P] = "idle"
        BY <1>2 DEF ClientCacheSet, Start, Idle, callVars
    <2> QED  BY <1>0, <1>2, <2>2, <2>3, SetList DEF AgeInv
<1>3. ASSUME NEW k \in Keys, GetExpired(P, k) \/ GetUnbacked(P, k)
      PROVE  AgeInv'
    <2>1. PICK i \in Find(entries[P], k) : entries'[P] = RemoveAt(entries[P], i)
        BY <1>3 DEF GetExpired, GetUnbacked
    <2>2. \A e \in List' : e \in List
        BY <1>0, <2>1, FindListOK, RemoveAtListOK DEF List
    <2>3. \A j \in Keys : files'[j] \in {files[j], NULL}
        BY <1>1, <1>3 DEF GetExpired, GetUnbacked
    <2>4. pc'[P] = "idle"
        BY <1>3 DEF GetExpired, GetUnbacked, Idle, callVars
    <2> QED  BY <1>0, <2>2, <2>3, <2>4, AgesKept DEF AgeInv
<1>4. ASSUME NEW k \in Keys, GetHit(P, k) \/ GetStat(P, k)
      PROVE  AgeInv'
    <2>1. AgesOK'
        BY <1>0, <1>4 DEF GetHit, GetStat, AgesOK, List
    <2>2. \/ pc'[P] \in {"idle", "load"}
          \/ /\ pc'[P] = "unlink" /\ arg'[P] = k /\ now' = now /\ files' = files
             /\ ~IsCacheFileValid(files[k])
        BY <1>4 DEF GetHit, GetStat, Start, Idle, callVars
    <2>3. ~IsCacheFileValid(files[k]) /\ files[k] # NULL => now - files[k].mtime > TTL
        BY DEF IsCacheFileValid
    <2> QED  BY <1>0, <2>1, <2>2, <2>3 DEF AgeInv
<1>5. CASE OpenCacheFile(P)
    <2>1. AgesOK'
        <3>1. CASE UNCHANGED files
            BY <1>0, <1>5, <3>1 DEF OpenCacheFile, AgesOK, List
        <3>2. CASE files' = [files EXCEPT ![arg[P]] = [data |-> Empty, mtime |-> now]]
            BY <1>5, <3>2, AgesWritten DEF OpenCacheFile
        <3> QED  BY <1>5, <3>1, <3>2 DEF OpenCacheFile
    <2>2. CASE pc'[P] = "idle"
        BY <1>0, <2>1, <2>2 DEF AgeInv
    <2>3. CASE /\ pc[P] = "open" /\ pc'[P] = "write"
               /\ UNCHANGED <<arg, began, entries>>
        <3>1. List' = List
            BY <2>3 DEF List, P
        <3> QED  BY <1>0, <2>1, <2>3, <3>1 DEF AgeInv
    <2> QED  BY <1>5, <2>2, <2>3 DEF OpenCacheFile, Goto, Return
<1>6. CASE WriteCacheFile(P)
    <2>1. AgesOK'
        <3>1. CASE UNCHANGED files
            BY <1>0, <1>6, <3>1 DEF WriteCacheFile, AgesOK, List
        <3>2. CASE ~UNCHANGED files
            <4>1. PICK d : files' = [files EXCEPT ![arg[P]] = [data |-> d, mtime |-> now]]
                BY <1>6, <3>2 DEF WriteCacheFile
            <4> QED  BY <1>6, <4>1, AgesWritten DEF WriteCacheFile
        <3> QED  BY <3>1, <3>2
    <2>2. pc'[P] = "idle"
        BY <1>6 DEF WriteCacheFile, Return
    <2> QED  BY <1>0, <2>1, <2>2 DEF AgeInv
<1>7. CASE UnlinkStale(P)
    <2>1. /\ pc'[P] = "idle" /\ entries' = entries
          /\ \A j \in Keys : files'[j] \in {files[j], NULL}
        BY <1>1, <1>7 DEF UnlinkStale, Return
    <2> QED  BY <1>0, <2>1, AgesKept DEF AgeInv, List
<1>8. CASE LoadFile(P)
    <2>1. pc'[P] = "idle" /\ files' = files
        BY <1>8 DEF LoadFile, Return
    <2>2. \A e \in List' : e \in List \/ (e \in Entry /\ e.created_at = now)
        <3>1. CASE entries' = entries
            BY <1>0, <3>1 DEF List
        <3>2. CASE entries' # entries
            <4> DEFINE d == files[arg[P]].data
                       e == [key |-> d.key, data |-> d, created_at |-> now]
            <4>1. entries'[P] = Append(entries[P], e) /\ d \in Response
                BY <1>8, <3>2 DEF LoadFile, AddEntry, FreshInv, TypeInv, CallsOK,
                   CallOK, Parses, File
            <4>2. e \in Entry /\ e.created_at = now
                BY <4>1 DEF Entry, Response
            <4> HIDE DEF e
            <4>3. \A f \in Range(Append(entries[P], e)) : f \in Range(entries[P]) \/ f = e
                <5>1. entries[P] \in Seq(Entry)
                    OBVIOUS
                <5> QED  BY <4>2, <5>1, LenProperties, AppendProperties DEF Range
            <4> QED  BY <1>0, <4>1, <4>2, <4>3 DEF List
        <3> QED  BY <3>1, <3>2
    <2> QED  BY <1>0, <2>1, <2>2, AgesKept DEF AgeInv
<1>9. CASE ClientCacheClear(P) \/ ClearFile(P) \/ ClearList(P) \/ ClearDone(P)
              \/ Restart(P)
    <2>1. pc'[P] \in {"idle", "clear_own", "clear_dir"}
        BY <1>9 DEF ClientCacheClear, ClearFile, ClearList, ClearDone, Restart, Return
    <2>2. \A j \in Keys : files'[j] \in {files[j], NULL}
        BY <1>1, <1>9 DEF ClientCacheClear, ClearFile, ClearList, ClearDone, Restart
    <2>3. entries'[P] = <<>> \/ entries' = entries
        BY <1>9 DEF ClientCacheClear, ClearFile, ClearList, ClearDone, Restart
    <2>4. \A e \in List' : e \in List
        BY <1>0, <2>3, EmptyListOK DEF List
    <2> QED  BY <1>0, <2>1, <2>2, <2>4, AgesKept DEF AgeInv
<1>10. CASE Tick \/ UNCHANGED vars
    <2>1. /\ UNCHANGED <<files, entries, pc, arg, began>> /\ now' \in {now, now + 1}
        BY <1>10 DEF Tick, vars, callVars
    <2>2. pc[P] = "unlink" => arg[P] \in Keys
        BY DEF FreshInv, TypeInv, CallsOK, CallOK
    <2> QED  BY <1>0, <2>1, <2>2 DEF AgeInv, AgesOK, List
<1>11. \A p \in Procs : p = P
    OBVIOUS
<1> QED
    BY <1>2, <1>3, <1>4, <1>5, <1>6, <1>7, <1>8, <1>9, <1>10, <1>11
       DEF Next, Lookup, Continue

\* With one process a lookup unlinks no file that is still within its time to
\* live, up to the duration of the call that wrote it, whatever fails: an
\* entry that is too old never takes a fresher file along.
THEOREM LookupsKeepValidFiles ==
    ASSUME OneProcess
    PROVE  Spec => LookupKeepsValidFiles
<1>1. Init => AgeInv
    <2> SUFFICES ASSUME Init
                 PROVE  AgeInv
        OBVIOUS
    <2>1. P \in Procs
        BY DEF OneProcess, P
    <2>2. List = {}
        BY <2>1, EmptyListOK DEF Init, List
    <2> QED  BY <2>1, <2>2 DEF Init, AgeInv, AgesOK
<1>2. FreshInv /\ FreshInv' /\ AgeInv /\ [Next]_vars => AgeInv'
    BY AgeStep
<1>3. FreshInv /\ AgeInv /\ [Next]_vars =>
        [reply' # NULL =>
            \A k \in Keys :
                files[k] # NULL /\ now - files[k].mtime <= TTL - MaxCallTime =>
                    files'[k] = files[k]]_vars
    <2> SUFFICES ASSUME FreshInv, AgeInv, Next, reply' # NULL, NEW k \in Keys,
                        files[k] # NULL, now - files[k].mtime <= TTL - MaxCallTime
                 PROVE  files'[k] = files[k]
        OBVIOUS
    <2> USE OneSetting
    <2>1. ASSUME NEW j \in Keys, GetExpired(P, j)
          PROVE  files'[k] = files[k]
        <3>1. PICK i \in Find(entries[P], j) : Expired(entries[P][i])
            BY <2>1 DEF GetExpired
        <3>2. entries[P][i] \in List /\ entries[P][i].key = j
            BY <3>1, FindListOK DEF List, Range
        <3>3. CASE j = k
            <4>1. files[k].mtime <= entries[P][i].created_at + MaxCallTime
                BY <3>2, <3>3 DEF AgeInv, AgesOK
            <4>2. now - entries[P][i].created_at > TTL
                BY <3>1 DEF Expired
            <4> QED  BY <3>2, <4>1, <4>2
        <3>4. CASE j # k
            BY <2>1, <3>4 DEF GetExpired, DeleteFile
        <3> QED  BY <3>3, <3>4
    <2>2. ASSUME NEW j \in Keys, GetUnbacked(P, j) \/ GetHit(P, j) \/ GetStat(P, j)
          PROVE  files'[k] = files[k]
        BY <2>2 DEF GetUnbacked, GetHit, GetStat
    <2>3. CASE UnlinkStale(P)
        <3>1. CASE arg[P] = k
            <4>1. now - files[k].mtime > TTL
                BY <2>3, <3>1 DEF UnlinkStale, AgeInv
            <4> QED  BY <4>1
        <3>2. CASE arg[P] # k
            BY <2>3, <3>2 DEF UnlinkStale, DeleteFile
        <3> QED  BY <3>1, <3>2
    <2>4. CASE LoadFile(P)
        BY <2>4 DEF LoadFile
    <2>5. \A p \in Procs : p = P
        OBVIOUS
    <2>6. ~(Tick \/ OpenCacheFile(P) \/ WriteCacheFile(P) \/ ClearFile(P)
              \/ ClearList(P) \/ ClearDone(P) \/ ClientCacheClear(P) \/ Restart(P))
        BY DEF Tick, OpenCacheFile, WriteCacheFile, ClearFile, ClearList, ClearDone,
               ClientCacheClear, Restart, NoAnswer
    <2>7. ~(\E j \in Keys : ClientCacheSet(P, j))
        BY DEF ClientCacheSet, NoAnswer
    <2> QED
        BY <2>1, <2>2, <2>3, <2>4, <2>5, <2>6, <2>7 DEF Next, Lookup, Continue
<1> QED
    BY <1>1, <1>2, <1>3, FreshInvariant, PTL DEF Spec, LookupKeepsValidFiles
===============================================================================
