-------------------------- MODULE ClientCacheProofs --------------------------
(***************************************************************************)
(* Proofs about ClientCache, for any number of processes, keys and seconds.*)
(*                                                                         *)
(* FreshInv is inductive: it adds to the types what a call in progress     *)
(* knows, that each list is well formed, and how old what is in a list or  *)
(* in a file may be.  ClearInv is inductive relative to it, and follows    *)
(* the serial numbers of the responses.                                    *)
(***************************************************************************)
EXTENDS ClientCache, ListLemmas, TLAPS

-----------------------------------------------------------------------------
(***************************************************************************)
(* The inductive invariant.                                                *)
(***************************************************************************)

\* The call of p has what its next system call needs, and has not lasted
\* longer than MaxCallTime.
CallOK(p) ==
    /\ pc[p] \in {"open", "write", "unlink", "load"} => arg[p] \in Keys
    /\ pc[p] \in {"open", "write"} =>
          /\ data[p] \in Response
          /\ data[p].key = arg[p]
          /\ data[p].born = began[p]
    /\ pc[p] # "idle" => began[p] <= now /\ now - began[p] <= MaxCallTime

CallsOK == \A p \in Procs : CallOK(p)

\* The types, and what the calls in progress need.
TypeInv == TypeOK /\ CallsOK

\* A list of entries, each key once, in the order of creation.
ListOK(s) ==
    /\ s \in Seq(Entry)
    /\ \A i, j \in DOMAIN s : s[i].key = s[j].key => i = j
    /\ \A i, j \in DOMAIN s : i < j => s[i].created_at <= s[j].created_at

\* The keys of a list.
KeysOf(s) == {e.key : e \in Range(s)}

\* Every process has a well formed list.
ListsOK ==
    /\ entries \in [Procs -> Seq(Entry)]
    /\ \A p \in Procs : ListOK(entries[p])

\* An entry holds a response to its key, was created in the past, and at an
\* age at which its file could still be loaded.
EntryOK(e) ==
    /\ e.data.key = e.key
    /\ e.created_at <= now
    /\ e.created_at - e.data.born <= TTL + 2 * MaxCallTime

EntriesOK == \A p \in Procs : \A e \in Range(entries[p]) : EntryOK(e)

\* A file holds a response to its key, written by the call that stored it.
FilesOK ==
    \A k \in Keys :
        files[k] # NULL =>
            /\ files[k].mtime <= now
            /\ files[k].data \in Response =>
                  /\ files[k].data.key = k
                  /\ files[k].mtime - files[k].data.born <= MaxCallTime

\* A lookup about to read the file found no entry, and found the file within
\* its time to live; what took the file's place since is only younger.
LoadsOK ==
    \A p \in Procs :
        pc[p] = "load" =>
            /\ Find(entries[p], arg[p]) = {}
            /\ files[arg[p]] # NULL => began[p] - files[arg[p]].mtime <= TTL

\* The inductive invariant behind the types, the lists and the ages.
FreshInv ==
    /\ TypeInv
    /\ ListsOK
    /\ EntriesOK
    /\ FilesOK
    /\ LoadsOK
    /\ BoundedStaleness

\* Every serial number in a file, a list, a call or a set of condemned or
\* barred ones is that of a response already stored.
SerialsOK ==
    /\ \A k \in Keys : files[k] # NULL /\ files[k].data \in Response =>
          files[k].data.id \in 1..stored
    /\ \A p \in Procs : \A e \in Range(entries[p]) : e.data.id \in 1..stored
    /\ \A p \in Procs :
          pc[p] \in {"open", "write"} => data[p].id \in 1..stored
    /\ \A p \in Procs : condemned[p] \cup barred[p] \subseteq 1..stored

\* No call will write what a clear condemned or barred; no file and no list
\* of the process holds a barred response; a clear that reads the directory
\* has an empty list and leaves nothing condemned behind it.
SweepOK ==
    /\ \A p, q \in Procs : pc[p] \in {"open", "write"} =>
          data[p].id \notin condemned[q] \cup barred[q]
    /\ \A p \in Procs : \A k \in Keys :
          files[k] # NULL /\ files[k].data \in Response =>
              /\ files[k].data.id \notin barred[p]
              /\ pc[p] = "clear_dir" /\ k \notin todo[p] =>
                    files[k].data.id \notin condemned[p]
    /\ \A p \in Procs : \A e \in Range(entries[p]) : e.data.id \notin barred[p]
    /\ \A p \in Procs : pc[p] = "clear_dir" => entries[p] = <<>>
    /\ \A p \in Procs :
          pc[p] \notin {"clear_own", "clear_dir"} => condemned[p] = {}

\* The inductive invariant behind the finality of clear.
ClearInv == SerialsOK /\ SweepOK /\ ClearIsFinal

-----------------------------------------------------------------------------
(***************************************************************************)
(* The list operations keep a list well formed.                            *)
(***************************************************************************)

\* Removing an entry keeps the list well formed and its key is gone.
LEMMA RemoveAtListOK ==
    ASSUME NEW s, ListOK(s), NEW n \in DOMAIN s
    PROVE  /\ ListOK(RemoveAt(s, n))
           /\ Range(RemoveAt(s, n)) \subseteq Range(s)
           /\ s[n].key \notin KeysOf(RemoveAt(s, n))
           /\ Len(RemoveAt(s, n)) = Len(s) - 1
<1> DEFINE r == RemoveAt(s, n)
           at(i) == IF i < n THEN i ELSE i + 1
<1>1. s \in Seq(Entry) /\ DOMAIN s = 1..Len(s) /\ Len(s) \in Nat
    BY LenProperties DEF ListOK
<1>2. /\ r \in Seq(Entry)
      /\ Len(r) = Len(s) - 1
      /\ DOMAIN r = 1..(Len(s) - 1)
      /\ \A i \in 1..(Len(s) - 1) : r[i] = IF i < n THEN s[i] ELSE s[i + 1]
    BY <1>1, RemoveAtProperties
<1> HIDE DEF r
<1>3. \A i \in DOMAIN r : at(i) \in DOMAIN s /\ at(i) # n /\ r[i] = s[at(i)]
    <2> TAKE i \in DOMAIN r
    <2>1. CASE i < n
        BY <2>1, <1>1, <1>2
    <2>2. CASE ~(i < n)
        BY <2>2, <1>1, <1>2
    <2> QED  BY <2>1, <2>2
<1>4. \A i, j \in DOMAIN r : (at(i) = at(j) => i = j) /\ (i < j => at(i) < at(j))
    BY <1>1, <1>2
<1> HIDE DEF at
<1>5. \A i, j \in DOMAIN r : r[i].key = r[j].key => i = j
    BY <1>3, <1>4 DEF ListOK
<1>6. \A i, j \in DOMAIN r : i < j => r[i].created_at <= r[j].created_at
    BY <1>3, <1>4 DEF ListOK
<1>7. Range(r) \subseteq Range(s)
    BY <1>3 DEF Range
<1>8. s[n].key \notin KeysOf(r)
    BY <1>3 DEF KeysOf, Range, ListOK
<1> QED  BY <1>2, <1>5, <1>6, <1>7, <1>8 DEF ListOK, r

\* Appending the youngest entry, of a key not listed, keeps it well formed.
LEMMA AppendListOK ==
    ASSUME NEW s, ListOK(s), NEW e \in Entry, e.key \notin KeysOf(s),
           \A f \in Range(s) : f.created_at <= e.created_at
    PROVE  /\ ListOK(Append(s, e))
           /\ Range(Append(s, e)) = Range(s) \cup {e}
<1> DEFINE a == Append(s, e)
<1>1. s \in Seq(Entry) /\ DOMAIN s = 1..Len(s) /\ Len(s) \in Nat
    BY LenProperties DEF ListOK
<1>2. /\ a \in Seq(Entry)
      /\ DOMAIN a = 1..(Len(s) + 1)
      /\ \A i \in DOMAIN s : a[i] = s[i]
      /\ a[Len(s) + 1] = e
    BY <1>1
<1> HIDE DEF a
<1>3. \A i \in DOMAIN a : i = Len(s) + 1 \/ i \in DOMAIN s
    BY <1>1, <1>2
<1>4. \A i \in DOMAIN s : s[i] \in Range(s) /\ s[i].key # e.key
    BY DEF Range, KeysOf
<1>5. \A i, j \in DOMAIN a : a[i].key = a[j].key => i = j
    BY <1>2, <1>3, <1>4 DEF ListOK
<1>6. \A i, j \in DOMAIN a : i < j => a[i].created_at <= a[j].created_at
    <2> SUFFICES ASSUME NEW i \in DOMAIN a, NEW j \in DOMAIN a, i < j
                 PROVE  a[i].created_at <= a[j].created_at
        OBVIOUS
    <2>1. i \in DOMAIN s
        BY <1>1, <1>2
    <2>2. CASE j \in DOMAIN s
        BY <2>1, <2>2, <1>2 DEF ListOK
    <2>3. CASE j = Len(s) + 1
        BY <2>1, <2>3, <1>2, <1>4
    <2> QED  BY <2>2, <2>3, <1>3
<1>7. Range(a) = Range(s) \cup {e}
    <2>1. Range(a) \subseteq Range(s) \cup {e}
        BY <1>2, <1>3 DEF Range
    <2>2. Len(s) + 1 \in DOMAIN a /\ DOMAIN s \subseteq DOMAIN a
        BY <1>1, <1>2
    <2>3. Range(s) \cup {e} \subseteq Range(a)
        BY <1>2, <2>2 DEF Range
    <2> QED  BY <2>1, <2>3
<1> QED  BY <1>2, <1>5, <1>6, <1>7 DEF ListOK, a

\* In a well formed list a scan for a key finds it when it is there.
LEMMA FindListOK ==
    ASSUME NEW s, ListOK(s), NEW k
    PROVE  /\ Find(s, k) = {} <=> k \notin KeysOf(s)
           /\ \A i \in Find(s, k) : i \in DOMAIN s /\ s[i].key = k
<1>1. DOMAIN s = 1..Len(s) /\ Len(s) \in Nat
    BY LenProperties DEF ListOK
<1>2. ASSUME NEW i \in DOMAIN s, s[i].key = k
      PROVE  i \in Find(s, k)
    <2>1. \A j \in 1..(i - 1) : j \in DOMAIN s /\ j # i
        BY <1>1
    <2> QED  BY <1>2, <2>1 DEF Find, ListOK
<1>3. \A i \in Find(s, k) : i \in DOMAIN s /\ s[i].key = k
    BY DEF Find
<1> QED  BY <1>2, <1>3 DEF KeysOf, Range

\* The list that client_cache_set searches after the removal of its key.
LEMMA WithoutListOK ==
    ASSUME NEW s, ListOK(s), NEW k
    PROVE  /\ ListOK(Without(s, k))
           /\ Range(Without(s, k)) \subseteq Range(s)
           /\ k \notin KeysOf(Without(s, k))
<1>1. CASE Find(s, k) = {}
    BY <1>1, FindListOK DEF Without
<1>2. CASE Find(s, k) # {}
    <2> DEFINE i == CHOOSE n \in Find(s, k) : TRUE
    <2>1. i \in Find(s, k)
        BY <1>2
    <2> HIDE DEF i
    <2>2. i \in DOMAIN s /\ s[i].key = k
        BY <2>1, FindListOK
    <2>3. Without(s, k) = RemoveAt(s, i)
        BY <1>2 DEF Without, i
    <2> QED  BY <2>2, <2>3, RemoveAtListOK
<1> QED  BY <1>1, <1>2

\* The oldest entry of a well formed list that is not empty is in the list.
LEMMA OldestListOK ==
    ASSUME NEW s, ListOK(s), Len(s) > 0
    PROVE  Oldest(s) \in DOMAIN s
<1>1. /\ DOMAIN s = 1..Len(s) /\ Len(s) \in Nat
      /\ \A j \in DOMAIN s : s[j] \in Entry
    BY LenProperties, ElementOfSeq DEF ListOK
<1>2. 1 \in DOMAIN s
    BY <1>1
<1>3. \A j \in DOMAIN s : s[1].created_at <= s[j].created_at
    <2> TAKE j \in DOMAIN s
    <2>1. CASE j = 1
        BY <2>1, <1>1 DEF Entry
    <2>2. CASE 1 < j
        BY <2>2, <1>2 DEF ListOK
    <2> QED  BY <2>1, <2>2, <1>1
<1>4. \A j \in 1..(1 - 1) : s[1].created_at < s[j].created_at
    OBVIOUS
<1> QED  BY <1>2, <1>3, <1>4 DEF Oldest

\* What client_cache_set makes of the list before it appends.
LEMMA EvictedListOK ==
    ASSUME NEW s, ListOK(s), NEW k
    PROVE  LET kept == Without(s, k)
           IN  /\ ListOK(Evicted(kept))
               /\ Range(Evicted(kept)) \subseteq Range(s)
               /\ k \notin KeysOf(Evicted(kept))
               /\ Full(kept) => kept[Oldest(kept)].key \in Keys
<1> DEFINE kept == Without(s, k)
<1>1. ListOK(kept) /\ Range(kept) \subseteq Range(s) /\ k \notin KeysOf(kept)
    BY WithoutListOK
<1> HIDE DEF kept
<1>2. CASE Full(kept)
    <2>1. Len(kept) \in Nat
        BY <1>1, LenProperties DEF ListOK
    <2>2. Len(kept) > 0
        BY <1>2, <2>1, SizesAssumption DEF Full
    <2>3. Oldest(kept) \in DOMAIN kept
        BY <1>1, <2>2, OldestListOK
    <2>4. Evicted(kept) = RemoveAt(kept, Oldest(kept))
        BY <1>2 DEF Evicted
    <2>5. /\ ListOK(Evicted(kept))
          /\ Range(Evicted(kept)) \subseteq Range(kept)
        BY <1>1, <2>3, <2>4, RemoveAtListOK
    <2>6. kept[Oldest(kept)] \in Entry
        BY <1>1, <2>3, LenProperties, ElementOfSeq DEF ListOK
    <2>7. k \notin KeysOf(Evicted(kept))
        BY <1>1, <2>5 DEF KeysOf
    <2> QED  BY <1>1, <2>5, <2>6, <2>7 DEF Entry, kept
<1>3. CASE ~Full(kept)
    BY <1>1, <1>3 DEF Evicted, kept
<1> QED  BY <1>2, <1>3

\* A list just created or cleared is well formed.
LEMMA EmptyListOK == ListOK(<<>>) /\ Range(<<>>) = {} /\ KeysOf(<<>>) = {}
<1>1. <<>> \in Seq(Entry) /\ DOMAIN <<>> = {}
    BY EmptySeq, LenProperties
<1>2. Range(<<>>) = {}
    BY <1>1 DEF Range
<1> QED  BY <1>1, <1>2 DEF ListOK, KeysOf

-----------------------------------------------------------------------------
(***************************************************************************)
(* The steps preserve the invariant, one lemma per part of it.             *)
(***************************************************************************)

\* A step that gives p the list s and lets no time pass.
LEMMA ListChange ==
    ASSUME FreshInv, NEW p \in Procs, NEW s, ListOK(s),
           entries' = [entries EXCEPT ![p] = s], UNCHANGED now,
           \A e \in Range(s) : EntryOK(e)
    PROVE  ListsOK' /\ EntriesOK'
<1>1. entries'[p] = s /\ \A q \in Procs : q # p => entries'[q] = entries[q]
    BY DEF FreshInv, TypeInv, TypeOK
<1>2. ListsOK'
    BY <1>1 DEF FreshInv, ListsOK, ListOK
<1>3. EntriesOK'
    <2> SUFFICES ASSUME NEW q \in Procs, NEW e \in Range(entries'[q])
                 PROVE  EntryOK(e)'
        BY DEF EntriesOK
    <2>1. EntryOK(e)
        BY <1>1 DEF FreshInv, EntriesOK
    <2> QED  BY <2>1 DEF EntryOK
<1> QED  BY <1>2, <1>3

\* Every step leaves each list well formed, with entries young enough.
LEMMA ListsStep ==
    ASSUME FreshInv, [Next]_vars
    PROVE  ListsOK' /\ EntriesOK'
<1> USE DEF FreshInv, TypeInv, TypeOK
<1>1. ASSUME NEW p \in Procs, NEW k \in Keys, ClientCacheSet(p, k)
      PROVE  ListsOK' /\ EntriesOK'
    <2> DEFINE room == Evicted(Without(entries[p], k))
               d == [key |-> k, id |-> stored + 1, born |-> now]
               e == [key |-> k, data |-> d, created_at |-> now]
    <2>1. ListOK(entries[p]) /\ \A f \in Range(entries[p]) : EntryOK(f)
        BY DEF ListsOK, EntriesOK
    <2>2. /\ ListOK(room)
          /\ Range(room) \subseteq Range(entries[p])
          /\ k \notin KeysOf(room)
        BY <2>1, EvictedListOK
    <2>3. d \in Response /\ e \in Entry /\ EntryOK(e)
        BY SizesAssumption DEF Response, Entry, EntryOK
    <2>4. AddEntry(room, d) = Append(room, e)
        BY DEF AddEntry
    <2>5. UNCHANGED now
        BY <1>1 DEF ClientCacheSet
    <2>6. \/ entries' = [entries EXCEPT ![p] = Append(room, e)]
          \/ entries' = [entries EXCEPT ![p] = room]
        BY <1>1, <2>4 DEF ClientCacheSet
    <2> HIDE DEF room
    <2>7. /\ ListOK(Append(room, e))
          /\ Range(Append(room, e)) = Range(room) \cup {e}
        <3>1. \A f \in Range(room) : f.created_at <= e.created_at
            BY <2>1, <2>2 DEF EntryOK
        <3>2. e.key \notin KeysOf(room)
            BY <2>2
        <3> HIDE DEF e
        <3> QED  BY <2>2, <2>3, <3>1, <3>2, AppendListOK
    <2> HIDE DEF e
    <2>8. /\ \A f \in Range(room) : EntryOK(f)
          /\ \A f \in Range(Append(room, e)) : EntryOK(f)
        BY <2>1, <2>2, <2>3, <2>7
    <2> QED  BY <2>2, <2>5, <2>6, <2>7, <2>8, ListChange
<1>2. ASSUME NEW p \in Procs, NEW k \in Keys,
             GetExpired(p, k) \/ GetUnbacked(p, k)
      PROVE  ListsOK' /\ EntriesOK'
    <2>1. PICK i \in Find(entries[p], k) :
              entries' = [entries EXCEPT ![p] = RemoveAt(entries[p], i)]
        BY <1>2 DEF GetExpired, GetUnbacked
    <2>2. ListOK(entries[p]) /\ \A e \in Range(entries[p]) : EntryOK(e)
        BY DEF ListsOK, EntriesOK
    <2>3. i \in DOMAIN entries[p]
        BY <2>2, FindListOK
    <2>4. /\ ListOK(RemoveAt(entries[p], i))
          /\ Range(RemoveAt(entries[p], i)) \subseteq Range(entries[p])
        BY <2>2, <2>3, RemoveAtListOK
    <2>5. UNCHANGED now
        BY <1>2 DEF GetExpired, GetUnbacked
    <2> QED  BY <2>1, <2>2, <2>4, <2>5, ListChange
<1>3. ASSUME NEW p \in Procs, LoadFile(p)
      PROVE  ListsOK' /\ EntriesOK'
    <2> DEFINE f == files[arg[p]]
               e == [key |-> f.data.key, data |-> f.data, created_at |-> now]
    <2>1. UNCHANGED now /\ pc[p] = "load"
        BY <1>3 DEF LoadFile
    <2>2. CASE UNCHANGED entries
        BY <2>1, <2>2 DEF ListsOK, EntriesOK, EntryOK, ListOK
    <2>3. CASE Parses(f) /\ entries' = [entries EXCEPT ![p] = AddEntry(@, f.data)]
        <3>1. arg[p] \in Keys /\ f \in File /\ f.data \in Response
            BY <2>1, <2>3 DEF CallsOK, CallOK, Parses, File
        <3>2. f.data.key = arg[p]
            BY <2>1, <2>3, <3>1 DEF FilesOK, Parses
        <3>3. /\ f.mtime \in Nat /\ f.data.born \in Nat /\ began[p] \in Nat
              /\ now \in Nat /\ TTL \in Nat /\ MaxCallTime \in Nat
            BY <3>1, SizesAssumption DEF File, Response
        <3>4. /\ f.mtime - f.data.born <= MaxCallTime
              /\ began[p] - f.mtime <= TTL
              /\ now - began[p] <= MaxCallTime
            BY <2>1, <2>3, <3>1 DEF FilesOK, LoadsOK, CallsOK, CallOK, Parses
        <3>5. now - f.data.born <= TTL + 2 * MaxCallTime
            BY ONLY <3>3, <3>4
        <3>6. e \in Entry /\ EntryOK(e)
            BY <3>1, <3>2, <3>5 DEF Entry, Response, EntryOK
        <3>7. ListOK(entries[p]) /\ \A g \in Range(entries[p]) : EntryOK(g)
            BY DEF ListsOK, EntriesOK
        <3>8. arg[p] \notin KeysOf(entries[p])
            BY <2>1, <3>7, FindListOK DEF LoadsOK
        <3>9. entries' = [entries EXCEPT ![p] = Append(entries[p], e)]
            BY <2>3 DEF AddEntry
        <3>10. e.key \notin KeysOf(entries[p])
            BY <3>2, <3>8
        <3>11. \A g \in Range(entries[p]) : g.created_at <= e.created_at
            BY <3>7 DEF EntryOK
        <3> HIDE DEF e
        <3>12. /\ ListOK(Append(entries[p], e))
               /\ Range(Append(entries[p], e)) = Range(entries[p]) \cup {e}
            BY <3>6, <3>7, <3>10, <3>11, AppendListOK
        <3> QED  BY <2>1, <3>6, <3>7, <3>9, <3>12, ListChange
    <2> QED  BY <1>3, <2>2, <2>3 DEF LoadFile
<1>4. ASSUME NEW p \in Procs, ClearList(p) \/ Restart(p)
      PROVE  ListsOK' /\ EntriesOK'
    <2>1. entries' = [entries EXCEPT ![p] = <<>>] /\ UNCHANGED now
        BY <1>4 DEF ClearList, Restart
    <2> QED  BY <2>1, EmptyListOK, ListChange
<1>5. ASSUME UNCHANGED entries, now' \in {now, now + 1}
      PROVE  ListsOK' /\ EntriesOK'
    <2>1. ListsOK'
        BY <1>5 DEF ListsOK, ListOK
    <2>2. EntriesOK'
        <3> SUFFICES ASSUME NEW p \in Procs, NEW e \in Range(entries'[p])
                     PROVE  EntryOK(e)'
            BY DEF EntriesOK
        <3>1. EntryOK(e) /\ e \in Entry
            <4>1. entries[p] \in Seq(Entry) /\ e \in Range(entries[p])
                BY <1>5
            <4> QED  BY <4>1, ElementOfSeq, LenProperties DEF EntriesOK, Range
        <3> QED  BY <1>5, <3>1 DEF EntryOK, Entry, Response
    <2> QED  BY <2>1, <2>2
<1>6. CASE UNCHANGED vars
    BY <1>5, <1>6 DEF vars
<1>7. CASE Tick
    BY <1>5, <1>7 DEF Tick
<1>8. ASSUME NEW p \in Procs, NEW k \in Keys, GetHit(p, k) \/ GetStat(p, k)
      PROVE  ListsOK' /\ EntriesOK'
    BY <1>5, <1>8 DEF GetHit, GetStat
<1>9. ASSUME NEW p \in Procs,
             \/ OpenCacheFile(p) \/ WriteCacheFile(p) \/ UnlinkStale(p)
             \/ ClientCacheClear(p) \/ ClearFile(p) \/ ClearDone(p)
      PROVE  ListsOK' /\ EntriesOK'
    <2>1. UNCHANGED <<entries, now>>
        BY <1>9 DEF OpenCacheFile, WriteCacheFile, UnlinkStale,
                    ClientCacheClear, ClearFile, ClearDone
    <2> QED  BY <2>1, <1>5
<1> QED  BY <1>1, <1>2, <1>3, <1>4, <1>6, <1>7, <1>8, <1>9
         DEF Next, Lookup, Continue

\* What a step may do to the file of k: leave it, unlink it, or replace it by
\* one of this second that holds no response but one just fetched for k.
FileStep(k) ==
    \/ files'[k] = files[k]
    \/ files'[k] = NULL
    \/ /\ files'[k] \in File
       /\ files'[k].mtime = now
       /\ files'[k].data \in Response =>
             /\ files'[k].data.key = k
             /\ now - files'[k].data.born <= MaxCallTime

\* What a step may do to the directory.
DirectoryStep ==
    /\ files' \in [Keys -> File \cup {NULL}]
    /\ linked' \in [Procs -> BOOLEAN]
    /\ \A k \in Keys : FileStep(k)

\* delete_file, whether it fails or not, is such a step.
LEMMA DeleteFileStep ==
    ASSUME TypeOK, NEW k, DeleteFile(k)
    PROVE  DirectoryStep
<1>1. CASE UNCHANGED <<files, linked>>
    BY <1>1 DEF TypeOK, DirectoryStep, FileStep
<1>2. CASE /\ files' = [files EXCEPT ![k] = NULL]
           /\ linked' = [q \in Procs |->
                            linked[q] /\ ~(pc[q] = "write" /\ arg[q] = k)]
    <2>1. \A j \in Keys : files'[j] = files[j] \/ files'[j] = NULL
        BY <1>2 DEF TypeOK
    <2>2. /\ files' \in [Keys -> File \cup {NULL}]
          /\ linked' \in [Procs -> BOOLEAN]
        BY <1>2 DEF TypeOK
    <2> QED  BY <2>1, <2>2 DEF DirectoryStep, FileStep
<1> QED  BY <1>1, <1>2 DEF DeleteFile

\* Writing content d to the file of p's call.
LEMMA WriteStep ==
    ASSUME FreshInv, NEW p \in Procs, NEW d \in {data[p], Empty, Damaged},
           pc[p] \in {"open", "write"},
           files' = [files EXCEPT ![arg[p]] = [data |-> d, mtime |-> now]],
           linked' = [linked EXCEPT ![p] = TRUE]
    PROVE  DirectoryStep
<1> USE DEF FreshInv, TypeInv, TypeOK
<1> DEFINE f == [data |-> d, mtime |-> now]
<1>1. /\ arg[p] \in Keys
      /\ data[p] \in Response
      /\ data[p].key = arg[p]
      /\ now - data[p].born <= MaxCallTime
    BY DEF CallsOK, CallOK
<1>2. f \in File /\ f.mtime = now /\ f.data = d
    BY <1>1 DEF File
<1>3. d \in Response => d = data[p]
    BY NullAssumption
<1> HIDE DEF f
<1>4. files' = [files EXCEPT ![arg[p]] = f]
    BY DEF f
<1>5. ASSUME NEW k \in Keys
      PROVE  FileStep(k)
    <2>1. CASE k = arg[p]
        BY <1>1, <1>2, <1>3, <1>4, <2>1 DEF FileStep
    <2>2. CASE k # arg[p]
        BY <1>4, <2>2 DEF FileStep
    <2> QED  BY <2>1, <2>2
<1>6. files' \in [Keys -> File \cup {NULL}]
    BY <1>2, <1>4
<1>7. linked' \in [Procs -> BOOLEAN]
    OBVIOUS
<1> QED  BY <1>5, <1>6, <1>7 DEF DirectoryStep

\* Every step treats the directory so, and each file stays sound.
LEMMA FilesStep ==
    ASSUME FreshInv, [Next]_vars
    PROVE  DirectoryStep /\ FilesOK'
<1> USE DEF FreshInv, TypeInv
<1>1. ASSUME UNCHANGED <<files, linked>>
      PROVE  DirectoryStep
    BY <1>1 DEF DirectoryStep, FileStep, TypeOK
<1>2. ASSUME NEW p \in Procs, NEW k \in Keys, ClientCacheSet(p, k)
      PROVE  DirectoryStep
    BY <1>1, <1>2, DeleteFileStep DEF ClientCacheSet
<1>3. ASSUME NEW p \in Procs, NEW k \in Keys, Lookup(p, k)
      PROVE  DirectoryStep
    BY <1>1, <1>3, DeleteFileStep
       DEF Lookup, GetExpired, GetUnbacked, GetHit, GetStat
<1>4. ASSUME NEW p \in Procs, UnlinkStale(p) \/ ClearFile(p)
      PROVE  DirectoryStep
    BY <1>4, DeleteFileStep DEF UnlinkStale, ClearFile
<1>5. ASSUME NEW p \in Procs, OpenCacheFile(p)
      PROVE  DirectoryStep
    BY <1>1, <1>5, WriteStep DEF OpenCacheFile
<1>6. ASSUME NEW p \in Procs, WriteCacheFile(p)
      PROVE  DirectoryStep
    <2>1. CASE linked[p]
        <3>1. PICK d \in {data[p], Empty, Damaged} :
                  files' = [files EXCEPT ![arg[p]] = [data |-> d, mtime |-> now]]
            BY <1>6, <2>1 DEF WriteCacheFile, Written
        <3> QED  BY <1>6, <3>1, WriteStep DEF WriteCacheFile
    <2>2. CASE ~linked[p]
        <3>1. UNCHANGED files /\ linked' = [linked EXCEPT ![p] = TRUE]
            BY <1>6, <2>2 DEF WriteCacheFile
        <3> QED  BY <3>1 DEF DirectoryStep, FileStep, TypeOK
    <2> QED  BY <2>1, <2>2
<1>7. ASSUME NEW p \in Procs,
             LoadFile(p) \/ ClientCacheClear(p) \/ ClearList(p) \/ ClearDone(p)
      PROVE  DirectoryStep
    BY <1>1, <1>7 DEF LoadFile, ClientCacheClear, ClearList, ClearDone
<1>8. ASSUME NEW p \in Procs, Restart(p)
      PROVE  DirectoryStep
    BY <1>8 DEF Restart, DirectoryStep, FileStep, TypeOK
<1>9. ASSUME Tick \/ UNCHANGED vars
      PROVE  DirectoryStep
    BY <1>1, <1>9 DEF Tick, vars
<1>10. DirectoryStep
    BY <1>2, <1>3, <1>4, <1>5, <1>6, <1>7, <1>8, <1>9 DEF Next, Continue
<1>11. now \in Nat /\ now' \in {now, now + 1}
    BY DEF TypeOK, Next, Tick, Lookup, Continue, vars, ClientCacheSet,
           GetExpired, GetUnbacked, GetHit, GetStat, OpenCacheFile,
           WriteCacheFile, UnlinkStale, LoadFile, ClientCacheClear, ClearFile,
           ClearList, ClearDone, Restart
<1>12. ASSUME NEW k \in Keys, files'[k] # NULL
       PROVE  /\ files'[k].mtime <= now'
              /\ files'[k].data \in Response =>
                    /\ files'[k].data.key = k
                    /\ files'[k].mtime - files'[k].data.born <= MaxCallTime
    <2>1. CASE files'[k] = files[k]
        <3>1. files[k] \in File
            BY <1>12, <2>1 DEF TypeOK
        <3> QED  BY <1>11, <1>12, <2>1, <3>1 DEF FilesOK, File
    <2>2. CASE files'[k] # files[k]
        BY <1>10, <1>11, <1>12, <2>2 DEF DirectoryStep, FileStep
    <2> QED  BY <2>1, <2>2
<1>13. FilesOK'
    BY <1>12, Zenon DEF FilesOK
<1> QED  BY <1>10, <1>13, Zenon

\* A lookup between its stat and its read still has no entry for the key,
\* and a file no older than the one it saw.
LEMMA LoadsStep ==
    ASSUME FreshInv, [Next]_vars
    PROVE  LoadsOK'
<1> USE DEF FreshInv, TypeInv, TypeOK
<1> SUFFICES ASSUME NEW q \in Procs, pc'[q] = "load"
             PROVE  /\ Find(entries'[q], arg'[q]) = {}
                    /\ files'[arg'[q]] # NULL =>
                          began'[q] - files'[arg'[q]].mtime <= TTL
    BY Zenon DEF LoadsOK
<1>1. ASSUME pc[q] = "load", arg'[q] = arg[q], began'[q] = began[q],
             entries'[q] = entries[q]
      PROVE  /\ Find(entries'[q], arg'[q]) = {}
             /\ files'[arg'[q]] # NULL => began'[q] - files'[arg'[q]].mtime <= TTL
    <2>1. Find(entries'[q], arg'[q]) = {}
        <3>1. Find(entries[q], arg[q]) = {}
            BY <1>1 DEF LoadsOK
        <3> QED  BY <1>1, <3>1 DEF Find
    <2>2. ASSUME files'[arg[q]] # NULL
          PROVE  began[q] - files'[arg[q]].mtime <= TTL
        <3>1. arg[q] \in Keys /\ FileStep(arg[q])
            BY <1>1, FilesStep DEF CallsOK, CallOK, DirectoryStep
        <3>2. CASE files'[arg[q]] = files[arg[q]]
            BY <1>1, <2>2, <3>2 DEF LoadsOK
        <3>3. CASE files'[arg[q]].mtime = now
            <4>1. /\ began[q] \in Nat /\ now \in Nat /\ TTL \in Nat
                  /\ began[q] <= now
                BY <1>1, SizesAssumption DEF CallsOK, CallOK
            <4> QED  BY <3>3, <4>1
        <3> QED  BY <2>2, <3>1, <3>2, <3>3 DEF FileStep
    <2> QED  BY <1>1, <2>1, <2>2
<1>2. ASSUME NEW k \in Keys, GetStat(q, k)
      PROVE  /\ Find(entries'[q], arg'[q]) = {}
             /\ files'[arg'[q]] # NULL => began'[q] - files'[arg'[q]].mtime <= TTL
    <2>1. /\ arg'[q] = k /\ began'[q] = now
          /\ UNCHANGED <<files, entries>>
          /\ Find(entries[q], k) = {}
          /\ IsCacheFileValid(files[k])
        BY <1>2 DEF GetStat, Start
    <2>2. Find(entries'[q], k) = {}
        BY <2>1 DEF Find
    <2> QED  BY <2>1, <2>2 DEF IsCacheFileValid
<1>3. ASSUME NEW p \in Procs, p # q,
             \/ \E k \in Keys : ClientCacheSet(p, k) \/ Lookup(p, k)
             \/ ClientCacheClear(p) \/ Continue(p) \/ Restart(p)
      PROVE  /\ pc[q] = "load" /\ arg'[q] = arg[q] /\ began'[q] = began[q]
             /\ entries'[q] = entries[q]
    BY <1>3 DEF ClientCacheSet, Lookup, GetExpired, GetUnbacked, GetHit, GetStat,
                ClientCacheClear, Continue, OpenCacheFile, WriteCacheFile,
                UnlinkStale, LoadFile, ClearFile, ClearList, ClearDone, Restart,
                Start, Goto, Return, callVars
<1>4. ASSUME \/ \E k \in Keys : \/ ClientCacheSet(q, k) \/ GetExpired(q, k)
                                \/ GetUnbacked(q, k) \/ GetHit(q, k)
             \/ ClientCacheClear(q) \/ Continue(q) \/ Restart(q)
      PROVE  FALSE
    BY <1>4 DEF ClientCacheSet, GetExpired, GetUnbacked, GetHit, Idle,
                ClientCacheClear, Continue, OpenCacheFile, WriteCacheFile,
                UnlinkStale, LoadFile, ClearFile, ClearList, ClearDone, Restart,
                Start, Goto, Return, callVars
<1>5. CASE Tick \/ UNCHANGED vars
    BY <1>1, <1>5 DEF Tick, vars, callVars
<1> QED  BY <1>1, <1>2, <1>3, <1>4, <1>5 DEF Next, Lookup

\* What a lookup answers is young enough, from the list or from a file.
LEMMA ReplyStep ==
    ASSUME FreshInv, [Next]_vars
    PROVE  BoundedStaleness'
<1> USE DEF FreshInv, TypeInv, TypeOK
<1>1. CASE reply' = NULL
    BY <1>1 DEF BoundedStaleness
<1>2. CASE UNCHANGED vars
    BY <1>2 DEF vars, BoundedStaleness
<1>3. ASSUME NEW p \in Procs, NEW k \in Keys,
             GetExpired(p, k) \/ GetUnbacked(p, k)
      PROVE  BoundedStaleness'
    BY <1>3 DEF GetExpired, GetUnbacked, Answer, BoundedStaleness
<1>4. ASSUME NEW p \in Procs, NEW k \in Keys, GetHit(p, k)
      PROVE  BoundedStaleness'
    <2>1. PICK i \in Find(entries[p], k) :
              /\ ~Expired(entries[p][i])
              /\ Answer(p, k, entries[p][i].data) \/ Answer(p, k, NULL)
        BY <1>4 DEF GetHit
    <2> DEFINE e == entries[p][i]
    <2>2. i \in DOMAIN entries[p] /\ e.key = k
        BY FindListOK DEF ListsOK
    <2>3. e \in Range(entries[p]) /\ e \in Entry
        BY <2>2, LenProperties, ElementOfSeq DEF Range
    <2>4. /\ e.created_at \in Nat /\ e.data.born \in Nat /\ now \in Nat
          /\ TTL \in Nat /\ MaxCallTime \in Nat
        BY <2>3, SizesAssumption DEF Entry, Response
    <2>5. /\ e.data.key = k
          /\ now - e.created_at <= TTL
          /\ e.created_at - e.data.born <= TTL + 2 * MaxCallTime
        <3>1. EntryOK(e)
            BY <2>3 DEF EntriesOK
        <3>2. ~(now - e.created_at > TTL)
            BY <2>1 DEF Expired
        <3> QED  BY <2>2, <2>4, <3>1, <3>2 DEF EntryOK
    <2>6. now - e.data.born <= 2 * (TTL + MaxCallTime)
        BY ONLY <2>4, <2>5
    <2>7. UNCHANGED now
        BY <1>4 DEF GetHit
    <2> HIDE DEF e
    <2> QED  BY <2>1, <2>5, <2>6, <2>7 DEF Answer, BoundedStaleness, e
<1>5. ASSUME NEW p \in Procs, LoadFile(p)
      PROVE  BoundedStaleness'
    <2> DEFINE f == files[arg[p]]
    <2>1. pc[p] = "load" /\ UNCHANGED now
        BY <1>5 DEF LoadFile
    <2>2. CASE Answer(p, arg[p], NULL)
        BY <2>2 DEF Answer, BoundedStaleness
    <2>3. CASE Parses(f) /\ Answer(p, arg[p], f.data)
        <3>1. arg[p] \in Keys /\ f \in File /\ f.data \in Response
            BY <2>1, <2>3 DEF CallsOK, CallOK, Parses, File
        <3>2. /\ f.mtime \in Nat /\ f.data.born \in Nat /\ began[p] \in Nat
              /\ now \in Nat /\ TTL \in Nat /\ MaxCallTime \in Nat
            BY <3>1, SizesAssumption DEF File, Response
        <3>3. /\ f.data.key = arg[p]
              /\ f.mtime - f.data.born <= MaxCallTime
              /\ began[p] - f.mtime <= TTL
              /\ now - began[p] <= MaxCallTime
            BY <2>1, <2>3, <3>1 DEF FilesOK, LoadsOK, CallsOK, CallOK, Parses
        <3>4. now - f.data.born <= 2 * (TTL + MaxCallTime)
            BY ONLY <3>2, <3>3
        <3> QED  BY <2>1, <2>3, <3>3, <3>4 DEF Answer, BoundedStaleness
    <2> QED  BY <1>5, <2>2, <2>3 DEF LoadFile
<1>6. ASSUME NEW p \in Procs, UnlinkStale(p)
      PROVE  BoundedStaleness'
    BY <1>6 DEF UnlinkStale, Answer, BoundedStaleness
<1>7. ASSUME NEW p \in Procs,
             \/ \E k \in Keys : ClientCacheSet(p, k) \/ GetStat(p, k)
             \/ OpenCacheFile(p) \/ WriteCacheFile(p) \/ ClientCacheClear(p)
             \/ ClearFile(p) \/ ClearList(p) \/ ClearDone(p) \/ Restart(p)
      PROVE  reply' = NULL
    BY <1>7 DEF ClientCacheSet, GetStat, OpenCacheFile, WriteCacheFile,
                ClientCacheClear, ClearFile, ClearList, ClearDone, Restart,
                NoAnswer
<1>8. CASE Tick
    BY <1>1, <1>8 DEF Tick, NoAnswer
<1> QED  BY <1>1, <1>2, <1>3, <1>4, <1>5, <1>6, <1>7, <1>8
         DEF Next, Lookup, Continue

\* The calls of the processes other than p are where they were.
OthersUnchanged(p) ==
    /\ UNCHANGED now
    /\ \A q \in Procs \ {p} :
          /\ pc'[q] = pc[q] /\ arg'[q] = arg[q]
          /\ data'[q] = data[q] /\ began'[q] = began[q]

\* The variables of the calls keep their types.
CallTypes ==
    /\ now \in Nat
    /\ pc \in [Procs -> PCs]
    /\ arg \in [Procs -> Keys \cup {NULL}]
    /\ data \in [Procs -> Response \cup {NULL}]
    /\ todo \in [Procs -> SUBSET Keys]
    /\ began \in [Procs -> Nat]
    /\ reply \in Reply \cup {NULL}
    /\ stored \in Nat
    /\ condemned \in [Procs -> SUBSET Nat]
    /\ barred \in [Procs -> SUBSET Nat]

\* It is enough to look at the call that moved.
LEMMA CallsChange ==
    ASSUME CallsOK, NEW p \in Procs, OthersUnchanged(p), CallOK(p)'
    PROVE  CallsOK'
<1> SUFFICES ASSUME NEW q \in Procs
             PROVE  CallOK(q)'
    BY DEF CallsOK
<1>1. CASE q = p
    BY <1>1
<1>2. CASE q # p
    BY <1>2 DEF CallsOK, CallOK, OthersUnchanged
<1> QED  BY <1>1, <1>2

\* A call of no process moves: nothing changes for any of them.
LEMMA CallsSame ==
    ASSUME CallsOK, UNCHANGED <<now, pc, arg, data, began>>
    PROVE  CallsOK'
BY DEF CallsOK, CallOK

\* A call that returns keeps the types and needs nothing any more.
LEMMA ReturnStep ==
    ASSUME CallTypes, NEW p \in Procs, Return(p), UNCHANGED now
    PROVE  /\ pc' \in [Procs -> PCs]
           /\ arg' \in [Procs -> Keys \cup {NULL}]
           /\ data' \in [Procs -> Response \cup {NULL}]
           /\ todo' \in [Procs -> SUBSET Keys]
           /\ began' \in [Procs -> Nat]
           /\ OthersUnchanged(p) /\ CallOK(p)'
<1>1. pc'[p] = "idle" /\ OthersUnchanged(p)
    BY DEF Return, CallTypes, OthersUnchanged
<1>2. CallOK(p)'
    BY <1>1 DEF CallOK
<1> QED  BY <1>1, <1>2 DEF Return, CallTypes, PCs

\* Every step keeps the types, and each call what it needs.
LEMMA CallTypesStep ==
    ASSUME FreshInv, [Next]_vars
    PROVE  CallTypes' /\ CallsOK'
<1>0. CallTypes /\ CallsOK
    BY DEF FreshInv, TypeInv, TypeOK, CallTypes
<1> DEFINE Goal == CallTypes' /\ CallsOK'
<1>1. ASSUME NEW p \in Procs, NEW k \in Keys, ClientCacheSet(p, k)
      PROVE  Goal
    <2> DEFINE d == [key |-> k, id |-> stored + 1, born |-> now]
    <2>1. d \in Response /\ d.key = k /\ d.born = now
        BY <1>0 DEF Response, CallTypes
    <2> HIDE DEF d
    <2>2. /\ reply' = NULL
          /\ UNCHANGED <<now, condemned, barred>>
          /\ \/ Start(p, k, d, "open") /\ stored' = stored + 1
             \/ UNCHANGED <<callVars, stored>>
        BY <1>1 DEF ClientCacheSet, NoAnswer, d
    <2>3. CASE Start(p, k, d, "open") /\ stored' = stored + 1
        <3>1. CallTypes' /\ OthersUnchanged(p)
            BY <1>0, <2>1, <2>2, <2>3
               DEF CallTypes, Start, PCs, OthersUnchanged
        <3>2. CallOK(p)'
            BY <1>0, <2>1, <2>2, <2>3, SizesAssumption
               DEF CallTypes, Start, CallOK
        <3> QED  BY <1>0, <3>1, <3>2, CallsChange
    <2>4. CASE UNCHANGED <<callVars, stored>>
        <3>1. CallTypes'
            BY <1>0, <2>2, <2>4 DEF CallTypes, callVars
        <3> QED  BY <1>0, <2>2, <2>4, <3>1, CallsSame DEF callVars
    <2> QED  BY <2>2, <2>3, <2>4
<1>2. ASSUME NEW p \in Procs, OpenCacheFile(p) \/ WriteCacheFile(p)
      PROVE  Goal
    <2>1. /\ pc[p] \in {"open", "write"} /\ reply' = NULL
          /\ UNCHANGED <<now, stored, condemned, barred>>
          /\ Return(p) \/ Goto(p, "write")
        BY <1>2 DEF OpenCacheFile, WriteCacheFile, NoAnswer, ghostVars
    <2>2. CASE Return(p)
        <3>1. CallTypes'
            BY <1>0, <2>1, <2>2, ReturnStep DEF CallTypes
        <3> QED  BY <1>0, <2>1, <2>2, <3>1, ReturnStep, CallsChange
    <2>3. CASE Goto(p, "write")
        <3>1. CallTypes' /\ OthersUnchanged(p)
            BY <1>0, <2>1, <2>3 DEF CallTypes, Goto, PCs, OthersUnchanged
        <3>2. CallOK(p)'
            BY <1>0, <2>1, <2>3 DEF CallTypes, Goto, CallsOK, CallOK
        <3> QED  BY <1>0, <3>1, <3>2, CallsChange
    <2> QED  BY <2>1, <2>2, <2>3
<1>3. ASSUME NEW p \in Procs, NEW k \in Keys,
             GetExpired(p, k) \/ GetUnbacked(p, k) \/ GetHit(p, k)
      PROVE  Goal
    <2>1. \A i \in Find(entries[p], k) : entries[p][i].data \in Response
        <3> TAKE i \in Find(entries[p], k)
        <3>1. ListOK(entries[p])
            BY DEF FreshInv, ListsOK
        <3>2. i \in DOMAIN entries[p]
            BY <3>1, FindListOK
        <3>3. entries[p][i] \in Entry
            BY <3>1, <3>2, LenProperties, ElementOfSeq DEF ListOK
        <3> QED  BY <3>3 DEF Entry
    <2>2. reply' \in Reply
        BY <1>3, <2>1 DEF GetExpired, GetUnbacked, GetHit, Answer, Reply
    <2>3. UNCHANGED <<now, callVars, ghostVars>>
        BY <1>3 DEF GetExpired, GetUnbacked, GetHit
    <2>4. CallTypes'
        BY <1>0, <2>2, <2>3 DEF CallTypes, callVars, ghostVars
    <2> QED  BY <1>0, <2>3, <2>4, CallsSame DEF callVars
<1>4. ASSUME NEW p \in Procs, NEW k \in Keys, GetStat(p, k)
      PROVE  Goal
    <2>1. PICK next \in {"load", "unlink"} : Start(p, k, NULL, next)
        BY <1>4 DEF GetStat
    <2>2. reply' = NULL /\ UNCHANGED <<now, ghostVars>>
        BY <1>4 DEF GetStat, NoAnswer
    <2>3. CallTypes' /\ OthersUnchanged(p)
        BY <1>0, <2>1, <2>2
           DEF CallTypes, Start, PCs, ghostVars, OthersUnchanged
    <2>4. CallOK(p)'
        BY <1>0, <2>1, <2>2, SizesAssumption DEF CallTypes, Start, CallOK
    <2> QED  BY <1>0, <2>3, <2>4, CallsChange
<1>5. ASSUME NEW p \in Procs, UnlinkStale(p) \/ LoadFile(p)
      PROVE  Goal
    <2>1. Return(p) /\ UNCHANGED <<now, ghostVars>>
        BY <1>5 DEF UnlinkStale, LoadFile
    <2>2. pc[p] \in {"unlink", "load"} /\ arg[p] \in Keys
        BY <1>0, <1>5 DEF UnlinkStale, LoadFile, CallsOK, CallOK
    <2>3. Parses(files[arg[p]]) => files[arg[p]].data \in Response
        BY <2>2 DEF FreshInv, TypeInv, TypeOK, Parses, File
    <2>4. reply' \in Reply
        BY <1>5, <2>2, <2>3 DEF UnlinkStale, LoadFile, Answer, Reply
    <2>5. CallTypes'
        BY <1>0, <2>1, <2>4, ReturnStep DEF CallTypes, ghostVars
    <2> QED  BY <1>0, <2>1, <2>5, ReturnStep, CallsChange
<1>6. ASSUME NEW p \in Procs, ClientCacheClear(p)
      PROVE  Goal
    <2>1. {entries[p][i].key : i \in DOMAIN entries[p]} \subseteq Keys
        <3> SUFFICES ASSUME NEW i \in DOMAIN entries[p]
                     PROVE  entries[p][i].key \in Keys
            OBVIOUS
        <3>1. entries[p] \in Seq(Entry)
            BY DEF FreshInv, TypeInv, TypeOK
        <3>2. entries[p][i] \in Entry
            BY <3>1, LenProperties, ElementOfSeq
        <3> QED  BY <3>2 DEF Entry
    <2>2. CallTypes' /\ OthersUnchanged(p)
        BY <1>0, <1>6, <2>1
           DEF CallTypes, ClientCacheClear, PCs, NoAnswer, OthersUnchanged
    <2>3. CallOK(p)'
        BY <1>0, <1>6, SizesAssumption DEF CallTypes, ClientCacheClear, CallOK
    <2> QED  BY <1>0, <2>2, <2>3, CallsChange
<1>7. ASSUME NEW p \in Procs, ClearFile(p)
      PROVE  Goal
    <2>1. /\ todo' \in [Procs -> SUBSET Keys]
          /\ reply' = NULL
          /\ UNCHANGED <<now, pc, arg, data, began, ghostVars>>
        BY <1>0, <1>7 DEF CallTypes, ClearFile, NoAnswer
    <2>2. CallTypes'
        BY <1>0, <2>1 DEF CallTypes, ghostVars
    <2> QED  BY <1>0, <2>1, <2>2, CallsSame
<1>8. ASSUME NEW p \in Procs, ClearList(p)
      PROVE  Goal
    <2>1. CallTypes' /\ OthersUnchanged(p)
        BY <1>0, <1>8 DEF CallTypes, ClearList, Directory, PCs, NoAnswer,
                          ghostVars, OthersUnchanged
    <2>2. CallOK(p)'
        BY <1>0, <1>8 DEF CallTypes, ClearList, CallsOK, CallOK
    <2> QED  BY <1>0, <2>1, <2>2, CallsChange
<1>9. ASSUME NEW p \in Procs, ClearDone(p) \/ Restart(p)
      PROVE  Goal
    <2>1. /\ Return(p) /\ reply' = NULL
          /\ UNCHANGED <<now, stored>>
        BY <1>9 DEF ClearDone, Restart, NoAnswer
    <2>2. /\ condemned' \in [Procs -> SUBSET Nat]
          /\ barred' \in [Procs -> SUBSET Nat]
        <3>1. UNION {barred[q] : q \in Procs} \in SUBSET Nat
            BY <1>0 DEF CallTypes
        <3>2. barred[p] \cup condemned[p] \in SUBSET Nat
            BY <1>0 DEF CallTypes
        <3> QED  BY <1>0, <1>9, <3>1, <3>2 DEF CallTypes, ClearDone, Restart
    <2>3. CallTypes'
        BY <1>0, <2>1, <2>2, ReturnStep DEF CallTypes
    <2> QED  BY <1>0, <2>1, <2>3, ReturnStep, CallsChange
<1>10. ASSUME Tick
       PROVE  Goal
    <2>1. CallTypes'
        BY <1>0, <1>10 DEF CallTypes, Tick, NoAnswer, callVars, ghostVars
    <2>2. CallsOK'
        BY <1>0, <1>10, SizesAssumption
           DEF CallTypes, Tick, Idle, callVars, CallsOK, CallOK
    <2> QED  BY <2>1, <2>2
<1>11. ASSUME UNCHANGED vars
       PROVE  Goal
    <2>1. CallTypes'
        BY <1>0, <1>11 DEF CallTypes, vars, callVars, ghostVars
    <2> QED  BY <1>0, <1>11, <2>1, CallsSame DEF vars, callVars
<1> QED  BY <1>1, <1>2, <1>3, <1>4, <1>5, <1>6, <1>7, <1>8, <1>9, <1>10, <1>11
         DEF Next, Lookup, Continue

\* Every step keeps the type invariant.
LEMMA TypeStep ==
    ASSUME FreshInv, [Next]_vars
    PROVE  TypeInv'
<1>1. /\ files' \in [Keys -> File \cup {NULL}]
      /\ linked' \in [Procs -> BOOLEAN]
      /\ entries' \in [Procs -> Seq(Entry)]
    BY FilesStep, ListsStep DEF DirectoryStep, ListsOK
<1>2. CallTypes' /\ CallsOK'
    BY CallTypesStep
<1> QED  BY <1>1, <1>2 DEF CallTypes, TypeInv, TypeOK

-----------------------------------------------------------------------------
(***************************************************************************)
(* What holds of every behaviour, for any number of processes and keys and *)
(* with any of the faults.                                                 *)
(***************************************************************************)

\* The invariant holds when every process is about to make its first call.
LEMMA FreshInit == Init => FreshInv
<1> SUFFICES ASSUME Init
             PROVE  FreshInv
    OBVIOUS
<1>1. TypeOK
    BY EmptySeq DEF Init, TypeOK, PCs
<1>2. CallsOK /\ FilesOK /\ LoadsOK /\ BoundedStaleness
    BY DEF Init, CallsOK, CallOK, FilesOK, LoadsOK, BoundedStaleness
<1>3. ListsOK /\ EntriesOK
    BY <1>1, EmptyListOK DEF Init, TypeOK, ListsOK, EntriesOK
<1> QED  BY <1>1, <1>2, <1>3 DEF FreshInv, TypeInv

\* The invariant is inductive.
LEMMA FreshStep ==
    ASSUME FreshInv, [Next]_vars
    PROVE  FreshInv'
BY TypeStep, ListsStep, FilesStep, LoadsStep, ReplyStep DEF FreshInv

\* The invariant holds, for any number of processes and with any faults.
LEMMA FreshInvariant == Spec => []FreshInv
<1>1. FreshInv /\ [Next]_vars => FreshInv'
    BY FreshStep
<1> QED  BY <1>1, FreshInit, PTL DEF Spec

\* Every call leaves the variables with values of their types, whatever
\* fails and whoever else uses the directory.
THEOREM TypeCorrect == Spec => []TypeOK
<1>1. FreshInv => TypeOK
    BY DEF FreshInv, TypeInv
<1> QED  BY <1>1, FreshInvariant, PTL

\* client_cache_set and the load of client_cache_get never list a key twice.
THEOREM KeysAreUnique == Spec => []UniqueKeys
<1>1. FreshInv => UniqueKeys
    BY DEF FreshInv, ListsOK, ListOK, UniqueKeys
<1> QED  BY <1>1, FreshInvariant, PTL

\* The list stays in the order of creation, so an eviction takes the head.
THEOREM ListIsInOrder == Spec => []CreationOrder
<1>1. FreshInv => CreationOrder
    BY DEF FreshInv, ListsOK, ListOK, CreationOrder
<1> QED  BY <1>1, FreshInvariant, PTL

\* No lookup answers with a response older than two lives and two calls.
THEOREM AnswersAreFresh == Spec => []BoundedStaleness
<1>1. FreshInv => BoundedStaleness
    BY DEF FreshInv
<1> QED  BY <1>1, FreshInvariant, PTL

-----------------------------------------------------------------------------
(***************************************************************************)
(* clear-cache is final, when unlink does not fail.  The argument follows  *)
(* the serial numbers: where those in a file, in a list or in a call can   *)
(* have come from.                                                         *)
(***************************************************************************)

\* A set of p has yet to write its file.
Writing(p) == pc[p] \in {"open", "write"}

\* The file of k has a whole response in it.
HoldsResponse(k) == files[k] # NULL /\ files[k].data \in Response

\* A file holds what it held, or the response of a call that was writing.
FileSources ==
    \A k \in Keys :
        HoldsResponse(k)' =>
            \/ HoldsResponse(k) /\ files'[k] = files[k]
            \/ \E p \in Procs : Writing(p) /\ files'[k].data = data[p]

\* A list holds what it held, a new response or one read from a file.
EntrySources ==
    \A p \in Procs : \A e \in Range(entries'[p]) :
        \/ e \in Range(entries[p])
        \/ e.data.id = stored + 1 /\ stored' = stored + 1
        \/ \E k \in Keys : HoldsResponse(k) /\ e.data = files[k].data

\* A call goes on with the response it had, or has just been given a new one.
CallSources ==
    \A p \in Procs :
        Writing(p)' =>
            \/ Writing(p) /\ data'[p] = data[p]
            \/ data'[p].id = stored + 1 /\ stored' = stored + 1

\* A step puts nothing else into a file.
LEMMA FileSourcesStep ==
    ASSUME FreshInv, [Next]_vars
    PROVE  FileSources
<1>1. ASSUME \A k \in Keys : files'[k] = files[k] \/ files'[k] = NULL
      PROVE  FileSources
    BY <1>1 DEF FileSources, HoldsResponse
<1>2. ASSUME NEW k, DeleteFile(k)
      PROVE  FileSources
    <2>1. \A j \in Keys : files'[j] = files[j] \/ files'[j] = NULL
        BY <1>2 DEF DeleteFile, FreshInv, TypeInv, TypeOK
    <2> QED  BY <1>1, <2>1
<1>3. ASSUME UNCHANGED files
      PROVE  FileSources
    BY <1>1, <1>3
<1>4. ASSUME NEW p \in Procs, Writing(p), NEW d \in {data[p], Empty, Damaged},
             files' = [files EXCEPT ![arg[p]] = [data |-> d, mtime |-> now]]
      PROVE  FileSources
    <2> SUFFICES ASSUME NEW k \in Keys, HoldsResponse(k)'
                 PROVE  \/ HoldsResponse(k) /\ files'[k] = files[k]
                        \/ Writing(p) /\ files'[k].data = data[p]
        BY DEF FileSources
    <2>1. CASE k = arg[p]
        <3>1. files'[k].data = d
            BY <1>4, <2>1 DEF FreshInv, TypeInv, TypeOK
        <3> QED  BY <1>4, <3>1, NullAssumption DEF HoldsResponse
    <2>2. CASE k # arg[p]
        <3>1. files'[k] = files[k]
            BY <1>4, <2>2 DEF FreshInv, TypeInv, TypeOK
        <3> QED  BY <3>1 DEF HoldsResponse
    <2> QED  BY <2>1, <2>2
<1>5. ASSUME NEW p \in Procs, NEW k \in Keys,
             ClientCacheSet(p, k) \/ Lookup(p, k)
      PROVE  FileSources
    BY <1>2, <1>3, <1>5
       DEF ClientCacheSet, Lookup, GetExpired, GetUnbacked, GetHit, GetStat
<1>6. ASSUME NEW p \in Procs, OpenCacheFile(p)
      PROVE  FileSources
    BY <1>3, <1>4, <1>6 DEF OpenCacheFile, Writing
<1>7. ASSUME NEW p \in Procs, WriteCacheFile(p)
      PROVE  FileSources
    <2>1. \/ UNCHANGED files
          \/ \E d \in {data[p], Empty, Damaged} :
                files' = [files EXCEPT ![arg[p]] = [data |-> d, mtime |-> now]]
        BY <1>7 DEF WriteCacheFile, Written
    <2> QED  BY <1>3, <1>4, <1>7, <2>1 DEF WriteCacheFile, Writing
<1>8. ASSUME NEW p \in Procs,
             \/ UnlinkStale(p) \/ LoadFile(p) \/ ClientCacheClear(p)
             \/ ClearFile(p) \/ ClearList(p) \/ ClearDone(p) \/ Restart(p)
      PROVE  FileSources
    BY <1>2, <1>3, <1>8 DEF UnlinkStale, LoadFile, ClientCacheClear, ClearFile,
                            ClearList, ClearDone, Restart
<1>9. CASE Tick \/ UNCHANGED vars
    BY <1>3, <1>9 DEF Tick, vars
<1> QED  BY <1>5, <1>6, <1>7, <1>8, <1>9 DEF Next, Continue

\* A step puts nothing else into a list.
LEMMA EntrySourcesStep ==
    ASSUME FreshInv, [Next]_vars
    PROVE  EntrySources
<1>1. ASSUME UNCHANGED entries
      PROVE  EntrySources
    BY <1>1 DEF EntrySources
<1>2. ASSUME NEW p \in Procs, NEW s, entries' = [entries EXCEPT ![p] = s],
             \A e \in Range(s) :
                \/ e \in Range(entries[p])
                \/ e.data.id = stored + 1 /\ stored' = stored + 1
                \/ \E k \in Keys : HoldsResponse(k) /\ e.data = files[k].data
      PROVE  EntrySources
    <2>1. \A q \in Procs : entries'[q] = IF q = p THEN s ELSE entries[q]
        BY <1>2 DEF FreshInv, TypeInv, TypeOK
    <2> QED  BY <1>2, <2>1 DEF EntrySources
<1>3. \A p \in Procs : ListOK(entries[p])
    BY DEF FreshInv, ListsOK
<1>4. ASSUME NEW s, ListOK(s), NEW d
      PROVE  \A e \in Range(AddEntry(s, d)) : e \in Range(s) \/ e.data = d
    <2> DEFINE f == [key |-> d.key, data |-> d, created_at |-> now]
    <2>1. /\ s \in Seq(Entry) /\ Len(s) \in Nat /\ DOMAIN s = 1..Len(s)
          /\ AddEntry(s, d) = Append(s, f)
        BY <1>4, LenProperties DEF ListOK, AddEntry
    <2>2. f.data = d
        OBVIOUS
    <2> HIDE DEF f
    <2>3. /\ DOMAIN Append(s, f) = 1..(Len(s) + 1)
          /\ \A i \in 1..Len(s) : Append(s, f)[i] = s[i]
          /\ Append(s, f)[Len(s) + 1] = f
        BY <2>1
    <2>4. \A i \in 1..(Len(s) + 1) : i \in 1..Len(s) \/ i = Len(s) + 1
        BY <2>1
    <2> QED  BY <2>1, <2>2, <2>3, <2>4 DEF Range
<1>5. ASSUME NEW p \in Procs, NEW k \in Keys, ClientCacheSet(p, k)
      PROVE  EntrySources
    <2> DEFINE room == Evicted(Without(entries[p], k))
               d == [key |-> k, id |-> stored + 1, born |-> now]
    <2>1. ListOK(room) /\ Range(room) \subseteq Range(entries[p])
        BY <1>3, EvictedListOK
    <2>2. \/ /\ entries' = [entries EXCEPT ![p] = AddEntry(room, d)]
             /\ stored' = stored + 1
          \/ entries' = [entries EXCEPT ![p] = room]
        BY <1>5 DEF ClientCacheSet
    <2>3. d.id = stored + 1
        OBVIOUS
    <2> HIDE DEF room, d
    <2>4. CASE entries' = [entries EXCEPT ![p] = room]
        BY <1>2, <2>1, <2>4
    <2>5. CASE /\ entries' = [entries EXCEPT ![p] = AddEntry(room, d)]
               /\ stored' = stored + 1
        <3> DEFINE t == AddEntry(room, d)
        <3>1. \A e \in Range(t) :
                 e \in Range(entries[p]) \/ e.data.id = stored + 1
            BY <1>4, <2>1, <2>3
        <3>2. entries' = [entries EXCEPT ![p] = t] /\ stored' = stored + 1
            BY <2>5
        <3> HIDE DEF t
        <3> QED  BY <1>2, <3>1, <3>2
    <2> QED  BY <2>2, <2>4, <2>5
<1>6. ASSUME NEW p \in Procs, NEW k \in Keys,
             GetExpired(p, k) \/ GetUnbacked(p, k)
      PROVE  EntrySources
    <2>1. PICK i \in Find(entries[p], k) :
              entries' = [entries EXCEPT ![p] = RemoveAt(entries[p], i)]
        BY <1>6 DEF GetExpired, GetUnbacked
    <2>2. Range(RemoveAt(entries[p], i)) \subseteq Range(entries[p])
        BY <1>3, FindListOK, RemoveAtListOK
    <2> QED  BY <1>2, <2>1, <2>2
<1>7. ASSUME NEW p \in Procs, LoadFile(p)
      PROVE  EntrySources
    <2> DEFINE f == files[arg[p]]
    <2>1. CASE UNCHANGED entries
        BY <1>1, <2>1
    <2>2. CASE /\ Parses(f)
               /\ entries' = [entries EXCEPT ![p] = AddEntry(@, f.data)]
        <3>1. arg[p] \in Keys
            BY <1>7 DEF LoadFile, FreshInv, TypeInv, CallsOK, CallOK
        <3>2. HoldsResponse(arg[p])
            BY <2>2, <3>1 DEF HoldsResponse, Parses, File,
                              FreshInv, TypeInv, TypeOK
        <3> DEFINE t == AddEntry(entries[p], f.data)
        <3>3. \A e \in Range(t) : e \in Range(entries[p]) \/ e.data = f.data
            BY <1>3, <1>4
        <3>4. entries' = [entries EXCEPT ![p] = t]
            BY <2>2
        <3> HIDE DEF t
        <3> QED  BY <1>2, <3>1, <3>2, <3>3, <3>4
    <2> QED  BY <1>7, <2>1, <2>2 DEF LoadFile
<1>8. ASSUME NEW p \in Procs, ClearList(p) \/ Restart(p)
      PROVE  EntrySources
    BY <1>2, <1>8, EmptyListOK DEF ClearList, Restart
<1>9. ASSUME NEW p \in Procs,
             \/ \E k \in Keys : GetHit(p, k) \/ GetStat(p, k)
             \/ OpenCacheFile(p) \/ WriteCacheFile(p) \/ UnlinkStale(p)
             \/ ClientCacheClear(p) \/ ClearFile(p) \/ ClearDone(p)
      PROVE  EntrySources
    BY <1>1, <1>9 DEF GetHit, GetStat, OpenCacheFile, WriteCacheFile,
                      UnlinkStale, ClientCacheClear, ClearFile, ClearDone
<1>10. CASE Tick \/ UNCHANGED vars
    BY <1>1, <1>10 DEF Tick, vars
<1> QED  BY <1>5, <1>6, <1>7, <1>8, <1>9, <1>10 DEF Next, Lookup, Continue

\* A step gives a call nothing else to write.
LEMMA CallSourcesStep ==
    ASSUME FreshInv, [Next]_vars
    PROVE  CallSources
<1> USE DEF FreshInv, TypeInv, TypeOK
<1> SUFFICES ASSUME NEW q \in Procs, Writing(q)'
             PROVE  \/ Writing(q) /\ data'[q] = data[q]
                    \/ data'[q].id = stored + 1 /\ stored' = stored + 1
    BY DEF CallSources
<1>1. ASSUME NEW p \in Procs, p # q,
             \/ \E k \in Keys : ClientCacheSet(p, k) \/ Lookup(p, k)
             \/ ClientCacheClear(p) \/ Continue(p) \/ Restart(p)
      PROVE  pc'[q] = pc[q] /\ data'[q] = data[q]
    BY <1>1 DEF ClientCacheSet, Lookup, GetExpired, GetUnbacked, GetHit, GetStat,
                ClientCacheClear, Continue, OpenCacheFile, WriteCacheFile,
                UnlinkStale, LoadFile, ClearFile, ClearList, ClearDone, Restart,
                Start, Goto, Return, callVars
<1>2. ASSUME NEW k \in Keys, ClientCacheSet(q, k)
      PROVE  \/ pc'[q] = pc[q] /\ data'[q] = data[q]
             \/ data'[q].id = stored + 1 /\ stored' = stored + 1
    BY <1>2 DEF ClientCacheSet, Start, callVars
<1>3. ASSUME NEW k \in Keys, Lookup(q, k)
      PROVE  UNCHANGED <<pc, data>> \/ pc'[q] \in {"load", "unlink"}
    BY <1>3 DEF Lookup, GetExpired, GetUnbacked, GetHit, GetStat, Start, callVars
<1>4. ASSUME ClientCacheClear(q) \/ Continue(q) \/ Restart(q)
      PROVE  \/ pc'[q] \in {"idle", "clear_own", "clear_dir"}
             \/ pc[q] = "open" /\ data'[q] = data[q]
    BY <1>4 DEF ClientCacheClear, Continue, OpenCacheFile, WriteCacheFile,
                UnlinkStale, LoadFile, ClearFile, ClearList, ClearDone, Restart,
                Goto, Return
<1>5. CASE Tick \/ UNCHANGED vars
    BY <1>5 DEF Tick, vars, callVars, Writing
<1> QED  BY <1>1, <1>2, <1>3, <1>4, <1>5 DEF Next, Writing

\* What a step may do to the serial numbers condemned or barred.
LEMMA GhostStep ==
    ASSUME FreshInv, SerialsOK, [Next]_vars
    PROVE  /\ stored \in Nat /\ stored' \in {stored, stored + 1}
           /\ \A p \in Procs : condemned'[p] \cup barred'[p] \subseteq 1..stored
<1> USE DEF FreshInv, TypeInv, TypeOK, SerialsOK
<1>1. stored \in Nat /\ stored' \in {stored, stored + 1}
    BY DEF Next, Tick, Lookup, Continue, vars, ghostVars, ClientCacheSet,
           GetExpired, GetUnbacked, GetHit, GetStat, OpenCacheFile,
           WriteCacheFile, UnlinkStale, LoadFile, ClientCacheClear, ClearFile,
           ClearList, ClearDone, Restart
<1>2. ASSUME UNCHANGED <<condemned, barred>>
      PROVE  \A p \in Procs : condemned'[p] \cup barred'[p] \subseteq 1..stored
    BY <1>2
<1>3. ASSUME NEW p \in Procs, ClientCacheClear(p)
      PROVE  \A q \in Procs : condemned'[q] \cup barred'[q] \subseteq 1..stored
    BY <1>3 DEF ClientCacheClear
<1>4. ASSUME NEW p \in Procs, ClearDone(p)
      PROVE  \A q \in Procs : condemned'[q] \cup barred'[q] \subseteq 1..stored
    BY <1>4 DEF ClearDone
<1>5. ASSUME NEW p \in Procs, Restart(p)
      PROVE  \A q \in Procs : condemned'[q] \cup barred'[q] \subseteq 1..stored
    <2>1. UNION {barred[q] : q \in Procs} \subseteq 1..stored
        OBVIOUS
    <2> QED  BY <1>5, <2>1 DEF Restart
<1>6. CASE \/ Tick \/ UNCHANGED vars
           \/ \E p \in Procs :
                 \/ \E k \in Keys : ClientCacheSet(p, k) \/ Lookup(p, k)
                 \/ OpenCacheFile(p) \/ WriteCacheFile(p) \/ UnlinkStale(p)
                 \/ LoadFile(p) \/ ClearFile(p) \/ ClearList(p)
    BY <1>1, <1>2, <1>6
       DEF Tick, Lookup, vars, ghostVars, ClientCacheSet, GetExpired,
           GetUnbacked, GetHit, GetStat, OpenCacheFile, WriteCacheFile,
           UnlinkStale, LoadFile, ClearFile, ClearList
<1> QED  BY <1>1, <1>3, <1>4, <1>5, <1>6 DEF Next, Continue

\* Every serial number in use is that of a response stored.
LEMMA SerialsStep ==
    ASSUME FreshInv, SerialsOK, [Next]_vars
    PROVE  SerialsOK'
<1>1. FileSources /\ EntrySources /\ CallSources
    BY FileSourcesStep, EntrySourcesStep, CallSourcesStep
<1>2. /\ stored \in Nat /\ stored' \in {stored, stored + 1}
      /\ \A p \in Procs : condemned'[p] \cup barred'[p] \subseteq 1..stored
    BY GhostStep
<1>3. 1..stored \subseteq 1..stored'
    BY <1>2
<1>4. ASSUME NEW k \in Keys, HoldsResponse(k)'
      PROVE  files'[k].data.id \in 1..stored'
    BY <1>1, <1>3, <1>4 DEF FileSources, SerialsOK, HoldsResponse, Writing
<1>5. ASSUME NEW p \in Procs, NEW e \in Range(entries'[p])
      PROVE  e.data.id \in 1..stored'
    <2>1. CASE e.data.id = stored + 1 /\ stored' = stored + 1
        BY <1>2, <2>1
    <2>2. CASE e \in Range(entries[p])
        BY <1>3, <2>2 DEF SerialsOK
    <2>3. CASE \E k \in Keys : HoldsResponse(k) /\ e.data = files[k].data
        BY <1>3, <2>3 DEF SerialsOK, HoldsResponse
    <2> QED  BY <1>1, <2>1, <2>2, <2>3 DEF EntrySources
<1>6. ASSUME NEW p \in Procs, Writing(p)'
      PROVE  data'[p].id \in 1..stored'
    <2>1. CASE data'[p].id = stored + 1 /\ stored' = stored + 1
        BY <1>2, <2>1
    <2>2. CASE Writing(p) /\ data'[p] = data[p]
        BY <1>3, <2>2 DEF SerialsOK, Writing
    <2> QED  BY <1>1, <1>6, <2>1, <2>2 DEF CallSources
<1> QED  BY <1>2, <1>3, <1>4, <1>5, <1>6 DEF SerialsOK, HoldsResponse, Writing

\* A clear of p is in progress.
Clearing(p) == pc[p] \in {"clear_own", "clear_dir"}

\* A step in which no clear takes part.
NoClear ==
    /\ UNCHANGED <<condemned, barred>>
    /\ \A p \in Procs :
          Clearing(p) \/ Clearing(p)' =>
              /\ pc'[p] = pc[p]
              /\ todo'[p] = todo[p]
              /\ entries'[p] = entries[p]

\* The calls other than clear are such steps.
LEMMA NoClearStep ==
    ASSUME FreshInv, [Next]_vars,
           \/ Tick \/ UNCHANGED vars
           \/ \E p \in Procs :
                 \/ \E k \in Keys : ClientCacheSet(p, k) \/ Lookup(p, k)
                 \/ OpenCacheFile(p) \/ WriteCacheFile(p) \/ UnlinkStale(p)
                 \/ LoadFile(p)
    PROVE  NoClear
<1> USE DEF FreshInv, TypeInv, TypeOK
<1>1. UNCHANGED <<condemned, barred>>
    BY DEF Tick, Lookup, vars, ghostVars, ClientCacheSet, GetExpired,
           GetUnbacked, GetHit, GetStat, OpenCacheFile, WriteCacheFile,
           UnlinkStale, LoadFile
<1>2. ASSUME NEW p \in Procs, NEW q \in Procs,
             \/ \E k \in Keys : ClientCacheSet(p, k) \/ Lookup(p, k)
             \/ OpenCacheFile(p) \/ WriteCacheFile(p) \/ UnlinkStale(p)
             \/ LoadFile(p)
      PROVE  /\ p # q => /\ pc'[q] = pc[q] /\ todo'[q] = todo[q]
                         /\ entries'[q] = entries[q]
             /\ ~Clearing(p) /\ ~Clearing(p)'
    BY <1>2 DEF ClientCacheSet, Lookup, GetExpired, GetUnbacked, GetHit, GetStat,
                OpenCacheFile, WriteCacheFile, UnlinkStale, LoadFile,
                Start, Goto, Return, callVars, Idle, Clearing
<1>3. CASE Tick \/ UNCHANGED vars
    BY <1>1, <1>3 DEF Tick, vars, callVars, NoClear
<1>4. CASE \E p \in Procs :
              \/ \E k \in Keys : ClientCacheSet(p, k) \/ Lookup(p, k)
              \/ OpenCacheFile(p) \/ WriteCacheFile(p) \/ UnlinkStale(p)
              \/ LoadFile(p)
    BY <1>1, <1>2, <1>4 DEF NoClear
<1> QED  BY <1>3, <1>4

\* Without a clear, nothing condemned or barred comes back.
LEMMA SweepNoClear ==
    ASSUME FreshInv, SerialsOK, SweepOK, NoClear, [Next]_vars
    PROVE  SweepOK'
<1>1. FileSources /\ EntrySources /\ CallSources
    BY FileSourcesStep, EntrySourcesStep, CallSourcesStep
<1>2. /\ stored \in Nat
      /\ \A p \in Procs : condemned[p] \cup barred[p] \subseteq 1..stored
      /\ condemned' = condemned /\ barred' = barred
    BY GhostStep DEF NoClear
<1>3. ASSUME NEW p \in Procs
      PROVE  stored + 1 \notin condemned[p] \cup barred[p]
    BY <1>2
<1>4. ASSUME NEW p \in Procs, NEW q \in Procs, Writing(p)'
      PROVE  data'[p].id \notin condemned'[q] \cup barred'[q]
    BY <1>1, <1>2, <1>3, <1>4 DEF CallSources, SweepOK, Writing
<1>5. ASSUME NEW p \in Procs, NEW k \in Keys, HoldsResponse(k)'
      PROVE  /\ files'[k].data.id \notin barred'[p]
             /\ pc'[p] = "clear_dir" /\ k \notin todo'[p] =>
                   files'[k].data.id \notin condemned'[p]
    <2>1. pc'[p] = "clear_dir" => pc[p] = "clear_dir" /\ todo'[p] = todo[p]
        BY DEF NoClear, Clearing
    <2>2. CASE HoldsResponse(k) /\ files'[k] = files[k]
        BY <1>2, <2>1, <2>2 DEF SweepOK, HoldsResponse
    <2>3. CASE \E r \in Procs : Writing(r) /\ files'[k].data = data[r]
        BY <1>2, <2>3 DEF SweepOK, Writing
    <2> QED  BY <1>1, <1>5, <2>2, <2>3 DEF FileSources
<1>6. ASSUME NEW p \in Procs, NEW e \in Range(entries'[p])
      PROVE  e.data.id \notin barred'[p]
    BY <1>1, <1>2, <1>3 DEF EntrySources, SweepOK, HoldsResponse
<1>7. ASSUME NEW p \in Procs
      PROVE  /\ pc'[p] = "clear_dir" => entries'[p] = <<>>
             /\ pc'[p] \notin {"clear_own", "clear_dir"} => condemned'[p] = {}
    BY <1>2 DEF NoClear, Clearing, SweepOK
<1> QED  BY <1>4, <1>5, <1>6, <1>7 DEF SweepOK, HoldsResponse, Writing

\* The steps of a clear.
LEMMA SweepClear ==
    ASSUME FreshInv, SerialsOK, SweepOK, DiskFaults = FALSE, NEW p \in Procs,
           \/ ClientCacheClear(p) \/ ClearFile(p) \/ ClearList(p)
           \/ ClearDone(p) \/ Restart(p)
    PROVE  SweepOK'
<1> USE DEF FreshInv, TypeInv, TypeOK
<1>1. \A q \in Procs :
         /\ Writing(q)' => Writing(q) /\ data'[q] = data[q]
         /\ q # p => /\ pc'[q] = pc[q] /\ todo'[q] = todo[q]
                     /\ entries'[q] = entries[q]
                     /\ condemned'[q] = condemned[q] /\ barred'[q] = barred[q]
    BY DEF ClientCacheClear, ClearFile, ClearList, ClearDone, Restart, Return,
           Writing, ghostVars
<1>2. \A k \in Keys : HoldsResponse(k)' =>
         HoldsResponse(k) /\ files'[k] = files[k]
    BY DEF ClientCacheClear, ClearFile, ClearList, ClearDone, Restart,
           DeleteFile, HoldsResponse
<1>3. \A q \in Procs : \A e \in Range(entries'[q]) : e \in Range(entries[q])
    <2>1. entries'[p] = entries[p] \/ entries'[p] = <<>>
        BY DEF ClientCacheClear, ClearFile, ClearList, ClearDone, Restart
    <2> QED  BY <1>1, <2>1, EmptyListOK
<1>4. SweepOK' <=>
        /\ \A q, r \in Procs : Writing(q)' =>
              data'[q].id \notin condemned'[r] \cup barred'[r]
        /\ \A r \in Procs : \A k \in Keys : HoldsResponse(k)' =>
              /\ files'[k].data.id \notin barred'[r]
              /\ pc'[r] = "clear_dir" /\ k \notin todo'[r] =>
                    files'[k].data.id \notin condemned'[r]
        /\ \A r \in Procs : \A e \in Range(entries'[r]) :
              e.data.id \notin barred'[r]
        /\ \A r \in Procs : pc'[r] = "clear_dir" => entries'[r] = <<>>
        /\ \A r \in Procs : pc'[r] \notin {"clear_own", "clear_dir"} =>
              condemned'[r] = {}
    BY Zenon DEF SweepOK, HoldsResponse, Writing
<1>5. /\ \A q \in Procs : \A r \in Procs : Writing(q) =>
            data[q].id \notin condemned[r] \cup barred[r]
      /\ \A r \in Procs : \A k \in Keys : HoldsResponse(k) =>
            /\ files[k].data.id \notin barred[r]
            /\ pc[r] = "clear_dir" /\ k \notin todo[r] =>
                  files[k].data.id \notin condemned[r]
      /\ \A r \in Procs : \A e \in Range(entries[r]) :
            e.data.id \notin barred[r]
      /\ \A r \in Procs : pc[r] = "clear_dir" => entries[r] = <<>>
      /\ \A r \in Procs : pc[r] \notin {"clear_own", "clear_dir"} =>
            condemned[r] = {}
    BY Zenon DEF SweepOK, HoldsResponse, Writing
<1>6. CASE ClientCacheClear(p)
    <2>1. /\ pc'[p] = "clear_own"
          /\ condemned'[p] = (1..stored) \ InFlight
          /\ barred' = barred
        BY <1>6 DEF ClientCacheClear
    <2>2. \A q \in Procs : Writing(q) => data[q].id \in InFlight
        BY DEF InFlight, Writing
    <2> QED  BY <1>1, <1>2, <1>3, <1>4, <1>5, <2>1, <2>2
<1>7. CASE ClearFile(p)
    <2>1. PICK k \in todo[p] :
              DeleteFile(k) /\ todo' = [todo EXCEPT ![p] = @ \ {k}]
        BY <1>7 DEF ClearFile
    <2>2. /\ UNCHANGED <<pc, entries, condemned, barred>>
          /\ todo'[p] = todo[p] \ {k}
          /\ k \in Keys /\ files'[k] = NULL
        BY <1>7, <2>1 DEF ClearFile, ghostVars, DeleteFile
    <2>3. ~HoldsResponse(k)'
        BY <2>2 DEF HoldsResponse
    <2> QED  BY <1>1, <1>2, <1>3, <1>4, <1>5, <2>2, <2>3
<1>8. CASE ClearList(p)
    <2>1. /\ pc[p] = "clear_own" /\ pc'[p] = "clear_dir"
          /\ todo'[p] = Keys
          /\ entries'[p] = <<>>
          /\ UNCHANGED <<condemned, barred>>
        BY <1>8 DEF ClearList, Directory, ghostVars
    <2> QED  BY <1>1, <1>2, <1>3, <1>4, <1>5, <2>1
<1>9. CASE ClearDone(p)
    <2>1. /\ pc[p] = "clear_dir" /\ todo[p] = {} /\ pc'[p] = "idle"
          /\ barred'[p] = barred[p] \cup condemned[p]
          /\ condemned'[p] = {}
          /\ UNCHANGED entries
        BY <1>9 DEF ClearDone, Return
    <2>2. \A e \in Range(entries'[p]) : FALSE
        BY <1>5, <2>1, EmptyListOK
    <2>3. \A r \in Procs, k \in Keys : HoldsResponse(k)' =>
             files'[k].data.id \notin barred'[r]
        BY <1>1, <1>2, <1>5, <2>1
    <2>4. \A q, r \in Procs : Writing(q)' =>
             data'[q].id \notin condemned'[r] \cup barred'[r]
        BY <1>1, <1>5, <2>1
    <2> QED  BY <1>1, <1>2, <1>3, <1>4, <1>5, <2>1, <2>2, <2>3, <2>4
<1>10. CASE Restart(p)
    <2>1. /\ pc'[p] = "idle"
          /\ barred'[p] = UNION {barred[q] : q \in Procs}
          /\ condemned'[p] = {}
          /\ entries'[p] = <<>>
        BY <1>10 DEF Restart, Return
    <2>2. \A e \in Range(entries'[p]) : FALSE
        BY <2>1, EmptyListOK
    <2>3. \A k \in Keys : HoldsResponse(k)' =>
             files'[k].data.id \notin UNION {barred[q] : q \in Procs}
        BY <1>2, <1>5
    <2>4. \A q \in Procs : Writing(q)' =>
             data'[q].id \notin UNION {barred[r] : r \in Procs}
        BY <1>1, <1>5
    <2>5. \A r \in Procs : \A e \in Range(entries'[r]) :
             e.data.id \notin barred'[r]
        BY <1>1, <1>3, <1>5, <2>2
    <2>6. \A r \in Procs, k \in Keys :
             HoldsResponse(k)' /\ pc'[r] = "clear_dir" /\ k \notin todo'[r] =>
                files'[k].data.id \notin condemned'[r]
        BY <1>1, <1>2, <1>5, <2>1
    <2>7. \A r \in Procs :
             /\ pc'[r] = "clear_dir" => entries'[r] = <<>>
             /\ pc'[r] \notin {"clear_own", "clear_dir"} => condemned'[r] = {}
        BY <1>1, <1>5, <2>1
    <2>8. \A r \in Procs, k \in Keys : HoldsResponse(k)' =>
             files'[k].data.id \notin barred'[r]
        BY <1>1, <1>2, <1>5, <2>1, <2>3
    <2>9. \A q, r \in Procs : Writing(q)' =>
             data'[q].id \notin condemned'[r] \cup barred'[r]
        BY <1>1, <1>5, <2>1, <2>4
    <2> QED  BY <1>4, <2>5, <2>6, <2>7, <2>8, <2>9
<1> QED  BY <1>6, <1>7, <1>8, <1>9, <1>10

\* What a lookup answers is in the list of its process or in a file, and so
\* not barred.
LEMMA ClearIsFinalStep ==
    ASSUME FreshInv, SweepOK, ClearIsFinal, [Next]_vars
    PROVE  ClearIsFinal'
<1> USE DEF FreshInv, TypeInv, TypeOK
<1>1. CASE reply' = NULL
    BY <1>1 DEF ClearIsFinal
<1>2. CASE UNCHANGED vars
    BY <1>2 DEF vars, ghostVars, ClearIsFinal
<1>3. ASSUME NEW p \in Procs, NEW k \in Keys,
             GetExpired(p, k) \/ GetUnbacked(p, k)
      PROVE  ClearIsFinal'
    BY <1>3 DEF GetExpired, GetUnbacked, Answer, ClearIsFinal
<1>4. ASSUME NEW p \in Procs, NEW k \in Keys, GetHit(p, k)
      PROVE  ClearIsFinal'
    <2>1. PICK i \in Find(entries[p], k) :
              Answer(p, k, entries[p][i].data) \/ Answer(p, k, NULL)
        BY <1>4 DEF GetHit
    <2>2. i \in DOMAIN entries[p]
        BY FindListOK DEF ListsOK
    <2>3. entries[p][i] \in Range(entries[p])
        BY <2>2 DEF Range
    <2>4. entries[p][i].data.id \notin barred'[p]
        BY <1>4, <2>3 DEF GetHit, ghostVars, SweepOK
    <2> QED  BY <2>1, <2>4 DEF Answer, ClearIsFinal
<1>5. ASSUME NEW p \in Procs, LoadFile(p)
      PROVE  ClearIsFinal'
    <2> DEFINE f == files[arg[p]]
    <2>1. CASE Answer(p, arg[p], NULL)
        BY <2>1 DEF Answer, ClearIsFinal
    <2>2. CASE Parses(f) /\ Answer(p, arg[p], f.data)
        <3>1. arg[p] \in Keys
            BY <1>5 DEF LoadFile, CallsOK, CallOK
        <3>2. f # NULL /\ f.data \in Response
            BY <2>2, <3>1 DEF Parses, File
        <3>3. f.data.id \notin barred'[p]
            BY <1>5, <3>1, <3>2 DEF LoadFile, ghostVars, SweepOK
        <3> QED  BY <2>2, <3>3 DEF Answer, ClearIsFinal
    <2> QED  BY <1>5, <2>1, <2>2 DEF LoadFile
<1>6. ASSUME NEW p \in Procs, UnlinkStale(p)
      PROVE  ClearIsFinal'
    BY <1>6 DEF UnlinkStale, Answer, ClearIsFinal
<1>7. ASSUME NEW p \in Procs,
             \/ \E k \in Keys : ClientCacheSet(p, k) \/ GetStat(p, k)
             \/ OpenCacheFile(p) \/ WriteCacheFile(p) \/ ClientCacheClear(p)
             \/ ClearFile(p) \/ ClearList(p) \/ ClearDone(p) \/ Restart(p)
      PROVE  reply' = NULL
    BY <1>7 DEF ClientCacheSet, GetStat, OpenCacheFile, WriteCacheFile,
                ClientCacheClear, ClearFile, ClearList, ClearDone, Restart,
                NoAnswer
<1>8. CASE Tick
    BY <1>1, <1>8 DEF Tick, NoAnswer
<1> QED  BY <1>1, <1>2, <1>3, <1>4, <1>5, <1>6, <1>7, <1>8
         DEF Next, Lookup, Continue

\* Once client_cache_clear has returned, nothing it was to get rid of is
\* served again, when no unlink failed.
THEOREM ClearsAreFinal ==
    ASSUME DiskFaults = FALSE
    PROVE  Spec => []ClearIsFinal
<1>1. Init => ClearInv
    <2> SUFFICES ASSUME Init
                 PROVE  ClearInv
        OBVIOUS
    <2>1. Range(<<>>) = {}
        BY EmptyListOK
    <2> QED  BY <2>1 DEF Init, ClearInv, SerialsOK, SweepOK, ClearIsFinal
<1>2. FreshInv /\ ClearInv /\ [Next]_vars => ClearInv'
    <2> SUFFICES ASSUME FreshInv, ClearInv, [Next]_vars
                 PROVE  ClearInv'
        OBVIOUS
    <2>1. SerialsOK'
        BY SerialsStep DEF ClearInv
    <2>2. ClearIsFinal'
        BY ClearIsFinalStep DEF ClearInv
    <2>3. SweepOK'
        <3>1. CASE \E p \in Procs :
                      \/ ClientCacheClear(p) \/ ClearFile(p) \/ ClearList(p)
                      \/ ClearDone(p) \/ Restart(p)
            BY <3>1, SweepClear DEF ClearInv
        <3>2. CASE \/ Tick \/ UNCHANGED vars
                   \/ \E p \in Procs :
                         \/ \E k \in Keys : ClientCacheSet(p, k) \/ Lookup(p, k)
                         \/ OpenCacheFile(p) \/ WriteCacheFile(p)
                         \/ UnlinkStale(p) \/ LoadFile(p)
            BY <3>2, NoClearStep, SweepNoClear DEF ClearInv
        <3> QED  BY <3>1, <3>2 DEF Next, Continue
    <2> QED  BY <2>1, <2>2, <2>3 DEF ClearInv
<1>3. ClearInv => ClearIsFinal
    BY DEF ClearInv
<1> QED  BY <1>1, <1>2, <1>3, FreshInvariant, PTL DEF Spec
=============================================================================
