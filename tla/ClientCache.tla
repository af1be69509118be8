----------------------------- MODULE ClientCache -----------------------------
(***************************************************************************)
(* The response cache of the weather client (utils/client_cache.c).        *)
(*                                                                         *)
(* Every run of the program keeps a linked list of entries in memory and   *)
(* shares the directory CACHE_DIR with every other run on the machine: an  *)
(* interactive session and any number of one-shot commands.  A process     *)
(* runs one call at a time; what interleaves is the system calls that the  *)
(* calls make on the directory, so a step below performs at most one of    *)
(* them, together with the work on private memory around it.               *)
(*                                                                         *)
(* A file is identified with the key whose MD5 names it, a response with   *)
(* the key it answers, a serial number and the second it was stored.       *)
(* A response is assumed to fit one stdio block, so that one read or one   *)
(* write moves all of it.                                                  *)
(***************************************************************************)
EXTENDS Integers, Sequences, SequencesExt

CONSTANTS
    Procs,          \* processes that share the directory
    Keys,           \* cache keys, and the files named after them
    TTL,            \* default_ttl, in seconds
    MaxEntries,     \* max_entries
    CacheDir,       \* CACHE_DIR exists, or mkdir can create it
    MemoryFaults,   \* malloc and strdup may return NULL
    DiskFaults,     \* open, write and unlink may fail
    MaxCallTime,    \* seconds a call may be in progress
    MaxTime,        \* bound on the clock
    MaxStores,      \* bound on the responses stored
    NULL,           \* no file, no result, no argument
    Empty,          \* content of a file just truncated by open
    Damaged         \* content that does not parse as JSON

\* client_cache_create replaces a zero by the defaults of client_cache.h.
ASSUME SizesAssumption ==
    /\ TTL \in Nat \ {0}
    /\ MaxEntries \in Nat \ {0}
    /\ MaxCallTime \in Nat
    /\ MaxTime \in Nat
    /\ MaxStores \in Nat

ASSUME FaultsAssumption ==
    /\ CacheDir \in BOOLEAN
    /\ MemoryFaults \in BOOLEAN
    /\ DiskFaults \in BOOLEAN

Response == [key : Keys, id : Nat, born : Nat]
Entry == [key : Keys, data : Response, created_at : Nat]
File == [data : Response \cup {Empty, Damaged}, mtime : Nat]
Reply == [proc : Procs, key : Keys, data : Response \cup {NULL}]

ASSUME NullAssumption ==
    /\ NULL \notin Keys \cup Response \cup File \cup Reply
    /\ Empty \notin Response
    /\ Damaged \notin Response

VARIABLES
    now,        \* the clock that time(NULL) and the file system read
    files,      \* files[k]: the file of key k in CACHE_DIR, or NULL
    entries,    \* entries[p]: the linked list of p, head first
    pc,         \* pc[p]: the system call p makes next
    arg,        \* arg[p]: the key of p's call
    data,       \* data[p]: the response p's set is writing
    linked,     \* linked[p]: the file p has open is still in the directory
    todo,       \* todo[p]: the files p's clear has yet to remove
    began,      \* began[p]: when p's call started
    reply,      \* what the last step answered to a lookup, NULL if none
    stored,     \* how many responses have been stored
    condemned,  \* condemned[p]: the responses p's clear is to get rid of
    barred      \* barred[p]: those that p may not see again after a clear

callVars == <<pc, arg, data, todo, began>>
ghostVars == <<stored, condemned, barred>>
vars == <<now, files, entries, linked, reply, callVars, ghostVars>>

PCs == {"idle", "open", "write", "unlink", "load", "clear_own", "clear_dir"}

(***************************************************************************)
(* Type invariant: every variable holds what the C types and the calls in  *)
(* progress allow.                                                         *)
(***************************************************************************)
TypeOK ==
    /\ now \in Nat
    /\ files \in [Keys -> File \cup {NULL}]
    /\ entries \in [Procs -> Seq(Entry)]
    /\ pc \in [Procs -> PCs]
    /\ arg \in [Procs -> Keys \cup {NULL}]
    /\ data \in [Procs -> Response \cup {NULL}]
    /\ linked \in [Procs -> BOOLEAN]
    /\ todo \in [Procs -> SUBSET Keys]
    /\ began \in [Procs -> Nat]
    /\ reply \in Reply \cup {NULL}
    /\ stored \in Nat
    /\ condemned \in [Procs -> SUBSET Nat]
    /\ barred \in [Procs -> SUBSET Nat]

Init ==
    /\ now = 0
    /\ files = [k \in Keys |-> NULL]
    /\ entries = [p \in Procs |-> <<>>]
    /\ pc = [p \in Procs |-> "idle"]
    /\ arg = [p \in Procs |-> NULL]
    /\ data = [p \in Procs |-> NULL]
    /\ linked = [p \in Procs |-> TRUE]
    /\ todo = [p \in Procs |-> {}]
    /\ began = [p \in Procs |-> 0]
    /\ reply = NULL
    /\ stored = 0
    /\ condemned = [p \in Procs |-> {}]
    /\ barred = [p \in Procs |-> {}]

-----------------------------------------------------------------------------
(***************************************************************************)
(* Calls: what a process remembers from one system call to the next.       *)
(***************************************************************************)

\* p starts a call on key k; its next system call is `next`.
Start(p, k, d, next) ==
    /\ pc' = [pc EXCEPT ![p] = next]
    /\ arg' = [arg EXCEPT ![p] = k]
    /\ data' = [data EXCEPT ![p] = d]
    /\ began' = [began EXCEPT ![p] = now]
    /\ UNCHANGED todo

\* p goes on to its next system call.
Goto(p, next) ==
    /\ pc' = [pc EXCEPT ![p] = next]
    /\ UNCHANGED <<arg, data, todo, began>>

\* The call of p returns to its caller.
Return(p) ==
    /\ pc' = [pc EXCEPT ![p] = "idle"]
    /\ arg' = [arg EXCEPT ![p] = NULL]
    /\ data' = [data EXCEPT ![p] = NULL]
    /\ todo' = [todo EXCEPT ![p] = {}]
    /\ began' = [began EXCEPT ![p] = 0]

\* A lookup of p for key k answers d, NULL for a miss.
Answer(p, k, d) == reply' = [proc |-> p, key |-> k, data |-> d]

NoAnswer == reply' = NULL

\* p is between two calls.
Idle(p) == pc[p] = "idle"

-----------------------------------------------------------------------------
(***************************************************************************)
(* The list of entries.                                                    *)
(***************************************************************************)

\* Mutant: a comparison that also drops the last second of life.
ExpiredEarly(e) == now - e.created_at >= TTL

\* The age test of client_cache_get.
Expired(e) == now - e.created_at > TTL

\* Mutant: keys compared as pointers, never equal.
FindNothing(s, k) == {}

\* The positions of key k that a foreach over s stops at: none or one.
Find(s, k) ==
    {i \in DOMAIN s : s[i].key = k /\ \A j \in 1..(i - 1) : s[j].key # k}

\* Mutant: a set that forgets to look for the entry it replaces.
WithoutNothing(s, k) == s

\* The list once the entry of key k, if any, is removed.
Without(s, k) ==
    IF Find(s, k) = {} THEN s ELSE RemoveAt(s, CHOOSE i \in Find(s, k) : TRUE)

\* The first entry with the least created_at, the victim of an eviction.
Oldest(s) ==
    CHOOSE i \in DOMAIN s :
        /\ \A j \in DOMAIN s : s[i].created_at <= s[j].created_at
        /\ \A j \in 1..(i - 1) : s[i].created_at < s[j].created_at

\* No entry can be added within max_entries.
Full(s) == Len(s) >= MaxEntries

\* The list once the oldest entry, if it is full, is evicted.
Evicted(s) == IF Full(s) THEN RemoveAt(s, Oldest(s)) ELSE s

\* Mutants: an entry inserted at the head, an entry whose time is not set.
AddToHead(s, d) == <<[key |-> d.key, data |-> d, created_at |-> now]>> \o s
AddUnstamped(s, d) == Append(s, [key |-> d.key, data |-> d])

\* linked_list_append of a fresh entry holding d.
AddEntry(s, d) == Append(s, [key |-> d.key, data |-> d, created_at |-> now])

-----------------------------------------------------------------------------
(***************************************************************************)
(* The files.                                                              *)
(***************************************************************************)

\* Mutant: a file is used however old it is.
FileExists(f) == f # NULL

\* is_cache_file_valid: the file exists and its mtime is recent enough.
IsCacheFileValid(f) == f # NULL /\ now - f.mtime <= TTL

\* json_load_file gets a document out of the file.
Parses(f) == f # NULL /\ f.data \notin {Empty, Damaged}

\* delete_file: a process that has the file open goes on writing to an inode
\* that is no longer in the directory.
DeleteFile(k) ==
    \/ /\ files' = [files EXCEPT ![k] = NULL]
       /\ linked' = [q \in Procs |->
                        linked[q] /\ ~(pc[q] = "write" /\ arg[q] = k)]
    \/ DiskFaults /\ UNCHANGED <<files, linked>>

\* What write leaves in the file: d, unless another process has written since
\* this one truncated it and the tail of the longer text shows behind d.
Written(f, d) == IF f.data = Empty THEN {d} ELSE {d, Damaged}

-----------------------------------------------------------------------------
(***************************************************************************)
(* client_cache_set                                                        *)
(***************************************************************************)

\* Replace the entry of the key, evict the oldest if the list is full and
\* unlink its file, append the new entry; save_to_file follows.  With no
\* memory for the new entry the call fails with the old one already gone.
ClientCacheSet(p, k) ==
    LET kept == Without(entries[p], k)
        d == [key |-> k, id |-> stored + 1, born |-> now]
    IN  /\ Idle(p)
        /\ stored < MaxStores
        /\ IF Full(kept) THEN DeleteFile(kept[Oldest(kept)].key)
                         ELSE UNCHANGED <<files, linked>>
        /\ \/ /\ entries' = [entries EXCEPT ![p] = AddEntry(Evicted(kept), d)]
              /\ Start(p, k, d, "open")
              /\ stored' = stored + 1
           \/ /\ MemoryFaults
              /\ entries' = [entries EXCEPT ![p] = Evicted(kept)]
              /\ UNCHANGED <<callVars, stored>>
        /\ NoAnswer
        /\ UNCHANGED <<now, condemned, barred>>

\* save_to_file: json_dump_file opens the file for writing and truncates it.
\* Its failure is ignored by client_cache_set.
OpenCacheFile(p) ==
    /\ pc[p] = "open"
    /\ \/ /\ CacheDir
          /\ files' = [files EXCEPT ![arg[p]] = [data |-> Empty, mtime |-> now]]
          /\ linked' = [linked EXCEPT ![p] = TRUE]
          /\ Goto(p, "write")
       \/ /\ ~CacheDir \/ DiskFaults \/ MemoryFaults
          /\ Return(p)
          /\ UNCHANGED <<files, linked>>
    /\ NoAnswer
    /\ UNCHANGED <<now, entries, ghostVars>>

\* ... and writes the text when it closes the file.
WriteCacheFile(p) ==
    /\ pc[p] = "write"
    /\ IF linked[p]
       THEN \E content \in Written(files[arg[p]], data[p]) \cup
                           (IF DiskFaults THEN {Damaged} ELSE {}) :
                files' = [files EXCEPT ![arg[p]] =
                             [data |-> content, mtime |-> now]]
       ELSE UNCHANGED files
    /\ linked' = [linked EXCEPT ![p] = TRUE]
    /\ Return(p)
    /\ NoAnswer
    /\ UNCHANGED <<now, entries, ghostVars>>

-----------------------------------------------------------------------------
(***************************************************************************)
(* client_cache_get                                                        *)
(***************************************************************************)

\* Mutant: the file of an entry that is too old is left for later.
GetExpiredOnly(p, k) ==
    /\ Idle(p)
    /\ \E i \in Find(entries[p], k) :
          /\ Expired(entries[p][i])
          /\ entries' = [entries EXCEPT ![p] = RemoveAt(@, i)]
    /\ Answer(p, k, NULL)
    /\ UNCHANGED <<now, files, linked, callVars, ghostVars>>

\* The entry found is too old: remove it and unlink its file.
GetExpired(p, k) ==
    /\ Idle(p)
    /\ \E i \in Find(entries[p], k) :
          /\ Expired(entries[p][i])
          /\ entries' = [entries EXCEPT ![p] = RemoveAt(@, i)]
    /\ DeleteFile(k)
    /\ Answer(p, k, NULL)
    /\ UNCHANGED <<now, callVars, ghostVars>>

\* The entry found has no file behind it: stat fails, remove the entry.
GetUnbacked(p, k) ==
    /\ Idle(p)
    /\ \E i \in Find(entries[p], k) :
          /\ ~Expired(entries[p][i])
          /\ files[k] = NULL
          /\ entries' = [entries EXCEPT ![p] = RemoveAt(@, i)]
    /\ Answer(p, k, NULL)
    /\ UNCHANGED <<now, files, linked, callVars, ghostVars>>

\* The entry found is served.  Short of memory, the path of the file may not
\* be built and the stat is skipped, or the copy for the caller is NULL.
GetHit(p, k) ==
    /\ Idle(p)
    /\ \E i \in Find(entries[p], k) :
          /\ ~Expired(entries[p][i])
          /\ files[k] # NULL \/ MemoryFaults
          /\ \/ Answer(p, k, entries[p][i].data)
             \/ MemoryFaults /\ Answer(p, k, NULL)
    /\ UNCHANGED <<now, files, entries, linked, callVars, ghostVars>>

\* No entry: load_from_file looks at the age of the file.
GetStat(p, k) ==
    /\ Idle(p)
    /\ Find(entries[p], k) = {}
    /\ Start(p, k, NULL, IF IsCacheFileValid(files[k]) THEN "load" ELSE "unlink")
    /\ NoAnswer
    /\ UNCHANGED <<now, files, entries, linked, ghostVars>>

\* ... unlinks it when the stat found it absent or too old ...
UnlinkStale(p) ==
    /\ pc[p] = "unlink"
    /\ DeleteFile(arg[p])
    /\ Return(p)
    /\ Answer(p, arg[p], NULL)
    /\ UNCHANGED <<now, entries, ghostVars>>

\* ... or reads it, now that it may have changed, and appends an entry for it
\* whatever the number of entries.
LoadFile(p) ==
    LET f == files[arg[p]]
    IN  /\ pc[p] = "load"
        /\ \/ /\ Parses(f)
              /\ \/ entries' = [entries EXCEPT ![p] = AddEntry(@, f.data)]
                 \/ MemoryFaults /\ UNCHANGED entries
              /\ Answer(p, arg[p], f.data)
           \/ /\ ~Parses(f) \/ MemoryFaults
              /\ UNCHANGED entries
              /\ Answer(p, arg[p], NULL)
        /\ Return(p)
        /\ UNCHANGED <<now, files, linked, ghostVars>>

-----------------------------------------------------------------------------
(***************************************************************************)
(* client_cache_clear                                                      *)
(***************************************************************************)

\* Serial numbers of responses whose set is still writing the file.
InFlight == {data[q].id : q \in {r \in Procs : pc[r] \in {"open", "write"}}}

\* First the files of the entries in the list ...
ClientCacheClear(p) ==
    /\ Idle(p)
    /\ pc' = [pc EXCEPT ![p] = "clear_own"]
    /\ todo' = [todo EXCEPT ![p] = {entries[p][i].key : i \in DOMAIN entries[p]}]
    /\ began' = [began EXCEPT ![p] = now]
    /\ condemned' = [condemned EXCEPT ![p] = (1..stored) \ InFlight]
    /\ NoAnswer
    /\ UNCHANGED <<now, files, entries, linked, arg, data, stored, barred>>

\* ... one unlink per file, of the list and later of the directory ...
ClearFile(p) ==
    /\ pc[p] \in {"clear_own", "clear_dir"}
    /\ \E k \in todo[p] :
          /\ DeleteFile(k)
          /\ todo' = [todo EXCEPT ![p] = @ \ {k}]
    /\ NoAnswer
    /\ UNCHANGED <<now, entries, pc, arg, data, began, ghostVars>>

\* Mutant: the directory is not swept.
SweepNothing == {}

\* What readdir goes through: every cache file, of whichever process.
Directory == Keys

\* ... then the list itself, and the directory is opened ...
ClearList(p) ==
    /\ pc[p] = "clear_own"
    /\ todo[p] = {}
    /\ entries' = [entries EXCEPT ![p] = <<>>]
    /\ pc' = [pc EXCEPT ![p] = "clear_dir"]
    /\ todo' = [todo EXCEPT ![p] = Directory]
    /\ NoAnswer
    /\ UNCHANGED <<now, files, linked, arg, data, began, ghostVars>>

\* ... until readdir has no more names.
ClearDone(p) ==
    /\ pc[p] = "clear_dir"
    /\ todo[p] = {}
    /\ Return(p)
    /\ barred' = [barred EXCEPT ![p] = @ \cup condemned[p]]
    /\ condemned' = [condemned EXCEPT ![p] = {}]
    /\ NoAnswer
    /\ UNCHANGED <<now, files, entries, linked, stored>>

-----------------------------------------------------------------------------
(***************************************************************************)
(* The processes and the clock.                                            *)
(***************************************************************************)

\* p ends, in the middle of a call or not, and another process takes its
\* place: the list is lost, what was written stays, and whatever a clear has
\* removed before the new process started is gone for it too.
Restart(p) ==
    /\ entries' = [entries EXCEPT ![p] = <<>>]
    /\ Return(p)
    /\ linked' = [linked EXCEPT ![p] = TRUE]
    /\ condemned' = [condemned EXCEPT ![p] = {}]
    /\ barred' = [barred EXCEPT ![p] = UNION {barred[q] : q \in Procs}]
    /\ NoAnswer
    /\ UNCHANGED <<now, files, stored>>

\* One second passes, within the time a call may take.
Tick ==
    /\ now < MaxTime
    /\ \A p \in Procs : Idle(p) \/ now - began[p] < MaxCallTime
    /\ now' = now + 1
    /\ NoAnswer
    /\ UNCHANGED <<files, entries, linked, callVars, ghostVars>>

Lookup(p, k) ==
    GetExpired(p, k) \/ GetUnbacked(p, k) \/ GetHit(p, k) \/ GetStat(p, k)

Continue(p) ==
    \/ OpenCacheFile(p) \/ WriteCacheFile(p)
    \/ UnlinkStale(p) \/ LoadFile(p)
    \/ ClearFile(p) \/ ClearList(p) \/ ClearDone(p)

Next ==
    \/ Tick
    \/ \E p \in Procs :
          \/ \E k \in Keys : ClientCacheSet(p, k) \/ Lookup(p, k)
          \/ ClientCacheClear(p)
          \/ Continue(p)
          \/ Restart(p)

Spec == Init /\ [][Next]_vars

-----------------------------------------------------------------------------
(***************************************************************************)
(* Properties.                                                             *)
(***************************************************************************)

\* No process lists a key twice, although client_cache_get appends what it
\* loads without looking again and client_cache_set removes one match only.
\* A second entry of a key would be found by nobody and outlive a set.
UniqueKeys ==
    \A p \in Procs : \A i, j \in DOMAIN entries[p] :
        entries[p][i].key = entries[p][j].key => i = j

\* The list is in the order of created_at, so that the scan for the oldest
\* entry in client_cache_set evicts the head and nothing newer than another.
CreationOrder ==
    \A p \in Procs : \A i, j \in DOMAIN entries[p] :
        i < j => entries[p][i].created_at <= entries[p][j].created_at

\* The age of what a lookup answers.  The time to live is counted from
\* created_at for an entry and from mtime for a file, and an entry loaded from
\* a file starts a new life: a response is served for at most two lives, and
\* the duration of the call that wrote it and of the call that loaded it.
BoundedStaleness ==
    reply # NULL /\ reply.data # NULL =>
        /\ reply.data.key = reply.key
        /\ now - reply.data.born <= 2 * (TTL + MaxCallTime)

\* clear-cache is final: once client_cache_clear has returned, no response
\* whose set was over when it began is served again to that process or to
\* one started later, whatever other processes do to the directory meanwhile.
ClearIsFinal ==
    reply # NULL /\ reply.data # NULL => reply.data.id \notin barred[reply.proc]

\* With one process, every entry of an idle process has its file: the stat of
\* client_cache_get never fails and each response stored can be served.
BackedByFile ==
    \A p \in Procs : \A i \in DOMAIN entries[p] :
        Idle(p) => files[entries[p][i].key] # NULL

\* With one process, a lookup removes no file that is still within its time
\* to live, up to the duration of the call that wrote it: an expired entry
\* never takes a fresher file along.
LookupKeepsValidFiles ==
    [][reply' # NULL =>
        \A k \in Keys :
            files[k] # NULL /\ now - files[k].mtime <= TTL - MaxCallTime =>
                files'[k] = files[k]]_vars

\* What the one process there is has for key k, and what the next would have.
TheProcess == CHOOSE p \in Procs : TRUE
InFile(k) == IF Parses(files[k]) THEN files[k].data ELSE NULL
InCache(k) ==
    LET found == Find(entries[TheProcess], k)
    IN  IF found = {} THEN InFile(k)
        ELSE entries[TheProcess][CHOOSE i \in found : TRUE].data

\* Its call, if it is one that changes what the cache holds.
Changing ==
    CASE pc[TheProcess] \in {"open", "write"} ->
            [op |-> "set", key |-> arg[TheProcess]]
      [] pc[TheProcess] \in {"clear_own", "clear_dir"} ->
            [op |-> "clear", key |-> NULL]
      [] OTHER -> [op |-> "none", key |-> NULL]

Store == INSTANCE ResponseStore WITH
    value <- [k \in Keys |-> InCache(k)],
    saved <- [k \in Keys |-> InFile(k)],
    call <- Changing,
    answer <- IF reply = NULL THEN NULL
              ELSE [key |-> reply.key, data |-> reply.data]

\* With one process and no faults, list and directory together are a map: a
\* lookup answers the response stored last, whether it is in the list or in
\* the file, a miss leaves neither, a set costs one other key at most, and a
\* process that ends leaves to the next one all it had but for the call it was
\* in.
ImplementsStore == Store!Spec

\* The list never holds more than max_entries entries.  The eviction of
\* client_cache_set maintains this; the load of client_cache_get does not.
WithinMaxEntries == \A p \in Procs : Len(entries[p]) <= MaxEntries
=============================================================================
