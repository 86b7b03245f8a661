------------------------------ MODULE HttpCache ------------------------------
(***************************************************************************)
(* CacheStore (crates/app/src/browser/cache.rs): the page-load tasks that  *)
(* share one store, its memory cache behind a mutex, and its two files per *)
(* entry, the body and the metadata, each written to a temporary name and  *)
(* renamed.  Every file-system call and every use of the mutex is a step,  *)
(* so the tasks interleave between them and the process may die there.     *)
(*                                                                         *)
(* A name refers to a file (an inode): a task that opened a temporary file *)
(* goes on writing to that file when another task has renamed it.  A key   *)
(* is a bucket and a URL; hash collisions of file names are left out.      *)
(***************************************************************************)
EXTENDS MemoryCache

CONSTANTS
  SizeOf,        \* bytes of each body
  Loaders,       \* concurrent page-load tasks
  Keys,          \* (bucket, URL) pairs
  Bodies,        \* response bodies
  Limits,        \* max_bytes that callers ask for
  MemoryLimit,   \* CachePolicy::memory_limit_bytes
  MaxDiskEntry,  \* CachePolicy::max_disk_entry_bytes
  MaxNow,        \* bound on the clock
  MaxFetches,    \* bound on responses received
  MayRestart,    \* whether the process may die
  None,          \* nothing: no file, no metadata, no body
  Mixed          \* bytes of two writers in one file

\* A task has one file open at most, and a key has four names.
Names == Keys \X {"body", "meta"} \X {"temp", "final"}
Inodes == 1 .. Cardinality(Names) + Cardinality(Loaders)

\* Response metadata.  `body` is the body it came with: the code has no such
\* field, it stands for the headers, the MIME type, the final URL.
Metadata ==
  [key : Keys, body : Bodies, len : Nat, expires : Nat, revalidate : BOOLEAN]

ASSUME CacheAssumption ==
  /\ SizeOf \in [Bodies -> Nat \ {0}]
  /\ Limits \subseteq Nat \ {0}
  /\ {MemoryLimit, MaxDiskEntry, MaxNow, MaxFetches} \subseteq Nat
  /\ MayRestart \in BOOLEAN
  /\ IsFiniteSet(Keys)
  /\ IsFiniteSet(Loaders)
  /\ None # Mixed
  /\ \A nothing \in {None, Mixed} :
       nothing \notin Bodies /\ nothing \notin Metadata
  /\ None \notin Keys /\ None \notin Inodes

VARIABLES
  memory,      \* CacheInner.memory
  directory,   \* the file behind each name, or None
  files,       \* the text of each file and its length
  now,         \* now_ms()
  loader,      \* where each task is in get_or_fetch_bytes
  fetches,     \* responses received so far
  used         \* ghost: the keys, the one used longest ago first

vars == <<memory, directory, files, now, loader, fetches, used>>

disk == <<directory, files>>

-----------------------------------------------------------------------------
(* Files                                                                   *)

EmptyFile == [text |-> None, len |-> 0]

Idle == [pc |-> "idle", key |-> None, limit |-> 0, since |-> 0,
         meta |-> None, body |-> None, source |-> "none", inode |-> None]

InUse(i) ==
  \/ \E name \in Names : directory[name] = i
  \/ \E l \in Loaders : loader[l].inode = i

\* Writing `text` over what the file holds: a longer text of another writer
\* sticks out behind it.
Overwrite(file, text, len) ==
  IF file.len <= len THEN [text |-> text, len |-> len]
                     ELSE [text |-> Mixed, len |-> file.len]

-----------------------------------------------------------------------------
(* Reading                                                                 *)

Fresh(meta, time) == ~meta.revalidate /\ meta.expires > time

\* MemoryCache::get
LookUp(cache, key, time) ==
  IF key \notin DOMAIN cache.entries
    THEN [hit |-> FALSE, entry |-> None, cache |-> cache]
  ELSE IF Fresh(cache.entries[key].meta, time)
    THEN [hit |-> TRUE, entry |-> cache.entries[key], cache |-> TouchEntry(cache, key)]
    ELSE [hit |-> FALSE, entry |-> None, cache |-> RemoveEntry(cache, key)]

Use(key) == used' = Append(Without(used, key), key)

Advance(l, pc) == loader' = [loader EXCEPT ![l].pc = pc]

\* get_or_fetch_bytes up to the end of read_memory.  An entry larger than
\* the caller's limit is fetched again.
StartRead(l, key, limit) ==
  LET found == LookUp(memory, key, now)
      begun == [Idle EXCEPT !.key = key, !.limit = limit, !.since = now]
  IN  /\ loader[l].pc = "idle"
      /\ memory' = found.cache
      /\ IF found.hit THEN Use(key) ELSE UNCHANGED used
      /\ loader' = [loader EXCEPT ![l] =
           IF ~found.hit THEN [begun EXCEPT !.pc = "lookOnDisk"]
           ELSE IF found.entry.meta.len <= limit
             THEN [begun EXCEPT !.pc = "done", !.meta = found.entry.meta,
                                !.body = found.entry.body, !.source = "memory"]
             ELSE [begun EXCEPT !.pc = "fetch"]]
      /\ UNCHANGED <<disk, now, fetches>>

FileOf(l, part) == directory[<<loader[l].key, part, "final">>]

BodyFileExists(l) ==
  /\ loader[l].pc = "lookOnDisk"
  /\ Advance(l, IF FileOf(l, "body") = None THEN "fetch" ELSE "readMeta")
  /\ UNCHANGED <<memory, disk, now, fetches, used>>

\* Mutant of Readable: the expiry is not checked on disk.
ReadableAnyAge(meta, time) == meta.len <= MaxDiskEntry

Readable(meta, time) == Fresh(meta, time) /\ meta.len <= MaxDiskEntry

\* Metadata that is missing, unparsable, stale or too large is a miss.
ReadMeta(l) ==
  LET i == FileOf(l, "meta")
  IN  /\ loader[l].pc = "readMeta"
      /\ \/ /\ i # None
            /\ files[i].text \in Metadata
            /\ Readable(files[i].text, loader[l].since)
            /\ loader' = [loader EXCEPT ![l].pc = "readBody", ![l].meta = files[i].text]
         \/ /\ i # None => ~(files[i].text \in Metadata
                             /\ Readable(files[i].text, loader[l].since))
            /\ Advance(l, "fetch")
      /\ UNCHANGED <<memory, disk, now, fetches, used>>

\* Mutant of BodyFits: the length is not compared.
AnyBodyFits(file, meta) == TRUE

BodyFits(file, meta) == file.len = meta.len

\* The body, if it has the length the metadata says.
ReadBody(l) ==
  LET i == FileOf(l, "body")
  IN  /\ loader[l].pc = "readBody"
      /\ loader' = [loader EXCEPT ![l] =
           IF i # None /\ BodyFits(files[i], @.meta)
             THEN [@ EXCEPT !.pc = "keep", !.body = files[i].text]
             ELSE [@ EXCEPT !.pc = "fetch", !.meta = None]]
      /\ UNCHANGED <<memory, disk, now, fetches, used>>

\* write_memory: bodies over the limit of the whole cache are left out.
Remember(key, meta, body) ==
  \/ /\ meta.len <= MemoryLimit
     /\ memory' = PutEntry(memory, key, [meta |-> meta, body |-> body], MemoryLimit)
     /\ Use(key)
  \/ /\ meta.len > MemoryLimit
     /\ UNCHANGED <<memory, used>>

KeepFromDisk(l) ==
  /\ loader[l].pc = "keep"
  /\ Remember(loader[l].key, loader[l].meta, loader[l].body)
  /\ loader' = [loader EXCEPT ![l] =
       IF @.meta.len <= @.limit
         THEN [@ EXCEPT !.pc = "done", !.source = "disk"]
         ELSE [@ EXCEPT !.pc = "fetch", !.meta = None, !.body = None]]
  /\ UNCHANGED <<disk, now, fetches>>

-----------------------------------------------------------------------------
(* Fetching and storing                                                    *)

\* fetch_network succeeds; a response that is not storable expires at once.
Receive(l, body, lifetime, revalidate) ==
  /\ loader[l].pc = "fetch"
  /\ fetches < MaxFetches
  /\ fetches' = fetches + 1
  /\ SizeOf[body] <= loader[l].limit
  /\ loader' = [loader EXCEPT ![l] =
       [@ EXCEPT !.pc = IF lifetime > 0 /\ SizeOf[body] <= MaxDiskEntry
                          THEN "remember" ELSE "done",
                 !.meta = [key |-> loader[l].key, body |-> body, len |-> SizeOf[body],
                           expires |-> now + lifetime, revalidate |-> revalidate],
                 !.body = body, !.source = "network"]]
  /\ UNCHANGED <<memory, disk, now, used>>

\* A failure, an error status, a refused MIME type, a body over the limit.
FetchFails(l) ==
  /\ loader[l].pc = "fetch"
  /\ loader' = [loader EXCEPT ![l] = Idle]
  /\ UNCHANGED <<memory, disk, now, fetches, used>>

RememberResponse(l) ==
  /\ loader[l].pc = "remember"
  /\ Remember(loader[l].key, loader[l].meta, loader[l].body)
  /\ Advance(l, "openBody")
  /\ UNCHANGED <<disk, now, fetches>>

\* fs::write opens the temporary file, truncating what is there ...
OpenTemp(l, part) ==
  LET name == <<loader[l].key, part, "temp">>
      i == IF directory[name] # None THEN directory[name]
           ELSE CHOOSE j \in Inodes : ~InUse(j)
  IN  /\ loader[l].pc = IF part = "body" THEN "openBody" ELSE "openMeta"
      /\ directory' = [directory EXCEPT ![name] = i]
      /\ files' = [files EXCEPT ![i] = EmptyFile]
      /\ loader' = [loader EXCEPT ![l] =
           [@ EXCEPT !.pc = IF part = "body" THEN "fillBody" ELSE "fillMeta",
                     !.inode = i]]
      /\ UNCHANGED <<memory, now, fetches, used>>

\* ... and writes.  The length of metadata text is not modelled: over
\* another writer's text it leaves either its own text or a mixture.
FillTemp(l, part) ==
  LET i == loader[l].inode
  IN  /\ loader[l].pc = IF part = "body" THEN "fillBody" ELSE "fillMeta"
      /\ \/ /\ part = "body"
            /\ files' = [files EXCEPT ![i] =
                           Overwrite(@, loader[l].body, SizeOf[loader[l].body])]
         \/ /\ part = "meta"
            /\ \E text \in {loader[l].meta} \cup (IF files[i].len = 0 THEN {} ELSE {Mixed}) :
                 files' = [files EXCEPT ![i] = [text |-> text, len |-> 1]]
      /\ loader' = [loader EXCEPT ![l] =
           [@ EXCEPT !.pc = IF part = "body" THEN "renameBody" ELSE "renameMeta",
                     !.inode = None]]
      /\ UNCHANGED <<directory, memory, now, fetches, used>>

AfterRename(part) == IF part = "body" THEN "openMeta" ELSE "done"

\* The first rename; when it fails (another task has moved the temporary
\* file away), the old file is removed.
Rename(l, part) ==
  LET temp == <<loader[l].key, part, "temp">>
      final == <<loader[l].key, part, "final">>
  IN  /\ loader[l].pc = IF part = "body" THEN "renameBody" ELSE "renameMeta"
      /\ IF directory[temp] # None
           THEN /\ directory' = [directory EXCEPT ![final] = directory[temp], ![temp] = None]
                /\ Advance(l, AfterRename(part))
           ELSE /\ directory' = [directory EXCEPT ![final] = None]
                /\ Advance(l, IF part = "body" THEN "retryBody" ELSE "retryMeta")
      /\ UNCHANGED <<files, memory, now, fetches, used>>

\* The second rename; when it fails too the entry is not written further.
RetryRename(l, part) ==
  LET temp == <<loader[l].key, part, "temp">>
      final == <<loader[l].key, part, "final">>
  IN  /\ loader[l].pc = IF part = "body" THEN "retryBody" ELSE "retryMeta"
      /\ IF directory[temp] # None
           THEN /\ directory' = [directory EXCEPT ![final] = directory[temp], ![temp] = None]
                /\ Advance(l, AfterRename(part))
           ELSE /\ Advance(l, "done")
                /\ UNCHANGED directory
      /\ UNCHANGED <<files, memory, now, fetches, used>>

\* The disk is full or read-only: write_disk gives up.
DiskFails(l) ==
  /\ loader[l].pc \in {"openBody", "openMeta"}
  /\ Advance(l, "done")
  /\ UNCHANGED <<memory, disk, now, fetches, used>>

\* The page takes the response.
Return(l) ==
  /\ loader[l].pc = "done"
  /\ loader' = [loader EXCEPT ![l] = Idle]
  /\ UNCHANGED <<memory, disk, now, fetches, used>>

-----------------------------------------------------------------------------
(* The environment                                                         *)

Tick ==
  /\ now < MaxNow
  /\ now' = now + 1
  /\ UNCHANGED <<memory, disk, loader, fetches, used>>

\* The process dies and starts again on the same directory, which
\* --clear-cache empties first.
Restart(clear) ==
  /\ MayRestart
  /\ memory' = EmptyCache
  /\ loader' = [l \in Loaders |-> Idle]
  /\ directory' = IF clear THEN [name \in Names |-> None] ELSE directory
  /\ UNCHANGED <<files, now, fetches, used>>

Init ==
  /\ memory = EmptyCache
  /\ directory = [name \in Names |-> None]
  /\ files = [i \in Inodes |-> EmptyFile]
  /\ now = 0
  /\ loader = [l \in Loaders |-> Idle]
  /\ fetches = 0
  /\ used = <<>>

ReadStep(l) ==
  \/ \E key \in Keys, limit \in Limits : StartRead(l, key, limit)
  \/ BodyFileExists(l)
  \/ ReadMeta(l)
  \/ ReadBody(l)
  \/ KeepFromDisk(l)

StoreStep(l) ==
  \/ \E body \in Bodies, lifetime \in 0 .. 1, revalidate \in BOOLEAN :
       Receive(l, body, lifetime, revalidate)
  \/ FetchFails(l)
  \/ RememberResponse(l)
  \/ \E part \in {"body", "meta"} :
       \/ OpenTemp(l, part)
       \/ FillTemp(l, part)
       \/ Rename(l, part)
       \/ RetryRename(l, part)
  \/ DiskFails(l)
  \/ Return(l)

Next ==
  \/ \E l \in Loaders : ReadStep(l) \/ StoreStep(l)
  \/ Tick
  \/ \E clear \in BOOLEAN : Restart(clear)

Spec == Init /\ [][Next]_vars

-----------------------------------------------------------------------------
(* Properties                                                              *)

Loader ==
  [pc : {"idle", "lookOnDisk", "readMeta", "readBody", "keep", "fetch", "remember",
         "openBody", "fillBody", "renameBody", "retryBody",
         "openMeta", "fillMeta", "renameMeta", "retryMeta", "done"},
   key : Keys \cup {None}, limit : Limits \cup {0}, since : 0 .. MaxNow,
   meta : Metadata \cup {None}, body : Bodies \cup {Mixed, None},
   source : {"none", "memory", "disk", "network"}, inode : Inodes \cup {None}]

\* Type invariant.
TypeOK ==
  /\ DOMAIN memory.entries \subseteq Keys
  /\ \A k \in DOMAIN memory.entries :
       memory.entries[k] \in [meta : Metadata, body : Bodies \cup {Mixed}]
  /\ memory.order \in Seq(Keys)
  /\ memory.total \in Nat
  /\ directory \in [Names -> Inodes \cup {None}]
  /\ files \in [Inodes -> [text : Bodies \cup Metadata \cup {Mixed, None}, len : Nat]]
  /\ now \in 0 .. MaxNow
  /\ loader \in [Loaders -> Loader]
  /\ fetches \in 0 .. MaxFetches
  /\ used \in Seq(Keys)

\* Whatever steps of the tasks interleave, the byte count is that of the
\* entries, the recency list names each of them once, and the cache is
\* within its bound.
MemoryIsAccounted ==
  /\ TypeOK
  /\ Accounted(memory)
  /\ memory.total <= MemoryLimit

\* A response from the cache is one for the key asked for, was fresh when
\* it was asked for, and fits the caller's limit, whichever of the two tiers
\* it comes from and however it got there.
HitsAreUsable ==
  \A l \in Loaders :
    loader[l].pc = "done" /\ loader[l].source \in {"memory", "disk"} =>
      /\ loader[l].meta.key = loader[l].key
      /\ Fresh(loader[l].meta, loader[l].since)
      /\ loader[l].meta.len <= loader[l].limit

\* A body that read_disk cannot tell from the one the metadata came with.
OfItsLength(meta, body) == body \in Bodies /\ SizeOf[body] = SizeOf[meta.body]

\* With one task writing at a time, a body handed out is one body, complete,
\* and of the length its headers came with, whatever the process or a full
\* disk interrupted before; one that came from the network is the very body
\* of its headers (read_disk, write_disk, write_memory).
ServedBodyIsComplete ==
  \A l \in Loaders :
    loader[l].pc = "done" =>
      /\ OfItsLength(loader[l].meta, loader[l].body)
      /\ loader[l].source = "network" => loader[l].meta.body = loader[l].body

\* A response handed out has the body its headers came with ("Cached binary
\* response bytes" beside status, headers and MIME type, CachedBytes).
ServedResponseIsWhole ==
  \A l \in Loaders :
    loader[l].pc = "done" => loader[l].meta.body = loader[l].body

\* What is evicted to make room was used less recently than what stays,
\* hits and refills from disk counted as uses.
EvictionIsLeastRecent ==
  [][\A l \in Loaders, i, j \in 1 .. Len(used) :
       /\ loader[l].pc \in {"remember", "keep"}
       /\ loader'[l].pc # loader[l].pc
       /\ loader[l].key \notin {used[i], used[j]}
       /\ used[i] \in DOMAIN memory.entries \ DOMAIN memory'.entries
       /\ used[j] \in DOMAIN memory.entries \cap DOMAIN memory'.entries
       => i < j]_vars
=============================================================================
