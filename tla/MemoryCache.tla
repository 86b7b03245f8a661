----------------------------- MODULE MemoryCache -----------------------------
(***************************************************************************)
(* MemoryCache of crates/app/src/browser/cache.rs: the in-process least    *)
(* recently used cache, bounded by the bytes of its bodies.  The byte      *)
(* count is kept by hand beside the entries, and the recency list is kept  *)
(* apart from them.  An entry is its metadata and its body, whose length   *)
(* is meta.len.                                                            *)
(***************************************************************************)
EXTENDS Integers, Sequences, FiniteSetsExt, Functions, Collections

EmptyCache == [entries |-> [k \in {} |-> {}], order |-> <<>>, total |-> 0]

\* The bytes of the bodies of `keys`, a byte being a key and a position: the
\* provers know the cardinalities of unions, and no sum over a set.
BytesOf(cache, key) == {key} \X (1 .. cache.entries[key].meta.len)

Bytes(cache, keys) == Cardinality(UNION {BytesOf(cache, k) : k \in keys})

\* retain: the order without `key`.
Without(order, key) ==
  LET kept == InOrder({i \in 1 .. Len(order) : order[i] # key})
  IN  [n \in 1 .. Len(kept) |-> order[kept[n]]]

\* Mutant of RemoveEntry: the byte count is not taken back.
RemoveKeepsBytes(cache, key) ==
  [entries |-> Restrict(cache.entries, DOMAIN cache.entries \ {key}),
   order |-> Without(cache.order, key),
   total |-> cache.total]

RemoveEntry(cache, key) ==
  [entries |-> Restrict(cache.entries, DOMAIN cache.entries \ {key}),
   order |-> Without(cache.order, key),
   total |-> cache.total - Bytes(cache, DOMAIN cache.entries \cap {key})]

\* Mutant of TouchEntry: a hit does not make the entry recent.
TouchNothing(cache, key) == cache

TouchEntry(cache, key) ==
  [cache EXCEPT !.order = Append(Without(@, key), key)]

\* evict_to_limit: entries go, the least recent first, until the count fits.
EvictToLimit(cache, limit) ==
  LET Gone(n) == {cache.order[i] : i \in 1 .. n}
      n == Min({i \in 0 .. Len(cache.order) :
                  cache.total - Bytes(cache, Gone(i)) <= limit})
  IN  [entries |-> Restrict(cache.entries, DOMAIN cache.entries \ Gone(n)),
       order |-> SubSeq(cache.order, n + 1, Len(cache.order)),
       total |-> cache.total - Bytes(cache, Gone(n))]

\* put: what was there under the key goes first.
PutEntry(cache, key, entry, limit) ==
  LET rest == RemoveEntry(cache, key)
  IN  EvictToLimit([entries |-> Insert(rest.entries, key, entry),
                    order |-> Append(rest.order, key),
                    total |-> rest.total + entry.meta.len],
                   limit)

-----------------------------------------------------------------------------

\* The recency list names each entry once, and the byte count is theirs.
Accounted(cache) ==
  /\ {cache.order[i] : i \in 1 .. Len(cache.order)} = DOMAIN cache.entries
  /\ \A i, j \in 1 .. Len(cache.order) : cache.order[i] = cache.order[j] => i = j
  /\ cache.total = Bytes(cache, DOMAIN cache.entries)
=============================================================================
