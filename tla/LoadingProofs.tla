--------------------------- MODULE LoadingProofs ---------------------------
(***************************************************************************)
(* What holds of what pages are made from, and of where it comes from.     *)
(*                                                                         *)
(* HttpCache: for any number of tasks, keys and bodies the memory cache    *)
(* accounts for its bytes, what the cache serves is usable, and eviction   *)
(* follows the order of use; with one task, a response is whole across     *)
(* process deaths.                                                         *)
(*                                                                         *)
(* ResourceLoads: whatever the network says and whichever page loads       *)
(* interleave, each request has one outcome, in its order, and the limits  *)
(* hold.                                                                   *)
(***************************************************************************)
EXTENDS HttpCache, ResourceLoads, CollectionsProofs, SequenceTheorems

-----------------------------------------------------------------------------
(* Recency lists                                                           *)

Listed(list) == {list[i] : i \in 1 .. Len(list)}

NamedOnce(list) == \A i, j \in 1 .. Len(list) : list[i] = list[j] => i = j

Before(list, x, y) ==
  \E i, j \in 1 .. Len(list) : i < j /\ list[i] = x /\ list[j] = y

\* retain keeps the others, in their order.
LEMMA WithoutFacts ==
  ASSUME NEW S, NEW order \in Seq(S), NEW key
  PROVE  /\ Without(order, key) \in Seq(S)
         /\ Listed(Without(order, key)) = Listed(order) \ {key}
         /\ NamedOnce(order) => NamedOnce(Without(order, key))
         /\ \A x, y : Before(Without(order, key), x, y)
                        <=> Before(order, x, y) /\ key \notin {x, y}
<1> DEFINE places == {i \in 1 .. Len(order) : order[i] # key}
           remaining == InOrder(places)
           m == Cardinality(places)
           rest == Without(order, key)
<1>1. Len(order) \in Nat /\ \A i \in 1 .. Len(order) : order[i] \in S
  BY LenProperties, ElementOfSeq
<1>2. places \in SUBSET Int /\ IsFiniteSet(places)
  <2>1. IsFiniteSet(1 .. Len(order)) /\ places \in SUBSET (1 .. Len(order))
    BY <1>1, FS_Interval
  <2> HIDE DEF places
  <2>2. IsFiniteSet(places)
    BY <2>1, FS_Subset
  <2> QED
    BY <1>1, <2>1, <2>2
<1>3. m \in Nat /\ EnumeratesInOrder(remaining, places) /\ Len(remaining) = m
  <2> HIDE DEF places
  <2> QED
    BY <1>2, FS_CardinalityType, InOrderEnumerates
<1>4. rest = [n \in 1 .. m |-> order[remaining[n]]]
  BY <1>3 DEF Without
<1> HIDE DEF remaining, m, rest
<1>5. /\ \A n \in 1 .. m : remaining[n] \in places
      /\ \A i \in places : \E n \in 1 .. m : remaining[n] = i
      /\ \A i, j \in 1 .. m : i < j => remaining[i] < remaining[j]
  BY <1>3 DEF EnumeratesInOrder, m
<1>6. \A n \in 1 .. m : remaining[n] \in 1 .. Len(order) /\ order[remaining[n]] # key
  BY <1>5
<1>7. \A i \in 1 .. Len(order) : order[i] # key => \E n \in 1 .. m : remaining[n] = i
  BY <1>5
<1> HIDE DEF places
<1>8. /\ rest \in Seq(S) /\ Len(rest) = m
      /\ \A n \in 1 .. m : rest[n] = order[remaining[n]]
  BY <1>1, <1>3, <1>4, <1>6
<1>9. \A i, j \in 1 .. m : remaining[i] < remaining[j] => i < j
  <2> SUFFICES ASSUME NEW i \in 1 .. m, NEW j \in 1 .. m, remaining[i] < remaining[j], ~(i < j)
               PROVE  FALSE
    OBVIOUS
  <2>1. i = j \/ j < i
    BY <1>3
  <2>2. remaining[i] \in Int /\ remaining[j] \in Int
    BY <1>1, <1>6
  <2> QED
    BY <1>5, <2>1, <2>2
<1>10. Listed(rest) = Listed(order) \ {key}
  <2>1. \A n \in 1 .. m : rest[n] \in Listed(order) \ {key}
    BY <1>6, <1>8 DEF Listed
  <2>2. \A i \in 1 .. Len(order) : order[i] # key => order[i] \in {rest[n] : n \in 1 .. m}
    BY <1>7, <1>8
  <2>3. Listed(rest) = {rest[n] : n \in 1 .. m} /\ Listed(order) = {order[i] : i \in 1 .. Len(order)}
    BY <1>8 DEF Listed
  <2> QED
    BY <2>1, <2>2, <2>3
<1>11. NamedOnce(order) => NamedOnce(rest)
  <2> SUFFICES ASSUME NamedOnce(order), NEW i \in 1 .. m, NEW j \in 1 .. m, rest[i] = rest[j]
               PROVE  i = j
    BY <1>8 DEF NamedOnce
  <2>1. remaining[i] = remaining[j] /\ remaining[i] \in Int
    BY <1>1, <1>6, <1>8 DEF NamedOnce
  <2>2. ~(i < j) /\ ~(j < i)
    BY <1>5, <2>1
  <2> QED
    BY <1>3, <2>2
<1>12. ASSUME NEW x, NEW y, Before(rest, x, y)
       PROVE  Before(order, x, y) /\ key \notin {x, y}
  <2>1. PICK i \in 1 .. m, j \in 1 .. m : i < j /\ rest[i] = x /\ rest[j] = y
    BY <1>8, <1>12 DEF Before
  <2>2. remaining[i] < remaining[j] /\ order[remaining[i]] = x /\ order[remaining[j]] = y
    BY <1>5, <1>8, <2>1
  <2> QED
    BY <1>6, <2>2 DEF Before
<1>13. ASSUME NEW x, NEW y, Before(order, x, y), key \notin {x, y}
       PROVE  Before(rest, x, y)
  <2>1. PICK a \in 1 .. Len(order), b \in 1 .. Len(order) : a < b /\ order[a] = x /\ order[b] = y
    BY <1>13 DEF Before
  <2>2. PICK i \in 1 .. m : remaining[i] = a
    BY <1>7, <1>13, <2>1
  <2>3. PICK j \in 1 .. m : remaining[j] = b
    BY <1>7, <1>13, <2>1
  <2>4. i < j /\ rest[i] = x /\ rest[j] = y
    BY <1>8, <1>9, <2>1, <2>2, <2>3
  <2> QED
    BY <1>8, <2>4 DEF Before
<1> QED
  BY <1>8, <1>10, <1>11, <1>12, <1>13 DEF rest

\* The key used now comes last.
LEMMA AppendFacts ==
  ASSUME NEW S, NEW order \in Seq(S), NEW key \in S
  PROVE  /\ Append(order, key) \in Seq(S)
         /\ Listed(Append(order, key)) = Listed(order) \cup {key}
         /\ NamedOnce(order) /\ key \notin Listed(order) => NamedOnce(Append(order, key))
         /\ \A x, y : Before(Append(order, key), x, y)
                        <=> Before(order, x, y) \/ (x \in Listed(order) /\ y = key)
<1> DEFINE longer == Append(order, key)
           n == Len(order)
<1>1. /\ longer \in Seq(S) /\ Len(longer) = n + 1 /\ n \in Nat
      /\ \A i \in 1 .. n : longer[i] = order[i]
      /\ longer[n + 1] = key
  BY AppendProperties, LenProperties
<1> HIDE DEF longer
<1>2. \A i \in 1 .. Len(longer) : 
        (i \in 1 .. n /\ longer[i] = order[i]) \/ (i = n + 1 /\ longer[i] = key)
  <2> SUFFICES ASSUME NEW i \in 1 .. Len(longer)
               PROVE  (i \in 1 .. n /\ longer[i] = order[i]) \/ (i = n + 1 /\ longer[i] = key)
    OBVIOUS
  <2> HIDE DEF n
  <2>1. i \in 1 .. n \/ i = n + 1
    BY <1>1
  <2>2. i \in 1 .. n => longer[i] = order[i]
    BY <1>1
  <2> QED
    BY <1>1, <2>1, <2>2
<1>3. \A i \in 1 .. n : i \in 1 .. Len(longer) /\ i < n + 1 /\ n + 1 \in 1 .. Len(longer)
  BY <1>1
<1>4. n + 1 \in 1 .. Len(longer)
  BY <1>1
<1> HIDE DEF n
<1>5. Listed(order) = {order[i] : i \in 1 .. n}
  BY DEF Listed, n
<1>6. Listed(longer) = Listed(order) \cup {key}
  BY <1>1, <1>2, <1>3, <1>4, <1>5 DEF Listed
<1>7. NamedOnce(order) /\ key \notin Listed(order) => NamedOnce(longer)
  BY <1>2, <1>5 DEF NamedOnce, n
<1>8. ASSUME NEW x, NEW y, Before(longer, x, y)
      PROVE  Before(order, x, y) \/ (x \in Listed(order) /\ y = key)
  <2>1. PICK i \in 1 .. Len(longer), j \in 1 .. Len(longer) : i < j /\ longer[i] = x /\ longer[j] = y
    BY <1>8 DEF Before
  <2>2. i \in 1 .. n
    BY <1>1, <1>2, <2>1
  <2> QED
    BY <1>2, <1>5, <2>1, <2>2 DEF Before, n
<1>9. ASSUME NEW x, NEW y, Before(order, x, y)
      PROVE  Before(longer, x, y)
  BY <1>1, <1>3, <1>9 DEF Before, n
<1>10. ASSUME NEW x \in Listed(order)
       PROVE  Before(longer, x, key)
  BY <1>1, <1>3, <1>4, <1>5, <1>10 DEF Before
<1> QED
  BY <1>1, <1>6, <1>7, <1>8, <1>9, <1>10 DEF longer

\* The least recent keys go; those that stay keep their order, behind them.
LEMMA CutFacts ==
  ASSUME NEW S, NEW order \in Seq(S), NamedOnce(order), NEW n \in 0 .. Len(order)
  PROVE  LET cut == SubSeq(order, n + 1, Len(order))
             gone == {order[i] : i \in 1 .. n}
         IN  /\ cut \in Seq(S)
             /\ Listed(cut) = Listed(order) \ gone
             /\ gone \subseteq Listed(order)
             /\ NamedOnce(cut)
             /\ \A x, y : Before(cut, x, y) => Before(order, x, y)
             /\ \A x \in gone, y \in Listed(cut) : Before(order, x, y)
<1> DEFINE cut == SubSeq(order, n + 1, Len(order))
           gone == {order[i] : i \in 1 .. n}
<1>1. Len(order) \in Nat /\ \A i \in 1 .. Len(order) : order[i] \in S
  BY LenProperties, ElementOfSeq
<1>2. /\ cut \in Seq(S) /\ Len(cut) = Len(order) - n
      /\ \A i \in 1 .. Len(cut) : cut[i] = order[n + i] /\ n + i \in 1 .. Len(order)
  BY <1>1, SubSeqProperties
<1> HIDE DEF cut
<1>3. \A a \in 1 .. Len(order) : a \in 1 .. n \/ (a - n \in 1 .. Len(cut) /\ n + (a - n) = a)
  BY <1>1, <1>2
<1>4. \A i \in 1 .. n : i \in 1 .. Len(order)
  BY <1>1
<1>5. \A i \in 1 .. n : \A j \in 1 .. Len(cut) : i < n + j
  BY <1>1, <1>2
<1>6. Listed(cut) = Listed(order) \ gone
  <2>1. Listed(cut) \subseteq Listed(order)
    BY <1>2 DEF Listed
  <2>2. \A x \in Listed(cut) : x \notin gone
    BY <1>2, <1>4, <1>5 DEF Listed, NamedOnce
  <2>3. \A x \in Listed(order) \ gone : x \in Listed(cut)
    <3> SUFFICES ASSUME NEW a \in 1 .. Len(order), order[a] \notin gone
                 PROVE  order[a] \in Listed(cut)
      BY DEF Listed
    <3>1. a - n \in 1 .. Len(cut) /\ n + (a - n) = a
      BY <1>3
    <3>2. cut[a - n] = order[a]
      BY <1>2, <3>1
    <3> QED
      BY <3>1, <3>2 DEF Listed
  <2> QED
    BY <2>1, <2>2, <2>3
<1>7. NamedOnce(cut)
  BY <1>1, <1>2 DEF NamedOnce
<1>8. ASSUME NEW x, NEW y, Before(cut, x, y)
      PROVE  Before(order, x, y)
  <2>1. PICK i \in 1 .. Len(cut), j \in 1 .. Len(cut) : i < j /\ cut[i] = x /\ cut[j] = y
    BY <1>8 DEF Before
  <2>2. n + i < n + j
    BY <1>1, <2>1
  <2> QED
    BY <1>2, <2>1, <2>2 DEF Before
<1>9. ASSUME NEW x \in gone, NEW y \in Listed(cut)
      PROVE  Before(order, x, y)
  BY <1>2, <1>4, <1>5, <1>9 DEF Before, Listed
<1>10. gone \subseteq Listed(order)
  BY <1>4 DEF Listed
<1> QED
  BY <1>2, <1>6, <1>7, <1>8, <1>9, <1>10 DEF cut

-----------------------------------------------------------------------------
(* The bytes of bodies                                                     *)

Sized(cache, keys) == \A k \in keys : cache.entries[k].meta.len \in Nat

\* The bytes of one body.
LEMMA OneBody ==
  ASSUME NEW cache, NEW k, Sized(cache, {k})
  PROVE  /\ IsFiniteSet(BytesOf(cache, k))
         /\ Cardinality(BytesOf(cache, k)) = cache.entries[k].meta.len
<1> DEFINE len == cache.entries[k].meta.len
           positions == 1 .. len
<1>1. len \in Nat
  BY DEF Sized
<1> HIDE DEF len
<1>2. IsFiniteSet(positions) /\ Cardinality(positions) = len
  BY <1>1, FS_Interval
<1>3. IsFiniteSet({k}) /\ Cardinality({k}) = 1
  BY FS_Singleton
<1>4. BytesOf(cache, k) = {k} \X positions
  BY DEF BytesOf, len
<1> HIDE DEF positions
<1>5. IsFiniteSet({k} \X positions) /\ Cardinality({k} \X positions) = 1 * len
  BY <1>2, <1>3, FS_Product
<1> QED
  BY <1>1, <1>4, <1>5 DEF len

LEMMA ManyBodies ==
  ASSUME NEW cache, NEW keys, IsFiniteSet(keys), Sized(cache, keys)
  PROVE  /\ IsFiniteSet(UNION {BytesOf(cache, k) : k \in keys})
         /\ Bytes(cache, keys) \in Nat
<1> DEFINE bodies == {BytesOf(cache, k) : k \in keys}
           map == [k \in keys |-> BytesOf(cache, k)]
<1>1. map \in Surjection(keys, bodies)
  BY DEF Surjection
<1>2. \A body \in bodies : IsFiniteSet(body)
  BY OneBody DEF Sized
<1> HIDE DEF bodies, map
<1>3. IsFiniteSet(bodies)
  BY <1>1, FS_Surjection
<1>4. IsFiniteSet(UNION bodies)
  BY <1>2, <1>3, FS_UNION
<1>5. Cardinality(UNION bodies) \in Nat
  BY <1>4, FS_CardinalityType
<1> QED
  BY <1>4, <1>5 DEF Bytes, bodies

\* Bytes of different keys are different bytes.
LEMMA BytesAdd ==
  ASSUME NEW cache, NEW A, NEW B, IsFiniteSet(A), IsFiniteSet(B), A \cap B = {},
         Sized(cache, A), Sized(cache, B)
  PROVE  Bytes(cache, A \cup B) = Bytes(cache, A) + Bytes(cache, B)
<1> DEFINE inA == UNION {BytesOf(cache, k) : k \in A}
           inB == UNION {BytesOf(cache, k) : k \in B}
<1>1. IsFiniteSet(inA) /\ IsFiniteSet(inB) /\ Bytes(cache, A) \in Nat /\ Bytes(cache, B) \in Nat
  BY ManyBodies
<1>2. inA \cap inB = {}
  BY DEF BytesOf
<1>3. UNION {BytesOf(cache, k) : k \in A \cup B} = inA \cup inB
  OBVIOUS
<1>4. Cardinality(inA) = Bytes(cache, A) /\ Cardinality(inB) = Bytes(cache, B)
  BY DEF Bytes
<1> HIDE DEF inA, inB
<1>5. Cardinality(inA \cup inB) = Cardinality(inA) + Cardinality(inB) - Cardinality(inA \cap inB)
  BY <1>1, FS_Union
<1>6. Cardinality(inA \cap inB) = 0
  BY <1>2, FS_EmptySet
<1>7. Bytes(cache, A \cup B) = Cardinality(inA \cup inB)
  BY <1>3 DEF Bytes
<1> QED
  BY <1>1, <1>4, <1>5, <1>6, <1>7

LEMMA BytesOfOne ==
  ASSUME NEW cache, NEW k, Sized(cache, {k})
  PROVE  Bytes(cache, {k}) = cache.entries[k].meta.len
<1>1. UNION {BytesOf(cache, j) : j \in {k}} = BytesOf(cache, k)
  OBVIOUS
<1> QED
  BY <1>1, OneBody DEF Bytes

\* Bytes depend on the lengths of the entries named.
LEMMA BytesAgree ==
  ASSUME NEW cache, NEW other, NEW keys,
         \A k \in keys : cache.entries[k].meta.len = other.entries[k].meta.len
  PROVE  Bytes(cache, keys) = Bytes(other, keys)
<1>1. \A k \in keys : BytesOf(cache, k) = BytesOf(other, k)
  BY DEF BytesOf
<1>2. {BytesOf(cache, k) : k \in keys} = {BytesOf(other, k) : k \in keys}
  BY <1>1
<1> QED
  BY <1>2 DEF Bytes

-----------------------------------------------------------------------------
(* The memory cache                                                        *)

MemoryEntry == [meta : Metadata, body : Bodies \cup {Mixed}]

CacheOK(cache) ==
  /\ cache = [entries |-> cache.entries, order |-> cache.order, total |-> cache.total]
  /\ cache.entries \in [DOMAIN cache.entries -> MemoryEntry]
  /\ DOMAIN cache.entries \subseteq Keys
  /\ cache.order \in Seq(Keys)
  /\ cache.total \in Nat
  /\ Accounted(cache)
  /\ \A k \in DOMAIN cache.entries : cache.entries[k].meta.key = k

\* Every entry of `later` was in `cache`.
KeepsEntries(cache, later) ==
  \A k \in DOMAIN later.entries :
    k \in DOMAIN cache.entries /\ later.entries[k] = cache.entries[k]

LEMMA CacheFacts ==
  ASSUME NEW cache, CacheOK(cache)
  PROVE  /\ IsFiniteSet(DOMAIN cache.entries)
         /\ \A keys : keys \subseteq DOMAIN cache.entries =>
              IsFiniteSet(keys) /\ Sized(cache, keys) /\ Bytes(cache, keys) \in Nat
         /\ Listed(cache.order) = DOMAIN cache.entries
         /\ NamedOnce(cache.order)
         /\ cache.total = Bytes(cache, DOMAIN cache.entries)
<1>1. IsFiniteSet(DOMAIN cache.entries)
  BY FS_Subset, CacheAssumption DEF CacheOK
<1>2. \A k \in DOMAIN cache.entries : cache.entries[k].meta.len \in Nat
  BY DEF CacheOK, MemoryEntry, Metadata
<1>3. ASSUME NEW keys, keys \subseteq DOMAIN cache.entries
      PROVE  IsFiniteSet(keys) /\ Sized(cache, keys) /\ Bytes(cache, keys) \in Nat
  BY <1>1, <1>2, <1>3, FS_Subset, ManyBodies DEF Sized
<1> QED
  BY <1>1, <1>3 DEF CacheOK, Accounted, Listed, NamedOnce

LEMMA EmptyCacheOK ==
  CacheOK(EmptyCache) /\ EmptyCache.total = 0 /\ DOMAIN EmptyCache.entries = {}
<1> DEFINE none == [k \in {} |-> {}]
<1>1. /\ EmptyCache.entries = none /\ EmptyCache.order = <<>> /\ EmptyCache.total = 0
      /\ EmptyCache = [entries |-> EmptyCache.entries, order |-> EmptyCache.order,
                       total |-> EmptyCache.total]
  BY DEF EmptyCache
<1>2. DOMAIN none = {} /\ none \in [{} -> MemoryEntry]
  OBVIOUS
<1> HIDE DEF none
<1>3. Bytes(EmptyCache, {}) = 0
  BY FS_EmptySet DEF Bytes
<1>4. Accounted(EmptyCache)
  BY <1>1, <1>2, <1>3 DEF Accounted
<1>5. EmptyCache.order \in Seq(Keys)
  BY <1>1, EmptySeq
<1> QED
  BY <1>1, <1>2, <1>4, <1>5 DEF CacheOK

\* Taking the keys `gone` out of a cache, and their bytes from the count.
LEMMA TakeOut ==
  ASSUME NEW cache, CacheOK(cache), NEW gone, NEW order,
         gone \subseteq DOMAIN cache.entries,
         order \in Seq(Keys), NamedOnce(order),
         Listed(order) = DOMAIN cache.entries \ gone
  PROVE  LET later == [entries |-> Restrict(cache.entries, DOMAIN cache.entries \ gone),
                       order |-> order,
                       total |-> cache.total - Bytes(cache, gone)]
         IN  /\ CacheOK(later) /\ KeepsEntries(cache, later)
             /\ DOMAIN later.entries = DOMAIN cache.entries \ gone
<1> DEFINE stay == DOMAIN cache.entries \ gone
           entries == Restrict(cache.entries, stay)
           total == cache.total - Bytes(cache, gone)
           later == [entries |-> entries, order |-> order, total |-> total]
<1>1. DOMAIN entries = stay /\ \A k \in stay : entries[k] = cache.entries[k]
  BY DEF Restrict
<1>2. entries \in [stay -> MemoryEntry]
  BY DEF Restrict, CacheOK
<1>3. /\ IsFiniteSet(gone) /\ IsFiniteSet(stay) /\ Sized(cache, gone) /\ Sized(cache, stay)
      /\ Bytes(cache, gone) \in Nat /\ Bytes(cache, stay) \in Nat
      /\ cache.total = Bytes(cache, DOMAIN cache.entries)
  BY CacheFacts
<1>4. Bytes(cache, DOMAIN cache.entries) = Bytes(cache, gone) + Bytes(cache, stay)
  <2>1. DOMAIN cache.entries = gone \cup stay /\ gone \cap stay = {}
    OBVIOUS
  <2> HIDE DEF stay
  <2> QED
    BY <1>3, <2>1, BytesAdd
<1> HIDE DEF entries
<1>5. /\ later.entries = entries /\ later.order = order /\ later.total = total
      /\ later = [entries |-> later.entries, order |-> later.order, total |-> later.total]
  OBVIOUS
<1>6. total = Bytes(cache, stay)
  BY <1>3, <1>4
<1> HIDE DEF later, total
<1>7. Bytes(later, stay) = Bytes(cache, stay)
  BY <1>1, <1>5, BytesAgree
<1>8. Accounted(later)
  BY <1>1, <1>5, <1>6, <1>7 DEF Accounted, Listed, NamedOnce
<1>9. /\ DOMAIN later.entries = stay
      /\ \A k \in stay : later.entries[k] = cache.entries[k]
  BY <1>1, <1>5
<1>10. CacheOK(later)
  <2>1. stay \subseteq Keys /\ \A k \in stay : cache.entries[k].meta.key = k
    BY DEF CacheOK
  <2> HIDE DEF stay
  <2> QED
    BY <1>2, <1>3, <1>5, <1>6, <1>8, <1>9, <2>1 DEF CacheOK
<1>11. KeepsEntries(cache, later)
  BY <1>9 DEF KeepsEntries
<1> QED
  BY <1>9, <1>10, <1>11 DEF later, entries, total

\* A removal leaves the others and their order.
LEMMA RemoveOK ==
  ASSUME NEW cache, CacheOK(cache), NEW key
  PROVE  /\ CacheOK(RemoveEntry(cache, key))
         /\ KeepsEntries(cache, RemoveEntry(cache, key))
         /\ DOMAIN RemoveEntry(cache, key).entries = DOMAIN cache.entries \ {key}
         /\ RemoveEntry(cache, key).order = Without(cache.order, key)
         /\ RemoveEntry(cache, key).total <= cache.total
<1> DEFINE gone == DOMAIN cache.entries \cap {key}
           order == Without(cache.order, key)
           later == [entries |-> Restrict(cache.entries, DOMAIN cache.entries \ gone),
                     order |-> order,
                     total |-> cache.total - Bytes(cache, gone)]
<1>1. DOMAIN cache.entries \ gone = DOMAIN cache.entries \ {key}
  OBVIOUS
<1>2. RemoveEntry(cache, key) = later
  BY <1>1 DEF RemoveEntry
<1>3. /\ cache.order \in Seq(Keys) /\ NamedOnce(cache.order)
      /\ Listed(cache.order) = DOMAIN cache.entries
      /\ Bytes(cache, gone) \in Nat /\ cache.total \in Nat
  BY CacheFacts DEF CacheOK
<1>4. order \in Seq(Keys) /\ NamedOnce(order) /\ Listed(order) = DOMAIN cache.entries \ gone
  BY <1>1, <1>3, WithoutFacts
<1> HIDE DEF gone, order
<1>5. gone \subseteq DOMAIN cache.entries
  BY DEF gone
<1>6. /\ CacheOK(later) /\ KeepsEntries(cache, later)
      /\ DOMAIN later.entries = DOMAIN cache.entries \ gone
  BY <1>4, <1>5, TakeOut
<1>7. later.order = order /\ later.total <= cache.total
  BY <1>3
<1> QED
  BY <1>1, <1>2, <1>6, <1>7 DEF order

\* A hit moves the key to the end of the list.
LEMMA TouchOK ==
  ASSUME NEW cache, CacheOK(cache), NEW key \in DOMAIN cache.entries
  PROVE  /\ CacheOK(TouchEntry(cache, key))
         /\ TouchEntry(cache, key).entries = cache.entries
         /\ TouchEntry(cache, key).total = cache.total
         /\ TouchEntry(cache, key).order = Append(Without(cache.order, key), key)
<1> DEFINE rest == Without(cache.order, key)
           order == Append(rest, key)
           later == TouchEntry(cache, key)
<1>1. /\ cache.order \in Seq(Keys) /\ NamedOnce(cache.order) /\ key \in Keys
      /\ Listed(cache.order) = DOMAIN cache.entries
  BY CacheFacts DEF CacheOK
<1>2. /\ rest \in Seq(Keys) /\ NamedOnce(rest)
      /\ Listed(rest) = DOMAIN cache.entries \ {key}
  BY <1>1, WithoutFacts
<1>3. /\ order \in Seq(Keys) /\ NamedOnce(order)
      /\ Listed(order) = DOMAIN cache.entries
  <2> HIDE DEF rest
  <2>1. key \notin Listed(rest)
    BY <1>2
  <2>2. Listed(order) = Listed(rest) \cup {key}
    BY <1>1, <1>2, AppendFacts
  <2> QED
    BY <1>1, <1>2, <2>1, <2>2, AppendFacts
<1>4. later = [entries |-> cache.entries, order |-> order, total |-> cache.total]
  <2>1. later = [cache EXCEPT !.order = order]
    BY DEF TouchEntry
  <2>2. cache = [entries |-> cache.entries, order |-> cache.order, total |-> cache.total]
    BY DEF CacheOK
  <2> HIDE DEF order, later
  <2> QED
    BY <2>1, <2>2
<1>5. /\ later.entries = cache.entries /\ later.order = order /\ later.total = cache.total
      /\ later = [entries |-> later.entries, order |-> later.order, total |-> later.total]
  BY <1>4
<1> HIDE DEF order, later
<1>6. Bytes(later, DOMAIN cache.entries) = Bytes(cache, DOMAIN cache.entries)
  BY <1>5, BytesAgree
<1>7. Accounted(later)
  BY <1>3, <1>5, <1>6 DEF Accounted, Listed, NamedOnce, CacheOK
<1>8. CacheOK(later)
  BY <1>3, <1>5, <1>7 DEF CacheOK
<1> QED
  BY <1>5, <1>8 DEF order, later

\* Eviction ends within the limit: taking everything out would.
LEMMA EvictOK ==
  ASSUME NEW cache, CacheOK(cache), NEW limit \in Nat
  PROVE  /\ CacheOK(EvictToLimit(cache, limit))
         /\ KeepsEntries(cache, EvictToLimit(cache, limit))
         /\ EvictToLimit(cache, limit).total <= limit
         /\ \E n \in 0 .. Len(cache.order) :
              /\ EvictToLimit(cache, limit).order = SubSeq(cache.order, n + 1, Len(cache.order))
              /\ DOMAIN EvictToLimit(cache, limit).entries
                   = DOMAIN cache.entries \ {cache.order[i] : i \in 1 .. n}
<1> DEFINE Gone(n) == {cache.order[i] : i \in 1 .. n}
           len == Len(cache.order)
           fits == {i \in 0 .. len : cache.total - Bytes(cache, Gone(i)) <= limit}
           n == Min(fits)
<1>1. /\ cache.order \in Seq(Keys) /\ NamedOnce(cache.order) /\ len \in Nat
      /\ Listed(cache.order) = DOMAIN cache.entries
      /\ cache.total = Bytes(cache, DOMAIN cache.entries) /\ cache.total \in Nat
  BY CacheFacts, LenProperties DEF CacheOK
<1>2. len \in fits
  <2>1. Gone(len) = DOMAIN cache.entries
    BY <1>1 DEF Listed
  <2> HIDE DEF Gone
  <2>2. cache.total = Bytes(cache, Gone(len))
    BY <1>1, <2>1
  <2>3. cache.total - Bytes(cache, Gone(len)) <= limit
    BY <1>1, <2>2
  <2>4. len \in 0 .. len
    BY <1>1
  <2> QED
    BY <2>3, <2>4
<1>3. n \in fits
  <2>1. fits \in SUBSET Nat
    BY <1>1
  <2> HIDE DEF fits, len
  <2>2. \E x \in fits : \A y \in fits : x =< y
    <3>1. IsWellFoundedOn(OpToRel(<, Nat), Nat)
      BY NatLessThanWellFounded
    <3>2. PICK x \in fits : \A y \in fits : ~(<<y, x>> \in OpToRel(<, Nat))
      BY <1>2, <2>1, <3>1, WFMin
    <3>3. \A y \in fits : ~(y < x)
      BY <2>1, <3>2 DEF OpToRel
    <3> QED
      BY <2>1, <3>3
  <2> QED
    BY <2>2 DEF Min
<1> DEFINE gone == Gone(n)
           order == SubSeq(cache.order, n + 1, len)
           later == [entries |-> Restrict(cache.entries, DOMAIN cache.entries \ gone),
                     order |-> order,
                     total |-> cache.total - Bytes(cache, gone)]
<1>4. EvictToLimit(cache, limit) = later
  BY DEF EvictToLimit
<1> HIDE DEF n
<1>5. n \in 0 .. len /\ cache.total - Bytes(cache, gone) <= limit
  BY <1>3
<1> HIDE DEF fits
<1>6. /\ order \in Seq(Keys) /\ NamedOnce(order)
      /\ Listed(order) = DOMAIN cache.entries \ gone
      /\ gone \subseteq DOMAIN cache.entries
  BY <1>1, <1>5, CutFacts
<1>7. gone = {cache.order[i] : i \in 1 .. n} /\ order = SubSeq(cache.order, n + 1, Len(cache.order))
  OBVIOUS
<1> HIDE DEF gone, order
<1>8. /\ CacheOK(later) /\ KeepsEntries(cache, later)
      /\ DOMAIN later.entries = DOMAIN cache.entries \ gone
  BY <1>6, TakeOut
<1>9. later.order = order /\ later.total <= limit
  BY <1>5
<1> QED
  BY <1>4, <1>5, <1>7, <1>8, <1>9

\* A use of `key`, in the list of a cache or in the history of uses.
Renewed(order, key) == Append(Without(order, key), key)

\* `later` has the last part of `order`, and lost the entries of the first.
CutAt(order, n, keys, later) ==
  /\ later.order = SubSeq(order, n + 1, Len(order))
  /\ DOMAIN later.entries = keys \ {order[i] : i \in 1 .. n}

\* What put leaves: of the list with the key at its end, the last part.
LEMMA PutOK ==
  ASSUME NEW cache, CacheOK(cache), NEW key \in Keys, NEW entry \in MemoryEntry,
         entry.meta.key = key, NEW limit \in Nat
  PROVE  LET later == PutEntry(cache, key, entry, limit)
             order == Renewed(cache.order, key)
         IN  /\ CacheOK(later)
             /\ later.total <= limit
             /\ \A k \in DOMAIN later.entries :
                  \/ k = key /\ later.entries[k] = entry
                  \/ k \in DOMAIN cache.entries /\ later.entries[k] = cache.entries[k]
             /\ \E n \in 0 .. Len(order) :
                  CutAt(order, n, DOMAIN cache.entries \cup {key}, later)
<1> DEFINE rest == RemoveEntry(cache, key)
           entries == Insert(rest.entries, key, entry)
           order == Renewed(cache.order, key)
           total == rest.total + entry.meta.len
           grown == [entries |-> entries, order |-> order, total |-> total]
           later == PutEntry(cache, key, entry, limit)
           old == DOMAIN cache.entries
<1>1. /\ CacheOK(rest) /\ KeepsEntries(cache, rest)
      /\ DOMAIN rest.entries = old \ {key}
      /\ rest.order = Without(cache.order, key)
  BY RemoveOK
<1>2. later = EvictToLimit(grown, limit)
  BY <1>1 DEF PutEntry, Renewed
<1>c. order = Append(rest.order, key)
  BY <1>1 DEF Renewed
<1> HIDE DEF rest, later
<1>3. /\ DOMAIN entries = old \cup {key}
      /\ \A k \in DOMAIN entries : entries[k] = IF k = key THEN entry ELSE rest.entries[k]
      /\ entries \in [DOMAIN entries -> MemoryEntry]
  <2>1. /\ DOMAIN entries = old \cup {key}
        /\ \A k \in DOMAIN entries : entries[k] = IF k = key THEN entry ELSE rest.entries[k]
    BY <1>1 DEF Insert
  <2>2. \A k \in DOMAIN entries : entries[k] \in MemoryEntry
    BY <1>1, <2>1 DEF CacheOK
  <2>3. entries = [k \in DOMAIN entries |-> entries[k]]
    BY DEF Insert
  <2> HIDE DEF entries
  <2> QED
    BY <2>1, <2>2, <2>3
<1> HIDE DEF entries
<1>4. /\ rest.order \in Seq(Keys) /\ NamedOnce(rest.order)
      /\ Listed(rest.order) = old \ {key}
      /\ rest.total = Bytes(rest, old \ {key}) /\ rest.total \in Nat
      /\ IsFiniteSet(old \ {key})
  BY <1>1, CacheFacts DEF CacheOK
<1> HIDE DEF order
<1>5. order \in Seq(Keys) /\ NamedOnce(order) /\ Listed(order) = old \cup {key}
  BY <1>4, <1>c, AppendFacts
<1>6. entry.meta.len \in Nat
  BY DEF MemoryEntry, Metadata
<1>7. /\ grown.entries = entries /\ grown.order = order /\ grown.total = total
      /\ grown = [entries |-> grown.entries, order |-> grown.order, total |-> grown.total]
  OBVIOUS
<1> HIDE DEF grown
<1>8. total = Bytes(grown, old \cup {key}) /\ total \in Nat
  <2>1. Bytes(grown, old \ {key}) = Bytes(rest, old \ {key})
    BY <1>3, <1>7, BytesAgree
  <2>2. grown.entries[key] = entry
    BY <1>3, <1>7
  <2>3. Sized(grown, {key}) /\ IsFiniteSet({key})
    BY <1>6, <2>2, FS_Singleton DEF Sized
  <2>4. Bytes(grown, {key}) = entry.meta.len
    BY <2>2, <2>3, BytesOfOne
  <2>5. Sized(grown, old \ {key})
    BY <1>1, <1>3, <1>7, CacheFacts DEF Sized
  <2> DEFINE others == old \ {key}
             all == old \cup {key}
  <2>6. others \cup {key} = all /\ others \cap {key} = {}
    OBVIOUS
  <2>7. /\ Bytes(grown, others) = rest.total /\ Sized(grown, others) /\ IsFiniteSet(others)
    BY <1>4, <2>1, <2>5
  <2> HIDE DEF others, all
  <2>8. Bytes(grown, others \cup {key}) = Bytes(grown, others) + Bytes(grown, {key})
    BY <2>3, <2>6, <2>7, BytesAdd
  <2>9. Bytes(grown, all) = rest.total + entry.meta.len
    BY <2>4, <2>6, <2>7, <2>8
  <2> QED
    BY <1>4, <1>6, <2>9 DEF all
<1> HIDE DEF total
<1>9. Accounted(grown)
  BY <1>3, <1>5, <1>7, <1>8 DEF Accounted, Listed, NamedOnce
<1>10. CacheOK(grown)
  BY <1>1, <1>3, <1>5, <1>7, <1>8, <1>9 DEF CacheOK
<1>11. /\ CacheOK(later) /\ KeepsEntries(grown, later) /\ later.total <= limit
  BY <1>2, <1>10, EvictOK
<1>a. \E n \in 0 .. Len(grown.order) :
        /\ later.order = SubSeq(grown.order, n + 1, Len(grown.order))
        /\ DOMAIN later.entries = DOMAIN grown.entries \ {grown.order[i] : i \in 1 .. n}
  BY <1>2, <1>10, EvictOK
<1>b. \E n \in 0 .. Len(order) : CutAt(order, n, old \cup {key}, later)
  <2>1. PICK n \in 0 .. Len(grown.order) :
           /\ later.order = SubSeq(grown.order, n + 1, Len(grown.order))
           /\ DOMAIN later.entries = DOMAIN grown.entries \ {grown.order[i] : i \in 1 .. n}
    BY <1>a
  <2>2. {grown.order[i] : i \in 1 .. n} = {order[i] : i \in 1 .. n}
    BY <1>7
  <2>3. DOMAIN grown.entries = old \cup {key}
    BY <1>3, <1>7
  <2> QED
    BY <1>7, <2>1, <2>2, <2>3 DEF CutAt
<1>12. ASSUME NEW k \in DOMAIN later.entries
       PROVE  \/ k = key /\ later.entries[k] = entry
              \/ k \in old /\ later.entries[k] = cache.entries[k]
  BY <1>1, <1>3, <1>7, <1>11 DEF KeepsEntries
<1> QED
  BY <1>11, <1>12, <1>b DEF later, order

-----------------------------------------------------------------------------
(* The inductive invariant                                                 *)

MemoryOK == CacheOK(memory) /\ memory.total <= MemoryLimit

\* The part of an entry a task with an open file writes.
Part(pc) == IF pc = "fillMeta" THEN "meta" ELSE "body"

\* Who refers to a file, and for which key and part: names, and tasks that
\* have it open.
Claims ==
  {<<directory[name], name[1], name[2]>> : name \in {n \in Names : directory[n] # None}}
    \cup {<<loader[l].inode, loader[l].key, Part(loader[l].pc)>> :
            l \in {m \in Loaders : loader[m].inode # None}}

MayHold(key, part) ==
  {Mixed, None} \cup
    IF part = "body" THEN Bodies ELSE {meta \in Metadata : meta.key = key /\ meta.len # 0}

FileOK(file, key, part) ==
  /\ file.text \in MayHold(key, part)
  /\ part = "body" /\ file.text = None => file.len = 0

\* All who refer to a file do so for the same key and part, and its text is
\* of that part.
DiskOK ==
  /\ directory \in [Names -> Inodes \cup {None}]
  /\ files \in [Inodes -> [text : Bodies \cup Metadata \cup {Mixed, None}, len : Nat]]
  /\ \A c \in Claims : FileOK(files[c[1]], c[2], c[3])
  /\ \A c, d \in Claims : c[1] = d[1] => c = d

\* The metadata a task read is usable for what it asked.
Usable(task) ==
  /\ task.meta \in Metadata
  /\ task.meta.key = task.key
  /\ Fresh(task.meta, task.since)

Received(task) ==
  /\ task.meta \in Metadata /\ task.meta.key = task.key
  /\ task.body \in Bodies /\ task.meta.body = task.body
  /\ task.meta.len = SizeOf[task.body]
  /\ task.source = "network"

Storing == {"remember", "openBody", "fillBody", "renameBody", "retryBody",
            "openMeta", "fillMeta", "renameMeta", "retryMeta"}

ReaderOK(task) ==
  /\ task \in Loader
  /\ task.pc # "idle" => task.key \in Keys
  /\ task.inode # None <=> task.pc \in {"fillBody", "fillMeta"}
  /\ task.pc \in {"readBody", "keep"} => Usable(task)
  /\ task.pc = "readBody" => task.meta.len # 0
  /\ task.pc = "keep" => task.body \in Bodies \cup {Mixed}
  /\ task.pc \in Storing => Received(task)
  /\ task.pc = "done" =>
       \/ Received(task)
       \/ /\ Usable(task) /\ task.meta.len <= task.limit
          /\ task.body \in Bodies \cup {Mixed}
          /\ task.source \in {"memory", "disk"}

CacheInv ==
  /\ MemoryOK
  /\ DiskOK
  /\ DOMAIN loader = Loaders /\ loader = [l \in Loaders |-> loader[l]]
  /\ \A l \in Loaders : ReaderOK(loader[l])
  /\ now \in 0 .. MaxNow /\ fetches \in 0 .. MaxFetches /\ used \in Seq(Keys)

-----------------------------------------------------------------------------
(* Steps that leave the files alone                                        *)

LEMMA Constants ==
  /\ SizeOf \in [Bodies -> Nat \ {0}]
  /\ \A limit \in Limits : limit \in Nat
  /\ MemoryLimit \in Nat /\ MaxDiskEntry \in Nat /\ MaxNow \in Nat /\ MaxFetches \in Nat
  /\ None # Mixed /\ None \notin Bodies /\ Mixed \notin Bodies
  /\ None \notin Metadata /\ Mixed \notin Metadata /\ None \notin Inodes
BY CacheAssumption

Positions == {"idle", "lookOnDisk", "readMeta", "readBody", "keep", "fetch", "remember",
              "openBody", "fillBody", "renameBody", "retryBody",
              "openMeta", "fillMeta", "renameMeta", "retryMeta", "done"}

\* A loader's task with another position, metadata, body or source.
LEMMA TaskWithPc ==
  ASSUME NEW task \in Loader,
         NEW x \in Positions
  PROVE  LET new == [task EXCEPT !.pc = x] IN
         /\ new \in Loader /\ new.pc = x
         /\ new.key = task.key /\ new.limit = task.limit /\ new.since = task.since /\ new.meta = task.meta
         /\ new.body = task.body /\ new.source = task.source /\ new.inode = task.inode
BY DEF Loader, Positions

LEMMA TaskWithMeta ==
  ASSUME NEW task \in Loader,
         NEW x \in Metadata \cup {None}
  PROVE  LET new == [task EXCEPT !.meta = x] IN
         /\ new \in Loader /\ new.meta = x
         /\ new.pc = task.pc /\ new.key = task.key /\ new.limit = task.limit /\ new.since = task.since
         /\ new.body = task.body /\ new.source = task.source /\ new.inode = task.inode
BY DEF Loader

LEMMA TaskWithBody ==
  ASSUME NEW task \in Loader,
         NEW x \in Bodies \cup {Mixed, None}
  PROVE  LET new == [task EXCEPT !.body = x] IN
         /\ new \in Loader /\ new.body = x
         /\ new.pc = task.pc /\ new.key = task.key /\ new.limit = task.limit /\ new.since = task.since
         /\ new.meta = task.meta /\ new.source = task.source /\ new.inode = task.inode
BY DEF Loader

LEMMA TaskWithSource ==
  ASSUME NEW task \in Loader,
         NEW x \in {"none", "memory", "disk", "network"}
  PROVE  LET new == [task EXCEPT !.source = x] IN
         /\ new \in Loader /\ new.source = x
         /\ new.pc = task.pc /\ new.key = task.key /\ new.limit = task.limit /\ new.since = task.since
         /\ new.meta = task.meta /\ new.body = task.body /\ new.inode = task.inode
BY DEF Loader

LEMMA IdleOK ==
  ReaderOK(Idle) /\ Idle.inode = None
BY Constants DEF ReaderOK, Idle, Loader, Storing

\* The claims of a state in which one task has no file open, or none of them.
LEMMA ClaimsShrink ==
  ASSUME UNCHANGED directory,
         \A l \in Loaders : loader'[l] = loader[l] \/ loader'[l].inode = None
  PROVE  Claims' \subseteq Claims
BY DEF Claims

LEMMA DiskStays ==
  ASSUME DiskOK, Claims' \subseteq Claims, UNCHANGED files,
         directory' \in [Names -> Inodes \cup {None}]
  PROVE  DiskOK'
BY DEF DiskOK

\* A task goes on without a file open, and the files stay.
LEMMA QuietStep ==
  ASSUME CacheInv, NEW l \in Loaders, NEW task, ReaderOK(task), task.inode = None,
         loader' = [loader EXCEPT ![l] = task], UNCHANGED disk, MemoryOK',
         UNCHANGED now, fetches' \in 0 .. MaxFetches, used' \in Seq(Keys)
  PROVE  CacheInv'
<1>1. /\ DOMAIN loader = Loaders
      /\ \A m \in Loaders : loader'[m] = IF m = l THEN task ELSE loader[m]
      /\ DOMAIN loader' = Loaders /\ loader' = [m \in Loaders |-> loader'[m]]
  BY DEF CacheInv
<1>2. Claims' \subseteq Claims
  BY <1>1, ClaimsShrink DEF disk
<1>3. DiskOK'
  BY <1>2, DiskStays DEF CacheInv, DiskOK, disk
<1>4. \A m \in Loaders : ReaderOK(loader'[m])
  BY <1>1 DEF CacheInv
<1>5. (\A m \in Loaders : ReaderOK(loader[m]))'
  BY <1>4 DEF ReaderOK, Loader, Usable, Received, Metadata, Fresh
<1> QED
  BY <1>1, <1>3, <1>5 DEF CacheInv

\* A task that goes on to another point with what it has.
LEMMA AdvanceStep ==
  ASSUME CacheInv, NEW l \in Loaders, NEW pc, Advance(l, pc),
         ReaderOK([loader[l] EXCEPT !.pc = pc]), pc \notin {"fillBody", "fillMeta"},
         UNCHANGED disk, MemoryOK', UNCHANGED <<now, fetches>>, used' \in Seq(Keys)
  PROVE  CacheInv'
<1> DEFINE task == [loader[l] EXCEPT !.pc = pc]
<1>1. loader' = [loader EXCEPT ![l] = task]
  BY DEF Advance
<1>2. loader[l] \in Loader
  BY DEF CacheInv, ReaderOK
<1>3. task.pc = pc
  BY <1>2 DEF Loader
<1>4. task.inode = None
  BY <1>3 DEF ReaderOK
<1>5. fetches' \in 0 .. MaxFetches
  BY DEF CacheInv
<1> HIDE DEF task
<1>6. ReaderOK(task)
  BY DEF task
<1> QED
  BY <1>1, <1>4, <1>5, <1>6, QuietStep

\* MemoryCache::get
LEMMA LookUpOK ==
  ASSUME NEW cache, CacheOK(cache), NEW key \in Keys, NEW time
  PROVE  LET found == LookUp(cache, key, time)
         IN  /\ CacheOK(found.cache) /\ found.cache.total <= cache.total
             /\ found.hit \in BOOLEAN
             /\ found.hit => /\ found.entry \in MemoryEntry /\ found.entry.meta.key = key
                             /\ Fresh(found.entry.meta, time)
<1> DEFINE found == LookUp(cache, key, time)
<1>0. cache.total \in Nat
  BY DEF CacheOK
<1>1. CASE key \notin DOMAIN cache.entries
  BY <1>0, <1>1 DEF LookUp
<1>2. CASE key \in DOMAIN cache.entries /\ Fresh(cache.entries[key].meta, time)
  BY <1>0, <1>2, TouchOK DEF LookUp, CacheOK
<1>3. CASE key \in DOMAIN cache.entries /\ ~Fresh(cache.entries[key].meta, time)
  BY <1>3, RemoveOK DEF LookUp
<1> QED
  BY <1>1, <1>2, <1>3

LEMMA UseOK ==
  ASSUME used \in Seq(Keys), NEW key \in Keys, Use(key)
  PROVE  used' \in Seq(Keys)
BY WithoutFacts, AppendFacts DEF Use

LEMMA StartReadInv ==
  ASSUME CacheInv, NEW l \in Loaders, NEW key \in Keys, NEW limit \in Limits,
         StartRead(l, key, limit)
  PROVE  CacheInv'
<1> DEFINE found == LookUp(memory, key, now)
           begun == [Idle EXCEPT !.key = key, !.limit = limit, !.since = now]
           task == IF ~found.hit THEN [begun EXCEPT !.pc = "lookOnDisk"]
                   ELSE IF found.entry.meta.len <= limit
                     THEN [begun EXCEPT !.pc = "done", !.meta = found.entry.meta,
                                        !.body = found.entry.body, !.source = "memory"]
                     ELSE [begun EXCEPT !.pc = "fetch"]
<1>1. /\ CacheOK(memory) /\ memory.total <= MemoryLimit /\ now \in 0 .. MaxNow
      /\ used \in Seq(Keys) /\ fetches \in 0 .. MaxFetches /\ memory.total \in Nat
  BY DEF CacheInv, MemoryOK, CacheOK
<1>2. /\ memory' = found.cache
      /\ loader' = [loader EXCEPT ![l] = task]
      /\ UNCHANGED <<disk, now, fetches>>
      /\ Use(key) \/ UNCHANGED used
  BY DEF StartRead
<1>3. /\ CacheOK(found.cache) /\ found.cache.total <= memory.total
      /\ found.hit \in BOOLEAN
      /\ found.hit => /\ found.entry \in MemoryEntry /\ found.entry.meta.key = key
                      /\ Fresh(found.entry.meta, now)
  BY <1>1, LookUpOK
<1>4. found.cache.total \in Nat
  BY <1>3 DEF CacheOK
<1> HIDE DEF found
<1>5. CacheOK(memory') /\ memory'.total <= MemoryLimit
  BY <1>1, <1>2, <1>3, <1>4, Constants
<1>6. MemoryOK'
  BY <1>5 DEF MemoryOK, CacheOK, Accounted, Bytes, BytesOf
<1>7. begun = [pc |-> "idle", key |-> key, limit |-> limit, since |-> now,
               meta |-> None, body |-> None, source |-> "none", inode |-> None]
  <2>1. [Idle EXCEPT !.key = key]
          = [pc |-> "idle", key |-> key, limit |-> 0, since |-> 0,
             meta |-> None, body |-> None, source |-> "none", inode |-> None]
    BY DEF Idle
  <2> DEFINE first == [Idle EXCEPT !.key = key]
  <2>2. begun = [[first EXCEPT !.limit = limit] EXCEPT !.since = now]
    OBVIOUS
  <2> HIDE DEF first
  <2>3. first = [pc |-> "idle", key |-> key, limit |-> 0, since |-> 0,
                 meta |-> None, body |-> None, source |-> "none", inode |-> None]
    BY <2>1 DEF first
  <2> HIDE DEF begun
  <2>4. [first EXCEPT !.limit = limit]
          = [pc |-> "idle", key |-> key, limit |-> limit, since |-> 0,
             meta |-> None, body |-> None, source |-> "none", inode |-> None]
    BY <2>3
  <2> QED
    BY <2>2, <2>4
<1> HIDE DEF begun
<1>8. ReaderOK(task) /\ task.inode = None
  <2>1. CASE ~found.hit
    <3>1. task = [pc |-> "lookOnDisk", key |-> key, limit |-> limit, since |-> now,
                  meta |-> None, body |-> None, source |-> "none", inode |-> None]
      BY <1>7, <2>1
    <3> HIDE DEF task
    <3> QED
      BY <1>1, <3>1, Constants DEF ReaderOK, Loader, Storing
  <2>2. CASE found.hit /\ found.entry.meta.len <= limit
    <3>1. task = [pc |-> "done", key |-> key, limit |-> limit, since |-> now,
                  meta |-> found.entry.meta, body |-> found.entry.body,
                  source |-> "memory", inode |-> None]
      BY <1>7, <2>2
    <3>2. found.entry.meta \in Metadata /\ found.entry.body \in Bodies \cup {Mixed}
      BY <1>3, <2>2 DEF MemoryEntry
    <3> HIDE DEF task
    <3>3. Usable(task) /\ task.meta.len <= task.limit
      BY <1>3, <2>2, <3>1, <3>2 DEF Usable
    <3> QED
      BY <1>1, <3>1, <3>2, <3>3, Constants DEF ReaderOK, Loader, Storing
  <2>3. CASE found.hit /\ ~(found.entry.meta.len <= limit)
    <3>1. task = [pc |-> "fetch", key |-> key, limit |-> limit, since |-> now,
                  meta |-> None, body |-> None, source |-> "none", inode |-> None]
      BY <1>7, <2>3
    <3> HIDE DEF task
    <3> QED
      BY <1>1, <3>1, Constants DEF ReaderOK, Loader, Storing
  <2> QED
    BY <1>3, <2>1, <2>2, <2>3
<1> HIDE DEF task
<1>9. used' \in Seq(Keys)
  BY <1>1, <1>2, UseOK
<1> QED
  BY <1>1, <1>2, <1>6, <1>8, <1>9, QuietStep DEF disk

\* What a task knows stays known when its program counter moves.
LEMMA TaskFacts ==
  ASSUME CacheInv, NEW l \in Loaders
  PROVE  /\ loader[l] \in Loader /\ ReaderOK(loader[l])
         /\ loader[l].pc # "idle" => loader[l].key \in Keys
         /\ loader[l].pc \notin {"fillBody", "fillMeta"} => loader[l].inode = None
         /\ loader[l].pc \in Storing => Received(loader[l])
         /\ MemoryOK /\ DiskOK
         /\ now \in 0 .. MaxNow /\ fetches \in 0 .. MaxFetches /\ used \in Seq(Keys)
BY DEF CacheInv, ReaderOK

LEMMA MemoryStays ==
  ASSUME MemoryOK, UNCHANGED memory
  PROVE  MemoryOK'
BY DEF MemoryOK, CacheOK, Accounted, Bytes, BytesOf

\* The claim behind a name.
LEMMA NameClaims ==
  ASSUME DiskOK, NEW key \in Keys, NEW part \in {"body", "meta"}, NEW kind \in {"temp", "final"},
         directory[<<key, part, kind>>] # None
  PROVE  LET i == directory[<<key, part, kind>>]
         IN  i \in Inodes /\ <<i, key, part>> \in Claims /\ FileOK(files[i], key, part)
<1> DEFINE name == <<key, part, kind>>
           i == directory[name]
           claim == <<i, key, part>>
<1>1. name \in Names /\ name[1] = key /\ name[2] = part
  BY DEF Names
<1>2. i \in Inodes
  BY <1>1 DEF DiskOK
<1>3. claim \in Claims
  BY <1>1 DEF Claims
<1>4. claim[1] = i /\ claim[2] = key /\ claim[3] = part
  OBVIOUS
<1>5. \A c \in Claims : FileOK(files[c[1]], c[2], c[3])
  BY DEF DiskOK
<1> HIDE DEF claim, i
<1>6. FileOK(files[i], key, part)
  BY <1>3, <1>4, <1>5
<1> QED
  BY <1>2, <1>3, <1>6 DEF claim, i

LEMMA BodyFileExistsInv ==
  ASSUME CacheInv, NEW l \in Loaders, BodyFileExists(l)
  PROVE  CacheInv'
<1> DEFINE pc == IF FileOf(l, "body") = None THEN "fetch" ELSE "readMeta"
<1>1. /\ loader[l].pc = "lookOnDisk" /\ Advance(l, pc) /\ UNCHANGED <<memory, disk, now, fetches, used>>
      /\ pc \in {"fetch", "readMeta"}
  BY DEF BodyFileExists
<1> HIDE DEF pc
<1>2. ReaderOK([loader[l] EXCEPT !.pc = pc])
  BY <1>1, TaskFacts DEF ReaderOK, Loader, Storing
<1> QED
  BY <1>1, <1>2, TaskFacts, MemoryStays, AdvanceStep

LEMMA ReadMetaInv ==
  ASSUME CacheInv, NEW l \in Loaders, ReadMeta(l)
  PROVE  CacheInv'
<1> DEFINE i == FileOf(l, "meta")
           meta == files[i].text
           task == [loader[l] EXCEPT !.pc = "readBody", !.meta = meta]
<1>1. loader[l].pc = "readMeta" /\ UNCHANGED <<memory, disk, now, fetches, used>>
  BY DEF ReadMeta
<1>2. CASE Advance(l, "fetch")
  BY <1>1, <1>2, TaskFacts, MemoryStays, AdvanceStep DEF ReaderOK, Loader, Storing
<1>3. CASE /\ i # None /\ meta \in Metadata /\ Readable(meta, loader[l].since)
           /\ loader' = [loader EXCEPT ![l].pc = "readBody", ![l].meta = meta]
  <2>1. loader' = [loader EXCEPT ![l] = task]
    BY <1>3
  <2>2. FileOK(files[i], loader[l].key, "meta")
    BY <1>1, <1>3, TaskFacts, NameClaims DEF FileOf
  <2>3. meta.key = loader[l].key /\ meta.len # 0 /\ Fresh(meta, loader[l].since)
    BY <1>3, <2>2, Constants DEF FileOK, MayHold, Readable
  <2> HIDE DEF meta
  <2> DEFINE old == loader[l]
  <2>4. old \in Loader /\ old.inode = None /\ old.key \in Keys /\ meta \in Metadata
    BY <1>1, <1>3, TaskFacts
  <2>5. /\ task \in Loader /\ task.pc = "readBody" /\ task.meta = meta
        /\ task.inode = None /\ task.key = old.key /\ task.since = old.since
    <3>1. task = [old EXCEPT !.pc = "readBody", !.meta = meta]
      OBVIOUS
    <3> HIDE DEF task, old
    <3> QED
      BY <2>4, <3>1 DEF Loader
  <2>6. ReaderOK(task) /\ task.inode = None
    <3> HIDE DEF task
    <3> QED
      BY <2>3, <2>4, <2>5 DEF ReaderOK, Storing, Usable
  <2> HIDE DEF task
  <2> QED
    BY <1>1, <2>1, <2>6, TaskFacts, MemoryStays, QuietStep
<1> QED
  BY <1>2, <1>3 DEF ReadMeta

LEMMA ReadBodyInv ==
  ASSUME CacheInv, NEW l \in Loaders, ReadBody(l)
  PROVE  CacheInv'
<1> DEFINE i == FileOf(l, "body")
           body == files[i].text
           task == IF i # None /\ BodyFits(files[i], loader[l].meta)
                     THEN [loader[l] EXCEPT !.pc = "keep", !.body = body]
                     ELSE [loader[l] EXCEPT !.pc = "fetch", !.meta = None]
<1>1. /\ loader[l].pc = "readBody" /\ UNCHANGED <<memory, disk, now, fetches, used>>
      /\ loader' = [loader EXCEPT ![l] = task]
  BY DEF ReadBody
<1>2. Usable(loader[l]) /\ loader[l].meta \in Metadata
  BY <1>1, TaskFacts DEF ReaderOK, Usable
<1>3. CASE i # None /\ BodyFits(files[i], loader[l].meta)
  <2>1. loader[l].key \in Keys /\ DiskOK
    BY <1>1, TaskFacts
  <2>2. FileOK(files[i], loader[l].key, "body")
    BY <1>3, <2>1, NameClaims DEF FileOf
  <2>3. files[i].len # 0
    BY <1>1, <1>3, TaskFacts DEF BodyFits, ReaderOK
  <2>4. body \in Bodies \cup {Mixed}
    BY <2>2, <2>3 DEF FileOK, MayHold
  <2>5. task = [loader[l] EXCEPT !.pc = "keep", !.body = body]
    BY <1>3
  <2> DEFINE old == loader[l]
  <2> HIDE DEF body, task
  <2>7. old \in Loader /\ old.inode = None /\ old.key \in Keys /\ Usable(old)
    BY <1>1, <1>2, TaskFacts
  <2>8. /\ task \in Loader /\ task.pc = "keep" /\ task.body = body /\ task.meta = old.meta
        /\ task.inode = None /\ task.key = old.key /\ task.since = old.since
    <3> DEFINE remaining == [old EXCEPT !.pc = "keep"]
    <3>1. remaining \in Loader /\ task = [remaining EXCEPT !.body = body]
      BY <2>5, <2>7, TaskWithPc DEF Positions
    <3>2. /\ remaining.pc = "keep" /\ remaining.meta = old.meta /\ remaining.inode = None
          /\ remaining.key = old.key /\ remaining.since = old.since
      BY <2>7, TaskWithPc DEF Positions
    <3>3. body \in Bodies \cup {Mixed, None}
      BY <2>4
    <3> HIDE DEF old, remaining
    <3> QED
      BY <3>1, <3>2, <3>3, TaskWithBody
  <2>6. ReaderOK(task) /\ task.inode = None
    <3> HIDE DEF old
    <3> QED
      BY <2>4, <2>7, <2>8 DEF ReaderOK, Storing, Usable
  <2> QED
    BY <1>1, <2>6, TaskFacts, MemoryStays, QuietStep
<1>4. CASE ~(i # None /\ BodyFits(files[i], loader[l].meta))
  <2>1. task = [loader[l] EXCEPT !.pc = "fetch", !.meta = None]
    BY <1>4
  <2> DEFINE was == loader[l]
  <2> HIDE DEF task
  <2>3. was \in Loader /\ was.inode = None /\ was.key \in Keys
    BY <1>1, TaskFacts
  <2>4. /\ task \in Loader /\ task.pc = "fetch" /\ task.inode = None /\ task.key = was.key
    <3> DEFINE sent == [was EXCEPT !.pc = "fetch"]
    <3>1. sent \in Loader /\ task = [sent EXCEPT !.meta = None]
      BY <2>1, <2>3, TaskWithPc DEF Positions
    <3>2. sent.pc = "fetch" /\ sent.inode = None /\ sent.key = was.key
      BY <2>3, TaskWithPc DEF Positions
    <3> HIDE DEF was, sent
    <3> QED
      BY <3>1, <3>2, TaskWithMeta
  <2>2. ReaderOK(task) /\ task.inode = None
    <3> HIDE DEF was
    <3> QED
      BY <2>3, <2>4 DEF ReaderOK, Storing
  <2> QED
    BY <1>1, <2>2, TaskFacts, MemoryStays, QuietStep
<1> QED
  BY <1>3, <1>4

\* write_memory
LEMMA RememberOK ==
  ASSUME CacheInv, NEW key \in Keys, NEW meta \in Metadata, meta.key = key,
         NEW body \in Bodies \cup {Mixed}, Remember(key, meta, body)
  PROVE  MemoryOK' /\ used' \in Seq(Keys)
<1> DEFINE entry == [meta |-> meta, body |-> body]
<1>1. CacheOK(memory) /\ MemoryOK /\ used \in Seq(Keys)
  BY DEF CacheInv, MemoryOK
<1>2. CASE memory' = PutEntry(memory, key, entry, MemoryLimit) /\ Use(key)
  <2>1. entry \in MemoryEntry /\ entry.meta.key = key
    BY DEF MemoryEntry
  <2> HIDE DEF entry
  <2>2. MemoryLimit \in Nat
    BY Constants
  <2>3. CacheOK(memory') /\ memory'.total <= MemoryLimit
    BY <1>1, <1>2, <2>1, <2>2, PutOK
  <2> QED
    BY <1>1, <1>2, <2>3, UseOK DEF MemoryOK, CacheOK, Accounted, Bytes, BytesOf
<1>3. CASE UNCHANGED <<memory, used>>
  BY <1>1, <1>3, MemoryStays
<1> QED
  BY <1>2, <1>3 DEF Remember

LEMMA KeepFromDiskInv ==
  ASSUME CacheInv, NEW l \in Loaders, KeepFromDisk(l)
  PROVE  CacheInv'
<1> DEFINE old == loader[l]
           task == IF old.meta.len <= old.limit
                     THEN [old EXCEPT !.pc = "done", !.source = "disk"]
                     ELSE [old EXCEPT !.pc = "fetch", !.meta = None, !.body = None]
<1>1. /\ old.pc = "keep" /\ UNCHANGED <<disk, now, fetches>>
      /\ Remember(old.key, old.meta, old.body)
      /\ loader' = [loader EXCEPT ![l] = task]
  BY DEF KeepFromDisk
<1>2. /\ Usable(old) /\ old.body \in Bodies \cup {Mixed} /\ old.key \in Keys
      /\ old.meta \in Metadata /\ old.meta.key = old.key
  BY <1>1, TaskFacts DEF ReaderOK, Usable
<1>3. MemoryOK' /\ used' \in Seq(Keys)
  BY <1>1, <1>2, RememberOK
<1>4. CASE old.meta.len <= old.limit
  <2>1. task = [old EXCEPT !.pc = "done", !.source = "disk"]
    BY <1>4
  <2> HIDE DEF task
  <2>3. old \in Loader /\ old.inode = None
    BY <1>1, TaskFacts
  <2> HIDE DEF old
  <2>4. /\ task \in Loader /\ task.pc = "done" /\ task.source = "disk" /\ task.inode = None
        /\ task.key = old.key /\ task.meta = old.meta /\ task.since = old.since
        /\ task.body = old.body /\ task.limit = old.limit
    BY <2>1, <2>3 DEF Loader
  <2>2. ReaderOK(task) /\ task.inode = None
    BY <1>2, <1>4, <2>4 DEF ReaderOK, Storing, Usable
  <2> QED
    BY <1>1, <1>3, <2>2, TaskFacts, QuietStep
<1>5. CASE ~(old.meta.len <= old.limit)
  <2>1. task = [old EXCEPT !.pc = "fetch", !.meta = None, !.body = None]
    BY <1>5
  <2> DEFINE was == old
  <2> HIDE DEF task
  <2>3. was \in Loader /\ was.inode = None /\ was.key \in Keys
    BY <1>1, TaskFacts
  <2>4. /\ task \in Loader /\ task.pc = "fetch" /\ task.inode = None /\ task.key = was.key
    <3> DEFINE sent == [was EXCEPT !.pc = "fetch"]
               plain == [sent EXCEPT !.meta = None]
    <3>1. sent \in Loader /\ task = [plain EXCEPT !.body = None]
      BY <2>1, <2>3, TaskWithPc DEF Positions
    <3>2. sent.pc = "fetch" /\ sent.inode = None /\ sent.key = was.key
      BY <2>3, TaskWithPc DEF Positions
    <3> HIDE DEF was, sent
    <3>3. /\ plain \in Loader
          /\ plain.pc = "fetch" /\ plain.inode = None /\ plain.key = was.key
      BY <3>1, <3>2, TaskWithMeta
    <3> HIDE DEF plain
    <3> QED
      BY <3>1, <3>3, TaskWithBody
  <2>2. ReaderOK(task) /\ task.inode = None
    <3> HIDE DEF was
    <3> QED
      BY <2>3, <2>4 DEF ReaderOK, Storing
  <2> QED
    BY <1>1, <1>3, <2>2, TaskFacts, QuietStep
<1> QED
  BY <1>4, <1>5

LEMMA ReceiveInv ==
  ASSUME CacheInv, NEW l \in Loaders, NEW body \in Bodies, NEW lifetime \in 0 .. 1,
         NEW revalidate \in BOOLEAN, Receive(l, body, lifetime, revalidate)
  PROVE  CacheInv'
<1> DEFINE old == loader[l]
           pc == IF lifetime > 0 /\ SizeOf[body] <= MaxDiskEntry THEN "remember" ELSE "done"
           meta == [key |-> old.key, body |-> body, len |-> SizeOf[body],
                    expires |-> now + lifetime, revalidate |-> revalidate]
           task == [old EXCEPT !.pc = pc, !.meta = meta, !.body = body, !.source = "network"]
<1>1. /\ old.pc = "fetch" /\ fetches < MaxFetches /\ fetches' = fetches + 1
      /\ loader' = [loader EXCEPT ![l] = task]
      /\ UNCHANGED <<memory, disk, now, used>>
      /\ pc \in {"remember", "done"}
  BY DEF Receive
<1>2. old.key \in Keys /\ now \in Nat /\ SizeOf[body] \in Nat \ {0}
  BY <1>1, TaskFacts, Constants
<1>3. now + lifetime \in Nat
  BY <1>2
<1>4. meta \in Metadata /\ meta.key = old.key /\ meta.body = body /\ meta.len = SizeOf[body]
  BY <1>2, <1>3 DEF Metadata
<1> HIDE DEF meta, pc
<1>5. old \in Loader /\ old.inode = None
  BY <1>1, TaskFacts
<1>6. /\ task.pc = pc /\ task.meta = meta /\ task.body = body /\ task.source = "network"
      /\ task.key = old.key /\ task.inode = None /\ task \in Loader
  <2> DEFINE sent == [old EXCEPT !.pc = pc]
             told == [sent EXCEPT !.meta = meta]
             full == [told EXCEPT !.body = body]
  <2>1. pc \in {"remember", "done"} /\ task = [full EXCEPT !.source = "network"]
    BY <1>1
  <2>2. meta \in Metadata \cup {None} /\ body \in Bodies \cup {Mixed, None}
    BY <1>4
  <2>6. pc \in Positions
    BY <2>1 DEF Positions
  <2> HIDE DEF old, task
  <2>3. sent \in Loader /\ sent.pc = pc /\ sent.key = old.key /\ sent.inode = None
    BY <1>5, <2>6, TaskWithPc
  <2> HIDE DEF sent
  <2>4. /\ told \in Loader /\ told.pc = pc /\ told.key = old.key /\ told.inode = None
        /\ told.meta = meta
    BY <2>2, <2>3, TaskWithMeta
  <2> HIDE DEF told
  <2>5. /\ full \in Loader /\ full.pc = pc /\ full.key = old.key /\ full.inode = None
        /\ full.meta = meta /\ full.body = body
    BY <2>2, <2>4, TaskWithBody
  <2> HIDE DEF full
  <2> QED
    BY <2>1, <2>5, TaskWithSource
<1> HIDE DEF task
<1>7. Received(task)
  BY <1>4, <1>6 DEF Received
<1>8. ReaderOK(task)
  BY <1>1, <1>2, <1>6, <1>7 DEF ReaderOK, Storing
<1>9. fetches' \in 0 .. MaxFetches
  BY <1>1, TaskFacts, Constants
<1> QED
  BY <1>1, <1>6, <1>8, <1>9, TaskFacts, MemoryStays, QuietStep

\* A fetch that fails and a response that is taken leave the task idle.
LEMMA BecomesIdleInv ==
  ASSUME CacheInv, NEW l \in Loaders, FetchFails(l) \/ Return(l)
  PROVE  CacheInv'
<1>1. loader' = [loader EXCEPT ![l] = Idle] /\ UNCHANGED <<memory, disk, now, fetches, used>>
  BY DEF FetchFails, Return
<1> QED
  BY <1>1, IdleOK, TaskFacts, MemoryStays, QuietStep

LEMMA RememberResponseInv ==
  ASSUME CacheInv, NEW l \in Loaders, RememberResponse(l)
  PROVE  CacheInv'
<1>1. /\ loader[l].pc = "remember" /\ Advance(l, "openBody") /\ UNCHANGED <<disk, now, fetches>>
      /\ Remember(loader[l].key, loader[l].meta, loader[l].body)
  BY DEF RememberResponse
<1>2. Received(loader[l]) /\ loader[l].key \in Keys
  BY <1>1, TaskFacts DEF Storing
<1>3. MemoryOK' /\ used' \in Seq(Keys)
  BY <1>1, <1>2, RememberOK DEF Received
<1>4. ReaderOK([loader[l] EXCEPT !.pc = "openBody"])
  BY <1>1, <1>2, TaskFacts DEF ReaderOK, Loader, Storing, Received
<1> QED
  BY <1>1, <1>3, <1>4, AdvanceStep

LEMMA DiskFailsInv ==
  ASSUME CacheInv, NEW l \in Loaders, DiskFails(l)
  PROVE  CacheInv'
<1>1. /\ loader[l].pc \in {"openBody", "openMeta"} /\ Advance(l, "done")
      /\ UNCHANGED <<memory, disk, now, fetches, used>>
  BY DEF DiskFails
<1>2. Received(loader[l])
  BY <1>1, TaskFacts DEF Storing
<1>3. ReaderOK([loader[l] EXCEPT !.pc = "done"])
  BY <1>1, <1>2, TaskFacts DEF ReaderOK, Loader, Storing, Received
<1> QED
  BY <1>1, <1>3, TaskFacts, MemoryStays, AdvanceStep

LEMMA TickInv ==
  ASSUME CacheInv, Tick
  PROVE  CacheInv'
<1>1. now' \in 0 .. MaxNow /\ UNCHANGED <<memory, directory, files, loader, fetches, used>>
  BY Constants DEF CacheInv, Tick, disk
<1>2. Claims' = Claims
  BY <1>1 DEF Claims
<1>3. MemoryOK' /\ DiskOK'
  BY <1>1, <1>2, MemoryStays DEF CacheInv, DiskOK
<1> QED
  BY <1>1, <1>3 DEF CacheInv, ReaderOK, Loader, Usable, Received

LEMMA RestartInv ==
  ASSUME CacheInv, NEW clear \in BOOLEAN, Restart(clear)
  PROVE  CacheInv'
<1>1. /\ memory' = EmptyCache /\ loader' = [l \in Loaders |-> Idle]
      /\ directory' = IF clear THEN [name \in Names |-> None] ELSE directory
      /\ UNCHANGED <<files, now, fetches, used>>
  BY DEF Restart
<1>2. CacheOK(memory') /\ memory'.total <= MemoryLimit
  BY <1>1, EmptyCacheOK, Constants
<1>3. MemoryOK'
  BY <1>2 DEF MemoryOK, CacheOK, Accounted, Bytes, BytesOf
<1>4. \A l \in Loaders : loader'[l] = Idle
  BY <1>1
<1>5. /\ \A name \in Names : directory'[name] # None => directory'[name] = directory[name]
      /\ directory' \in [Names -> Inodes \cup {None}]
  BY <1>1 DEF CacheInv, DiskOK
<1>6. Claims' \subseteq Claims
  BY <1>4, <1>5, IdleOK DEF Claims
<1>7. DiskOK'
  BY <1>1, <1>5, <1>6, DiskStays DEF CacheInv
<1>8. (\A l \in Loaders : ReaderOK(loader[l]))'
  BY <1>4, IdleOK DEF ReaderOK, Loader, Usable, Received
<1>9. DOMAIN loader' = Loaders /\ loader' = [l \in Loaders |-> loader'[l]]
  BY <1>1
<1> QED
  BY <1>1, <1>3, <1>7, <1>8, <1>9 DEF CacheInv

-----------------------------------------------------------------------------
(* Steps that write files                                                  *)

\* There are four names for each key.
LEMMA FiniteNames ==
  IsFiniteSet(Names)
<1> DEFINE parts == {"body", "meta"}
           kinds == {"temp", "final"}
           pairs == Keys \X parts
           nested == pairs \X kinds
           map == [p \in nested |-> <<p[1][1], p[1][2], p[2]>>]
<1>1. IsFiniteSet(parts) /\ IsFiniteSet(kinds)
  <2>1. IsFiniteSet({"body"}) /\ IsFiniteSet({"temp"})
    BY FS_Singleton
  <2>2. IsFiniteSet({"body"} \cup {"meta"}) /\ IsFiniteSet({"temp"} \cup {"final"})
    BY <2>1, FS_AddElement
  <2>3. parts = {"body"} \cup {"meta"} /\ kinds = {"temp"} \cup {"final"}
    OBVIOUS
  <2> QED
    BY <2>2, <2>3
<1>2. \A name \in Names : \E p \in nested : map[p] = name
  <2> SUFFICES ASSUME NEW name \in Names
               PROVE  \E p \in nested : map[p] = name
    OBVIOUS
  <2>0. PICK key \in Keys, part \in parts, kind \in kinds : name = <<key, part, kind>>
    BY DEF Names
  <2>1. <<<<key, part>>, kind>> \in nested
    BY <2>0
  <2>2. map[<<<<key, part>>, kind>>] = name
    BY <2>0, <2>1
  <2> QED
    BY <2>1, <2>2
<1>3. \A p \in nested : map[p] \in Names
  BY DEF Names
<1>4. map \in Surjection(nested, Names)
  BY <1>2, <1>3 DEF Surjection
<1> HIDE DEF parts, kinds, map
<1>5. IsFiniteSet(pairs)
  BY <1>1, FS_Product, CacheAssumption
<1> HIDE DEF pairs
<1>6. IsFiniteSet(nested)
  BY <1>1, <1>5, FS_Product
<1> HIDE DEF nested
<1> QED
  BY <1>4, <1>6, FS_Surjection

\* Some file is free whenever a task without an open one needs it.
LEMMA SomeInodeIsFree ==
  ASSUME CacheInv, NEW l \in Loaders, loader[l].inode = None
  PROVE  \E i \in Inodes : ~InUse(i)
<1> SUFFICES ASSUME \A i \in Inodes : InUse(i)
             PROVE  FALSE
  OBVIOUS
<1> DEFINE others == Loaders \ {l}
           k == Cardinality(Names)
           m == Cardinality(Loaders)
           held == {directory[name] : name \in Names}
           open == {loader[a].inode : a \in others}
           byName == [name \in Names |-> directory[name]]
           byTask == [a \in others |-> loader[a].inode]
<1>1. IsFiniteSet(Names) /\ IsFiniteSet(others) /\ k \in Nat /\ m \in Nat
      /\ Cardinality(others) = m - 1
  BY FiniteNames, FS_RemoveElement, FS_CardinalityType, CacheAssumption
<1>2. \A i \in Inodes : i \in held \cup open
  BY Constants DEF InUse
<1>3. byName \in Surjection(Names, held) /\ byTask \in Surjection(others, open)
  BY DEF Surjection
<1>4. Cardinality(Inodes) = k + m /\ k + m \in Nat
  <2>1. Inodes = 1 .. k + m
    BY DEF Inodes
  <2> HIDE DEF k, m
  <2>2. k + m \in Nat
    BY <1>1
  <2> QED
    BY <2>1, <2>2, FS_Interval
<1> HIDE DEF others, k, held, open, byName, byTask
<1>5. IsFiniteSet(held) /\ Cardinality(held) <= k
  BY <1>1, <1>3, FS_Surjection DEF k
<1>6. IsFiniteSet(open) /\ Cardinality(open) <= m - 1
  BY <1>1, <1>3, FS_Surjection
<1> HIDE DEF m
<1>7. /\ IsFiniteSet(held \cup open) /\ IsFiniteSet(held \cap open)
      /\ Cardinality(held \cup open)
           = Cardinality(held) + Cardinality(open) - Cardinality(held \cap open)
  BY <1>5, <1>6, FS_Union, FS_Intersection
<1>8. /\ Cardinality(held) \in Nat /\ Cardinality(open) \in Nat
      /\ Cardinality(held \cap open) \in Nat
  BY <1>5, <1>6, <1>7, FS_CardinalityType
<1>9. Cardinality(held \cup open) < k + m
  BY <1>1, <1>5, <1>6, <1>7, <1>8
<1>10. Inodes \in SUBSET (held \cup open)
  BY <1>2
<1>11. Cardinality(Inodes) <= Cardinality(held \cup open)
  BY <1>7, <1>10, FS_Subset
<1> QED
  BY <1>4, <1>7, <1>8, <1>9, <1>11

\* Writing to a file whose only claims are those of the writer's key and part.
LEMMA WriteDisk ==
  ASSUME DiskOK, NEW i \in Inodes, NEW key, NEW part, NEW file,
         file \in [text : Bodies \cup Metadata \cup {Mixed, None}, len : Nat],
         FileOK(file, key, part),
         \A c \in Claims : c[1] = i => c = <<i, key, part>>,
         Claims' \subseteq Claims \cup {<<i, key, part>>},
         files' = [files EXCEPT ![i] = file],
         directory' \in [Names -> Inodes \cup {None}]
  PROVE  DiskOK'
<1> DEFINE claim == <<i, key, part>>
<1>1. claim[1] = i /\ claim[2] = key /\ claim[3] = part
  OBVIOUS
<1>2. /\ files' \in [Inodes -> [text : Bodies \cup Metadata \cup {Mixed, None}, len : Nat]]
      /\ files'[i] = file
      /\ \A j : j # i => files'[j] = files[j]
  BY DEF DiskOK
<1> HIDE DEF claim
<1>3. ASSUME NEW c \in Claims'
      PROVE  FileOK(files'[c[1]], c[2], c[3]) /\ (c[1] = i => c = claim)
  <2>1. CASE c = claim
    BY <1>1, <1>2, <2>1
  <2>2. CASE c \in Claims /\ c # claim
    BY <1>2, <2>2 DEF claim, DiskOK
  <2> QED
    BY <2>1, <2>2 DEF claim
<1>4. ASSUME NEW c \in Claims', NEW d \in Claims', c[1] = d[1]
      PROVE  c = d
  <2>1. CASE c[1] = i
    BY <1>3, <1>4, <2>1
  <2>2. CASE c[1] # i
    BY <1>1, <1>4, <2>2 DEF claim, DiskOK
  <2> QED
    BY <2>1, <2>2
<1>5. (\A c \in Claims : FileOK(files[c[1]], c[2], c[3]))'
  BY <1>3 DEF FileOK, MayHold, Metadata
<1>6. (\A c, d \in Claims : c[1] = d[1] => c = d)'
  BY <1>4
<1> QED
  BY <1>2, <1>5, <1>6 DEF DiskOK

\* The rest of the invariant, where a task writes.
LEMMA WritingStep ==
  ASSUME CacheInv, NEW l \in Loaders, NEW task, ReaderOK(task),
         loader' = [loader EXCEPT ![l] = task], DiskOK',
         UNCHANGED <<memory, now, fetches, used>>
  PROVE  CacheInv'
<1>1. /\ \A m \in Loaders : loader'[m] = IF m = l THEN task ELSE loader[m]
      /\ DOMAIN loader' = Loaders /\ loader' = [m \in Loaders |-> loader'[m]]
  BY DEF CacheInv
<1>2. \A m \in Loaders : ReaderOK(loader'[m])
  BY <1>1 DEF CacheInv
<1>3. (\A m \in Loaders : ReaderOK(loader[m]))'
  BY <1>2 DEF ReaderOK, Loader, Usable, Received, Metadata, Fresh
<1>4. MemoryOK'
  BY MemoryStays DEF CacheInv
<1> QED
  BY <1>1, <1>3, <1>4 DEF CacheInv

\* The files a writer may hold open.
LEMMA OpenClaims ==
  ASSUME CacheInv, NEW l \in Loaders, loader[l].inode # None
  PROVE  LET i == loader[l].inode
             claim == <<i, loader[l].key, Part(loader[l].pc)>>
         IN  i \in Inodes /\ claim \in Claims /\ (\A c \in Claims : c[1] = i => c = claim)
<1> DEFINE i == loader[l].inode
           claim == <<i, loader[l].key, Part(loader[l].pc)>>
<1>1. claim \in Claims /\ claim[1] = i
  BY DEF Claims
<1>2. i \in Inodes
  BY TaskFacts DEF Loader
<1>3. \A c, d \in Claims : c[1] = d[1] => c = d
  BY DEF CacheInv, DiskOK
<1> HIDE DEF claim, i
<1>4. \A c \in Claims : c[1] = i => c = claim
  BY <1>1, <1>3
<1> QED
  BY <1>1, <1>2, <1>4 DEF claim, i

LEMMA OpenTempInv ==
  ASSUME CacheInv, NEW l \in Loaders, NEW part \in {"body", "meta"}, OpenTemp(l, part)
  PROVE  /\ CacheInv'
         /\ \E i \in Inodes :
              /\ loader'[l].inode = i /\ files' = [files EXCEPT ![i] = EmptyFile]
              /\ Claims' \subseteq Claims \cup {<<i, loader[l].key, part>>}
              /\ \A c \in Claims : c[1] = i => c = <<i, loader[l].key, part>>
<1> DEFINE old == loader[l]
           key == old.key
           name == <<key, part, "temp">>
           i == IF directory[name] # None THEN directory[name]
                ELSE CHOOSE j \in Inodes : ~InUse(j)
           pc == IF part = "body" THEN "fillBody" ELSE "fillMeta"
           task == [old EXCEPT !.pc = pc, !.inode = i]
           claim == <<i, key, part>>
<1>1. /\ old.pc = IF part = "body" THEN "openBody" ELSE "openMeta"
      /\ directory' = [directory EXCEPT ![name] = i]
      /\ files' = [files EXCEPT ![i] = EmptyFile]
      /\ loader' = [loader EXCEPT ![l] = task]
      /\ UNCHANGED <<memory, now, fetches, used>>
  BY DEF OpenTemp
<1>2. /\ old \in Loader /\ old.inode = None /\ key \in Keys /\ Received(old) /\ DiskOK
      /\ name \in Names
  BY <1>1, TaskFacts DEF Storing, Names
<1>3. i \in Inodes /\ \A c \in Claims : c[1] = i => c = claim
  <2>1. CASE directory[name] # None
    <3>1. i = directory[name]
      BY <2>1
    <3>2. i \in Inodes /\ claim \in Claims
      BY <1>2, <2>1, <3>1, NameClaims
    <3>3. claim[1] = i
      OBVIOUS
    <3> HIDE DEF claim, i
    <3> QED
      BY <1>2, <3>2, <3>3 DEF DiskOK
  <2>2. CASE directory[name] = None
    <3>1. i = CHOOSE j \in Inodes : ~InUse(j)
      BY <2>2
    <3>2. \E j \in Inodes : ~InUse(j)
      BY <1>2, SomeInodeIsFree
    <3> HIDE DEF i, claim
    <3>3. i \in Inodes /\ ~InUse(i)
      BY <3>1, <3>2
    <3>4. \A c \in Claims : c[1] # i
      BY <3>3 DEF InUse, Claims
    <3> QED
      BY <3>3, <3>4
  <2> QED
    BY <2>1, <2>2
<1> HIDE DEF i
<1>4. i # None
  BY <1>3, Constants
<1>5. /\ task \in Loader /\ task.pc = pc /\ task.inode = i /\ task.key = key
      /\ Received(task) /\ Part(pc) = part
  BY <1>2, <1>3 DEF Loader, Received, Part
<1>6. ReaderOK(task)
  BY <1>2, <1>4, <1>5 DEF ReaderOK, Storing
<1>7. /\ \A n \in Names : directory'[n] = IF n = name THEN i ELSE directory[n]
      /\ directory' \in [Names -> Inodes \cup {None}]
  BY <1>1, <1>2, <1>3 DEF DiskOK
<1>8. \A m \in Loaders : loader'[m] = IF m = l THEN task ELSE loader[m]
  BY <1>1 DEF CacheInv
<1> HIDE DEF task, pc
<1>9. Claims' \subseteq Claims \cup {claim}
  <2>1. name[1] = key /\ name[2] = part
    OBVIOUS
  <2> HIDE DEF name
  <2> QED
    BY <1>5, <1>7, <1>8, <2>1 DEF Claims
<1>10. /\ FileOK(EmptyFile, key, part)
       /\ EmptyFile \in [text : Bodies \cup Metadata \cup {Mixed, None}, len : Nat]
  BY DEF FileOK, EmptyFile, MayHold
<1>11. DiskOK'
  <2> DEFINE file == EmptyFile
  <2>1. /\ i \in Inodes /\ DiskOK
        /\ \A c \in Claims : c[1] = i => c = <<i, key, part>>
        /\ Claims' \subseteq Claims \cup {<<i, key, part>>}
        /\ directory' \in [Names -> Inodes \cup {None}]
    BY <1>2, <1>3, <1>7, <1>9
  <2>2. /\ file \in [text : Bodies \cup Metadata \cup {Mixed, None}, len : Nat]
        /\ FileOK(file, key, part) /\ files' = [files EXCEPT ![i] = file]
    BY <1>1, <1>10
  <2> HIDE DEF key, file
  <2> QED
    BY <2>1, <2>2, WriteDisk
<1>12. CacheInv'
  BY <1>1, <1>6, <1>11, WritingStep
<1>13. loader'[l].inode = i
  BY <1>5, <1>8
<1> QED
  BY <1>1, <1>3, <1>9, <1>12, <1>13

LEMMA FillTempInv ==
  ASSUME CacheInv, NEW l \in Loaders, NEW part \in {"body", "meta"}, FillTemp(l, part)
  PROVE  CacheInv'
<1> DEFINE old == loader[l]
           i == old.inode
           pc == IF part = "body" THEN "renameBody" ELSE "renameMeta"
           task == [old EXCEPT !.pc = pc, !.inode = None]
<1>1. /\ old.pc = IF part = "body" THEN "fillBody" ELSE "fillMeta"
      /\ loader' = [loader EXCEPT ![l] = task]
      /\ UNCHANGED <<directory, memory, now, fetches, used>>
  BY DEF FillTemp
<1>2. /\ old \in Loader /\ i # None /\ Received(old) /\ DiskOK /\ Part(old.pc) = part
  BY <1>1, TaskFacts DEF Storing, Part, ReaderOK
<1>3. i \in Inodes /\ \A c \in Claims : c[1] = i => c = <<i, old.key, part>>
  BY <1>2, OpenClaims
<1>4. /\ task \in Loader /\ task.pc = pc /\ task.inode = None /\ Received(task)
  BY <1>2 DEF Loader, Received
<1>5. ReaderOK(task)
  BY <1>2, <1>4, TaskFacts DEF ReaderOK, Storing
<1>6. directory' \in [Names -> Inodes \cup {None}]
  BY <1>1, <1>2 DEF DiskOK
<1>7. \A m \in Loaders : loader'[m] = IF m = l THEN task ELSE loader[m]
  BY <1>1 DEF CacheInv
<1>8. \E file \in [text : Bodies \cup Metadata \cup {Mixed, None}, len : Nat] :
        FileOK(file, old.key, part) /\ files' = [files EXCEPT ![i] = file]
  <2>1. files[i] \in [text : Bodies \cup Metadata \cup {Mixed, None}, len : Nat]
    BY <1>2, <1>3 DEF DiskOK
  <2>2. old.meta \in Metadata /\ old.meta.key = old.key /\ old.meta.len # 0
        /\ old.body \in Bodies /\ SizeOf[old.body] \in Nat \ {0}
    BY <1>2, Constants DEF Received
  <2>3. CASE part = "body"
    <3> DEFINE file == Overwrite(files[i], old.body, SizeOf[old.body])
    <3>1. files' = [files EXCEPT ![i] = file]
      BY <1>1, <2>3 DEF FillTemp
    <3>2. file \in [text : Bodies \cup Metadata \cup {Mixed, None}, len : Nat]
      BY <2>1, <2>2 DEF Overwrite
    <3>3. FileOK(file, old.key, part)
      BY <2>1, <2>2, <2>3, Constants DEF FileOK, MayHold, Overwrite
    <3> QED
      BY <3>1, <3>2, <3>3
  <2>4. CASE part = "meta"
    <3>1. PICK text \in {old.meta, Mixed} : files' = [files EXCEPT ![i] = [text |-> text, len |-> 1]]
      BY <1>1, <2>4 DEF FillTemp
    <3> DEFINE file == [text |-> text, len |-> 1]
    <3>2. file \in [text : Bodies \cup Metadata \cup {Mixed, None}, len : Nat]
      BY <2>2
    <3>3. FileOK(file, old.key, part)
      BY <2>2, <2>4, Constants DEF FileOK, MayHold
    <3> QED
      BY <3>1, <3>2, <3>3
  <2> QED
    BY <2>3, <2>4
<1> HIDE DEF task, pc
<1>9. Claims' \subseteq Claims
  BY <1>1, <1>4, <1>7, ClaimsShrink
<1> DEFINE key == old.key
<1>10. DiskOK'
  <2>1. PICK file \in [text : Bodies \cup Metadata \cup {Mixed, None}, len : Nat] :
           FileOK(file, key, part) /\ files' = [files EXCEPT ![i] = file]
    BY <1>8
  <2>2. /\ i \in Inodes /\ DiskOK
        /\ \A c \in Claims : c[1] = i => c = <<i, key, part>>
        /\ Claims' \subseteq Claims \cup {<<i, key, part>>}
    BY <1>2, <1>3, <1>9
  <2> HIDE DEF key, i
  <2> QED
    BY <1>6, <2>1, <2>2, WriteDisk
<1> QED
  BY <1>1, <1>5, <1>10, WritingStep

\* A rename gives the file of a name to the other name of the same key and
\* part, or takes it away.
LEMMA RenameInv ==
  ASSUME CacheInv, NEW l \in Loaders, NEW part \in {"body", "meta"},
         Rename(l, part) \/ RetryRename(l, part)
  PROVE  CacheInv' /\ Claims' \subseteq Claims
<1> DEFINE old == loader[l]
           key == old.key
           temp == <<key, part, "temp">>
           final == <<key, part, "final">>
<1>1. /\ old.pc \in {"renameBody", "renameMeta", "retryBody", "retryMeta"}
      /\ UNCHANGED <<files, memory, now, fetches, used>>
  BY DEF Rename, RetryRename
<1>2. PICK pc \in {"openMeta", "done", "retryBody", "retryMeta"} : Advance(l, pc)
  BY DEF Rename, RetryRename, AfterRename
<1> DEFINE task == [old EXCEPT !.pc = pc]
<1>3. /\ old \in Loader /\ old.inode = None /\ key \in Keys /\ Received(old) /\ DiskOK
      /\ temp \in Names /\ final \in Names
  BY <1>1, TaskFacts DEF Storing, Names
<1>4. loader' = [loader EXCEPT ![l] = task]
  BY <1>2 DEF Advance
<1>5. task \in Loader /\ task.pc = pc /\ task.inode = None /\ Received(task) /\ task.key = key
  BY <1>2, <1>3 DEF Loader, Received
<1>6. ReaderOK(task)
  BY <1>2, <1>3, <1>5 DEF ReaderOK, Storing
<1>7. \/ directory' = [directory EXCEPT ![final] = directory[temp], ![temp] = None]
      \/ directory' = [directory EXCEPT ![final] = None]
      \/ directory' = directory
  BY DEF Rename, RetryRename
<1>8. temp # final /\ temp[1] = key /\ temp[2] = part /\ final[1] = key /\ final[2] = part
  OBVIOUS
<1>9. \A m \in Loaders : loader'[m] = IF m = l THEN task ELSE loader[m]
  BY <1>4 DEF CacheInv
<1> HIDE DEF temp, final, task
<1>10. /\ \A n \in Names : \/ directory'[n] = directory[n]
                           \/ directory'[n] = None
                           \/ n = final /\ directory'[n] = directory[temp]
       /\ directory' \in [Names -> Inodes \cup {None}]
  BY <1>3, <1>7, <1>8 DEF DiskOK
<1>11. Claims' \subseteq Claims
  BY <1>3, <1>5, <1>8, <1>9, <1>10 DEF Claims
<1>12. DiskOK'
  BY <1>1, <1>3, <1>10, <1>11, DiskStays
<1> QED
  BY <1>1, <1>4, <1>6, <1>11, <1>12, WritingStep

-----------------------------------------------------------------------------
(* The theorems                                                            *)

LEMMA InitCache ==
  ASSUME Init
  PROVE  CacheInv
<1>1. /\ memory = EmptyCache /\ directory = [name \in Names |-> None]
      /\ files = [i \in Inodes |-> EmptyFile] /\ now = 0 /\ loader = [l \in Loaders |-> Idle]
      /\ fetches = 0 /\ used = <<>>
  BY DEF Init
<1>2. MemoryOK
  BY <1>1, EmptyCacheOK, Constants DEF MemoryOK
<1>3. Claims = {}
  BY <1>1, IdleOK DEF Claims
<1>4. DiskOK
  BY <1>1, <1>3 DEF DiskOK, EmptyFile
<1>5. used \in Seq(Keys)
  BY <1>1, EmptySeq
<1> QED
  BY <1>1, <1>2, <1>4, <1>5, IdleOK, Constants DEF CacheInv

LEMMA NextCache ==
  ASSUME CacheInv, [Next]_vars
  PROVE  CacheInv'
<1>1. ASSUME NEW l \in Loaders, ReadStep(l)
      PROVE  CacheInv'
  BY <1>1, StartReadInv, BodyFileExistsInv, ReadMetaInv, ReadBodyInv, KeepFromDiskInv DEF ReadStep
<1>2. ASSUME NEW l \in Loaders, StoreStep(l)
      PROVE  CacheInv'
  BY <1>2, ReceiveInv, BecomesIdleInv, RememberResponseInv, OpenTempInv, FillTempInv, RenameInv,
     DiskFailsInv DEF StoreStep
<1>3. CASE UNCHANGED vars
  BY <1>3, MemoryStays DEF vars, Claims, CacheInv, DiskOK, ReaderOK, Loader, Usable, Received
<1> QED
  BY <1>1, <1>2, <1>3, TickInv, RestartInv DEF Next

\* The files of an entry stay its own, whichever tasks write, rename and die.
THEOREM CacheInvariance ==
  Spec => []CacheInv
BY InitCache, NextCache, PTL DEF Spec

\* Whatever tasks share the memory cache, it accounts for its bytes, names
\* each entry once and keeps within its limit.
THEOREM MemoryAccounts ==
  Spec => []MemoryIsAccounted
<1>1. ASSUME CacheInv
      PROVE  MemoryIsAccounted
  BY <1>1 DEF CacheInv, MemoryOK, ReaderOK, CacheOK, DiskOK, MemoryIsAccounted, TypeOK, MemoryEntry
<1> QED
  BY <1>1, CacheInvariance, PTL

\* What a task is served from memory or disk is for its key, was fresh when
\* it asked, and fits its limit.
THEOREM HitsUsable ==
  Spec => []HitsAreUsable
<1>1. ASSUME CacheInv
      PROVE  HitsAreUsable
  BY <1>1 DEF HitsAreUsable, CacheInv, Received, ReaderOK, Usable
<1> QED
  BY <1>1, CacheInvariance, PTL

-----------------------------------------------------------------------------
(* One task, and deaths between its steps                                  *)

WholeMemory ==
  \A k \in DOMAIN memory.entries : OfItsLength(memory.entries[k].meta, memory.entries[k].body)

\* A body file holds one body, and has its length; metadata give the length
\* of the body they came with.
WholeFile(file, part) ==
  IF part = "body"
    THEN file.text # Mixed /\ (file.text \in Bodies => file.len = SizeOf[file.text])
    ELSE file.text \in Metadata => file.text.len = SizeOf[file.text.body]

WholeTask(task) ==
  /\ task.pc = "readBody" => task.meta.len = SizeOf[task.meta.body]
  /\ task.pc \in {"keep", "done"} => OfItsLength(task.meta, task.body)
  /\ task.pc = "done" /\ task.source = "network" => task.meta.body = task.body

WholeInv ==
  /\ WholeMemory
  /\ \A c \in Claims : WholeFile(files[c[1]], c[3])
  /\ \A l \in Loaders : WholeTask(loader[l])
  /\ \A l \in Loaders : loader[l].pc = "fillBody" => files[loader[l].inode].len = 0

\* The task moves on and the files stay.
LEMMA WholeStep ==
  ASSUME WholeInv, NEW l \in Loaders, \A m \in Loaders : m = l,
         WholeMemory', WholeTask(loader'[l]), loader'[l].pc # "fillBody",
         Claims' \subseteq Claims, UNCHANGED files
  PROVE  WholeInv'
<1>1. (\A c \in Claims : WholeFile(files[c[1]], c[3]))'
  BY DEF WholeInv, WholeFile, Metadata
<1>2. (\A m \in Loaders : WholeTask(loader[m]))'
  BY DEF WholeTask
<1>3. (\A m \in Loaders : loader[m].pc = "fillBody" => files[loader[m].inode].len = 0)'
  OBVIOUS
<1> QED
  BY <1>1, <1>2, <1>3 DEF WholeInv

\* The task writes a file.
LEMMA WholeWrite ==
  ASSUME WholeInv, CacheInv, NEW l \in Loaders, \A m \in Loaders : m = l,
         UNCHANGED memory, WholeTask(loader'[l]),
         NEW claim, claim[1] \in Inodes, NEW file,
         files' = [files EXCEPT ![claim[1]] = file], WholeFile(file, claim[3]),
         \A c \in Claims : c[1] = claim[1] => c = claim,
         Claims' \subseteq Claims \cup {claim},
         loader'[l].pc = "fillBody" => loader'[l].inode = claim[1] /\ file.len = 0
  PROVE  WholeInv'
<1> DEFINE i == claim[1]
<1>1. files'[i] = file /\ \A j : j # i => files'[j] = files[j]
  BY DEF CacheInv, DiskOK
<1>2. ASSUME NEW c \in Claims'
      PROVE  WholeFile(files'[c[1]], c[3])
  <2>1. CASE c = claim
    BY <1>1, <2>1
  <2>2. CASE c \in Claims /\ c # claim
    BY <1>1, <2>2 DEF WholeInv
  <2> QED
    BY <2>1, <2>2
<1>3. (\A c \in Claims : WholeFile(files[c[1]], c[3]))'
  BY <1>2 DEF WholeFile, Metadata
<1>4. (\A m \in Loaders : WholeTask(loader[m]))'
  BY DEF WholeTask
<1>5. (\A m \in Loaders : loader[m].pc = "fillBody" => files[loader[m].inode].len = 0)'
  BY <1>1
<1>6. WholeMemory'
  BY DEF WholeInv, WholeMemory
<1> QED
  BY <1>3, <1>4, <1>5, <1>6 DEF WholeInv

\* Where the directory stays and no file is open after the step.
LEMMA FewerClaims ==
  ASSUME CacheInv', NEW l \in Loaders, \A m \in Loaders : m = l, UNCHANGED directory,
         loader'[l].pc \notin {"fillBody", "fillMeta"}
  PROVE  Claims' \subseteq Claims
<1>1. loader'[l].inode = None
  BY DEF CacheInv, ReaderOK
<1> QED
  BY <1>1, ClaimsShrink

LEMMA LookUpKeeps ==
  ASSUME NEW cache, CacheOK(cache), NEW key \in Keys, NEW time
  PROVE  LET found == LookUp(cache, key, time)
         IN  /\ KeepsEntries(cache, found.cache)
             /\ found.hit => key \in DOMAIN cache.entries /\ found.entry = cache.entries[key]
<1> DEFINE found == LookUp(cache, key, time)
<1>1. CASE key \notin DOMAIN cache.entries
  BY <1>1 DEF LookUp, KeepsEntries
<1>2. CASE key \in DOMAIN cache.entries /\ Fresh(cache.entries[key].meta, time)
  BY <1>2, TouchOK DEF LookUp, KeepsEntries
<1>3. CASE key \in DOMAIN cache.entries /\ ~Fresh(cache.entries[key].meta, time)
  BY <1>3, RemoveOK DEF LookUp
<1> QED
  BY <1>1, <1>2, <1>3

LEMMA WholeRead ==
  ASSUME CacheInv, WholeInv, CacheInv', NEW l \in Loaders, \A m \in Loaders : m = l,
         NEW key \in Keys, NEW limit \in Limits, StartRead(l, key, limit)
  PROVE  WholeInv'
<1> DEFINE found == LookUp(memory, key, now)
           begun == [Idle EXCEPT !.key = key, !.limit = limit, !.since = now]
<1>1. /\ memory' = found.cache
      /\ loader' = [loader EXCEPT ![l] =
           IF ~found.hit THEN [begun EXCEPT !.pc = "lookOnDisk"]
           ELSE IF found.entry.meta.len <= limit
             THEN [begun EXCEPT !.pc = "done", !.meta = found.entry.meta,
                                !.body = found.entry.body, !.source = "memory"]
             ELSE [begun EXCEPT !.pc = "fetch"]]
      /\ UNCHANGED <<directory, files>>
  BY DEF StartRead, disk
<1>2. /\ KeepsEntries(memory, found.cache)
      /\ found.hit => key \in DOMAIN memory.entries /\ found.entry = memory.entries[key]
  BY LookUpKeeps DEF CacheInv, MemoryOK
<1>3. found.hit => OfItsLength(found.entry.meta, found.entry.body)
  BY <1>2 DEF WholeInv, WholeMemory
<1> HIDE DEF found
<1>4. WholeMemory'
  BY <1>1, <1>2 DEF WholeInv, WholeMemory, KeepsEntries
<1>5. DOMAIN begun = {"pc", "key", "limit", "since", "meta", "body", "source", "inode"}
  BY DEF Idle
<1> HIDE DEF begun
<1>6. \/ loader'[l].pc \in {"lookOnDisk", "fetch"}
      \/ /\ found.hit /\ loader'[l].pc = "done"
         /\ loader'[l].meta = found.entry.meta /\ loader'[l].body = found.entry.body
         /\ loader'[l].source = "memory"
  BY <1>1, <1>5 DEF CacheInv
<1>7. WholeTask(loader'[l]) /\ loader'[l].pc \notin {"fillBody", "fillMeta"}
  BY <1>3, <1>6 DEF WholeTask
<1>8. Claims' \subseteq Claims
  BY <1>1, <1>7, FewerClaims
<1> QED
  BY <1>1, <1>4, <1>7, <1>8, WholeStep

LEMMA WholeCheck ==
  ASSUME CacheInv, WholeInv, CacheInv', NEW l \in Loaders, \A m \in Loaders : m = l,
         BodyFileExists(l) \/ DiskFails(l)
  PROVE  WholeInv'
<1>1. UNCHANGED <<memory, directory, files>>
  BY DEF BodyFileExists, DiskFails, disk
<1>2. CASE BodyFileExists(l)
  <2>1. loader'[l].pc \in {"fetch", "readMeta"}
    BY <1>2, TaskFacts DEF BodyFileExists, Advance, Loader, CacheInv
  <2>2. WholeTask(loader'[l]) /\ Claims' \subseteq Claims
    BY <1>1, <2>1, FewerClaims DEF WholeTask
  <2> QED
    BY <1>1, <2>1, <2>2, WholeStep DEF WholeInv, WholeMemory
<1>3. CASE DiskFails(l)
  <2>1. /\ loader'[l].pc = "done" /\ loader'[l].meta = loader[l].meta
        /\ loader'[l].body = loader[l].body
    BY <1>3, TaskFacts DEF DiskFails, Advance, Loader, CacheInv
  <2>2. Received(loader[l])
    BY <1>3, TaskFacts DEF DiskFails, Storing
  <2>3. WholeTask(loader'[l]) /\ Claims' \subseteq Claims
    BY <1>1, <2>1, <2>2, FewerClaims DEF WholeTask, Received, OfItsLength
  <2> QED
    BY <1>1, <2>1, <2>3, WholeStep DEF WholeInv, WholeMemory
<1> QED
  BY <1>2, <1>3

LEMMA WholeReadMeta ==
  ASSUME CacheInv, WholeInv, CacheInv', NEW l \in Loaders, \A m \in Loaders : m = l,
         ReadMeta(l)
  PROVE  WholeInv'
<1> DEFINE i == FileOf(l, "meta")
           meta == files[i].text
           key == loader[l].key
           claim == <<i, key, "meta">>
<1>1. loader[l].pc = "readMeta" /\ UNCHANGED <<memory, directory, files>>
  BY DEF ReadMeta, disk
<1>2. /\ loader[l] \in Loader /\ loader[l].key \in Keys /\ DiskOK
      /\ loader = [m \in Loaders |-> loader[m]]
  BY <1>1, TaskFacts DEF CacheInv
<1>3. CASE Advance(l, "fetch")
  BY <1>1, <1>2, <1>3, FewerClaims, WholeStep DEF Advance, Loader, WholeTask, WholeInv, WholeMemory
<1>4. CASE /\ i # None /\ meta \in Metadata
           /\ loader' = [loader EXCEPT ![l].pc = "readBody", ![l].meta = meta]
  <2>1. claim \in Claims
    BY <1>2, <1>4, NameClaims DEF FileOf
  <2>2. claim[1] = i /\ claim[3] = "meta"
    OBVIOUS
  <2>3. WholeFile(files[i], "meta")
    <3> HIDE DEF claim, i
    <3> QED
      BY <2>1, <2>2 DEF WholeInv
  <2>4. meta.len = SizeOf[meta.body]
    BY <1>4, <2>3 DEF WholeFile
  <2> HIDE DEF meta
  <2>5. loader'[l].pc = "readBody" /\ loader'[l].meta = meta
    BY <1>2, <1>4 DEF Loader
  <2>6. WholeTask(loader'[l]) /\ Claims' \subseteq Claims
    BY <1>1, <2>4, <2>5, FewerClaims DEF WholeTask
  <2> QED
    BY <1>1, <2>5, <2>6, WholeStep DEF WholeInv, WholeMemory
<1> QED
  BY <1>3, <1>4 DEF ReadMeta

\* A body file that passes holds one body, of the length of theirs.
LEMMA WholeReadBody ==
  ASSUME CacheInv, WholeInv, CacheInv', NEW l \in Loaders, \A m \in Loaders : m = l,
         ReadBody(l)
  PROVE  WholeInv'
<1> DEFINE i == FileOf(l, "body")
           body == files[i].text
           key == loader[l].key
           claim == <<i, key, "body">>
<1>1. /\ loader[l].pc = "readBody" /\ UNCHANGED <<memory, directory, files>>
      /\ loader' = [loader EXCEPT ![l] =
           IF i # None /\ BodyFits(files[i], @.meta)
             THEN [@ EXCEPT !.pc = "keep", !.body = body]
             ELSE [@ EXCEPT !.pc = "fetch", !.meta = None]]
  BY DEF ReadBody, disk
<1>2. /\ loader[l] \in Loader /\ loader[l].key \in Keys /\ DiskOK
      /\ loader = [m \in Loaders |-> loader[m]]
      /\ loader[l].meta \in Metadata /\ loader[l].meta.len # 0
      /\ loader[l].meta.len = SizeOf[loader[l].meta.body]
  BY <1>1, TaskFacts DEF CacheInv, ReaderOK, Usable, WholeInv, WholeTask
<1>3. CASE ~(i # None /\ BodyFits(files[i], loader[l].meta))
  BY <1>1, <1>2, <1>3, FewerClaims, WholeStep DEF Loader, WholeTask, WholeInv, WholeMemory
<1>4. CASE i # None /\ BodyFits(files[i], loader[l].meta)
  <2>1. claim \in Claims /\ FileOK(files[i], key, "body")
    BY <1>2, <1>4, NameClaims DEF FileOf
  <2>2. claim[1] = i /\ claim[3] = "body"
    OBVIOUS
  <2>3. WholeFile(files[i], "body")
    <3> HIDE DEF claim, i
    <3> QED
      BY <2>1, <2>2 DEF WholeInv
  <2>4. files[i].len = loader[l].meta.len
    BY <1>4 DEF BodyFits
  <2>5. body \in Bodies /\ files[i].len = SizeOf[body]
    BY <1>2, <2>1, <2>3, <2>4 DEF WholeFile, FileOK, MayHold
  <2>7. OfItsLength(loader[l].meta, body)
    BY <1>2, <2>4, <2>5 DEF OfItsLength
  <2> HIDE DEF body
  <2>8. /\ loader'[l].pc = "keep" /\ loader'[l].body = body
        /\ loader'[l].meta = loader[l].meta
    BY <1>1, <1>2, <1>4 DEF Loader
  <2>9. WholeTask(loader'[l]) /\ Claims' \subseteq Claims
    BY <1>1, <2>7, <2>8, FewerClaims DEF WholeTask
  <2> QED
    BY <1>1, <2>8, <2>9, WholeStep DEF WholeInv, WholeMemory
<1> QED
  BY <1>3, <1>4

\* write_memory of a body of the length of its metadata.
LEMMA WholeRemember ==
  ASSUME CacheInv, WholeInv, NEW key \in Keys, NEW meta \in Metadata, meta.key = key,
         NEW body \in Bodies \cup {Mixed}, OfItsLength(meta, body), Remember(key, meta, body)
  PROVE  WholeMemory'
<1> DEFINE entry == [meta |-> meta, body |-> body]
<1>1. CacheOK(memory) /\ WholeMemory
  BY DEF CacheInv, MemoryOK, WholeInv
<1>2. CASE memory' = PutEntry(memory, key, entry, MemoryLimit)
  <2>1. entry \in MemoryEntry /\ entry.meta.key = key /\ OfItsLength(entry.meta, entry.body)
    BY DEF MemoryEntry
  <2> HIDE DEF entry
  <2>2. MemoryLimit \in Nat
    BY Constants
  <2> DEFINE later == PutEntry(memory, key, entry, MemoryLimit)
  <2>3. \A k \in DOMAIN later.entries :
          \/ k = key /\ later.entries[k] = entry
          \/ k \in DOMAIN memory.entries /\ later.entries[k] = memory.entries[k]
    BY <1>1, <2>1, <2>2, PutOK
  <2>4. memory' = later
    BY <1>2
  <2> HIDE DEF later
  <2> QED
    BY <1>1, <2>1, <2>3, <2>4 DEF WholeMemory
<1>3. CASE UNCHANGED memory
  BY <1>1, <1>3 DEF WholeMemory
<1> QED
  BY <1>2, <1>3 DEF Remember

LEMMA WholeKeep ==
  ASSUME CacheInv, WholeInv, CacheInv', NEW l \in Loaders, \A m \in Loaders : m = l,
         KeepFromDisk(l) \/ RememberResponse(l)
  PROVE  WholeInv'
<1> DEFINE old == loader[l]
<1>1. /\ old.pc \in {"keep", "remember"} /\ Remember(old.key, old.meta, old.body)
      /\ UNCHANGED <<directory, files>>
  BY DEF KeepFromDisk, RememberResponse, disk
<1>2. /\ old \in Loader /\ old.key \in Keys /\ old.meta \in Metadata /\ old.meta.key = old.key
      /\ old.body \in Bodies \cup {Mixed} /\ OfItsLength(old.meta, old.body)
      /\ loader = [m \in Loaders |-> loader[m]]
  BY <1>1, TaskFacts
     DEF CacheInv, ReaderOK, Usable, Received, Storing, WholeInv, WholeTask, OfItsLength
<1>3. WholeMemory'
  BY <1>1, <1>2, WholeRemember
<1>4. \/ loader'[l].pc \in {"fetch", "openBody"}
      \/ /\ loader'[l].pc = "done" /\ loader'[l].source = "disk"
         /\ loader'[l].meta = old.meta /\ loader'[l].body = old.body
  <2>1. CASE RememberResponse(l)
    BY <1>2, <2>1 DEF RememberResponse, Advance, Loader
  <2>2. CASE KeepFromDisk(l) /\ old.meta.len <= old.limit
    BY <1>2, <2>2 DEF KeepFromDisk, Loader
  <2>3. CASE KeepFromDisk(l) /\ ~(old.meta.len <= old.limit)
    BY <1>2, <2>3 DEF KeepFromDisk, Loader
  <2> QED
    BY <2>1, <2>2, <2>3
<1>5. WholeTask(loader'[l]) /\ loader'[l].pc \notin {"fillBody", "fillMeta"}
  BY <1>2, <1>4 DEF WholeTask
<1>6. Claims' \subseteq Claims
  BY <1>1, <1>5, FewerClaims
<1> QED
  BY <1>1, <1>3, <1>5, <1>6, WholeStep

LEMMA WholeReceive ==
  ASSUME CacheInv, WholeInv, CacheInv', NEW l \in Loaders, \A m \in Loaders : m = l,
         \/ FetchFails(l) \/ Return(l)
         \/ \E body \in Bodies, lifetime \in 0 .. 1, revalidate \in BOOLEAN :
              Receive(l, body, lifetime, revalidate)
  PROVE  WholeInv'
<1>1. UNCHANGED <<memory, directory, files>>
  BY DEF FetchFails, Return, Receive, disk
<1>2. loader[l] \in Loader /\ loader = [m \in Loaders |-> loader[m]]
  BY TaskFacts DEF CacheInv
<1>3. \/ loader'[l].pc \in {"idle", "remember"}
      \/ /\ loader'[l].pc = "done" /\ loader'[l].meta.body = loader'[l].body
         /\ OfItsLength(loader'[l].meta, loader'[l].body)
  <2>1. CASE FetchFails(l) \/ Return(l)
    BY <1>2, <2>1 DEF FetchFails, Return, Idle
  <2>2. ASSUME NEW body \in Bodies, NEW lifetime \in 0 .. 1, NEW revalidate \in BOOLEAN,
               Receive(l, body, lifetime, revalidate)
        PROVE  /\ loader'[l].pc \in {"remember", "done"}
               /\ loader'[l].meta.body = loader'[l].body
               /\ OfItsLength(loader'[l].meta, loader'[l].body)
    <3> DEFINE pc == IF lifetime > 0 /\ SizeOf[body] <= MaxDiskEntry THEN "remember" ELSE "done"
               meta == [key |-> loader[l].key, body |-> body, len |-> SizeOf[body],
                        expires |-> now + lifetime, revalidate |-> revalidate]
    <3>1. loader' = [loader EXCEPT ![l] = [loader[l] EXCEPT !.pc = pc, !.meta = meta,
                                             !.body = body, !.source = "network"]]
      BY <2>2 DEF Receive
    <3>2. meta.body = body /\ pc \in {"remember", "done"}
      OBVIOUS
    <3> HIDE DEF meta, pc
    <3> QED
      BY <1>2, <3>1, <3>2 DEF Loader, OfItsLength
  <2> QED
    BY <2>1, <2>2
<1>4. WholeTask(loader'[l]) /\ loader'[l].pc \notin {"fillBody", "fillMeta"}
  BY <1>3 DEF WholeTask
<1>5. Claims' \subseteq Claims
  BY <1>1, <1>4, FewerClaims
<1> QED
  BY <1>1, <1>4, <1>5, WholeStep DEF WholeInv, WholeMemory

LEMMA WholeOpen ==
  ASSUME CacheInv, WholeInv, CacheInv', NEW l \in Loaders, \A m \in Loaders : m = l,
         NEW part \in {"body", "meta"}, OpenTemp(l, part)
  PROVE  WholeInv'
<1> DEFINE file == EmptyFile
<1>1. PICK i \in Inodes :
        /\ loader'[l].inode = i /\ files' = [files EXCEPT ![i] = EmptyFile]
        /\ Claims' \subseteq Claims \cup {<<i, loader[l].key, part>>}
        /\ \A c \in Claims : c[1] = i => c = <<i, loader[l].key, part>>
  BY OpenTempInv
<1>2. UNCHANGED memory /\ loader'[l].pc \in {"fillBody", "fillMeta"}
  BY TaskFacts DEF OpenTemp, Loader, CacheInv
<1>3. WholeTask(loader'[l])
  BY <1>2 DEF WholeTask
<1>4. WholeFile(file, part) /\ file.len = 0
  BY Constants DEF WholeFile, EmptyFile
<1> DEFINE claim == <<i, loader[l].key, part>>
<1>5. /\ claim[1] \in Inodes /\ files' = [files EXCEPT ![claim[1]] = file]
      /\ WholeFile(file, claim[3]) /\ Claims' \subseteq Claims \cup {claim}
      /\ \A c \in Claims : c[1] = claim[1] => c = claim
      /\ loader'[l].pc = "fillBody" => loader'[l].inode = claim[1] /\ file.len = 0
  BY <1>1, <1>4
<1> HIDE DEF claim, file
<1> QED
  BY <1>2, <1>3, <1>5, WholeWrite

\* The file a body is written to is empty, so that it holds that body alone.
LEMMA WholeFill ==
  ASSUME CacheInv, WholeInv, CacheInv', NEW l \in Loaders, \A m \in Loaders : m = l,
         NEW part \in {"body", "meta"}, FillTemp(l, part)
  PROVE  WholeInv'
<1> DEFINE old == loader[l]
           key == old.key
           i == old.inode
<1>1. /\ old.pc = IF part = "body" THEN "fillBody" ELSE "fillMeta"
      /\ UNCHANGED <<directory, memory>>
      /\ loader' = [loader EXCEPT ![l] =
           [@ EXCEPT !.pc = IF part = "body" THEN "renameBody" ELSE "renameMeta",
                     !.inode = None]]
  BY DEF FillTemp
<1>2. /\ old \in Loader /\ i # None /\ Received(old) /\ Part(old.pc) = part
      /\ loader = [m \in Loaders |-> loader[m]]
  BY <1>1, TaskFacts DEF Storing, Part, ReaderOK, CacheInv
<1>3. i \in Inodes /\ \A c \in Claims : c[1] = i => c = <<i, key, part>>
  BY <1>2, OpenClaims
<1>4. loader'[l].pc \in {"renameBody", "renameMeta"}
  BY <1>1, <1>2 DEF Loader
<1>5. WholeTask(loader'[l]) /\ Claims' \subseteq Claims
  BY <1>1, <1>4, FewerClaims DEF WholeTask
<1>6. /\ old.body \in Bodies /\ old.meta \in Metadata /\ old.meta.body = old.body
      /\ old.meta.len = SizeOf[old.meta.body] /\ SizeOf[old.body] \in Nat
  BY <1>2, Constants DEF Received
<1>7. \E file : WholeFile(file, part) /\ files' = [files EXCEPT ![i] = file]
  <2>1. CASE part = "body"
    <3> DEFINE file == [text |-> old.body, len |-> SizeOf[old.body]]
    <3>1. files[i].len = 0
      BY <1>1, <2>1 DEF WholeInv
    <3>2. Overwrite(files[i], old.body, SizeOf[old.body]) = file
      BY <1>6, <3>1 DEF Overwrite
    <3>3. files' = [files EXCEPT ![i] = Overwrite(files[i], old.body, SizeOf[old.body])]
      BY <2>1 DEF FillTemp
    <3>4. WholeFile(file, part)
      BY <1>6, <2>1, Constants DEF WholeFile
    <3> QED
      BY <3>2, <3>3, <3>4
  <2>2. CASE part = "meta"
    <3>1. PICK text \in {old.meta, Mixed} : files' = [files EXCEPT ![i] = [text |-> text, len |-> 1]]
      BY <2>2 DEF FillTemp
    <3>2. WholeFile([text |-> text, len |-> 1], part)
      BY <1>6, <2>2, Constants DEF WholeFile
    <3> QED
      BY <3>1, <3>2
  <2> QED
    BY <2>1, <2>2
<1>8. PICK file : WholeFile(file, part) /\ files' = [files EXCEPT ![i] = file]
  BY <1>7
<1> DEFINE claim == <<i, key, part>>
<1>9. /\ claim[1] \in Inodes /\ files' = [files EXCEPT ![claim[1]] = file]
      /\ WholeFile(file, claim[3]) /\ Claims' \subseteq Claims \cup {claim}
      /\ \A c \in Claims : c[1] = claim[1] => c = claim
      /\ loader'[l].pc = "fillBody" => loader'[l].inode = claim[1] /\ file.len = 0
  BY <1>3, <1>4, <1>5, <1>8
<1> HIDE DEF claim
<1> QED
  BY <1>1, <1>5, <1>9, WholeWrite

LEMMA WholeRename ==
  ASSUME CacheInv, WholeInv, CacheInv', NEW l \in Loaders, \A m \in Loaders : m = l,
         NEW part \in {"body", "meta"}, Rename(l, part) \/ RetryRename(l, part)
  PROVE  WholeInv'
<1>1. /\ loader[l].pc \in {"renameBody", "renameMeta", "retryBody", "retryMeta"}
      /\ UNCHANGED <<files, memory>>
  BY DEF Rename, RetryRename
<1>2. PICK pc \in {"openMeta", "done", "retryBody", "retryMeta"} : Advance(l, pc)
  BY DEF Rename, RetryRename, AfterRename
<1>3. Received(loader[l])
  BY <1>1, TaskFacts DEF Storing
<1>4. /\ loader'[l].pc = pc /\ loader'[l].meta = loader[l].meta
      /\ loader'[l].body = loader[l].body
  BY <1>2, TaskFacts DEF Advance, Loader, CacheInv
<1>5. WholeTask(loader'[l])
  BY <1>3, <1>4 DEF WholeTask, Received, OfItsLength
<1>6. Claims' \subseteq Claims
  BY RenameInv
<1> QED
  BY <1>1, <1>4, <1>5, <1>6, WholeStep DEF WholeInv, WholeMemory

\* A death leaves the files, and no claims but those of names.
LEMMA WholeRestart ==
  ASSUME CacheInv, WholeInv, CacheInv', NEW l \in Loaders, \A m \in Loaders : m = l,
         NEW clear \in BOOLEAN, Restart(clear)
  PROVE  WholeInv'
<1>1. /\ memory' = EmptyCache /\ loader' = [m \in Loaders |-> Idle] /\ UNCHANGED files
      /\ \A name \in Names : directory'[name] # None => directory'[name] = directory[name]
  BY DEF Restart
<1>2. loader'[l] = Idle /\ Idle.pc = "idle"
  BY <1>1 DEF Idle
<1>3. WholeTask(loader'[l])
  BY <1>2 DEF WholeTask
<1>4. Claims' \subseteq Claims
  BY <1>1, IdleOK DEF Claims
<1>5. DOMAIN memory'.entries = {}
  BY <1>1 DEF EmptyCache
<1>6. WholeMemory'
  BY <1>5 DEF WholeMemory
<1> QED
  BY <1>1, <1>2, <1>3, <1>4, <1>6, WholeStep

LEMMA WholeSame ==
  ASSUME WholeInv, UNCHANGED <<memory, directory, files, loader>>
  PROVE  WholeInv'
<1>1. Claims' = Claims
  BY DEF Claims
<1>2. (\A c \in Claims : WholeFile(files[c[1]], c[3]))'
  BY <1>1 DEF WholeInv, WholeFile, Metadata
<1> QED
  BY <1>2 DEF WholeInv, WholeMemory, WholeTask

LEMMA WholeNext ==
  ASSUME \A l, m \in Loaders : l = m,
         CacheInv, WholeInv, CacheInv', [Next]_vars
  PROVE  WholeInv'
<1>1. ASSUME NEW l \in Loaders, ReadStep(l)
      PROVE  WholeInv'
  BY <1>1, WholeRead, WholeCheck, WholeReadMeta, WholeReadBody, WholeKeep DEF ReadStep
<1>2. ASSUME NEW l \in Loaders, StoreStep(l)
      PROVE  WholeInv'
  BY <1>2, WholeReceive, WholeKeep, WholeOpen, WholeFill, WholeRename, WholeCheck DEF StoreStep
<1>3. ASSUME NEW clear \in BOOLEAN, Restart(clear)
      PROVE  WholeInv'
  <2>1. CASE Loaders = {}
    <3>1. Claims' \subseteq Claims
      BY <1>3, <2>1 DEF Restart, Claims
    <3>2. (\A c \in Claims : WholeFile(files[c[1]], c[3]))'
      BY <1>3, <3>1 DEF Restart, WholeInv, WholeFile, Metadata
    <3>3. WholeMemory'
      BY <1>3 DEF Restart, EmptyCache, WholeMemory
    <3> QED
      BY <2>1, <3>2, <3>3 DEF WholeInv
  <2>2. ASSUME NEW l \in Loaders
        PROVE  WholeInv'
    BY <1>3, WholeRestart
  <2> QED
    BY <2>1, <2>2
<1>4. CASE Tick \/ UNCHANGED vars
  BY <1>4, WholeSame DEF Tick, vars, disk
<1> QED
  BY <1>1, <1>2, <1>3, <1>4 DEF Next

\* Where one task writes at a time, a body handed out is complete and of the
\* length its headers came with, whatever the process dies between and
\* whichever bodies share a length: read_disk lets no half of a body and no
\* mixture pass, and nothing else can replace the body of an entry than one
\* of its length.
THEOREM CompleteBodies ==
  ASSUME \A l, m \in Loaders : l = m
  PROVE  Spec => []ServedBodyIsComplete
<1>1. Init => WholeInv
  BY IdleOK DEF Init, Claims, EmptyCache, Idle, WholeInv, WholeMemory, WholeTask
<1>2. WholeInv /\ CacheInv /\ CacheInv' /\ [Next]_vars => WholeInv'
  BY WholeNext
<1>3. WholeInv => ServedBodyIsComplete
  BY DEF WholeInv, WholeTask, ServedBodyIsComplete
<1> QED
  BY <1>1, <1>2, <1>3, CacheInvariance, PTL DEF Spec

-----------------------------------------------------------------------------
(* Evictions                                                               *)

\* The recency list of the cache is in the order of the uses.
Follows(order, uses) ==
  /\ NamedOnce(uses)
  /\ Listed(order) \subseteq Listed(uses)
  /\ \A x, y : Before(order, x, y) => Before(uses, x, y)

RecencyInv == Follows(memory.order, used)

LEMMA RenewedFollows ==
  ASSUME NEW order \in Seq(Keys), NamedOnce(order), NEW uses \in Seq(Keys),
         Follows(order, uses), NEW key \in Keys
  PROVE  /\ Renewed(order, key) \in Seq(Keys) /\ NamedOnce(Renewed(order, key))
         /\ Follows(Renewed(order, key), Renewed(uses, key))
<1> DEFINE remaining == Without(order, key)
           keptUses == Without(uses, key)
<1>1. /\ remaining \in Seq(Keys) /\ NamedOnce(remaining) /\ Listed(remaining) = Listed(order) \ {key}
      /\ \A x, y : Before(remaining, x, y) <=> Before(order, x, y) /\ key \notin {x, y}
  BY WithoutFacts
<1>2. /\ keptUses \in Seq(Keys) /\ NamedOnce(keptUses) /\ Listed(keptUses) = Listed(uses) \ {key}
      /\ \A x, y : Before(keptUses, x, y) <=> Before(uses, x, y) /\ key \notin {x, y}
  BY WithoutFacts DEF Follows
<1> HIDE DEF remaining, keptUses
<1> DEFINE renewed == Append(remaining, key)
           renewedUses == Append(keptUses, key)
<1>3. /\ renewed \in Seq(Keys) /\ NamedOnce(renewed) /\ Listed(renewed) = Listed(remaining) \cup {key}
      /\ \A x, y : Before(renewed, x, y) <=> Before(remaining, x, y) \/ (x \in Listed(remaining) /\ y = key)
  BY <1>1, AppendFacts
<1>4. /\ NamedOnce(renewedUses) /\ Listed(renewedUses) = Listed(keptUses) \cup {key}
      /\ \A x, y : Before(renewedUses, x, y)
                     <=> Before(keptUses, x, y) \/ (x \in Listed(keptUses) /\ y = key)
  BY <1>2, AppendFacts
<1> HIDE DEF renewed, renewedUses
<1>5. Follows(renewed, renewedUses)
  BY <1>1, <1>2, <1>3, <1>4 DEF Follows
<1>6. renewed = Renewed(order, key) /\ renewedUses = Renewed(uses, key)
  BY DEF renewed, renewedUses, remaining, keptUses, Renewed
<1> QED
  BY <1>3, <1>5, <1>6

\* MemoryCache::get, with the use that it counts as.
LEMMA LookUpFollows ==
  ASSUME CacheInv, RecencyInv, NEW key \in Keys, NEW time
  PROVE  LET found == LookUp(memory, key, time)
         IN  Follows(found.cache.order, IF found.hit THEN Renewed(used, key) ELSE used)
<1> DEFINE found == LookUp(memory, key, time)
<1>1. /\ CacheOK(memory) /\ memory.order \in Seq(Keys) /\ NamedOnce(memory.order)
      /\ used \in Seq(Keys)
  BY CacheFacts DEF CacheInv, MemoryOK, CacheOK
<1>2. CASE key \notin DOMAIN memory.entries
  BY <1>2 DEF LookUp, RecencyInv
<1>3. CASE key \in DOMAIN memory.entries /\ Fresh(memory.entries[key].meta, time)
  BY <1>1, <1>3, TouchOK, RenewedFollows DEF LookUp, Renewed, RecencyInv
<1>4. CASE key \in DOMAIN memory.entries /\ ~Fresh(memory.entries[key].meta, time)
  BY <1>1, <1>4, RemoveOK, WithoutFacts DEF LookUp, RecencyInv, Follows
<1> QED
  BY <1>2, <1>3, <1>4

\* What write_memory does to the list: a use, then a cut at its old end.
LEMMA RememberCuts ==
  ASSUME CacheInv, NEW key \in Keys, NEW meta \in Metadata, meta.key = key,
         NEW body \in Bodies \cup {Mixed}, Remember(key, meta, body)
  PROVE  \/ UNCHANGED <<memory, used>>
         \/ /\ used' = Renewed(used, key)
            /\ \E n \in 0 .. Len(Renewed(memory.order, key)) :
                 CutAt(Renewed(memory.order, key), n, DOMAIN memory.entries \cup {key}, memory')
<1> DEFINE entry == [meta |-> meta, body |-> body]
           later == PutEntry(memory, key, entry, MemoryLimit)
<1>1. entry \in MemoryEntry /\ entry.meta.key = key
  BY DEF MemoryEntry
<1>2. (memory' = later /\ used' = Renewed(used, key)) \/ UNCHANGED <<memory, used>>
  BY DEF Remember, Use, Renewed
<1> HIDE DEF entry
<1>3. CacheOK(memory) /\ MemoryLimit \in Nat
  BY Constants DEF CacheInv, MemoryOK
<1>4. \E n \in 0 .. Len(Renewed(memory.order, key)) :
        CutAt(Renewed(memory.order, key), n, DOMAIN memory.entries \cup {key}, later)
  BY <1>1, <1>3, PutOK
<1> HIDE DEF later
<1> QED
  BY <1>2, <1>4

LEMMA RememberFollows ==
  ASSUME CacheInv, RecencyInv, NEW key \in Keys, NEW meta \in Metadata, meta.key = key,
         NEW body \in Bodies \cup {Mixed}, Remember(key, meta, body)
  PROVE  RecencyInv'
<1> DEFINE order == Renewed(memory.order, key)
<1>1. /\ memory.order \in Seq(Keys) /\ NamedOnce(memory.order) /\ used \in Seq(Keys)
  BY CacheFacts DEF CacheInv, MemoryOK, CacheOK
<1>2. order \in Seq(Keys) /\ NamedOnce(order) /\ Follows(order, Renewed(used, key))
  BY <1>1, RenewedFollows DEF RecencyInv
<1>3. CASE UNCHANGED <<memory, used>>
  <2>1. memory' = memory /\ used' = used
    BY <1>3
  <2>2. Follows(memory'.order, used')
    BY <2>1 DEF RecencyInv
  <2> QED
    BY <2>2 DEF RecencyInv, Follows, Listed, Before, NamedOnce
<1>4. CASE used' = Renewed(used, key) /\ \E n \in 0 .. Len(order) :
             CutAt(order, n, DOMAIN memory.entries \cup {key}, memory')
  <2>1. PICK n \in 0 .. Len(order) : memory'.order = SubSeq(order, n + 1, Len(order))
    BY <1>4 DEF CutAt
  <2> HIDE DEF order
  <2>2. /\ Listed(memory'.order) \subseteq Listed(order)
        /\ \A x, y : Before(memory'.order, x, y) => Before(order, x, y)
    BY <1>2, <2>1, CutFacts
  <2>3. Follows(memory'.order, used')
    BY <1>2, <1>4, <2>2 DEF Follows
  <2> QED
    BY <2>3 DEF RecencyInv, Follows, Listed, Before, NamedOnce
<1> QED
  BY <1>3, <1>4, RememberCuts

\* What a task that stores an entry knows of it.
LEMMA StoringFacts ==
  ASSUME CacheInv, NEW l \in Loaders, KeepFromDisk(l) \/ RememberResponse(l)
  PROVE  /\ loader[l].key \in Keys /\ loader[l].meta \in Metadata
         /\ loader[l].meta.key = loader[l].key
         /\ loader[l].body \in Bodies \cup {Mixed}
         /\ Remember(loader[l].key, loader[l].meta, loader[l].body)
BY TaskFacts DEF KeepFromDisk, RememberResponse, ReaderOK, Usable, Received, Storing

LEMMA NextRecency ==
  ASSUME CacheInv, RecencyInv, [Next]_vars
  PROVE  RecencyInv'
<1>1. ASSUME Follows(memory'.order, used')
      PROVE  RecencyInv'
  BY <1>1 DEF RecencyInv, Follows, Listed, Before, NamedOnce
<1>2. ASSUME NEW l \in Loaders, NEW key \in Keys, NEW limit \in Limits, StartRead(l, key, limit)
      PROVE  RecencyInv'
  <2> DEFINE found == LookUp(memory, key, now)
  <2>1. memory' = found.cache /\ used' = IF found.hit THEN Renewed(used, key) ELSE used
    BY <1>2 DEF StartRead, Use, Renewed
  <2>2. Follows(found.cache.order, IF found.hit THEN Renewed(used, key) ELSE used)
    BY LookUpFollows
  <2> HIDE DEF found
  <2> QED
    BY <1>1, <2>1, <2>2
<1>3. ASSUME NEW l \in Loaders, KeepFromDisk(l) \/ RememberResponse(l)
      PROVE  RecencyInv'
  BY <1>3, StoringFacts, RememberFollows
<1>4. CASE UNCHANGED <<memory, used>>
  BY <1>1, <1>4 DEF RecencyInv
<1>5. ASSUME NEW clear \in BOOLEAN, Restart(clear)
      PROVE  RecencyInv'
  BY <1>1, <1>5 DEF Restart, EmptyCache, RecencyInv, Follows, Listed, Before
<1>6. ASSUME NEW l \in Loaders, ReadStep(l)
      PROVE  RecencyInv'
  BY <1>2, <1>3, <1>4, <1>6 DEF BodyFileExists, ReadMeta, ReadBody, ReadStep
<1>7. ASSUME NEW l \in Loaders, StoreStep(l)
      PROVE  RecencyInv'
  BY <1>3, <1>4, <1>7 DEF StoreStep, Receive, FetchFails, OpenTemp, FillTemp, Rename, RetryRename, DiskFails, Return
<1>8. CASE Tick \/ UNCHANGED vars
  BY <1>4, <1>8 DEF Tick, vars
<1> QED
  BY <1>5, <1>6, <1>7, <1>8 DEF Next

\* Of the entries that are there before and after a task stores one, those
\* that go were used before those that stay.
LEMMA EvictedFirst ==
  ASSUME CacheInv, RecencyInv, NEW l \in Loaders, KeepFromDisk(l) \/ RememberResponse(l),
         NEW i \in 1 .. Len(used), NEW j \in 1 .. Len(used),
         loader[l].key \notin {used[i], used[j]},
         used[i] \in DOMAIN memory.entries \ DOMAIN memory'.entries,
         used[j] \in DOMAIN memory.entries \cap DOMAIN memory'.entries
  PROVE  i < j
<1> DEFINE key == loader[l].key
           order == Renewed(memory.order, key)
           known == DOMAIN memory.entries \cup {key}
<1>1. /\ key \in Keys /\ memory.order \in Seq(Keys) /\ NamedOnce(memory.order)
      /\ Listed(memory.order) = DOMAIN memory.entries
      /\ used \in Seq(Keys) /\ Len(used) \in Nat
  BY StoringFacts, CacheFacts, LenProperties DEF CacheInv, MemoryOK, CacheOK
<1>2. /\ Without(memory.order, key) \in Seq(Keys)
      /\ Listed(Without(memory.order, key)) = DOMAIN memory.entries \ {key}
      /\ NamedOnce(Without(memory.order, key))
      /\ \A x, y : Before(Without(memory.order, key), x, y)
                     <=> Before(memory.order, x, y) /\ key \notin {x, y}
  BY <1>1, WithoutFacts
<1>3. /\ order \in Seq(Keys) /\ NamedOnce(order) /\ Listed(order) = known
      /\ \A x, y : Before(order, x, y) /\ y # key => Before(memory.order, x, y)
  BY <1>1, <1>2, AppendFacts DEF Renewed
<1>4. PICK n \in 0 .. Len(order) : CutAt(order, n, known, memory')
  BY StoringFacts, RememberCuts
<1> HIDE DEF order, known
<1> DEFINE gone == {order[k] : k \in 1 .. n}
           cut == SubSeq(order, n + 1, Len(order))
<1>5. DOMAIN memory'.entries = known \ gone
  BY <1>4 DEF CutAt
<1>6. Listed(cut) = Listed(order) \ gone /\ \A x \in gone, y \in Listed(cut) : Before(order, x, y)
  BY <1>3, CutFacts
<1> HIDE DEF gone, cut
<1>7. used[i] \in gone /\ used[j] \in Listed(cut)
  BY <1>3, <1>5, <1>6 DEF known
<1>8. Before(used, used[i], used[j])
  BY <1>3, <1>6, <1>7 DEF RecencyInv, Follows
<1>9. PICK a, b \in 1 .. Len(used) : a < b /\ used[a] = used[i] /\ used[b] = used[j]
  BY <1>8 DEF Before
<1>10. a = i /\ b = j
  BY <1>9 DEF RecencyInv, Follows, NamedOnce
<1> QED
  BY <1>9, <1>10

\* Memory loses entries under a task that was about to store one only in
\* that task's step, and in a death, which leaves none.
LEMMA WhoEvicts ==
  ASSUME CacheInv, Next, NEW l \in Loaders, loader[l].pc \in {"remember", "keep"},
         loader'[l].pc # loader[l].pc, memory' # memory
  PROVE  KeepFromDisk(l) \/ RememberResponse(l) \/ DOMAIN memory'.entries = {}
<1>1. ASSUME NEW m \in Loaders, NEW key \in Keys, NEW limit \in Limits, StartRead(m, key, limit)
      PROVE  FALSE
  BY <1>1 DEF StartRead, CacheInv
<1>2. ASSUME NEW m \in Loaders, KeepFromDisk(m) \/ RememberResponse(m)
      PROVE  KeepFromDisk(l) \/ RememberResponse(l)
  BY <1>2 DEF KeepFromDisk, RememberResponse, Advance, CacheInv
<1>3. ASSUME NEW m \in Loaders, ReadStep(m)
      PROVE  KeepFromDisk(l) \/ RememberResponse(l)
  BY <1>1, <1>2, <1>3 DEF BodyFileExists, ReadMeta, ReadBody, ReadStep
<1>4. ASSUME NEW m \in Loaders, StoreStep(m)
      PROVE  KeepFromDisk(l) \/ RememberResponse(l)
  BY <1>2, <1>4 DEF StoreStep, Receive, FetchFails, OpenTemp, FillTemp, Rename, RetryRename, DiskFails, Return
<1>5. Tick => UNCHANGED memory
  BY DEF Tick
<1>6. ASSUME NEW clear \in BOOLEAN, Restart(clear)
      PROVE  DOMAIN memory'.entries = {}
  BY <1>6 DEF Restart, EmptyCache
<1> QED
  BY <1>3, <1>4, <1>5, <1>6 DEF Next

\* What is evicted to make room was used less recently than what stays,
\* whichever hits, refills and stale look-ups of other tasks came between.
THEOREM EvictionsAreLeastRecent ==
  Spec => EvictionIsLeastRecent
<1>1. Init => RecencyInv
  BY DEF Init, EmptyCache, RecencyInv, Follows, Listed, Before, NamedOnce
<1>2. CacheInv /\ RecencyInv /\ [Next]_vars => RecencyInv'
  BY NextRecency
<1>3. CacheInv /\ RecencyInv /\ [Next]_vars =>
        [\A l \in Loaders, i, j \in 1 .. Len(used) :
           /\ loader[l].pc \in {"remember", "keep"}
           /\ loader'[l].pc # loader[l].pc
           /\ loader[l].key \notin {used[i], used[j]}
           /\ used[i] \in DOMAIN memory.entries \ DOMAIN memory'.entries
           /\ used[j] \in DOMAIN memory.entries \cap DOMAIN memory'.entries
           => i < j]_vars
  BY WhoEvicts, EvictedFirst
<1> QED
  BY <1>1, <1>2, <1>3, CacheInvariance, PTL DEF Spec, EvictionIsLeastRecent

-----------------------------------------------------------------------------
(* The resources of pages                                                  *)

-----------------------------------------------------------------------------
(* Lists and numbers                                                       *)

LEMMA FunctionList ==
  ASSUME NEW n \in Nat, NEW f, f = [i \in 1 .. n |-> f[i]]
  PROVE  IsList(f) /\ Len(f) = n
<1> DEFINE T == {f[i] : i \in 1 .. n}
<1>1. f \in [1 .. n -> T]
  OBVIOUS
<1> HIDE DEF T
<1>2. f \in Seq(T) /\ Len(f) = n
  BY <1>1
<1> QED
  BY <1>2 DEF IsList

LEMMA SameLists ==
  ASSUME NEW a, NEW b, IsList(a), IsList(b), Len(a) = Len(b), \A i \in 1 .. Len(a) : a[i] = b[i]
  PROVE  a = b
<1>1. PICK A : a \in Seq(A)
  BY DEF IsList
<1>2. PICK B : b \in Seq(B)
  BY DEF IsList
<1> QED
  BY <1>1, <1>2

LEMMA JoinedLists ==
  ASSUME NEW a, NEW b, IsList(a), IsList(b)
  PROVE  /\ IsList(a \o b) /\ Len(a \o b) = Len(a) + Len(b)
         /\ \A i \in 1 .. Len(a) : (a \o b)[i] = a[i]
         /\ \A i \in 1 .. Len(b) : (a \o b)[Len(a) + i] = b[i]
<1>1. PICK A : a \in Seq(A)
  BY DEF IsList
<1>2. PICK B : b \in Seq(B)
  BY DEF IsList
<1> DEFINE U == A \cup B
<1>3. a \in Seq(U) /\ b \in Seq(U)
  BY <1>1, <1>2, SeqMonotonic
<1> HIDE DEF U
<1>4. /\ a \o b \in Seq(U) /\ Len(a \o b) = Len(a) + Len(b)
      /\ \A i \in 1 .. Len(a) + Len(b) : (a \o b)[i] = IF i <= Len(a) THEN a[i] ELSE b[i - Len(a)]
  BY <1>3, ConcatProperties
<1>5. Len(a) \in Nat /\ Len(b) \in Nat
  BY <1>3, LenProperties
<1>6. IsList(a \o b)
  BY <1>4 DEF IsList
<1>7. ASSUME NEW i \in 1 .. Len(a)
      PROVE  (a \o b)[i] = a[i]
  BY <1>4, <1>5
<1>8. ASSUME NEW i \in 1 .. Len(b)
      PROVE  (a \o b)[Len(a) + i] = b[i]
  <2> DEFINE k == Len(a) + i
  <2>1. k \in 1 .. Len(a) + Len(b) /\ ~(k <= Len(a)) /\ k - Len(a) = i
    BY <1>5
  <2> HIDE DEF k
  <2>2. (a \o b)[k] = b[i]
    BY <1>4, <2>1
  <2> QED
    BY <2>2 DEF k
<1> QED
  BY <1>4, <1>6, <1>7, <1>8

LEMMA OneItemList ==
  ASSUME NEW x
  PROVE  IsList(<<x>>) /\ Len(<<x>>) = 1 /\ <<x>>[1] = x
<1> DEFINE T == {x}
<1>1. x \in T
  OBVIOUS
<1> HIDE DEF T
<1>2. <<x>> \in Seq(T)
  BY <1>1
<1> QED
  BY <1>2 DEF IsList

LEMMA MinOfTwo ==
  ASSUME NEW a \in Int, NEW b \in Int
  PROVE  Min({a, b}) = (IF a <= b THEN a ELSE b)
<1> DEFINE S == {a, b}
           low == IF a <= b THEN a ELSE b
<1>1. low \in S /\ (\A y \in S : low <= y)
  OBVIOUS
<1>2. \A x \in S : (\A y \in S : x <= y) => x = low
  OBVIOUS
<1> HIDE DEF low, S
<1>3. Min(S) = low
  BY <1>1, <1>2 DEF Min
<1> QED
  BY <1>3 DEF S, low

LEMMA MaxOfTwo ==
  ASSUME NEW a \in Int, NEW b \in Int
  PROVE  Max({a, b}) = (IF a >= b THEN a ELSE b)
<1> DEFINE S == {a, b}
           high == IF a >= b THEN a ELSE b
<1>1. high \in S /\ (\A y \in S : high >= y)
  OBVIOUS
<1>2. \A x \in S : (\A y \in S : x >= y) => x = high
  OBVIOUS
<1> HIDE DEF high, S
<1>3. Max(S) = high
  BY <1>1, <1>2 DEF Max
<1> QED
  BY <1>3 DEF S, high

-----------------------------------------------------------------------------
(* How much of a body has come                                             *)

SizesUpTo(chunks, n, size) ==
  size = [i \in 0 .. n |-> IF i = 0 THEN 0 ELSE size[i - 1] + chunks[i]]

LEMMA SizesExist ==
  ASSUME NEW chunks, NEW n \in Nat
  PROVE  \E size : SizesUpTo(chunks, n, size)
<1> DEFINE S == {k \in 0 .. n : \E size : SizesUpTo(chunks, k, size)}
           start == 0
<1>1. start \in S
  <2> DEFINE none == [i \in 0 .. start |-> 0]
  <2>1. SizesUpTo(chunks, start, none)
    BY DEF SizesUpTo
  <2> QED
    BY <2>1
<1>2. ASSUME NEW k \in start .. n - 1, k \in S
      PROVE  k + 1 \in S
  <2>1. PICK size : SizesUpTo(chunks, k, size)
    BY <1>2
  <2> DEFINE last == size[k] + chunks[k + 1]
             more == [i \in 0 .. k + 1 |-> IF i = k + 1 THEN last ELSE size[i]]
  <2>2. \A i \in 0 .. k : size[i] = IF i = 0 THEN 0 ELSE size[i - 1] + chunks[i]
    BY <2>1 DEF SizesUpTo
  <2>3. ASSUME NEW i \in 0 .. k + 1
        PROVE  more[i] = IF i = 0 THEN 0 ELSE more[i - 1] + chunks[i]
    <3>1. CASE i = k + 1
      BY <1>2, <3>1
    <3>2. CASE i # k + 1
      BY <1>2, <2>2, <3>2
    <3> QED
      BY <3>1, <3>2
  <2>4. more = [i \in 0 .. k + 1 |-> more[i]]
    BY <1>2
  <2> HIDE DEF more
  <2>5. SizesUpTo(chunks, k + 1, more)
    BY <2>3, <2>4 DEF SizesUpTo
  <2> QED
    BY <1>2, <2>5
<1>3. start \in Nat /\ n \in start .. n
  OBVIOUS
<1> HIDE DEF S, start
<1>4. start .. n \subseteq S
  BY <1>1, <1>2, <1>3, CountingUp
<1> HIDE DEF S
<1>5. n \in S
  BY <1>3, <1>4
<1> QED
  BY <1>5 DEF S

LEMMA SizesAgree ==
  ASSUME NEW chunks, NEW n \in Nat, NEW m \in n .. n + 1, NEW a, NEW b,
         SizesUpTo(chunks, n, a), SizesUpTo(chunks, m, b)
  PROVE  a[n] = b[n]
<1> DEFINE S == {k \in 0 .. n : a[k] = b[k]}
           start == 0
<1>1. /\ \A i \in 0 .. n : a[i] = IF i = 0 THEN 0 ELSE a[i - 1] + chunks[i]
      /\ \A i \in 0 .. n : b[i] = IF i = 0 THEN 0 ELSE b[i - 1] + chunks[i]
  BY DEF SizesUpTo
<1>2. start \in S
  BY <1>1
<1>3. ASSUME NEW k \in start .. n - 1, k \in S
      PROVE  k + 1 \in S
  <2> DEFINE i == k + 1
  <2>1. i \in 0 .. n /\ i # 0 /\ i - 1 = k
    OBVIOUS
  <2>2. a[k] = b[k]
    BY <1>3
  <2> HIDE DEF i
  <2>3. a[i] = b[i]
    BY <1>1, <2>1, <2>2
  <2> QED
    BY <2>1, <2>3 DEF i
<1>4. start \in Nat /\ n \in start .. n
  OBVIOUS
<1> HIDE DEF S, start
<1>5. start .. n \subseteq S
  BY <1>2, <1>3, <1>4, CountingUp
<1>6. n \in S
  BY <1>4, <1>5
<1> QED
  BY <1>6 DEF S

\* Each chunk adds its size.
LEMMA SizeGrows ==
  ASSUME NEW chunks
  PROVE  /\ SizeOfFirst(chunks, 0) = 0
         /\ \A n \in Nat : SizeOfFirst(chunks, n + 1) = SizeOfFirst(chunks, n) + chunks[n + 1]
<1> DEFINE size(n) == CHOOSE f : SizesUpTo(chunks, n, f)
<1>1. ASSUME NEW n \in Nat
      PROVE  SizesUpTo(chunks, n, size(n)) /\ SizeOfFirst(chunks, n) = size(n)[n]
  BY SizesExist DEF SizeOfFirst, SizesUpTo
<1> HIDE DEF size
<1>2. SizeOfFirst(chunks, 0) = 0
  BY <1>1 DEF SizesUpTo
<1>3. ASSUME NEW n \in Nat
      PROVE  SizeOfFirst(chunks, n + 1) = SizeOfFirst(chunks, n) + chunks[n + 1]
  <2> DEFINE m == n + 1
  <2>1. m \in Nat /\ m \in n .. n + 1 /\ m \in 0 .. m /\ m # 0 /\ m - 1 = n
    OBVIOUS
  <2> HIDE DEF m
  <2>2. SizesUpTo(chunks, m, size(m)) /\ SizeOfFirst(chunks, m) = size(m)[m]
    BY <1>1, <2>1
  <2>3. SizesUpTo(chunks, n, size(n)) /\ SizeOfFirst(chunks, n) = size(n)[n]
    BY <1>1
  <2>4. size(n)[n] = size(m)[n]
    BY <2>1, <2>2, <2>3, SizesAgree
  <2>5. size(m)[m] = size(m)[n] + chunks[m]
    BY <2>1, <2>2 DEF SizesUpTo
  <2>6. SizeOfFirst(chunks, m) = SizeOfFirst(chunks, n) + chunks[m]
    BY <2>2, <2>3, <2>4, <2>5
  <2> QED
    BY <2>6 DEF m
<1> QED
  BY <1>2, <1>3

-----------------------------------------------------------------------------
(* What a page asks for                                                    *)

LEMMA ListedIsFinite ==
  ASSUME NEW s, IsList(s)
  PROVE  IsFiniteSet(ToSet(s))
<1> DEFINE places == 1 .. Len(s)
           f == [i \in places |-> s[i]]
           start == 1
           end == Len(s)
<1>1. Len(s) \in Nat /\ DOMAIN s = places
  BY ListFacts
<1>2. IsFiniteSet(places)
  <2>1. start \in Int /\ end \in Int
    BY <1>1
  <2> HIDE DEF start, end
  <2>2. IsFiniteSet(start .. end)
    BY <2>1, FS_Interval
  <2> QED
    BY <2>2 DEF start, end
<1>3. f \in Surjection(places, ToSet(s))
  BY <1>1 DEF Surjection, ToSet
<1> HIDE DEF f, places
<1> QED
  BY <1>2, <1>3, FS_Surjection

LEMMA ListsOfRequests ==
  ASSUME NEW list, AreRequests(list)
  PROVE  IsList(list) /\ \A i \in 1 .. Len(list) : IsRequest(list[i]) /\ list[i] \in ToSet(list)
<1>1. IsList(list)
  BY DEF AreRequests, IsList
<1>2. DOMAIN list = 1 .. Len(list)
  BY <1>1, ListFacts
<1> QED
  BY <1>1, <1>2 DEF AreRequests, ToSet

LEMMA PlanFacts ==
  ASSUME NEW plan \in PagePlans
  PROVE  /\ IsRequest(plan.document) /\ plan.document.kind = "Document"
         /\ IsList(plan.parts)
         /\ \A i \in 1 .. Len(plan.parts) : IsRequest(plan.parts[i]) /\ plan.parts[i].kind \notin {"Document", "Image"}
<1>1. AreRequests(plan.parts) /\ \A part \in ToSet(plan.parts) : part.kind \notin {"Document", "Image"}
  BY ResourcesAssumption
<1>2. IsList(plan.parts) /\ \A i \in 1 .. Len(plan.parts) : IsRequest(plan.parts[i]) /\ plan.parts[i] \in ToSet(plan.parts)
  BY <1>1, ListsOfRequests
<1> QED
  BY <1>1, <1>2, ResourcesAssumption

\* Each address of a page that can be fetched is listed once.
LEMMA AddressesFacts ==
  ASSUME NEW plan \in PagePlans
  PROVE  LET addresses == ImageAddresses(plan) IN
         /\ IsList(addresses) /\ Len(addresses) \in Nat
         /\ \A i \in 1 .. Len(addresses) : addresses[i].path \in Nat
         /\ \A i, j \in 1 .. Len(addresses) : addresses[i] = addresses[j] => i = j
<1> DEFINE found == {a \in ToSet(plan.images) : IsFetchable(a)}
           order == {pair \in found \X found : pair[1].path <= pair[2].path}
           addresses == ImageAddresses(plan)
<1>1. /\ IsList(plan.images)
      /\ \A a, b \in ToSet(plan.images) : a.path \in Nat /\ (a.path = b.path => a = b)
  BY ResourcesAssumption DEF IsList
<1>2. IsFiniteSet(found)
  BY <1>1, ListedIsFinite, FS_Subset
<1>3. \A a, b \in found : a.path \in Nat /\ b.path \in Nat /\ (a.path = b.path => a = b)
  BY <1>1
<1>4. \A a, b \in found : <<a, b>> \in order <=> a.path <= b.path
  OBVIOUS
<1> HIDE DEF order
<1>5. addresses = InOrderBy(found, order)
  BY DEF ImageAddresses, order
<1> HIDE DEF found
<1>6. IsTotalOrder(found, order)
  BY <1>3, <1>4 DEF IsTotalOrder
<1> HIDE DEF addresses
<1>7. /\ EnumeratesBy(addresses, found, order)
      /\ addresses \in Seq(found)
      /\ Len(addresses) = Cardinality(found)
  BY <1>2, <1>5, <1>6, InOrderByEnumerates
<1>8. Len(addresses) \in Nat /\ IsList(addresses)
  BY <1>7, LenProperties DEF IsList
<1>9. \A i \in 1 .. Len(addresses) : addresses[i] \in found
  BY <1>7 DEF EnumeratesBy
<1>10. \A i, j \in 1 .. Len(addresses) : addresses[i] = addresses[j] => i = j
  <2> SUFFICES ASSUME NEW i \in 1 .. Len(addresses), NEW j \in 1 .. Len(addresses), i # j
               PROVE  addresses[i] # addresses[j]
    OBVIOUS
  <2>1. i < j \/ j < i
    BY <1>8
  <2> QED
    BY <1>7, <2>1 DEF EnumeratesBy
<1> QED
  BY <1>3, <1>8, <1>9, <1>10 DEF addresses

LEMMA ImageRequestsFacts ==
  ASSUME NEW plan \in PagePlans
  PROVE  LET addresses == ImageAddresses(plan)
             images == ImageRequests(plan) IN
         /\ IsList(images) /\ Len(images) \in Nat
         /\ Len(images) = (IF Len(addresses) <= MaxImages THEN Len(addresses) ELSE MaxImages)
         /\ \A i \in 1 .. Len(images) :
              IsRequest(images[i]) /\ images[i].kind = "Image" /\ images[i].address = addresses[i]
<1> DEFINE addresses == ImageAddresses(plan)
           images == ImageRequests(plan)
           k == Min({Len(addresses), MaxImages})
<1>1. /\ Len(addresses) \in Nat
      /\ \A i \in 1 .. Len(addresses) : addresses[i].path \in Nat
  BY AddressesFacts
<1>2. MaxImages \in Nat /\ ImageLimit \in Nat
  BY ResourcesAssumption
<1>3. images = [i \in 1 .. k |-> Asks("Image", addresses[i], ImageLimit)]
  BY DEF ImageRequests
<1> HIDE DEF addresses, images, k
<1>4. k = (IF Len(addresses) <= MaxImages THEN Len(addresses) ELSE MaxImages) /\ k \in Nat
  BY <1>1, <1>2, MinOfTwo DEF k
<1>5. images = [i \in 1 .. k |-> images[i]] /\ \A i \in 1 .. k : images[i] = Asks("Image", addresses[i], ImageLimit)
  BY <1>3
<1>6. IsList(images) /\ Len(images) = k
  BY <1>4, <1>5, FunctionList
<1>7. ASSUME NEW i \in 1 .. k
      PROVE  IsRequest(images[i]) /\ images[i].kind = "Image" /\ images[i].address = addresses[i]
  <2>1. i \in 1 .. Len(addresses)
    BY <1>1, <1>2, <1>4
  <2>2. addresses[i].path \in Nat
    BY <1>1, <2>1
  <2>3. images[i] = Asks("Image", addresses[i], ImageLimit)
    BY <1>5
  <2> QED
    BY <1>2, <2>2, <2>3 DEF Asks, IsRequest, DefaultPriority, IsTextKind, Kinds, KindOrder
<1> QED
  BY <1>4, <1>6, <1>7 DEF addresses, images

PageRequests(plan) == <<plan.document>> \o plan.parts \o ImageRequests(plan)

LEMMA PageRequestsFacts ==
  ASSUME NEW plan \in PagePlans
  PROVE  LET all == PageRequests(plan)
             parts == Len(plan.parts)
             images == ImageRequests(plan) IN
         /\ IsList(all) /\ Len(all) = 1 + parts + Len(images) /\ parts \in Nat /\ Len(images) \in Nat
         /\ all[1] = plan.document
         /\ \A i \in 1 .. parts : all[1 + i] = plan.parts[i]
         /\ \A i \in 1 .. Len(images) : all[1 + parts + i] = images[i]
<1> DEFINE one == <<plan.document>>
           parts == plan.parts
           images == ImageRequests(plan)
           head == one \o parts
<1>1. IsList(one) /\ Len(one) = 1 /\ one[1] = plan.document
  BY OneItemList
<1>2. IsList(parts) /\ IsList(images)
  BY PlanFacts, ImageRequestsFacts
<1>3. Len(parts) \in Nat /\ Len(images) \in Nat
  BY <1>2, ListFacts
<1>4. PageRequests(plan) = head \o images
  BY DEF PageRequests
<1> HIDE DEF one, parts, images
<1>5. /\ IsList(head) /\ Len(head) = 1 + Len(parts)
      /\ head[1] = plan.document
      /\ \A i \in 1 .. Len(parts) : head[1 + i] = parts[i]
  <2>1. /\ IsList(head) /\ Len(head) = Len(one) + Len(parts)
        /\ \A i \in 1 .. Len(one) : head[i] = one[i]
        /\ \A i \in 1 .. Len(parts) : head[Len(one) + i] = parts[i]
    <3>1. IsList(one) /\ IsList(parts)
      BY <1>1, <1>2
    <3> QED
      BY <3>1, JoinedLists
  <2> HIDE DEF head
  <2>2. head[1] = one[1]
    <3> DEFINE first == 1
    <3>1. first \in 1 .. Len(one)
      BY <1>1
    <3> HIDE DEF first
    <3>2. head[first] = one[first]
      BY <2>1, <3>1
    <3> QED
      BY <3>2 DEF first
  <2> QED
    BY <1>1, <2>1, <2>2
<1> HIDE DEF head
<1> DEFINE all == head \o images
<1>6. /\ IsList(all) /\ Len(all) = Len(head) + Len(images)
      /\ \A i \in 1 .. Len(head) : all[i] = head[i]
      /\ \A i \in 1 .. Len(images) : all[Len(head) + i] = images[i]
  <2>1. IsList(head) /\ IsList(images)
    BY <1>2, <1>5
  <2> QED
    BY <2>1, JoinedLists
<1> HIDE DEF all
<1>7. all[1] = plan.document
  <2> DEFINE first == 1
  <2>1. first \in 1 .. Len(head)
    BY <1>3, <1>5
  <2> HIDE DEF first
  <2>2. all[first] = head[first]
    BY <1>6, <2>1
  <2> QED
    BY <1>5, <2>2 DEF first
<1>8. ASSUME NEW i \in 1 .. Len(parts)
      PROVE  all[1 + i] = parts[i]
  <2> DEFINE k == 1 + i
  <2>1. k \in 1 .. Len(head) /\ head[k] = parts[i]
    BY <1>3, <1>5
  <2> HIDE DEF k
  <2>2. all[k] = parts[i]
    BY <1>6, <2>1
  <2> QED
    BY <2>2 DEF k
<1>9. PageRequests(plan) = all
  BY <1>4 DEF all
<1> QED
  BY <1>3, <1>5, <1>6, <1>7, <1>8, <1>9 DEF parts, images

-----------------------------------------------------------------------------
(* The order of a batch                                                    *)

LEMMA PrecedesMeans ==
  ASSUME NEW a, NEW b
  PROVE  Precedes(a, b) <=> \/ a[1] < b[1]
                            \/ a[1] = b[1] /\ a[2] < b[2]
                            \/ a[1] = b[1] /\ a[2] = b[2] /\ a[3] < b[3]
<1>1. Precedes(a, b) <=> \/ a[1] < b[1] /\ (\A k \in 1 .. 0 : a[k] = b[k])
                         \/ a[2] < b[2] /\ (\A k \in 1 .. 1 : a[k] = b[k])
                         \/ a[3] < b[3] /\ (\A k \in 1 .. 2 : a[k] = b[k])
  <2>1. 1 .. 3 = {1, 2, 3}
    OBVIOUS
  <2> DEFINE At(i) == a[i] < b[i] /\ \A k \in 1 .. i - 1 : a[k] = b[k]
  <2>2. Precedes(a, b) <=> \E i \in {1, 2, 3} : At(i)
    BY <2>1 DEF Precedes
  <2>3. (\E i \in {1, 2, 3} : At(i)) <=> At(1) \/ At(2) \/ At(3)
    <3> HIDE DEF At
    <3> QED
      OBVIOUS
  <2>4. 1 .. 1 - 1 = 1 .. 0 /\ 1 .. 2 - 1 = 1 .. 1 /\ 1 .. 3 - 1 = 1 .. 2
    OBVIOUS
  <2> QED
    BY <2>2, <2>3, <2>4
<1>2. 1 .. 0 = {} /\ 1 .. 1 = {1} /\ 1 .. 2 = {1, 2}
  OBVIOUS
<1> QED
  BY <1>1, <1>2

IsUrgency(u) == u[1] \in Int /\ u[2] \in Int /\ u[3] \in Int /\ u = <<u[1], u[2], u[3]>>

LEMMA UrgencyFacts ==
  ASSUME NEW request, IsRequest(request)
  PROVE  IsUrgency(Urgency(request)) /\ Urgency(request)[1] = request.priority
<1>1. KindOrder[request.kind] \in Int
  BY DEF IsRequest, Kinds, KindOrder
<1> HIDE DEF KindOrder
<1>2. request.priority \in Int /\ request.address.path \in Int
  BY DEF IsRequest
<1> QED
  BY <1>1, <1>2 DEF Urgency, IsUrgency

LEMMA UrgenciesAreOrdered ==
  ASSUME NEW a, NEW b, NEW c, IsUrgency(a), IsUrgency(b), IsUrgency(c)
  PROVE  /\ ~Precedes(b, a) \/ ~Precedes(a, b)
         /\ ~Precedes(b, a) /\ ~Precedes(a, b) => a = b
         /\ ~Precedes(b, a) /\ ~Precedes(c, b) => ~Precedes(c, a)
         /\ ~Precedes(b, a) => a[1] <= b[1]
<1>1. /\ a[1] \in Int /\ a[2] \in Int /\ a[3] \in Int
      /\ b[1] \in Int /\ b[2] \in Int /\ b[3] \in Int
      /\ c[1] \in Int /\ c[2] \in Int /\ c[3] \in Int
      /\ a = <<a[1], a[2], a[3]>> /\ b = <<b[1], b[2], b[3]>>
  BY DEF IsUrgency
<1> QED
  BY <1>1, PrecedesMeans

FirstsOf(requests) ==
  {i \in DOMAIN requests : \A k \in 1 .. i - 1 : Urgency(requests[k]) # Urgency(requests[i])}
UrgenciesOf(requests) == {Urgency(r) : r \in ToSet(requests)}

\* Each urgency has one request that comes first.
LEMMA FirstsFacts ==
  ASSUME NEW requests, IsList(requests)
  PROVE  /\ IsFiniteSet(FirstsOf(requests)) /\ FirstsOf(requests) \in SUBSET Nat
         /\ Cardinality(FirstsOf(requests)) = Cardinality(UrgenciesOf(requests))
         /\ \A i, k \in FirstsOf(requests) : Urgency(requests[i]) = Urgency(requests[k]) => i = k
<1> DEFINE firsts == FirstsOf(requests)
           urgencies == UrgenciesOf(requests)
           f == [i \in firsts |-> Urgency(requests[i])]
           start == 1
           end == Len(requests)
<1>1. Len(requests) \in Nat /\ DOMAIN requests = 1 .. Len(requests)
  BY ListFacts
<1>2. firsts \in SUBSET (1 .. Len(requests))
  BY <1>1 DEF FirstsOf
<1>3. IsFiniteSet(firsts)
  <2>1. start \in Int /\ end \in Int
    BY <1>1
  <2>2. firsts \in SUBSET (start .. end)
    BY <1>2
  <2> HIDE DEF start, end, firsts
  <2>3. IsFiniteSet(start .. end)
    BY <2>1, FS_Interval
  <2> QED
    BY <2>2, <2>3, FS_Subset
<1>4. ASSUME NEW i \in firsts, NEW k \in firsts, Urgency(requests[i]) = Urgency(requests[k])
      PROVE  i = k
  <2>1. /\ i \in 1 .. Len(requests) /\ \A j \in 1 .. i - 1 : Urgency(requests[j]) # Urgency(requests[i])
        /\ k \in 1 .. Len(requests) /\ \A j \in 1 .. k - 1 : Urgency(requests[j]) # Urgency(requests[k])
    BY <1>1 DEF FirstsOf
  <2>2. ~(i < k)
    BY <1>1, <1>4, <2>1
  <2>3. ~(k < i)
    BY <1>1, <1>4, <2>1
  <2> QED
    BY <1>1, <2>1, <2>2, <2>3
<1>5. ASSUME NEW u \in urgencies
      PROVE  \E i \in firsts : Urgency(requests[i]) = u
  <2> DEFINE places == {i \in 1 .. Len(requests) : Urgency(requests[i]) = u}
  <2>1. places # {} /\ places \in SUBSET Nat
    BY <1>1 DEF UrgenciesOf, ToSet
  <2>2. PICK i \in places : \A j \in places : i <= j
    <3> HIDE DEF places
    <3> QED
      BY <2>1, LeastNatural
  <2>3. ASSUME NEW k \in 1 .. i - 1
        PROVE  Urgency(requests[k]) # Urgency(requests[i])
    BY <1>1, <2>2
  <2>4. i \in firsts
    BY <1>1, <2>2, <2>3 DEF FirstsOf
  <2> QED
    BY <2>2, <2>4
<1>6. ASSUME NEW i \in firsts
      PROVE  Urgency(requests[i]) \in urgencies
  BY <1>1, <1>2 DEF UrgenciesOf, ToSet
<1> HIDE DEF firsts, urgencies
<1>7. f \in [firsts -> urgencies]
  BY <1>6
<1>8. f \in Bijection(firsts, urgencies)
  BY <1>4, <1>5, <1>7 DEF Bijection, Injection, Surjection, IsInjective
<1> HIDE DEF f
<1>9. ExistsBijection(firsts, urgencies)
  BY <1>8 DEF ExistsBijection
<1>10. Cardinality(urgencies) = Cardinality(firsts)
  BY <1>3, <1>9, FS_Bijection
<1>11. firsts \in SUBSET Nat
  BY <1>1, <1>2
<1> QED
  BY <1>3, <1>4, <1>10, <1>11 DEF firsts, urgencies

\* A batch asks for the first of the requests that differ, by their urgency.
LEMMA BatchOrderFacts ==
  ASSUME NEW requests, AreRequests(requests)
  PROVE  LET all == BatchOrder(requests) IN
         /\ IsList(all) /\ Len(all) \in Nat
         /\ Len(all) = Min({MaxBatchItems, Cardinality(UrgenciesOf(requests))})
         /\ \A i \in 1 .. Len(all) : IsRequest(all[i])
         /\ \A i, k \in 1 .. Len(all) : Urgency(all[i]) = Urgency(all[k]) => i = k
         /\ \A i, k \in 1 .. Len(all) : i < k => all[i].priority <= all[k].priority
<1> DEFINE all == BatchOrder(requests)
           urgency == [i \in DOMAIN requests |-> Urgency(requests[i])]
           firsts == {i \in DOMAIN requests : \A k \in 1 .. i - 1 : urgency[k] # urgency[i]}
           c == Min({Cardinality(firsts), MaxBatchItems})
           places == InOrder(firsts)
           taken == {places[n] : n \in 1 .. c}
           order == {pair \in taken \X taken : ~Precedes(urgency[pair[2]], urgency[pair[1]])}
           chosen == InOrderBy(taken, order)
<1>1. all = [n \in DOMAIN chosen |-> requests[chosen[n]]]
  BY DEF BatchOrder
<1>2. /\ IsList(requests)
      /\ \A i \in 1 .. Len(requests) : IsRequest(requests[i])
      /\ DOMAIN requests = 1 .. Len(requests) /\ Len(requests) \in Nat
  BY ListsOfRequests, ListFacts
<1>3. \A i \in DOMAIN requests : urgency[i] = Urgency(requests[i])
  OBVIOUS
<1> HIDE DEF urgency
<1>4. firsts = FirstsOf(requests)
  <2>1. ASSUME NEW i \in DOMAIN requests, NEW k \in 1 .. i - 1
        PROVE  (urgency[k] # urgency[i]) <=> (Urgency(requests[k]) # Urgency(requests[i]))
    BY <1>2, <1>3
  <2> QED
    BY <2>1 DEF FirstsOf
<1>5. /\ IsFiniteSet(firsts) /\ firsts \in SUBSET Int /\ firsts \in SUBSET DOMAIN requests
      /\ Cardinality(firsts) = Cardinality(UrgenciesOf(requests))
      /\ \A i, k \in firsts : Urgency(requests[i]) = Urgency(requests[k]) => i = k
  <2>1. firsts \in SUBSET DOMAIN requests
    OBVIOUS
  <2> HIDE DEF firsts
  <2>2. /\ IsFiniteSet(firsts) /\ firsts \in SUBSET Nat
        /\ Cardinality(firsts) = Cardinality(UrgenciesOf(requests))
        /\ \A i, k \in firsts : Urgency(requests[i]) = Urgency(requests[k]) => i = k
    BY <1>2, <1>4, FirstsFacts
  <2>3. firsts \in SUBSET Int
    BY <2>2
  <2> QED
    BY <2>1, <2>2, <2>3
<1> HIDE DEF firsts
<1>6. MaxBatchItems \in Nat /\ Cardinality(firsts) \in Nat
  BY <1>5, ResourcesAssumption, FS_CardinalityType
<1>7. c \in Nat /\ c <= Cardinality(firsts) /\ c = Min({MaxBatchItems, Cardinality(UrgenciesOf(requests))})
  <2>1. c = IF Cardinality(firsts) <= MaxBatchItems THEN Cardinality(firsts) ELSE MaxBatchItems
    BY <1>6, MinOfTwo
  <2>2. {Cardinality(firsts), MaxBatchItems} = {MaxBatchItems, Cardinality(UrgenciesOf(requests))}
    BY <1>5
  <2>3. c = Min({MaxBatchItems, Cardinality(UrgenciesOf(requests))})
    BY <2>2
  <2> HIDE DEF c
  <2> QED
    BY <1>6, <2>1, <2>3
<1> HIDE DEF c
<1>8. EnumeratesInOrder(places, firsts)
  BY <1>5, InOrderEnumerates
<1> HIDE DEF places
<1>9. /\ \A n \in 1 .. c : places[n] \in firsts
      /\ \A n, m \in 1 .. c : n # m => places[n] # places[m]
  <2>1. \A n \in 1 .. c : n \in 1 .. Cardinality(firsts)
    BY <1>6, <1>7
  <2>2. \A n \in 1 .. Cardinality(firsts) : places[n] \in firsts
    BY <1>8 DEF EnumeratesInOrder
  <2>3. ASSUME NEW n \in 1 .. c, NEW m \in 1 .. c, n # m
        PROVE  places[n] # places[m]
    <3>1. n < m \/ m < n
      BY <2>3, <1>7
    <3>2. places[n] < places[m] \/ places[m] < places[n]
      BY <1>8, <2>1, <3>1 DEF EnumeratesInOrder
    <3>3. places[n] \in Int /\ places[m] \in Int
      BY <1>5, <2>1, <2>2
    <3> QED
      BY <3>2, <3>3
  <2> QED
    BY <2>1, <2>2, <2>3
<1>10. IsFiniteSet(taken) /\ Cardinality(taken) = c /\ taken \in SUBSET firsts
  <2> DEFINE first == 1
             numbers == first .. c
             f == [n \in numbers |-> places[n]]
  <2>1. IsFiniteSet(numbers) /\ Cardinality(numbers) = c
    <3>1. first \in Int /\ c \in Int /\ (first > c => c = 0) /\ c - first + 1 = c
      BY <1>7
    <3> HIDE DEF first
    <3>2. IsFiniteSet(first .. c) /\ Cardinality(first .. c) = IF first > c THEN 0 ELSE c - first + 1
      BY <3>1, FS_Interval
    <3> QED
      BY <3>1, <3>2
  <2>2. f \in Bijection(numbers, taken)
    BY <1>9 DEF Bijection, Injection, Surjection, IsInjective
  <2>3. taken \in SUBSET firsts
    BY <1>9
  <2> HIDE DEF numbers, f, taken
  <2>4. ExistsBijection(numbers, taken)
    BY <2>2 DEF ExistsBijection
  <2> QED
    BY <2>1, <2>3, <2>4, FS_Bijection
<1> HIDE DEF taken
<1>11. /\ \A i \in taken : IsRequest(requests[i]) /\ urgency[i] = Urgency(requests[i]) /\ IsUrgency(urgency[i])
                           /\ urgency[i][1] = requests[i].priority
       /\ \A i, k \in taken : urgency[i] = urgency[k] => i = k
  <2>1. \A i \in taken : i \in firsts /\ i \in DOMAIN requests
    BY <1>5, <1>10
  <2>2. \A i \in taken : IsRequest(requests[i]) /\ urgency[i] = Urgency(requests[i])
    BY <1>2, <1>3, <2>1
  <2>3. \A i \in taken : IsUrgency(urgency[i]) /\ urgency[i][1] = requests[i].priority
    BY <2>2, UrgencyFacts
  <2>4. ASSUME NEW i \in taken, NEW k \in taken, urgency[i] = urgency[k]
        PROVE  i = k
    BY <1>5, <2>1, <2>2, <2>4
  <2> QED
    BY <2>2, <2>3, <2>4
<1>12. \A i, k \in taken : <<i, k>> \in order <=> ~Precedes(urgency[k], urgency[i])
  OBVIOUS
<1> HIDE DEF order
<1>13. IsTotalOrder(taken, order)
  BY <1>11, <1>12, UrgenciesAreOrdered DEF IsTotalOrder
<1> HIDE DEF chosen
<1>14. /\ EnumeratesBy(chosen, taken, order) /\ chosen \in Seq(taken) /\ Len(chosen) = c
  BY <1>10, <1>13, InOrderByEnumerates DEF chosen
<1>15. DOMAIN chosen = 1 .. c /\ \A n \in 1 .. c : chosen[n] \in taken
  BY <1>10, <1>14 DEF EnumeratesBy
<1> HIDE DEF all
<1>16. /\ IsList(all) /\ Len(all) = c /\ \A n \in 1 .. c : all[n] = requests[chosen[n]]
  BY <1>1, <1>7, <1>15, FunctionList
<1>17. \A n \in 1 .. c : IsRequest(all[n]) /\ Urgency(all[n]) = urgency[chosen[n]] /\ all[n].priority = urgency[chosen[n]][1]
  BY <1>11, <1>15, <1>16
<1>18. \A n, m \in 1 .. c : n < m => chosen[n] # chosen[m] /\ <<chosen[n], chosen[m]>> \in order
  BY <1>10, <1>14 DEF EnumeratesBy
<1>19. ASSUME NEW n \in 1 .. c, NEW m \in 1 .. c, Urgency(all[n]) = Urgency(all[m])
       PROVE  n = m
  <2>1. chosen[n] = chosen[m]
    BY <1>11, <1>15, <1>17, <1>19
  <2>2. ~(n < m) /\ ~(m < n)
    BY <1>18, <2>1
  <2> QED
    BY <1>7, <2>2
<1>20. ASSUME NEW n \in 1 .. c, NEW m \in 1 .. c, n < m
       PROVE  all[n].priority <= all[m].priority
  <2>1. chosen[n] \in taken /\ chosen[m] \in taken
    BY <1>15
  <2>2. ~Precedes(urgency[chosen[m]], urgency[chosen[n]])
    BY <1>12, <1>18, <1>20, <2>1
  <2>3. IsUrgency(urgency[chosen[n]]) /\ IsUrgency(urgency[chosen[m]])
    BY <1>11, <2>1
  <2>4. urgency[chosen[n]][1] <= urgency[chosen[m]][1]
    BY <2>2, <2>3, UrgenciesAreOrdered
  <2> QED
    BY <1>17, <2>4
<1> QED
  BY <1>7, <1>16, <1>17, <1>19, <1>20 DEF all

-----------------------------------------------------------------------------
(* The inductive invariant                                                 *)

TaskFields == {"step", "of", "plan", "todo", "fetch", "outcomes", "images", "alone", "counted"}
FetchFields == {"phase", "request", "address", "left", "chain", "answer", "read", "got"}

PlanOK(task) ==
  /\ task.of \in {"page", "textBatch", "bytesBatch"}
  /\ IF task.of = "page" THEN task.plan \in PagePlans ELSE task.plan \in Batches

\* What a load asks for: of a page only its document, until that is there.
AllOf(task) ==
  IF task.of # "page" THEN BatchOrder(task.plan)
  ELSE IF Len(task.outcomes) = 0 THEN <<task.plan.document>> ELSE PageRequests(task.plan)

\* The outcomes so far, the request under way and those to come are all.
Settled(all, outcomes, todo) ==
  /\ Len(all) = Len(outcomes) + Len(todo)
  /\ \A i \in 1 .. Len(outcomes) : outcomes[i].request = all[i]
  /\ \A i \in 1 .. Len(todo) : todo[i] = all[Len(outcomes) + i]
Awaiting(all, outcomes, request, todo) ==
  /\ Len(all) = Len(outcomes) + 1 + Len(todo)
  /\ \A i \in 1 .. Len(outcomes) : outcomes[i].request = all[i]
  /\ request = all[Len(outcomes) + 1]
  /\ \A i \in 1 .. Len(todo) : todo[i] = all[Len(outcomes) + 1 + i]

OutcomeOK(of, outcome) ==
  IsHad(outcome) =>
    LET entry == outcome.entry[1] IN
    /\ LeadsTo(outcome.request.address, entry.chain, entry.address)
    /\ IsSuccess(entry.answer.status) /\ SizeOfBody(entry.answer) <= outcome.request.limit
    /\ MimeAllowed(outcome.request.kind, MimeOf(outcome.request.kind, entry.address, entry.answer))
    /\ IsTextKind(outcome.request.kind) => entry.answer.utf8
    /\ outcome.source = "Kept" => ~RevalidateOnUse(entry.answer)
    /\ outcome.request.kind = "Script" => ScriptsAllowed
    /\ of # "page" => (IsTextKind(outcome.request.kind) <=> of = "textBatch")

\* Of the images concluded each is decoded or failed, and so are those that
\* are more than a page may have.
ImagesConcluded(task) ==
  IF Len(task.outcomes) > 1 + Len(task.plan.parts) THEN Len(task.outcomes) - 1 - Len(task.plan.parts) ELSE 0
ImagesOK(task) ==
  task.of = "page" /\ Len(task.outcomes) > 0 =>
    LET addresses == ImageAddresses(task.plan)
        images == task.images IN
    /\ DOMAIN images = {"discovered", "decoded", "failed"}
    /\ images.discovered = Len(addresses)
    /\ images.decoded \subseteq {addresses[i] : i \in 1 .. ImagesConcluded(task)}
    /\ IsFiniteSet(images.decoded) /\ images.failed \in Nat
    /\ Cardinality(images.decoded) + images.failed
         = ImagesConcluded(task) + Len(addresses) - Len(ImageRequests(task.plan))

FetchOK(task) ==
  LET fetch == task.fetch IN
  /\ DOMAIN fetch = FetchFields /\ fetch.phase \in {"asked", "body"}
  /\ IsList(fetch.chain) /\ LeadsTo(fetch.request.address, fetch.chain, fetch.address)
  /\ fetch.left = MaxRedirects - Len(fetch.chain)
  /\ fetch.read \in Nat /\ fetch.got <= fetch.request.limit
  /\ fetch.phase = "asked" => fetch.read = 0 /\ fetch.got = 0
  /\ fetch.phase = "body" => fetch.got = SizeOfFirst(fetch.answer.chunks, fetch.read)
  /\ ValidRequest(fetch.request) /\ ~RefusedBefore(task, fetch.request)

\* A load that was begun.
LoadOK(task) ==
  /\ DOMAIN task = TaskFields /\ PlanOK(task)
  /\ IsList(task.outcomes) /\ IsList(task.todo)
  /\ \A i \in 1 .. Len(task.outcomes) : OutcomeOK(task.of, task.outcomes[i])

\* What is left of a load whose request is about to be answered.
ReadyFor(task, request) ==
  /\ LoadOK(task) /\ ImagesOK(task) /\ task.step = "busy"
  /\ Awaiting(AllOf(task), task.outcomes, request, task.todo)

BegunOK(task) ==
  /\ LoadOK(task) /\ task.step \in {"busy", "done", "failed"}
  /\ task.step # "busy" => task.fetch = NoFetch
  /\ task.step = "failed" => task.of = "page"
  /\ task.step # "failed" =>
       /\ ImagesOK(task)
       /\ IF task.fetch = NoFetch THEN Settled(AllOf(task), task.outcomes, task.todo)
          ELSE Awaiting(AllOf(task), task.outcomes, task.fetch.request, task.todo)
  /\ task.step = "busy" /\ task.fetch = NoFetch => Len(task.todo) > 0
  /\ task.step = "done" => Len(task.todo) = 0 /\ (task.of = "page" => Len(task.outcomes) > 0)
  /\ task.fetch # NoFetch => FetchOK(task)

TaskOK(task) == task = IdleTask \/ BegunOK(task)
TasksOK == DOMAIN tasks = PageTasks /\ \A t \in PageTasks : TaskOK(tasks[t])

EntryOK(key, entry) ==
  /\ LeadsTo(key[2], entry.chain, entry.address) /\ IsList(entry.chain)
  /\ IsSuccess(entry.answer.status)
  /\ MimeAllowed(key[1], MimeOf(key[1], entry.address, entry.answer))
  /\ CacheIsEnabled /\ "no-store" \notin Directives(entry.answer)
KeptOK == \A key \in DOMAIN kept : EntryOK(key, kept[key])

SummaryFields ==
  {"total", "succeeded", "failed", "scriptsBlocked", "redirects", "cacheable", "notCacheable", "kinds", "sources"}
SummaryOK(s) ==
  /\ DOMAIN s = SummaryFields /\ SummaryAddsUp(s)
  /\ {s.total, s.succeeded, s.failed, s.cacheable, s.notCacheable} \subseteq Nat
  /\ s.kinds \in [Kinds -> Nat] /\ s.sources \in [Sources -> Nat]
TalliesOK == DOMAIN tallies = {"begun", "summary"} /\ SummaryOK(tallies.summary)

\* The summary is of the load that runs alone.
Valids(outcomes) == {i \in 1 .. Len(outcomes) : ValidRequest(outcomes[i].request)}
Counted(task, summary) ==
  task.of = "page" /\ task.alone =>
    /\ task.step = "busy" => summary.total = Cardinality(Valids(task.outcomes))
    /\ task.step = "done" => task.counted.total = Cardinality(Valids(task.outcomes))
CountsOK ==
  /\ \A t \in PageTasks : Counted(tasks[t], tallies.summary)
  /\ \A t, o \in PageTasks : t # o /\ tasks[t].step = "busy" /\ tasks[t].alone => tasks[o].step # "busy"

ResourcesInv == TasksOK /\ KeptOK /\ TalliesOK /\ CountsOK

-----------------------------------------------------------------------------
(* What a load asks for                                                    *)

LEMMA PageRequestKinds ==
  ASSUME NEW plan \in PagePlans
  PROVE  LET all == PageRequests(plan) IN
         /\ \A i \in 1 .. Len(all) : IsRequest(all[i]) /\ (all[i].kind = "Document" => i = 1)
         /\ \A i \in 1 .. Len(plan.parts) + 1 : all[i].kind # "Image"
         /\ \A i \in Len(plan.parts) + 2 .. Len(all) :
              all[i].kind = "Image" /\ all[i].address = ImageAddresses(plan)[i - 1 - Len(plan.parts)]
<1> DEFINE all == PageRequests(plan)
           parts == plan.parts
           images == ImageRequests(plan)
           P == Len(parts)
<1>1. /\ Len(all) = 1 + P + Len(images) /\ P \in Nat /\ Len(images) \in Nat
      /\ all[1] = plan.document
      /\ \A i \in 1 .. P : all[1 + i] = parts[i]
      /\ \A i \in 1 .. Len(images) : all[1 + P + i] = images[i]
  BY PageRequestsFacts
<1>2. /\ IsRequest(plan.document) /\ plan.document.kind = "Document"
      /\ \A i \in 1 .. P : IsRequest(parts[i]) /\ parts[i].kind # "Document" /\ parts[i].kind # "Image"
  BY PlanFacts
<1>3. \A i \in 1 .. Len(images) :
        IsRequest(images[i]) /\ images[i].kind = "Image" /\ images[i].address = ImageAddresses(plan)[i]
  BY ImageRequestsFacts
<1> HIDE DEF all, parts, images, P
<1>4. ASSUME NEW i \in 1 .. Len(all)
      PROVE  /\ IsRequest(all[i]) /\ (all[i].kind = "Document" => i = 1)
             /\ i <= P + 1 => all[i].kind # "Image"
             /\ P + 2 <= i => all[i].kind = "Image" /\ all[i].address = ImageAddresses(plan)[i - 1 - P]
  <2>1. CASE i = 1
    BY <1>1, <1>2, <2>1
  <2>2. CASE i # 1 /\ i <= P + 1
    <3> DEFINE j == i - 1
    <3>1. j \in 1 .. P /\ 1 + j = i
      BY <1>1, <2>2
    <3>2. all[1 + j] = parts[j]
      BY <1>1, <3>1
    <3> HIDE DEF j
    <3>3. all[i] = parts[j]
      BY <3>1, <3>2
    <3> QED
      BY <1>1, <1>2, <2>2, <3>1, <3>3
  <2>3. CASE ~(i <= P + 1)
    <3> DEFINE j == i - 1 - P
    <3>1. j \in 1 .. Len(images) /\ 1 + P + j = i
      BY <1>1, <2>3
    <3>2. all[1 + P + j] = images[j]
      BY <1>1, <3>1
    <3> HIDE DEF j
    <3>3. all[i] = images[j]
      BY <3>1, <3>2
    <3>4. all[i].kind = "Image" /\ all[i].address = ImageAddresses(plan)[j] /\ IsRequest(all[i])
      BY <1>3, <3>1, <3>3
    <3> QED
      BY <1>1, <2>3, <3>4 DEF j
  <2> QED
    BY <1>1, <2>1, <2>2, <2>3
<1>5. /\ \A i \in 1 .. P + 1 : i \in 1 .. Len(all)
      /\ \A i \in P + 2 .. Len(all) : i \in 1 .. Len(all)
  BY <1>1
<1>6. \A i \in 1 .. Len(all) : IsRequest(all[i]) /\ (all[i].kind = "Document" => i = 1)
  BY <1>4
<1>7. \A i \in 1 .. P + 1 : all[i].kind # "Image"
  BY <1>4, <1>5, <1>1
<1>8. ASSUME NEW i \in P + 2 .. Len(all)
      PROVE  all[i].kind = "Image" /\ all[i].address = ImageAddresses(plan)[i - 1 - P]
  BY <1>1, <1>4
<1> QED
  BY <1>6, <1>7, <1>8 DEF all, P, parts

LEMMA AllOfFacts ==
  ASSUME NEW task, PlanOK(task), IsList(task.outcomes)
  PROVE  /\ IsList(AllOf(task)) /\ Len(AllOf(task)) \in Nat
         /\ \A i \in 1 .. Len(AllOf(task)) : IsRequest(AllOf(task)[i])
         /\ task.of = "page" =>
              \A i \in 1 .. Len(AllOf(task)) : AllOf(task)[i].kind = "Document" => i = 1
         /\ task.of = "page" /\ Len(task.outcomes) = 0 =>
              Len(AllOf(task)) = 1 /\ AllOf(task)[1] = task.plan.document
<1> DEFINE all == AllOf(task)
<1>1. CASE task.of # "page"
  <2>1. all = BatchOrder(task.plan) /\ AreRequests(task.plan)
    BY <1>1, ResourcesAssumption DEF AllOf, PlanOK
  <2> HIDE DEF all
  <2>2. IsList(all) /\ Len(all) \in Nat /\ \A i \in 1 .. Len(all) : IsRequest(all[i])
    BY <2>1, BatchOrderFacts
  <2> QED
    BY <1>1, <2>2 DEF all
<1>2. CASE task.of = "page" /\ Len(task.outcomes) = 0
  <2>1. all = <<task.plan.document>> /\ task.plan \in PagePlans
    BY <1>2 DEF AllOf, PlanOK
  <2>2. IsList(all) /\ Len(all) = 1 /\ all[1] = task.plan.document
    BY <2>1, OneItemList
  <2>3. IsRequest(task.plan.document)
    BY <2>1, PlanFacts
  <2> HIDE DEF all
  <2>4. \A i \in 1 .. Len(all) : i = 1
    BY <2>2
  <2> QED
    BY <1>2, <2>2, <2>3, <2>4 DEF all
<1>3. CASE task.of = "page" /\ Len(task.outcomes) # 0
  <2>1. all = PageRequests(task.plan) /\ task.plan \in PagePlans
    BY <1>3 DEF AllOf, PlanOK
  <2> HIDE DEF all
  <2>2. IsList(all)
    BY <2>1, PageRequestsFacts
  <2>3. \A i \in 1 .. Len(all) : IsRequest(all[i]) /\ (all[i].kind = "Document" => i = 1)
    BY <2>1, PageRequestKinds
  <2> QED
    BY <1>3, <2>2, <2>3, ListFacts DEF all
<1> QED
  BY <1>1, <1>2, <1>3

\* The outcomes are those of a list that is one longer.
LEMMA OutcomesGrow ==
  ASSUME NEW task, NEW outcome, ReadyFor(task, outcome.request), OutcomeOK(task.of, outcome)
  PROVE  LET outcomes == Append(task.outcomes, outcome)
             n == Len(task.outcomes) IN
         /\ IsList(outcomes) /\ Len(outcomes) = n + 1 /\ n \in Nat
         /\ outcomes[n + 1] = outcome /\ \A i \in 1 .. n : outcomes[i] = task.outcomes[i]
         /\ \A i \in 1 .. Len(outcomes) : OutcomeOK(task.of, outcomes[i])
         /\ Settled(AllOf(task), outcomes, task.todo)
         /\ IsRequest(outcome.request)
         /\ task.of = "page" => (outcome.request.kind = "Document" <=> n = 0)
<1> DEFINE all == AllOf(task)
           old == task.outcomes
           outcomes == Append(old, outcome)
           n == Len(old)
           m == Len(task.todo)
<1>1. /\ IsList(old) /\ IsList(task.todo) /\ PlanOK(task)
      /\ \A i \in 1 .. n : OutcomeOK(task.of, old[i])
      /\ Len(all) = n + 1 + m
      /\ \A i \in 1 .. n : old[i].request = all[i]
      /\ outcome.request = all[n + 1]
      /\ \A i \in 1 .. m : task.todo[i] = all[n + 1 + i]
  BY DEF ReadyFor, LoadOK, Awaiting
<1>2. n \in Nat /\ m \in Nat
  BY <1>1, ListFacts
<1>3. /\ IsList(outcomes) /\ Len(outcomes) = n + 1
      /\ \A i \in 1 .. n : outcomes[i] = old[i]
      /\ outcomes[n + 1] = outcome
  BY <1>1, AppendList
<1>4. /\ \A i \in 1 .. Len(all) : IsRequest(all[i])
      /\ task.of = "page" => \A i \in 1 .. Len(all) : all[i].kind = "Document" => i = 1
      /\ task.of = "page" /\ n = 0 => all[1] = task.plan.document /\ task.plan \in PagePlans
  BY <1>1, AllOfFacts DEF PlanOK
<1> HIDE DEF all, outcomes, n, m, old
<1>5. ASSUME NEW i \in 1 .. n + 1
      PROVE  outcomes[i].request = all[i] /\ OutcomeOK(task.of, outcomes[i])
  <2>1. CASE i = n + 1
    BY <1>1, <1>3, <2>1
  <2>2. CASE i # n + 1
    BY <1>1, <1>2, <1>3, <2>2
  <2> QED
    BY <2>1, <2>2
<1>6. Settled(all, outcomes, task.todo)
  BY <1>1, <1>2, <1>3, <1>5 DEF Settled, m
<1>7. n + 1 \in 1 .. Len(all)
  BY <1>1, <1>2
<1>8. IsRequest(outcome.request)
  BY <1>1, <1>4, <1>7
<1>9. ASSUME task.of = "page"
      PROVE  outcome.request.kind = "Document" <=> n = 0
  <2>1. ASSUME n = 0
        PROVE  outcome.request.kind = "Document"
    BY <1>1, <1>4, <1>9, <2>1, PlanFacts
  <2>2. ASSUME outcome.request.kind = "Document"
        PROVE  n = 0
    BY <1>1, <1>2, <1>4, <1>7, <1>9, <2>2
  <2> QED
    BY <2>1, <2>2
<1> QED
  BY <1>2, <1>3, <1>5, <1>6, <1>8, <1>9 DEF all, outcomes, n, old

-----------------------------------------------------------------------------
(* An outcome                                                              *)

ImagesFound(plan) ==
  [NoImages EXCEPT !.discovered = Len(ImageAddresses(plan)), !.failed = Max({Len(ImageAddresses(plan)) - MaxImages, 0})]
IsDocumentOf(task, outcome) == task.of = "page" /\ outcome.request.kind = "Document"

LEMMA AfterShape ==
  ASSUME NEW task, DOMAIN task = TaskFields, NEW outcome, NEW summary
  PROVE  LET next == After(task, outcome, summary) IN
         /\ DOMAIN next = TaskFields
         /\ next.of = task.of /\ next.plan = task.plan /\ next.alone = task.alone
         /\ next.fetch = NoFetch /\ next.outcomes = Append(task.outcomes, outcome)
         /\ IsDocumentOf(task, outcome) /\ ~IsHad(outcome) => next.step = "failed" /\ next.todo = task.todo
         /\ IsDocumentOf(task, outcome) /\ IsHad(outcome) =>
              next.todo = task.plan.parts \o ImageRequests(task.plan) /\ next.images = ImagesFound(task.plan)
         /\ ~IsDocumentOf(task, outcome) =>
              /\ next.todo = task.todo
              /\ task.of = "page" => next.images = WithImage(task.images, outcome)
         /\ ~(IsDocumentOf(task, outcome) /\ ~IsHad(outcome)) =>
              IF next.todo = <<>> THEN next.step = "done" /\ next.counted = summary ELSE next.step = task.step
<1> DEFINE next == After(task, outcome, summary)
           all == Append(task.outcomes, outcome)
           pictures == IF task.of = "page" THEN WithImage(task.images, outcome) ELSE task.images
           told == [task EXCEPT !.outcomes = all, !.fetch = NoFetch, !.images = pictures]
           wanted == task.plan.parts \o ImageRequests(task.plan)
           seen == ImagesFound(task.plan)
           more == [told EXCEPT !.todo = wanted, !.images = seen]
           isPage == IsDocumentOf(task, outcome)
           going == IF ~isPage THEN told ELSE more
<1>1. next = IF isPage /\ ~IsHad(outcome) THEN [told EXCEPT !.step = "failed"]
             ELSE IF going.todo = <<>> THEN [going EXCEPT !.step = "done", !.counted = summary] ELSE going
  BY DEF After, IsDocumentOf, ImagesFound
<1> HIDE DEF all, pictures, wanted, seen, isPage, next
<1>2. /\ DOMAIN told = TaskFields /\ told.of = task.of /\ told.plan = task.plan /\ told.alone = task.alone
      /\ told.fetch = NoFetch /\ told.outcomes = all /\ told.images = pictures /\ told.step = task.step
      /\ told.todo = task.todo
  BY DEF TaskFields
<1> HIDE DEF told
<1>3. /\ DOMAIN more = TaskFields /\ more.of = task.of /\ more.plan = task.plan /\ more.alone = task.alone
      /\ more.fetch = NoFetch /\ more.outcomes = all /\ more.images = seen /\ more.step = task.step
      /\ more.todo = wanted
  BY <1>2 DEF TaskFields
<1> HIDE DEF more
<1>4. /\ DOMAIN going = TaskFields /\ going.of = task.of /\ going.plan = task.plan /\ going.alone = task.alone
      /\ going.fetch = NoFetch /\ going.outcomes = all /\ going.step = task.step
      /\ isPage => going.todo = wanted /\ going.images = seen
      /\ ~isPage => going.todo = task.todo /\ going.images = pictures
  BY <1>2, <1>3
<1> HIDE DEF going
<1>5. CASE isPage /\ ~IsHad(outcome)
  BY <1>1, <1>2, <1>5 DEF TaskFields, next, all, isPage
<1>6. CASE ~(isPage /\ ~IsHad(outcome)) /\ going.todo = <<>>
  BY <1>1, <1>4, <1>6 DEF TaskFields, next, all, isPage, wanted, seen, pictures
<1>7. CASE ~(isPage /\ ~IsHad(outcome)) /\ going.todo # <<>>
  BY <1>1, <1>4, <1>7 DEF next, all, isPage, wanted, seen, pictures
<1> QED
  BY <1>5, <1>6, <1>7

\* The images that were not among those asked for have failed.
LEMMA ImagesFoundOK ==
  ASSUME NEW task, PlanOK(task), task.of = "page", task.images = ImagesFound(task.plan), Len(task.outcomes) = 1
  PROVE  ImagesOK(task)
<1> DEFINE plan == task.plan
           found == Len(ImageAddresses(plan))
           asked == Len(ImageRequests(plan))
           missing == Max({found - MaxImages, 0})
           images == ImagesFound(plan)
           none == {}
<1>1. plan \in PagePlans
  BY DEF PlanOK
<1>2. /\ found \in Nat /\ MaxImages \in Nat
      /\ asked = IF found <= MaxImages THEN found ELSE MaxImages
  BY <1>1, AddressesFacts, ImageRequestsFacts, ResourcesAssumption
<1>3. Len(plan.parts) \in Nat
  BY <1>1, PlanFacts, ListFacts
<1>4. ImagesConcluded(task) = 0
  BY <1>3 DEF ImagesConcluded
<1> HIDE DEF found, asked, plan
<1>5. missing = IF found - MaxImages >= 0 THEN found - MaxImages ELSE 0
  BY <1>2, MaxOfTwo
<1>6. DOMAIN images = {"discovered", "decoded", "failed"} /\ images.discovered = found /\ images.decoded = none /\ images.failed = missing
  BY DEF ImagesFound, NoImages, found
<1> HIDE DEF images, missing
<1>7. missing \in Nat /\ missing = found - asked
  BY <1>2, <1>5
<1>8. IsFiniteSet(none) /\ Cardinality(none) = 0
  BY FS_EmptySet
<1>9. 0 + missing = 0 + found - asked
  BY <1>2, <1>7
<1> QED
  BY <1>4, <1>6, <1>7, <1>8, <1>9 DEF ImagesOK, images, found, asked, plan

\* An image is decoded or fails.
LEMMA WithImageOK ==
  ASSUME NEW task, PlanOK(task), IsList(task.outcomes), IsList(task.todo), ImagesOK(task), task.of = "page",
         NEW outcome, Awaiting(AllOf(task), task.outcomes, outcome.request, task.todo), Len(task.outcomes) > 0,
         NEW next, next.of = task.of, next.plan = task.plan, next.images = WithImage(task.images, outcome),
         next.outcomes = Append(task.outcomes, outcome)
  PROVE  ImagesOK(next)
<1> DEFINE plan == task.plan
           addresses == ImageAddresses(plan)
           found == Len(addresses)
           asked == Len(ImageRequests(plan))
           parts == Len(plan.parts)
           n == Len(task.outcomes)
           all == PageRequests(plan)
           images == task.images
           done == ImagesConcluded(task)
           shown == images.decoded
           request == outcome.request
<1>1. plan \in PagePlans
  BY DEF PlanOK
<1>2. /\ n \in Nat /\ n > 0 /\ Len(next.outcomes) = n + 1 /\ Len(task.todo) \in Nat
  BY AppendList, ListFacts
<1>3. parts \in Nat /\ found \in Nat /\ asked \in Nat
  BY <1>1, PlanFacts, ListFacts, AddressesFacts, ImageRequestsFacts
<1>4. all = AllOf(task)
  BY <1>2 DEF AllOf
<1>5. Len(all) = n + 1 + Len(task.todo) /\ request = all[n + 1] /\ Len(all) = 1 + parts + asked
  BY <1>1, <1>4, PageRequestsFacts DEF Awaiting
<1>6. /\ DOMAIN images = {"discovered", "decoded", "failed"}
      /\ images.discovered = found
      /\ shown \subseteq {addresses[i] : i \in 1 .. done}
      /\ IsFiniteSet(shown) /\ images.failed \in Nat
      /\ Cardinality(shown) + images.failed = done + found - asked
  BY <1>2 DEF ImagesOK
<1>7. done = (IF n > 1 + parts THEN n - 1 - parts ELSE 0) /\ ImagesConcluded(next) = (IF n + 1 > 1 + parts THEN n - parts ELSE 0)
  BY <1>2, <1>3 DEF ImagesConcluded
<1>8. Cardinality(shown) \in Nat
  BY <1>6, FS_CardinalityType
<1>9. asked <= found
  BY <1>1, ImageRequestsFacts, ResourcesAssumption
<1>10. \A i, j \in 1 .. found : addresses[i] = addresses[j] => i = j
  BY <1>1, AddressesFacts
<1>11. /\ \A i \in 1 .. parts + 1 : all[i].kind # "Image"
       /\ \A i \in parts + 2 .. Len(all) : all[i].kind = "Image" /\ all[i].address = addresses[i - 1 - parts]
  BY <1>1, PageRequestKinds
<1> HIDE DEF addresses, found, asked, parts, n, all, done
<1>12. CASE n <= parts
  <2>1. n + 1 \in 1 .. parts + 1
    BY <1>2, <1>3, <1>12
  <2>2. request.kind # "Image"
    BY <1>5, <1>11, <2>1
  <2>3. next.images = images /\ ImagesConcluded(next) = done
    BY <1>2, <1>3, <1>7, <1>12, <2>2 DEF WithImage
  <2> QED
    BY <1>6, <2>3 DEF ImagesOK, addresses, found, asked
<1>13. CASE ~(n <= parts)
  <2> DEFINE k == done + 1
             address == addresses[k]
  <2>1. n > parts /\ done = n - 1 - parts /\ ImagesConcluded(next) = n - parts /\ done \in Nat
    BY <1>2, <1>3, <1>7, <1>13
  <2>2. k = n - parts /\ k \in Int /\ k >= 1 /\ ImagesConcluded(next) = k /\ done = k - 1
    BY <1>2, <1>3, <2>1
  <2> HIDE DEF k
  <2> DEFINE length == Len(all)
             rest == Len(task.todo)
  <2>12. length = n + 1 + rest /\ length = 1 + parts + asked /\ rest \in Nat
    BY <1>2, <1>5
  <2>13. request = all[n + 1]
    BY <1>5
  <2> HIDE DEF length, rest
  <2>3. n + 1 <= length /\ k <= asked /\ length \in Int
    BY <1>2, <1>3, <2>2, <2>12
  <2>4. k \in 1 .. found
    BY <1>3, <1>9, <2>2, <2>3
  <2> DEFINE place == n + 1
  <2>14. place \in parts + 2 .. length /\ place - 1 - parts = k
    BY <1>2, <1>3, <2>1, <2>2, <2>3
  <2>5. place \in parts + 2 .. Len(all) /\ place - 1 - parts = k /\ request = all[place]
    BY <2>13, <2>14 DEF length
  <2> HIDE DEF place
  <2>6. request.kind = "Image" /\ request.address = address
    BY <1>11, <2>5
  <2>7. address \notin shown
    <3> SUFFICES ASSUME address \in shown
                 PROVE  FALSE
      OBVIOUS
    <3>1. PICK i \in 1 .. done : address = addresses[i]
      BY <1>6
    <3>2. i \in 1 .. found /\ i # k
      BY <1>3, <2>2, <2>4, <3>1
    <3> QED
      BY <1>10, <2>2, <2>4, <3>1, <3>2
  <2>8. shown \cup {address} \subseteq {addresses[i] : i \in 1 .. k} /\ shown \subseteq {addresses[i] : i \in 1 .. k}
    BY <1>6, <2>2, <2>4
  <2>9. IsFiniteSet(shown \cup {address}) /\ Cardinality(shown \cup {address}) = Cardinality(shown) + 1
    BY <1>6, <2>7, FS_AddElement
  <2> HIDE DEF address
  <2> DEFINE size == Cardinality(shown)
             lost == images.failed
  <2>15. size \in Nat /\ lost \in Nat /\ size + lost = done + found - asked
    BY <1>6, <1>8
  <2> HIDE DEF size, lost
  <2>17. done = k - 1 /\ k \in Int
    BY <2>2
  <2>16. size + 1 + lost = k + found - asked /\ size + (lost + 1) = k + found - asked /\ lost + 1 \in Nat
    BY <1>3, <2>15, <2>17
  <2>10. CASE Decodes(outcome)
    <3> DEFINE more == shown \cup {address}
               pictures == [images EXCEPT !.decoded = more]
    <3>1. next.images = pictures
      BY <2>6, <2>10 DEF WithImage
    <3> HIDE DEF more
    <3>2. /\ DOMAIN pictures = {"discovered", "decoded", "failed"}
          /\ pictures.discovered = images.discovered /\ pictures.decoded = more /\ pictures.failed = images.failed
      BY <1>6
    <3> HIDE DEF pictures
    <3>3. Cardinality(more) = size + 1
      BY <2>9 DEF more, size
    <3>4. Cardinality(more) + images.failed = k + found - asked
      BY <2>16, <3>3 DEF lost
    <3>5. more \subseteq {addresses[i] : i \in 1 .. k} /\ IsFiniteSet(more)
      BY <2>8, <2>9 DEF more
    <3> QED
      BY <1>6, <2>2, <2>4, <3>1, <3>2, <3>4, <3>5 DEF ImagesOK, addresses, found, asked
  <2>11. CASE ~Decodes(outcome)
    <3> DEFINE failed == images.failed + 1
               pictures == [images EXCEPT !.failed = failed]
    <3>1. next.images = pictures
      BY <2>6, <2>11 DEF WithImage
    <3> HIDE DEF failed
    <3>2. /\ DOMAIN pictures = {"discovered", "decoded", "failed"}
          /\ pictures.discovered = images.discovered /\ pictures.decoded = shown /\ pictures.failed = failed
      BY <1>6
    <3> HIDE DEF pictures
    <3>3. Cardinality(shown) + failed = k + found - asked /\ failed \in Nat
      BY <2>16 DEF failed, size, lost
    <3>4. /\ pictures.discovered = found /\ IsFiniteSet(pictures.decoded) /\ pictures.failed \in Nat
          /\ pictures.decoded \subseteq {addresses[i] : i \in 1 .. ImagesConcluded(next)}
          /\ Cardinality(pictures.decoded) + pictures.failed = ImagesConcluded(next) + found - asked
      BY <1>6, <2>2, <2>8, <3>2, <3>3
    <3> QED
      BY <3>1, <3>2, <3>4 DEF ImagesOK, addresses, found, asked
  <2> QED
    BY <2>10, <2>11
<1> QED
  BY <1>12, <1>13

\* After the document a page asks for what the document needs.
LEMMA DocumentSettled ==
  ASSUME NEW task, ReadyFor(task, task.plan.document), task.of = "page", Len(task.outcomes) = 0,
         NEW outcome, outcome.request = task.plan.document,
         NEW todo, todo = task.plan.parts \o ImageRequests(task.plan)
  PROVE  IsList(todo) /\ Settled(PageRequests(task.plan), Append(task.outcomes, outcome), todo)
<1> DEFINE plan == task.plan
           all == PageRequests(plan)
           parts == plan.parts
           images == ImageRequests(plan)
           outcomes == Append(task.outcomes, outcome)
           P == Len(parts)
           I == Len(images)
<1>1. plan \in PagePlans /\ IsList(task.outcomes)
  BY DEF ReadyFor, LoadOK, PlanOK
<1>2. /\ Len(all) = 1 + P + I /\ P \in Nat /\ I \in Nat
      /\ all[1] = plan.document
      /\ \A i \in 1 .. P : all[1 + i] = parts[i]
      /\ \A i \in 1 .. I : all[1 + P + i] = images[i]
  BY <1>1, PageRequestsFacts
<1>3. IsList(parts) /\ IsList(images)
  BY <1>1, PlanFacts, ImageRequestsFacts
<1>4. /\ IsList(todo) /\ Len(todo) = P + I
      /\ \A i \in 1 .. P : todo[i] = parts[i]
      /\ \A i \in 1 .. I : todo[P + i] = images[i]
  <2>1. todo = parts \o images
    OBVIOUS
  <2> HIDE DEF parts, images
  <2>2. /\ IsList(parts \o images) /\ Len(parts \o images) = P + I
        /\ \A i \in 1 .. P : (parts \o images)[i] = parts[i]
        /\ \A i \in 1 .. I : (parts \o images)[P + i] = images[i]
    BY <1>3, JoinedLists
  <2> QED
    BY <2>1, <2>2
<1>5. /\ IsList(outcomes) /\ Len(outcomes) = 1 /\ outcomes[1] = outcome
  <2>1. /\ IsList(outcomes) /\ Len(outcomes) = Len(task.outcomes) + 1
        /\ outcomes[Len(task.outcomes) + 1] = outcome
    BY <1>1, AppendList
  <2> HIDE DEF outcomes
  <2> QED
    BY <2>1
<1> HIDE DEF all, parts, images, outcomes, P, I
<1>6. ASSUME NEW i \in 1 .. Len(outcomes)
      PROVE  outcomes[i].request = all[i]
  BY <1>2, <1>5 DEF plan
<1>7. ASSUME NEW i \in 1 .. Len(todo)
      PROVE  todo[i] = all[Len(outcomes) + i]
  <2>1. CASE i <= P
    <3>1. i \in 1 .. P
      BY <1>2, <1>4, <2>1
    <3> QED
      BY <1>2, <1>4, <1>5, <3>1
  <2>2. CASE ~(i <= P)
    <3> DEFINE k == i - P
    <3>1. k \in 1 .. I /\ P + k = i /\ 1 + P + k = 1 + i
      BY <1>2, <1>4, <2>2
    <3> HIDE DEF k
    <3>2. todo[P + k] = images[k] /\ all[1 + P + k] = images[k]
      BY <1>2, <1>4, <3>1
    <3>3. todo[i] = images[k] /\ all[1 + i] = images[k]
      BY <3>1, <3>2
    <3> QED
      BY <1>5, <3>3
  <2> QED
    BY <2>1, <2>2
<1>8. Len(all) = Len(outcomes) + Len(todo)
  BY <1>2, <1>4, <1>5
<1>9. Settled(all, outcomes, todo)
  BY <1>6, <1>7, <1>8 DEF Settled
<1> QED
  BY <1>4, <1>9 DEF all, outcomes, plan

LEMMA AfterKeeps ==
  ASSUME NEW task, NEW outcome, NEW summary,
         ReadyFor(task, outcome.request), OutcomeOK(task.of, outcome)
  PROVE  LET next == After(task, outcome, summary) IN
         /\ BegunOK(next)
         /\ next.of = task.of /\ next.alone = task.alone /\ next.outcomes = Append(task.outcomes, outcome)
         /\ next.step = "done" => next.counted = summary
<1> DEFINE next == After(task, outcome, summary)
           outcomes == Append(task.outcomes, outcome)
           n == Len(task.outcomes)
<1>1. /\ DOMAIN task = TaskFields /\ PlanOK(task) /\ IsList(task.outcomes) /\ IsList(task.todo)
      /\ task.step = "busy" /\ ImagesOK(task)
      /\ Awaiting(AllOf(task), task.outcomes, outcome.request, task.todo)
  BY DEF ReadyFor, LoadOK
<1>2. /\ DOMAIN next = TaskFields
      /\ next.of = task.of /\ next.plan = task.plan /\ next.alone = task.alone
      /\ next.fetch = NoFetch /\ next.outcomes = outcomes
      /\ IsDocumentOf(task, outcome) /\ ~IsHad(outcome) => next.step = "failed" /\ next.todo = task.todo
      /\ IsDocumentOf(task, outcome) /\ IsHad(outcome) =>
           next.todo = task.plan.parts \o ImageRequests(task.plan) /\ next.images = ImagesFound(task.plan)
      /\ ~IsDocumentOf(task, outcome) =>
           /\ next.todo = task.todo
           /\ task.of = "page" => next.images = WithImage(task.images, outcome)
      /\ ~(IsDocumentOf(task, outcome) /\ ~IsHad(outcome)) =>
           IF next.todo = <<>> THEN next.step = "done" /\ next.counted = summary ELSE next.step = task.step
  BY <1>1, AfterShape
<1>3. /\ IsList(outcomes) /\ Len(outcomes) = n + 1 /\ n \in Nat
      /\ \A i \in 1 .. Len(outcomes) : OutcomeOK(task.of, outcomes[i])
      /\ Settled(AllOf(task), outcomes, task.todo)
      /\ task.of = "page" => (outcome.request.kind = "Document" <=> n = 0)
  BY OutcomesGrow
<1>4. Len(next.outcomes) = n + 1 /\ PlanOK(next)
  BY <1>1, <1>2, <1>3 DEF PlanOK
<1> HIDE DEF next, outcomes
<1>5. CASE IsDocumentOf(task, outcome) /\ ~IsHad(outcome)
  BY <1>1, <1>2, <1>3, <1>4, <1>5 DEF IsDocumentOf, LoadOK, BegunOK, next, outcomes
<1>6. CASE ~(IsDocumentOf(task, outcome) /\ ~IsHad(outcome))
  <2>1. IsList(next.todo) /\ Settled(AllOf(next), outcomes, next.todo) /\ ImagesOK(next)
    <3>1. CASE IsDocumentOf(task, outcome)
      <4>1. /\ task.of = "page" /\ n = 0 /\ task.plan \in PagePlans
            /\ next.todo = task.plan.parts \o ImageRequests(task.plan) /\ next.images = ImagesFound(task.plan)
        BY <1>1, <1>2, <1>3, <1>6, <3>1 DEF IsDocumentOf, PlanOK
      <4>2. outcome.request = task.plan.document
        <5>1. AllOf(task)[1] = task.plan.document
          BY <1>1, <4>1, AllOfFacts
        <5>2. outcome.request = AllOf(task)[n + 1]
          BY <1>1 DEF Awaiting
        <5> HIDE DEF n
        <5> QED
          BY <4>1, <5>1, <5>2
      <4>3. IsList(next.todo) /\ Settled(PageRequests(task.plan), outcomes, next.todo)
        BY <4>1, <4>2, DocumentSettled DEF outcomes
      <4>4. AllOf(next) = PageRequests(task.plan)
        BY <1>2, <1>3, <1>4, <4>1 DEF AllOf
      <4>5. ImagesOK(next)
        BY <1>2, <1>4, <4>1, ImagesFoundOK
      <4> QED
        BY <4>3, <4>4, <4>5
    <3>2. CASE ~IsDocumentOf(task, outcome)
      <4>1. next.todo = task.todo /\ (task.of = "page" => n # 0 /\ next.images = WithImage(task.images, outcome))
        BY <1>2, <1>3, <3>2 DEF IsDocumentOf
      <4>2. AllOf(next) = AllOf(task)
        BY <1>2, <1>3, <1>4, <4>1 DEF AllOf
      <4>3. ImagesOK(next)
        <5>1. CASE task.of = "page"
          BY <1>1, <1>2, <1>3, <4>1, <5>1, WithImageOK DEF outcomes
        <5>2. CASE task.of # "page"
          BY <1>2, <5>2 DEF ImagesOK
        <5> QED
          BY <5>1, <5>2
      <4> QED
        BY <1>1, <1>3, <4>1, <4>2, <4>3
    <3> QED
      BY <3>1, <3>2
  <2>2. IF next.todo = <<>> THEN next.step = "done" /\ next.counted = summary ELSE next.step = "busy"
    BY <1>1, <1>2, <1>6
  <2>3. next.todo # <<>> <=> Len(next.todo) > 0
    BY <2>1, ListFacts
  <2>4. LoadOK(next)
    BY <1>2, <1>3, <1>4, <2>1 DEF LoadOK
  <2>5. next.step = "done" => Len(next.todo) = 0
    BY <2>1, <2>2, <2>3, ListFacts
  <2>6. BegunOK(next)
    BY <1>2, <1>3, <1>4, <2>1, <2>2, <2>3, <2>4, <2>5 DEF BegunOK
  <2>7. next.step = "done" => next.counted = summary
    BY <2>2
  <2> QED
    BY <1>2, <2>6, <2>7 DEF next, outcomes
<1> QED
  BY <1>5, <1>6

-----------------------------------------------------------------------------
(* The summary                                                             *)

One(condition) == IF condition THEN 1 ELSE 0

LEMMA ValidsGrow ==
  ASSUME NEW outcomes, IsList(outcomes), NEW outcome
  PROVE  /\ Cardinality(Valids(outcomes)) \in Nat
         /\ Cardinality(Valids(Append(outcomes, outcome)))
              = Cardinality(Valids(outcomes)) + One(ValidRequest(outcome.request))
<1> DEFINE old == Valids(outcomes)
           more == Append(outcomes, outcome)
           n == Len(outcomes)
           place == n + 1
           start == 1
           isValid == ValidRequest(outcome.request)
<1>1. n \in Nat
  BY ListFacts
<1>2. /\ Len(more) = n + 1 /\ \A i \in 1 .. n : more[i] = outcomes[i]
      /\ more[n + 1] = outcome
  BY AppendList
<1>3. IsFiniteSet(old)
  <2>1. start \in Int /\ n \in Int /\ old \in SUBSET (start .. n)
    BY <1>1 DEF Valids
  <2> HIDE DEF start, n, old
  <2>2. IsFiniteSet(start .. n)
    BY <2>1, FS_Interval
  <2> QED
    BY <2>1, <2>2, FS_Subset
<1>4. Cardinality(old) \in Nat
  BY <1>3, FS_CardinalityType
<1>5. place \notin old
  BY <1>1 DEF Valids
<1>6. Valids(more) = IF isValid THEN old \cup {place} ELSE old
  <2>1. \A i \in 1 .. n + 1 : i = place \/ i \in 1 .. n
    BY <1>1
  <2>2. (\A i \in 1 .. n : i \in 1 .. n + 1) /\ place \in 1 .. n + 1
    BY <1>1
  <2>3. ValidRequest(more[n + 1].request) <=> isValid
    BY <1>2
  <2>4. \A i \in 1 .. n : ValidRequest(more[i].request) <=> ValidRequest(outcomes[i].request)
    BY <1>2
  <2> HIDE DEF isValid, more, n
  <2>5. ASSUME NEW i
        PROVE  i \in Valids(more) <=> i \in (IF isValid THEN old \cup {place} ELSE old)
    <3>1. i \in Valids(more) <=> i \in 1 .. n + 1 /\ ValidRequest(more[i].request)
      BY <1>2 DEF Valids
    <3>2. i \in old <=> i \in 1 .. n /\ ValidRequest(outcomes[i].request)
      BY DEF Valids, n
    <3>3. CASE i = place
      BY <1>1, <2>3, <3>1, <3>2, <3>3
    <3>4. CASE i # place
      BY <2>1, <2>2, <2>4, <3>1, <3>2, <3>4
    <3> QED
      BY <3>3, <3>4
  <2> HIDE DEF old
  <2> QED
    BY <2>5
<1> HIDE DEF old, more, place, isValid
<1>7. Cardinality(old \cup {place}) = Cardinality(old) + 1
  BY <1>3, <1>5, FS_AddElement
<1>8. CASE isValid
  BY <1>4, <1>6, <1>7, <1>8 DEF One, isValid, old, more
<1>9. CASE ~isValid
  BY <1>4, <1>6, <1>9 DEF One, isValid, old, more
<1> QED
  BY <1>8, <1>9

LEMMA KindCounts ==
  ASSUME NEW kinds \in [Kinds -> Nat], NEW kind \in Kinds
  PROVE  LET more == [kinds EXCEPT ![kind] = kinds[kind] + 1] IN
         /\ more \in [Kinds -> Nat]
         /\ more.Document + more.Stylesheet + more.Image + more.Font + more.Script
              = kinds.Document + kinds.Stylesheet + kinds.Image + kinds.Font + kinds.Script + 1
<1> DEFINE more == [kinds EXCEPT ![kind] = kinds[kind] + 1]
<1>1. Kinds = {"Document", "Stylesheet", "Image", "Font", "Script"}
  BY DEF Kinds, KindOrder
<1>2. \A k \in Kinds : kinds[k] \in Nat /\ more[k] = IF k = kind THEN kinds[k] + 1 ELSE kinds[k]
  OBVIOUS
<1>3. more \in [Kinds -> Nat]
  OBVIOUS
<1> HIDE DEF more
<1>4. /\ {kinds.Document, kinds.Stylesheet, kinds.Image, kinds.Font, kinds.Script} \subseteq Nat
      /\ more.Document = IF kind = "Document" THEN kinds.Document + 1 ELSE kinds.Document
      /\ more.Stylesheet = IF kind = "Stylesheet" THEN kinds.Stylesheet + 1 ELSE kinds.Stylesheet
      /\ more.Image = IF kind = "Image" THEN kinds.Image + 1 ELSE kinds.Image
      /\ more.Font = IF kind = "Font" THEN kinds.Font + 1 ELSE kinds.Font
      /\ more.Script = IF kind = "Script" THEN kinds.Script + 1 ELSE kinds.Script
  BY <1>1, <1>2
<1>5. kind \in {"Document", "Stylesheet", "Image", "Font", "Script"}
  BY <1>1
<1>6. more.Document + more.Stylesheet + more.Image + more.Font + more.Script
        = kinds.Document + kinds.Stylesheet + kinds.Image + kinds.Font + kinds.Script + 1
  BY <1>4, <1>5
<1> QED
  BY <1>3, <1>6 DEF more

LEMMA SourceCounts ==
  ASSUME NEW sources \in [Sources -> Nat], NEW source \in Sources
  PROVE  LET more == [sources EXCEPT ![source] = sources[source] + 1] IN
         /\ more \in [Sources -> Nat]
         /\ more.Kept + more.Network + more.Disabled = sources.Kept + sources.Network + sources.Disabled + 1
<1> DEFINE more == [sources EXCEPT ![source] = sources[source] + 1]
<1>1. \A k \in Sources : sources[k] \in Nat /\ more[k] = IF k = source THEN sources[k] + 1 ELSE sources[k]
  OBVIOUS
<1>2. more \in [Sources -> Nat]
  OBVIOUS
<1> HIDE DEF more
<1>3. /\ {sources.Kept, sources.Network, sources.Disabled} \subseteq Nat
      /\ more.Kept = IF source = "Kept" THEN sources.Kept + 1 ELSE sources.Kept
      /\ more.Network = IF source = "Network" THEN sources.Network + 1 ELSE sources.Network
      /\ more.Disabled = IF source = "Disabled" THEN sources.Disabled + 1 ELSE sources.Disabled
  BY <1>1 DEF Sources
<1>4. source \in {"Kept", "Network", "Disabled"}
  BY DEF Sources
<1>5. more.Kept + more.Network + more.Disabled = sources.Kept + sources.Network + sources.Disabled + 1
  BY <1>3, <1>4
<1> QED
  BY <1>2, <1>5 DEF more

LEMMA RecordSuccessOK ==
  ASSUME NEW s, SummaryOK(s), NEW request, request.kind \in Kinds, NEW entry, NEW source \in Sources
  PROVE  SummaryOK(RecordSuccess(s, request, entry, source)) /\ RecordSuccess(s, request, entry, source).total = s.total + 1
<1> DEFINE next == RecordSuccess(s, request, entry, source)
           kinds == [s.kinds EXCEPT ![request.kind] = s.kinds[request.kind] + 1]
           sources == [s.sources EXCEPT ![source] = s.sources[source] + 1]
           lasts == entry.answer.control /= <<>> /\ "no-store" \notin Directives(entry.answer)
<1>1. /\ DOMAIN s = SummaryFields /\ SummaryAddsUp(s)
      /\ {s.total, s.succeeded, s.failed, s.cacheable, s.notCacheable} \subseteq Nat
      /\ s.kinds \in [Kinds -> Nat] /\ s.sources \in [Sources -> Nat]
  BY DEF SummaryOK
<1> HIDE DEF lasts
<1>2. /\ DOMAIN next = SummaryFields
      /\ next.total = s.total + 1 /\ next.succeeded = s.succeeded + 1 /\ next.failed = s.failed
      /\ next.kinds = kinds /\ next.sources = sources
      /\ next.cacheable = (IF lasts THEN s.cacheable + 1 ELSE s.cacheable)
      /\ next.notCacheable = (IF lasts THEN s.notCacheable ELSE s.notCacheable + 1)
  BY <1>1 DEF RecordSuccess, SummaryFields, lasts
<1>3. /\ kinds \in [Kinds -> Nat]
      /\ kinds.Document + kinds.Stylesheet + kinds.Image + kinds.Font + kinds.Script
           = s.kinds.Document + s.kinds.Stylesheet + s.kinds.Image + s.kinds.Font + s.kinds.Script + 1
  BY <1>1, KindCounts
<1>4. /\ sources \in [Sources -> Nat]
      /\ sources.Kept + sources.Network + sources.Disabled = s.sources.Kept + s.sources.Network + s.sources.Disabled + 1
  BY <1>1, SourceCounts
<1> HIDE DEF next, kinds, sources
<1>5. {next.total, next.succeeded, next.failed, next.cacheable, next.notCacheable} \subseteq Nat
  BY <1>1, <1>2
<1>6. /\ next.total = next.succeeded + next.failed
      /\ next.cacheable + next.notCacheable = next.succeeded
  BY <1>1, <1>2 DEF SummaryAddsUp
<1>7. next.kinds.Document + next.kinds.Stylesheet + next.kinds.Image + next.kinds.Font + next.kinds.Script = next.succeeded
  BY <1>1, <1>2, <1>3 DEF SummaryAddsUp
<1>8. next.sources.Kept + next.sources.Network + next.sources.Disabled = next.succeeded
  BY <1>1, <1>2, <1>4 DEF SummaryAddsUp
<1>9. SummaryOK(next)
  BY <1>2, <1>3, <1>4, <1>5, <1>6, <1>7, <1>8 DEF SummaryOK, SummaryAddsUp
<1> QED
  BY <1>2, <1>9 DEF next

LEMMA RecordFailureOK ==
  ASSUME NEW s, SummaryOK(s), NEW request
  PROVE  SummaryOK(RecordFailure(s, request)) /\ RecordFailure(s, request).total = s.total + 1
<1> DEFINE next == RecordFailure(s, request)
<1>1. /\ DOMAIN s = SummaryFields /\ SummaryAddsUp(s)
      /\ {s.total, s.succeeded, s.failed, s.cacheable, s.notCacheable} \subseteq Nat
      /\ s.kinds \in [Kinds -> Nat] /\ s.sources \in [Sources -> Nat]
  BY DEF SummaryOK
<1>2. /\ DOMAIN next = SummaryFields
      /\ next.total = s.total + 1 /\ next.succeeded = s.succeeded /\ next.failed = s.failed + 1
      /\ next.kinds = s.kinds /\ next.sources = s.sources
      /\ next.cacheable = s.cacheable /\ next.notCacheable = s.notCacheable
  BY <1>1 DEF RecordFailure, SummaryFields
<1> HIDE DEF next
<1>3. next.total = next.succeeded + next.failed /\ next.total \in Nat /\ next.failed \in Nat
  BY <1>1, <1>2 DEF SummaryAddsUp
<1>4. SummaryOK(next)
  BY <1>1, <1>2, <1>3 DEF SummaryOK, SummaryAddsUp
<1> QED
  BY <1>2, <1>4 DEF next

LEMMA NoTalliesOK ==
  SummaryOK(NoTallies) /\ NoTallies.total = 0
<1>1. /\ DOMAIN NoTallies = SummaryFields
      /\ NoTallies.total = 0 /\ NoTallies.succeeded = 0 /\ NoTallies.failed = 0
      /\ NoTallies.cacheable = 0 /\ NoTallies.notCacheable = 0
      /\ NoTallies.kinds = [k \in Kinds |-> 0] /\ NoTallies.sources = [s \in Sources |-> 0]
  BY DEF NoTallies, SummaryFields
<1>2. NoTallies.kinds \in [Kinds -> Nat] /\ NoTallies.sources \in [Sources -> Nat]
  BY <1>1
<1>3. \A k \in {"Document", "Stylesheet", "Image", "Font", "Script"} : NoTallies.kinds[k] = 0
  BY <1>1 DEF Kinds, KindOrder
<1>4. \A s \in {"Kept", "Network", "Disabled"} : NoTallies.sources[s] = 0
  BY <1>1 DEF Sources
<1> QED
  BY <1>1, <1>2, <1>3, <1>4 DEF SummaryOK, SummaryAddsUp

-----------------------------------------------------------------------------
(* Steps of one load                                                       *)

Moves(t, task) == tasks' = [tasks EXCEPT ![t] = task]

LEMMA TaskMoves ==
  ASSUME TasksOK, NEW t \in PageTasks, NEW task, BegunOK(task), Moves(t, task)
  PROVE  /\ TasksOK'
         /\ tasks'[t] = task /\ \A o \in PageTasks \ {t} : tasks'[o] = tasks[o]
<1>1. /\ DOMAIN tasks' = PageTasks /\ tasks'[t] = task
      /\ \A o \in PageTasks \ {t} : tasks'[o] = tasks[o]
  BY DEF Moves, TasksOK
<1>2. \A o \in PageTasks : TaskOK(tasks'[o])
  BY <1>1 DEF TasksOK, TaskOK
<1> QED
  BY <1>1, <1>2 DEF TasksOK

\* A request goes on.
LEMMA FetchMoves ==
  ASSUME TasksOK, TalliesOK, CountsOK, NEW t \in PageTasks, NEW task, BegunOK(task), Moves(t, task),
         UNCHANGED tallies, tasks[t].step = "busy", task.step = "busy", task.of = tasks[t].of,
         task.alone = tasks[t].alone, task.outcomes = tasks[t].outcomes
  PROVE  TasksOK' /\ TalliesOK' /\ CountsOK'
<1>1. TasksOK' /\ tasks'[t] = task /\ \A o \in PageTasks \ {t} : tasks'[o] = tasks[o]
  BY TaskMoves
<1>2. TalliesOK'
  BY DEF TalliesOK
<1>3. \A o \in PageTasks : Counted(tasks'[o], tallies'.summary)
  BY <1>1 DEF CountsOK, Counted
<1>4. \A u, o \in PageTasks : u # o /\ tasks'[u].step = "busy" /\ tasks'[u].alone => tasks'[o].step # "busy"
  BY <1>1 DEF CountsOK
<1> QED
  BY <1>1, <1>2, <1>3, <1>4 DEF CountsOK

\* A request is answered, refused or given up.
LEMMA ConcludeKeeps ==
  ASSUME TasksOK, TalliesOK, CountsOK, NEW t \in PageTasks, tasks[t].step = "busy",
         NEW task, NEW outcome, NEW summary,
         ReadyFor(task, outcome.request), OutcomeOK(task.of, outcome),
         task.of = tasks[t].of, task.alone = tasks[t].alone, task.outcomes = tasks[t].outcomes,
         SummaryOK(summary), summary.total = tallies.summary.total + One(ValidRequest(outcome.request)),
         Conclude(t, task, outcome, summary)
  PROVE  TasksOK' /\ TalliesOK' /\ CountsOK'
<1> DEFINE next == After(task, outcome, summary)
           before == Cardinality(Valids(task.outcomes))
<1>1. /\ BegunOK(next)
      /\ next.of = task.of /\ next.alone = task.alone /\ next.outcomes = Append(task.outcomes, outcome)
      /\ next.step = "done" => next.counted = summary
  BY AfterKeeps
<1>2. Moves(t, next) /\ tallies' = [tallies EXCEPT !.summary = summary]
  BY DEF Conclude, Moves
<1> HIDE DEF next
<1>3. TasksOK' /\ tasks'[t] = next /\ \A o \in PageTasks \ {t} : tasks'[o] = tasks[o]
  BY <1>1, <1>2, TaskMoves
<1>4. TalliesOK' /\ tallies'.summary = summary
  BY <1>2 DEF TalliesOK
<1>5. IsList(task.outcomes)
  BY DEF ReadyFor, LoadOK
<1>6. Cardinality(Valids(next.outcomes)) = before + One(ValidRequest(outcome.request))
  BY <1>1, <1>5, ValidsGrow
<1>7. Counted(next, summary)
  BY <1>1, <1>6 DEF Counted, CountsOK
<1>8. ASSUME NEW o \in PageTasks, o # t
      PROVE  Counted(tasks'[o], summary) /\ (tasks[t].alone => tasks'[o].step # "busy")
             /\ (tasks'[o].alone => tasks'[o].step # "busy")
  BY <1>3, <1>8 DEF CountsOK, Counted
<1>9. \A o \in PageTasks : Counted(tasks'[o], tallies'.summary)
  BY <1>3, <1>4, <1>7, <1>8
<1>10. ASSUME NEW u \in PageTasks, NEW o \in PageTasks, u # o, tasks'[u].step = "busy", tasks'[u].alone
       PROVE  tasks'[o].step # "busy"
  BY <1>1, <1>3, <1>8, <1>10
<1> QED
  BY <1>3, <1>4, <1>9, <1>10 DEF CountsOK

LEMMA FailureKeeps ==
  ASSUME TasksOK, TalliesOK, CountsOK, NEW t \in PageTasks, tasks[t].step = "busy",
         NEW task, NEW request, ReadyFor(task, request), ValidRequest(request),
         task.of = tasks[t].of, task.alone = tasks[t].alone, task.outcomes = tasks[t].outcomes,
         RequestFails(t, task, request)
  PROVE  TasksOK' /\ TalliesOK' /\ CountsOK'
<1> DEFINE outcome == NotHad(request)
           summary == RecordFailure(tallies.summary, request)
<1>1. outcome.request = request /\ OutcomeOK(task.of, outcome)
  BY DEF NotHad, Outcome, OutcomeOK, IsHad
<1>2. SummaryOK(summary) /\ summary.total = tallies.summary.total + One(ValidRequest(request))
  BY RecordFailureOK DEF TalliesOK, One
<1>3. Conclude(t, task, outcome, summary)
  BY DEF RequestFails
<1> HIDE DEF outcome, summary
<1> QED
  BY <1>1, <1>2, <1>3, ConcludeKeeps

LEMMA AnswerKeeps ==
  ASSUME TasksOK, TalliesOK, CountsOK, NEW t \in PageTasks, tasks[t].step = "busy",
         NEW task, NEW request, ReadyFor(task, request), ValidRequest(request), request.kind \in Kinds,
         task.of = tasks[t].of, task.alone = tasks[t].alone, task.outcomes = tasks[t].outcomes,
         NEW entry, NEW source \in Sources,
         (IsTextKind(request.kind) => entry.answer.utf8) => OutcomeOK(task.of, Outcome(request, <<entry>>, source)),
         RequestEnds(t, task, request, entry, source)
  PROVE  TasksOK' /\ TalliesOK' /\ CountsOK'
<1>1. CASE IsTextKind(request.kind) /\ ~entry.answer.utf8
  BY <1>1, FailureKeeps DEF RequestEnds
<1>2. CASE ~(IsTextKind(request.kind) /\ ~entry.answer.utf8)
  <2> DEFINE outcome == Outcome(request, <<entry>>, source)
             summary == RecordSuccess(tallies.summary, request, entry, source)
  <2>1. outcome.request = request /\ OutcomeOK(task.of, outcome)
    BY <1>2 DEF Outcome
  <2>2. SummaryOK(summary) /\ summary.total = tallies.summary.total + One(ValidRequest(request))
    BY RecordSuccessOK DEF TalliesOK, One
  <2>3. Conclude(t, task, outcome, summary)
    BY <1>2 DEF RequestEnds
  <2> HIDE DEF outcome, summary
  <2> QED
    BY <2>1, <2>2, <2>3, ConcludeKeeps
<1> QED
  BY <1>1, <1>2

-----------------------------------------------------------------------------
(* Requests that go on                                                     *)

LEMMA LeadsNowhere ==
  ASSUME NEW from, IsFetchable(from)
  PROVE  LeadsTo(from, <<>>, from) /\ IsList(<<>>) /\ Len(<<>>) = 0
<1>1. IsList(<<>>) /\ Len(<<>>) = 0 /\ DOMAIN <<>> = 1 .. 0
  BY EmptyList, ListFacts
<1>2. MaxRedirects \in Nat
  BY ResourcesAssumption
<1> QED
  BY <1>1, <1>2 DEF LeadsTo

LEMMA LeadsFurther ==
  ASSUME NEW from, NEW chain, IsList(chain), NEW at, LeadsTo(from, chain, at),
         Len(chain) < MaxRedirects, NEW to, IsFetchable(to)
  PROVE  LET more == Append(chain, [from |-> at, to |-> to])
         IN  LeadsTo(from, more, to) /\ IsList(more) /\ Len(more) = Len(chain) + 1
<1> DEFINE step == [from |-> at, to |-> to]
           more == Append(chain, step)
           n == Len(chain)
<1>1. /\ IsList(more) /\ Len(more) = n + 1
      /\ \A i \in 1 .. n : more[i] = chain[i]
      /\ more[n + 1] = step
  BY AppendList
<1>2. n \in Nat /\ DOMAIN chain = 1 .. n /\ (chain = <<>> <=> n = 0)
  BY ListFacts
<1>3. DOMAIN more = 1 .. n + 1 /\ more # <<>>
  <2> HIDE DEF more
  <2>1. Len(more) > 0
    BY <1>1, <1>2
  <2> QED
    BY <1>1, <2>1, ListFacts
<1>4. /\ \A i \in 1 .. n : chain[i].from = IF i = 1 THEN from ELSE chain[i - 1].to
      /\ at = IF n = 0 THEN from ELSE chain[n].to
  BY <1>2 DEF LeadsTo, Last
<1>5. step.from = at /\ step.to = to
  OBVIOUS
<1> HIDE DEF step, more
<1>6. ASSUME NEW i \in 1 .. n + 1
      PROVE  more[i].from = IF i = 1 THEN from ELSE more[i - 1].to
  <2>1. CASE i = n + 1
    <3>1. more[i].from = at
      BY <1>1, <1>5, <2>1
    <3>2. CASE n = 0
      BY <1>4, <2>1, <3>1, <3>2
    <3>3. CASE n # 0
      BY <1>1, <1>2, <1>4, <2>1, <3>1, <3>3
    <3> QED
      BY <3>2, <3>3
  <2>2. CASE i # n + 1
    BY <1>1, <1>2, <1>4, <2>2
  <2> QED
    BY <2>1, <2>2
<1>7. Len(more) <= MaxRedirects
  BY <1>1, <1>2, ResourcesAssumption
<1>8. Last(more).to = to
  BY <1>1, <1>5 DEF Last
<1>9. LeadsTo(from, more, to)
  BY <1>3, <1>6, <1>7, <1>8 DEF LeadsTo
<1> QED
  BY <1>1, <1>9 DEF more, step

LEMMA ReadyRequests ==
  ASSUME NEW task, NEW request, ReadyFor(task, request)
  PROVE  IsRequest(request) /\ request.kind \in Kinds /\ request.limit \in Nat
<1> DEFINE outcome == NotHad(request)
<1>1. outcome.request = request /\ OutcomeOK(task.of, outcome)
  BY DEF NotHad, Outcome, OutcomeOK, IsHad
<1> HIDE DEF outcome
<1>2. IsRequest(outcome.request)
  BY <1>1, OutcomesGrow
<1> QED
  BY <1>1, <1>2 DEF IsRequest

\* A load whose request is under way.
LEMMA UnderWay ==
  ASSUME TasksOK, NEW t \in PageTasks, tasks[t].fetch.phase \in {"asked", "body"}
  PROVE  /\ BegunOK(tasks[t]) /\ tasks[t].step = "busy" /\ tasks[t].fetch # NoFetch /\ FetchOK(tasks[t])
         /\ ReadyFor(tasks[t], tasks[t].fetch.request)
         /\ tasks[t].fetch.request.kind \in Kinds /\ ValidRequest(tasks[t].fetch.request)
<1> DEFINE task == tasks[t]
<1>1. NoFetch.phase = "none" /\ IdleTask.fetch = NoFetch
  BY DEF NoFetch, IdleTask
<1>2. task.fetch # NoFetch
  BY <1>1
<1>3. BegunOK(task)
  BY <1>1, <1>2 DEF TasksOK, TaskOK
<1>4. task.step = "busy" /\ FetchOK(task) /\ ReadyFor(task, task.fetch.request)
  BY <1>2, <1>3 DEF BegunOK, ReadyFor
<1>5. task.fetch.request.kind \in Kinds
  BY <1>4, ReadyRequests
<1> QED
  BY <1>2, <1>3, <1>4, <1>5 DEF FetchOK

\* A load that may ask for what is next.
LEMMA NextIsReady ==
  ASSUME NEW task, BegunOK(task), task.step = "busy", task.fetch = NoFetch
  PROVE  LET rest == [task EXCEPT !.todo = Tail(task.todo)] IN
         /\ ReadyFor(rest, Head(task.todo))
         /\ DOMAIN rest = TaskFields /\ rest.of = task.of /\ rest.plan = task.plan /\ rest.alone = task.alone
         /\ rest.outcomes = task.outcomes /\ rest.step = "busy" /\ rest.fetch = NoFetch
<1> DEFINE todo == Tail(task.todo)
           rest == [task EXCEPT !.todo = todo]
           request == Head(task.todo)
           all == AllOf(task)
           n == Len(task.outcomes)
           m == Len(task.todo)
<1>1. /\ LoadOK(task) /\ ImagesOK(task) /\ Settled(all, task.outcomes, task.todo) /\ m > 0
      /\ DOMAIN task = TaskFields /\ IsList(task.outcomes) /\ IsList(task.todo)
  BY DEF BegunOK, LoadOK
<1>2. n \in Nat /\ m \in Nat
  BY <1>1, ListFacts
<1>3. IsList(todo) /\ Len(todo) = m - 1 /\ \A i \in 1 .. m - 1 : todo[i] = task.todo[i + 1]
  BY <1>1, TailList
<1>4. request = task.todo[1]
  <2>1. PICK T : task.todo \in Seq(T)
    BY <1>1 DEF IsList
  <2>2. task.todo # <<>>
    BY <1>1, ListFacts
  <2> QED
    BY <2>1, <2>2, HeadTailProperties
<1> HIDE DEF todo, request
<1>5. /\ DOMAIN rest = TaskFields /\ rest.of = task.of /\ rest.plan = task.plan /\ rest.alone = task.alone
      /\ rest.outcomes = task.outcomes /\ rest.step = "busy" /\ rest.fetch = NoFetch /\ rest.images = task.images
      /\ rest.todo = todo
  BY <1>1 DEF TaskFields
<1> HIDE DEF rest
<1>6. AllOf(rest) = all
  BY <1>5 DEF AllOf
<1>7. LoadOK(rest)
  BY <1>1, <1>3, <1>5 DEF LoadOK, PlanOK
<1>8. ImagesOK(rest)
  BY <1>1, <1>5 DEF ImagesOK, ImagesConcluded
<1>9. Awaiting(all, task.outcomes, request, todo)
  <2>1. /\ Len(all) = n + m
        /\ \A i \in 1 .. n : task.outcomes[i].request = all[i]
        /\ \A i \in 1 .. m : task.todo[i] = all[n + i]
    BY <1>1 DEF Settled
  <2> HIDE DEF all, n, m
  <2>2. Len(all) = n + 1 + Len(todo)
    BY <1>2, <1>3, <2>1
  <2>3. request = all[n + 1]
    <3> DEFINE first == 1
    <3>1. first \in 1 .. m /\ request = task.todo[first]
      BY <1>1, <1>2, <1>4 DEF m
    <3> HIDE DEF first
    <3>2. request = all[n + first]
      BY <2>1, <3>1
    <3> QED
      BY <3>2 DEF first
  <2>4. ASSUME NEW i \in 1 .. Len(todo)
        PROVE  todo[i] = all[n + 1 + i]
    <3> DEFINE k == i + 1
    <3>1. k \in 1 .. m /\ i \in 1 .. m - 1 /\ n + k = n + 1 + i
      BY <1>2, <1>3
    <3> HIDE DEF k
    <3>2. task.todo[k] = all[n + k]
      BY <2>1, <3>1
    <3>3. todo[i] = task.todo[k]
      BY <1>3, <3>1 DEF k
    <3> QED
      BY <3>1, <3>2, <3>3
  <2> QED
    BY <2>1, <2>2, <2>3, <2>4 DEF Awaiting, n
<1>10. ReadyFor(rest, request)
  BY <1>5, <1>6, <1>7, <1>8, <1>9 DEF ReadyFor
<1> QED
  BY <1>5, <1>10 DEF rest, todo, request

\* What is fetched for it.
LEMMA FetchGoesOn ==
  ASSUME NEW task, NEW fetch, ReadyFor(task, fetch.request), fetch # NoFetch, DOMAIN task = TaskFields,
         FetchOK([task EXCEPT !.fetch = fetch])
  PROVE  LET next == [task EXCEPT !.fetch = fetch] IN
         BegunOK(next) /\ next.step = "busy" /\ next.of = task.of /\ next.alone = task.alone /\ next.outcomes = task.outcomes
<1> DEFINE next == [task EXCEPT !.fetch = fetch]
<1>1. /\ DOMAIN next = TaskFields /\ next.of = task.of /\ next.plan = task.plan /\ next.alone = task.alone
      /\ next.outcomes = task.outcomes /\ next.step = task.step /\ next.fetch = fetch /\ next.images = task.images
      /\ next.todo = task.todo
  BY DEF TaskFields
<1> HIDE DEF next
<1>2. /\ LoadOK(task) /\ ImagesOK(task) /\ task.step = "busy"
      /\ Awaiting(AllOf(task), task.outcomes, fetch.request, task.todo)
  BY DEF ReadyFor
<1>3. AllOf(next) = AllOf(task)
  BY <1>1 DEF AllOf
<1>4. LoadOK(next)
  BY <1>1, <1>2 DEF LoadOK, PlanOK
<1>5. ImagesOK(next)
  BY <1>1, <1>2 DEF ImagesOK, ImagesConcluded
<1>6. FetchOK(next)
  BY DEF next
<1>7. BegunOK(next)
  BY <1>1, <1>2, <1>3, <1>4, <1>5, <1>6 DEF BegunOK
<1> QED
  BY <1>1, <1>2, <1>7 DEF next

-----------------------------------------------------------------------------
(* Loads begin                                                             *)

NewLoad(of, plan, todo, alone) ==
  [IdleTask EXCEPT !.step = IF todo = <<>> THEN "done" ELSE "busy", !.of = of, !.plan = plan, !.todo = todo, !.alone = alone]

LEMMA BegunAnew ==
  ASSUME NEW of \in {"page", "textBatch", "bytesBatch"}, NEW plan, NEW todo, NEW alone,
         of = "page" => plan \in PagePlans /\ todo = <<plan.document>>,
         of # "page" => plan \in Batches /\ todo = BatchOrder(plan)
  PROVE  LET new == NewLoad(of, plan, todo, alone) IN
         /\ BegunOK(new) /\ new.of = of /\ new.alone = alone
         /\ (of = "page" => new.step = "busy") /\ Cardinality(Valids(new.outcomes)) = 0
<1> DEFINE step == IF todo = <<>> THEN "done" ELSE "busy"
           new == NewLoad(of, plan, todo, alone)
           none == <<>>
<1>1. /\ DOMAIN new = TaskFields /\ new.step = step /\ new.of = of /\ new.plan = plan /\ new.todo = todo
      /\ new.fetch = NoFetch /\ new.outcomes = none /\ new.alone = alone
  BY DEF NewLoad, IdleTask, TaskFields
<1>2. IsList(none) /\ Len(none) = 0
  BY EmptyList, ListFacts
<1> HIDE DEF new, none
<1>3. PlanOK(new)
  BY <1>1 DEF PlanOK
<1>4. AllOf(new) = todo
  BY <1>1, <1>2 DEF AllOf
<1>5. IsList(todo) /\ Len(todo) \in Nat
  BY <1>1, <1>2, <1>3, <1>4, AllOfFacts
<1>6. todo = <<>> <=> Len(todo) = 0
  BY <1>5, ListFacts
<1>7. of = "page" => Len(todo) = 1
  BY <1>1, <1>2, <1>3, <1>4, AllOfFacts
<1>8. LoadOK(new)
  BY <1>1, <1>2, <1>3, <1>5 DEF LoadOK
<1>9. ImagesOK(new)
  BY <1>1, <1>2 DEF ImagesOK
<1>10. Settled(AllOf(new), new.outcomes, new.todo)
  BY <1>1, <1>2, <1>4, <1>5 DEF Settled
<1>11. of = "page" => step = "busy"
  BY <1>6, <1>7
<1>12. BegunOK(new)
  BY <1>1, <1>2, <1>5, <1>6, <1>8, <1>9, <1>10, <1>11 DEF BegunOK
<1>13. Valids(new.outcomes) = {}
  BY <1>1, <1>2 DEF Valids
<1>14. Cardinality(Valids(new.outcomes)) = 0
  BY <1>13, FS_EmptySet
<1> QED
  BY <1>1, <1>11, <1>12, <1>14 DEF new

\* The other loads are not alone any more when they are busy.
LEMMA OthersRemain ==
  ASSUME NEW task, TaskOK(task)
  PROVE  LET next == [task EXCEPT !.alone = task.alone /\ ~IsBusy(task)] IN
         /\ TaskOK(next) /\ next.of = task.of /\ next.step = task.step /\ next.outcomes = task.outcomes
         /\ next.counted = task.counted /\ (next.alone => task.alone /\ task.step # "busy")
<1> DEFINE alone == task.alone /\ ~IsBusy(task)
           next == [task EXCEPT !.alone = alone]
<1>1. CASE task = IdleTask
  <2>1. alone = TRUE
    BY <1>1 DEF IdleTask, IsBusy
  <2> HIDE DEF alone
  <2>2. next = IdleTask
    <3>1. IdleTask = [f \in DOMAIN IdleTask |-> IdleTask[f]] /\ IdleTask.alone = TRUE
      BY DEF IdleTask
    <3>2. next = [IdleTask EXCEPT !.alone = TRUE]
      BY <1>1, <2>1
    <3> QED
      BY <3>1, <3>2
  <2>3. IdleTask.alone /\ IdleTask.step # "busy"
    BY DEF IdleTask
  <2> QED
    BY <1>1, <2>2, <2>3 DEF TaskOK, alone
<1>2. CASE BegunOK(task)
  <2>1. alone => task.alone /\ task.step # "busy"
    BY DEF IsBusy
  <2> HIDE DEF alone
  <2>2. DOMAIN task = TaskFields
    BY <1>2 DEF BegunOK, LoadOK
  <2>3. /\ DOMAIN next = TaskFields /\ next.of = task.of /\ next.plan = task.plan /\ next.alone = alone
        /\ next.outcomes = task.outcomes /\ next.step = task.step /\ next.fetch = task.fetch /\ next.images = task.images
        /\ next.todo = task.todo /\ next.counted = task.counted
    BY <2>2 DEF TaskFields
  <2> HIDE DEF next
  <2>4. AllOf(next) = AllOf(task)
    BY <2>3 DEF AllOf
  <2>5. LoadOK(next) <=> LoadOK(task)
    BY <2>2, <2>3 DEF LoadOK, PlanOK
  <2>6. ImagesOK(next) <=> ImagesOK(task)
    BY <2>3 DEF ImagesOK, ImagesConcluded
  <2>7. FetchOK(next) <=> FetchOK(task)
    BY <2>3 DEF FetchOK, RefusedBefore
  <2>8. BegunOK(next)
    BY <1>2, <2>3, <2>4, <2>5, <2>6, <2>7 DEF BegunOK
  <2> QED
    BY <2>1, <2>3, <2>8 DEF TaskOK, next, alone
<1> QED
  BY <1>1, <1>2 DEF TaskOK

LEMMA BeginsKeeps ==
  ASSUME TasksOK, TalliesOK, CountsOK, NEW t \in PageTasks,
         NEW of \in {"page", "textBatch", "bytesBatch"}, NEW plan, NEW todo, NEW summary,
         of = "page" => plan \in PagePlans /\ todo = <<plan.document>>,
         of # "page" => plan \in Batches /\ todo = BatchOrder(plan),
         SummaryOK(summary), of = "page" => summary.total = 0,
         Begins(t, of, plan, todo, summary)
  PROVE  TasksOK' /\ TalliesOK' /\ CountsOK'
<1> DEFINE alone == \A o \in PageTasks : ~IsBusy(tasks[o])
           new == NewLoad(of, plan, todo, alone)
           other(u) == [tasks[u] EXCEPT !.alone = tasks[u].alone /\ ~IsBusy(tasks[u])]
<1>1. /\ ~IsBusy(tasks[t])
      /\ tasks' = [u \in PageTasks |-> IF u = t THEN new ELSE other(u)]
      /\ tallies' = [begun |-> tallies.begun + 1, summary |-> summary]
  BY DEF Begins, NewLoad
<1>2. alone => \A o \in PageTasks : tasks[o].step # "busy"
  BY DEF IsBusy
<1> HIDE DEF alone
<1>3. /\ BegunOK(new) /\ new.of = of /\ new.alone = alone
      /\ (of = "page" => new.step = "busy") /\ Cardinality(Valids(new.outcomes)) = 0
  BY BegunAnew
<1>4. ASSUME NEW u \in PageTasks
      PROVE  /\ TaskOK(other(u)) /\ other(u).of = tasks[u].of /\ other(u).step = tasks[u].step
             /\ other(u).outcomes = tasks[u].outcomes /\ other(u).counted = tasks[u].counted
             /\ (other(u).alone => tasks[u].alone /\ tasks[u].step # "busy")
  BY OthersRemain DEF TasksOK
<1> HIDE DEF new, other
<1>5. DOMAIN tasks' = PageTasks /\ tasks'[t] = new /\ \A u \in PageTasks \ {t} : tasks'[u] = other(u)
  BY <1>1
<1>6. TasksOK'
  BY <1>3, <1>4, <1>5 DEF TasksOK, TaskOK
<1>7. TalliesOK' /\ tallies'.summary = summary
  BY <1>1 DEF TalliesOK
<1>8. Counted(new, summary)
  BY <1>3 DEF Counted
<1>9. ASSUME NEW u \in PageTasks \ {t}
      PROVE  Counted(other(u), summary)
  BY <1>4 DEF CountsOK, Counted
<1>10. \A u \in PageTasks : Counted(tasks'[u], tallies'.summary)
  BY <1>5, <1>7, <1>8, <1>9
<1>11. ASSUME NEW u \in PageTasks, NEW o \in PageTasks, u # o, tasks'[u].step = "busy", tasks'[u].alone
       PROVE  tasks'[o].step # "busy"
  BY <1>2, <1>3, <1>4, <1>5, <1>11
<1> QED
  BY <1>6, <1>7, <1>10, <1>11 DEF CountsOK

-----------------------------------------------------------------------------
(* Each step keeps the invariant                                           *)

LEMMA LoadBeginsKeeps ==
  ASSUME ResourcesInv, NEW t \in PageTasks, LoadBegins(t) \/ BatchBegins(t)
  PROVE  ResourcesInv'
<1>1. TasksOK /\ KeptOK /\ TalliesOK /\ CountsOK
  BY DEF ResourcesInv
<1>2. CASE LoadBegins(t)
  <2>1. PICK plan \in PagePlans : Begins(t, "page", plan, <<plan.document>>, NoTallies)
    BY <1>2 DEF LoadBegins
  <2> DEFINE todo == <<plan.document>>
             summary == NoTallies
  <2>2. SummaryOK(summary) /\ summary.total = 0
    BY NoTalliesOK
  <2>3. Begins(t, "page", plan, todo, summary) /\ todo = <<plan.document>>
    BY <2>1
  <2> HIDE DEF todo, summary
  <2>4. TasksOK' /\ TalliesOK' /\ CountsOK'
    BY <1>1, <2>2, <2>3, BeginsKeeps
  <2>5. KeptOK'
    BY <1>1, <2>3 DEF Begins, KeptOK, EntryOK
  <2> QED
    BY <2>4, <2>5 DEF ResourcesInv
<1>3. CASE BatchBegins(t)
  <2>1. PICK requests \in Batches, of \in {"textBatch", "bytesBatch"} :
          Begins(t, of, requests, BatchOrder(requests), tallies.summary)
    BY <1>3 DEF BatchBegins
  <2> DEFINE todo == BatchOrder(requests)
             summary == tallies.summary
  <2>2. SummaryOK(summary)
    BY <1>1 DEF TalliesOK
  <2>3. Begins(t, of, requests, todo, summary) /\ todo = BatchOrder(requests)
    BY <2>1
  <2>4. of # "page" /\ of \in {"page", "textBatch", "bytesBatch"}
    OBVIOUS
  <2> HIDE DEF todo, summary
  <2>5. TasksOK' /\ TalliesOK' /\ CountsOK'
    BY <1>1, <2>2, <2>3, <2>4, BeginsKeeps
  <2>6. KeptOK'
    BY <1>1, <2>3 DEF Begins, KeptOK, EntryOK
  <2> QED
    BY <2>5, <2>6 DEF ResourcesInv
<1> QED
  BY <1>2, <1>3

\* What is kept may be served.
LEMMA HitIsFine ==
  ASSUME KeptOK, NEW task, NEW request, ~RefusedBefore(task, request), IsHit(request),
         task.of \in {"page", "textBatch", "bytesBatch"}
  PROVE  LET entry == kept[RequestKey(request)] IN
         (IsTextKind(request.kind) => entry.answer.utf8) =>
           OutcomeOK(task.of, Outcome(request, <<entry>>, "Kept"))
<1> DEFINE entry == kept[RequestKey(request)]
           outcome == Outcome(request, <<entry>>, "Kept")
<1>1. RequestKey(request)[1] = request.kind /\ RequestKey(request)[2] = request.address
  BY DEF RequestKey
<1>2. EntryOK(RequestKey(request), entry)
  BY DEF KeptOK, IsHit
<1>3. ~RevalidateOnUse(entry.answer) /\ SizeOfBody(entry.answer) <= request.limit
  BY DEF IsHit
<1>4. outcome.request = request /\ outcome.entry[1] = entry /\ outcome.source = "Kept"
  BY DEF Outcome
<1> HIDE DEF entry, outcome
<1>5. /\ LeadsTo(request.address, entry.chain, entry.address) /\ IsSuccess(entry.answer.status)
      /\ MimeAllowed(request.kind, MimeOf(request.kind, entry.address, entry.answer))
  BY <1>1, <1>2 DEF EntryOK
<1>6. /\ request.kind = "Script" => ScriptsAllowed
      /\ task.of # "page" => (IsTextKind(request.kind) <=> task.of = "textBatch")
  BY DEF RefusedBefore
<1>7. (IsTextKind(request.kind) => entry.answer.utf8) => OutcomeOK(task.of, outcome)
  BY <1>3, <1>4, <1>5, <1>6 DEF OutcomeOK
<1> QED
  BY <1>7 DEF entry, outcome

LEMMA FetchIsFine ==
  ASSUME NEW task, DOMAIN task = TaskFields, NEW request, request.limit \in Nat, ValidRequest(request),
         ~RefusedBefore(task, request)
  PROVE  FetchOf(request) # NoFetch /\ FetchOf(request).request = request /\ FetchOK([task EXCEPT !.fetch = FetchOf(request)])
<1> DEFINE fetch == FetchOf(request)
           next == [task EXCEPT !.fetch = fetch]
           none == <<>>
<1>1. /\ DOMAIN fetch = FetchFields /\ fetch.phase = "asked" /\ fetch.request = request /\ fetch.address = request.address
      /\ fetch.left = MaxRedirects /\ fetch.chain = none /\ fetch.read = 0 /\ fetch.got = 0
  BY DEF FetchOf, FetchFields
<1>2. next.fetch = fetch /\ next.of = task.of
  BY DEF TaskFields
<1>3. LeadsTo(request.address, none, request.address) /\ IsList(none) /\ Len(none) = 0
  BY LeadsNowhere DEF ValidRequest
<1>4. fetch # NoFetch
  BY <1>1 DEF NoFetch
<1> HIDE DEF fetch, next, none
<1>5. fetch.left = MaxRedirects - Len(fetch.chain) /\ fetch.got <= fetch.request.limit /\ fetch.read \in Nat
  BY <1>1, <1>3, ResourcesAssumption
<1>6. ~RefusedBefore(next, fetch.request)
  BY <1>1, <1>2 DEF RefusedBefore
<1>7. FetchOK(next)
  BY <1>1, <1>2, <1>3, <1>5, <1>6 DEF FetchOK
<1> QED
  BY <1>1, <1>4, <1>7 DEF fetch, next

LEMMA RequestBeginsKeeps ==
  ASSUME ResourcesInv, NEW t \in PageTasks, RequestBegins(t)
  PROVE  ResourcesInv'
<1> DEFINE old == tasks[t]
           request == Head(old.todo)
           task == [old EXCEPT !.todo = Tail(old.todo)]
<1>1. TasksOK /\ KeptOK /\ TalliesOK /\ CountsOK
  BY DEF ResourcesInv
<1>2. old.step = "busy" /\ old.fetch = NoFetch /\ UNCHANGED kept
  BY DEF RequestBegins, IsBusy
<1>3. KeptOK'
  BY <1>1, <1>2 DEF KeptOK, EntryOK
<1> SUFFICES TasksOK' /\ TalliesOK' /\ CountsOK'
  BY <1>3 DEF ResourcesInv
<1>4. \/ ~ValidRequest(request) /\ Conclude(t, task, NotHad(request), tallies.summary)
      \/ ValidRequest(request) /\ RefusedBefore(task, request) /\ RequestFails(t, task, request)
      \/ /\ ValidRequest(request) /\ ~RefusedBefore(task, request) /\ IsHit(request)
         /\ RequestEnds(t, task, request, kept[RequestKey(request)], "Kept")
      \/ /\ ValidRequest(request) /\ ~RefusedBefore(task, request)
         /\ tasks' = [tasks EXCEPT ![t] = [task EXCEPT !.fetch = FetchOf(request)]]
         /\ UNCHANGED tallies
  BY DEF RequestBegins
<1>5. BegunOK(old)
  BY <1>1, <1>2 DEF TasksOK, TaskOK, IdleTask
<1>6. /\ ReadyFor(task, request) /\ DOMAIN task = TaskFields /\ task.of = old.of /\ task.alone = old.alone
      /\ task.outcomes = old.outcomes
  BY <1>2, <1>5, NextIsReady
<1> HIDE DEF task, request
<1>7. IsRequest(request) /\ request.kind \in Kinds /\ request.limit \in Nat
  BY <1>6, ReadyRequests
<1>8. task.of \in {"page", "textBatch", "bytesBatch"}
  BY <1>6 DEF ReadyFor, LoadOK, PlanOK
<1>9. CASE ~ValidRequest(request) /\ Conclude(t, task, NotHad(request), tallies.summary)
  <2> DEFINE outcome == NotHad(request)
             summary == tallies.summary
  <2>1. outcome.request = request /\ OutcomeOK(task.of, outcome)
    BY DEF NotHad, Outcome, OutcomeOK, IsHad
  <2>2. SummaryOK(summary) /\ summary.total \in Nat
    BY <1>1 DEF TalliesOK, SummaryOK
  <2>3. Conclude(t, task, outcome, summary) /\ summary = tallies.summary
    BY <1>9
  <2> HIDE DEF outcome, summary
  <2>4. summary.total = tallies.summary.total + One(ValidRequest(outcome.request))
    BY <1>9, <2>1, <2>2, <2>3 DEF One
  <2> QED
    BY <1>1, <1>2, <1>6, <2>1, <2>2, <2>3, <2>4, ConcludeKeeps
<1>10. CASE ValidRequest(request) /\ RefusedBefore(task, request) /\ RequestFails(t, task, request)
  BY <1>1, <1>2, <1>6, <1>10, FailureKeeps
<1>11. CASE /\ ValidRequest(request) /\ ~RefusedBefore(task, request) /\ IsHit(request)
           /\ RequestEnds(t, task, request, kept[RequestKey(request)], "Kept")
  <2> DEFINE entry == kept[RequestKey(request)]
             source == "Kept"
  <2>1. (IsTextKind(request.kind) => entry.answer.utf8) => OutcomeOK(task.of, Outcome(request, <<entry>>, source))
    BY <1>1, <1>8, <1>11, HitIsFine
  <2>2. RequestEnds(t, task, request, entry, source) /\ source \in Sources
    BY <1>11 DEF Sources
  <2> HIDE DEF entry, source
  <2> QED
    BY <1>1, <1>2, <1>6, <1>7, <1>11, <2>1, <2>2, AnswerKeeps
<1>12. CASE /\ ValidRequest(request) /\ ~RefusedBefore(task, request)
            /\ tasks' = [tasks EXCEPT ![t] = [task EXCEPT !.fetch = FetchOf(request)]]
            /\ UNCHANGED tallies
  <2> DEFINE fetch == FetchOf(request)
             next == [task EXCEPT !.fetch = fetch]
  <2>1. fetch # NoFetch /\ fetch.request = request /\ FetchOK(next)
    BY <1>6, <1>7, <1>12, FetchIsFine
  <2>2. Moves(t, next)
    BY <1>12 DEF Moves
  <2> HIDE DEF fetch
  <2>3. BegunOK(next) /\ next.step = "busy" /\ next.of = task.of /\ next.alone = task.alone /\ next.outcomes = task.outcomes
    BY <1>6, <2>1, FetchGoesOn
  <2> HIDE DEF next
  <2> QED
    BY <1>1, <1>2, <1>6, <1>12, <2>2, <2>3, FetchMoves
<1> QED
  BY <1>4, <1>9, <1>10, <1>11, <1>12

FetchIs(fetch, request) ==
  /\ DOMAIN fetch = FetchFields /\ fetch.phase \in {"asked", "body"} /\ fetch.request = request
  /\ IsList(fetch.chain) /\ LeadsTo(request.address, fetch.chain, fetch.address)
  /\ fetch.left = MaxRedirects - Len(fetch.chain)
  /\ fetch.read \in Nat /\ fetch.got <= request.limit
  /\ fetch.phase = "asked" => fetch.read = 0 /\ fetch.got = 0
  /\ fetch.phase = "body" => fetch.got = SizeOfFirst(fetch.answer.chunks, fetch.read)

LEMMA FetchContinues ==
  ASSUME ResourcesInv, NEW t \in PageTasks, tasks[t].fetch.phase \in {"asked", "body"},
         NEW fetch, FetchIs(fetch, tasks[t].fetch.request),
         tasks' = [tasks EXCEPT ![t].fetch = fetch], UNCHANGED <<kept, tallies>>
  PROVE  ResourcesInv'
<1> DEFINE task == tasks[t]
           next == [task EXCEPT !.fetch = fetch]
<1>1. TasksOK /\ KeptOK /\ TalliesOK /\ CountsOK
  BY DEF ResourcesInv
<1>2. /\ BegunOK(task) /\ task.step = "busy" /\ FetchOK(task) /\ ReadyFor(task, task.fetch.request)
      /\ ValidRequest(task.fetch.request)
  BY <1>1, UnderWay
<1>3. DOMAIN task = TaskFields
  BY <1>2 DEF BegunOK, LoadOK
<1>4. next.fetch = fetch /\ next.of = task.of
  BY <1>3 DEF TaskFields
<1>5. Moves(t, next)
  BY DEF Moves
<1>6. fetch # NoFetch /\ fetch.request = task.fetch.request
  BY DEF FetchIs, NoFetch
<1>7. FetchOK(next)
  <2> HIDE DEF next, task
  <2>1. ~RefusedBefore(next, fetch.request)
    BY <1>2, <1>4, <1>6 DEF FetchOK, RefusedBefore
  <2> QED
    BY <1>2, <1>4, <1>6, <2>1 DEF FetchOK, FetchIs, task
<1>8. BegunOK(next) /\ next.step = "busy" /\ next.of = task.of /\ next.alone = task.alone /\ next.outcomes = task.outcomes
  BY <1>2, <1>3, <1>6, <1>7, FetchGoesOn
<1> HIDE DEF next
<1>9. TasksOK' /\ TalliesOK' /\ CountsOK'
  BY <1>1, <1>2, <1>5, <1>8, FetchMoves
<1>10. KeptOK'
  BY <1>1 DEF KeptOK, EntryOK
<1> QED
  BY <1>9, <1>10 DEF ResourcesInv

LEMMA FetchEnds ==
  ASSUME ResourcesInv, NEW t \in PageTasks, tasks[t].fetch.phase \in {"asked", "body"},
         RequestFails(t, tasks[t], tasks[t].fetch.request), UNCHANGED kept
  PROVE  ResourcesInv'
<1> DEFINE task == tasks[t]
           request == task.fetch.request
<1>1. TasksOK /\ KeptOK /\ TalliesOK /\ CountsOK
  BY DEF ResourcesInv
<1>2. task.step = "busy" /\ ReadyFor(task, request) /\ ValidRequest(request)
  BY <1>1, UnderWay
<1>3. TasksOK' /\ TalliesOK' /\ CountsOK'
  BY <1>1, <1>2, FailureKeeps
<1>4. KeptOK'
  BY <1>1 DEF KeptOK, EntryOK
<1> QED
  BY <1>3, <1>4 DEF ResourcesInv

LEMMA AnswerComesKeeps ==
  ASSUME ResourcesInv, NEW t \in PageTasks, AnswerComes(t)
  PROVE  ResourcesInv'
<1> DEFINE old == tasks[t].fetch
           request == old.request
<1>1. old.phase = "asked" /\ old.phase \in {"asked", "body"} /\ UNCHANGED kept
  BY DEF AnswerComes
<1>2. PICK answer \in Answers[old.address] :
       \/ /\ IsRedirect(answer.status) /\ MayFollow(old, answer)
          /\ tasks' = [tasks EXCEPT ![t].fetch = FollowRedirect(old, answer.location[1])]
          /\ UNCHANGED tallies
       \/ /\ tasks' = [tasks EXCEPT ![t].fetch = [old EXCEPT !.phase = "body", !.answer = answer]]
          /\ UNCHANGED tallies
       \/ RequestFails(t, tasks[t], request)
  BY DEF AnswerComes
<1>3. FetchOK(tasks[t]) /\ ReadyFor(tasks[t], request)
  BY <1>1, UnderWay DEF ResourcesInv
<1>4. /\ DOMAIN old = FetchFields /\ IsList(old.chain) /\ LeadsTo(request.address, old.chain, old.address)
      /\ old.left = MaxRedirects - Len(old.chain) /\ old.read = 0 /\ old.got = 0 /\ old.got <= request.limit
  BY <1>1, <1>3 DEF FetchOK
<1>5. CASE /\ MayFollow(old, answer)
           /\ tasks' = [tasks EXCEPT ![t].fetch = FollowRedirect(old, answer.location[1])]
           /\ UNCHANGED tallies
  <2> DEFINE to == answer.location[1]
             more == Append(old.chain, [from |-> old.address, to |-> to])
             fetch == FollowRedirect(old, to)
  <2>1. IsFetchable(to) /\ old.left > 0
    BY <1>5 DEF MayFollow
  <2>2. Len(old.chain) \in Nat /\ MaxRedirects \in Nat
    BY <1>4, ListFacts, ResourcesAssumption
  <2>3. Len(old.chain) < MaxRedirects
    BY <1>4, <2>1, <2>2
  <2>4. LeadsTo(request.address, more, to) /\ IsList(more) /\ Len(more) = Len(old.chain) + 1
    BY <1>4, <2>1, <2>3, LeadsFurther
  <2> HIDE DEF more, to, old
  <2>5. /\ DOMAIN fetch = FetchFields /\ fetch.phase = old.phase /\ fetch.request = old.request /\ fetch.address = to
        /\ fetch.left = old.left - 1 /\ fetch.chain = more /\ fetch.read = old.read /\ fetch.got = old.got
    BY <1>4 DEF FollowRedirect, FetchFields, more
  <2>6. tasks' = [tasks EXCEPT ![t].fetch = fetch]
    BY <1>5 DEF to
  <2> HIDE DEF fetch
  <2>7. old.left - 1 = MaxRedirects - Len(more)
    BY <1>4, <2>2, <2>4
  <2>8. FetchIs(fetch, request)
    BY <1>1, <1>4, <2>4, <2>5, <2>7 DEF FetchIs
  <2> QED
    BY <1>1, <1>5, <2>6, <2>8, FetchContinues DEF old
<1>6. CASE /\ tasks' = [tasks EXCEPT ![t].fetch = [old EXCEPT !.phase = "body", !.answer = answer]]
           /\ UNCHANGED tallies
  <2> DEFINE fetch == [old EXCEPT !.phase = "body", !.answer = answer]
  <2>1. tasks' = [tasks EXCEPT ![t].fetch = fetch]
    BY <1>6
  <2> HIDE DEF old
  <2>2. /\ DOMAIN fetch = FetchFields /\ fetch.phase = "body" /\ fetch.request = old.request /\ fetch.address = old.address
        /\ fetch.left = old.left /\ fetch.chain = old.chain /\ fetch.read = old.read /\ fetch.got = old.got
    BY <1>4 DEF FetchFields
  <2> HIDE DEF fetch
  <2>3. SizeOfFirst(fetch.answer.chunks, 0) = 0
    BY SizeGrows
  <2>4. FetchIs(fetch, request)
    BY <1>4, <2>2, <2>3 DEF FetchIs
  <2> QED
    BY <1>1, <1>6, <2>1, <2>4, FetchContinues DEF old
<1>7. CASE RequestFails(t, tasks[t], request)
  BY <1>1, <1>7, FetchEnds
<1> QED
  BY <1>2, <1>5, <1>6, <1>7

LEMMA ChunkComesKeeps ==
  ASSUME ResourcesInv, NEW t \in PageTasks, ChunkComes(t)
  PROVE  ResourcesInv'
<1> DEFINE old == tasks[t].fetch
           request == old.request
           got == old.got + old.answer.chunks[old.read + 1]
           read == old.read + 1
           fetch == [old EXCEPT !.read = read, !.got = got]
<1>1. old.phase = "body" /\ old.phase \in {"asked", "body"} /\ UNCHANGED kept
  BY DEF ChunkComes
<1>2. FetchOK(tasks[t])
  BY <1>1, UnderWay DEF ResourcesInv
<1>3. /\ DOMAIN old = FetchFields /\ IsList(old.chain) /\ LeadsTo(request.address, old.chain, old.address)
      /\ old.left = MaxRedirects - Len(old.chain) /\ old.read \in Nat
      /\ old.got = SizeOfFirst(old.answer.chunks, old.read)
  BY <1>1, <1>2 DEF FetchOK
<1>4. CASE RequestFails(t, tasks[t], request)
  BY <1>1, <1>4, FetchEnds
<1>5. CASE /\ got <= request.limit
           /\ tasks' = [tasks EXCEPT ![t].fetch = [old EXCEPT !.read = @ + 1, !.got = got]]
           /\ UNCHANGED tallies
  <2>1. tasks' = [tasks EXCEPT ![t].fetch = fetch] /\ got <= request.limit
    BY <1>5
  <2>2. SizeOfFirst(old.answer.chunks, read) = got /\ read \in Nat
    <3>1. SizeOfFirst(old.answer.chunks, old.read + 1) = SizeOfFirst(old.answer.chunks, old.read) + old.answer.chunks[old.read + 1]
      BY <1>3, SizeGrows
    <3> QED
      BY <1>3, <3>1
  <2> HIDE DEF old, got, read
  <2>3. /\ DOMAIN fetch = FetchFields /\ fetch.phase = old.phase /\ fetch.request = old.request /\ fetch.address = old.address
        /\ fetch.left = old.left /\ fetch.chain = old.chain /\ fetch.read = read /\ fetch.got = got
        /\ fetch.answer = old.answer
    BY <1>3 DEF FetchFields
  <2> HIDE DEF fetch
  <2>4. FetchIs(fetch, request)
    BY <1>1, <1>3, <2>1, <2>2, <2>3 DEF FetchIs
  <2> QED
    BY <1>1, <1>5, <2>1, <2>4, FetchContinues DEF old
<1> QED
  BY <1>4, <1>5 DEF ChunkComes

\* A body that is complete.
LEMMA EntryIsFine ==
  ASSUME NEW task, NEW request, FetchOK(task), task.fetch.request = request, task.fetch.phase = "body",
         task.fetch.read = Len(task.fetch.answer.chunks), NEW source, source # "Kept",
         IsSuccess(task.fetch.answer.status), MimeAllowed(request.kind, Classified(task.fetch)),
         task.of \in {"page", "textBatch", "bytesBatch"}
  PROVE  /\ (IsTextKind(request.kind) => Entry(task.fetch).answer.utf8) =>
              OutcomeOK(task.of, Outcome(request, <<Entry(task.fetch)>>, source))
         /\ CacheIsEnabled /\ Storable(task.fetch.answer) => EntryOK(RequestKey(request), Entry(task.fetch))
<1> DEFINE fetch == task.fetch
           entry == Entry(fetch)
           outcome == Outcome(request, <<entry>>, source)
           key == RequestKey(request)
<1>1. entry.answer = fetch.answer /\ entry.address = fetch.address /\ entry.chain = fetch.chain
  BY DEF Entry
<1>2. outcome.request = request /\ outcome.entry[1] = entry /\ outcome.source = source
  BY DEF Outcome
<1>3. key[1] = request.kind /\ key[2] = request.address
  BY DEF RequestKey
<1> HIDE DEF entry, outcome, key
<1>4. /\ LeadsTo(request.address, entry.chain, entry.address) /\ IsList(entry.chain)
      /\ IsSuccess(entry.answer.status)
      /\ MimeAllowed(request.kind, MimeOf(request.kind, entry.address, entry.answer))
  BY <1>1 DEF FetchOK, Classified
<1>5. SizeOfBody(entry.answer) <= request.limit
  BY <1>1 DEF FetchOK, SizeOfBody
<1>6. /\ request.kind = "Script" => ScriptsAllowed
      /\ task.of # "page" => (IsTextKind(request.kind) <=> task.of = "textBatch")
  BY DEF FetchOK, RefusedBefore
<1>7. (IsTextKind(request.kind) => entry.answer.utf8) => OutcomeOK(task.of, outcome)
  BY <1>2, <1>4, <1>5, <1>6 DEF OutcomeOK
<1>8. CacheIsEnabled /\ Storable(fetch.answer) => EntryOK(key, entry)
  BY <1>1, <1>3, <1>4 DEF EntryOK, Storable
<1> QED
  BY <1>7, <1>8 DEF entry, outcome, key

LEMMA BodyEndsKeeps ==
  ASSUME ResourcesInv, NEW t \in PageTasks, BodyEnds(t)
  PROVE  ResourcesInv'
<1> DEFINE task == tasks[t]
           fetch == task.fetch
           request == fetch.request
           entry == Entry(fetch)
           source == IF CacheIsEnabled THEN "Network" ELSE "Disabled"
<1>1. fetch.phase = "body" /\ fetch.phase \in {"asked", "body"} /\ fetch.read = Len(fetch.answer.chunks)
  BY DEF BodyEnds
<1>2. TasksOK /\ KeptOK /\ TalliesOK /\ CountsOK
  BY DEF ResourcesInv
<1>3. CASE RequestFails(t, task, request) /\ UNCHANGED kept
  BY <1>1, <1>3, FetchEnds
<1>4. CASE /\ IsSuccess(fetch.answer.status) /\ MimeAllowed(request.kind, Classified(fetch))
           /\ RequestEnds(t, task, request, entry, source)
           /\ kept' = IF CacheIsEnabled /\ Storable(fetch.answer) THEN Insert(kept, RequestKey(request), entry) ELSE kept
  <2>1. /\ task.step = "busy" /\ FetchOK(task) /\ ReadyFor(task, request) /\ request.kind \in Kinds
        /\ ValidRequest(request)
    BY <1>1, <1>2, UnderWay
  <2>2. source # "Kept" /\ source \in Sources
    BY DEF Sources
  <2>3. task.of \in {"page", "textBatch", "bytesBatch"}
    BY <2>1 DEF ReadyFor, LoadOK, PlanOK
  <2> HIDE DEF source
  <2>4. /\ (IsTextKind(request.kind) => entry.answer.utf8) => OutcomeOK(task.of, Outcome(request, <<entry>>, source))
        /\ CacheIsEnabled /\ Storable(fetch.answer) => EntryOK(RequestKey(request), entry)
    BY <1>1, <1>4, <2>1, <2>2, <2>3, EntryIsFine
  <2> HIDE DEF entry
  <2>5. TasksOK' /\ TalliesOK' /\ CountsOK'
    BY <1>2, <1>4, <2>1, <2>2, <2>4, AnswerKeeps
  <2>6. KeptOK'
    <3>1. CASE CacheIsEnabled /\ Storable(fetch.answer)
      <4> DEFINE key == RequestKey(request)
      <4>1. kept' = Insert(kept, key, entry) /\ EntryOK(key, entry)
        BY <1>4, <2>4, <3>1
      <4> HIDE DEF key
      <4>2. \A k \in DOMAIN kept' : (k = key /\ kept'[k] = entry) \/ (k \in DOMAIN kept /\ kept'[k] = kept[k])
        BY <4>1 DEF Insert
      <4> QED
        BY <1>2, <4>1, <4>2 DEF KeptOK, EntryOK
    <3>2. CASE ~(CacheIsEnabled /\ Storable(fetch.answer))
      BY <1>2, <1>4, <3>2 DEF KeptOK, EntryOK
    <3> QED
      BY <3>1, <3>2
  <2> QED
    BY <2>5, <2>6 DEF ResourcesInv
<1> QED
  BY <1>3, <1>4 DEF BodyEnds

LEMMA NothingHasBegun ==
  ASSUME ResourcesInit
  PROVE  ResourcesInv
<1>1. tasks = [t \in PageTasks |-> IdleTask] /\ kept = <<>> /\ tallies = [begun |-> 0, summary |-> NoTallies]
  BY DEF ResourcesInit, NothingAsked
<1>2. TasksOK
  BY <1>1 DEF TasksOK, TaskOK
<1>3. KeptOK
  <2> DEFINE none == <<>>
  <2>1. kept = none /\ DOMAIN none = {}
    BY <1>1
  <2> HIDE DEF none
  <2> QED
    BY <2>1 DEF KeptOK
<1>4. TalliesOK
  BY <1>1, NoTalliesOK DEF TalliesOK
<1>5. CountsOK
  BY <1>1 DEF IdleTask, Counted, CountsOK
<1> QED
  BY <1>2, <1>3, <1>4, <1>5 DEF ResourcesInv

LEMMA EntryGoesKeeps ==
  ASSUME ResourcesInv, EntryGoes
  PROVE  ResourcesInv'
<1>1. PICK key \in DOMAIN kept : kept' = [k \in DOMAIN kept \ {key} |-> kept[k]]
  BY DEF EntryGoes
<1>2. \A k \in DOMAIN kept' : k \in DOMAIN kept /\ kept'[k] = kept[k]
  BY <1>1
<1>3. KeptOK'
  BY <1>2 DEF ResourcesInv, KeptOK, EntryOK
<1>4. UNCHANGED <<tasks, tallies>>
  BY DEF EntryGoes
<1>5. TasksOK' /\ TalliesOK' /\ CountsOK'
  BY <1>4 DEF ResourcesInv, TasksOK, TalliesOK, CountsOK
<1> QED
  BY <1>3, <1>5 DEF ResourcesInv

(* At every time each load has of what it asks for the outcomes, the       *)
(* request under way and those to come, in their order; a fetch is within  *)
(* its limits; what is kept may be served; of its images a page has as     *)
(* many decoded or failed as were concluded; and a page that is alone is   *)
(* the one the summary counts (resources.rs, images.rs, fetch lib.rs).     *)
THEOREM ResourcesInvariance == ResourcesSpec => []ResourcesInv
<1>1. ResourcesInit => ResourcesInv
  BY NothingHasBegun
<1>2. ResourcesInv /\ [ResourcesNext]_resourceVars => ResourcesInv'
  <2> SUFFICES ASSUME ResourcesInv, [ResourcesNext]_resourceVars
               PROVE  ResourcesInv'
    OBVIOUS
  <2>1. ASSUME NEW t \in PageTasks, LoadBegins(t) \/ BatchBegins(t)
        PROVE  ResourcesInv'
    BY <2>1, LoadBeginsKeeps
  <2>2. ASSUME NEW t \in PageTasks, RequestBegins(t)
        PROVE  ResourcesInv'
    BY <2>2, RequestBeginsKeeps
  <2>3. ASSUME NEW t \in PageTasks, AnswerComes(t)
        PROVE  ResourcesInv'
    BY <2>3, AnswerComesKeeps
  <2>4. ASSUME NEW t \in PageTasks, FetchBreaks(t)
        PROVE  ResourcesInv'
    BY <2>4, FetchEnds DEF FetchBreaks
  <2>5. ASSUME NEW t \in PageTasks, ChunkComes(t)
        PROVE  ResourcesInv'
    BY <2>5, ChunkComesKeeps
  <2>6. ASSUME NEW t \in PageTasks, BodyEnds(t)
        PROVE  ResourcesInv'
    BY <2>6, BodyEndsKeeps
  <2>7. CASE EntryGoes
    BY <2>7, EntryGoesKeeps
  <2>8. CASE UNCHANGED resourceVars
    BY <2>8 DEF resourceVars, ResourcesInv, TasksOK, KeptOK, EntryOK, TalliesOK, CountsOK
  <2> QED
    BY <2>1, <2>2, <2>3, <2>4, <2>5, <2>6, <2>7, <2>8 DEF ResourcesNext
<1> QED
  BY <1>1, <1>2, PTL DEF ResourcesSpec

-----------------------------------------------------------------------------
(* What the invariant says                                                 *)

\* What was asked, is asked and will be asked is what the load asks for.
LEMMA RequestsAreAll ==
  ASSUME NEW task, BegunOK(task), task.step # "failed"
  PROVE  RequestsOf(task) = AllOf(task)
<1> DEFINE all == AllOf(task)
           n == Len(task.outcomes)
           m == Len(task.todo)
           asked == [i \in DOMAIN task.outcomes |-> task.outcomes[i].request]
           under == IF task.fetch = NoFetch THEN <<>> ELSE <<task.fetch.request>>
           u == IF task.fetch = NoFetch THEN 0 ELSE 1
           todo == task.todo
           first == asked \o under
           joined == first \o todo
<1>1. /\ PlanOK(task) /\ IsList(task.outcomes) /\ IsList(todo)
      /\ IF task.fetch = NoFetch THEN Settled(all, task.outcomes, todo)
         ELSE Awaiting(all, task.outcomes, task.fetch.request, todo)
  BY DEF BegunOK, LoadOK
<1>2. n \in Nat /\ m \in Nat /\ DOMAIN task.outcomes = 1 .. n
  BY <1>1, ListFacts
<1>3. IsList(all) /\ Len(all) \in Nat
  BY <1>1, AllOfFacts
<1>4. RequestsOf(task) = joined
  BY DEF RequestsOf
<1>5. IsList(asked) /\ Len(asked) = n /\ \A i \in 1 .. n : asked[i] = task.outcomes[i].request
  <2>1. \A i \in 1 .. n : asked[i] = task.outcomes[i].request
    BY <1>2
  <2>2. asked = [i \in 1 .. n |-> asked[i]]
    BY <1>2
  <2> HIDE DEF asked, n
  <2>3. IsList(asked) /\ Len(asked) = n
    BY <1>2, <2>2, FunctionList
  <2> QED
    BY <2>1, <2>3
<1>6. /\ IsList(under) /\ Len(under) = u /\ u \in 0 .. 1
      /\ u = 1 => under[1] = task.fetch.request
  <2>1. CASE task.fetch = NoFetch
    BY <2>1, EmptyList, ListFacts
  <2>2. CASE task.fetch # NoFetch
    <3>1. under = <<task.fetch.request>> /\ u = 1
      BY <2>2
    <3> HIDE DEF under, u
    <3> QED
      BY <3>1, OneItemList
  <2> QED
    BY <2>1, <2>2
<1>7. /\ Len(all) = n + u + m
      /\ \A i \in 1 .. n : task.outcomes[i].request = all[i]
      /\ u = 1 => task.fetch.request = all[n + 1]
      /\ \A i \in 1 .. m : todo[i] = all[n + u + i]
  <2>1. CASE task.fetch = NoFetch
    <3>1. u = 0 /\ Settled(all, task.outcomes, todo)
      BY <1>1, <2>1
    <3> HIDE DEF all, u, n, m
    <3>2. n + u + m = n + m /\ \A i \in 1 .. m : n + u + i = n + i
      BY <1>2, <3>1
    <3>3. /\ Len(all) = n + m
          /\ \A i \in 1 .. n : task.outcomes[i].request = all[i]
          /\ \A i \in 1 .. m : todo[i] = all[n + i]
      BY <3>1 DEF Settled, n, m
    <3> QED
      BY <3>1, <3>2, <3>3
  <2>2. CASE task.fetch # NoFetch
    <3>1. u = 1 /\ Awaiting(all, task.outcomes, task.fetch.request, todo)
      BY <1>1, <2>2
    <3> HIDE DEF all, u
    <3> QED
      BY <1>2, <3>1 DEF Awaiting
  <2> QED
    BY <2>1, <2>2
<1> HIDE DEF all, asked, under, u, todo
<1>8. /\ IsList(first) /\ Len(first) = n + u
      /\ \A i \in 1 .. n : first[i] = asked[i]
      /\ \A i \in 1 .. u : first[n + i] = under[i]
  BY <1>5, <1>6, JoinedLists
<1> HIDE DEF first
<1>9. /\ IsList(joined) /\ Len(joined) = n + u + m
      /\ \A i \in 1 .. n + u : joined[i] = first[i]
      /\ \A i \in 1 .. m : joined[n + u + i] = todo[i]
  <2>1. IsList(first) /\ IsList(todo)
    BY <1>1, <1>8
  <2>2. /\ IsList(first \o todo) /\ Len(first \o todo) = Len(first) + Len(todo)
        /\ \A i \in 1 .. Len(first) : (first \o todo)[i] = first[i]
        /\ \A i \in 1 .. Len(todo) : (first \o todo)[Len(first) + i] = todo[i]
    BY <2>1, JoinedLists
  <2> QED
    BY <1>8, <2>2 DEF todo
<1> HIDE DEF joined, n, m
<1>10. ASSUME NEW i \in 1 .. n + u + m
       PROVE  joined[i] = all[i]
  <2>1. CASE i <= n
    BY <1>2, <1>5, <1>6, <1>7, <1>8, <1>9, <2>1
  <2>2. CASE u = 1 /\ i = n + 1
    <3> DEFINE one == 1
    <3>1. one \in 1 .. u /\ i = n + one /\ i \in 1 .. n + u /\ under[one] = task.fetch.request
      BY <1>2, <1>6, <2>2
    <3> HIDE DEF one
    <3>2. first[i] = under[one] /\ joined[i] = first[i]
      BY <1>8, <1>9, <3>1
    <3> QED
      BY <1>7, <2>2, <3>1, <3>2
  <2>3. CASE i > n + u
    <3> DEFINE k == i - (n + u)
    <3>1. k \in 1 .. m /\ i = n + u + k
      BY <1>2, <1>6, <2>3
    <3> HIDE DEF k
    <3> QED
      BY <1>7, <1>9, <3>1
  <2>4. i <= n \/ (u = 1 /\ i = n + 1) \/ i > n + u
    BY <1>2, <1>6
  <2> QED
    BY <2>1, <2>2, <2>3, <2>4
<1>11. joined = all
  BY <1>3, <1>7, <1>9, <1>10, SameLists
<1> QED
  BY <1>4, <1>11 DEF all

\* A load that is over has all its outcomes.
LEMMA DoneHasAll ==
  ASSUME NEW task, BegunOK(task), task.step = "done", task.of = "page"
  PROVE  LET requests == RequestsOf(task) IN
         /\ requests = PageRequests(task.plan) /\ task.plan \in PagePlans
         /\ {i \in DOMAIN requests : ValidRequest(requests[i])} = Valids(task.outcomes)
         /\ Cardinality(task.images.decoded) + task.images.failed = task.images.discovered
<1> DEFINE requests == RequestsOf(task)
           n == Len(task.outcomes)
           plan == task.plan
           parts == Len(plan.parts)
           images == Len(ImageRequests(plan))
           addresses == Len(ImageAddresses(plan))
<1>1. /\ plan \in PagePlans /\ n > 0 /\ Len(task.todo) = 0 /\ ImagesOK(task) /\ IsList(task.outcomes)
      /\ Settled(AllOf(task), task.outcomes, task.todo)
  BY DEF BegunOK, LoadOK, PlanOK
<1>2. n \in Nat
  BY <1>1, ListFacts
<1>3. requests = AllOf(task)
  BY RequestsAreAll
<1>4. AllOf(task) = PageRequests(plan)
  BY <1>1, <1>2 DEF AllOf
<1>5. /\ IsList(PageRequests(plan)) /\ Len(PageRequests(plan)) = 1 + parts + images
      /\ parts \in Nat /\ images \in Nat
  BY <1>1, PageRequestsFacts
<1> HIDE DEF requests
<1>6. Len(requests) = n /\ \A i \in 1 .. n : task.outcomes[i].request = requests[i]
  BY <1>1, <1>2, <1>3 DEF Settled
<1>7. DOMAIN requests = 1 .. n
  BY <1>3, <1>4, <1>5, <1>6, ListFacts
<1>8. {i \in DOMAIN requests : ValidRequest(requests[i])} = Valids(task.outcomes)
  BY <1>6, <1>7 DEF Valids
<1>9. n = 1 + parts + images
  BY <1>3, <1>4, <1>5, <1>6
<1>10. ImagesConcluded(task) = images
  <2>1. ImagesConcluded(task) = IF n > 1 + parts THEN n - 1 - parts ELSE 0
    BY DEF ImagesConcluded
  <2> HIDE DEF n, parts, images
  <2> QED
    BY <1>5, <1>9, <2>1
<1>11. addresses \in Nat
  BY <1>1, AddressesFacts
<1>12. /\ task.images.discovered = addresses
       /\ Cardinality(task.images.decoded) + task.images.failed = ImagesConcluded(task) + addresses - images
  BY <1>1 DEF ImagesOK
<1>13. Cardinality(task.images.decoded) + task.images.failed = task.images.discovered
  <2> HIDE DEF addresses, images
  <2> QED
    BY <1>5, <1>10, <1>11, <1>12
<1> QED
  BY <1>1, <1>3, <1>4, <1>8, <1>13 DEF requests

\* A batch is what was given, by priority, as much of it as is allowed.
LEMMA BatchHasAll ==
  ASSUME NEW task, BegunOK(task), task.of # "page"
  PROVE  LET requests == RequestsOf(task) IN
         /\ IsInjective([i \in DOMAIN requests |-> Urgency(requests[i])])
         /\ \A i, k \in DOMAIN requests : i < k => requests[i].priority <= requests[k].priority
         /\ Len(requests) = Min({MaxBatchItems, Cardinality({Urgency(r) : r \in ToSet(task.plan)})})
<1> DEFINE requests == RequestsOf(task)
<1>1. task.step # "failed" /\ task.plan \in Batches
  BY DEF BegunOK, LoadOK, PlanOK
<1>2. requests = BatchOrder(task.plan)
  BY <1>1, RequestsAreAll DEF AllOf
<1>3. AreRequests(task.plan)
  BY <1>1, ResourcesAssumption
<1> HIDE DEF requests
<1>4. /\ IsList(requests)
      /\ Len(requests) = Min({MaxBatchItems, Cardinality(UrgenciesOf(task.plan))})
      /\ \A i, k \in 1 .. Len(requests) : Urgency(requests[i]) = Urgency(requests[k]) => i = k
      /\ \A i, k \in 1 .. Len(requests) : i < k => requests[i].priority <= requests[k].priority
  BY <1>2, <1>3, BatchOrderFacts
<1>5. DOMAIN requests = 1 .. Len(requests)
  BY <1>4, ListFacts
<1>6. IsInjective([i \in DOMAIN requests |-> Urgency(requests[i])])
  BY <1>4, <1>5 DEF IsInjective
<1> QED
  BY <1>4, <1>5, <1>6 DEF requests, UrgenciesOf

LEMMA InvariantIsSound ==
  ASSUME ResourcesInv
  PROVE  ResourceLoadsAreSound
<1>1. TasksOK /\ KeptOK /\ TalliesOK /\ CountsOK
  BY DEF ResourcesInv
<1>2. /\ IdleTask.of = "page" /\ IdleTask.step = "idle" /\ IdleTask.fetch = NoFetch /\ ToSet(IdleTask.outcomes) = {}
  BY DEF IdleTask, ToSet
<1>3. FetchesStayInTheirLimits
  BY <1>1, <1>2 DEF FetchesStayInTheirLimits, TasksOK, TaskOK, BegunOK, FetchOK
<1>4. OutcomesAreWhatWasAsked
  <2>1. ASSUME NEW t \in PageTasks, NEW outcome \in ToSet(tasks[t].outcomes)
        PROVE  OutcomeOK(tasks[t].of, outcome)
    BY <1>1, <1>2, ListFacts DEF TasksOK, TaskOK, BegunOK, LoadOK, ToSet
  <2> QED
    BY <2>1 DEF OutcomesAreWhatWasAsked, OutcomeOK
<1>5. KeptMayBeKept
  BY <1>1 DEF KeptMayBeKept, KeptOK, EntryOK
<1>6. EachRequestHasItsOutcome
  <2> SUFFICES ASSUME NEW t \in PageTasks
               PROVE  LET task == tasks[t]
                          requests == RequestsOf(task) IN
                      /\ task.of = "page" /\ task.step = "done" =>
                           requests = <<task.plan.document>> \o task.plan.parts \o ImageRequests(task.plan)
                      /\ task.of /= "page" =>
                           /\ IsInjective([i \in DOMAIN requests |-> Urgency(requests[i])])
                           /\ \A i, k \in DOMAIN requests : i < k => requests[i].priority <= requests[k].priority
                           /\ Len(requests) = Min({MaxBatchItems, Cardinality({Urgency(r) : r \in ToSet(task.plan)})})
                      /\ task.of = "page" /\ task.step = "done" =>
                           Cardinality(task.images.decoded) + task.images.failed = task.images.discovered
    BY DEF EachRequestHasItsOutcome
  <2>1. TaskOK(tasks[t])
    BY <1>1 DEF TasksOK
  <2>2. CASE tasks[t] = IdleTask
    BY <1>2, <2>2
  <2>3. CASE BegunOK(tasks[t]) /\ tasks[t].of # "page"
    BY <2>3, BatchHasAll
  <2>4. CASE BegunOK(tasks[t]) /\ tasks[t].of = "page"
    BY <2>4, DoneHasAll DEF PageRequests
  <2> QED
    BY <2>1, <2>2, <2>3, <2>4 DEF TaskOK
<1>7. SummaryAddsUp(tallies.summary)
  BY <1>1 DEF TalliesOK, SummaryOK
<1>8. PagesAreCounted
  BY <1>1, <1>2, DoneHasAll DEF PagesAreCounted, TasksOK, TaskOK, CountsOK, Counted
<1> QED
  BY <1>3, <1>4, <1>5, <1>6, <1>7, <1>8 DEF ResourceLoadsAreSound

(* Whatever the network says and whichever loads interleave: redirects are *)
(* followed from address to address and no more of them than the client    *)
(* allows, no body is longer than its request's limit, a page has only     *)
(* answers of the kind it asked for, each request has one outcome in its   *)
(* order, each image of a page is decoded or failed, and the summary adds  *)
(* up and counts each request of a page that was loaded alone              *)
(* (resources.rs, http.rs, images.rs, fetch lib.rs).                       *)
THEOREM ResourcesAreSound == ResourcesSpec => []ResourceLoadsAreSound
<1>1. ResourcesInv => ResourceLoadsAreSound
  BY InvariantIsSound
<1> QED
  BY <1>1, ResourcesInvariance, PTL

=============================================================================
