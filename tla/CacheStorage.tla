---------------------------- MODULE CacheStorage ----------------------------
(***************************************************************************)
(* The Cache API and service worker registrations                          *)
(* (crates/syljs/src/cache_api.rs, ResearchCacheStorage and                *)
(* ResearchServiceWorkerHost).                                             *)
(*                                                                         *)
(* Only GET requests are stored, so a request is its URL.  A URL is a      *)
(* sequence of path segments and a scope a prefix of URLs.  The response   *)
(* stored under a URL is known by the revision put gave the entry.         *)
(***************************************************************************)
EXTENDS Naturals, Sequences, FiniteSets, FiniteSetsExt, SequencesExt

CONSTANTS
  CacheNames,     \* names of caches, all of them valid
  Urls,           \* URLs, as a sequence in the order of their keys
  Scopes,         \* scopes of registrations
  MaxEntries,     \* entries of one cache (4096 in the code)
  MaxRevision,    \* bound: calls of put
  MaxAdded,       \* bound: URLs in one call of addAll
  MaxPrecache,    \* bound: URLs one script puts into a cache when it is registered
  MaxRegistered   \* bound: registrations with an id of their own

ASSUME CacheStorageAssumption ==
  /\ Urls \in Seq(Seq(STRING)) /\ Scopes \subseteq Seq(STRING)
  /\ MaxEntries \in Nat \ {0} /\ MaxRevision \in Nat
  /\ MaxAdded \in Nat /\ MaxPrecache \in Nat /\ MaxRegistered \in Nat

VARIABLES
  caches,         \* the open caches: for each the revision of each URL in it
  revision,       \* the storage's revision, counted up by put
  registrations,  \* the registrations, by scope
  nextRegistration

storageVars == <<caches, revision, registrations, nextRegistration>>

UrlSet == {Urls[i] : i \in DOMAIN Urls}

(* What analyze_service_worker_script finds in a script. *)
ScriptAnalysis == [claims: BOOLEAN, fetchListener: BOOLEAN, cacheFirst: BOOLEAN]
Registration == [id: Nat, analysis: ScriptAnalysis]

(* The keys of a BTreeMap: the first of them in the order of URLs. *)
FirstKey(entries) ==
  Urls[Min({i \in DOMAIN Urls : Urls[i] \in DOMAIN entries})]

WithoutKey(entries, url) == [u \in DOMAIN entries \ {url} |-> entries[u]]
WithKey(entries, url, rev) == [u \in DOMAIN entries \cup {url} |->
                                IF u = url THEN rev ELSE entries[u]]

EntriesOf(cs, name) == IF name \in DOMAIN cs THEN cs[name] ELSE <<>>

(* Mutant of PutEntry: the entry is put first, and then room is made. *)
EvictAfterPut(entries, url, rev) ==
  LET put == WithKey(entries, url, rev) IN
  IF Cardinality(DOMAIN put) > MaxEntries THEN WithoutKey(put, FirstKey(put)) ELSE put

(* A full cache gives up its first key, not its oldest, for a new one. *)
PutEntry(entries, url, rev) ==
  WithKey(IF Cardinality(DOMAIN entries) >= MaxEntries /\ url \notin DOMAIN entries
          THEN WithoutKey(entries, FirstKey(entries)) ELSE entries, url, rev)

(* entry(name).or_default() *)
Opened(cs, name) == [n \in DOMAIN cs \cup {name} |-> EntriesOf(cs, n)]

(* The puts of addAll or of a precache, in order. *)
PutAll(cs, name, urls, rev) ==
  LET put[i \in 0 .. Len(urls)] ==
        IF i = 0 THEN EntriesOf(cs, name) ELSE PutEntry(put[i - 1], urls[i], rev + i)
  IN  [Opened(cs, name) EXCEPT ![name] = put[Len(urls)]]

-----------------------------------------------------------------------------
StorageInit ==
  /\ caches = <<>> /\ revision = 0
  /\ registrations = <<>> /\ nextRegistration = 1

OpenCache(name) ==
  /\ caches' = Opened(caches, name)
  /\ UNCHANGED <<revision, registrations, nextRegistration>>

DeleteCache(name) ==
  /\ name \in DOMAIN caches
  /\ caches' = [n \in DOMAIN caches \ {name} |-> caches[n]]
  /\ UNCHANGED <<revision, registrations, nextRegistration>>

(* cache.put, cache.add and cache.addAll open the cache again if it was    *)
(* deleted meanwhile.  addAll stops at the first request that is not a     *)
(* GET: what came before it stays, so its effect is that of a prefix.      *)
AddAll(name, urls) ==
  /\ urls # <<>>
  /\ revision + Len(urls) <= MaxRevision
  /\ caches' = PutAll(caches, name, urls, revision)
  /\ revision' = revision + Len(urls)
  /\ UNCHANGED <<registrations, nextRegistration>>

DeleteEntry(name, url) ==
  /\ url \in DOMAIN EntriesOf(caches, name)
  /\ caches' = [caches EXCEPT ![name] = WithoutKey(@, url)]
  /\ UNCHANGED <<revision, registrations, nextRegistration>>

(* A scope that is registered keeps its id. *)
IdFor(scope) ==
  IF scope \in DOMAIN registrations THEN registrations[scope].id ELSE nextRegistration

(* register(script, {scope}): the script is read for what it does, its     *)
(* precache list stored, and the scope registered, active at once.         *)
(* registration.update() is the same for a scope that is registered, with  *)
(* what its script is by now.                                              *)
RegisterServiceWorker(scope, analysis, name, urls) ==
  /\ revision + Len(urls) <= MaxRevision
  /\ scope \in DOMAIN registrations \/ nextRegistration <= MaxRegistered
  /\ caches' = PutAll(caches, name, urls, revision)
  /\ revision' = revision + Len(urls)
  /\ registrations' = [s \in DOMAIN registrations \cup {scope} |->
       IF s = scope THEN [id |-> IdFor(scope), analysis |-> analysis] ELSE registrations[s]]
  /\ nextRegistration' = IF IdFor(scope) = nextRegistration THEN nextRegistration + 1
                         ELSE nextRegistration

UnregisterScope(scope) ==
  /\ scope \in DOMAIN registrations
  /\ registrations' = [s \in DOMAIN registrations \ {scope} |-> registrations[s]]
  /\ UNCHANGED <<caches, revision, nextRegistration>>

Controls(analysis) == analysis.claims \/ analysis.fetchListener

(* Mutant of ControllerScopes: the scopes that control anything at all. *)
AnyControllerScopes(url) == {s \in DOMAIN registrations : Controls(registrations[s].analysis)}

ControllerScopes(url) ==
  {s \in DOMAIN registrations : Controls(registrations[s].analysis) /\ IsPrefix(s, url)}

(* The registration with the longest of the scopes url lies in. *)
ControllerForUrl(url) ==
  CHOOSE s \in ControllerScopes(url) : \A t \in ControllerScopes(url) : Len(t) <= Len(s)

(* The caches match_any can answer from; it takes the first of them by name. *)
MatchAny(url) == {name \in DOMAIN caches : url \in DOMAIN caches[name]}

(* intercept_fetch answers from the caches, or leaves the request to the   *)
(* network.                                                                *)
Intercepts(url) ==
  /\ ControllerScopes(url) # {}
  /\ LET analysis == registrations[ControllerForUrl(url)].analysis IN
       analysis.fetchListener \/ analysis.cacheFirst
  /\ MatchAny(url) # {}

UrlLists(max) == UNION {[1 .. n -> UrlSet] : n \in 0 .. max}

StorageNext ==
  \/ \E name \in CacheNames :
       \/ OpenCache(name) \/ DeleteCache(name)
       \/ \E urls \in UrlLists(MaxAdded) : AddAll(name, urls)
       \/ \E url \in UrlSet : DeleteEntry(name, url)
       \/ \E scope \in Scopes, analysis \in ScriptAnalysis, urls \in UrlLists(MaxPrecache) :
            RegisterServiceWorker(scope, analysis, name, urls)
  \/ \E scope \in Scopes : UnregisterScope(scope)

StorageSpec == StorageInit /\ [][StorageNext]_storageVars

-----------------------------------------------------------------------------
(* A cache never holds more than it may, and what makes room for a new     *)
(* entry is never that entry: the response stored last is there when the   *)
(* promise of put, add or addAll resolves.                                 *)
PutIsKept ==
  [][/\ \A name \in DOMAIN caches' : Cardinality(DOMAIN caches'[name]) <= MaxEntries
     /\ revision' # revision =>
          \E name \in DOMAIN caches' : \E url \in DOMAIN caches'[name] :
            caches'[name][url] = revision']_storageVars

(* Two scopes never share an id, a scope keeps its id however often it is  *)
(* registered or updated, and an id is not given again after its scope was *)
(* unregistered.                                                           *)
IdsNameRegistrations ==
  /\ \A s, t \in DOMAIN registrations' :
       s # t => registrations'[s].id # registrations'[t].id
  /\ \A s \in DOMAIN registrations' :
       IF s \in DOMAIN registrations
       THEN registrations'[s].id = registrations[s].id
       ELSE registrations'[s].id >= nextRegistration

(* A request is intercepted as before unless the caches changed or a scope *)
(* above its URL was registered, updated or unregistered.                  *)
ScopesAreSeparate ==
  \A url \in UrlSet :
    Intercepts(url)' # Intercepts(url) /\ caches' = caches =>
      \E s \in DOMAIN registrations \cup DOMAIN registrations' :
        /\ IsPrefix(s, url)
        /\ ~ (/\ s \in DOMAIN registrations /\ s \in DOMAIN registrations'
              /\ registrations[s] = registrations'[s])

(* Type invariant; no cache has more entries than it may. *)
StorageTypeOK ==
  /\ \A s \in DOMAIN registrations : registrations[s] \in Registration /\ registrations[s].id < nextRegistration
  /\ \A name \in DOMAIN caches : Cardinality(DOMAIN caches[name]) <= MaxEntries /\ \A u \in DOMAIN caches[name] : caches[name][u] <= revision

(* A registration keeps its identity, and changes who answers a request    *)
(* only inside its scope.                                                  *)
RegistrationsAreSeparate == [][StorageTypeOK' /\ IdsNameRegistrations /\ ScopesAreSeparate]_storageVars
=============================================================================
