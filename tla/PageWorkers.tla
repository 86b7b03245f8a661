----------------------------- MODULE PageWorkers -----------------------------
(***************************************************************************)
(* The service workers and caches of one page load, as app/js keeps them   *)
(* beside those of SylJS (service_worker.rs): calls found in the text of   *)
(* the page's scripts, applied at the end of each script.  A host is       *)
(*                                                                         *)
(*   [registrations, caches, counts]                                       *)
(*                                                                         *)
(* scope -> [script, cache], cache name -> url -> what was put, and the    *)
(* summary of what was done.                                               *)
(***************************************************************************)
EXTENDS ScriptSource, FiniteSetsExt

CONSTANTS
  DocumentUrl,         \* of the page that is loaded
  WorkerSources,       \* texts a worker's script may turn out to have
  NamesWithSlashes,    \* cache name -> the name without them
  MaxWorkerEffects, MaxPrecacheUrls

(* The scripts of workers are lists of statements.                         *)
ASSUME WorkerAssumption ==
  WorkerSources \subseteq Seq(Statement) /\ MaxWorkerEffects \in Nat /\ MaxPrecacheUrls \in Nat

Scanned(source) == StripLineComments(source)
WorkerEffect(kind, args) == [kind |-> kind, args |-> args]
WorkerEffects(kind, found) == [i \in DOMAIN found |-> WorkerEffect(kind, found[i].args)]
AddedUrls(source) ==
  LET one == Calls(source, Path(<<"cache", "add">>), 1)
      all == Calls(source, Path(<<"cache", "addAll">>), 1) IN
  [i \in DOMAIN one |-> one[i].args[1]] \o FlattenSeq([i \in DOMAIN all |-> all[i].args])

(* A register called on window.navigator is found twice.                   *)
CaptureServiceWorkerEffects(text) ==
  LET source == Scanned(text)
      calls(kind, names) == WorkerEffects(kind, Calls(source, Path(names), 1))
      added == AddedUrls(source) IN
  calls("Register", <<"navigator", "serviceWorker", "register">>)
    \o calls("Register", <<"window", "navigator", "serviceWorker", "register">>)
    \o calls("CacheOpen", <<"caches", "open">>) \o calls("CacheDelete", <<"caches", "delete">>)
    \o [i \in DOMAIN added |-> WorkerEffect("CacheAdd", <<added[i]>>)]
    \o calls("CacheMatch", <<"caches", "match">>)

(* analyze_service_worker_script, of SylJS: the same scan of the worker.   *)
CacheNamed(source) ==
  LET opened == Calls(Scanned(source), Path(<<"caches", "open">>), 1) IN IF opened = <<>> THEN "default" ELSE opened[1].args[1]
Distinct(list) == Picked(list, {i \in DOMAIN list : \A j \in 1 .. i - 1 : list[j] # list[i]})
PrecacheUrls(source) ==
  LET urls == Distinct(AddedUrls(Scanned(source))) IN SubSeq(urls, 1, Min({Len(urls), MaxPrecacheUrls}))

-----------------------------------------------------------------------------
Counters == {"effects", "registrations", "updates", "scriptFetches", "scriptFailures", "opens", "deletes", "adds",
             "matches", "hits", "misses", "precached", "precacheFailures", "warnings", "errors"}
NewWorkerHost ==
  [registrations |-> [s \in {} |-> <<>>], caches |-> [c \in {} |-> <<>>], counts |-> [c \in Counters |-> 0]]
Count(host, counter) == [host EXCEPT !.counts[counter] = @ + 1]

(* Slashes are taken out of a cache's name when it is opened or put to,    *)
(* not when it is deleted; the empty name is the default cache's.          *)
SanitizeCacheName(name) == IF name = "" THEN "default" ELSE IF name \in DOMAIN NamesWithSlashes THEN NamesWithSlashes[name] ELSE name
OpenCache(host, name) ==
  LET cache == SanitizeCacheName(name) IN
  IF cache \in DOMAIN host.caches THEN host ELSE [host EXCEPT !.caches = Insert(@, cache, [u \in {} |-> ""])]
PutResponse(host, name, url, body) ==
  [OpenCache(host, name) EXCEPT !.caches[SanitizeCacheName(name)] = Insert(@, url, body)]
MatchAny(host, url) == \E cache \in DOMAIN host.caches : url \in DOMAIN host.caches[cache]

UpToSlash(path) == SubSeq(path, 1, SelectLastInSeq(path, LAMBDA c : c = "/"))
InferScope(script) == [script EXCEPT !.path = UpToSlash(@)]

(* The scope a register asks for is the second of its literals, and any    *)
(* URL will do; the script then comes, as one of WorkerSources, or fails,  *)
(* and so does each of the resources the worker wants in its cache, which  *)
(* keeps those that came.                                                  *)
Precached(host, scope, cache, literal, comes) ==
  IF CanResolve(literal) /\ comes
  THEN Count(PutResponse(host, cache, Join(scope, literal), "fetched"), "precached")
  ELSE Count(host, "precacheFailures")
Registered(host, script, scope, source, missing) ==
  LET cache == CacheNamed(source)
      counted == Count(host, IF scope \in DOMAIN host.registrations THEN "updates" ELSE "registrations")
      opened == OpenCache([counted EXCEPT !.registrations = Insert(@, scope, [script |-> script, cache |-> cache])], cache)
      urls == PrecacheUrls(source)
      precached[i \in 0 .. Len(urls)] ==
        IF i = 0 THEN opened ELSE Precached(precached[i - 1], scope, cache, urls[i], urls[i] \notin missing) IN
  precached[Len(urls)]
Register(host, args) ==
  LET script == Join(DocumentUrl, args[1])
      scope == IF Len(args) > 1 /\ CanResolve(args[Len(args)]) THEN Join(DocumentUrl, args[Len(args)]) ELSE InferScope(script)
      asked == Count(host, "scriptFetches") IN
  IF ~CanResolve(args[1]) THEN {Count(host, "errors")}
  ELSE {Count(asked, "scriptFailures")}
         \cup UNION {{Registered(asked, script, scope, source, missing) : missing \in SUBSET ToSet(PrecacheUrls(source))} :
                      source \in WorkerSources}

CacheDelete(host, name) ==
  IF name \in DOMAIN host.caches
  THEN Count([host EXCEPT !.caches = [c \in DOMAIN @ \ {name} |-> @[c]]], "deletes") ELSE host
CacheAdd(host, literal) ==
  IF CanResolve(literal) THEN Count(PutResponse(host, "default", Join(DocumentUrl, literal), "synthetic"), "adds")
  ELSE Count(host, "errors")
CacheMatch(host, literal) ==
  LET asked == Count(host, "matches") IN
  IF ~CanResolve(literal) THEN Count(asked, "errors")
  ELSE Count(asked, IF MatchAny(host, Join(DocumentUrl, literal)) THEN "hits" ELSE "misses")

(* What may come of one effect: the hosts it can leave.                    *)
AppliedWorkerEffect(host, effect) ==
  LET counted == Count(host, "effects") IN
  CASE effect.kind = "Register" -> Register(counted, effect.args)
    [] effect.kind = "CacheOpen" -> {Count(OpenCache(counted, effect.args[1]), "opens")}
    [] effect.kind = "CacheDelete" -> {CacheDelete(counted, effect.args[1])}
    [] effect.kind = "CacheAdd" -> {CacheAdd(counted, effect.args[1])}
    [] effect.kind = "CacheMatch" -> {CacheMatch(counted, effect.args[1])}

(* All effects of one script, up to the limit, and a warning beyond it, or *)
(* where service workers are named and nothing is found.                   *)
AfterWorkerEffects(host, text) ==
  LET named == \E i \in DOMAIN text : Names(Scanned(text)[i].name, Path(<<"serviceWorker">>))
      warned(h, effects) ==
        IF Len(effects) > MaxWorkerEffects \/ (effects = <<>> /\ named) THEN Count(h, "warnings") ELSE h
      effects == CaptureServiceWorkerEffects(text)
      last == Min({Len(effects), MaxWorkerEffects})
      after[i \in 0 .. last] ==
        IF i = 0 THEN {warned(host, effects)} ELSE UNION {AppliedWorkerEffect(h, effects[i]) : h \in after[i - 1]} IN
  after[last]
=============================================================================
