---------------------------- MODULE ResourceLoads ----------------------------
(***************************************************************************)
(* The resources of pages: the scheduler all page loads share with its     *)
(* summary (app: browser/resources.rs), what is asked and what is believed *)
(* of an answer (browser/http.rs, syljs: http.rs), the client that follows *)
(* redirects and limits bodies (fetch: lib.rs), the images of a page       *)
(* (browser/images.rs).  A page load asks for one resource at a time; page *)
(* loads interleave wherever one waits for the network.  Of the cache      *)
(* there is what is kept under a key, which may be gone at any time: its   *)
(* own steps are those of HttpCache.                                       *)
(*                                                                         *)
(* An address is [scheme, path, extension].  An answer is [status,         *)
(* location, control, type, prefix, chunks, utf8, long]: where it leads,   *)
(* the directives of its Cache-Control, its Content-Type, what its body    *)
(* begins like, the sizes in which the body comes, whether that is text,   *)
(* and whether the headers are too long; location, control and type are    *)
(* <<>> when there is none.                                                *)
(***************************************************************************)
EXTENDS Integers, SequencesExt, FiniteSetsExt, Collections

CONSTANTS
  PageTasks,        \* page loads that may be under way at once
  Answers,          \* what the network may say: address -> answers
  PagePlans,        \* pages: [document, parts, images], requests and addresses
  Batches,          \* lists of requests asked for together
  MaxRedirects,     \* FetchConfig::max_redirects
  MaxBatchItems,    \* ResourceSchedulerPolicy::max_batch_items
  MaxImages,        \* MAX_IMAGES_PER_PAGE
  ImageLimit,       \* MAX_IMAGE_BYTES
  ScriptsAllowed,   \* ResourceSchedulerPolicy::allow_scripts
  CacheIsEnabled,   \* CachePolicy::enabled
  MaxLoadsBegun     \* bound on page loads and batches

VARIABLES
  tasks,            \* the page loads
  kept,             \* the cache: what is kept under each (kind, address)
  tallies           \* the scheduler's summary, and how many loads have begun

resourceVars == <<tasks, kept, tallies>>

-----------------------------------------------------------------------------
(* Requests.                                                               *)
KindOrder == [Document |-> 1, Stylesheet |-> 2, Image |-> 3, Font |-> 4, Script |-> 5]
Kinds == DOMAIN KindOrder
IsTextKind(kind) == kind \in {"Document", "Stylesheet", "Script"}
DefaultPriority(kind) == IF IsTextKind(kind) THEN 0 ELSE 2
Asks(kind, address, limit) ==
  [kind |-> kind, address |-> address, priority |-> DefaultPriority(kind), limit |-> limit]
IsFetchable(address) == address.scheme \in {"http", "https"}
ValidRequest(request) == request.limit > 0 /\ IsFetchable(request.address)
RequestKey(request) == <<request.kind, request.address>>
IsRequest(request) ==
  request.kind \in Kinds /\ request.priority \in Nat /\ request.limit \in Nat /\ request.address.path \in Nat
AreRequests(list) == list \in Seq(ToSet(list)) /\ \A request \in ToSet(list) : IsRequest(request)

ASSUME ResourcesAssumption ==
  /\ MaxRedirects \in Nat /\ MaxBatchItems \in Nat /\ MaxImages \in Nat /\ ImageLimit \in Nat
  /\ \A plan \in PagePlans :
       /\ IsRequest(plan.document) /\ plan.document.kind = "Document"
       /\ AreRequests(plan.parts) /\ \A part \in ToSet(plan.parts) : part.kind \notin {"Document", "Image"}
       /\ plan.images \in Seq(ToSet(plan.images))
       /\ \A a, b \in ToSet(plan.images) : a.path \in Nat /\ (a.path = b.path => a = b)
  /\ \A requests \in Batches : AreRequests(requests)

(* The first requests that differ in kind, address or priority, the most   *)
(* urgent first; a path is a number, in the order of the addresses.        *)
Urgency(request) == <<request.priority, KindOrder[request.kind], request.address.path>>
Precedes(a, b) == \E i \in 1 .. 3 : a[i] < b[i] /\ \A k \in 1 .. i - 1 : a[k] = b[k]
BatchOrder(requests) ==
  LET urgency == [i \in DOMAIN requests |-> Urgency(requests[i])]
      firsts == {i \in DOMAIN requests : \A k \in 1 .. i - 1 : urgency[k] /= urgency[i]}
      taken == {InOrder(firsts)[n] : n \in 1 .. Min({Cardinality(firsts), MaxBatchItems})}
      chosen == InOrderBy(taken, {pair \in taken \X taken : ~Precedes(urgency[pair[2]], urgency[pair[1]])}) IN
  [n \in DOMAIN chosen |-> requests[chosen[n]]]

-----------------------------------------------------------------------------
(* What an answer is taken for.                                            *)
ExtensionTypes ==
  [Document   |-> (".html" :> "text/html") @@ (".htm" :> "text/html") @@ (".xhtml" :> "application/xhtml+xml") @@ (".xml" :> "application/xml"),
   Stylesheet |-> (".css" :> "text/css"),
   Script     |-> (".js" :> "text/javascript") @@ (".mjs" :> "text/javascript") @@ (".json" :> "application/json"),
   Image      |-> (".png" :> "image/png") @@ (".jpg" :> "image/jpeg") @@ (".gif" :> "image/gif") @@ (".webp" :> "image/webp")
                    @@ (".svg" :> "image/svg+xml") @@ (".bmp" :> "image/bmp") @@ (".ico" :> "image/x-icon"),
   Font       |-> (".woff2" :> "font/woff2") @@ (".woff" :> "font/woff") @@ (".ttf" :> "font/ttf") @@ (".otf" :> "font/otf")]
PrefixTypes ==
  ("html" :> "text/html") @@ ("png" :> "image/png") @@ ("jpeg" :> "image/jpeg") @@ ("gif" :> "image/gif") @@ ("webp" :> "image/webp")
    @@ ("json" :> "application/json")
KindTypes == [Document |-> "text/html", Stylesheet |-> "text/css", Script |-> "text/javascript"]
ImageTypes == {PrefixTypes[prefix] : prefix \in {"png", "jpeg", "gif", "webp"}} \cup {ExtensionTypes.Image[e] : e \in {".svg", ".bmp", ".ico"}}
SniffedType(kind, address, prefix) ==
  CASE address.extension \in DOMAIN ExtensionTypes[kind] -> ExtensionTypes[kind][address.extension]
    [] prefix = "xml" -> IF kind = "Image" \/ address.extension = ".svg" THEN "image/svg+xml" ELSE "application/xml"
    [] prefix \in DOMAIN PrefixTypes -> PrefixTypes[prefix]
    [] kind \in DOMAIN KindTypes -> KindTypes[kind]
    [] OTHER -> "application/octet-stream"
MimeOf(kind, address, answer) ==
  IF answer.type /= <<>> THEN [essence |-> answer.type[1], sniffed |-> FALSE]
  ELSE [essence |-> SniffedType(kind, address, answer.prefix), sniffed |-> TRUE]
MimeAllowed(kind, mime) ==
  CASE kind = "Document" -> mime.essence \in {"text/html", "application/xhtml+xml", "text/plain", "application/xml"}
    [] kind = "Stylesheet" -> mime.essence = "text/css" \/ mime.sniffed
    [] kind = "Script" -> mime.essence \in {"text/javascript", "application/javascript"} \/ mime.sniffed
    [] kind = "Image" -> mime.essence \in ImageTypes \cup {"application/octet-stream"}
    [] OTHER -> mime.essence \in {ExtensionTypes.Font[e] : e \in DOMAIN ExtensionTypes.Font} \cup {"application/octet-stream"}

(* Directives are names; a max-age of nothing is "max-age=0".              *)
IsSuccess(status) == status \in 200 .. 299
CacheableStatuses == {200, 203, 204, 206, 300, 301, 308, 404, 405, 410, 414, 501}
Directives(answer) == IF answer.control = <<>> THEN {} ELSE answer.control[1]
Storable(answer) ==
  answer.status \in CacheableStatuses /\ Directives(answer) \cap {"no-store", "max-age=0"} = {}
RevalidateOnUse(answer) == Directives(answer) \cap {"no-cache", "must-revalidate"} /= {}

-----------------------------------------------------------------------------
(* The summary.                                                            *)
Sources == {"Kept", "Network", "Disabled"}   \* kept: in memory or on disk
NoTallies ==
  [total |-> 0, succeeded |-> 0, failed |-> 0, scriptsBlocked |-> 0, redirects |-> 0, cacheable |-> 0, notCacheable |-> 0,
   kinds |-> [k \in Kinds |-> 0], sources |-> [s \in Sources |-> 0]]
RecordSuccess(s, request, entry, source) ==
  LET lasts == entry.answer.control /= <<>> /\ "no-store" \notin Directives(entry.answer) IN
  [s EXCEPT !.total = @ + 1, !.succeeded = @ + 1, !.redirects = @ + Len(entry.chain), !.kinds[request.kind] = @ + 1,
            !.sources[source] = @ + 1, !.cacheable = IF lasts THEN @ + 1 ELSE @, !.notCacheable = IF lasts THEN @ ELSE @ + 1]
RecordFailure(s, request) ==
  [s EXCEPT !.total = @ + 1, !.failed = @ + 1, !.scriptsBlocked = IF request.kind = "Script" THEN @ + 1 ELSE @]

-----------------------------------------------------------------------------
(* A page load: what it still asks for, the request the network has, the   *)
(* outcomes so far, the images of the page, whether nothing else was asked *)
(* for since it began, and the summary it ends with.                       *)
NoFetch == [phase |-> "none"]
NoImages == [discovered |-> 0, decoded |-> {}, failed |-> 0]
IdleTask ==
  [step |-> "idle", of |-> "page", plan |-> <<>>, todo |-> <<>>, fetch |-> NoFetch, outcomes |-> <<>>, images |-> NoImages,
   alone |-> TRUE, counted |-> NoTallies]
IsBusy(task) == task.step = "busy"
Outcome(request, entry, source) == [request |-> request, entry |-> entry, source |-> source]
NotHad(request) == Outcome(request, <<>>, "none")
IsHad(outcome) == outcome.entry /= <<>>

(* Images are asked for in the order of their addresses, each once.        *)
ImageAddresses(plan) ==
  LET found == {a \in ToSet(plan.images) : IsFetchable(a)} IN
  InOrderBy(found, {pair \in found \X found : pair[1].path <= pair[2].path})
ImageRequests(plan) ==
  [i \in 1 .. Min({Len(ImageAddresses(plan)), MaxImages}) |-> Asks("Image", ImageAddresses(plan)[i], ImageLimit)]
SizeOfFirst(chunks, n) ==
  LET size[i \in 0 .. n] == IF i = 0 THEN 0 ELSE size[i - 1] + chunks[i]
  IN  size[n]
SizeOfBody(answer) == SizeOfFirst(answer.chunks, Len(answer.chunks))
Decodes(outcome) ==
  /\ IsHad(outcome)
  /\ SizeOfBody(outcome.entry[1].answer) > 0
  /\ outcome.entry[1].answer.prefix \in {"png", "jpeg", "gif", "webp"}
WithImage(images, outcome) ==
  IF outcome.request.kind /= "Image" THEN images
  ELSE IF Decodes(outcome) THEN [images EXCEPT !.decoded = @ \cup {outcome.request.address}] ELSE [images EXCEPT !.failed = @ + 1]

(* After an outcome: without its document a page load is over, and what is *)
(* left of it is what the document asks for.                               *)
After(task, outcome, summary) ==
  LET told == [task EXCEPT !.outcomes = Append(@, outcome), !.fetch = NoFetch,
                           !.images = IF task.of = "page" THEN WithImage(@, outcome) ELSE @]
      isPage == task.of = "page" /\ outcome.request.kind = "Document"
      found == ImageAddresses(task.plan)
      next == IF ~isPage THEN told
              ELSE [told EXCEPT !.todo = task.plan.parts \o ImageRequests(task.plan),
                                !.images = [NoImages EXCEPT !.discovered = Len(found), !.failed = Max({Len(found) - MaxImages, 0})]] IN
  IF isPage /\ ~IsHad(outcome) THEN [told EXCEPT !.step = "failed"]
  ELSE IF next.todo = <<>> THEN [next EXCEPT !.step = "done", !.counted = summary] ELSE next
Conclude(t, task, outcome, summary) ==
  /\ tasks' = [tasks EXCEPT ![t] = After(task, outcome, summary)]
  /\ tallies' = [tallies EXCEPT !.summary = summary]
RequestFails(t, task, request) == Conclude(t, task, NotHad(request), RecordFailure(tallies.summary, request))
(* Text that is not UTF-8 is refused after it was kept.                    *)
RequestEnds(t, task, request, entry, source) ==
  IF IsTextKind(request.kind) /\ ~entry.answer.utf8 THEN RequestFails(t, task, request)
  ELSE Conclude(t, task, Outcome(request, <<entry>>, source), RecordSuccess(tallies.summary, request, entry, source))

-----------------------------------------------------------------------------
(* Page loads and batches begin; the summary begins anew with a page.      *)
Begins(t, of, plan, todo, summary) ==
  /\ ~IsBusy(tasks[t]) /\ tallies.begun < MaxLoadsBegun
  /\ tasks' = [u \in PageTasks |->
                 IF u = t THEN [IdleTask EXCEPT !.step = IF todo = <<>> THEN "done" ELSE "busy", !.of = of, !.plan = plan, !.todo = todo,
                                                !.alone = \A o \in PageTasks : ~IsBusy(tasks[o])]
                 ELSE [tasks[u] EXCEPT !.alone = @ /\ ~IsBusy(tasks[u])]]
  /\ tallies' = [begun |-> tallies.begun + 1, summary |-> summary]
  /\ UNCHANGED kept
LoadBegins(t) == \E plan \in PagePlans : Begins(t, "page", plan, <<plan.document>>, NoTallies)
BatchBegins(t) ==
  \E requests \in Batches, of \in {"textBatch", "bytesBatch"} : Begins(t, of, requests, BatchOrder(requests), tallies.summary)

RefusedBefore(task, request) ==
  \/ task.of = "textBatch" /\ ~IsTextKind(request.kind)
  \/ task.of = "bytesBatch" /\ IsTextKind(request.kind)
  \/ request.kind = "Script" /\ ~ScriptsAllowed
IsHit(request) ==
  /\ CacheIsEnabled /\ RequestKey(request) \in DOMAIN kept
  /\ ~RevalidateOnUse(kept[RequestKey(request)].answer)
  /\ SizeOfBody(kept[RequestKey(request)].answer) <= request.limit
FetchOf(request) ==
  [phase |-> "asked", request |-> request, address |-> request.address, left |-> MaxRedirects, chain |-> <<>>,
   answer |-> <<>>, read |-> 0, got |-> 0]
RequestBegins(t) ==
  LET request == Head(tasks[t].todo)
      task == [tasks[t] EXCEPT !.todo = Tail(@)] IN
  /\ IsBusy(tasks[t]) /\ tasks[t].fetch = NoFetch
  /\ UNCHANGED kept
  /\ \/ ~ValidRequest(request) /\ Conclude(t, task, NotHad(request), tallies.summary)
     \/ ValidRequest(request) /\ RefusedBefore(task, request) /\ RequestFails(t, task, request)
     \/ /\ ValidRequest(request) /\ ~RefusedBefore(task, request) /\ IsHit(request)
        /\ RequestEnds(t, task, request, kept[RequestKey(request)], "Kept")
     \/ /\ ValidRequest(request) /\ ~RefusedBefore(task, request) /\ ~IsHit(request)
        /\ tasks' = [tasks EXCEPT ![t] = [task EXCEPT !.fetch = FetchOf(request)]]
        /\ UNCHANGED tallies

-----------------------------------------------------------------------------
(* The network: an answer may lead on, have a body, or not be accepted; it *)
(* may not come in time, and its body may break off.                       *)
IsRedirect(status) == status \in {301, 302, 303, 307, 308}
(* Mutant of FollowRedirect: redirects are not counted.                    *)
FollowUncounted(fetch, to) ==
  [fetch EXCEPT !.address = to, !.chain = Append(@, [from |-> fetch.address, to |-> to])]
FollowRedirect(fetch, to) ==
  [fetch EXCEPT !.address = to, !.left = @ - 1, !.chain = Append(@, [from |-> fetch.address, to |-> to])]
MayFollow(fetch, answer) == answer.location /= <<>> /\ IsFetchable(answer.location[1]) /\ fetch.left > 0
AnswerComes(t) ==
  LET fetch == tasks[t].fetch IN
  /\ fetch.phase = "asked"
  /\ UNCHANGED kept
  /\ \E answer \in Answers[fetch.address] :
       \/ /\ ~answer.long /\ IsRedirect(answer.status) /\ MayFollow(fetch, answer)
          /\ tasks' = [tasks EXCEPT ![t].fetch = FollowRedirect(fetch, answer.location[1])]
          /\ UNCHANGED tallies
       \/ /\ ~answer.long /\ ~IsRedirect(answer.status)
          /\ tasks' = [tasks EXCEPT ![t].fetch = [fetch EXCEPT !.phase = "body", !.answer = answer]]
          /\ UNCHANGED tallies
       \/ /\ answer.long \/ (IsRedirect(answer.status) /\ ~MayFollow(fetch, answer))
          /\ RequestFails(t, tasks[t], fetch.request)

FetchBreaks(t) ==
  /\ tasks[t].fetch.phase \in {"asked", "body"}
  /\ RequestFails(t, tasks[t], tasks[t].fetch.request)
  /\ UNCHANGED kept
ChunkComes(t) ==
  LET fetch == tasks[t].fetch
      got == fetch.got + fetch.answer.chunks[fetch.read + 1] IN
  /\ fetch.phase = "body" /\ fetch.read < Len(fetch.answer.chunks)
  /\ UNCHANGED kept
  /\ \/ /\ got > fetch.request.limit
        /\ RequestFails(t, tasks[t], fetch.request)
     \/ /\ got <= fetch.request.limit
        /\ tasks' = [tasks EXCEPT ![t].fetch = [fetch EXCEPT !.read = @ + 1, !.got = got]]
        /\ UNCHANGED tallies

Entry(fetch) == [answer |-> fetch.answer, address |-> fetch.address, chain |-> fetch.chain]
Classified(fetch) == MimeOf(fetch.request.kind, fetch.address, fetch.answer)
BodyEnds(t) ==
  LET fetch == tasks[t].fetch
      request == fetch.request
      accepted == IsSuccess(fetch.answer.status) /\ MimeAllowed(request.kind, Classified(fetch)) IN
  /\ fetch.phase = "body" /\ fetch.read = Len(fetch.answer.chunks)
  /\ \/ /\ ~accepted
        /\ RequestFails(t, tasks[t], request)
        /\ UNCHANGED kept
     \/ /\ accepted
        /\ RequestEnds(t, tasks[t], request, Entry(fetch), IF CacheIsEnabled THEN "Network" ELSE "Disabled")
        /\ kept' = IF CacheIsEnabled /\ Storable(fetch.answer) THEN Insert(kept, RequestKey(request), Entry(fetch)) ELSE kept
(* What is kept grows old or makes room.                                   *)
EntryGoes ==
  /\ \E key \in DOMAIN kept : kept' = [k \in DOMAIN kept \ {key} |-> kept[k]]
  /\ UNCHANGED <<tasks, tallies>>

NothingAsked == [begun |-> 0, summary |-> NoTallies]
ResourcesInit ==
  /\ tasks = [t \in PageTasks |-> IdleTask]
  /\ kept = <<>>
  /\ tallies = NothingAsked
ResourcesNext ==
  \/ \E t \in PageTasks :
       LoadBegins(t) \/ BatchBegins(t) \/ RequestBegins(t) \/ AnswerComes(t) \/ FetchBreaks(t) \/ ChunkComes(t) \/ BodyEnds(t)
  \/ EntryGoes
ResourcesSpec == ResourcesInit /\ [][ResourcesNext]_resourceVars

-----------------------------------------------------------------------------
(* What a page load may rely on.                                           *)
LeadsTo(from, chain, to) ==
  /\ Len(chain) <= MaxRedirects
  /\ \A i \in DOMAIN chain : chain[i].from = IF i = 1 THEN from ELSE chain[i - 1].to
  /\ to = IF chain = <<>> THEN from ELSE Last(chain).to
  /\ IsFetchable(to)
FetchesStayInTheirLimits ==
  \A t \in PageTasks : tasks[t].fetch /= NoFetch =>
    LET fetch == tasks[t].fetch IN
    /\ LeadsTo(fetch.request.address, fetch.chain, fetch.address)
    /\ fetch.left = MaxRedirects - Len(fetch.chain)
    /\ fetch.got <= fetch.request.limit
OutcomesAreWhatWasAsked ==
  \A t \in PageTasks : \A outcome \in ToSet(tasks[t].outcomes) : IsHad(outcome) =>
    LET entry == outcome.entry[1] IN
    /\ LeadsTo(outcome.request.address, entry.chain, entry.address)
    /\ IsSuccess(entry.answer.status) /\ SizeOfBody(entry.answer) <= outcome.request.limit
    /\ MimeAllowed(outcome.request.kind, MimeOf(outcome.request.kind, entry.address, entry.answer))
    /\ IsTextKind(outcome.request.kind) => entry.answer.utf8
    /\ outcome.source = "Kept" => ~RevalidateOnUse(entry.answer)
    /\ outcome.request.kind = "Script" => ScriptsAllowed
    /\ tasks[t].of /= "page" => (IsTextKind(outcome.request.kind) <=> tasks[t].of = "textBatch")
KeptMayBeKept == \A key \in DOMAIN kept : CacheIsEnabled /\ "no-store" \notin Directives(kept[key].answer)

(* Each request of a page or a batch has one outcome, in the order of the  *)
(* page, or of a batch by priority; each image is decoded or failed.       *)
RequestsOf(task) ==
  [i \in DOMAIN task.outcomes |-> task.outcomes[i].request] \o (IF task.fetch = NoFetch THEN <<>> ELSE <<task.fetch.request>>) \o task.todo
EachRequestHasItsOutcome ==
  \A t \in PageTasks :
    LET task == tasks[t]
        requests == RequestsOf(task) IN
    /\ task.of = "page" /\ task.step = "done" =>
         requests = <<task.plan.document>> \o task.plan.parts \o ImageRequests(task.plan)
    /\ task.of /= "page" =>
         /\ IsInjective([i \in DOMAIN requests |-> Urgency(requests[i])])
         /\ \A i, k \in DOMAIN requests : i < k => requests[i].priority <= requests[k].priority
         /\ Len(requests) = Min({MaxBatchItems, Cardinality({Urgency(r) : r \in ToSet(task.plan)})})
    /\ task.of = "page" /\ task.step = "done" => Cardinality(task.images.decoded) + task.images.failed = task.images.discovered

(* The summary adds up, and that of a page that was loaded alone counts    *)
(* every request of it that could be asked.                                *)
SummaryAddsUp(s) ==
  /\ s.total = s.succeeded + s.failed
  /\ s.kinds.Document + s.kinds.Stylesheet + s.kinds.Image + s.kinds.Font + s.kinds.Script = s.succeeded
  /\ s.sources.Kept + s.sources.Network + s.sources.Disabled = s.succeeded
  /\ s.cacheable + s.notCacheable = s.succeeded
PagesAreCounted ==
  \A t \in PageTasks :
    LET task == tasks[t]
        requests == RequestsOf(task) IN
    task.of = "page" /\ task.step = "done" /\ task.alone =>
      task.counted.total = Cardinality({i \in DOMAIN requests : ValidRequest(requests[i])})

(* Whatever the network says and whichever loads interleave: redirects are *)
(* followed from address to address and no more of them than the client    *)
(* allows, no body is longer than its request's limit, a page has only     *)
(* answers of the kind it asked for, each request has one outcome in its   *)
(* order, and the shared summary adds up (resources.rs, fetch lib.rs).     *)
ResourceLoadsAreSound ==
  /\ FetchesStayInTheirLimits /\ OutcomesAreWhatWasAsked /\ KeptMayBeKept /\ EachRequestHasItsOutcome
  /\ SummaryAddsUp(tallies.summary) /\ PagesAreCounted
=============================================================================
