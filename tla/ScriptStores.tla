---------------------------- MODULE ScriptStores ----------------------------
(***************************************************************************)
(* What the scripts of pages keep: the cookie jar of the profile, the      *)
(* local storage of an origin, the session storage and the script-made     *)
(* history of a page (app/js: web_platform.rs, cookies.rs, storage.rs,     *)
(* history_api.rs).  A page loads its own copy of the jar and of its       *)
(* origin's items when it opens, its scripts work on the copies, and the   *)
(* end of every script writes changed copies over the whole file: first    *)
(* cut, then filled.  Pages load in parallel, each at an await of its own. *)
(* URLs are records [scheme, host, port, path], host a sequence of labels  *)
(* and path one of characters; literals of scripts mean one each.          *)
(***************************************************************************)
EXTENDS ScriptSource, FiniteSetsExt, Naturals, TLC

CONSTANTS
  PageSlots,        \* page loads that may run at once
  Visits,           \* what may be loaded: [url, scripts]
  CookieLiterals,   \* literal -> [name, value, domain, path, secure, maxAge], name "" if it is no pair,
                    \* domain and maxAge <<>> when not given
  OversizedTexts,   \* names, keys, values and states beyond their limits
  MaxCookies, MaxItems, MaxHistoryEntries, MaxEffects, MaxApiFetches,
  MaxVisits, MaxTime \* bounds of the model

ASSUME StoresAssumption ==
  /\ MaxCookies \in Nat \ {0} /\ MaxHistoryEntries \in Nat \ {0} /\ MaxEffects \in Nat
  /\ \A visit \in Visits : visit.scripts \in Seq(Seq(Statement))

VARIABLES pages, cookieFile, itemFiles, clock, visits

storesVars == <<pages, cookieFile, itemFiles, clock, visits>>

(* A file is cut to nothing and then filled; a fill that comes after       *)
(* another writer's leaves its text, or that followed by the longer one's  *)
(* rest.  What does not parse is read as nothing.                          *)
Cut == [torn |-> TRUE, empty |-> TRUE]
Garbled == [torn |-> TRUE, empty |-> FALSE]
Whole(content) == [torn |-> FALSE, content |-> content]
Filled(file, content) == IF file = Cut THEN {Whole(content)} ELSE {Whole(content), Garbled}
Contents(file, fallback) == IF file.torn THEN fallback ELSE file.content

-----------------------------------------------------------------------------
(* URLs.                                                                   *)
SameOrigin(a, b) == a.scheme = b.scheme /\ a.host = b.host /\ a.port = b.port
OriginKey(url) == [scheme |-> url.scheme, host |-> url.host, port |-> url.port]

(* The file of an origin: every character but letters, digits, - _ and .   *)
(* becomes an underscore, so that a port can look like the end of a host.  *)
SafeFileComponent(origin) ==
  [scheme |-> origin.scheme,
   host |-> IF origin.port = "" THEN origin.host
            ELSE [origin.host EXCEPT ![Len(origin.host)] = @ \o "_" \o origin.port]]

AtOrBelow(host, domain) == host = domain \/ (Len(host) > Len(domain) /\ IsSuffix(domain, host))

DefaultCookiePath(url) ==
  LET slash == SelectLastInSeq(url.path, LAMBDA c : c = "/") IN
  IF slash <= 1 THEN <<"/">> ELSE SubSeq(url.path, 1, slash - 1)

-----------------------------------------------------------------------------
(* The cookie jar.  by, the host of the page that set a cookie, is the     *)
(* model's.                                                                *)
ParseCookieAssignment(url, literal) ==
  LET given == CookieLiterals[literal] IN
  [name |-> given.name, value |-> given.value, secure |-> given.secure, by |-> url.host,
   domain |-> IF given.domain = <<>> THEN url.host ELSE given.domain[1],
   path |-> IF given.path = <<>> THEN DefaultCookiePath(url) ELSE IF given.path[1] = "/" THEN given.path ELSE <<"/">>,
   expires |-> IF given.maxAge = <<>> THEN <<>> ELSE IF given.maxAge[1] <= 0 THEN <<0>> ELSE <<clock + given.maxAge[1]>>]

Expired(cookie) == cookie.expires /= <<>> /\ cookie.expires[1] <= clock
SameCookie(a, b) == a.name = b.name /\ a.domain = b.domain /\ a.path = b.path
WithoutCookie(jar, cookie) == Picked(jar, {i \in DOMAIN jar : ~SameCookie(jar[i], cookie)})

(* Mutant of DomainMatches: a page sets cookies for any domain.            *)
AnyDomain(url, cookie) == TRUE
DomainMatches(url, cookie) == cookie.domain = <<>> \/ AtOrBelow(url.host, cookie.domain)
NormalizeCookieDomain(url, cookie) == IF cookie.domain = <<>> THEN [cookie EXCEPT !.domain = url.host] ELSE cookie

(* A deletion needs no right to the domain, and is no error.               *)
SetFromScript(page, literal) ==
  LET cookie == ParseCookieAssignment(page.url, literal)
      normal == NormalizeCookieDomain(page.url, cookie)
      left == WithoutCookie(page.jar, cookie)
      others == WithoutCookie(page.jar, normal)
      room == IF Len(others) >= MaxCookies THEN Tail(others) ELSE others IN
  IF cookie.name = "" \/ cookie.name \in OversizedTexts \/ cookie.value \in OversizedTexts THEN page
  ELSE IF Expired(cookie) THEN [page EXCEPT !.jar = left, !.jarDirty = @ \/ left /= page.jar]
  ELSE IF ~DomainMatches(page.url, cookie) THEN page
  ELSE [page EXCEPT !.jar = Append(room, normal), !.jarDirty = TRUE]

CookieMatchesUrl(cookie, url) ==
  /\ ~Expired(cookie)
  /\ cookie.secure => url.scheme = "https"
  /\ AtOrBelow(url.host, cookie.domain)
  /\ IsPrefix(cookie.path, url.path)
DocumentCookie(page) == Picked(page.jar, {i \in DOMAIN page.jar : CookieMatchesUrl(page.jar[i], page.url)})

-----------------------------------------------------------------------------
(* Web Storage: key -> [value, by], by the origin that set it.             *)
NoItems == [k \in {} |-> <<>>]
SetItem(page, area, key, value) ==
  LET items == page[area]
      item == [value |-> value, by |-> OriginKey(page.url)] IN
  IF \/ key \in OversizedTexts \/ value \in OversizedTexts
     \/ key \notin DOMAIN items /\ Cardinality(DOMAIN items) >= MaxItems
  THEN page
  ELSE [page EXCEPT ![area] = Insert(items, key, item),
                    !.localDirty = @ \/ (area = "local" /\ (key \notin DOMAIN items \/ items[key].value /= value))]
RemoveItem(page, area, key) ==
  [page EXCEPT ![area] = [k \in DOMAIN @ \ {key} |-> @[k]],
               !.localDirty = @ \/ (area = "local" /\ key \in DOMAIN page[area])]
ClearArea(page, area) ==
  [page EXCEPT ![area] = NoItems, !.localDirty = @ \/ (area = "local" /\ DOMAIN page[area] /= {})]

-----------------------------------------------------------------------------
(* The History API of a page, and where its document says it is.           *)
HistoryEntry(url, state) == [url |-> url, state |-> state]
MayEnter(page, url, state) == SameOrigin(url, page.url) /\ state \notin OversizedTexts
PushState(page, url, state) ==
  LET entries == Append(SubSeq(page.entries, 1, page.current), HistoryEntry(url, state))
      kept == IF Len(entries) > MaxHistoryEntries THEN Tail(entries) ELSE entries IN
  IF ~MayEnter(page, url, state) THEN page
  ELSE [page EXCEPT !.entries = kept, !.current = Len(kept), !.url = url]
ReplaceEntry(page, url, state) ==
  IF ~MayEnter(page, url, state) THEN page ELSE [page EXCEPT !.entries[page.current] = HistoryEntry(url, state)]
ReplaceState(page, url, state) ==
  IF ~MayEnter(page, url, state) THEN page ELSE [ReplaceEntry(page, url, state) EXCEPT !.url = url]

-----------------------------------------------------------------------------
(* What a scan of a script yields, kind after kind and not in the order of *)
(* the text.  A name written from window is found under its short name     *)
(* too, and counts twice where the code scans for both.                    *)
Effect(kind, args) == [kind |-> kind, args |-> args]
Effects(kind, found) == [i \in DOMAIN found |-> Effect(kind, found[i].args)]
EffectsOfLiterals(kind, literals) == [i \in DOMAIN literals |-> Effect(kind, <<literals[i]>>)]
EffectsOfEach(kind, source, form, needles, least) ==
  FlattenSeq([i \in DOMAIN needles |-> Effects(kind, Found(source, Path(needles[i]), form, least))])
LateEffectsOfEach(kind, source, markers) ==
  FlattenSeq([i \in DOMAIN markers |-> EffectsOfLiterals(kind, LateAssignments(source, Path(markers[i])))])

StorageCalls(source, area, object) ==
  LET of(kind, method, least) == Effects(<<kind, area>>, Calls(source, Path(<<object, method>>), least)) IN
  of("StorageSet", "setItem", 2) \o of("StorageRemove", "removeItem", 1) \o of("StorageClear", "clear", 0)
Queried ==
  << <<"navigator", "userAgent">>, <<"navigator", "language">>, <<"window", "innerWidth">>, <<"window", "innerHeight">>,
     <<"document", "cookie">>, <<"location", "href">>, <<"new", "URL">>, <<"new", "URLSearchParams">> >>
CaptureWebPlatformEffects(source) ==
  LET clean == StripLineComments(source)
      calls(kind, needles, least) == EffectsOfEach(<<kind>>, clean, "call", needles, least)
      asked == Picked(Queried, {n \in DOMAIN Queried : \E i \in DOMAIN clean : Names(clean[i].name, Path(Queried[n]))}) IN
  calls("Fetch", << <<"fetch">> >>, 1)
    \o calls("Xhr", << <<"open">> >>, 2)
    \o StorageCalls(clean, "local", "localStorage")
    \o StorageCalls(clean, "session", "sessionStorage")
    \o LateEffectsOfEach(<<"CookieSet">>, clean, << <<"document", "cookie">>, <<"window", "document", "cookie">> >>)
    \o calls("HistoryPush", << <<"history", "pushState">> >>, 0)
    \o calls("HistoryReplace", << <<"history", "replaceState">> >>, 0)
    \o calls("TimerScheduled", << <<"setTimeout">>, <<"setInterval">>, <<"requestAnimationFrame">> >>, 0)
    \o calls("TimerCleared", << <<"clearTimeout">>, <<"clearInterval">>, <<"cancelAnimationFrame">> >>, 0)
    \o LateEffectsOfEach(<<"LocationNavigation">>, clean, << <<"location", "href">>, <<"window", "location", "href">> >>)
    \o calls("LocationNavigation", << <<"location", "assign">>, <<"window", "location", "assign">> >>, 1)
    \o calls("LocationReplacement", << <<"location", "replace">>, <<"window", "location", "replace">> >>, 1)
    \o [i \in DOMAIN asked |-> Effect(<<"ReadOnlyQuery">>, <<>>)]

-----------------------------------------------------------------------------
(* One effect, applied to the page's copies, and a number of them.         *)
AreaOf(effect) == IF effect.kind[2] = "local" THEN "local" ELSE "session"
Optional(args, i) == IF i <= Len(args) THEN args[i] ELSE ""
HistoryUrl(page, args) == IF Len(args) < 3 THEN page.url ELSE Join(page.url, args[3])
Navigate(page, literal, replace) ==
  LET target == Join(page.url, literal)
      replaced == IF replace THEN ReplaceEntry(page, target, "") ELSE page IN
  IF CanResolve(literal) THEN [replaced EXCEPT !.navigations = Append(@, target)] ELSE page
ApplyEffect(page, effect) ==
  LET a == effect.args
      kind == effect.kind[1] IN
  CASE kind = "StorageSet" -> SetItem(page, AreaOf(effect), a[1], a[2])
    [] kind = "StorageRemove" -> RemoveItem(page, AreaOf(effect), a[1])
    [] kind = "StorageClear" -> ClearArea(page, AreaOf(effect))
    [] kind = "CookieSet" -> SetFromScript(page, a[1])
    [] kind = "HistoryPush" -> PushState(page, HistoryUrl(page, a), Optional(a, 1))
    [] kind = "HistoryReplace" -> ReplaceState(page, HistoryUrl(page, a), Optional(a, 1))
    [] kind = "LocationNavigation" -> Navigate(page, a[1], FALSE)
    [] kind = "LocationReplacement" -> Navigate(page, a[1], TRUE)
    [] OTHER -> page
ApplyFirst(page, n) ==
  LET applied[i \in 0 .. n] == IF i = 0 THEN page ELSE ApplyEffect(applied[i - 1], page.effects[i])
  IN  applied[n]

IsFetch(effect) == effect.kind[1] \in {"Fetch", "Xhr"}
(* Only a GET of a resource that resolves, within the limit, is awaited; a *)
(* request of another method uses up one of the limit.                     *)
FetchesBefore(page, i) == page.fetches + Cardinality({j \in 1..(i - 1) : IsFetch(page.effects[j])})
IsAwaited(page, i) ==
  LET effect == page.effects[i] IN
  /\ IsFetch(effect) /\ FetchesBefore(page, i) < MaxApiFetches
  /\ effect.kind[1] = "Xhr" => effect.args[1] = "GET"
  /\ CanResolve(effect.args[IF effect.kind[1] = "Xhr" THEN 2 ELSE 1])

-----------------------------------------------------------------------------
(* The life of a page load.  at: "scripts" between two of them, "effects"  *)
(* within one, "fetch" at an await, then the four halves of its two        *)
(* writes, "local", "local cut", "jar", "jar cut".                         *)
NoPage == [at |-> "none"]

NewHost(url, scripts) ==
  LET own == OriginKey(url)
      file == SafeFileComponent(own)
      stored == IF file \in DOMAIN itemFiles THEN itemFiles[file] ELSE Cut
      items == IF stored.torn THEN NoItems ELSE IF stored.content.origin /= own THEN NoItems ELSE stored.content.items IN
  [at |-> "scripts", opened |-> url, url |-> url, scripts |-> scripts, effects |-> <<>>, fetches |-> 0,
   jar |-> Contents(cookieFile, <<>>), jarDirty |-> FALSE, local |-> items, localDirty |-> FALSE, session |-> NoItems,
   entries |-> <<HistoryEntry(url, "")>>, current |-> 1, navigations |-> <<>>]

StoresInit ==
  /\ pages = [p \in PageSlots |-> NoPage]
  /\ cookieFile = Whole(<<>>)
  /\ itemFiles = [f \in {} |-> Cut]
  /\ clock = 1 /\ visits = 0

OpenPage(p) ==
  /\ pages[p].at = "none" /\ visits < MaxVisits
  /\ visits' = visits + 1
  /\ \E visit \in Visits : pages' = [pages EXCEPT ![p] = NewHost(visit.url, visit.scripts)]
  /\ UNCHANGED <<cookieFile, itemFiles, clock>>

(* A script without an effect of the platform does not reach the host.     *)
RunScript(p) ==
  LET page == pages[p]
      run(effects) ==
        [page EXCEPT !.scripts = Tail(@), !.fetches = 0, !.effects = SubSeq(effects, 1, Min({MaxEffects, Len(effects)})),
                     !.at = IF effects = <<>> THEN "scripts" ELSE "effects"] IN
  /\ page.at = "scripts" /\ page.scripts /= <<>>
  /\ pages' = [pages EXCEPT ![p] = run(CaptureWebPlatformEffects(StripJsComments(Head(page.scripts))))]
  /\ UNCHANGED <<cookieFile, itemFiles, clock, visits>>

(* All effects up to the next await, or to the end of the script, are one  *)
(* step: no other task sees the page's copies.                             *)
ApplyEffects(p) ==
  LET page == pages[p]
      awaits == {i \in DOMAIN page.effects : IsAwaited(page, i)}
      upTo == IF awaits = {} THEN Len(page.effects) ELSE Min(awaits) - 1
      applied == ApplyFirst(page, upTo) IN
  /\ page.at = "effects"
  /\ pages' = [pages EXCEPT ![p] =
       [applied EXCEPT !.effects = SubSeq(@, upTo + 1, Len(@)), !.fetches = FetchesBefore(page, upTo + 1),
                       !.at = IF awaits = {} THEN "local" ELSE "fetch"]]
  /\ UNCHANGED <<cookieFile, itemFiles, clock, visits>>

(* Whether it came or failed is only counted.                              *)
FetchEnds(p) ==
  /\ pages[p].at = "fetch"
  /\ pages' = [pages EXCEPT ![p].effects = Tail(@), ![p].fetches = @ + 1, ![p].at = "effects"]
  /\ UNCHANGED <<cookieFile, itemFiles, clock, visits>>

ItemFile(page) == SafeFileComponent(OriginKey(page.opened))
FlushStorage(p) ==
  LET page == pages[p] IN
  /\ page.at = "local"
  /\ pages' = [pages EXCEPT ![p].at = IF page.localDirty THEN "local cut" ELSE "jar"]
  /\ itemFiles' = IF page.localDirty THEN Insert(itemFiles, ItemFile(page), Cut) ELSE itemFiles
  /\ UNCHANGED <<cookieFile, clock, visits>>
FillStorage(p) ==
  LET page == pages[p] IN
  /\ page.at = "local cut"
  /\ \E file \in Filled(itemFiles[ItemFile(page)], [origin |-> OriginKey(page.opened), items |-> page.local]) :
       itemFiles' = [itemFiles EXCEPT ![ItemFile(page)] = file]
  /\ pages' = [pages EXCEPT ![p].at = "jar", ![p].localDirty = FALSE]
  /\ UNCHANGED <<cookieFile, clock, visits>>

FlushCookies(p) ==
  LET page == pages[p]
      jar == Picked(page.jar, {i \in DOMAIN page.jar : ~Expired(page.jar[i])})
      dirty == page.jarDirty \/ jar /= page.jar IN
  /\ page.at = "jar"
  /\ pages' = [pages EXCEPT ![p].jar = jar, ![p].jarDirty = dirty, ![p].at = IF dirty THEN "jar cut" ELSE "scripts"]
  /\ cookieFile' = IF dirty THEN Cut ELSE cookieFile
  /\ UNCHANGED <<itemFiles, clock, visits>>
FillCookies(p) ==
  /\ pages[p].at = "jar cut"
  /\ cookieFile' \in Filled(cookieFile, pages[p].jar)
  /\ pages' = [pages EXCEPT ![p].at = "scripts", ![p].jarDirty = FALSE]
  /\ UNCHANGED <<itemFiles, clock, visits>>

(* The hosts of a page end with the load.                                  *)
LoadEnds(p) ==
  /\ pages[p].at = "scripts" /\ pages[p].scripts = <<>>
  /\ pages' = [pages EXCEPT ![p] = NoPage]
  /\ UNCHANGED <<cookieFile, itemFiles, clock, visits>>

(* The process ends anywhere, and starts again on what is on the disk.     *)
Crash ==
  /\ \E p \in PageSlots : pages[p].at /= "none"
  /\ pages' = [p \in PageSlots |-> NoPage]
  /\ UNCHANGED <<cookieFile, itemFiles, clock, visits>>

Tick == clock < MaxTime /\ clock' = clock + 1 /\ UNCHANGED <<pages, cookieFile, itemFiles, visits>>

PageStep(p) ==
  \/ OpenPage(p) \/ RunScript(p) \/ ApplyEffects(p) \/ FetchEnds(p)
  \/ FlushStorage(p) \/ FillStorage(p) \/ FlushCookies(p) \/ FillCookies(p) \/ LoadEnds(p)

StoresNext == (\E p \in PageSlots : PageStep(p)) \/ Crash \/ Tick

StoresSpec == StoresInit /\ [][StoresNext]_storesVars

-----------------------------------------------------------------------------
(* Every cookie a page shows its scripts was set from the cookie's domain  *)
(* or below it, and the page is there too; a jar, wherever it is, holds a  *)
(* cookie once and no more than its limit.                                 *)
JarIsSound(jar) ==
  /\ Len(jar) <= MaxCookies
  /\ \A i, j \in DOMAIN jar : i /= j => ~SameCookie(jar[i], jar[j])
  /\ \A i \in DOMAIN jar : AtOrBelow(jar[i].by, jar[i].domain)
CookiesStayInTheirDomain ==
  /\ JarIsSound(Contents(cookieFile, <<>>))
  /\ \A p \in PageSlots : pages[p].at /= "none" =>
       /\ JarIsSound(pages[p].jar)
       /\ \A c \in ToSet(DocumentCookie(pages[p])) :
            AtOrBelow(pages[p].opened.host, c.domain) /\ (c.secure => pages[p].opened.scheme = "https")

(* An item is seen by the pages of the origin that set it, though files    *)
(* are shared by origins whose names look alike, and a page's script-made  *)
(* history never leaves its origin.                                        *)
ItemsStayInTheirOrigin ==
  \A p \in PageSlots : pages[p].at /= "none" =>
    \A area \in {"local", "session"} : \A k \in DOMAIN pages[p][area] : pages[p][area][k].by = OriginKey(pages[p].opened)
HistoryStaysInItsOrigin ==
  \A p \in PageSlots : pages[p].at /= "none" =>
    /\ SameOrigin(pages[p].url, pages[p].opened)
    /\ pages[p].current \in DOMAIN pages[p].entries
    /\ \A i \in DOMAIN pages[p].entries : SameOrigin(pages[p].entries[i].url, pages[p].opened)

(* Between two scripts nothing a script wrote is only in memory.           *)
ScriptsLeaveNothingUnwritten ==
  \A p \in PageSlots : pages[p].at = "scripts" => ~pages[p].jarDirty /\ ~pages[p].localDirty

(* What scripts keep stays with those who may see it, through pages that   *)
(* load at once, crashes between the halves of a write and files that do   *)
(* not parse (cookies.rs, storage.rs, history_api.rs, web_platform.rs).    *)
StoresServeTheirOwners ==
  CookiesStayInTheirDomain /\ ItemsStayInTheirOrigin /\ HistoryStaysInItsOrigin /\ ScriptsLeaveNothingUnwritten
=============================================================================
