------------------------- MODULE BrowserShellProofs -------------------------
(***************************************************************************)
(* Theorems about BrowserShell.  First what is shown: ShellInv is          *)
(* inductive, so its parts hold in every reachable state, for any number   *)
(* of tabs, navigations, URLs and form controls.  Then the loads: loads    *)
(* and tabs find each other, addresses are true, the histories follow the  *)
(* pages, closing keeps the user's tab, and the shell implements TabLoads; *)
(* these rest on ShellInv and on LoadsInv, the account of the loads that   *)
(* are on their way.                                                       *)
(***************************************************************************)
EXTENDS BrowserShell, SequenceTheorems, TLAPS

-----------------------------------------------------------------------------
(* The back/forward list and the visit list                                *)

\* A new list is well formed and shows its URL.
LEMMA NewControllerLemma ==
  ASSUME NEW url \in Urls
  PROVE  /\ WellFormed(NewController(url))
         /\ CurrentUrl(NewController(url)) = url
BY DEF NewController, WellFormed, Controller, CurrentUrl

\* The current URL of a well-formed list is one of the URLs.
LEMMA CurrentUrlType ==
  ASSUME NEW nav, WellFormed(nav)
  PROVE  CurrentUrl(nav) \in Urls
BY DEF WellFormed, Controller, CurrentUrl

\* navigate_to keeps a list well formed and shows the URL asked for.
LEMMA NavigateToLemma ==
  ASSUME NEW nav, WellFormed(nav), NEW url \in Urls
  PROVE  /\ WellFormed(NavigateTo(nav, url))
         /\ CurrentUrl(NavigateTo(nav, url)) = url
<1> DEFINE kept == SubSeq(nav.entries, 1, nav.current)
<1>1. CASE CurrentUrl(nav) = url
  BY <1>1 DEF NavigateTo
<1>2. CASE CurrentUrl(nav) # url
  BY <1>2, SubSeqProperties, AppendProperties DEF WellFormed, Controller, NavigateTo, CurrentUrl
<1> QED
  BY <1>1, <1>2

\* navigate_to, asked for the URL it shows, changes nothing: mark_loading
\* after go_back keeps the forward entries.
LEMMA NavigateToCurrent ==
  ASSUME NEW nav
  PROVE  NavigateTo(nav, CurrentUrl(nav)) = nav
BY DEF NavigateTo

\* The arrows keep a list well formed.
LEMMA StepLemma ==
  ASSUME NEW nav, WellFormed(nav)
  PROVE  /\ CanGoBack(nav) => WellFormed(StepBack(nav))
         /\ CanGoForward(nav) => WellFormed(StepForward(nav))
BY DEF WellFormed, Controller, CanGoBack, CanGoForward, StepBack, StepForward

\* The end of a list is a list.
LEMMA SuffixType ==
  ASSUME NEW S, NEW s \in Seq(S), NEW m \in Nat \ {0}
  PROVE  SubSeq(s, m, Len(s)) \in Seq(S)
<1>1. /\ m \in Int
      /\ Len(s) \in Int
      /\ \A i \in m .. Len(s) : s[i] \in S
  OBVIOUS
<1> QED
  BY <1>1, SubSeqProperties

\* record_visit keeps the list a list of visits.
LEMMA RecordVisitType ==
  ASSUME NEW url \in Urls, visits \in Seq([url : Urls, title : Urls])
  PROVE  RecordVisit(visits, Visit(url, url)) \in Seq([url : Urls, title : Urls])
<1> DEFINE V == [url : Urls, title : Urls]
           longer == Append(visits, Visit(url, url))
           excess == Len(longer) - MaxEntries
<1>1. Visit(url, url) \in V
  BY DEF Visit
<1>2. longer \in Seq(V) /\ Len(longer) \in Nat
  BY <1>1, AppendProperties, LenProperties
<1>3. excess > 0 => excess + 1 \in Nat \ {0}
  BY <1>2, MaxEntriesAssumption
<1> HIDE DEF V, longer
<1>4. excess > 0 => SubSeq(longer, excess + 1, Len(longer)) \in Seq(V)
  BY <1>2, <1>3, SuffixType
<1> USE DEF V, longer
<1> QED
  BY <1>2, <1>4 DEF RecordVisit

-----------------------------------------------------------------------------
(* ShellInv in three parts: the tabs, the queues, and what is derived from  *)
(* the active tab.                                                         *)

TabsOK ==
  /\ order \in Seq(TabIds)
  /\ active \in 1 .. Len(order)
  /\ tab \in [TabIds -> BrowserTab]
  /\ \A t \in TabIds : WellFormed(tab[t].nav)
  /\ \A t \in TabIds : tab[t].pending # 0 => tab[t].document = NoDocument

QueuesOK ==
  /\ nextId \in 2 .. MaxTab + 1
  /\ navId \in 0 .. MaxNav
  /\ tasks \in SUBSET LoadTask
  /\ inbox \in Seq([task : LoadTask, ok : BOOLEAN])
  /\ visits \in Seq([url : Urls, title : Urls])
  /\ started \in BOOLEAN

DomOK ==
  /\ dom \in [tab : 0 .. MaxTab, document : Document \cup {NoDocument}]
  /\ dom # NoDom => /\ dom.tab = ActiveId
                    /\ dom.document = ActiveTab.document
                    /\ dom.document # NoDocument

PaintOK ==
  /\ paint \in [document : Document \cup {NoDocument}, images : 0 .. MaxNav]
  /\ PaintShowsActiveTab

ChromeOK ==
  chrome \in [url : Urls, back : BOOLEAN, forward : BOOLEAN,
              loading : BOOLEAN, error : BOOLEAN]

FocusOK ==
  /\ focus \in Controls \cup {NoControl}
  /\ FocusIsOnActivePage

\* The parts are the whole.
LEMMA InvParts ==
  ShellInv <=> TabsOK /\ QueuesOK /\ DomOK /\ PaintOK /\ ChromeOK /\ FocusOK
BY DEF ShellInv, TypeOK, LoadingTabShowsNothing, DomMirrorsActivePage,
       TabsOK, QueuesOK, DomOK, PaintOK, ChromeOK, FocusOK

\* The same, after a step.
LEMMA InvPartsNext ==
  TabsOK' /\ QueuesOK' /\ DomOK' /\ PaintOK' /\ ChromeOK' /\ FocusOK' => ShellInv'
BY DEF ShellInv, TypeOK, LoadingTabShowsNothing, DomMirrorsActivePage,
       TabsOK, QueuesOK, DomOK, PaintOK, ChromeOK, FocusOK

\* The empty document and the page of a navigation are documents.
LEMMA DocumentTypes ==
  /\ EmptyDocument \in Document
  /\ EmptyDocument.src = 0
  /\ NoDocument \notin Document
  /\ \A n \in NavIds, url \in Urls : Page(n, url) \in Document
  /\ 0 \in 0 .. MaxNav
BY ShellAssumption DEF EmptyDocument, Page, Document, NavIds

\* The active tab is one of the tabs.
LEMMA ActiveTabType ==
  ASSUME TabsOK
  PROVE  /\ ActiveId \in TabIds
         /\ ActiveId \in OpenTabs
         /\ ActiveTab \in BrowserTab
         /\ WellFormed(ActiveTab.nav)
         /\ CurrentUrl(ActiveTab.nav) \in Urls
<1>1. ActiveId \in TabIds /\ ActiveId \in OpenTabs
  BY DEF TabsOK, ActiveId, OpenTabs
<1>2. ActiveTab \in BrowserTab /\ WellFormed(ActiveTab.nav)
  BY <1>1 DEF TabsOK, ActiveTab
<1> QED
  BY <1>1, <1>2, CurrentUrlType

\* The same, after a step.
LEMMA ActiveTabTypeNext ==
  ASSUME TabsOK'
  PROVE  /\ ActiveId' \in TabIds
         /\ ActiveTab' \in BrowserTab
         /\ WellFormed(ActiveTab'.nav)
         /\ CurrentUrl(ActiveTab.nav)' \in Urls
<1>1. ActiveId' \in TabIds
  BY DEF TabsOK, ActiveId
<1>2. ActiveTab' \in BrowserTab /\ WellFormed(ActiveTab'.nav)
  BY <1>1 DEF TabsOK, ActiveTab
<1> QED
  BY <1>1, <1>2, CurrentUrlType DEF CurrentUrl

\* The toolbar keeps its type.
LEMMA SyncType ==
  ASSUME TabsOK', NEW loading \in BOOLEAN, NEW error \in BOOLEAN, Sync(loading, error)
  PROVE  ChromeOK'
<1>1. CurrentUrl(ActiveTab.nav)' \in Urls
  BY ActiveTabTypeNext
<1>2. CanGoBack(ActiveTab.nav)' \in BOOLEAN /\ CanGoForward(ActiveTab.nav)' \in BOOLEAN
  BY DEF CanGoBack, CanGoForward
<1> QED
  BY <1>1, <1>2 DEF Sync, ChromeOK

\* Painting the active tab from scratch makes runtime and paint agree with
\* it.
LEMMA ApplyFromScratch ==
  ASSUME TabsOK', ApplyActiveTab(NoDom)
  PROVE  DomOK' /\ PaintOK'
<1>1. ActiveId' \in TabIds /\ ActiveTab' \in BrowserTab
  BY ActiveTabTypeNext
<1>2. NoDom.tab # ActiveId'
  BY <1>1 DEF NoDom, TabIds
<1>3. dom' = IF ActiveTab'.document = NoDocument
               THEN NoDom
               ELSE [tab |-> ActiveId', document |-> ActiveTab'.document]
  BY <1>2 DEF ApplyActiveTab, InstallForTab
<1>4. ActiveTab'.document \in Document \cup {NoDocument} /\ ActiveTab'.images \in 0 .. MaxNav
  BY <1>1 DEF BrowserTab
<1>5. DomOK'
  BY <1>1, <1>3, <1>4, ShellAssumption DEF DomOK, NoDom, TabIds
<1>6. PaintOK'
  BY <1>4, DocumentTypes DEF ApplyActiveTab, PaintOK, PaintShowsActiveTab
<1> QED
  BY <1>5, <1>6

-----------------------------------------------------------------------------
(* The tab strip                                                           *)

\* A new tab is blank, well formed and waits for nothing.
LEMMA NewTabType ==
  ASSUME NEW url \in Urls
  PROVE  /\ NewTabRecord(url) \in BrowserTab
         /\ WellFormed(NewTabRecord(url).nav)
         /\ NewTabRecord(url).pending = 0
<1>1. WellFormed(NewController(url))
  BY NewControllerLemma
<1> QED
  BY <1>1, DocumentTypes DEF NewTabRecord, BrowserTab, WellFormed

\* Removing an element from a list leaves a list, shorter by one.
LEMMA WithoutType ==
  ASSUME NEW S, NEW s \in Seq(S), NEW k \in 1 .. Len(s)
  PROVE  /\ Without(s, k) \in Seq(S)
         /\ Len(Without(s, k)) = Len(s) - 1
<1>1. Len(s) - 1 \in Nat
  OBVIOUS
<1>2. \A i \in 1 .. Len(s) - 1 : (IF i < k THEN s[i] ELSE s[i + 1]) \in S
  OBVIOUS
<1> QED
  BY <1>1, <1>2 DEF Without

\* What follows every change of the tab strip restores the invariant.
LEMMA ShowActiveTabInv ==
  ASSUME ShellInv, TabsOK', nextId' \in 2 .. MaxTab + 1, UNCHANGED started, ShowActiveTab
  PROVE  ShellInv'
<1>1. DomOK' /\ PaintOK'
  BY ApplyFromScratch DEF ShowActiveTab
<1>2. ChromeOK'
  BY SyncType DEF ShowActiveTab
<1>3. FocusOK'
  BY DEF ShowActiveTab, FocusOK, FocusIsOnActivePage
<1>4. QueuesOK'
  BY InvParts DEF QueuesOK, ShowActiveTab
<1> QED
  BY <1>1, <1>2, <1>3, <1>4, InvPartsNext

\* A new tab (new_tab) restores the invariant.
LEMMA NewTabInv ==
  ASSUME ShellInv, NewTab, UNCHANGED started
  PROVE  ShellInv'
<1>1. TabsOK /\ QueuesOK
  BY InvParts
<1>2. nextId \in TabIds /\ nextId' \in 2 .. MaxTab + 1
  BY <1>1, ShellAssumption DEF NewTab, QueuesOK, TabIds
<1>3. /\ order' \in Seq(TabIds)
      /\ active' \in 1 .. Len(order')
  BY <1>1, <1>2 DEF NewTab, TabsOK
<1>4. /\ tab' \in [TabIds -> BrowserTab]
      /\ \A t \in TabIds : WellFormed(tab'[t].nav)
      /\ \A t \in TabIds : tab'[t].pending # 0 => tab'[t].document = NoDocument
  BY <1>1, <1>2, NewTabType, ShellAssumption DEF NewTab, TabsOK
<1>5. TabsOK'
  BY <1>3, <1>4 DEF TabsOK
<1> QED
  BY <1>2, <1>5, ShowActiveTabInv DEF NewTab

\* Closing a tab, the last one included, restores the invariant.
LEMMA CloseTabInv ==
  ASSUME ShellInv, NEW t \in TabIds, CloseTab(t), UNCHANGED started
  PROVE  ShellInv'
<1>1. TabsOK /\ QueuesOK
  BY InvParts
<1>2. IndexOf(t) \in 1 .. Len(order)
  BY DEF CloseTab, OpenTabs, IndexOf
<1>3. /\ order' \in Seq(TabIds)
      /\ active' \in 1 .. Len(order')
  <2>1. CASE CloseLastTab(t)
    <3>1. order' = order /\ Len(order) = 1 /\ active' = 1
      BY <2>1 DEF CloseLastTab
    <3>2. order \in Seq(TabIds)
      BY <1>1 DEF TabsOK
    <3> QED
      BY <3>1, <3>2
  <2>2. CASE CloseOneOfMany(t)
    BY <1>1, <1>2, <2>2, WithoutType DEF CloseOneOfMany, TabsOK
  <2> QED
    BY <2>1, <2>2 DEF CloseTab
<1>4. /\ tab' \in [TabIds -> BrowserTab]
      /\ \A u \in TabIds : WellFormed(tab'[u].nav)
      /\ \A u \in TabIds : tab'[u].pending # 0 => tab'[u].document = NoDocument
  BY <1>1, NewTabType, ShellAssumption DEF CloseTab, TabsOK
<1>5. TabsOK'
  BY <1>3, <1>4 DEF TabsOK
<1>6. nextId' \in 2 .. MaxTab + 1
  BY <1>1 DEF CloseTab, QueuesOK
<1> QED
  BY <1>5, <1>6, ShowActiveTabInv DEF CloseTab

\* Activating another tab restores the invariant.
LEMMA ActivateInv ==
  ASSUME ShellInv, NEW k \in 1 .. Len(order), Activate(k), UNCHANGED started
  PROVE  ShellInv'
<1>1. TabsOK /\ QueuesOK
  BY InvParts
<1>2. TabsOK' /\ nextId' \in 2 .. MaxTab + 1
  BY <1>1 DEF Activate, TabsOK, QueuesOK
<1> QED
  BY <1>2, ShowActiveTabInv DEF Activate

-----------------------------------------------------------------------------
(* Navigations                                                             *)

\* What mark_loaded and mark_loading make of a tab.
LEMMA MarkTypes ==
  ASSUME NEW record \in BrowserTab, NEW nav, WellFormed(nav)
  PROVE  /\ [record EXCEPT !.nav = nav] \in BrowserTab
         /\ \A document \in Document, images \in 0 .. MaxNav :
              LET loaded == MarkLoaded([record EXCEPT !.nav = nav], document, images)
              IN  /\ loaded \in BrowserTab
                  /\ loaded.nav = nav
                  /\ loaded.pending = 0
                  /\ loaded.document = document
                  /\ loaded.images = images
         /\ \A n \in NavIds :
              LET asked == MarkLoading([record EXCEPT !.nav = nav], n, CurrentUrl(nav))
              IN  /\ asked \in BrowserTab
                  /\ asked.nav = nav
                  /\ asked.document = NoDocument
                  /\ asked.images = 0
<1>1. nav \in Controller
  BY DEF WellFormed
<1>2. NavigateTo(nav, CurrentUrl(nav)) = nav
  BY NavigateToCurrent
<1> DEFINE moved == [record EXCEPT !.nav = nav]
<1>3. moved \in BrowserTab /\ moved.nav = nav
  BY <1>1 DEF BrowserTab
<1> HIDE DEF moved
<1>4. ASSUME NEW document \in Document, NEW images \in 0 .. MaxNav
      PROVE  LET loaded == MarkLoaded(moved, document, images)
             IN  /\ loaded \in BrowserTab
                 /\ loaded.nav = nav
                 /\ loaded.pending = 0
                 /\ loaded.document = document
                 /\ loaded.images = images
  BY <1>3, DocumentTypes DEF BrowserTab, MarkLoaded
<1>5. ASSUME NEW n \in NavIds
      PROVE  LET asked == MarkLoading(moved, n, CurrentUrl(nav))
             IN  /\ asked \in BrowserTab
                 /\ asked.nav = nav
                 /\ asked.document = NoDocument
                 /\ asked.images = 0
  BY <1>1, <1>2, <1>3, DocumentTypes DEF BrowserTab, MarkLoading, NavIds
<1> USE DEF moved
<1> QED
  BY <1>3, <1>4, <1>5

\* A step that replaces one tab of a strip it leaves alone keeps TabsOK when
\* the new tab is well formed and waits only while it shows nothing.
LEMMA ReplaceTab ==
  ASSUME TabsOK, NEW t \in TabIds, NEW record \in BrowserTab,
         WellFormed(record.nav),
         record.pending # 0 => record.document = NoDocument,
         tab' = [tab EXCEPT ![t] = record],
         UNCHANGED <<order, active>>
  PROVE  /\ TabsOK'
         /\ ActiveId' = ActiveId
         /\ tab'[t] = record
<1>1. /\ tab' \in [TabIds -> BrowserTab]
      /\ \A u \in TabIds : tab'[u] = IF u = t THEN record ELSE tab[u]
  BY DEF TabsOK
<1>2. TabsOK'
  BY <1>1 DEF TabsOK
<1> QED
  BY <1>1, <1>2 DEF ActiveId

\* A navigation to the blank page needs no load and restores the invariant.
LEMMA ShowBlankPageInv ==
  ASSUME TabsOK, NEW nav, WellFormed(nav), ShowBlankPage(nav)
  PROVE  TabsOK' /\ DomOK' /\ PaintOK' /\ ChromeOK' /\ UNCHANGED tasks
<1> DEFINE record == MarkLoaded([tab[ActiveId] EXCEPT !.nav = nav], EmptyDocument, 0)
<1>1. ActiveId \in TabIds /\ tab[ActiveId] \in BrowserTab
  BY ActiveTabType DEF ActiveTab
<1>2. /\ record \in BrowserTab
      /\ record.nav = nav
      /\ record.pending = 0
  BY <1>1, MarkTypes, DocumentTypes
<1>3. tab' = [tab EXCEPT ![ActiveId] = record] /\ UNCHANGED <<order, active>>
  BY DEF ShowBlankPage
<1> HIDE DEF record
<1>4. TabsOK'
  BY <1>1, <1>2, <1>3, ReplaceTab
<1>5. DomOK' /\ PaintOK'
  BY <1>4, ApplyFromScratch DEF ShowBlankPage
<1>6. ChromeOK'
  BY <1>4, SyncType DEF ShowBlankPage
<1> QED
  BY <1>4, <1>5, <1>6 DEF ShowBlankPage

\* Starting a load clears page, runtime and paint, and restores the invariant.
LEMMA StartLoadInv ==
  ASSUME TabsOK, QueuesOK, NEW nav, WellFormed(nav), navId < MaxNav, StartLoad(nav)
  PROVE  TabsOK' /\ DomOK' /\ PaintOK' /\ ChromeOK' /\ tasks' \in SUBSET LoadTask
<1> DEFINE record == MarkLoading([tab[ActiveId] EXCEPT !.nav = nav], navId + 1, CurrentUrl(nav))
<1>1. ActiveId \in TabIds /\ tab[ActiveId] \in BrowserTab
  BY ActiveTabType DEF ActiveTab
<1>2. navId + 1 \in NavIds /\ CurrentUrl(nav) \in Urls
  BY CurrentUrlType, ShellAssumption DEF QueuesOK, NavIds
<1>3. /\ record \in BrowserTab
      /\ record.nav = nav
      /\ record.document = NoDocument
      /\ record.images = 0
  BY <1>1, <1>2, MarkTypes
<1>4. tab' = [tab EXCEPT ![ActiveId] = record] /\ UNCHANGED <<order, active>>
  BY DEF StartLoad
<1> HIDE DEF record
<1>5. /\ TabsOK'
      /\ ActiveId' = ActiveId
      /\ tab'[ActiveId] = record
  BY <1>1, <1>3, <1>4, ReplaceTab
<1>6. DomOK'
  BY ShellAssumption DEF StartLoad, DomOK, NoDom
<1>7. PaintOK'
  BY <1>3, <1>5, DocumentTypes DEF ActiveTab, StartLoad, PaintOK, PaintShowsActiveTab
<1>8. ChromeOK'
  BY <1>5, SyncType DEF StartLoad
<1>9. tasks' \in SUBSET LoadTask
  BY <1>1, <1>2 DEF StartLoad, LoadTask, QueuesOK
<1> QED
  BY <1>5, <1>6, <1>7, <1>8, <1>9

\* Every navigation, whatever asked for it, restores the invariant.
LEMMA BeginNavigationInv ==
  ASSUME ShellInv, NEW nav, WellFormed(nav), BeginNavigation(nav), started' \in BOOLEAN
  PROVE  ShellInv'
<1>1. TabsOK /\ QueuesOK
  BY InvParts
<1>2. TabsOK' /\ DomOK' /\ PaintOK' /\ ChromeOK' /\ tasks' \in SUBSET LoadTask
  BY <1>1, ShowBlankPageInv, StartLoadInv DEF QueuesOK, BeginNavigation
<1>3. QueuesOK'
  BY <1>1, <1>2, ShellAssumption DEF BeginNavigation, QueuesOK
<1>4. FocusOK'
  BY DEF BeginNavigation, FocusOK, FocusIsOnActivePage
<1> QED
  BY <1>2, <1>3, <1>4, InvPartsNext

\* A navigation to an address: the address bar, a link, a form.
LEMMA NavigateInv ==
  ASSUME ShellInv, NEW url \in Urls, BeginNavigation(NavigateTo(ActiveTab.nav, url)),
         UNCHANGED started
  PROVE  ShellInv'
<1>1. WellFormed(NavigateTo(ActiveTab.nav, url))
  BY InvParts, ActiveTabType, NavigateToLemma
<1>2. started' \in BOOLEAN
  BY InvParts DEF QueuesOK
<1> QED
  BY <1>1, <1>2, BeginNavigationInv

\* A handler that clears the focus and the runtime and does nothing else.
LEMMA ClearOnlyInv ==
  ASSUME ShellInv, NEW error \in BOOLEAN, ClearOnly(error), UNCHANGED started
  PROVE  ShellInv'
<1>1. TabsOK /\ QueuesOK /\ PaintOK /\ ChromeOK
  BY InvParts
<1>2. TabsOK' /\ QueuesOK' /\ PaintOK'
  BY <1>1 DEF ClearOnly, TabsOK, QueuesOK, PaintOK, PaintShowsActiveTab, ActiveTab, ActiveId
<1>3. chrome.loading \in BOOLEAN /\ chrome.error \in BOOLEAN
  BY <1>1 DEF ChromeOK
<1>4. ChromeOK'
  BY <1>2, <1>3, SyncType DEF ClearOnly
<1>5. DomOK' /\ FocusOK'
  BY ShellAssumption DEF ClearOnly, DomOK, NoDom, FocusOK, FocusIsOnActivePage
<1> QED
  BY <1>2, <1>4, <1>5, InvPartsNext

-----------------------------------------------------------------------------
(* Events on the page                                                      *)

\* An edited document of the same page replaces it everywhere.
LEMMA CommitDocumentInv ==
  ASSUME ShellInv, UNCHANGED started,
         ActiveTab.document # NoDocument,
         NEW document \in Document,
         document.src = ActiveTab.document.src,
         document.url = ActiveTab.document.url,
         CommitDocument(document),
         focus' \in Controls \cup {NoControl},
         focus' # NoControl => document.focus = focus',
         NEW loading \in BOOLEAN, NEW error \in BOOLEAN, Sync(loading, error)
  PROVE  ShellInv'
<1> DEFINE record == [tab[ActiveId] EXCEPT !.document = document]
<1>1. TabsOK /\ QueuesOK /\ DomOK /\ PaintOK
  BY InvParts
<1>2. ActiveId \in TabIds /\ tab[ActiveId] \in BrowserTab
  BY <1>1, ActiveTabType DEF ActiveTab
<1>3. /\ record \in BrowserTab
      /\ record.nav = tab[ActiveId].nav
      /\ record.document = document
      /\ record.pending = tab[ActiveId].pending
      /\ record.images = ActiveTab.images
  BY <1>2 DEF BrowserTab, ActiveTab
<1>4. record.pending = 0 /\ WellFormed(record.nav)
  BY <1>1, <1>2, <1>3 DEF TabsOK, ActiveTab
<1>5. tab' = [tab EXCEPT ![ActiveId] = record] /\ UNCHANGED <<order, active>>
  BY <1>1, <1>2 DEF CommitDocument, TabsOK
<1> HIDE DEF record
<1>6. /\ TabsOK'
      /\ ActiveId' = ActiveId
      /\ ActiveTab' = record
  BY <1>1, <1>2, <1>3, <1>4, <1>5, ReplaceTab DEF ActiveTab
<1>7. DomOK'
  <2>1. CASE dom = NoDom
    BY <2>1, ShellAssumption DEF CommitDocument, DomOK, NoDom
  <2>2. CASE dom # NoDom
    <3>1. /\ dom.tab = ActiveId
          /\ dom.tab \in 0 .. MaxTab
          /\ dom.document = ActiveTab.document
          /\ dom.document \in Document
          /\ dom \in [tab : 0 .. MaxTab, document : Document \cup {NoDocument}]
      BY <1>1, <2>2 DEF DomOK
    <3>2. dom' = SyncRuntime(dom, document)
      BY <2>2 DEF CommitDocument
    <3>3. /\ dom' \in [tab : 0 .. MaxTab, document : Document \cup {NoDocument}]
          /\ dom'.tab = ActiveId
          /\ dom'.document = document
      BY <3>1, <3>2 DEF SyncRuntime, Document
    <3> QED
      BY <1>3, <1>6, <3>3, DocumentTypes DEF DomOK
  <2> QED
    BY <2>1, <2>2
<1>8. PaintOK'
  BY <1>2, <1>3, <1>6, DocumentTypes DEF ActiveTab, BrowserTab, CommitDocument, PaintOK, PaintShowsActiveTab
<1>9. ChromeOK'
  BY <1>6, SyncType
<1>10. FocusOK'
  BY <1>3, <1>6, DocumentTypes DEF FocusOK, FocusIsOnActivePage
<1>11. QueuesOK'
  BY <1>1 DEF CommitDocument, QueuesOK
<1> QED
  BY <1>6, <1>7, <1>8, <1>9, <1>10, <1>11, InvPartsNext

\* A page that is painted is the active tab's.
LEMMA PaintedPage ==
  ASSUME ShellInv, started, PageIsPainted
  PROVE  ActiveTab.document # NoDocument
BY InvParts, DocumentTypes DEF PageIsPainted, PaintOK, PaintShowsActiveTab

\* A focused control is on a page of the active tab.
LEMMA FocusedPage ==
  ASSUME ShellInv, focus # NoControl
  PROVE  /\ ActiveTab.document # NoDocument
         /\ ActiveTab.document.focus = focus
BY InvParts DEF FocusOK, FocusIsOnActivePage

\* Moving the focus or marking an edit changes neither page nor address.
LEMMA EditedDocument ==
  ASSUME ShellInv, ActiveTab.document # NoDocument,
         NEW control \in Controls \cup {NoControl}
  PROVE  /\ ActiveTab.document \in Document
         /\ LET focused == [ActiveTab.document EXCEPT !.focus = control]
            IN  /\ focused \in Document
                /\ focused.src = ActiveTab.document.src
                /\ focused.url = ActiveTab.document.url
                /\ focused.focus = control
         /\ LET edited == [ActiveTab.document EXCEPT !.edited = TRUE]
            IN  /\ edited \in Document
                /\ edited.src = ActiveTab.document.src
                /\ edited.url = ActiveTab.document.url
                /\ edited.focus = ActiveTab.document.focus
<1>1. ActiveTab.document \in Document
  BY InvParts, ActiveTabType DEF BrowserTab
<1> QED
  BY <1>1 DEF Document

\* What the toolbar says is BOOLEAN.
LEMMA ChromeFlags ==
  ASSUME ShellInv
  PROVE  chrome.loading \in BOOLEAN /\ chrome.error \in BOOLEAN
BY InvParts DEF ChromeOK

\* A click that focuses a text control commits the document it edited.
LEMMA ClickTextControlInv ==
  ASSUME ShellInv, started, UNCHANGED started, NEW c \in Controls, ClickTextControl(c)
  PROVE  ShellInv'
<1>1. ActiveTab.document # NoDocument
  BY PaintedPage DEF ClickTextControl
<1> DEFINE focused == [ActiveTab.document EXCEPT !.focus = c]
<1>2. /\ focused \in Document
      /\ focused.src = ActiveTab.document.src
      /\ focused.url = ActiveTab.document.url
      /\ focused.focus = c
  BY <1>1, EditedDocument
<1>3. /\ CommitDocument(focused)
      /\ focus' = c
      /\ Sync(chrome.loading, chrome.error)
  BY DEF ClickTextControl, SyncOnly
<1> HIDE DEF focused
<1> QED
  BY <1>1, <1>2, <1>3, ChromeFlags, CommitDocumentInv

\* A commit that takes the focus off the page, whatever the toolbar says
\* after it.
LEMMA BlurInv ==
  ASSUME ShellInv, UNCHANGED started, ActiveTab.document # NoDocument,
         focus' = NoControl,
         CommitDocument([ActiveTab.document EXCEPT !.focus = NoControl]),
         NEW loading \in BOOLEAN, NEW error \in BOOLEAN, Sync(loading, error)
  PROVE  ShellInv'
<1> DEFINE blurred == [ActiveTab.document EXCEPT !.focus = NoControl]
<1>1. /\ blurred \in Document
      /\ blurred.src = ActiveTab.document.src
      /\ blurred.url = ActiveTab.document.url
  BY EditedDocument
<1>2. CommitDocument(blurred)
  OBVIOUS
<1> HIDE DEF blurred
<1> QED
  BY <1>1, <1>2, CommitDocumentInv

\* A link that cannot be resolved is clicked: the page stays, unfocused.
LEMMA ClickBadLinkInv ==
  ASSUME ShellInv, started, UNCHANGED started, ClickBadLink
  PROVE  ShellInv'
<1> DEFINE left == [ActiveTab.document EXCEPT
                      !.focus = IF focus = NoControl THEN @ ELSE NoControl]
<1>1. ActiveTab.document # NoDocument
  BY PaintedPage DEF ClickBadLink
<1>2. ActiveTab.document \in Document
  BY <1>1, EditedDocument
<1>3. /\ left \in Document
      /\ left.src = ActiveTab.document.src
      /\ left.url = ActiveTab.document.url
  BY <1>2 DEF Document
<1>4. CommitDocument(left) /\ focus' = NoControl /\ Sync(FALSE, TRUE)
  BY DEF ClickBadLink
<1> HIDE DEF left
<1> QED
  BY <1>1, <1>3, <1>4, CommitDocumentInv

\* Typing marks the focused page as edited, everywhere.
LEMMA TypeInControlInv ==
  ASSUME ShellInv, UNCHANGED started, TypeInControl
  PROVE  ShellInv'
<1> DEFINE edited == [ActiveTab.document EXCEPT !.edited = TRUE]
<1>1. /\ ActiveTab.document # NoDocument
      /\ ActiveTab.document.focus = focus
  BY FocusedPage DEF TypeInControl
<1>2. /\ edited \in Document
      /\ edited.src = ActiveTab.document.src
      /\ edited.url = ActiveTab.document.url
      /\ edited.focus = focus
  BY <1>1, EditedDocument
<1>3. focus' = focus /\ focus \in Controls \cup {NoControl}
  BY InvParts DEF TypeInControl, FocusOK
<1>4. CommitDocument(edited) /\ Sync(chrome.loading, chrome.error)
  BY DEF TypeInControl, SyncOnly
<1> HIDE DEF edited
<1> QED
  BY <1>1, <1>2, <1>3, <1>4, ChromeFlags, CommitDocumentInv

\* Enter in a form without a usable address leaves the page as it is.
LEMMA SubmitByEnterFailsInv ==
  ASSUME ShellInv, UNCHANGED started, SubmitByEnterFails
  PROVE  ShellInv'
<1>1. /\ ActiveTab.document # NoDocument
      /\ ActiveTab.document.focus = focus
  BY FocusedPage DEF SubmitByEnterFails
<1>2. ActiveTab.document \in Document
  BY <1>1, EditedDocument
<1>3. focus' = focus /\ focus \in Controls \cup {NoControl}
  BY InvParts DEF SubmitByEnterFails, FocusOK
<1> QED
  BY <1>1, <1>2, <1>3, CommitDocumentInv DEF SubmitByEnterFails

-----------------------------------------------------------------------------
(* Loads and their results                                                 *)

\* A task that ends leaves the tabs and the screen alone.
LEMMA LoadUrlInv ==
  ASSUME ShellInv, UNCHANGED started, NEW task \in tasks, NEW ok \in BOOLEAN, LoadUrl(task, ok)
  PROVE  ShellInv'
<1> DEFINE Message == [task : LoadTask, ok : BOOLEAN]
<1>1. TabsOK /\ QueuesOK /\ DomOK /\ PaintOK /\ ChromeOK /\ FocusOK
  BY InvParts
<1>2. task \in LoadTask /\ inbox \in Seq(Message)
  BY <1>1 DEF QueuesOK
<1>3. inbox' \in Seq(Message)
  BY <1>2, AppendProperties DEF LoadUrl
<1>4. QueuesOK'
  BY <1>1, <1>3 DEF LoadUrl, QueuesOK
<1>5. TabsOK' /\ DomOK' /\ PaintOK' /\ ChromeOK' /\ FocusOK'
  BY <1>1 DEF LoadUrl, TabsOK, DomOK, PaintOK, PaintShowsActiveTab, ChromeOK,
              FocusOK, FocusIsOnActivePage, ActiveTab, ActiveId
<1> QED
  BY <1>4, <1>5, InvPartsNext

\* Taking a result keeps tabs, runtime, paint, toolbar and focus in step.
LEMMA LoadedResultInv ==
  ASSUME ShellInv, started, UNCHANGED started, NEW task \in LoadTask,
         LoadedResult(task), UNCHANGED <<nextId, navId, tasks>>,
         inbox' \in Seq([task : LoadTask, ok : BOOLEAN])
  PROVE  ShellInv'
<1> DEFINE document == Page(task.nav, task.url)
           record == MarkLoaded(tab[task.tab], document, task.nav)
<1>1. TabsOK /\ QueuesOK /\ DomOK /\ PaintOK /\ ChromeOK /\ FocusOK
  BY InvParts
<1>2. task.tab \in TabIds /\ task.nav \in NavIds /\ task.url \in Urls
  BY DEF LoadTask
<1>3. document \in Document /\ task.nav \in 0 .. MaxNav
  BY <1>2, DocumentTypes DEF NavIds
<1>4. tab[task.tab] \in BrowserTab /\ WellFormed(tab[task.tab].nav)
  BY <1>1, <1>2 DEF TabsOK
<1> HIDE DEF document
<1>5. /\ record \in BrowserTab
      /\ record.nav = tab[task.tab].nav
      /\ record.pending = 0
  BY <1>3, <1>4, DocumentTypes DEF MarkLoaded, BrowserTab
<1>6. tab' = [tab EXCEPT ![task.tab] = record] /\ UNCHANGED <<order, active>>
  BY DEF LoadedResult, document
<1>7. tab[task.tab].document = NoDocument
  BY <1>1, <1>2 DEF LoadedResult, IsPendingNavigation, NavIds, TabsOK
<1> HIDE DEF record
<1>8. /\ TabsOK'
      /\ ActiveId' = ActiveId
      /\ tab'[task.tab] = record
  BY <1>1, <1>2, <1>4, <1>5, <1>6, ReplaceTab
<1>9. QueuesOK'
  BY <1>1, <1>2, RecordVisitType DEF LoadedResult, QueuesOK
<1>10. CASE task.tab = ActiveId
  BY <1>1, <1>7, <1>8, <1>9, <1>10, ApplyFromScratch, SyncType, InvPartsNext DEF DomOK, ActiveTab, LoadedResult,
     FocusOK, FocusIsOnActivePage
<1>11. CASE task.tab # ActiveId
  <2>1. ActiveTab' = ActiveTab
    BY <1>1, <1>6, <1>8, <1>11, ActiveTabType DEF TabsOK, ActiveTab
  <2>2. UNCHANGED <<dom, paint, focus>> /\ Sync(chrome.loading, chrome.error)
    BY <1>11 DEF LoadedResult, SyncOnly
  <2>3. DomOK' /\ PaintOK' /\ FocusOK'
    BY <1>1, <1>8, <2>1, <2>2 DEF DomOK, PaintOK, PaintShowsActiveTab, FocusOK, FocusIsOnActivePage
  <2>4. ChromeOK'
    BY <1>8, <2>2, ChromeFlags, SyncType
  <2> QED
    BY <1>8, <1>9, <2>3, <2>4, InvPartsNext
<1> QED
  BY <1>10, <1>11

\* A failed load changes what the tab waits for, not what is shown.
LEMMA FailedResultInv ==
  ASSUME ShellInv, UNCHANGED started, NEW task \in LoadTask,
         FailedResult(task), UNCHANGED <<nextId, navId, tasks>>,
         inbox' \in Seq([task : LoadTask, ok : BOOLEAN])
  PROVE  ShellInv'
<1> DEFINE record == MarkFailed(tab[task.tab])
<1>1. TabsOK /\ QueuesOK /\ DomOK /\ PaintOK /\ ChromeOK /\ FocusOK
  BY InvParts
<1>2. task.tab \in TabIds
  BY DEF LoadTask
<1>3. tab[task.tab] \in BrowserTab /\ WellFormed(tab[task.tab].nav)
  BY <1>1, <1>2 DEF TabsOK
<1>4. /\ record \in BrowserTab
      /\ record.nav = tab[task.tab].nav
      /\ record.pending = 0
      /\ record.document = tab[task.tab].document
      /\ record.images = tab[task.tab].images
  BY <1>3, DocumentTypes DEF MarkFailed, BrowserTab
<1>5. tab' = [tab EXCEPT ![task.tab] = record] /\ UNCHANGED <<order, active>>
  BY DEF FailedResult
<1> HIDE DEF record
<1>6. /\ TabsOK'
      /\ ActiveId' = ActiveId
      /\ tab'[task.tab] = record
  BY <1>1, <1>2, <1>3, <1>4, <1>5, ReplaceTab
<1>7. /\ ActiveTab'.document = ActiveTab.document
      /\ ActiveTab'.images = ActiveTab.images
  BY <1>1, <1>2, <1>4, <1>5, <1>6, ActiveTabType DEF ActiveTab, TabsOK
<1>8. DomOK' /\ PaintOK' /\ FocusOK'
  BY <1>1, <1>6, <1>7 DEF FailedResult, DomOK, PaintOK, PaintShowsActiveTab, FocusOK, FocusIsOnActivePage
<1>9. ChromeOK'
  BY <1>6, ChromeFlags, SyncType DEF FailedResult, SyncOnly
<1>10. QueuesOK'
  BY <1>1 DEF FailedResult, QueuesOK
<1> QED
  BY <1>6, <1>8, <1>9, <1>10, InvPartsNext

\* Taking one message off the channel, stale or not, restores the invariant.
LEMMA PollInv ==
  ASSUME ShellInv, started, UNCHANGED started, PollPipelineMessage
  PROVE  ShellInv'
<1> DEFINE Message == [task : LoadTask, ok : BOOLEAN]
           message == Head(inbox)
<1>1. TabsOK /\ QueuesOK /\ DomOK /\ PaintOK /\ ChromeOK /\ FocusOK
  BY InvParts
<1>2. inbox \in Seq(Message) /\ inbox # <<>>
  BY <1>1 DEF QueuesOK, PollPipelineMessage
<1>3. message \in Message /\ Tail(inbox) \in Seq(Message)
  BY <1>2, HeadTailProperties
<1>4. message.task \in LoadTask
  BY <1>3
<1>5. inbox' \in Seq(Message) /\ UNCHANGED <<order, active, nextId, navId, tasks>>
  BY <1>3 DEF PollPipelineMessage
<1>6. CASE StaleResult(message.task)
  BY <1>1, <1>5, <1>6, InvPartsNext DEF StaleResult, QueuesOK, TabsOK, DomOK, PaintOK, PaintShowsActiveTab, ChromeOK,
     FocusOK, FocusIsOnActivePage, ActiveTab, ActiveId
<1>7. CASE LoadedResult(message.task)
  BY <1>4, <1>5, <1>7, LoadedResultInv
<1>8. CASE FailedResult(message.task)
  BY <1>4, <1>5, <1>8, FailedResultInv
<1> QED
  BY <1>6, <1>7, <1>8 DEF PollPipelineMessage

-----------------------------------------------------------------------------
(* The theorems                                                            *)

\* A started shell shows nothing before its first navigation.
LEMMA InitInv == Init => ShellInv
<1> SUFFICES ASSUME Init
             PROVE  ShellInv
  OBVIOUS
<1> PICK url \in Urls :
      /\ order = <<1>> /\ active = 1 /\ nextId = 2
      /\ tab = [t \in TabIds |-> NewTabRecord(IF t = 1 THEN url ELSE Blank)]
      /\ navId = 0 /\ tasks = {} /\ inbox = <<>> /\ focus = NoControl
      /\ dom = NoDom /\ paint = [document |-> NoDocument, images |-> 0]
      /\ chrome = [url |-> url, back |-> FALSE, forward |-> FALSE,
                   loading |-> FALSE, error |-> FALSE]
      /\ visits = <<>> /\ started = FALSE
  BY DEF Init
<1>1. 1 \in TabIds /\ MaxTab \in Nat /\ MaxNav \in Nat /\ MaxTab >= 1
  BY ShellAssumption DEF TabIds
<1>2. TabsOK
  BY <1>1, ShellAssumption, NewTabType DEF TabsOK
<1>3. QueuesOK
  <2>1. /\ inbox \in Seq([task : LoadTask, ok : BOOLEAN])
        /\ visits \in Seq([url : Urls, title : Urls])
    OBVIOUS
  <2>2. nextId \in 2 .. MaxTab + 1 /\ navId \in 0 .. MaxNav
    BY <1>1
  <2> QED
    BY <2>1, <2>2 DEF QueuesOK
<1>4. DomOK /\ PaintOK
  BY <1>1, DocumentTypes DEF DomOK, NoDom, PaintOK, PaintShowsActiveTab
<1>5. ChromeOK /\ FocusOK
  BY DEF ChromeOK, FocusOK, FocusIsOnActivePage
<1> QED
  BY <1>2, <1>3, <1>4, <1>5, InvParts

\* Every command of the toolbar restores the invariant.
LEMMA ToolbarEventInv ==
  ASSUME ShellInv, started, UNCHANGED started, ToolbarEvent
  PROVE  ShellInv'
<1>1. TabsOK /\ WellFormed(ActiveTab.nav)
  BY InvParts, ActiveTabType
<1>2. started' \in BOOLEAN
  BY InvParts DEF QueuesOK
<1>3. active \in 1 .. Len(order) /\ Len(order) \in Nat
  BY <1>1 DEF TabsOK
<1>4. ASSUME NEW url \in Urls, NavigateFromInput(url)
      PROVE  ShellInv'
  BY <1>4, NavigateInv DEF NavigateFromInput
<1>5. CASE NavigateFromBadInput
  BY <1>5, ClearOnlyInv DEF NavigateFromBadInput
<1>6. CASE ReloadCurrent
  BY <1>1, <1>2, <1>6, BeginNavigationInv DEF ReloadCurrent
<1>7. CASE GoBack
  BY <1>1, <1>2, <1>7, StepLemma, BeginNavigationInv DEF GoBack
<1>8. CASE GoForward
  BY <1>1, <1>2, <1>8, StepLemma, BeginNavigationInv DEF GoForward
<1>9. CASE GoNowhere
  BY <1>9, ClearOnlyInv DEF GoNowhere
<1>10. CASE NewTab
  BY <1>10, NewTabInv
<1>11. ASSUME NEW t \in TabIds, CloseTab(t)
       PROVE  ShellInv'
  BY <1>11, CloseTabInv
<1>12. ASSUME NEW t \in TabIds, SwitchTab(t)
       PROVE  ShellInv'
  BY <1>12, ActivateInv DEF SwitchTab, OpenTabs, IndexOf
<1>13. CASE NextTab
  BY <1>3, <1>13, ActivateInv DEF NextTab
<1>14. CASE PreviousTab
  BY <1>3, <1>14, ActivateInv DEF PreviousTab
<1> QED
  BY <1>4, <1>5, <1>6, <1>7, <1>8, <1>9, <1>10, <1>11, <1>12, <1>13, <1>14 DEF ToolbarEvent

\* Every event on the page restores the invariant.
LEMMA PageEventInv ==
  ASSUME ShellInv, started, UNCHANGED started, PageEvent
  PROVE  ShellInv'
<1>1. ASSUME NEW c \in Controls, ClickTextControl(c)
      PROVE  ShellInv'
  BY <1>1, ClickTextControlInv
<1>2. CASE ClickButton
  BY <1>2, PaintedPage, ChromeFlags, BlurInv DEF ClickButton, SyncOnly
<1>3. ASSUME NEW url \in Urls, FollowLink(url)
      PROVE  ShellInv'
  BY <1>3, NavigateInv DEF FollowLink
<1>4. CASE ClickBadSubmit
  BY <1>4, PaintedPage, BlurInv DEF ClickBadSubmit
<1>5. CASE ClickBadLink
  BY <1>5, ClickBadLinkInv
<1>6. CASE TypeInControl
  BY <1>6, TypeInControlInv
<1>7. CASE EscapeControl
  BY <1>7, FocusedPage, ChromeFlags, BlurInv DEF EscapeControl, SyncOnly
<1>8. ASSUME NEW url \in Urls, SubmitByEnter(url)
      PROVE  ShellInv'
  BY <1>8, NavigateInv DEF SubmitByEnter
<1>9. CASE SubmitByEnterFails
  BY <1>9, SubmitByEnterFailsInv
<1> QED
  BY <1>1, <1>2, <1>3, <1>4, <1>5, <1>6, <1>7, <1>8, <1>9 DEF PageEvent

\* Every step of the shell keeps its invariant.
LEMMA NextInv == ShellInv /\ [Next]_vars => ShellInv'
<1> SUFFICES ASSUME ShellInv, [Next]_vars
             PROVE  ShellInv'
  OBVIOUS
<1>1. CASE Resumed
  BY <1>1, InvParts, ActiveTabType, BeginNavigationInv DEF Resumed
<1>2. CASE started /\ UNCHANGED started /\ ToolbarEvent
  BY <1>2, ToolbarEventInv
<1>3. CASE started /\ UNCHANGED started /\ PageEvent
  BY <1>3, PageEventInv
<1>4. CASE started /\ UNCHANGED started /\ LoadEnds
  BY <1>4, LoadUrlInv DEF LoadEnds
<1>5. CASE started /\ UNCHANGED started /\ PollPipelineMessage
  BY <1>5, PollInv
<1>6. CASE UNCHANGED vars
  BY <1>6 DEF vars, ShellInv, TypeOK, LoadingTabShowsNothing, PaintShowsActiveTab,
              DomMirrorsActivePage, FocusIsOnActivePage, ActiveTab, ActiveId
<1> QED
  BY <1>1, <1>2, <1>3, <1>4, <1>5, <1>6 DEF Next

\* ShellInv holds in every reachable state.
THEOREM ShellInvariance == Spec => []ShellInv
  BY InitInv, NextInv, PTL DEF Spec

\* TypeOK holds in every reachable state: no interleaving of user, tasks and
\* polls leaves the active index, a back/forward list or the paint state out
\* of range.
THEOREM TypeCorrectness == Spec => []TypeOK
<1>1. ShellInv => TypeOK
  BY DEF ShellInv
<1> QED
  BY <1>1, ShellInvariance, PTL

\* What is painted is always the active tab's page (PaintShowsActiveTab).
THEOREM PaintIsCurrent == Spec => []PaintShowsActiveTab
<1>1. ShellInv => PaintShowsActiveTab
  BY DEF ShellInv
<1> QED
  BY <1>1, ShellInvariance, PTL

\* A live DOM runtime is always the active tab's (DomMirrorsActivePage).
THEOREM DomIsCurrent == Spec => []DomMirrorsActivePage
<1>1. ShellInv => DomMirrorsActivePage
  BY DEF ShellInv
<1> QED
  BY <1>1, ShellInvariance, PTL

\* Keys only ever reach the control focused on the active tab's page
\* (FocusIsOnActivePage).
THEOREM FocusIsCurrent == Spec => []FocusIsOnActivePage
<1>1. ShellInv => FocusIsOnActivePage
  BY DEF ShellInv
<1> QED
  BY <1>1, ShellInvariance, PTL

-----------------------------------------------------------------------------
(* The loads                                                               *)

\* The tabs of the strip are distinct, and a tab outside it waits for nothing.
StripInv ==
  /\ \A i, j \in 1 .. Len(order) : order[i] = order[j] => i = j
  /\ \A i \in 1 .. Len(order) : order[i] < nextId
  /\ \A t \in TabIds : t \notin OpenTabs => tab[t].pending = 0

\* A navigation has one load, which is running or has sent its message once.
NumberedLoads ==
  /\ \A task \in Outstanding : task.nav <= navId
  /\ \A a, b \in Outstanding : a.nav = b.nav => a = b
  /\ \A i \in 1 .. Len(inbox) : inbox[i].task \notin tasks
  /\ \A i, j \in 1 .. Len(inbox) : inbox[i].task = inbox[j].task => i = j

\* What the properties about loads and addresses need to be inductive,
\* beside ShellInv.
LoadsInv ==
  /\ StripInv
  /\ NumberedLoads
  /\ LoadsMeetTheirTabs
  /\ AddressesAreTrue

-----------------------------------------------------------------------------
(* The kinds of steps: what the handlers have in common                    *)

Navigated(nav) ==
  /\ WellFormed(nav)
  /\ ListStep(ActiveTab.nav, nav)
  /\ BeginNavigation(nav)

Edited(document) ==
  /\ ActiveTab.document # NoDocument
  /\ document \in Document
  /\ document.src = ActiveTab.document.src
  /\ document.url = ActiveTab.document.url
  /\ CommitDocument(document)
  /\ \E loading, error \in BOOLEAN : (loading => chrome.loading) /\ Sync(loading, error)

\* navigate_to walks a list as ListStep says.
LEMMA NavigateToStep ==
  ASSUME NEW nav, WellFormed(nav), NEW url \in Urls
  PROVE  ListStep(nav, NavigateTo(nav, url))
<1> DEFINE kept == SubSeq(nav.entries, 1, nav.current)
           new == [entries |-> Append(kept, url), current |-> nav.current + 1]
<1>1. CASE CurrentUrl(nav) = url
  BY <1>1 DEF NavigateTo, ListStep
<1>2. CASE CurrentUrl(nav) # url
  <2>1. /\ nav.entries \in Seq(Urls)
        /\ nav.current \in 1 .. Len(nav.entries)
    BY DEF WellFormed, Controller
  <2>2. /\ kept \in Seq(Urls)
        /\ Len(kept) = nav.current
        /\ \A i \in 1 .. nav.current : kept[i] = nav.entries[i]
    BY <2>1, SubSeqProperties
  <2> HIDE DEF kept
  <2>3. /\ new.entries \in Seq(Urls)
        /\ Len(new.entries) = nav.current + 1
        /\ new.entries[nav.current + 1] = url
        /\ \A i \in 1 .. nav.current : new.entries[i] = kept[i]
    BY <2>1, <2>2, AppendProperties
  <2> HIDE DEF new
  <2>4. SubSeq(new.entries, 1, nav.current) = SubSeq(nav.entries, 1, nav.current)
    BY <2>1, <2>2, <2>3, SubSeqProperties, SeqEqual DEF kept
  <2>5. NavigateTo(nav, url) = new /\ new.current = nav.current + 1
    BY <1>2 DEF NavigateTo, new, kept
  <2> QED
    BY <1>2, <2>3, <2>4, <2>5 DEF ListStep, CurrentUrl
<1> QED
  BY <1>1, <1>2

\* The arrows walk a list without changing it.
LEMMA ArrowSteps ==
  ASSUME NEW nav
  PROVE  /\ ListStep(nav, nav)
         /\ WellFormed(nav) => ListStep(nav, StepBack(nav)) /\ ListStep(nav, StepForward(nav))
BY DEF ListStep, StepBack, StepForward, WellFormed, Controller

\* A handler of the toolbar navigates, changes the tab strip, or clears.
LEMMA ToolbarKinds ==
  ASSUME ShellInv, ToolbarEvent
  PROVE  \/ \E nav : Navigated(nav)
         \/ NewTab
         \/ \E t \in TabIds : CloseTab(t)
         \/ \E k \in 1 .. Len(order) : Activate(k)
         \/ \E error \in BOOLEAN : ClearOnly(error)
<1>1. TabsOK /\ WellFormed(ActiveTab.nav)
  BY InvParts, ActiveTabType
<1>2. active \in 1 .. Len(order) /\ Len(order) \in Nat
  BY <1>1 DEF TabsOK
<1>3. ASSUME NEW url \in Urls, NavigateFromInput(url)
      PROVE  \E nav : Navigated(nav)
  BY <1>1, <1>3, NavigateToLemma, NavigateToStep DEF NavigateFromInput, Navigated
<1>4. CASE ReloadCurrent
  BY <1>1, <1>4, ArrowSteps DEF ReloadCurrent, Navigated
<1>5. CASE GoBack
  BY <1>1, <1>5, ArrowSteps, StepLemma DEF GoBack, Navigated
<1>6. CASE GoForward
  BY <1>1, <1>6, ArrowSteps, StepLemma DEF GoForward, Navigated
<1>7. CASE NavigateFromBadInput \/ GoNowhere
  BY <1>7 DEF NavigateFromBadInput, GoNowhere
<1>8. ASSUME NEW t \in TabIds, SwitchTab(t)
      PROVE  \E k \in 1 .. Len(order) : Activate(k)
  BY <1>8 DEF SwitchTab, OpenTabs, IndexOf
<1>9. CASE NextTab
  BY <1>2, <1>9 DEF NextTab
<1>10. CASE PreviousTab
  BY <1>2, <1>10 DEF PreviousTab
<1> QED
  BY <1>3, <1>4, <1>5, <1>6, <1>7, <1>8, <1>9, <1>10 DEF ToolbarEvent

\* A handler of the page navigates or edits the page.
LEMMA PageKinds ==
  ASSUME ShellInv, started, PageEvent
  PROVE  \/ \E nav : Navigated(nav)
         \/ \E document : Edited(document)
<1>1. TabsOK /\ WellFormed(ActiveTab.nav)
  BY InvParts, ActiveTabType
<1>2. chrome.loading \in BOOLEAN /\ chrome.error \in BOOLEAN
  BY ChromeFlags
<1>3. SyncOnly \/ Sync(FALSE, TRUE)
        => \E loading, error \in BOOLEAN : (loading => chrome.loading) /\ Sync(loading, error)
  BY <1>2 DEF SyncOnly
<1>4. ASSUME NEW url \in Urls, FollowLink(url) \/ SubmitByEnter(url)
      PROVE  \E nav : Navigated(nav)
  BY <1>1, <1>4, NavigateToLemma, NavigateToStep DEF FollowLink, SubmitByEnter, Navigated
<1>5. ASSUME NEW c \in Controls, ClickTextControl(c)
      PROVE  \E document : Edited(document)
  <2> DEFINE focused == [ActiveTab.document EXCEPT !.focus = c]
  <2>1. ActiveTab.document # NoDocument
    BY <1>5, PaintedPage DEF ClickTextControl
  <2>2. /\ focused \in Document
        /\ focused.src = ActiveTab.document.src
        /\ focused.url = ActiveTab.document.url
    BY <2>1, EditedDocument
  <2>3. CommitDocument(focused) /\ SyncOnly
    BY <1>5 DEF ClickTextControl
  <2> HIDE DEF focused
  <2>4. Edited(focused)
    BY <1>3, <2>1, <2>2, <2>3 DEF Edited
  <2> QED
    BY <2>4
<1>6. CASE ClickButton \/ ClickBadSubmit \/ EscapeControl
  <2> DEFINE blurred == [ActiveTab.document EXCEPT !.focus = NoControl]
  <2>1. ActiveTab.document # NoDocument
    BY <1>6, PaintedPage, FocusedPage DEF ClickButton, ClickBadSubmit, EscapeControl
  <2>2. /\ blurred \in Document
        /\ blurred.src = ActiveTab.document.src
        /\ blurred.url = ActiveTab.document.url
    BY <2>1, EditedDocument
  <2>3. CommitDocument(blurred) /\ (SyncOnly \/ Sync(FALSE, TRUE))
    BY <1>6 DEF ClickButton, ClickBadSubmit, EscapeControl
  <2> HIDE DEF blurred
  <2>4. Edited(blurred)
    BY <1>3, <2>1, <2>2, <2>3 DEF Edited
  <2> QED
    BY <2>4
<1>7. CASE ClickBadLink
  <2> DEFINE left == [ActiveTab.document EXCEPT
                        !.focus = IF focus = NoControl THEN @ ELSE NoControl]
  <2>1. ActiveTab.document # NoDocument
    BY <1>7, PaintedPage DEF ClickBadLink
  <2>2. ActiveTab.document \in Document
    BY <2>1, EditedDocument
  <2>3. /\ left \in Document
        /\ left.src = ActiveTab.document.src
        /\ left.url = ActiveTab.document.url
    BY <2>2 DEF Document
  <2>4. CommitDocument(left) /\ Sync(FALSE, TRUE)
    BY <1>7 DEF ClickBadLink
  <2> HIDE DEF left
  <2>5. Edited(left)
    BY <1>3, <2>1, <2>3, <2>4 DEF Edited
  <2> QED
    BY <2>5
<1>8. CASE TypeInControl
  <2> DEFINE edited == [ActiveTab.document EXCEPT !.edited = TRUE]
  <2>1. ActiveTab.document # NoDocument
    BY <1>8, FocusedPage DEF TypeInControl
  <2>2. /\ edited \in Document
        /\ edited.src = ActiveTab.document.src
        /\ edited.url = ActiveTab.document.url
    BY <2>1, EditedDocument
  <2>3. CommitDocument(edited) /\ SyncOnly
    BY <1>8 DEF TypeInControl
  <2> HIDE DEF edited
  <2>4. Edited(edited)
    BY <1>3, <2>1, <2>2, <2>3 DEF Edited
  <2> QED
    BY <2>4
<1>9. CASE SubmitByEnterFails
  BY <1>3, <1>9, FocusedPage, EditedDocument DEF SubmitByEnterFails, Edited
<1> QED
  BY <1>4, <1>5, <1>6, <1>7, <1>8, <1>9 DEF PageEvent

\* Every step of the shell is of one of these kinds.
LEMMA StepKinds ==
  ASSUME ShellInv, Next
  PROVE  \/ \E nav : Navigated(nav)
         \/ NewTab
         \/ \E t \in TabIds : CloseTab(t)
         \/ \E k \in 1 .. Len(order) : Activate(k)
         \/ \E document : Edited(document)
         \/ \E error \in BOOLEAN : ClearOnly(error)
         \/ \E task \in tasks, ok \in BOOLEAN : LoadUrl(task, ok)
         \/ PollPipelineMessage
<1>1. CASE Resumed
  BY <1>1, InvParts, ActiveTabType, ArrowSteps DEF Resumed, Navigated
<1>2. CASE started /\ ToolbarEvent
  BY <1>2, ToolbarKinds
<1>3. CASE started /\ PageEvent
  BY <1>3, PageKinds
<1>4. CASE LoadEnds
  BY <1>4 DEF LoadEnds
<1> QED
  BY <1>1, <1>2, <1>3, <1>4 DEF Next

-----------------------------------------------------------------------------
(* What each kind of step does to the tabs and to the loads on their way   *)

\* No tab but t changes.
OnlyTab(t) == \A u \in TabIds : u # t => tab'[u] = tab[u]

\* A navigation changes the active tab: it is blank, or it waits for the load
\* that has the new number.
LEMMA NavigatedTab ==
  ASSUME ShellInv, NEW nav, Navigated(nav)
  PROVE  /\ ActiveId \in TabIds /\ ActiveId \in OpenTabs
         /\ UNCHANGED <<order, active, nextId, inbox, visits>>
         /\ OnlyTab(ActiveId)
         /\ tab'[ActiveId].nav = nav
         /\ navId' = navId + 1
         /\ \/ /\ CurrentUrl(nav) = Blank
               /\ tab'[ActiveId].pending = 0
               /\ tab'[ActiveId].loading = FALSE
               /\ tab'[ActiveId].document = EmptyDocument
               /\ tasks' = tasks
               /\ Sync(FALSE, FALSE)
            \/ /\ CurrentUrl(nav) # Blank
               /\ tab'[ActiveId].pending = navId + 1
               /\ tab'[ActiveId].loading = TRUE
               /\ tab'[ActiveId].document = NoDocument
               /\ tasks' = tasks \cup {[tab |-> ActiveId, nav |-> navId + 1,
                                        url |-> CurrentUrl(nav)]}
               /\ Sync(TRUE, FALSE)
<1>1. TabsOK /\ QueuesOK
  BY InvParts
<1>2. /\ ActiveId \in TabIds /\ ActiveId \in OpenTabs
      /\ tab[ActiveId] \in BrowserTab
      /\ tab \in [TabIds -> BrowserTab]
  BY <1>1, ActiveTabType DEF ActiveTab, TabsOK
<1>3. /\ UNCHANGED <<nextId, inbox, visits>>
      /\ navId' = navId + 1
      /\ ShowBlankPage(nav) \/ StartLoad(nav)
  BY DEF Navigated, BeginNavigation
<1>4. WellFormed(nav) /\ NavigateTo(nav, CurrentUrl(nav)) = nav
  BY NavigateToCurrent DEF Navigated
<1> DEFINE moved == [tab[ActiveId] EXCEPT !.nav = nav]
<1>5. moved \in BrowserTab /\ moved.nav = nav
  BY <1>2, <1>4 DEF BrowserTab, WellFormed
<1> HIDE DEF moved
<1>6. CASE ShowBlankPage(nav)
  BY <1>2, <1>3, <1>5, <1>6 DEF ShowBlankPage, moved, MarkLoaded, BrowserTab, OnlyTab
<1>7. CASE StartLoad(nav)
  BY <1>2, <1>3, <1>4, <1>5, <1>7 DEF StartLoad, moved, OnlyTab, MarkLoading
<1> QED
  BY <1>3, <1>6, <1>7

\* A new tab is blank.
LEMMA NewTabTab ==
  ASSUME ShellInv, NewTab
  PROVE  /\ nextId \in TabIds
         /\ OnlyTab(nextId)
         /\ tab'[nextId] = NewTabRecord(Blank)
BY InvParts, ShellAssumption DEF NewTab, OnlyTab, TabsOK, QueuesOK, TabIds

\* A closed tab is blank, whether or not its id stays in the strip.
LEMMA CloseTabTab ==
  ASSUME ShellInv, NEW t \in TabIds, CloseTab(t)
  PROVE  /\ OnlyTab(t)
         /\ tab'[t] = NewTabRecord(Blank)
BY InvParts DEF CloseTab, OnlyTab, TabsOK

\* An edit changes neither address, nor load, nor page of the active tab.
LEMMA EditedTab ==
  ASSUME ShellInv, NEW document, Edited(document)
  PROVE  /\ ActiveId \in TabIds
         /\ UNCHANGED <<order, active, nextId, navId, tasks, inbox, visits>>
         /\ OnlyTab(ActiveId)
         /\ tab'[ActiveId].nav = tab[ActiveId].nav
         /\ tab'[ActiveId].pending = tab[ActiveId].pending
         /\ tab'[ActiveId].loading = tab[ActiveId].loading
         /\ tab'[ActiveId].document = document
         /\ document # NoDocument /\ tab[ActiveId].document # NoDocument
         /\ document.src = tab[ActiveId].document.src
         /\ document.url = tab[ActiveId].document.url
<1>1. ActiveId \in TabIds /\ tab \in [TabIds -> BrowserTab]
  BY InvParts, ActiveTabType DEF TabsOK
<1>2. tab' = [tab EXCEPT ![ActiveId].document = document]
  BY DEF Edited, CommitDocument
<1>3. tab'[ActiveId] = [tab[ActiveId] EXCEPT !.document = document] /\ OnlyTab(ActiveId)
  BY <1>1, <1>2 DEF OnlyTab
<1>4. tab[ActiveId] \in BrowserTab
  BY <1>1
<1>5. /\ tab'[ActiveId].nav = tab[ActiveId].nav
      /\ tab'[ActiveId].pending = tab[ActiveId].pending
      /\ tab'[ActiveId].loading = tab[ActiveId].loading
      /\ tab'[ActiveId].document = document
  BY <1>3, <1>4 DEF BrowserTab
<1> QED
  BY <1>1, <1>3, <1>5, DocumentTypes DEF Edited, CommitDocument, ActiveTab

\* A result that is taken, well or badly, ends the wait of its tab.
LEMMA ResultTab ==
  ASSUME ShellInv, NEW task \in LoadTask, LoadedResult(task) \/ FailedResult(task)
  PROVE  /\ task.tab \in OpenTabs
         /\ tab[task.tab].pending = task.nav
         /\ OnlyTab(task.tab)
         /\ tab'[task.tab].nav = tab[task.tab].nav
         /\ tab'[task.tab].pending = 0
         /\ tab'[task.tab].loading = FALSE
         /\ tab[task.tab].document = NoDocument
         /\ LoadedResult(task) => tab'[task.tab].document = Page(task.nav, task.url)
         /\ FailedResult(task) => tab'[task.tab].document = NoDocument
<1>1. TabsOK /\ task.tab \in TabIds /\ task.nav \in NavIds
  BY InvParts DEF LoadTask
<1>2. tab[task.tab] \in BrowserTab /\ tab \in [TabIds -> BrowserTab]
  BY <1>1 DEF TabsOK
<1>3. task.tab \in OpenTabs /\ tab[task.tab].pending = task.nav
  BY DEF LoadedResult, FailedResult, IsPendingNavigation
<1>4. tab[task.tab].document = NoDocument
  BY <1>1, <1>3, ShellAssumption DEF TabsOK, NavIds
<1>5. CASE LoadedResult(task)
  <2>1. /\ tab'[task.tab] = MarkLoaded(tab[task.tab], Page(task.nav, task.url), task.nav)
        /\ OnlyTab(task.tab)
    BY <1>1, <1>2, <1>5 DEF LoadedResult, OnlyTab
  <2>2. \A document, images :
          LET loaded == MarkLoaded(tab[task.tab], document, images)
          IN  /\ loaded.nav = tab[task.tab].nav
              /\ loaded.pending = 0
              /\ loaded.loading = FALSE
              /\ loaded.document = document
    BY <1>2 DEF MarkLoaded, BrowserTab
  <2>3. ~FailedResult(task) \/ tab'[task.tab].document = NoDocument
    BY <1>1, <1>2, <1>4 DEF FailedResult, MarkFailed, BrowserTab
  <2> QED
    BY <1>3, <1>4, <2>1, <2>2, <2>3
<1>6. CASE FailedResult(task) /\ ~LoadedResult(task)
  BY <1>1, <1>2, <1>3, <1>4, <1>6 DEF FailedResult, OnlyTab, MarkFailed, BrowserTab
<1> QED
  BY <1>5, <1>6

\* Every load on its way is a load task.
LEMMA OutstandingType ==
  ASSUME ShellInv
  PROVE  /\ Outstanding \subseteq LoadTask
         /\ inbox \in Seq([task : LoadTask, ok : BOOLEAN])
         /\ navId \in Nat
<1> DEFINE Message == [task : LoadTask, ok : BOOLEAN]
<1>1. tasks \subseteq LoadTask /\ inbox \in Seq(Message)
  BY InvParts DEF QueuesOK
<1>2. ASSUME NEW message \in Message
      PROVE  message.task \in LoadTask
  BY <1>2
<1> HIDE DEF Message
<1>3. \A i \in 1 .. Len(inbox) : inbox[i].task \in LoadTask
  BY <1>1, <1>2, ElementOfSeq
<1> USE DEF Message
<1> QED
  BY <1>1, <1>3, InvParts, ShellAssumption DEF Outstanding, QueuesOK

\* A step that leaves the loads alone keeps their numbers.
LEMMA SameLoads ==
  ASSUME NumberedLoads, UNCHANGED <<tasks, inbox, navId>>
  PROVE  Outstanding' = Outstanding /\ NumberedLoads'
BY DEF NumberedLoads, Outstanding

\* A task that sends its message stays on its way.
LEMMA SentLoads ==
  ASSUME ShellInv, NumberedLoads, NEW task \in tasks, NEW ok \in BOOLEAN, LoadUrl(task, ok)
  PROVE  Outstanding' = Outstanding /\ NumberedLoads'
<1> DEFINE message == [task |-> task, ok |-> ok]
           Message == [task : LoadTask, ok : BOOLEAN]
<1>1. /\ inbox \in Seq(Message)
      /\ Outstanding \subseteq LoadTask
      /\ task \in Outstanding
  BY OutstandingType DEF Outstanding
<1>2. /\ inbox' = Append(inbox, message)
      /\ tasks' = tasks \ {task}
      /\ navId' = navId
  BY DEF LoadUrl
<1>3. message \in Message /\ message.task = task
  BY <1>1
<1> HIDE DEF message, Message
<1>4. /\ Len(inbox') = Len(inbox) + 1
      /\ \A i \in 1 .. Len(inbox) : inbox'[i] = inbox[i]
      /\ inbox'[Len(inbox) + 1] = message
      /\ Len(inbox) \in Nat
  BY <1>1, <1>2, <1>3, AppendProperties, LenProperties
<1>5. Outstanding' = Outstanding
  BY <1>1, <1>2, <1>3, <1>4 DEF Outstanding
<1>6. \A i \in 1 .. Len(inbox) : inbox[i].task # task
  BY DEF NumberedLoads
<1>7. \A i \in 1 .. Len(inbox') : inbox'[i].task \notin tasks'
  BY <1>2, <1>3, <1>4, <1>6 DEF NumberedLoads
<1>8. \A i, j \in 1 .. Len(inbox') : inbox'[i].task = inbox'[j].task => i = j
  BY <1>3, <1>4, <1>6 DEF NumberedLoads
<1> QED
  BY <1>2, <1>5, <1>7, <1>8 DEF NumberedLoads

\* A message that is taken is on its way no longer; the others are.
LEMMA TakenLoads ==
  ASSUME ShellInv, NumberedLoads, PollPipelineMessage
  PROVE  /\ Head(inbox).task \in Outstanding
         /\ Outstanding' = Outstanding \ {Head(inbox).task}
         /\ NumberedLoads'
<1> DEFINE Message == [task : LoadTask, ok : BOOLEAN]
<1>1. inbox \in Seq(Message) /\ inbox # <<>>
  BY OutstandingType DEF PollPipelineMessage
<1>2. inbox' = Tail(inbox) /\ UNCHANGED <<tasks, navId>>
  BY DEF PollPipelineMessage
<1> HIDE DEF Message
<1>3. /\ Head(inbox) = inbox[1]
      /\ Len(inbox) \in Nat \ {0}
      /\ Len(inbox') = Len(inbox) - 1
      /\ \A i \in 1 .. Len(inbox) - 1 : inbox'[i] = inbox[i + 1]
  BY <1>1, <1>2, HeadTailProperties, EmptySeq, LenProperties
<1>4. Outstanding' = Outstanding \ {inbox[1].task}
  <2>1. ASSUME NEW task \in Outstanding'
        PROVE  task \in Outstanding /\ task # inbox[1].task
    <3>1. CASE task \in tasks
      BY <1>3, <3>1 DEF Outstanding, NumberedLoads
    <3>2. CASE task \notin tasks
      <4>1. PICK i \in 1 .. Len(inbox) - 1 : task = inbox[i + 1].task
        BY <1>2, <1>3, <2>1, <3>2 DEF Outstanding
      <4>2. i + 1 \in 1 .. Len(inbox) /\ 1 \in 1 .. Len(inbox) /\ i + 1 # 1
        BY <1>3
      <4> QED
        BY <4>1, <4>2 DEF Outstanding, NumberedLoads
    <3> QED
      BY <3>1, <3>2
  <2>2. ASSUME NEW task \in Outstanding, task # inbox[1].task
        PROVE  task \in Outstanding'
    <3>1. CASE task \in tasks
      BY <1>2, <3>1 DEF Outstanding
    <3>2. CASE task \notin tasks
      <4>1. PICK i \in 1 .. Len(inbox) : task = inbox[i].task
        BY <3>2 DEF Outstanding
      <4>2. i - 1 \in 1 .. Len(inbox) - 1 /\ inbox'[i - 1] = inbox[i]
        BY <1>3, <2>2, <4>1
      <4> QED
        BY <1>3, <4>1, <4>2 DEF Outstanding
    <3> QED
      BY <3>1, <3>2
  <2> QED
    BY <2>1, <2>2
<1>5. inbox[1].task \in Outstanding
  BY <1>3 DEF Outstanding
<1>6. \A i \in 1 .. Len(inbox') : inbox'[i].task \notin tasks'
  BY <1>2, <1>3 DEF NumberedLoads
<1>7. \A i, j \in 1 .. Len(inbox') : inbox'[i].task = inbox'[j].task => i = j
  BY <1>3 DEF NumberedLoads
<1> QED
  BY <1>2, <1>3, <1>4, <1>5, <1>6, <1>7 DEF NumberedLoads

\* A load that starts has a number of its own, larger than all others.
LEMMA NavigatedLoads ==
  ASSUME ShellInv, NumberedLoads, NEW nav, Navigated(nav)
  PROVE  /\ NumberedLoads'
         /\ \A task \in Outstanding : task.nav < navId + 1
         /\ \/ Outstanding' = Outstanding /\ tasks' = tasks
            \/ Outstanding' = Outstanding
                 \cup {[tab |-> ActiveId, nav |-> navId + 1, url |-> CurrentUrl(nav)]}
<1> DEFINE new == [tab |-> ActiveId, nav |-> navId + 1, url |-> CurrentUrl(nav)]
<1>1. Outstanding \subseteq LoadTask /\ navId \in Nat
  BY OutstandingType
<1>2. \A task \in Outstanding : task.nav \in Nat /\ task.nav < navId + 1
  BY <1>1 DEF NumberedLoads, LoadTask, NavIds
<1>3. inbox' = inbox /\ navId' = navId + 1 /\ (tasks' = tasks \/ tasks' = tasks \cup {new})
  BY NavigatedTab
<1>4. new.nav = navId + 1
  OBVIOUS
<1> HIDE DEF new
<1>5. CASE tasks' = tasks
  BY <1>1, <1>2, <1>3, <1>5 DEF NumberedLoads, Outstanding
<1>6. CASE tasks' = tasks \cup {new}
  BY <1>1, <1>2, <1>3, <1>4, <1>6 DEF Outstanding, NumberedLoads, new
<1> QED
  BY <1>3, <1>5, <1>6

\* What a poll takes is a load task; it is stale, or it is the one its tab
\* waits for.
LEMMA PollKinds ==
  ASSUME ShellInv, PollPipelineMessage
  PROVE  /\ Head(inbox).task \in LoadTask
         /\ UNCHANGED <<order, active, nextId, navId, tasks>>
         /\ \/ StaleResult(Head(inbox).task)
            \/ LoadedResult(Head(inbox).task)
            \/ FailedResult(Head(inbox).task)
<1> DEFINE Message == [task : LoadTask, ok : BOOLEAN]
<1>1. inbox \in Seq(Message) /\ inbox # <<>>
  BY OutstandingType DEF PollPipelineMessage
<1>2. Head(inbox) \in Message
  BY <1>1, HeadTailProperties
<1> QED
  BY <1>2 DEF PollPipelineMessage

-----------------------------------------------------------------------------
(* The tab strip                                                           *)

\* The list `rest` is s without its element at k.
LacksOnly(rest, s, k) ==
  /\ Len(rest) = Len(s) - 1
  /\ \A i \in 1 .. Len(s) - 1 : rest[i] = IF i < k THEN s[i] ELSE s[i + 1]
  /\ \A i, j \in 1 .. Len(s) - 1 : rest[i] = rest[j] => i = j
  /\ \A i \in 1 .. Len(s) - 1 : rest[i] # s[k]
  /\ \A j \in 1 .. Len(s) : j # k => \E i \in 1 .. Len(s) - 1 : rest[i] = s[j]

\* Removing one of many leaves the others, in their order.
LEMMA WithoutKeepsOthers ==
  ASSUME NEW S, NEW s \in Seq(S), NEW k \in 1 .. Len(s),
         \A i, j \in 1 .. Len(s) : s[i] = s[j] => i = j
  PROVE  LacksOnly(Without(s, k), s, k)
<1>1. Len(s) \in Nat /\ Len(Without(s, k)) = Len(s) - 1
  BY WithoutType
<1>2. \A i \in 1 .. Len(s) - 1 : Without(s, k)[i] = IF i < k THEN s[i] ELSE s[i + 1]
  BY DEF Without
<1>3. \A i, j \in 1 .. Len(s) - 1 : Without(s, k)[i] = Without(s, k)[j] => i = j
  <2> SUFFICES ASSUME NEW i \in 1 .. Len(s) - 1, NEW j \in 1 .. Len(s) - 1,
                      Without(s, k)[i] = Without(s, k)[j]
               PROVE  i = j
    OBVIOUS
  <2> DEFINE from(n) == IF n < k THEN n ELSE n + 1
  <2>1. from(i) \in 1 .. Len(s) /\ from(j) \in 1 .. Len(s) /\ s[from(i)] = s[from(j)]
    BY <1>1, <1>2
  <2>2. from(i) = from(j)
    BY <2>1
  <2> QED
    BY <2>2
<1>4. \A i \in 1 .. Len(s) - 1 : Without(s, k)[i] # s[k]
  <2> TAKE i \in 1 .. Len(s) - 1
  <2> DEFINE from == IF i < k THEN i ELSE i + 1
  <2>1. from \in 1 .. Len(s) /\ from # k /\ Without(s, k)[i] = s[from]
    BY <1>1, <1>2
  <2> HIDE DEF from
  <2> QED
    BY <2>1
<1>5. ASSUME NEW j \in 1 .. Len(s), j # k
      PROVE  \E i \in 1 .. Len(s) - 1 : Without(s, k)[i] = s[j]
  <2>1. CASE j < k
    BY <1>1, <1>2, <2>1
  <2>2. CASE j > k
    <3>1. j - 1 \in 1 .. Len(s) - 1 /\ ~(j - 1 < k)
      BY <1>1, <2>2
    <3>2. Without(s, k)[j - 1] = s[j - 1 + 1]
      BY <1>2, <3>1
    <3> QED
      BY <3>1, <3>2
  <2> QED
    BY <1>5, <2>1, <2>2
<1> QED
  BY <1>1, <1>2, <1>3, <1>4, <1>5 DEF LacksOnly

\* Closing one tab of many leaves the others open, the user's tab active, and
\* no tab twice.
LEMMA CloseTabStrip ==
  ASSUME ShellInv, StripInv, NEW t \in TabIds, CloseTab(t)
  PROVE  /\ StripInv'
         /\ Len(order') < Len(order) /\ ActiveId \in OpenTabs' => ActiveId' = ActiveId
         /\ OpenTabs' \subseteq OpenTabs
<1>1. TabsOK /\ QueuesOK
  BY InvParts
<1>2. order \in Seq(TabIds) /\ active \in 1 .. Len(order) /\ Len(order) \in Nat
  BY <1>1 DEF TabsOK
<1>3. IndexOf(t) \in 1 .. Len(order) /\ order[IndexOf(t)] = t
  BY DEF CloseTab, OpenTabs, IndexOf
<1>4. OnlyTab(t) /\ tab'[t].pending = 0 /\ nextId' = nextId
  BY CloseTabTab, NewTabType, ShellAssumption DEF CloseTab
<1>5. CASE CloseLastTab(t)
  <2>1. order' = order
    BY <1>5 DEF CloseLastTab
  <2> QED
    BY <1>2, <1>4, <2>1 DEF StripInv, OpenTabs, OnlyTab
<1>6. CASE CloseOneOfMany(t)
  <2> DEFINE k == IndexOf(t)
  <2>1. /\ Len(order) > 1
        /\ order' = Without(order, k)
        /\ active' = IF active >= Len(order) THEN Len(order) - 1
                     ELSE IF k < active THEN active - 1 ELSE active
    BY <1>6 DEF CloseOneOfMany
  <2>2. k \in 1 .. Len(order) /\ order[k] = t
    BY <1>3
  <2> HIDE DEF k
  <2>8. \A i, j \in 1 .. Len(order) : order[i] = order[j] => i = j
    BY DEF StripInv
  <2>9. LacksOnly(order', order, k)
    BY <1>2, <2>1, <2>2, <2>8, WithoutKeepsOthers
  <2>3. /\ Len(order') = Len(order) - 1
        /\ \A i \in 1 .. Len(order) - 1 : order'[i] = IF i < k THEN order[i] ELSE order[i + 1]
        /\ \A i, j \in 1 .. Len(order) - 1 : order'[i] = order'[j] => i = j
        /\ \A i \in 1 .. Len(order) - 1 : order'[i] # t
        /\ \A j \in 1 .. Len(order) : j # k =>
             \E i \in 1 .. Len(order) - 1 : order'[i] = order[j]
    BY <2>2, <2>9 DEF LacksOnly
  <2>4. OpenTabs' = OpenTabs \ {t}
    <3>1. OpenTabs' = {order'[i] : i \in 1 .. Len(order) - 1}
      BY <2>3 DEF OpenTabs
    <3>2. \A i \in 1 .. Len(order) - 1 : order'[i] \in OpenTabs
      <4> TAKE i \in 1 .. Len(order) - 1
      <4>1. i \in 1 .. Len(order) /\ i + 1 \in 1 .. Len(order)
        BY <1>2
      <4>2. order'[i] = order[i] \/ order'[i] = order[i + 1]
        BY <2>3
      <4> QED
        BY <4>1, <4>2 DEF OpenTabs
    <3>3. \A j \in 1 .. Len(order) : order[j] # t => order[j] \in OpenTabs'
      BY <2>2, <2>3, <3>1
    <3> QED
      <4>1. \A u \in OpenTabs' : u \in OpenTabs /\ u # t
        BY <2>3, <3>1, <3>2
      <4>2. \A u \in OpenTabs : u # t => u \in OpenTabs'
        BY <3>3 DEF OpenTabs
      <4>3. t \notin OpenTabs'
        BY <4>1
      <4> QED
        BY <4>1, <4>2, <4>3
  <2>5. \A i \in 1 .. Len(order') : order'[i] < nextId'
    <3> TAKE i \in 1 .. Len(order')
    <3>1. i \in 1 .. Len(order) - 1 /\ i \in 1 .. Len(order) /\ i + 1 \in 1 .. Len(order)
      BY <1>2, <2>3
    <3>2. order'[i] = order[i] \/ order'[i] = order[i + 1]
      BY <2>3, <3>1
    <3> QED
      BY <1>4, <3>1, <3>2 DEF StripInv
  <2>6. StripInv'
    <3>1. \A i, j \in 1 .. Len(order') : order'[i] = order'[j] => i = j
      BY <2>3
    <3>2. \A u \in TabIds : u \notin OpenTabs' => tab'[u].pending = 0
      BY <1>4, <2>4 DEF StripInv, OnlyTab
    <3> QED
      BY <2>5, <3>1, <3>2 DEF StripInv
  <2>7. ASSUME ActiveId \in OpenTabs'
        PROVE  ActiveId' = ActiveId
    <3>1. active # k
      BY <2>2, <2>4, <2>7 DEF ActiveId
    <3>2. CASE k < active
      BY <1>2, <2>1, <2>2, <2>3, <3>2 DEF ActiveId
    <3>3. CASE active < k
      <4>1. active' = active /\ active \in 1 .. Len(order) - 1
        BY <1>2, <2>1, <2>2, <3>3
      <4> QED
        BY <2>3, <3>3, <4>1 DEF ActiveId
    <3> QED
      BY <1>2, <2>2, <3>1, <3>2, <3>3
  <2> QED
    BY <2>4, <2>6, <2>7
<1> QED
  BY <1>5, <1>6 DEF CloseTab

\* Every step keeps the strip, and closing never moves the user.
LEMMA StripStep ==
  ASSUME ShellInv, StripInv, Next
  PROVE  /\ StripInv'
         /\ Len(order') < Len(order) /\ ActiveId \in OpenTabs' => ActiveId' = ActiveId
<1>1. TabsOK /\ QueuesOK /\ order \in Seq(TabIds) /\ Len(order) \in Nat
  BY InvParts DEF TabsOK
<1>2. ASSUME NEW nav, Navigated(nav)
      PROVE  StripInv' /\ order' = order
  <2>1. /\ UNCHANGED <<order, nextId>>
        /\ ActiveId \in OpenTabs
        /\ OnlyTab(ActiveId)
    BY <1>2, NavigatedTab
  <2>2. OpenTabs' = OpenTabs
    BY <2>1 DEF OpenTabs
  <2>3. \A t \in TabIds : t \notin OpenTabs' => tab'[t] = tab[t]
    BY <2>1, <2>2 DEF OnlyTab
  <2> QED
    BY <2>1, <2>2, <2>3 DEF StripInv
<1>3. CASE NewTab
  <2>1. /\ order' = Append(order, nextId)
        /\ nextId' = nextId + 1
        /\ nextId \in TabIds
        /\ OnlyTab(nextId)
        /\ tab'[nextId].pending = 0
    BY <1>3, NewTabTab, NewTabType, ShellAssumption DEF NewTab
  <2>2. /\ Len(order') = Len(order) + 1
        /\ \A i \in 1 .. Len(order) : order'[i] = order[i]
        /\ order'[Len(order) + 1] = nextId
    BY <1>1, <2>1, AppendProperties
  <2>3. \A i \in 1 .. Len(order) : order[i] \in Int /\ order[i] < nextId
    <3>1. \A i \in 1 .. Len(order) : order[i] \in TabIds
      BY <1>1, ElementOfSeq
    <3> QED
      BY <3>1 DEF StripInv, TabIds
  <2>4. \A i \in 1 .. Len(order') : i \in 1 .. Len(order) \/ i = Len(order) + 1
    BY <1>1, <2>2
  <2>5. nextId \in Int
    BY <1>1 DEF QueuesOK
  <2>6. \A i \in 1 .. Len(order') : order'[i] < nextId'
    BY <2>1, <2>2, <2>3, <2>4, <2>5
  <2>7. \A i, j \in 1 .. Len(order') : order'[i] = order'[j] => i = j
    BY <2>2, <2>3, <2>4, <2>5 DEF StripInv
  <2>8. OpenTabs \subseteq OpenTabs' 
    BY <1>1, <2>2 DEF OpenTabs
  <2>9. \A t \in TabIds : t \notin OpenTabs' => tab'[t].pending = 0
    BY <2>1, <2>8 DEF StripInv, OnlyTab
  <2> QED
    BY <1>1, <2>2, <2>6, <2>7, <2>9 DEF StripInv
<1>4. ASSUME NEW t \in TabIds, CloseTab(t)
      PROVE  /\ StripInv'
             /\ Len(order') < Len(order) /\ ActiveId \in OpenTabs' => ActiveId' = ActiveId
  BY <1>4, CloseTabStrip
<1>5. ASSUME NEW k \in 1 .. Len(order), Activate(k)
      PROVE  StripInv' /\ order' = order
  BY <1>5 DEF Activate, StripInv, OpenTabs
<1>6. ASSUME NEW document, Edited(document)
      PROVE  StripInv' /\ order' = order
  BY <1>6, EditedTab DEF StripInv, OpenTabs, OnlyTab
<1>7. ASSUME NEW error \in BOOLEAN, ClearOnly(error)
      PROVE  StripInv' /\ order' = order
  BY <1>7 DEF ClearOnly, StripInv, OpenTabs
<1>8. ASSUME NEW task \in tasks, NEW ok \in BOOLEAN, LoadUrl(task, ok)
      PROVE  StripInv' /\ order' = order
  BY <1>8 DEF LoadUrl, StripInv, OpenTabs
<1>9. CASE PollPipelineMessage
  <2> DEFINE task == Head(inbox).task
  <2>1. /\ task \in LoadTask
        /\ UNCHANGED <<order, nextId>>
        /\ StaleResult(task) \/ LoadedResult(task) \/ FailedResult(task)
    BY <1>9, PollKinds
  <2> HIDE DEF task
  <2>2. CASE StaleResult(task)
    BY <2>1, <2>2 DEF StaleResult, StripInv, OpenTabs
  <2>3. CASE LoadedResult(task) \/ FailedResult(task)
    <3>1. task.tab \in OpenTabs /\ OnlyTab(task.tab)
      BY <2>1, <2>3, ResultTab
    <3>2. OpenTabs' = OpenTabs
      BY <2>1 DEF OpenTabs
    <3>3. \A t \in TabIds : t \notin OpenTabs' => tab'[t] = tab[t]
      BY <3>1, <3>2 DEF OnlyTab
    <3> QED
      BY <2>1, <3>2, <3>3 DEF StripInv
  <2> QED
    BY <1>1, <2>1, <2>2, <2>3
<1> QED
  BY <1>1, <1>2, <1>3, <1>4, <1>5, <1>6, <1>7, <1>8, <1>9, StepKinds

-----------------------------------------------------------------------------
(* Loads and tabs                                                          *)

\* LoadingTabHasTask and NewestLoadWins for one tab.
HasTask(t) ==
  /\ tab[t].loading <=> tab[t].pending # 0
  /\ tab[t].pending # 0 =>
       [tab |-> t, nav |-> tab[t].pending, url |-> CurrentUrl(tab[t].nav)] \in Outstanding

HasNoNewer(t) ==
  \A task \in Outstanding :
    task.tab = t =>
      /\ tab[t].document # NoDocument /\ tab[t].document.src > 0 =>
           task.nav < tab[t].document.src
      /\ tab[t].pending # 0 => task.nav <= tab[t].pending

\* The two properties, tab by tab.
LEMMA TabByTab ==
  /\ LoadsMeetTheirTabs <=> \A t \in TabIds : HasTask(t) /\ HasNoNewer(t)
  /\ LoadsMeetTheirTabs' <=> \A t \in TabIds : HasTask(t)' /\ HasNoNewer(t)'
BY DEF LoadsMeetTheirTabs, LoadingTabHasTask, NewestLoadWins, HasTask, HasNoNewer

\* A tab that is left alone keeps both while no load of it starts and the one
\* it waits for stays on its way.
LEMMA TabLeftAlone ==
  ASSUME NEW t, HasTask(t), HasNoNewer(t),
         tab'[t].nav = tab[t].nav, tab'[t].loading = tab[t].loading,
         tab'[t].pending = tab[t].pending,
         tab'[t].document = tab[t].document
           \/ /\ tab[t].document # NoDocument
              /\ tab'[t].document.src = tab[t].document.src,
         \A task \in Outstanding' : task.tab = t => task \in Outstanding,
         \A task \in Outstanding :
           task.tab = t /\ task.nav = tab[t].pending => task \in Outstanding'
  PROVE  HasTask(t)' /\ HasNoNewer(t)'
<1>1. CurrentUrl(tab[t].nav)' = CurrentUrl(tab[t].nav)
  BY DEF CurrentUrl
<1>2. HasTask(t)'
  <2> DEFINE awaited == [tab |-> t, nav |-> tab[t].pending, url |-> CurrentUrl(tab[t].nav)]
  <2>1. awaited.tab = t /\ awaited.nav = tab[t].pending
    OBVIOUS
  <2>2. tab[t].pending # 0 => awaited \in Outstanding'
    BY <2>1 DEF HasTask
  <2> QED
    BY <1>1, <2>2 DEF HasTask
<1>3. HasNoNewer(t)'
  BY DEF HasNoNewer
<1> QED
  BY <1>2, <1>3

\* A tab that was just emptied waits for nothing.
LEMMA TabEmptied ==
  ASSUME NEW t, tab'[t] = NewTabRecord(Blank)
  PROVE  HasTask(t)' /\ HasNoNewer(t)'
BY DEF HasTask, HasNoNewer, NewTabRecord

\* A navigation keeps loads and tabs together.
LEMMA NavigatedMeets ==
  ASSUME ShellInv, NumberedLoads, LoadsMeetTheirTabs, NEW nav, Navigated(nav)
  PROVE  LoadsMeetTheirTabs'
<1> DEFINE new == [tab |-> ActiveId, nav |-> navId + 1, url |-> CurrentUrl(nav)]
<1>1. /\ \A task \in Outstanding : task.nav < navId + 1
      /\ \A task \in Outstanding : task.nav \in Nat
      /\ navId \in Nat
  BY NavigatedLoads, OutstandingType DEF LoadTask, NavIds
<1>2. new.tab = ActiveId /\ new.nav = navId + 1 /\ new.url = CurrentUrl(nav)
  OBVIOUS
<1>3. /\ Outstanding \subseteq Outstanding'
      /\ Outstanding' \subseteq Outstanding \cup {new}
  BY NavigatedLoads
<1>4. /\ OnlyTab(ActiveId) /\ ActiveId \in TabIds
      /\ tab'[ActiveId].nav = nav
  BY NavigatedTab
<1>5. \/ /\ tab'[ActiveId].pending = 0
         /\ tab'[ActiveId].loading = FALSE
         /\ tab'[ActiveId].document = EmptyDocument
      \/ /\ tab'[ActiveId].pending = navId + 1
         /\ tab'[ActiveId].loading = TRUE
         /\ tab'[ActiveId].document = NoDocument
         /\ new \in Outstanding'
  BY NavigatedTab DEF Outstanding
<1>6. new = [tab |-> ActiveId, nav |-> navId + 1, url |-> CurrentUrl(nav)]
  OBVIOUS
<1> HIDE DEF new
<1>7. ASSUME NEW t \in TabIds, t # ActiveId
      PROVE  HasTask(t)' /\ HasNoNewer(t)'
  BY <1>2, <1>3, <1>4, <1>7, TabByTab, TabLeftAlone DEF OnlyTab
<1>8. ASSUME NEW t \in TabIds, t = ActiveId
      PROVE  HasTask(t)' /\ HasNoNewer(t)'
  <2>1. CurrentUrl(tab[t].nav)' = CurrentUrl(nav)
    BY <1>4, <1>8 DEF CurrentUrl
  <2>2. CASE /\ tab'[t].pending = 0
             /\ tab'[t].loading = FALSE
             /\ tab'[t].document = EmptyDocument
    BY <2>2 DEF EmptyDocument, Page, HasTask, HasNoNewer
  <2>3. CASE /\ tab'[t].pending = navId + 1
             /\ tab'[t].loading = TRUE
             /\ tab'[t].document = NoDocument
             /\ new \in Outstanding'
    BY <1>1, <1>2, <1>3, <1>6, <1>8, <2>1, <2>3 DEF HasTask, HasNoNewer
  <2> QED
    BY <1>5, <1>8, <2>2, <2>3
<1> QED
  BY <1>7, <1>8, TabByTab

\* So does a poll: what it takes was the load its tab waited for, or nobody's.
LEMMA PollMeets ==
  ASSUME ShellInv, StripInv, NumberedLoads, LoadsMeetTheirTabs, PollPipelineMessage
  PROVE  LoadsMeetTheirTabs'
<1> DEFINE task == Head(inbox).task
<1>1. /\ task \in LoadTask
      /\ task \in Outstanding
      /\ Outstanding' = Outstanding \ {task}
      /\ StaleResult(task) \/ LoadedResult(task) \/ FailedResult(task)
  BY PollKinds, TakenLoads
<1> HIDE DEF task
<1>2. CASE StaleResult(task)
  <2> SUFFICES ASSUME NEW t \in TabIds
               PROVE  HasTask(t)' /\ HasNoNewer(t)'
    BY TabByTab
  <2>1. tab'[t] = tab[t] /\ HasTask(t) /\ HasNoNewer(t)
    BY <1>2, TabByTab DEF StaleResult
  <2>2. task.tab = t => task.nav # tab[t].pending
    BY <1>1, <1>2 DEF LoadTask, NavIds, StripInv, StaleResult, IsPendingNavigation
  <2> QED
    BY <1>1, <2>1, <2>2, TabLeftAlone
<1>3. CASE LoadedResult(task) \/ FailedResult(task)
  <2>1. /\ OnlyTab(task.tab)
        /\ task.tab \in TabIds
        /\ task.nav \in NavIds
        /\ tab[task.tab].pending = task.nav
        /\ tab'[task.tab].pending = 0
        /\ tab'[task.tab].loading = FALSE
        /\ LoadedResult(task) => tab'[task.tab].document = Page(task.nav, task.url)
        /\ FailedResult(task) => tab'[task.tab].document = NoDocument
    BY <1>1, <1>3, ResultTab DEF LoadTask
  <2>2. ASSUME NEW t \in TabIds, t # task.tab
        PROVE  HasTask(t)' /\ HasNoNewer(t)'
    BY <1>1, <2>1, <2>2, TabByTab, TabLeftAlone DEF OnlyTab
  <2>3. ASSUME NEW t \in TabIds, t = task.tab
        PROVE  HasTask(t)' /\ HasNoNewer(t)'
    <3>1. ASSUME NEW other \in Outstanding', other.tab = t
          PROVE  other.nav < task.nav
      BY <1>1, <2>1, <2>3, <3>1, OutstandingType, TabByTab DEF NumberedLoads, NavIds, HasNoNewer, LoadTask
    <3>2. tab'[t].pending = 0 /\ tab'[t].loading = FALSE
      BY <2>1, <2>3
    <3>3. HasTask(t)'
      BY <3>2 DEF HasTask
    <3>4. tab'[t].document = NoDocument \/ tab'[t].document.src = task.nav
      BY <1>3, <2>1, <2>3 DEF Page
    <3> QED
      BY <3>1, <3>2, <3>3, <3>4 DEF HasNoNewer
  <2> QED
    BY <2>2, <2>3, TabByTab
<1> QED
  BY <1>1, <1>2, <1>3

\* Every step keeps loads numbered and together with their tabs.
LEMMA LoadsStep ==
  ASSUME ShellInv, StripInv, NumberedLoads, LoadsMeetTheirTabs, Next
  PROVE  NumberedLoads' /\ LoadsMeetTheirTabs'
<1>1. ASSUME NEW nav, Navigated(nav)
      PROVE  NumberedLoads' /\ LoadsMeetTheirTabs'
  BY <1>1, NavigatedLoads, NavigatedMeets
<1>2. ASSUME NEW t \in TabIds, OnlyTab(t), tab'[t] = NewTabRecord(Blank),
             UNCHANGED <<tasks, inbox, navId>>
      PROVE  NumberedLoads' /\ LoadsMeetTheirTabs'
  <2>1. Outstanding' = Outstanding /\ NumberedLoads'
    BY <1>2, SameLoads
  <2>2. ASSUME NEW u \in TabIds, u # t
        PROVE  HasTask(u)' /\ HasNoNewer(u)'
    BY <1>2, <2>1, <2>2, TabByTab, TabLeftAlone DEF OnlyTab
  <2> QED
    BY <1>2, <2>1, <2>2, TabEmptied, TabByTab
<1>3. CASE NewTab
  BY <1>2, <1>3, NewTabTab DEF NewTab, ShowActiveTab
<1>4. ASSUME NEW t \in TabIds, CloseTab(t)
      PROVE  NumberedLoads' /\ LoadsMeetTheirTabs'
  BY <1>2, <1>4, CloseTabTab DEF CloseTab, ShowActiveTab
<1>5. ASSUME UNCHANGED tab, Outstanding' = Outstanding
      PROVE  LoadsMeetTheirTabs'
  BY <1>5 DEF LoadsMeetTheirTabs, LoadingTabHasTask, NewestLoadWins
<1>6. ASSUME NEW k \in 1 .. Len(order), Activate(k)
      PROVE  NumberedLoads' /\ LoadsMeetTheirTabs'
  BY <1>5, <1>6, SameLoads DEF Activate, ShowActiveTab
<1>7. ASSUME NEW document, Edited(document)
      PROVE  NumberedLoads' /\ LoadsMeetTheirTabs'
  <2>1. Outstanding' = Outstanding /\ NumberedLoads'
    BY <1>7, EditedTab, SameLoads
  <2>2. ASSUME NEW t \in TabIds
        PROVE  HasTask(t)' /\ HasNoNewer(t)'
    BY <1>7, <2>1, TabByTab, EditedTab, TabLeftAlone DEF OnlyTab
  <2> QED
    BY <2>1, <2>2, TabByTab
<1>8. ASSUME NEW error \in BOOLEAN, ClearOnly(error)
      PROVE  NumberedLoads' /\ LoadsMeetTheirTabs'
  BY <1>5, <1>8, SameLoads DEF ClearOnly
<1>9. ASSUME NEW task \in tasks, NEW ok \in BOOLEAN, LoadUrl(task, ok)
      PROVE  NumberedLoads' /\ LoadsMeetTheirTabs'
  BY <1>5, <1>9, SentLoads DEF LoadUrl
<1>10. CASE PollPipelineMessage
  BY <1>10, TakenLoads, PollMeets
<1> QED
  BY <1>1, <1>3, <1>4, <1>6, <1>7, <1>8, <1>9, <1>10, StepKinds

-----------------------------------------------------------------------------
(* Addresses                                                               *)

\* A toolbar that was just synchronised tells the truth when it does not
\* invent a load.
LEMMA SyncTells ==
  ASSUME NEW loading, NEW error, Sync(loading, error), loading => ActiveTab.loading'
  PROVE  ToolbarTellsActiveTab'
BY DEF Sync, ToolbarTellsActiveTab

\* A step that leaves the active tab alone may keep what the toolbar says.
LEMMA SyncKeeps ==
  ASSUME ToolbarTellsActiveTab, NEW loading, NEW error, Sync(loading, error),
         loading => chrome.loading, ActiveTab.loading' = ActiveTab.loading
  PROVE  ToolbarTellsActiveTab'
BY SyncTells DEF ToolbarTellsActiveTab

\* AddressMatchesPage survives when every open tab was open and is as it was,
\* shows nothing, or shows the page of its address.
LEMMA AddressByTab ==
  ASSUME AddressMatchesPage,
         \A t \in OpenTabs' :
           \/ t \in OpenTabs /\ tab'[t] = tab[t]
           \/ tab'[t].document = NoDocument
           \/ tab'[t].document.url = CurrentUrl(tab'[t].nav)
  PROVE  AddressMatchesPage'
BY DEF AddressMatchesPage, CurrentUrl

\* The load a result answers is the one its tab waits for, address included.
LEMMA ResultAddress ==
  ASSUME ShellInv, NumberedLoads, LoadsMeetTheirTabs, NEW task \in Outstanding,
         task \in LoadTask, tab[task.tab].pending = task.nav
  PROVE  task.url = CurrentUrl(tab[task.tab].nav)
<1> DEFINE awaited == [tab |-> task.tab, nav |-> tab[task.tab].pending,
                       url |-> CurrentUrl(tab[task.tab].nav)]
<1>1. task.tab \in TabIds /\ task.nav # 0
  BY DEF LoadTask, NavIds
<1>2. awaited \in Outstanding
  BY <1>1, TabByTab DEF HasTask
<1>3. awaited.nav = task.nav /\ awaited.url = CurrentUrl(tab[task.tab].nav)
  OBVIOUS
<1> HIDE DEF awaited
<1>4. awaited = task
  BY <1>2, <1>3 DEF NumberedLoads
<1> QED
  BY <1>3, <1>4

\* A navigation leaves true addresses.
LEMMA NavigatedAddress ==
  ASSUME ShellInv, AddressesAreTrue, NEW nav, Navigated(nav)
  PROVE  AddressesAreTrue'
<1>1. /\ ActiveId \in TabIds
      /\ UNCHANGED <<order, active>>
      /\ OnlyTab(ActiveId)
      /\ tab'[ActiveId].nav = nav
  BY NavigatedTab
<1>2. ActiveId' = ActiveId /\ OpenTabs' = OpenTabs /\ OpenTabs \subseteq TabIds
  BY <1>1, InvParts, ElementOfSeq DEF ActiveId, OpenTabs, TabsOK
<1>3. CASE /\ CurrentUrl(nav) = Blank
           /\ tab'[ActiveId].document = EmptyDocument
           /\ Sync(FALSE, FALSE)
  <2>1. tab'[ActiveId].document.url = CurrentUrl(nav)
    BY <1>3 DEF EmptyDocument, Page
  <2>2. AddressMatchesPage'
    BY <1>1, <1>2, <2>1, AddressByTab DEF OnlyTab, AddressesAreTrue
  <2> QED
    BY <1>3, <2>2, SyncTells DEF AddressesAreTrue
<1>4. CASE /\ tab'[ActiveId].loading = TRUE
           /\ tab'[ActiveId].document = NoDocument
           /\ Sync(TRUE, FALSE)
  BY <1>1, <1>2, <1>4, AddressByTab, SyncTells DEF OnlyTab, AddressesAreTrue, ActiveTab
<1> QED
  BY <1>3, <1>4, NavigatedTab

\* A poll leaves true addresses.
LEMMA PollAddress ==
  ASSUME ShellInv, NumberedLoads, LoadsMeetTheirTabs, AddressesAreTrue, PollPipelineMessage
  PROVE  AddressesAreTrue'
<1> DEFINE task == Head(inbox).task
<1>1. /\ task \in LoadTask
      /\ task \in Outstanding
      /\ UNCHANGED <<order, active>>
      /\ StaleResult(task) \/ LoadedResult(task) \/ FailedResult(task)
  BY PollKinds, TakenLoads
<1> HIDE DEF task
<1>2. /\ ActiveId' = ActiveId /\ OpenTabs' = OpenTabs /\ OpenTabs \subseteq TabIds
      /\ ActiveId \in TabIds
  BY <1>1, InvParts, ElementOfSeq, ActiveTabType DEF ActiveId, OpenTabs, TabsOK
<1>3. CASE StaleResult(task)
  BY <1>2, <1>3 DEF StaleResult, AddressesAreTrue, AddressMatchesPage,
                    ToolbarTellsActiveTab, ActiveTab
<1>4. CASE LoadedResult(task) \/ FailedResult(task)
  <2>1. /\ OnlyTab(task.tab)
        /\ tab[task.tab].pending = task.nav
        /\ tab'[task.tab].nav = tab[task.tab].nav
        /\ LoadedResult(task) => tab'[task.tab].document = Page(task.nav, task.url)
        /\ FailedResult(task) => tab'[task.tab].document = NoDocument
    BY <1>1, <1>4, ResultTab
  <2>2. task.url = CurrentUrl(tab'[task.tab].nav)
    BY <1>1, <2>1, ResultAddress
  <2>3. AddressMatchesPage'
    BY <1>2, <1>4, <2>1, <2>2, AddressByTab DEF Page, OnlyTab, AddressesAreTrue
  <2>4. ToolbarTellsActiveTab'
    <3>1. CASE task.tab = ActiveId
      BY <1>4, <3>1, SyncTells DEF LoadedResult, FailedResult
    <3>2. CASE task.tab # ActiveId
      <4>1. SyncOnly
        BY <1>4, <3>2 DEF LoadedResult, FailedResult
      <4>2. ActiveTab' = ActiveTab
        BY <1>2, <2>1, <3>2 DEF ActiveTab, OnlyTab
      <4> QED
        BY <4>1, <4>2, SyncKeeps DEF SyncOnly, AddressesAreTrue
    <3> QED
      BY <3>1, <3>2
  <2> QED
    BY <2>3, <2>4 DEF AddressesAreTrue
<1> QED
  BY <1>1, <1>3, <1>4

\* Every step leaves true addresses.
LEMMA AddressStep ==
  ASSUME ShellInv, LoadsInv, Next
  PROVE  AddressesAreTrue'
<1>1. /\ StripInv /\ NumberedLoads /\ LoadsMeetTheirTabs
      /\ AddressMatchesPage /\ ToolbarTellsActiveTab /\ AddressesAreTrue
  BY DEF LoadsInv, AddressesAreTrue
<1>2. OpenTabs \subseteq TabIds /\ ActiveId \in TabIds
  BY InvParts, ElementOfSeq, ActiveTabType DEF OpenTabs, TabsOK
<1>3. ASSUME NEW nav, Navigated(nav)
      PROVE  AddressesAreTrue'
  BY <1>1, <1>3, NavigatedAddress
<1>4. ASSUME ShowActiveTab, AddressMatchesPage'
      PROVE  AddressesAreTrue'
  BY <1>4, SyncTells DEF ShowActiveTab, AddressesAreTrue
<1>5. CASE NewTab
  <2>1. /\ nextId \in TabIds
        /\ OnlyTab(nextId)
        /\ tab'[nextId].document = NoDocument
    BY <1>5, NewTabTab DEF NewTabRecord
  <2>2. OpenTabs' \subseteq OpenTabs \cup {nextId}
    BY <1>5, <2>1, InvParts, AppendProperties DEF NewTab, TabsOK, OpenTabs
  <2>3. AddressMatchesPage'
    BY <1>1, <1>2, <2>1, <2>2, AddressByTab DEF OnlyTab
  <2> QED
    BY <1>4, <1>5, <2>3 DEF NewTab
<1>6. ASSUME NEW t \in TabIds, CloseTab(t)
      PROVE  AddressesAreTrue'
  <2>1. /\ OnlyTab(t)
        /\ tab'[t].document = NoDocument
        /\ OpenTabs' \subseteq OpenTabs
    BY <1>1, <1>6, CloseTabTab, CloseTabStrip DEF NewTabRecord
  <2>2. AddressMatchesPage'
    BY <1>1, <1>2, <2>1, AddressByTab DEF OnlyTab
  <2> QED
    BY <1>4, <1>6, <2>2 DEF CloseTab
<1>7. ASSUME NEW k \in 1 .. Len(order), Activate(k)
      PROVE  AddressesAreTrue'
  BY <1>1, <1>4, <1>7 DEF Activate, AddressMatchesPage, OpenTabs
<1>8. ASSUME NEW document, Edited(document)
      PROVE  AddressesAreTrue'
  <2>1. /\ UNCHANGED <<order, active>>
        /\ OnlyTab(ActiveId)
        /\ tab'[ActiveId].nav = tab[ActiveId].nav
        /\ tab'[ActiveId].loading = tab[ActiveId].loading
        /\ tab'[ActiveId].document = document
        /\ tab[ActiveId].document # NoDocument
        /\ document.url = tab[ActiveId].document.url
    BY <1>8, EditedTab
  <2>2. ActiveId' = ActiveId /\ OpenTabs' = OpenTabs /\ ActiveId \in OpenTabs
    BY <2>1, InvParts DEF ActiveId, OpenTabs, TabsOK
  <2>3. tab'[ActiveId].document.url = CurrentUrl(tab'[ActiveId].nav)
    BY <1>1, <2>1, <2>2 DEF AddressMatchesPage
  <2>4. AddressMatchesPage'
    BY <1>1, <1>2, <2>1, <2>2, <2>3, AddressByTab DEF OnlyTab
  <2>5. ActiveTab.loading' = ActiveTab.loading
    BY <2>1, <2>2 DEF ActiveTab
  <2> QED
    BY <1>1, <1>8, <2>4, <2>5, SyncKeeps DEF Edited, AddressesAreTrue
<1>9. ASSUME NEW error \in BOOLEAN, ClearOnly(error)
      PROVE  AddressesAreTrue'
  BY <1>1, <1>9, SyncKeeps DEF ClearOnly, AddressMatchesPage, OpenTabs, ActiveTab, ActiveId, AddressesAreTrue
<1>10. ASSUME NEW task \in tasks, NEW ok \in BOOLEAN, LoadUrl(task, ok)
       PROVE  AddressesAreTrue'
  BY <1>1, <1>10 DEF LoadUrl, AddressesAreTrue, AddressMatchesPage, ToolbarTellsActiveTab,
                     OpenTabs, ActiveTab, ActiveId
<1>11. CASE PollPipelineMessage
  BY <1>1, <1>11, PollAddress
<1> QED
  BY <1>3, <1>5, <1>6, <1>7, <1>8, <1>9, <1>10, <1>11, StepKinds

-----------------------------------------------------------------------------
(* The invariant                                                           *)

\* LoadsInv holds when the shell starts: one tab, no page, no load.
LEMMA InitLoads == Init => LoadsInv
<1> SUFFICES ASSUME Init
             PROVE  LoadsInv
  OBVIOUS
<1>1. PICK url \in Urls :
        /\ order = <<1>> /\ active = 1 /\ nextId = 2
        /\ tab = [t \in TabIds |-> NewTabRecord(IF t = 1 THEN url ELSE Blank)]
        /\ tasks = {} /\ inbox = <<>>
        /\ chrome = [url |-> url, back |-> FALSE, forward |-> FALSE,
                     loading |-> FALSE, error |-> FALSE]
  BY DEF Init
<1>2. Len(order) = 1 /\ order[1] = 1 /\ Len(inbox) = 0 /\ 1 \in TabIds
  BY <1>1, ShellAssumption DEF TabIds
<1>3. \A t \in TabIds : tab[t].pending = 0 /\ tab[t].loading = FALSE
                          /\ tab[t].document = NoDocument
  BY <1>1 DEF NewTabRecord
<1>4. Outstanding = {}
  BY <1>1, <1>2 DEF Outstanding
<1>5. StripInv
  BY <1>1, <1>2, <1>3 DEF StripInv
<1>6. NumberedLoads
  BY <1>2, <1>4 DEF NumberedLoads
<1>7. LoadsMeetTheirTabs
  BY <1>3, <1>4 DEF LoadsMeetTheirTabs, LoadingTabHasTask, NewestLoadWins
<1>8. AddressMatchesPage
  BY <1>2, <1>3 DEF AddressMatchesPage, OpenTabs
<1>9. ToolbarTellsActiveTab
  <2>1. ActiveTab.nav = NewController(url)
    BY <1>1, <1>2 DEF ActiveTab, ActiveId, NewTabRecord
  <2>2. /\ CurrentUrl(ActiveTab.nav) = url
        /\ CanGoBack(ActiveTab.nav) = FALSE /\ CanGoForward(ActiveTab.nav) = FALSE
    BY <2>1 DEF NewController, CurrentUrl, CanGoBack, CanGoForward
  <2> QED
    BY <1>1, <2>2 DEF ToolbarTellsActiveTab
<1> QED
  BY <1>5, <1>6, <1>7, <1>8, <1>9 DEF LoadsInv, AddressesAreTrue

\* Every step keeps LoadsInv.
LEMMA NextLoads == ShellInv /\ LoadsInv /\ [Next]_vars => LoadsInv'
<1> SUFFICES ASSUME ShellInv, LoadsInv, [Next]_vars
             PROVE  LoadsInv'
  OBVIOUS
<1>1. CASE Next
  BY <1>1, StripStep, LoadsStep, AddressStep DEF LoadsInv
<1>2. CASE UNCHANGED vars
  <2>1. OpenTabs' = OpenTabs /\ Outstanding' = Outstanding /\ ActiveId' = ActiveId
    BY <1>2 DEF vars, OpenTabs, Outstanding, ActiveId
  <2>2. StripInv'
    BY <1>2, <2>1 DEF vars, LoadsInv, StripInv
  <2>3. NumberedLoads'
    BY <1>2, <2>1 DEF vars, LoadsInv, NumberedLoads
  <2>4. LoadsMeetTheirTabs'
    BY <1>2, <2>1 DEF vars, LoadsInv, LoadsMeetTheirTabs, LoadingTabHasTask, NewestLoadWins
  <2>5. AddressesAreTrue'
    BY <1>2, <2>1 DEF vars, LoadsInv, AddressesAreTrue, AddressMatchesPage,
                      ToolbarTellsActiveTab, ActiveTab
  <2> QED
    BY <2>2, <2>3, <2>4, <2>5 DEF LoadsInv
<1> QED
  BY <1>1, <1>2

\* Both invariants hold in every reachable state.
THEOREM LoadsInvariance == Spec => [](ShellInv /\ LoadsInv)
<1>1. Init => ShellInv /\ LoadsInv
  BY InitInv, InitLoads
<1>2. (ShellInv /\ LoadsInv) /\ [Next]_vars => (ShellInv /\ LoadsInv)'
  BY NextInv, NextLoads
<1> QED
  BY <1>1, <1>2, PTL DEF Spec

\* Loads and tabs find each other in every reachable state, for every number
\* of tabs, navigations and pages: a tab that waits, waits for a load that is
\* on its way, and no older load ever replaces a newer page
\* (LoadsMeetTheirTabs: start_load, poll_pipeline_messages).
THEOREM LoadsAreNeverLost == Spec => []LoadsMeetTheirTabs
<1>1. ShellInv /\ LoadsInv => LoadsMeetTheirTabs
  BY DEF LoadsInv
<1> QED
  BY <1>1, LoadsInvariance, PTL

\* Every tab shows the page of its address, and the toolbar the address of
\* the active tab (AddressesAreTrue: mark_loading, mark_loaded, chrome.set_*).
THEOREM AddressesStayTrue == Spec => []AddressesAreTrue
<1>1. ShellInv /\ LoadsInv => AddressesAreTrue
  BY DEF LoadsInv
<1> QED
  BY <1>1, LoadsInvariance, PTL

\* Closing a tab never moves the user away from the tab they are on
\* (ClosingKeepsActiveTab: close_tab).
THEOREM ClosingIsInPlace == Spec => ClosingKeepsActiveTab
<1>1. ShellInv /\ LoadsInv /\ [Next]_vars
        => [Len(order') < Len(order) /\ ActiveId \in OpenTabs' => ActiveId' = ActiveId]_vars
  BY StripStep DEF LoadsInv
<1> QED
  BY <1>1, LoadsInvariance, PTL DEF Spec, ClosingKeepsActiveTab

-----------------------------------------------------------------------------
(* The histories                                                           *)

\* A visit that record_visit does record is the last of the list.
LEMMA RecordedLast ==
  ASSUME NEW S, NEW list \in Seq(S), NEW visit \in S, RecordVisit(list, visit) # list
  PROVE  RecordVisit(list, visit)[Len(RecordVisit(list, visit))] = visit
<1> DEFINE longer == Append(list, visit)
           excess == Len(longer) - MaxEntries
<1>1. /\ longer \in Seq(S)
      /\ Len(longer) = Len(list) + 1
      /\ longer[Len(list) + 1] = visit
      /\ Len(list) \in Nat
  BY AppendProperties, LenProperties
<1>2. RecordVisit(list, visit)
        = IF excess > 0 THEN SubSeq(longer, excess + 1, Len(longer)) ELSE longer
  BY DEF RecordVisit
<1> HIDE DEF longer
<1>3. CASE excess > 0
  <2>1. /\ excess + 1 \in 1 .. Len(longer) /\ Len(longer) \in 1 .. Len(longer)
        /\ Len(longer) - (excess + 1) + 1 = MaxEntries /\ MaxEntries \in Nat \ {0}
    BY <1>1, <1>3, MaxEntriesAssumption
  <2>2. /\ Len(SubSeq(longer, excess + 1, Len(longer))) = MaxEntries
        /\ \A i \in 1 .. MaxEntries :
             SubSeq(longer, excess + 1, Len(longer))[i] = longer[excess + 1 + i - 1]
    <3> DEFINE first == excess + 1
               last == Len(longer)
               cut == SubSeq(longer, first, last)
    <3>1. first \in 1 .. Len(longer) + 1 /\ last \in first - 1 .. Len(longer)
      BY <1>1, <2>1
    <3>2. last - first + 1 = MaxEntries
      BY <2>1
    <3> HIDE DEF first, last
    <3>3. Len(cut) = last - first + 1 /\ \A i \in 1 .. last - first + 1 : cut[i] = longer[first + i - 1]
      BY <1>1, <3>1, SubSeqProperties
    <3>4. Len(cut) = MaxEntries /\ \A i \in 1 .. MaxEntries : cut[i] = longer[first + i - 1]
      BY <3>2, <3>3
    <3> QED
      BY <3>4 DEF first, last
  <2>3. excess + 1 + MaxEntries - 1 = Len(longer)
    BY <1>1, <2>1
  <2>4. SubSeq(longer, excess + 1, Len(longer))[MaxEntries] = visit
    BY <1>1, <2>1, <2>2, <2>3
  <2> HIDE DEF excess
  <2> QED
    BY <1>2, <1>3, <2>2, <2>4
<1>4. CASE ~(excess > 0)
  BY <1>1, <1>2, <1>4
<1> QED
  BY <1>3, <1>4

\* No step does to a back/forward list what ListStep excludes.
LEMMA ListsStep ==
  ASSUME ShellInv, Next
  PROVE  \A t \in TabIds : ListStep(tab[t].nav, tab'[t].nav)
<1> SUFFICES ASSUME NEW t \in TabIds
             PROVE  ListStep(tab[t].nav, tab'[t].nav)
  OBVIOUS
<1>1. ASSUME tab'[t].nav = tab[t].nav
      PROVE  ListStep(tab[t].nav, tab'[t].nav)
  BY <1>1 DEF ListStep
<1>2. ASSUME tab'[t] = NewTabRecord(Blank)
      PROVE  ListStep(tab[t].nav, tab'[t].nav)
  BY <1>2 DEF ListStep, NewTabRecord
<1>3. ASSUME NEW nav, Navigated(nav)
      PROVE  ListStep(tab[t].nav, tab'[t].nav)
  BY <1>1, <1>3, NavigatedTab DEF Navigated, ActiveTab, OnlyTab
<1>4. CASE NewTab
  BY <1>1, <1>2, <1>4, NewTabTab DEF OnlyTab
<1>5. ASSUME NEW u \in TabIds, CloseTab(u)
      PROVE  ListStep(tab[t].nav, tab'[t].nav)
  BY <1>1, <1>2, <1>5, CloseTabTab DEF OnlyTab
<1>6. ASSUME NEW document, Edited(document)
      PROVE  ListStep(tab[t].nav, tab'[t].nav)
  BY <1>1, <1>6, EditedTab DEF OnlyTab
<1>7. ASSUME UNCHANGED tab
      PROVE  ListStep(tab[t].nav, tab'[t].nav)
  BY <1>1, <1>7
<1>8. CASE PollPipelineMessage
  <2> DEFINE task == Head(inbox).task
  <2>1. /\ task \in LoadTask
        /\ StaleResult(task) \/ LoadedResult(task) \/ FailedResult(task)
    BY <1>8, PollKinds
  <2> HIDE DEF task
  <2>2. CASE StaleResult(task)
    BY <1>7, <2>2 DEF StaleResult
  <2>3. CASE LoadedResult(task) \/ FailedResult(task)
    BY <1>1, <2>1, <2>3, ResultTab DEF OnlyTab
  <2> QED
    BY <2>1, <2>2, <2>3
<1> QED
  BY <1>3, <1>4, <1>5, <1>6, <1>7, <1>8, StepKinds DEF Activate, ClearOnly, LoadUrl

\* A step that records a visit puts that page into a tab.
LEMMA VisitsStep ==
  ASSUME ShellInv, Next, visits' # visits
  PROVE  \E t \in TabIds :
           /\ tab[t].document = NoDocument
           /\ tab'[t].document # NoDocument
           /\ visits'[Len(visits')].url = tab'[t].document.url
<1>1. ShowActiveTab => visits' = visits
  BY DEF ShowActiveTab
<1>2. \A nav : ~Navigated(nav)
  BY NavigatedTab
<1>3. \A document : ~Edited(document)
  BY EditedTab
<1>4. PollPipelineMessage
  BY <1>1, <1>2, <1>3, StepKinds DEF NewTab, CloseTab, Activate, ClearOnly, LoadUrl
<1> DEFINE task == Head(inbox).task
           Visits == [url : Urls, title : Urls]
<1>5. task \in LoadTask /\ LoadedResult(task)
  BY <1>4, PollKinds DEF StaleResult, FailedResult
<1>6. visits \in Seq(Visits)
  BY InvParts DEF QueuesOK
<1> HIDE DEF task
<1>7. /\ task.tab \in TabIds /\ task.nav \in NavIds /\ task.url \in Urls
      /\ visits' = RecordVisit(visits, Visit(task.url, task.url))
  BY <1>5 DEF LoadTask, LoadedResult
<1>8. Visit(task.url, task.url) \in Visits /\ Visit(task.url, task.url).url = task.url
  BY <1>7 DEF Visit
<1> HIDE DEF Visits
<1>9. visits'[Len(visits')].url = task.url
  BY <1>6, <1>7, <1>8, RecordedLast
<1>10. /\ tab[task.tab].document = NoDocument
       /\ tab'[task.tab].document = Page(task.nav, task.url)
  BY <1>5, ResultTab
<1>11. Page(task.nav, task.url) # NoDocument /\ Page(task.nav, task.url).url = task.url
  BY <1>7, DocumentTypes DEF Page
<1> QED
  BY <1>7, <1>9, <1>10, <1>11

\* The back/forward lists and the visits follow the pages in every step
\* (HistoriesFollowPages: navigation.rs, history.rs).
THEOREM HistoriesAreFaithful == Spec => HistoriesFollowPages
<1>1. ShellInv /\ [Next]_vars
        => [\A t \in TabIds : ListStep(tab[t].nav, tab'[t].nav)]_vars
  BY ListsStep
<1>2. Spec => HistoryListSteps
  BY <1>1, ShellInvariance, PTL DEF Spec, HistoryListSteps
<1>3. ShellInv /\ [Next]_vars
        => [visits' # visits =>
              \E t \in TabIds :
                /\ tab[t].document = NoDocument
                /\ tab'[t].document # NoDocument
                /\ visits'[Len(visits')].url = tab'[t].document.url]_vars
  BY VisitsStep
<1>4. Spec => VisitsAreShownPages
  BY <1>3, ShellInvariance, PTL DEF Spec, VisitsAreShownPages
<1> QED
  BY <1>2, <1>4 DEF HistoriesFollowPages

-----------------------------------------------------------------------------
(* The refinement of TabLoads                                              *)

\* What a tab wants and shows, from its record.
WantedOf(record) == IF record.pending = 0 THEN NoDocument ELSE CurrentUrl(record.nav)

ShownOf(record) == IF record.document = NoDocument THEN NoDocument ELSE record.document.url

\* The mapping, tab by tab.
LEMMA MapByTab ==
  /\ Wanted = [t \in TabIds |-> WantedOf(tab[t])]
  /\ Wanted' = [t \in TabIds |-> WantedOf(tab'[t])]
  /\ Shown = [t \in TabIds |-> ShownOf(tab[t])]
  /\ Shown' = [t \in TabIds |-> ShownOf(tab'[t])]
BY DEF Wanted, Shown, WantedOf, ShownOf, CurrentUrl

\* A step that changes one tab changes its wish and its page only.
LEMMA MapOneTab ==
  ASSUME NEW t \in TabIds, OnlyTab(t)
  PROVE  /\ Wanted' = [Wanted EXCEPT ![t] = WantedOf(tab'[t])]
         /\ Shown' = [Shown EXCEPT ![t] = ShownOf(tab'[t])]
         /\ Wanted[t] = WantedOf(tab[t])
         /\ Shown[t] = ShownOf(tab[t])
BY MapByTab DEF OnlyTab

\* The shell starts as TabLoads does.
LEMMA InitMaps == Init => Loads!Init
<1> SUFFICES ASSUME Init
             PROVE  Loads!Init
  OBVIOUS
<1>1. \A t \in TabIds : WantedOf(tab[t]) = NoDocument /\ ShownOf(tab[t]) = NoDocument
  BY DEF Init, NewTabRecord, WantedOf, ShownOf
<1> QED
  BY <1>1, MapByTab DEF Loads!Init

\* Every step of the shell is a step of TabLoads, or changes nothing there.
LEMMA NextMaps == ShellInv /\ LoadsInv /\ [Next]_vars => [Loads!Next]_<<Wanted, Shown>>
<1> SUFFICES ASSUME ShellInv, LoadsInv, [Next]_vars
             PROVE  [Loads!Next]_<<Wanted, Shown>>
  OBVIOUS
<1>1. NumberedLoads /\ LoadsMeetTheirTabs
  BY DEF LoadsInv
<1>2. ASSUME NEW t \in TabIds, OnlyTab(t), tab'[t] = NewTabRecord(Blank)
      PROVE  Loads!Next
  BY <1>2, MapOneTab DEF WantedOf, ShownOf, NewTabRecord, Loads!Close, Loads!Next
<1>3. ASSUME NEW t \in TabIds, OnlyTab(t),
             WantedOf(tab'[t]) = WantedOf(tab[t]), ShownOf(tab'[t]) = ShownOf(tab[t])
      PROVE  UNCHANGED <<Wanted, Shown>>
  BY <1>3, MapByTab DEF OnlyTab
<1>4. ASSUME UNCHANGED tab
      PROVE  UNCHANGED <<Wanted, Shown>>
  BY <1>4, MapByTab
<1>5. ASSUME NEW nav, Navigated(nav)
      PROVE  Loads!Next
  <2>1. /\ ActiveId \in TabIds
        /\ OnlyTab(ActiveId)
        /\ tab'[ActiveId].nav = nav
        /\ CurrentUrl(nav) \in Urls
    BY <1>5, NavigatedTab, CurrentUrlType DEF Navigated
  <2>2. CASE /\ tab'[ActiveId].pending = 0
             /\ tab'[ActiveId].document = EmptyDocument
    <3>1. /\ WantedOf(tab'[ActiveId]) = NoDocument
          /\ ShownOf(tab'[ActiveId]) = EmptyDocument.url
          /\ EmptyDocument.url = Blank
      BY <2>2, DocumentTypes, ShellAssumption DEF EmptyDocument, Page, WantedOf, ShownOf
    <3>2. Loads!AskBlank(ActiveId)
      BY <2>1, <3>1, MapOneTab DEF Loads!AskBlank
    <3> QED
      BY <2>1, <3>2 DEF Loads!Next
  <2>3. CASE /\ CurrentUrl(nav) # Blank
             /\ tab'[ActiveId].pending = navId + 1
             /\ tab'[ActiveId].document = NoDocument
    BY <2>1, <2>3, OutstandingType, MapOneTab DEF WantedOf, ShownOf, Loads!Ask, Loads!Next
  <2> QED
    BY <1>5, <2>2, <2>3, NavigatedTab
<1>6. CASE NewTab
  BY <1>2, <1>6, NewTabTab
<1>7. ASSUME NEW t \in TabIds, CloseTab(t)
      PROVE  Loads!Next
  BY <1>2, <1>7, CloseTabTab
<1>8. ASSUME NEW document, Edited(document)
      PROVE  UNCHANGED <<Wanted, Shown>>
  BY <1>3, <1>8, EditedTab DEF WantedOf, ShownOf
<1>9. CASE PollPipelineMessage
  <2> DEFINE task == Head(inbox).task
  <2>1. /\ task \in LoadTask
        /\ task \in Outstanding
        /\ StaleResult(task) \/ LoadedResult(task) \/ FailedResult(task)
    BY <1>1, <1>9, PollKinds, TakenLoads
  <2> HIDE DEF task
  <2>2. CASE StaleResult(task)
    BY <1>4, <2>2 DEF StaleResult
  <2>3. CASE LoadedResult(task) \/ FailedResult(task)
    <3>1. /\ task.tab \in TabIds /\ task.nav \in NavIds /\ task.url \in Urls
          /\ OnlyTab(task.tab)
          /\ tab[task.tab].pending = task.nav
          /\ tab'[task.tab].pending = 0
          /\ tab[task.tab].document = NoDocument
          /\ LoadedResult(task) => tab'[task.tab].document = Page(task.nav, task.url)
          /\ FailedResult(task) => tab'[task.tab].document = NoDocument
      BY <2>1, <2>3, ResultTab DEF LoadTask
    <3>2. WantedOf(tab[task.tab]) = task.url /\ task.url # NoDocument
      BY <1>1, <2>1, <3>1, ResultAddress, ShellAssumption DEF WantedOf, NavIds
    <3>3. WantedOf(tab'[task.tab]) = NoDocument
      BY <3>1 DEF WantedOf
    <3>4. CASE LoadedResult(task)
      BY <3>1, <3>2, <3>3, <3>4, DocumentTypes, MapOneTab DEF ShownOf, Page, Loads!Deliver, Loads!Next
    <3>5. CASE FailedResult(task)
      <4>1. ShownOf(tab'[task.tab]) = ShownOf(tab[task.tab])
        BY <3>1, <3>5 DEF ShownOf
      <4>2. Shown' = Shown
        BY <3>1, <4>1, MapByTab DEF OnlyTab
      <4>3. Loads!GiveUp(task.tab)
        BY <3>1, <3>2, <3>3, <4>2, MapOneTab DEF Loads!GiveUp
      <4> QED
        BY <3>1, <4>3 DEF Loads!Next
    <3> QED
      BY <2>3, <3>4, <3>5
  <2> QED
    BY <2>1, <2>2, <2>3
<1>10. CASE UNCHANGED vars
  BY <1>4, <1>10 DEF vars
<1>11. CASE UNCHANGED tab
  BY <1>4, <1>11
<1> QED
  BY <1>5, <1>6, <1>7, <1>8, <1>9, <1>10, <1>11, StepKinds DEF Activate, ClearOnly, LoadUrl

\* The shell, with its threads, ids and stale messages, implements what
\* TabLoads promises of page loads (ImplementsTabLoads).
THEOREM ShellImplementsTabLoads == Spec => ImplementsTabLoads
  BY InitMaps, NextMaps, LoadsInvariance, PTL DEF Spec, ImplementsTabLoads, Loads!Spec
=============================================================================
