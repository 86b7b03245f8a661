---------------------------- MODULE BrowserShell ----------------------------
(***************************************************************************)
(* The browser shell (crates/app/src/main.rs, struct App): the tabs, the   *)
(* page-load tasks spawned on the Tokio runtime, the channel that brings   *)
(* their results back to the winit event loop, and everything the event    *)
(* loop derives from the tabs: the painted page, the page's DOM runtime,   *)
(* the focused form control and the toolbar.                               *)
(*                                                                         *)
(* Every handler runs to completion on the UI thread, so each is one step; *)
(* LoadUrl steps are the other threads.  A document stands for the result  *)
(* of one navigation and carries that navigation's id as `src`, its URL,   *)
(* the control drawn as focused, and whether the user edited it.           *)
(***************************************************************************)
EXTENDS NavigationController, BrowserHistory

CONSTANTS
  Controls,      \* the text controls of a page
  NoControl,     \* no focused control
  NoDocument,    \* a tab without content, a paint state never set
  MaxTab,        \* bound on tab ids
  MaxNav         \* bound on navigation ids

TabIds == 1 .. MaxTab
NavIds == 1 .. MaxNav

\* A page outcome of load_url, or the empty document when src = 0.
Document == [src : 0 .. MaxNav, url : Urls,
             focus : Controls \cup {NoControl}, edited : BOOLEAN]

ASSUME ShellAssumption ==
  /\ Blank \in Urls
  /\ NoControl \notin Controls
  /\ NoDocument \notin Document \cup Urls
  /\ MaxTab \in Nat \ {0}
  /\ MaxNav \in Nat \ {0}

Page(n, url) == [src |-> n, url |-> url, focus |-> NoControl, edited |-> FALSE]

EmptyDocument == Page(0, Blank)

VARIABLES
  order,     \* TabManager.tabs, left to right, as tab ids
  active,    \* TabManager.active_index, from 1
  nextId,    \* TabManager.next_id
  tab,       \* the BrowserTab of each id; ids not in order hold a blank tab
  navId,     \* App.active_navigation_id
  tasks,     \* load tasks still running
  inbox,     \* the pipeline channel
  focus,     \* PageFormController.focused_control_id
  dom,       \* PageDomController: the tab and document of the live runtime
  paint,     \* SharedPaintState: the document and image store on screen
  chrome,    \* BrowserChrome: what the toolbar shows
  visits,    \* BrowserHistory.entries
  started    \* App.has_started_pipeline

vars == <<order, active, nextId, tab, navId, tasks, inbox,
          focus, dom, paint, chrome, visits, started>>

-----------------------------------------------------------------------------
(* TabManager                                                              *)

NewTabRecord(url) ==
  [nav |-> NewController(url), loading |-> FALSE, pending |-> 0,
   document |-> NoDocument, images |-> 0]

OpenTabs == {order[i] : i \in 1 .. Len(order)}

ActiveId == order[active]

ActiveTab == tab[ActiveId]

IndexOf(t) == CHOOSE i \in 1 .. Len(order) : order[i] = t

\* Vec::remove
Without(s, k) == [i \in 1 .. Len(s) - 1 |-> IF i < k THEN s[i] ELSE s[i + 1]]

\* Mutant of MarkLoading: the old page stays in the tab while it loads.
KeepOldPage(record, n, url) ==
  [record EXCEPT !.nav = NavigateTo(record.nav, url), !.loading = TRUE, !.pending = n]

MarkLoading(record, n, url) ==
  [nav |-> NavigateTo(record.nav, url), loading |-> TRUE, pending |-> n,
   document |-> NoDocument, images |-> 0]

MarkLoaded(record, document, images) ==
  [record EXCEPT !.loading = FALSE, !.pending = 0,
                 !.document = document, !.images = images]

\* Mutants of MarkFailed: one of the two fields is not reset.
FailedStillLoading(record) == [record EXCEPT !.pending = 0]
FailedStillPending(record) == [record EXCEPT !.loading = FALSE]

MarkFailed(record) == [record EXCEPT !.loading = FALSE, !.pending = 0]

\* Mutant of IsPendingNavigation: any result will do for a tab that loads.
AnyResultWillDo(t, n) == t \in OpenTabs /\ tab[t].pending # 0

IsPendingNavigation(t, n) == t \in OpenTabs /\ tab[t].pending = n

-----------------------------------------------------------------------------
(* The derived state                                                       *)

NoDom == [tab |-> 0, document |-> NoDocument]

\* sync_from_render_document copies form values and focus into the nodes
\* that exist; it does not rebuild the runtime.
SyncRuntime(runtime, document) ==
  [runtime EXCEPT !.document.focus = document.focus, !.document.edited = document.edited]

\* install_for_tab
InstallForTab(runtime, t, document) ==
  IF runtime.tab = t
    THEN SyncRuntime(runtime, document)
    ELSE [tab |-> t, document |-> document]

\* apply_active_tab_to_paint_state, given the runtime it starts from
ApplyActiveTab(runtime) ==
  /\ dom' = IF ActiveTab'.document = NoDocument
              THEN NoDom
              ELSE InstallForTab(runtime, ActiveId', ActiveTab'.document)
  /\ paint' = [document |-> IF ActiveTab'.document = NoDocument
                              THEN EmptyDocument ELSE ActiveTab'.document,
               images |-> ActiveTab'.images]

\* The toolbar after set_loading, set_loaded or set_error and the
\* sync_browser_to_renderer that ends every handler.
Sync(loading, error) ==
  chrome' = [url |-> CurrentUrl(ActiveTab.nav)',
             back |-> CanGoBack(ActiveTab.nav)',
             forward |-> CanGoForward(ActiveTab.nav)',
             loading |-> loading, error |-> error]

SyncOnly == Sync(chrome.loading, chrome.error)

-----------------------------------------------------------------------------
(* begin_navigation, for the active tab with the controller nav            *)

ShowBlankPage(nav) ==
  /\ CurrentUrl(nav) = Blank
  /\ tab' = [tab EXCEPT ![ActiveId] =
               MarkLoaded([@ EXCEPT !.nav = nav], EmptyDocument, 0)]
  /\ UNCHANGED <<order, active, tasks>>
  /\ ApplyActiveTab(NoDom)
  /\ Sync(FALSE, FALSE)

\* Mutant of StartLoad: begin_navigation does not clear the DOM runtime.
StartLoadKeepsDom(nav) ==
  LET url == CurrentUrl(nav)
  IN  /\ url # Blank
      /\ tab' = [tab EXCEPT ![ActiveId] =
                   MarkLoading([@ EXCEPT !.nav = nav], navId + 1, url)]
      /\ tasks' = tasks \cup {[tab |-> ActiveId, nav |-> navId + 1, url |-> url]}
      /\ UNCHANGED <<order, active, dom>>
      /\ paint' = [document |-> EmptyDocument, images |-> 0]
      /\ Sync(TRUE, FALSE)

StartLoad(nav) ==
  LET url == CurrentUrl(nav)
  IN  /\ url # Blank
      /\ tab' = [tab EXCEPT ![ActiveId] =
                   MarkLoading([@ EXCEPT !.nav = nav], navId + 1, url)]
      /\ tasks' = tasks \cup {[tab |-> ActiveId, nav |-> navId + 1, url |-> url]}
      /\ UNCHANGED <<order, active>>
      /\ dom' = NoDom
      /\ paint' = [document |-> EmptyDocument, images |-> 0]
      /\ Sync(TRUE, FALSE)

\* Every caller has dropped the form focus when it gets here.
BeginNavigation(nav) ==
  /\ navId < MaxNav
  /\ navId' = navId + 1
  /\ focus' = NoControl
  /\ ShowBlankPage(nav) \/ StartLoad(nav)
  /\ UNCHANGED <<nextId, inbox, visits>>

\* A handler that cleared the focus and the DOM runtime and then had
\* nothing to do: the painted page stays.
ClearOnly(error) ==
  /\ focus' = NoControl
  /\ dom' = NoDom
  /\ UNCHANGED <<order, active, nextId, tab, navId, tasks, inbox, paint, visits>>
  /\ Sync(chrome.loading /\ ~error, chrome.error \/ error)

-----------------------------------------------------------------------------
(* Toolbar handlers                                                        *)

Resumed ==
  /\ ~started
  /\ started' = TRUE
  /\ BeginNavigation(ActiveTab.nav)

NavigateFromInput(url) ==
  /\ BeginNavigation(NavigateTo(ActiveTab.nav, url))

\* normalize_user_url rejects the text.
NavigateFromBadInput == ClearOnly(TRUE)

ReloadCurrent == BeginNavigation(ActiveTab.nav)

GoBack ==
  /\ CanGoBack(ActiveTab.nav)
  /\ BeginNavigation(StepBack(ActiveTab.nav))

GoForward ==
  /\ CanGoForward(ActiveTab.nav)
  /\ BeginNavigation(StepForward(ActiveTab.nav))

\* The buttons are disabled at either end of the list; Alt+Left and
\* Alt+Right reach the handlers all the same.
GoNowhere ==
  /\ ~CanGoBack(ActiveTab.nav) \/ ~CanGoForward(ActiveTab.nav)
  /\ ClearOnly(FALSE)

\* What new_tab, close_tab, switch_tab, next_tab and previous_tab do once
\* the TabManager has changed.
ShowActiveTab ==
  /\ focus' = NoControl
  /\ ApplyActiveTab(NoDom)
  /\ Sync(FALSE, FALSE)
  /\ UNCHANGED <<navId, tasks, inbox, visits>>

NewTab ==
  /\ nextId <= MaxTab
  /\ nextId' = nextId + 1
  /\ order' = Append(order, nextId)
  /\ active' = Len(order) + 1
  /\ tab' = [tab EXCEPT ![nextId] = NewTabRecord(Blank)]
  /\ ShowActiveTab

\* The last tab is replaced, under its own id, by a blank one.
CloseLastTab(t) ==
  /\ Len(order) = 1
  /\ active' = 1
  /\ UNCHANGED order

\* Mutant of CloseOneOfMany: the index is not moved left.
CloseKeepsIndex(t) ==
  /\ Len(order) > 1
  /\ order' = Without(order, IndexOf(t))
  /\ active' = IF active >= Len(order) THEN Len(order) - 1 ELSE active

CloseOneOfMany(t) ==
  LET k == IndexOf(t)
  IN  /\ Len(order) > 1
      /\ order' = Without(order, k)
      /\ active' = IF active >= Len(order) THEN Len(order) - 1
                   ELSE IF k < active THEN active - 1 ELSE active

CloseTab(t) ==
  /\ t \in OpenTabs
  /\ CloseLastTab(t) \/ CloseOneOfMany(t)
  /\ tab' = [tab EXCEPT ![t] = NewTabRecord(Blank)]
  /\ UNCHANGED nextId
  /\ ShowActiveTab

Activate(k) ==
  /\ active' = k
  /\ UNCHANGED <<order, nextId, tab>>
  /\ ShowActiveTab

SwitchTab(t) ==
  /\ t \in OpenTabs
  /\ Activate(IndexOf(t))

NextTab == Activate(IF active = Len(order) THEN 1 ELSE active + 1)

PreviousTab == Activate(IF active = 1 THEN Len(order) ELSE active - 1)

-----------------------------------------------------------------------------
(* Page handlers                                                           *)

\* Forms and links are hit-tested on the painted document; only a loaded
\* page has any.
PageIsPainted == paint.document # NoDocument /\ paint.document.src > 0

\* commit_active_document: the runtime, the tab and the paint state take
\* the edited document; the images are those of the tab.
CommitDocument(document) ==
  /\ dom' = IF dom = NoDom THEN NoDom ELSE SyncRuntime(dom, document)
  /\ tab' = [tab EXCEPT ![ActiveId].document = document]
  /\ paint' = [document |-> document, images |-> ActiveTab.images]
  /\ UNCHANGED <<order, active, nextId, navId, tasks, inbox, visits>>

\* execute_page_form_click on a text control.
ClickTextControl(c) ==
  /\ PageIsPainted
  /\ focus' = c
  /\ CommitDocument([ActiveTab.document EXCEPT !.focus = c])
  /\ SyncOnly

\* A click on a button; also a click beside every control and link while a
\* control is focused.
ClickButton ==
  /\ PageIsPainted
  /\ focus' = NoControl
  /\ CommitDocument([ActiveTab.document EXCEPT !.focus = NoControl])
  /\ SyncOnly

\* A click on a link (execute_page_click), or on a submit button of a GET
\* form (execute_page_form_action).
FollowLink(url) ==
  /\ PageIsPainted
  /\ url # Blank
  /\ BeginNavigation(NavigateTo(ActiveTab.nav, url))

\* A submit button of a form that is not GET.
ClickBadSubmit ==
  /\ PageIsPainted
  /\ focus' = NoControl
  /\ CommitDocument([ActiveTab.document EXCEPT !.focus = NoControl])
  /\ Sync(FALSE, TRUE)

\* A link that resolve_link_url rejects; a focused control loses its focus
\* first, but one that is only drawn focused keeps it.
ClickBadLink ==
  /\ PageIsPainted
  /\ focus' = NoControl
  /\ CommitDocument([ActiveTab.document EXCEPT
                       !.focus = IF focus = NoControl THEN @ ELSE NoControl])
  /\ Sync(FALSE, TRUE)

\* execute_page_form_key: text, Backspace, Escape and Enter in a control.
TypeInControl ==
  /\ focus # NoControl
  /\ focus' = focus
  /\ CommitDocument([ActiveTab.document EXCEPT !.edited = TRUE])
  /\ SyncOnly

EscapeControl ==
  /\ focus # NoControl
  /\ focus' = NoControl
  /\ CommitDocument([ActiveTab.document EXCEPT !.focus = NoControl])
  /\ SyncOnly

SubmitByEnter(url) ==
  /\ focus # NoControl
  /\ url # Blank
  /\ BeginNavigation(NavigateTo(ActiveTab.nav, url))

SubmitByEnterFails ==
  /\ focus # NoControl
  /\ focus' = focus
  /\ CommitDocument(ActiveTab.document)
  /\ Sync(FALSE, TRUE)

-----------------------------------------------------------------------------
(* The load tasks and the poll of their results                            *)

\* load_url ends, well or badly, and the task sends its message.
LoadUrl(task, ok) ==
  /\ tasks' = tasks \ {task}
  /\ inbox' = Append(inbox, [task |-> task, ok |-> ok])
  /\ UNCHANGED <<order, active, nextId, tab, navId, focus, dom, paint, chrome, visits>>

\* Mutant of StaleResult: the visit is recorded before the check.
StaleResultVisits(task) ==
  /\ ~IsPendingNavigation(task.tab, task.nav)
  /\ visits' = RecordVisit(visits, Visit(task.url, task.url))
  /\ UNCHANGED <<tab, focus, dom, paint, chrome>>

\* poll_pipeline_messages takes what is in the channel, oldest first.  One
\* step here is one message: a message taken in a later step is one that
\* was sent later.
StaleResult(task) ==
  /\ ~IsPendingNavigation(task.tab, task.nav)
  /\ UNCHANGED <<tab, focus, dom, paint, chrome, visits>>

LoadedResult(task) ==
  /\ IsPendingNavigation(task.tab, task.nav)
  /\ tab' = [tab EXCEPT ![task.tab] =
               MarkLoaded(@, Page(task.nav, task.url), task.nav)]
  /\ visits' = RecordVisit(visits, Visit(task.url, task.url))
  /\ \/ /\ task.tab = ActiveId
        /\ focus' = NoControl
        /\ UNCHANGED <<order, active>>
        /\ ApplyActiveTab(dom)
        /\ Sync(FALSE, FALSE)
     \/ /\ task.tab # ActiveId
        /\ UNCHANGED <<order, active, focus, dom, paint>>
        /\ SyncOnly

FailedResult(task) ==
  /\ IsPendingNavigation(task.tab, task.nav)
  /\ tab' = [tab EXCEPT ![task.tab] = MarkFailed(@)]
  /\ UNCHANGED <<order, active, focus, dom, paint, visits>>
  /\ \/ task.tab = ActiveId /\ Sync(FALSE, TRUE)
     \/ task.tab # ActiveId /\ SyncOnly

PollPipelineMessage ==
  /\ inbox # <<>>
  /\ inbox' = Tail(inbox)
  /\ LET message == Head(inbox)
     IN  \/ StaleResult(message.task)
         \/ message.ok /\ LoadedResult(message.task)
         \/ ~message.ok /\ FailedResult(message.task)
  /\ UNCHANGED <<order, active, nextId, navId, tasks>>

-----------------------------------------------------------------------------

Init ==
  \E url \in Urls :
    /\ order = <<1>>
    /\ active = 1
    /\ nextId = 2
    /\ tab = [t \in TabIds |-> NewTabRecord(IF t = 1 THEN url ELSE Blank)]
    /\ navId = 0
    /\ tasks = {}
    /\ inbox = <<>>
    /\ focus = NoControl
    /\ dom = NoDom
    /\ paint = [document |-> NoDocument, images |-> 0]
    /\ chrome = [url |-> url, back |-> FALSE, forward |-> FALSE,
                 loading |-> FALSE, error |-> FALSE]
    /\ visits = <<>>
    /\ started = FALSE

ToolbarEvent ==
  \/ \E url \in Urls : NavigateFromInput(url)
  \/ NavigateFromBadInput
  \/ ReloadCurrent
  \/ GoBack
  \/ GoForward
  \/ GoNowhere
  \/ NewTab
  \/ \E t \in TabIds : CloseTab(t)
  \/ \E t \in TabIds : SwitchTab(t)
  \/ NextTab
  \/ PreviousTab

PageEvent ==
  \/ \E c \in Controls : ClickTextControl(c)
  \/ ClickButton
  \/ \E url \in Urls : FollowLink(url)
  \/ ClickBadSubmit
  \/ ClickBadLink
  \/ TypeInControl
  \/ EscapeControl
  \/ \E url \in Urls : SubmitByEnter(url)
  \/ SubmitByEnterFails

LoadEnds == \E task \in tasks, ok \in BOOLEAN : LoadUrl(task, ok)

Next ==
  \/ Resumed
  \/ /\ started
     /\ UNCHANGED started
     /\ \/ ToolbarEvent
        \/ PageEvent
        \/ LoadEnds
        \/ PollPipelineMessage

\* about_to_wait polls the channel on every turn of the event loop.  A load
\* task may never end (get_bytes awaits a body without a timeout, a task may
\* panic), and the user owes the shell nothing.
Fairness == WF_vars(started /\ UNCHANGED started /\ PollPipelineMessage)

Spec == Init /\ [][Next]_vars /\ Fairness

-----------------------------------------------------------------------------
(* Properties                                                              *)

LoadTask == [tab : TabIds, nav : NavIds, url : Urls]

BrowserTab ==
  [nav : Controller, loading : BOOLEAN, pending : 0 .. MaxNav,
   document : Document \cup {NoDocument}, images : 0 .. MaxNav]

\* Type invariant.  The active index always points at an open tab, and every
\* back/forward list has its current entry.
TypeOK ==
  /\ order \in Seq(TabIds)
  /\ active \in 1 .. Len(order)
  /\ nextId \in 2 .. MaxTab + 1
  /\ tab \in [TabIds -> BrowserTab]
  /\ \A t \in TabIds : WellFormed(tab[t].nav)
  /\ navId \in 0 .. MaxNav
  /\ tasks \in SUBSET LoadTask
  /\ inbox \in Seq([task : LoadTask, ok : BOOLEAN])
  /\ focus \in Controls \cup {NoControl}
  /\ dom \in [tab : 0 .. MaxTab, document : Document \cup {NoDocument}]
  /\ paint \in [document : Document \cup {NoDocument}, images : 0 .. MaxNav]
  /\ chrome \in [url : Urls, back : BOOLEAN, forward : BOOLEAN,
                 loading : BOOLEAN, error : BOOLEAN]
  /\ visits \in Seq([url : Urls, title : Urls])
  /\ started \in BOOLEAN

\* The loads whose result the shell has not taken yet.
Outstanding == tasks \cup {inbox[i].task : i \in 1 .. Len(inbox)}

\* A tab that says "Loading..." is waiting for a result that is still on its
\* way, for the URL its address bar shows: no interleaving of closing,
\* reopening, reloading and polling leaves a tab waiting for nothing.
LoadingTabHasTask ==
  \A t \in TabIds :
    /\ tab[t].loading <=> tab[t].pending # 0
    /\ tab[t].pending # 0 =>
         [tab |-> t, nav |-> tab[t].pending, url |-> CurrentUrl(tab[t].nav)]
           \in Outstanding

\* A page is on show in a tab only if no newer load of that tab is still on
\* its way: results that arrive out of order never let the older one win.
NewestLoadWins ==
  \A t \in TabIds, task \in Outstanding :
    task.tab = t =>
      /\ tab[t].document # NoDocument /\ tab[t].document.src > 0 =>
           task.nav < tab[t].document.src
      /\ tab[t].pending # 0 => task.nav <= tab[t].pending

\* Loads and tabs find each other, whatever is closed, reopened, reloaded or
\* polled meanwhile (start_load, poll_pipeline_messages): a waiting tab waits
\* for something, and what arrives late changes nothing.
LoadsMeetTheirTabs == LoadingTabHasTask /\ NewestLoadWins

\* The page in a tab is the page of the URL the tab's address bar shows,
\* whatever was clicked while it was loading.
AddressMatchesPage ==
  \A t \in OpenTabs :
    tab[t].document # NoDocument => tab[t].document.url = CurrentUrl(tab[t].nav)

\* What is painted is the active tab's page with that page's images, edits
\* and focus included; an active tab without a page paints the empty one.
PaintShowsActiveTab ==
  started =>
    /\ paint.document = IF ActiveTab.document = NoDocument
                          THEN EmptyDocument ELSE ActiveTab.document
    /\ paint.images = ActiveTab.images

\* When there is a DOM runtime it is the one of the active tab's page and
\* has its values and its focus: events never reach another page's nodes.
DomMirrorsActivePage ==
  dom # NoDom => dom.tab = ActiveId /\ dom.document = ActiveTab.document

\* Keys go to a form control only while the active tab's page has that very
\* control focused.
FocusIsOnActivePage ==
  focus # NoControl =>
    ActiveTab.document # NoDocument /\ ActiveTab.document.focus = focus

\* A tab that waits for a page shows none, and a live DOM runtime has a page.
LoadingTabShowsNothing ==
  /\ \A t \in TabIds : tab[t].pending # 0 => tab[t].document = NoDocument
  /\ dom # NoDom => dom.document # NoDocument

\* The inductive invariant behind the four statements above: a result is
\* applied to a tab without a page, hence without a runtime to keep.
ShellInv ==
  /\ TypeOK
  /\ LoadingTabShowsNothing
  /\ PaintShowsActiveTab
  /\ DomMirrorsActivePage
  /\ FocusIsOnActivePage

\* The toolbar shows the active tab's address and arrows, and it never says
\* it is loading when the active tab is not.
ToolbarTellsActiveTab ==
  /\ chrome.url = CurrentUrl(ActiveTab.nav)
  /\ chrome.back = CanGoBack(ActiveTab.nav)
  /\ chrome.forward = CanGoForward(ActiveTab.nav)
  /\ chrome.loading => ActiveTab.loading

\* An address shown is the address of what is shown, in every tab and in the
\* toolbar (mark_loading, mark_loaded, chrome.set_*).
AddressesAreTrue == AddressMatchesPage /\ ToolbarTellsActiveTab

\* A back/forward list is walked, or cut after its current entry and
\* extended by one that differs, or reset with its tab: going back (which
\* passes through navigate_to again in mark_loading) never loses the
\* forward entries.
ListStep(old, new) ==
  \/ new.entries = old.entries
  \/ /\ new.current = old.current + 1
     /\ Len(new.entries) = new.current
     /\ SubSeq(new.entries, 1, old.current) = SubSeq(old.entries, 1, old.current)
     /\ new.entries[new.current] # old.entries[old.current]
  \/ new = NewController(Blank)

\* Every list of every tab, in every step (mark_loading, go_back, go_forward).
HistoryListSteps ==
  [][\A t \in TabIds : ListStep(tab[t].nav, tab'[t].nav)]_vars

\* Closing a tab never moves the user away from the tab they are on.
ClosingKeepsActiveTab ==
  [][Len(order') < Len(order) /\ ActiveId \in OpenTabs' => ActiveId' = ActiveId]_vars

\* A visit is recorded only in the step that puts that page into a tab: a
\* stale or failed load leaves no trace in the history.
VisitsAreShownPages ==
  [][visits' # visits =>
       \E t \in TabIds :
         /\ tab[t].document = NoDocument
         /\ tab'[t].document # NoDocument
         /\ visits'[Len(visits')].url = tab'[t].document.url]_vars

\* Both histories follow the pages: the list of each tab (navigation.rs) and
\* the visits of the browser (history.rs).
HistoriesFollowPages == HistoryListSteps /\ VisitsAreShownPages

\* A tab waits for a load only as long as its task runs: once the task has
\* ended, well or badly, the tab shows the result, fails or turns to another
\* load, whichever other loads stall for ever and whatever the user does to
\* the tabs meanwhile (begin_navigation, poll_pipeline_messages).
EndedLoadsSettle ==
  \A n \in NavIds :
    ((\E t \in TabIds : tab[t].pending = n) /\ (\A task \in tasks : task.nav # n))
      ~> (\A t \in TabIds : tab[t].pending # n)

\* The mapping to TabLoads: a tab wants the URL of its pending navigation
\* and shows the URL of its document.
Wanted == [t \in TabIds |->
             IF tab[t].pending = 0 THEN NoDocument ELSE CurrentUrl(tab[t].nav)]

Shown == [t \in TabIds |->
            IF tab[t].document = NoDocument THEN NoDocument ELSE tab[t].document.url]

Loads == INSTANCE TabLoads WITH
  Tabs <- TabIds, Pages <- Urls, BlankPage <- Blank, Nothing <- NoDocument,
  wanted <- Wanted, shown <- Shown

\* The shell, with its threads, its ids and its stale messages, keeps the
\* promise of TabLoads.
ImplementsTabLoads == Loads!Spec

\* dom.rs keeps "a mutable DOM runtime beside the active render document":
\* a page on screen has one.
DomBesideDocument == PageIsPainted => dom # NoDom

=============================================================================
