# Sylphos: TLA+ models, model checking and proofs

Sylphos is a web browser in Rust (`crates/app`), with its own HTML parser
(`crates/html_mvp`), presentation engine (`crates/present`), JavaScript engine
and platform hosts (`crates/syljs`), and an HTTP client (`crates/fetch`). This
directory models the parts of it that hold state over several steps or share
it between actors, and the algorithms that turn the text of a page into what is
shown of it; checks them with TLC on small instances; and proves with TLAPS, for
every instance, what holds of the shell, the event loop, the lexer, the HTTP cache, the
resources of pages, the hosts of SylJS, the stores of scripts, the cascade of
styles and the page the user works with.

Run one model with `tlc -config X.cfg M.tla`, the proofs of one module with
`tlapm M.tla`, for M one of `BrowserShellProofs`, `SylJsProofs`,
`LoadingProofs`, `HostProofs`, `HostDataProofs`, `DocumentProofs`, `PageProofs`
and `CollectionsProofs`.

## 1. The system

| component | state | operations | what is hard | what makes it correct |
|---|---|---|---|---|
| Shell (`app/src/main.rs`, `browser/{tabs,navigation,forms,dom}.rs`, `render/shared.rs`) | tabs with a back/forward list, page and pending navigation; pipeline channel; paint state; page DOM runtime; focused control; toolbar | toolbar commands, page clicks and keys, `begin_navigation`, `load_url` tasks, `poll_pipeline_messages` | results of overlapping loads arrive in any order, for tabs closed, blanked or reloaded meanwhile; five copies of "what is shown" kept in step by hand | a stale result changes nothing; a loading tab has a load to wait for; paint, runtime and focus belong to the active tab's page; the toolbar does not lie |
| Visit history (`browser/history.rs`) | entries, newest last, a file | `record_visit`, `load`, `save` | bound, repeats, a file that is older or longer | one entry per page shown, never beyond the bound |
| HTTP cache (`browser/cache.rs`) | memory tier with byte count and recency list; two files per entry | `get_or_fetch_bytes`, `read`, `write`, `clear` | concurrent loads on the same files, process death between two renames | hits are fresh and whole, bytes are accounted, eviction is least-recent |
| Resource scheduler, HTTP client (`browser/{resources,http,images}.rs`, `syljs/src/http.rs`, `fetch`) | tasks waiting for the network, the summary of the navigation shared by all loads | single and batched requests, redirects, size limits, classification | summary reset under running loads; redirects, limits and caches at once | redirects and bodies stay in their limits, each request has one outcome in its order, the summary adds up |
| Page security (`browser/security.rs`, `js/security_policy.rs`, `syljs/src/security.rs`) | none or a table | header and URL decisions | - | decisions follow the header tables |
| JavaScript event loop (`syljs/src/event_loop.rs`, `promise.rs`) | task, microtask and frame queues, timers, virtual time | timers, microtasks, frames, `run_until_idle` | callbacks that re-enter the queues, timers promoted, cleared and re-armed, limits, throws | no timer lost, doubled or overtaken; microtasks first; time waits for work |
| JavaScript engine (`lexer`, `parser`, `compiler`, `vm`, `value`) | tokens, tree, bytecode, stack, scopes | lex, parse, compile, run | precedence, recovery from errors, jump patching, stack balance, calls and constructors | compiled code means what the source says |
| Workers, transferables (`worker.rs`, `transfer.rs`) | runtimes, queues both ways, detached buffers | create, post, terminate, structured clone | messages around boot, close and terminate | messages in order, none to a dead worker |
| Script pipeline (`script_pipeline.rs`) | deferred and async queues, parse state | discover, finish parsing, finish document | order of parser-blocking, async and defer scripts; errors | each script runs once, deferred ones in order |
| Cache API, service workers (`cache_api.rs`, `app/src/js/service_worker.rs`) | caches, registrations, controllers | put, match, register, intercept | bounds, partial precache, scopes | longest scope controls, bounds hold |
| Media, canvas, Web API, DOM, CSSOM hosts | per-object tables | platform calls | ready states, stale handles | ready state follows the buffers |
| Invalidation (`syljs/src/invalidation.rs`, `present/src/{invalidation,reflow}.rs`) | pending batch | submit, coalesce, flush | merging scopes | nothing dirty is lost |
| App-side script pass (`app/src/js/{scripts,runtime,dom_bindings,event_loop,service_worker}.rs`) | scripts of a page, queued effects, the render document | collect, fetch, scan, queue and apply effects | order of effects of scripts and tasks; edits that unmake blocks | scripts change the page in turn, blocks keep their elements |
| Script stores (`app/src/js/{web_platform,cookies,storage,history_api}.rs`) | cookie jar, items of an origin, script-made history, their files | text scan, load, apply, write | copies in parallel pages, a crash within a write, lookalike domains and origins | what a script keeps is seen only by who may see it |
| HTML parser (`html_mvp`) | token list, open elements | tokenize, build, normalise, serialize | implied end tags, unclosed input, raw text | no text lost, a page written out reads back |
| Extraction and style (`present/src/{extract,inline,stylesheet,document,selector,styled,style,cssom}.rs`, `browser/stylesheets.rs`, CSSOM bridges) | blocks and forms, sheets loaded so far, styles, revisions | extract, fetch and import sheets, cascade, edit sheets | links that are run together, imports that import themselves, shorthands | words and links whole, sheets once, the cascade's last word, edits redrawn |
| Layout, paint, page runtime (`present/src/{layout,paint,hit,flex_grid,mutation,events,forms,reflow,invalidation,state}.rs`, `browser/{dom,forms}.rs`, `render/shared.rs`) | placed blocks, DOM beside the document, caret, frames, dirty rectangles | lay out, click, type, scroll, submit, draw | three copies of one page, partial redraws | DOM, document, keyboard and screen agree |
| Renderer, chrome widgets, DevTools, utilities | GPU atlases, widgets, reports | drawing, formatting | none that a state model reaches | - |

The shell owns the pipeline channel, the cache store and the resource
scheduler; a load task fetches through the scheduler and the store, parses,
runs the page's scripts (SylJS, with its event loop, workers and hosts), lays
the page out and sends one message back. Only the shell's thread touches tabs,
paint, runtime and toolbar; the store and the scheduler's summary are shared by
all tasks behind mutexes.

The app never runs SylJS over a page's scripts: `app/src/js` scans their text for
the calls it knows and applies what they would do (`ScriptSource`, `DomBindings`).
The engine and its hosts are a library with an API of their own, and are modelled
as that.

## 2. Modules

| module | models | state and actions |
|---|---|---|
| `NavigationController` | a tab's back/forward list | operators on `[entries, current]` |
| `BrowserHistory` | the list of visits | `RecordVisit` |
| `BrowserShell` | `App` with its tabs, loads and derived state | one action per handler: `NavigateFromInput`, `ReloadCurrent`, `GoBack`, `GoForward`, `NewTab`, `CloseTab`, `SwitchTab`, `NextTab`, `PreviousTab`, the page clicks and keys, `LoadUrl` (a task ends), `PollPipelineMessage` |
| `TabLoads` | abstract specification of a load: asked for, running, answered or dropped | `BrowserShell` implements it (`ImplementsTabLoads`) |
| `EventLoop` | `JsEventLoop` and `run_until_idle` | one action per call a script can make and per branch of the loop |
| `MemoryCache` | the memory tier | operators on `[entries, order, total]` |
| `HttpCache` | `CacheStore` shared by load tasks | one action per use of the mutex and per file-system call |
| `Workers` | `ResearchWorkerHost`, the runtime of each worker, `queue_worker_message` | create, listen, post, terminate, run a task of the page |
| `Transfer` | `ResearchTransferHost`, buffers, typed arrays, `structuredClone` | one action per constructor and method that makes a buffer or a view |
| `ScriptPipeline` | `run_research_script_pipeline` | discover, start, return, throw, fail to load, and the calls of `finish_parsing` in order |
| `MediaElements` | `ResearchMediaHost` | one action per method that changes an element, a source or a buffer |
| `CacheStorage` | `ResearchCacheStorage` and `ResearchServiceWorkerHost` | open, delete, put and its callers, register, unregister |
| `DomTree` | `ResearchDom`: nodes by id, listeners, searches | one action per method that changes the map; `querySelector` as the stack it walks |
| `Invalidation` | `InvalidationEngine`, its converters, coalescing and plans | `Submit`, `FlushPlan`; the fold of a queue into one plan as operators |
| `MCPlatform` | the seven hosts above, one at a time | `host` says which |
| `JsLexer`, `JsParser` | `lexer.rs`, `parser.rs` | one action per token read, per statement read or skipped |
| `JsVm` | `compiler.rs`, `bytecode.rs`, `vm.rs`, `value.rs` | `CompileScript`, one step per instruction |
| `HtmlTree` | `html_mvp`: tokenizer, builder, normaliser, serializer | a page is read, written out and read again |
| `StyleCascade` | `selector.rs`, `styled.rs`, `style.rs`, `css_lite.rs`, the CSSOM engine | `DocumentStyled`, `PageRestyled` |
| `ScriptCssom` | `syljs/src/cssom.rs` | one action per method that changes a style |
| `ScriptSource` | what a scan sees of a script | operators |
| `ScriptStores` | cookies, storage and script-made history of pages that load in parallel, and their files | a page opens, runs a script, writes, fetches, ends; the process dies |
| `DomBindings`, `PageWorkers` | the DOM and service worker calls found in a script and what they do | operators |
| `PageScripts` | the pass over the scripts of one page | `ScriptExecuted`, `ScriptSkipped`, `ExternalFails`, `TaskRuns`, `MicrotasksRun`, `PassEnds` |
| `PageExtract` | blocks, forms and style sources of a tree, and the sheets fetched for them | a page is extracted; its sheets are loaded, any of them failing |
| `PageLayout` | block and inline layout, paint plan, hit testing | operators on documents |
| `PageRuntime` | a page the user works with | clicks, keys, focus, resizes, frames |
| `FlexGrid` | flexbox and grid, the app's layout trees | `TreeLaidOut` |
| `ResourceLoads` | the scheduler, the client and the images of pages that load in parallel | one action per answer of the network and per decision between two awaits |
| `MCPage` | the modules from `JsLexer` to `ResourceLoads`, one part at a time | `part` says which |
| `Collections` | what `retain`, `collect` and the order of a `BTreeMap` do to lists and maps, written so that it can be proved about | operators |
| `CollectionsProofs` | lemmas about `Collections`, lists, least numbers and what a definition by counting builds | - |
| `BrowserShellProofs` | lemmas and theorems about `BrowserShell`: what is shown; loads, histories, the refinement | - |
| `SylJsProofs` | of `EventLoop`, `JsLexer` and `PageScripts` | - |
| `LoadingProofs` | of `HttpCache` with `MemoryCache`, of `ResourceLoads` | - |
| `PageProofs` | of `PageLayout` and `PageRuntime` | - |
| `DocumentProofs` | of `DomTree`, of `StyleCascade` (the cascade of a node, the summary sheet and what a script does to it), of `ScriptCssom` | - |
| `HostProofs` | of `ScriptPipeline`, `Invalidation`, `CacheStorage`, `ScriptStores` | - |
| `HostDataProofs` | of `Transfer`, `Workers`, `MediaElements` | - |
| `MC*` | instances for TLC; `MCHtmlTree` takes the round-trip test of `html_mvp` by its word | - |

`PROJECT.json` maps definitions to the code they stand for. A helper of a line or
two, for lines the definition that uses it is mapped to, has no entry of its own.

### The shell

`order` and `active` are `TabManager.tabs` and `active_index` (from 1), `tab`
the `BrowserTab` of each id. A page is an abstract document `[src, url, focus,
edited]`: `src` is the navigation it came from, so that two loads of one URL
differ; `focus` and `edited` are the two parts of a page the user changes.
`dom` is the document the live runtime was built from; `paint` the document and
images the renderer was given; `chrome` what the toolbar says. Handlers run on
one thread to completion, so each is one step, and a load task is two: it
starts (inside `begin_navigation`) and it sends its message (`LoadUrl`).

`poll_pipeline_messages` drains the channel in a loop. The model takes one
message per step: a task that sends between two messages of one drain is, for
everything the properties see, the task that sends before the next one.

Left out: the text typed in the address bar and its focus (a navigation starts
from a URL or from an input that does not parse), hover, titles, the renderer's
tab snapshots, poisoned locks (no code panics while it holds one), a panic of a
load task (it would leave the tab loading for ever: the code drops the
`JoinHandle`), and branches no caller reaches.

### The event loop

Timers keep id, due time, interval flag and delay; a timer is in the table, in
the task queue as a promoted job, running, or gone. `owed` is a ghost: the
timers a script set and neither cleared nor saw called. A run of
`run_until_idle` is a sequence of steps, and a callback may make any call
before it returns or throws, so calls interleave with the loop as scripts
interleave them. Ties between due timers follow the table's order of ids.
`AdvanceTime` is public API that nothing in the repository calls in a loop; the
`event_loop` run also takes `auto_advance_timers` off and lets an embedder that
owns the clock call it.

### The cache

A name in the directory refers to an inode, so that a task which has opened a
temporary file goes on writing to it after another task renamed it. Metadata
has a field `body` for the headers, MIME type and final URL that came with that
body. Collisions of hashed file names and the length of metadata text are left
out; over another writer's longer text, metadata is its own text or a mixture.

### The hosts of SylJS

`install_*_globals` gives a script one object per host, each with a table of its
own behind an `Rc`; no host calls another one's state, so `MCPlatform` picks a
host in the initial state and explores that one alone: the product of two of
them would show nothing either does not show by itself.

* Workers. Everything runs on the page's thread: `postMessage` calls the
  worker's callbacks and drains its event loop before it returns. A run of the
  worker's VM is a record (how many messages it posts, whether it listens,
  closes, throws, hits a limit), chosen freely, except that a worker with no
  callback and no job left runs nothing. `heard` and `posted` are ghosts. The
  page's event loop is the queue of tasks the answers are put into; what else
  is queued there is the matter of `EventLoop`. Metrics, execution records and
  `importScripts` (a part of a run) are left out.
* Transfer. A table of buffers per copy of the host, since `structured_clone`
  hands out objects over `Rc::new(self.clone())`. Bytes are left out; lengths,
  detachment and ids are what operations decide on.
* Script pipeline. A script is the number of its discovery, and its run is two
  steps so that the state it sees while running is one. The hooks (reflow
  requests, records of events) only listen and are left out.
* Media. Times are in quarter seconds, the least length `append_buffer` gives a
  segment. Volume, current time, network state and events are left out: nothing
  in the host reads them.
* Cache API. A URL is a sequence of segments, a scope a prefix of URLs, a
  response the revision under which it was stored. Only `GET` is stored; a
  rejected request of `addAll` ends it after a prefix, which `AddAll` of that
  prefix is.
* Document. A node has a parent, a list of children and one bit: whether the
  selector in use matches it. Scripts may use any id they were ever given, of
  nodes that are gone too. `appendChild` accepts a node's own ancestor, so trees
  with loops are states of the model; `SearchFindsFirst` leaves them out,
  because the search of a loop does not end; the model makes `MaxNodes` turns, which
  is all of a search that ends. `dispatchEvent` changes nothing
  here: it puts one task per listener into the event loop (`QueueTask` of
  `EventLoop`).
* Invalidation. What is submitted is what the converters of the code can make
  (reflow requests of any set of dirty flags, CSSOM mutations, snapshots) and
  some of what `submit_inputs` takes raw. The engine is run with its default
  configuration, the one every caller uses. The plan says what to do in flags
  and lists of nodes; the single `action` the bridge derives from them is left
  out (it may say to paint where `layout_nodes` also asks for layout, since
  `RebuildHint` ranks `PaintPlan` above `LayoutTree`).

### The language of scripts

A source of the lexer is any text over a few characters that could be taken for
each other (`1.`, `1..`, `..1`, `1e`, comments, quotes, templates); the property
is that tokens and what lies between them are the source, with no character
twice. The parser reads every tree written back as tokens, each construct inside
each other, and must return that tree; token sequences that are no program show
that recovery always moves on. The machine runs compiled scripts one instruction
a step, and the reference is a second reading of the tree (`Meant`), written as
an evaluator, not derived from the compiler. It states what the code means where
that differs from the language: `&&` and `||` evaluate both sides, an assignment
to a name also writes the global object, `break`, `continue` and `return` leave
the scopes of their blocks open. A machine that ended in an error keeps its
scopes and its call depth, as the code does.

### Markup, blocks and styles

`HtmlTree` reads sequences of up to `MaxPieces` pieces of markup (tags, text,
entities, comments cut off), writes the page and reads it again. Reading a page
back is not exact for pages in which an item, row or cell lies in one that its start
tag ends (the parser makes none, a container the normaliser adds may: `saved_page`),
for `plaintext` and for two dashes in a comment; the property names these. Text
before an explicit `<body>` ends up after the body's own: that order is what the
code does and is kept.

`PageExtract` takes trees apart into blocks. Consecutive links are merged by the
code, so the property follows every word to the target it had in the tree. The
sheets: each that was fetched is applied once, whichever of two wins; in the code the
imported one does (`stylesheets.rs:189`). The first rule after an `@import` is dropped
with it (`selector.rs:410`), each URL is fetched once.

`StyleCascade` has two halves, explored apart: the per-node cascade, compared
with a definition by specificity and order, and the summary sheet that scripts
edit, for which the question is whether an edit that moves something also moves
the layout revision. Margins and paddings are outside the comparison: the code
keeps one priority for all four sides.

### Scripts and stores

`ScriptStores` has pages that load in parallel, each with a copy of the cookie
jar and of its origin's items, writing whole files at the end of each script. A
write is two steps (cut, filled) and the process may die between them; a lost
update of the jar and a file that does not parse are states of the model, and
the properties are those that survive them: whom a cookie, an item or an entry
may be seen by. `PageScripts` runs one page's scripts; effects go through the
app's own task and microtask queues. The worker and cache calls
of a script are done before its queued effects are, as in the code.

### Layout and the page runtime

Lengths are integers (tenths of a pixel; whole pixels in `FlexGrid`), exact where
the code has `f32`; a glyph is as wide as the code's estimate. `PageRuntime` joins
document, mutable DOM, focused control and the retained frame of the reflow
engine. The window is only made smaller, since a larger one shows nothing a first
frame does not. Mutations and script hooks are logged and read by nobody; the last
handler's events stand for them. Clicks on controls and typing are dispatched on the
node of the control; a click on a link whose text is of more than one run on the root. Kept as the code has it: a block that begins below
the fold is not laid out, a caret restored with its tab is drawn though keys go
nowhere, a row of automatic height has no cross size, so items stretched in it
collapse; margins and paddings of an item are added outside its slot; an item is
never smaller than its content and may overflow.

### Resources

Each page load waits for the network in several places and loads interleave
there; of the cache there is what may be found under a key. The summary is reset
by whichever navigation begins, so only the numbers of a load that ran alone are
compared with what it asked for. Kept as the code has it: a batch takes the first
distinct requests, not the most urgent (`resources.rs:514`); redirects found in
the cache are counted again; each failed script counts as blocked; relative
addresses are resolved against the address asked for, not the one redirected to
(`main.rs:884`).

## 3. Runs

| run | bounds | shows |
|---|---|---|
| `shell` | 2 tab ids and 3 navigations, or 3 tab ids and 2 navigations (`FewTabsOrLoads`); 3 URLs, 1 control | all handlers and tasks interleaved; three loads of one tab are the least at which a first, a middle and a last result can be reordered, three tabs the least for closing before, at and after the active one; refinement of `TabLoads`; a load whose task has ended settles |
| `shell_dom` (violated) | 2 and 2 | a page on screen without its DOM runtime |
| `event_loop` | 2 timers of 0 to 2 ms, one task, one microtask, one frame; the clock moved by the loop or by the embedder | the queues against each other |
| `event_loop_liveness` | small limits, throws, intervals | waiting timers are called or cleared |
| `event_loop_cleared` (violated) | 2 timers | a cleared timer is called |
| `cache` | 2 tasks, 2 keys, 2 bodies of different size | byte count, freshness |
| `cache_crash` | 1 task, 3 keys with room for two, 3 bodies, two of one length, limits of 1 and 2, restarts | a body served has the length its metadata gives; eviction order |
| `cache_race` (violated) | 2 tasks, 1 key | two writers of one temporary file mix two responses |
| `platform` | 2 workers, 2 listeners each, 1 message each; 3 buffers, 2 copies of the host, 2 views; 3 scripts, 3 policies; 2 elements on 1 source with 2 buffers of 2 segments; 1 cache for 2 of 3 URLs, 3 puts, 2 nested scopes; 4 nodes, 1 of them with listeners; 3 inputs of about 40 kinds on 2 nodes | each host by itself: two of each kind of thing that can disturb another, and one more entry than the cache holds |
| `page` | 13 parts, each alone: texts of up to 4 characters over three alphabets; all statements over expressions nested once, and token sequences of up to 4; 62 scripts, 90 instructions, 3 calls deep; 3 pieces of 21 kinds of markup; 2 rules of 30 on 3 elements, 2 edits; 3 calls on 2 sheets; 2 pages, 2 visits, 2 cookies, 1 item; 3 scripts of a page; 3 documents in 2 windows, one character typed, any order of clicks, keys and frames; 9 app trees, 360 flex trees, 36 grids; pages of 3 runs of text or 3 sources of style, 4 sheets that import each other; 2 tasks, 1 redirect, 2 chunks, batches of 2 | the text of a page becomes what is shown of it, and nothing is lost, doubled or misplaced on the way |
| `transfer_detach` (violated) | 3 buffers, 3 copies of the host | transferring what `structuredClone` returned detaches it in another table |
| `saved_page` (violated) | `ul`, `span` and `li` three deep around a word | a page written out is not read back as it was |

The bounds of `page` are the least at which two things of one kind can disturb
each other: a statement in a statement, a rule against a rule, a page beside a
page, a redirect after a redirect. The parts share no state, so exploring one at
a time loses nothing.

Several properties are conjunctions of parts with a comment each, so that one run
asks one question: `ShellInv`, `LoadsMeetTheirTabs`, `AddressesAreTrue`,
`HistoriesFollowPages`, `TimersAreKept`, `WorkersKeepTheirMessages`,
`BuffersKeepTheirBytes`, `RegistrationsAreSeparate`, and those of `MCPage`.

Deadlock is checked where the program goes on for ever (the shell, the event
loop, the cache); a script and a pipeline may come to an end.

Fairness. `EndedLoadsSettle` assumes only that the shell polls (`about_to_wait`
runs after every turn of the event loop). No load task need end: the timeout of
`fetch` covers the headers of one hop, a body is read without one, and a task may
panic, so a tab can wait for ever and the property speaks of loads whose task has
ended. Users are under no obligation. `WaitingTimersFire` assumes that the loop goes on
while it may, and that again and again nothing is ready: the code moves virtual
time only then, so a page whose frames or 0 ms intervals requeue themselves
starves every later timer, and the property says so in its premise.

The five violated runs are real disagreements between a comment or a test and the
code; each is described under "findings" in `PROJECT.json`. Clearing a timer too late
needs no second thread: two timers due together, and the first callback clears the
other. Transferring a clone needs none either: clone a buffer, then transfer the
clone. A list saved with a child that was no item is read back as another list.

Other things the code does and its comments do not say have no run; the properties
are stated so that they hold without them and do not rest on them:

* Equal lengths in the cache (`cache.rs:540`). A process that dies between the two
  renames leaves the body of one response with the metadata of another, and the length
  check tells them apart only when the lengths differ. `ServedBodyIsComplete` says that
  a body is complete and of that length; `ServedResponseIsWhole`, that it is the one of
  its metadata, is what the code does not keep. A fresh entry is fetched again only for
  a caller with a lower limit, so it takes two deaths: a body of another length is torn
  in first, which is a miss, and then one of the old length.
* Style changes (`syljs/src/cssom.rs:870`). A rule inserted or deleted, and `cssText`,
  ask for a repaint only: the names of these calls never match the arm for a
  "Selector/class/rule change" (23, 877), as they are put in lower case with dashes
  first. `StyleChangesAreReported` says where a change is recorded, not what for.
* Clicks on links (`browser/dom.rs:71`). A hit carries the text of one run,
  `node_for_link` wants that of the whole link; for a link of several words the event
  goes to the root. `EventsReachTheirTarget` allows for the root there and nowhere else.
* The fold (`layout.rs:271`). A page that ends within a line gap above the bottom of the
  window counts as clipped; `LayoutIsKept` leaves room for that gap.
* Imported sheets (`stylesheets.rs:189`) win over the sheet that imports them, although
  the comment at line 50 has them come before it. `SheetsLoadOnce` says that the rules of
  each sheet are applied once, whichever wins.

## 4. Proofs

All theorems are of the specifications the runs check, for every value of their
constants that satisfies the assumptions named in the modules that declare them:
the bounds are numbers, limits the code never takes as zero are positive, markers
(`None`, the blank URL) are none of the values they stand beside, the sets of keys
and tasks of the cache are finite, the scripts of a visit are lists of statements,
a page's parts and batches are lists of requests with limits and priorities, the
addresses of its images are ordered, and rules, their selectors and declarations and
the ancestors of an element are lists, a part of a selector naming finitely many
classes; the rules of a base sheet and the statements of a script are lists, and
what a script does to styles is of the kinds the engine knows; the documents pages
come with (`PageAssumption`) are made as the extraction makes them: lists of blocks of
the kinds there are, lengths that are integers, controls with ids of their own from 1,
of which at most one has the focus and may have it; a window is at least one unit
wide and high; a source of the lexer is a sequence of characters; and pages are finite
trees with a document whose blocks have an element each and whose scripts, fetched
texts and workers are lists of statements (`PassAssumption`, `WorkerAssumption`).
TLC evaluates each assumption in the runs.

| theorem | property | inductive invariant |
|---|---|---|
| `ShellInvariance`, `TypeCorrectness`, `PaintIsCurrent`, `DomIsCurrent`, `FocusIsCurrent` | `ShellInv` and its parts | `ShellInv` |
| `LoadsAreNeverLost`, `AddressesStayTrue`, `ClosingIsInPlace`, `HistoriesAreFaithful` | `LoadsMeetTheirTabs`, `AddressesAreTrue`, `ClosingKeepsActiveTab`, `HistoriesFollowPages` | `LoadsInv` |
| `ShellImplementsTabLoads` | `ImplementsTabLoads` | `LoadsInv` |
| `TimersAreNotDoubled`, `NoTimerIsLost`, `WorkComesFirst`, `TimeStops` | `TimersAreKept`, `ReadyWorkComesFirst`, `TimeStopsAtEveryDeadline` | `LoopInv` |
| `TokensAreSource` | `TokensAreTheSource` | `LexInv` |
| `BlocksHaveElements`, `PassIsSound` | `BlocksKeepTheirElements`, `ScriptPassIsSound` | `PassInv` |
| `MemoryAccounts`, `HitsUsable`, `CompleteBodies`, `EvictionsAreLeastRecent` | `MemoryIsAccounted`, `HitsAreUsable`, `ServedBodyIsComplete`, `EvictionIsLeastRecent` | `CacheInv`, `WholeInv`, `RecencyInv` |
| `ResourcesAreSound` | `ResourceLoadsAreSound` | `ResourcesInv` |
| `ScriptsRunAsQueued` | `ScriptsRunOnceInOrder` | `PipelineInv` |
| `PlansServeEveryInput` | `PlanCoversInputs` | the inputs queued are inputs |
| `PutsAreKept`, `RegistrationsStaySeparate` | `PutIsKept`, `RegistrationsAreSeparate` | `StorageInv` |
| `StoresServe` | `StoresServeTheirOwners` | `StoresInv` |
| `BuffersKeepBytes` | `BuffersKeepTheirBytes` | `TransferInv` |
| `MessagesAreKept` | `WorkersKeepTheirMessages` | `WorkersInv` |
| `ElementsStayTrue` | `ElementsMirrorTheirSource` | `MediaInv` |
| `MirrorIsKept`, `ListenersAreNotInherited`, `SearchIsFirst` | `TreeIsMirrored`, `NewNodesHaveNoListeners`, `SearchFindsFirst` | `DomInv` |
| `StylesFollow`, `MatchesMeans` | `StylesFollowTheCascade`, - | `StyledInv` |
| `ChangesAreReported` | `StyleChangesAreReported` | `CssomInv` |
| `RestyledLaidOut`, `RestyleInvariance` | `RestyledPagesAreLaidOut`, - | `RestyleInv` |
| `PageAnswers`, `PageInvariance` | `PageAnswersItsUser`, - | `PageInvariant` |

Three theorems have hypotheses that are conditions of the code, not of the proof:

* `NoTimerIsLost`: no callback throws and a run may move time as often as it may
  run jobs, as in the default configuration and every embedder's. Without them a
  job taken out of its queue is dropped (`event_loop.rs:679`); the run
  `event_loop_liveness` takes throws in.
* `CompleteBodies`: one loader writes at a time; with two, a temporary file may be cut
  under a reader. Crashes between the two files are in, and so are bodies of one
  length: that such a body is the one its metadata came with does not hold (section 3).
* `PlansServeEveryInput`: `unknown_scope_is_document` and
  `coalesce_document_scope`, the defaults every caller uses.

### Why the invariants are what they are

*What is shown.* `PaintShowsActiveTab` and `DomMirrorsActivePage` are not
inductive: taking a result synchronises a runtime that exists instead of
rebuilding it, so if a loading tab still had a runtime it would afterwards show
the old page under the new one. `ShellInv` adds `LoadingTabShowsNothing`: a tab
that waits for a load has no document, hence (by the other parts) no runtime and
nothing painted. The types are needed everywhere, above all that `active` indexes
`order`, that `order` has no repeats, and that a tab's list is never empty. Every
handler is one lemma; the handlers share three: `ShowActiveTabInv` (what follows
each change of the tab strip), `BeginNavigationInv` (each navigation),
`CommitDocumentInv` (each edit).

*Loads.* `LoadsInv` numbers them: a load under way has a number that was given, no
two have one number, and only the newest of a tab has the tab's. That a stale
result changes nothing then follows from the numbers, and the refinement of
`TabLoads` from what each kind of step does to them: handlers fall into a few
kinds (the strip moves, one tab begins a load, a page is edited, a message is
taken), and the histories and the refinement are argued once for each.

*Timers.* `LoopInv` has the types and that no id is in two places. `NoTimerIsLost`
adds `OwedSomewhere`, that a timer a script waits for is in the table, in a queue
or running, and `Paced`, that a run that is not over has moved time no more often
than it ran jobs: so the limit that would make it drop a job it holds is never
reached first.

*The lexer.* As long as there is no diagnostic it stands at the end of its last token
(`LexInv`), or behind the trivia that ends the source. So the property is one of a
single turn: what `SkipTrivia` skips is trivia (`TriviaIsSkipped`), and what each of
the functions under `LexToken` reads is a token that does not go on
(`TokenIsRead`). The reference speaks of places of the source: trivia are gaps, each
beginning where the one before ended, so gaps are put together by uniting the places
they begin at (`TriviaJoined`); a string comes with the set of its escaped places, so
that a quote closes it if an even number of backslashes is before it.

*The scripts of a page.* `ScriptPassIsSound` speaks of the moments when nothing is
queued; in between the page is behind. `PassInv` therefore keeps a ledger of the tasks
that wait (`Ledger`): what the page, the tasks not counted yet and the events counted
would be after each of them. A task that is run takes the first entry away, an effect
that is queued adds one behind (`LedgerPopped`, `LedgerAppended`), and at the end of the
ledger stand the page that all scripts so far make in turn, no debt, and an even number
of events: each is counted when it is queued and again when its task queues the
dispatch. The scripts ahead, in hand and beyond the limit make up what is not counted
yet. That blocks, elements and styles stay lists of one length (`IsDocument`) is
needed for any of this: an effect finds a block's element by its place. Of the hosts of
workers `HostIsSound` is kept by every call and whatever comes of it, a worker whose text
is missing and a resource that fails included.

*The cache.* A name refers to an inode, and tasks hold inodes open. `CacheInv`
says who may claim one: an inode is claimed for one key and one of its two
files only, so what a task writes is read by no task of another key; as keys and
tasks are finitely many, an inode free to be created always exists, by counting.
`WholeInv` follows the two files of an entry through writes, renames and deaths of
the process: where the body on disk has the length metadata names, it is a complete
body of that length, of this response or of another. `RecencyInv` says that the list
the code keeps by hand is the list of uses without what was evicted.

*Resources.* `ResourcesInv` says of every load that its outcomes, the request under
way and the requests to come are, one behind the other, what it asks for
(`Settled`, `Awaiting`): a page its document until that is there, then the
document, the parts and the images; a batch its distinct requests by urgency
(`BatchOrderFacts`, on `InOrderByEnumerates`). "One outcome each, in order" is what
is left of that when nothing is to come. A fetch has read the sum of the chunks
that came, which is at most its limit (`SizeGrows`); the images decoded or failed
are those concluded and those that are too many (`ImagesOK`); an entry that is kept
led from its key's address and is of its key's kind, which makes a hit as good as
an answer. The summary is compared with a load only while it is alone, and
`CountsOK` says that then no other is busy.

*Hosts.* `PipelineInv` has each script in one place and each queue in the order of
discovery. `TransferInv` keeps every view inside what its buffer was allocated
with; `BuffersKeepTheirBytes` is then argued of each step, which may only
evolve a table (`Evolves`). `WorkersInv` numbers the messages of an outbox on
from what was handed over, and says of each listener that what it heard and what
waits for it in the page's queue, put together, count up from the message it was
added at; "once and in order" is not inductive without the queue. `MediaInv` ties
tables that point at each other: the buffers a source lists name it back, and
elements that share a source report the same. `StorageInv` has revisions that
were given out; that what was just put survives the eviction that makes room
for it follows from the order of the two steps.

*Stores.* `StoresInv` says of each phase of a load what has been flushed
(`WorkOK`, `DirtyOK`), of a jar that its cookies are unique and of the domain that
set them, of a page's items that they are those of its origin, and of each file
that it is torn or holds what it names. A script is a list of effects; that
applying any number of them keeps a page sound is an induction on how many were
applied (below). Two pages of one site hold different copies of the jar, so
nothing relates a page's jar to the file but who may see what is in either.

*The mirror* of a document is inductive beside the types. It is needed as a whole:
an append finds the list to take a node out of through the node's parent, and a
removal finds the nodes to orphan through the list of children, so each half
restores itself only where the other one was right. That a list holds a node at
most once is what lets the model close one place where the code retains all
others.

*The search* needs the mirror, too, and an invariant of its loop (`SearchInv`): the
subtrees of what lies on the stack are what still waits, those higher on the stack
come first in the document, and every match still waits. A turn takes one node
away from them (`PushKeepsOrder`), so `MaxNodes` turns end it. That the subtrees of
two children are apart (`ChildrenAreApart`) is where the absence of loops and the
mirror come in: a node under both would have a parent under both, up to the
children themselves. A subtree is defined as the least set with its root and the
children of its nodes, which is what makes an induction over it a choice of a set.

*The cascade* holds of one step: what is styled is styled from rules of the page
(`StyledInv`), so all that is to be shown is what `ComputeNodeStyle` computes.
Three arguments make it up. The walk over the ancestors takes the nearest one a
part matches and never goes back; `MatchesMeans` shows that it loses nothing by
that: whatever ancestors witness the description of a selector, the walk has
reached none of them too soon. Priorities of one length are totally ordered
(`PrioritiesAreOrdered`), so a finite set of them has a highest (`HighestExists`),
which is the selector `max_by_key` picks. And a slot leads the entries of the
rules applied so far (`RulesLead`): it holds one of them and none is above it.
The entries are some of what is declared, a rule counting once where several of
its selectors match, but each declaration has an entry at least as high, so the
two have one highest priority; as a priority names its rule and its declaration,
it has one value.

*The reports of style changes* rest on what an answer of `getComputedStyle` is made
of: the node's own declarations and the sheets, nothing else. A write to one node
leaves the answers for all others alone, and its own for every name but the one it
recorded (`CssTextSet`, which
replaces all declarations, is recorded under a name no property has); a write to a sheet is
recorded of the page. What a record asks for (a repaint, a layout) is not claimed to
be enough: it is not (section 3). For the ids `CssomInv` says that each is of
one rule and below the counter, which a rule that goes in or out of a list by position keeps
(`RuleGoesIn`, `RuleGoesOut`).

*Restyling.* `RestyleInv` says that computing the summary of the sheets on a page
again changes nothing; without it a script that changes nothing would find a page
whose summary had drifted from its sheets. That a restyle the engine calls "not
layout" leaves the layout alone is shown of what the layout reads (`Alike`: two
summaries the same where it looks). A declaration of a property that is not on the
list of layout properties leaves that alone, so two runs over lists of which one has
such declarations more than the other end alike (`RunsEndAlike`, with `Aligned`: the
items both have stand at rising places of the longer list, what is between them
changes nothing). This is used thrice, for the declarations of a rule, the
selectors of a rule and the rules of a sheet, so the inline rules may be added,
thinned out or dropped.

*The page.* A handler changes document, DOM, caret and frame one after the other
(a click: DOM event, focus of the document, synchronisation, default action, redraw),
and they agree only at its end. Proved is therefore what each part keeps: `Later`, of
what the renderer reads (what was undrawn stays so, and what changes on the surface is
marked), and `SameNodes`, of the DOM, whose nodes keep their places so that events
under way keep their targets. `PageStands` puts the parts together, and adds to what
the user sees what the next handler needs: a node for every control
(`AddBlockNode` goes through the blocks as `ControlsOf` does, `NodesAre`) and ids that
are apart, without which one key would change two fields; documents that are worked
with have the ids of the one that came (`SameIds`). That the frame is the right one is
`FrameFits`: the engine compares fingerprints and flags, and a frame kept under
unchanged flags was laid out for this document and this window. The regions drawn
again cover what changed however many there are (`RegionsAdded`): a region that is
added stays covered when they are united, since a union holds both
(`UnionIs`). Under all of it lies that every document has a layout (`LayoutIs`): block by
block and piece by piece lengths stay integers and boxes of controls carry the
controls' ids, so that a point in the middle of a control finds it (`PointIsHit`).

### Induction

The library's induction theorems take an operator as a parameter and cannot be
used here. What needs induction is stated of a set of numbers instead:
`LeastNatural` (a set of numbers that is not empty has a least member, by the
well-foundedness of `Nat`) gives a least counterexample, and `CountingUp` that a
function defined by counting (`f[i \in 0 .. n]`, in terms of `f[i - 1]`) exists.
On these rest `InOrderEnumerates`, `InOrderByEnumerates`, the sizes of bodies, the
folds `PutAll`, `ApplyFirst` and `Coalesce`, the walk over the ancestors, the
rules applied one by one, the loops that make a summary (`ItemsRunExists`, one
argument for all four), the loops over the parts of a page (`PartsRunExists`: words,
pieces, boxes, blocks, nodes, values and regions), and the lists `Picked` makes.
`CountingDown` and `LooksExist` are the same for what looks ahead, as the loops over
strings and trivia do: a function that says of a place what it is, or names a later
place to look at, exists and keeps what each look keeps. The lists and folds of the
modules under proof are written in this form rather than with `SelectSeq`, sorting
or the folds of the community modules, of which the provers know nothing.

### Only model-checked

`ShownPagesAreLaidOut` is not proved. It says that what a block shows lies in its box,
in order and in no other block's, which needs room: with paddings, borders and font
sizes of any size a control's text is cut and an inner rectangle is held at a least
width outside its box. It is true of the sheets of the run, and would need to say of
each kind of block how much room is enough.
The properties of `JsParser`, `JsVm`, `HtmlTree`, `PageExtract` and `FlexGrid`
compare what a recursion over texts and trees computes; these modules use RECURSIVE operators, which the provers do not take, and stay with TLC. So
do liveness under fairness (`EndedLoadsSettle`, `WaitingTimersFire`) and `ENABLED`.

## 5. Plan

1. done: shell, navigation list, visits, event loop, HTTP cache; the shell's
   inductive invariant; workers, buffers, script pipeline, media, Cache API;
   the document of SylJS with its proofs; invalidation; the language of scripts,
   markup, extraction, styles, layout, the page runtime, the script pass and its
   stores, the resource scheduler with the client.
2. done: the proofs of section 4.
   left: `ShownPagesAreLaidOut`, with the room it needs stated.
3. smaller gaps: strings and arrays in `JsVm`; the file of the visits
   (`BrowserHistory`), written through a temporary file; the media calls the app
   scans for.

### Not modelled

* `syljs/src/canvas.rs`, `present/src/svg.rs`, the renderer and its atlases:
  arithmetic on pixels, no state that outlives a call.
* `present/src/text.rs`: shaping and font fallback, used by tests only.
* `syljs/src/webapi.rs`, `site_compat.rs`: globals that answer from a table and
  reports about sites; no state of their own.
* `syljs/src/security.rs`, `browser/security.rs`, `js/security_policy.rs`: a
  decision per header and URL; a model would repeat the tables.
* Browser chrome widgets, accessibility, DevTools, most of the utilities: views and
  reports of state the modules above have.
* Persistence of visits as JSON, and `app/src/js/media.rs`, the same scan of a
  script for media calls as `ScriptSource` describes for the others.
