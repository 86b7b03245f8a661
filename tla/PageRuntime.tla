----------------------------- MODULE PageRuntime -----------------------------
(***************************************************************************)
(* A page the user works with: its document, the mutable DOM beside it     *)
(* (present: mutation.rs, events.rs, invalidation.rs, forms.rs; app:       *)
(* browser/dom.rs, browser/forms.rs), what is handed to the renderer       *)
(* (render/shared.rs), and the layout and paint plan the renderer keeps    *)
(* from one frame to the next (reflow.rs, state.rs).  A node of the DOM is *)
(* [kind, parent, text, link, control]; its id is its place, children      *)
(* follow their parent, and no node of a page is removed.  Revisions are   *)
(* compared only with those last drawn and are the flags of what is not;   *)
(* which nodes are dirty is read by nobody and left out.                   *)
(* The mutations and script hooks a runtime logs are drained by nobody:    *)
(* the events of the last handler stand for them.                          *)
(***************************************************************************)
EXTENDS PageLayout

CONSTANTS
  InteractiveDocuments,   \* documents pages may come with
  Viewports,              \* sizes of the page's part of the window
  CharsTyped,             \* what a key may insert
  MaxTyped                \* bound on the length of a value that is typed into

VARIABLE live

NoRuntimeYet == [nodes |-> <<>>]
EmptyPage == [sheet |-> <<>>, nodes |-> <<>>, blocks |-> <<>>]
NoPageShown == [none |-> TRUE]

-----------------------------------------------------------------------------
(* Forms.                                                                  *)
ControlsIn(block) == IF block.kind = "Form" THEN block.form.controls ELSE <<>>
ControlsOf(document) == FlattenSeq([i \in DOMAIN document.blocks |-> ControlsIn(document.blocks[i])])
ControlById(document, id) == LET all == ControlsOf(document) IN all[SelectInSeq(all, LAMBDA c : c.id = id)]
FocusedControl(document) ==
  LET at == SelectInSeq(ControlsOf(document), LAMBDA c : c.focused) IN IF at = 0 THEN 0 ELSE ControlsOf(document)[at].id
FormOf(document, control) ==
  LET at == SelectInSeq(document.blocks, LAMBDA b : \E i \in DOMAIN ControlsIn(b) : ControlsIn(b)[i].id = control) IN
  document.blocks[at].form
WithControls(document, Change(_)) ==
  LET changed(block) ==
        IF block.kind = "Form" THEN [block EXCEPT !.form.controls = [k \in DOMAIN @ |-> Change(@[k])]] ELSE block
  IN [document EXCEPT !.blocks = [i \in DOMAIN document.blocks |-> changed(document.blocks[i])]]
FocusFormControl(document, id) ==
  LET change(c) == [c EXCEPT !.focused = c.id = id /\ MayFocus(c)] IN WithControls(document, change)
(* Of what a key inserts, a line break is kept by a text area only.        *)
EditFocused(document, Edit(_)) ==
  LET id == FocusedControl(document)
      change(c) == IF c.id = id /\ MayFocus(c) THEN [c EXCEPT !.value = Edit(c)] ELSE c IN
  WithControls(document, change)
TypeChar(document, char) ==
  LET edit(c) == IF char = "newline" /\ c.kind /= "TextArea" THEN c.value ELSE Append(c.value, char) IN EditFocused(document, edit)
TypeBackspace(document) == LET edit(c) == IF c.value = <<>> THEN c.value ELSE Front(c.value) IN EditFocused(document, edit)

(* The documents pages come with: controls have ids of their own, at most  *)
(* one of them the focus, which may have it.                               *)
ControlsAreApart(document) ==
  LET controls == ControlsOf(document) IN
  /\ \A i \in DOMAIN controls : controls[i].id \in Nat \ {0} /\ (controls[i].focused => MayFocus(controls[i]))
  /\ \A i, j \in DOMAIN controls : i /= j => controls[i].id /= controls[j].id /\ ~(controls[i].focused /\ controls[j].focused)
ASSUME PageAssumption ==
  /\ \A document \in InteractiveDocuments : IsRenderDocument(document) /\ ControlsAreApart(document)
  /\ \A viewport \in Viewports : viewport.width \in Nat \ {0} /\ viewport.height \in Nat \ {0}

(* The pairs a form sends, or why it is not sent.                          *)
SubmissionPairs(form, clicked) ==
  LET sent == SelectSeq(form.controls, LAMBDA c :
                ~c.disabled /\ c.name /= <<>> /\ (c.kind \in SubmitLike => c.id = clicked)) IN
  [i \in DOMAIN sent |-> <<sent[i].name, sent[i].value>>]
Action(kind, what) == [kind |-> kind, what |-> what]
Submission(form, clicked) ==
  IF form.method /= "Get" THEN Action("Error", <<>>) ELSE Action("Submit", SubmissionPairs(form, clicked))

-----------------------------------------------------------------------------
(* The mutable DOM.                                                        *)
AllDirty == {"style", "layout", "paint", "hit_test", "accessibility"}
TextDirty == AllDirty \ {"style"}
FocusDirty == {"paint", "accessibility"}
MarkDirty(runtime, flags) == [runtime EXCEPT !.dirty = @ \cup flags]

DomNode(kind, parent, text, link, control) == [kind |-> kind, parent |-> parent, text |-> text, link |-> link, control |-> control]
NodeKind(block) ==
  CASE block.kind \in {"Link", "Image", "Form"} -> block.kind
    [] block.kind = "Generic" -> "Unknown"
    [] OTHER -> "Block"
AddBlockNode(nodes, block) ==
  LET id == Len(nodes) + 1 IN
  Append(nodes, DomNode(NodeKind(block), 1, block.text, block.link, 0))
    \o [i \in DOMAIN block.fragments |-> LET part == block.fragments[i] IN
          DomNode(IF part.linked THEN "Link" ELSE "Text", id, part.text, part.link, 0)]
    \o [i \in DOMAIN block.form.controls |-> LET c == block.form.controls[i] IN DomNode("FormControl", id, c.value, <<>>, c.id)]
NodesOf(blocks) ==
  LET nodes[n \in 0..Len(blocks)] == IF n = 0 THEN <<DomNode("Root", 0, <<>>, <<>>, 0)>> ELSE AddBlockNode(nodes[n - 1], blocks[n])
  IN nodes[Len(blocks)]
FromRenderDocument(document) ==
  MarkDirty([nodes |-> NodesOf(document.blocks),
             focus |-> FocusedControl(document), dirty |-> {}], AllDirty)

NodeForControl(runtime, control) == SelectInSeq(runtime.nodes, LAMBDA n : n.control = control)
NodeForLink(runtime, href, text) ==
  SelectInSeq(runtime.nodes, LAMBDA n : n.kind = "Link" /\ n.link /= <<>> /\ n.link[1].id = href
                                          /\ (text = <<>> \/ [i \in DOMAIN n.text |-> WholeWord(n.text[i])] = text))
OrRoot(node) == IF node = 0 THEN 1 ELSE node

RuntimeFocus(runtime, control) ==
  LET node == IF control = 0 THEN 1 ELSE NodeForControl(runtime, control) IN
  IF node = 0 \/ runtime.focus = control THEN runtime
  ELSE MarkDirty([runtime EXCEPT !.focus = control], FocusDirty)
SetFormValue(runtime, control) ==
  LET node == NodeForControl(runtime, control.id) IN
  IF node = 0 THEN runtime
  ELSE IF runtime.nodes[node].text = control.value THEN runtime
  ELSE MarkDirty([runtime EXCEPT !.nodes[node].text = control.value], TextDirty)
SetFormValues(runtime, controls) ==
  LET valued[n \in 0..Len(controls)] == IF n = 0 THEN runtime ELSE SetFormValue(valued[n - 1], controls[n])
  IN valued[Len(controls)]
(* Mutant of SyncFromDocument: focus moves to a control and never away.    *)
SyncKeepsFocus(runtime, document) ==
  LET valued == SetFormValues(runtime, ControlsOf(document)) IN
  IF FocusedControl(document) = 0 THEN valued ELSE RuntimeFocus(valued, FocusedControl(document))
SyncFromDocument(runtime, document) ==
  RuntimeFocus(SetFormValues(runtime, ControlsOf(document)), FocusedControl(document))

(* An event marks its target and names the default action that goes with   *)
(* it, which the app takes on its own account.                             *)
DirtyOfEvent(kind) == IF kind = "Input" THEN TextDirty ELSE {"paint"}
DefaultAction(kind, control, form, link) ==
  CASE kind = "Click" /\ link /= <<>> -> Action("Navigate", link)
    [] kind = "Click" /\ control.kind \in TextEditable -> Action("FocusControl", control.id)
    [] kind = "Click" /\ control.kind \in SubmitLike -> Action("SubmitForm", <<form, control.id>>)
    [] OTHER -> Action("None", <<>>)
DomEvent(kind, target, default) == [kind |-> kind, target |-> target, default |-> default]
Dispatch(page, event) ==
  [page EXCEPT !.runtime = MarkDirty(@, DirtyOfEvent(event.kind)), !.events = Append(@, event)]

-----------------------------------------------------------------------------
(* The app's page: document of the active tab, its DOM, the focus of the   *)
(* keyboard, and the surface the renderer reads.                           *)
SetSurface(page, document, dirty) ==
  [page EXCEPT !.surface = [document |-> document, dirty |-> dirty], !.undrawn = @ \cup {"document", "any"}]
ClearDom(page) == [page EXCEPT !.runtime = NoRuntimeYet, !.focus = 0]
Handled(page) == [page EXCEPT !.events = <<>>, !.regions = <<>>, !.asked = <<>>]
HasRuntime(page) == page.runtime /= NoRuntimeYet

InstallPage(page, document) ==
  LET runtime == IF HasRuntime(page) THEN SyncFromDocument(page.runtime, document) ELSE FromRenderDocument(document) IN
  SetSurface([page EXCEPT !.document = document, !.runtime = runtime], document, AllDirty)
DispatchMutation(page, document) ==
  LET synced == [page EXCEPT !.runtime = SyncFromDocument(@, document)]
      id == FocusedControl(document) IN
  IF ~HasRuntime(page) THEN page
  ELSE IF id = 0 THEN synced
  ELSE Dispatch(synced, DomEvent("Input", OrRoot(NodeForControl(synced.runtime, id)), Action("None", <<>>)))
CommitDocument(page, document) ==
  LET synced == IF HasRuntime(page) THEN SyncFromDocument(page.runtime, document) ELSE NoRuntimeYet
      dirty == IF HasRuntime(page) THEN synced.dirty ELSE {} IN
  SetSurface([page EXCEPT !.document = document, !.runtime = IF HasRuntime(page) THEN [synced EXCEPT !.dirty = {}] ELSE @],
             document, dirty)

(* Begins a navigation: the page goes, its surface is an empty document.   *)
LeavePage(page, asked) ==
  SetSurface([ClearDom(page) EXCEPT !.document = NoPageShown, !.asked = asked], EmptyPage, AllDirty)
ShowError(page) == [page EXCEPT !.undrawn = @ \cup {"any"}]
Acted(page, action) ==
  CASE action.kind = "Submit" -> LeavePage([page EXCEPT !.focus = 0], action.what)
    [] action.kind = "Error" -> ShowError(page)
    [] OTHER -> page

(* handle_click: the document after it, the focus, and the action.         *)
ClickControl(page, control) ==
  LET id == control.id
      clicked == IF HasRuntime(page)
                 THEN Dispatch(page, DomEvent("Click", OrRoot(NodeForControl(page.runtime, id)),
                                              DefaultAction("Click", control, FormOf(page.document, id).id, <<>>)))
                 ELSE page
      editable == control.kind \in TextEditable
      document == IF editable \/ control.kind \in SubmitLike THEN FocusFormControl(page.document, IF editable THEN id ELSE 0) ELSE page.document
      focused == [clicked EXCEPT !.focus = IF editable THEN id ELSE IF control.kind \in SubmitLike THEN 0 ELSE @]
      action == IF control.kind = "Submit" THEN Submission(FormOf(document, id), id) ELSE Action("Mutated", <<>>) IN
  Acted(CommitDocument(DispatchMutation(focused, document), document), action)

(* A click on no control takes the focus away and may be one on a link.    *)
Unfocused(page) ==
  IF page.focus = 0 THEN page ELSE CommitDocument([page EXCEPT !.focus = 0], FocusFormControl(page.document, 0))
ClickLink(page, region, supported) ==
  LET runtime == page.runtime
      event == DomEvent("Click", OrRoot(NodeForLink(runtime, region.href, region.text)), Action("Navigate", region.href))
      clicked == IF HasRuntime(page) THEN Dispatch(page, event) ELSE page IN
  IF supported THEN LeavePage(clicked, region.href) ELSE ShowError(clicked)

-----------------------------------------------------------------------------
(* The renderer: one frame is laid out again unless only paint is dirty    *)
(* and nothing of the document or the window has changed.                  *)
Fingerprint(document) == [sheet |-> document.sheet, blocks |-> document.blocks]
NoFrame == [plan |-> <<>>, layout |-> <<>>, viewport |-> <<>>, of |-> <<>>]
ReflowReason(engine, document, viewport, flags, force) ==
  LET changed == engine.of /= Fingerprint(document) IN
  IF engine.plan = <<>> \/ force THEN "Initial"
  ELSE IF engine.viewport /= viewport THEN "ViewportChanged"
  ELSE IF flags \cap {"style", "accessibility"} /= {} \/ ("layout" \in flags /\ changed) THEN "StructuralInvalidation"
  ELSE IF "layout" \in flags THEN "LayoutInvalidation"
  ELSE IF flags \cap {"paint", "hit_test"} /= {} THEN "PaintOnlyInvalidation"
  ELSE IF changed THEN "ExternalRevision" ELSE "Reused"

CommandBounds(command) ==
  IF command.kind /= "Text" THEN command.rect
  ELSE LayoutRect(command.rect.x, command.rect.y, NoLess(command.length * GlyphAdvance(command.size), command.size), LineHeight(command.size))
Clipped(rect, viewport) ==
  LET x == NoLess(rect.x, 0)
      y == NoLess(rect.y, 0)
      width == Min({Right(rect), viewport.width}) - x
      height == Min({Bottom(rect), viewport.height}) - y IN
  IF width > 0 /\ height > 0 THEN <<[x |-> x, y |-> y, width |-> width, height |-> height]>> ELSE <<>>
UnionRect(a, b) ==
  LET x == Min({a.x, b.x})
      y == Min({a.y, b.y}) IN
  [x |-> x, y |-> y, width |-> Max({Right(a), Right(b)}) - x, height |-> Max({Bottom(a), Bottom(b)}) - y]
MaxDirtyRegions == 32
UnionWith(rect, regions) ==
  LET union[n \in 0..Len(regions)] == IF n = 0 THEN rect ELSE UnionRect(union[n - 1], regions[n])
  IN union[Len(regions)]
AddRegion(regions, rect) ==
  IF Len(regions) < MaxDirtyRegions THEN Append(regions, rect) ELSE <<UnionWith(rect, regions)>>
AddRegions(rects) ==
  LET added[n \in 0..Len(rects)] == IF n = 0 THEN <<>> ELSE AddRegion(added[n - 1], rects[n])
  IN added[Len(rects)]
FullRegion(viewport) == <<[x |-> 0, y |-> 0, width |-> viewport.width, height |-> viewport.height]>>
(* The command at a place, or none.                                        *)
CommandAt(plan, i) == IF i \in DOMAIN plan.commands THEN <<plan.commands[i]>> ELSE <<>>
ClippedAt(plan, i, viewport) == IF i \in DOMAIN plan.commands THEN Clipped(CommandBounds(plan.commands[i]), viewport) ELSE <<>>
DirtyRegionsBetween(before, plan, viewport) ==
  LET longest == Max({Len(before.commands), Len(plan.commands)})
      difference == Max({Len(before.commands) - Len(plan.commands), Len(plan.commands) - Len(before.commands)})
      touched(i) == IF CommandAt(before, i) = CommandAt(plan, i) THEN <<>> ELSE ClippedAt(before, i, viewport) \o ClippedAt(plan, i, viewport)
      regions == AddRegions(FlattenSeq([i \in 1 .. longest |-> touched(i)])) IN
  IF before.background /= plan.background \/ (longest > 96 /\ difference > 8) \/ regions = <<>> THEN FullRegion(viewport) ELSE regions

FrameOf(engine, document, viewport, reason, layout) ==
  LET framed(plan) ==
        [engine |-> [plan |-> plan, layout |-> layout, viewport |-> viewport, of |-> Fingerprint(document)], reason |-> reason,
         regions |-> IF engine.plan = <<>> THEN FullRegion(viewport) ELSE DirtyRegionsBetween(engine.plan, plan, viewport)] IN
  framed(BuildPaintPlan(layout))
Reflow(engine, document, viewport, flags, force) ==
  LET reason == ReflowReason(engine, document, viewport, flags, force) IN
  IF reason = "Reused" THEN [engine |-> engine, reason |-> reason, regions |-> <<>>]
  ELSE FrameOf(engine, document, viewport, reason,
               IF reason = "PaintOnlyInvalidation" /\ engine.of = Fingerprint(document) THEN engine.layout
               ELSE LayoutDocument(document, viewport))

-----------------------------------------------------------------------------
RuntimeInit ==
  \E viewport \in Viewports :
    /\ \A other \in Viewports : other.width <= viewport.width
    /\ live = [document |-> NoPageShown, runtime |-> NoRuntimeYet, focus |-> 0, events |-> <<>>, asked |-> <<>>,
               surface |-> [document |-> NoPageShown, dirty |-> {}], undrawn |-> {"document", "any", "window"}, viewport |-> viewport,
               engine |-> NoFrame, regions |-> <<>>]

PageShown == live.document /= NoPageShown
PageLoaded ==
  /\ ~PageShown
  /\ \E document \in InteractiveDocuments : live' = InstallPage(Handled(live), document)

(* Another tab is shown and this one again: the DOM is built anew.         *)
TabReturned == PageShown /\ live' = InstallPage(ClearDom(Handled(live)), live.document)
(* An address that is none: the DOM goes, the page stays.                  *)
AddressRejected == PageShown /\ HasRuntime(live) /\ live' = ShowError(ClearDom(Handled(live)))

(* The user clicks the middle of what the surface shows, or beside it.     *)
Middle(rect) == <<rect.x + rect.width \div 2, rect.y + rect.height \div 2>>
LaidOut == LayoutDocument(live.surface.document, live.viewport)
PointHit(regions, i) == HitIn(regions, Middle(regions[i].rect)[1], Middle(regions[i].rect)[2])
ControlClicked ==
  /\ PageShown
  /\ \E regions \in {ControlHitRegions(LaidOut)} : \E i \in DOMAIN regions :
       live' = ClickControl(Handled(live), ControlById(live.document, regions[PointHit(regions, i)].control))
LinkClicked ==
  /\ PageShown
  /\ \E layout \in {LaidOut} : \E regions \in {LinkHitRegions(layout)} : \E i \in DOMAIN regions :
       /\ HitIn(ControlHitRegions(layout), Middle(regions[i].rect)[1], Middle(regions[i].rect)[2]) = 0
       /\ \E region \in {regions[PointHit(regions, i)]} :
            live' = ClickLink(Unfocused(Handled(live)), region, region.href /= <<"mailto:">>)
ClickedBeside == PageShown /\ live.focus /= 0 /\ live' = Unfocused(Handled(live))

(* handle_key; a key that changes nothing is not committed.                *)
KeyPressed(document, action) ==
  live' = Acted(CommitDocument(DispatchMutation(
                  [Handled(live) EXCEPT !.focus = IF action.kind = "Escaped" THEN 0 ELSE FocusedControl(live.document)],
                  document), document), action)
Typing == PageShown /\ live.focus /= 0 /\ FocusedControl(live.document) /= 0
Focused == ControlById(live.document, FocusedControl(live.document))
CharTyped ==
  /\ Typing /\ Len(Focused.value) < MaxTyped
  /\ \E char \in CharsTyped : KeyPressed(TypeChar(live.document, char), Action("Mutated", <<>>))
BackspaceTyped == Typing /\ KeyPressed(TypeBackspace(live.document), Action("Mutated", <<>>))
EscapeTyped == Typing /\ KeyPressed(FocusFormControl(live.document, 0), Action("Escaped", <<>>))
LineTyped ==
  /\ Typing /\ Focused.kind = "TextArea" /\ Len(Focused.value) < MaxTyped
  /\ KeyPressed(TypeChar(live.document, "newline"), Action("Mutated", <<>>))
EnterTyped == Typing /\ KeyPressed(live.document, Submission(FormOf(live.document, Focused.id), 0))
NothingTyped == PageShown /\ live.focus /= 0 /\ FocusedControl(live.document) = 0 /\ live' = [Handled(live) EXCEPT !.focus = 0]

(* The window is only made smaller, which bounds the instance.             *)
Resized == \E viewport \in Viewports :
  viewport.width < live.viewport.width /\ live' = [Handled(live) EXCEPT !.viewport = viewport, !.undrawn = @ \cup {"any", "window"}]
ChromeDrawnAgain == live.undrawn = {} /\ PageShown /\ live' = [Handled(live) EXCEPT !.undrawn = {"any"}]
NothingDrawn ==
  /\ live.undrawn /= {} /\ live.surface.document = NoPageShown
  /\ live' = [Handled(live) EXCEPT !.engine = NoFrame, !.undrawn = {}]
Drawn ==
  /\ live.undrawn /= {} /\ live.surface.document /= NoPageShown
  /\ \E next \in {Reflow(live.engine, live.surface.document, live.viewport, live.surface.dirty,
                          live.undrawn \cap {"document", "window"} /= {})} :
       live' = [Handled(live) EXCEPT !.engine = next.engine, !.undrawn = {}, !.regions = next.regions]

RuntimeNext ==
  \/ PageLoaded \/ TabReturned \/ AddressRejected \/ ControlClicked \/ LinkClicked \/ ClickedBeside
  \/ CharTyped \/ BackspaceTyped \/ EscapeTyped \/ LineTyped \/ EnterTyped \/ NothingTyped
  \/ Resized \/ ChromeDrawnAgain \/ NothingDrawn \/ Drawn
RuntimeSpec == RuntimeInit /\ [][RuntimeNext]_live

-----------------------------------------------------------------------------
(* The DOM beside a page has the values and the focus of its document.     *)
RuntimeMirrorsDocument ==
  PageShown /\ HasRuntime(live) =>
    /\ live.runtime.focus = FocusedControl(live.document)
    /\ \A i \in DOMAIN ControlsOf(live.document) : LET c == ControlsOf(live.document)[i] IN
         live.runtime.nodes[NodeForControl(live.runtime, c.id)].text = c.value

(* Keys go to the control that is drawn with the caret, or nowhere; never  *)
(* more than one is.                                                       *)
KeysGoToTheCaret ==
  /\ PageShown /\ live.focus /= 0 =>
       \/ FocusedControl(live.document) = live.focus
       \/ FocusedControl(live.document) = 0 /\ ~MayFocus(ControlById(live.document, live.focus))
  /\ PageShown => \A i, j \in DOMAIN ControlsOf(live.document) :
       ControlsOf(live.document)[i].focused /\ ControlsOf(live.document)[j].focused => i = j

(* The node a click is for: that of the control that takes the focus or    *)
(* sends its form; of a link, a node with its address, or the root.        *)
IsForIt(event, node) ==
  /\ event.default.kind = "FocusControl" => node.control = event.default.what
  /\ event.default.kind = "SubmitForm" => node.control = event.default.what[2]
  /\ event.default.kind = "Navigate" => event.target = 1 \/ (node.kind = "Link" /\ node.link[1].id = event.default.what)
(* A click on a control is dispatched on the node of the control, typing   *)
(* on the node of the control typed into; a click on a link on a link of   *)
(* that address or, when its text is of more than one run, on the root.    *)
EventsReachTheirTarget ==
  \A i \in DOMAIN live.events : LET e == live.events[i] IN
    /\ e.default.kind /= "None" /\ HasRuntime(live) => IsForIt(e, live.runtime.nodes[e.target])
    /\ e.kind = "Input" /\ PageShown => live.runtime.nodes[e.target].control = FocusedControl(live.document)

(* A frame shows the page as it is, and only a frame has regions.          *)
FramesAreWhole ==
  /\ live.surface.document /= NoPageShown => live.surface.document = IF PageShown THEN live.document ELSE EmptyPage
  /\ live.undrawn = {} /\ live.surface.document /= NoPageShown =>
       live.engine.plan = BuildPaintPlan(LayoutDocument(live.surface.document, live.viewport))

(* What is not as it was in the frame before is in a region drawn again.   *)
IsInside(a, b) == a.x >= b.x /\ a.y >= b.y /\ Right(a) <= Right(b) /\ Bottom(a) <= Bottom(b)
RegionsCover(before, plan, viewport, regions) ==
  \A i \in 1 .. Max({Len(before.commands), Len(plan.commands)}) :
    CommandAt(before, i) = CommandAt(plan, i) \/
      \A command \in ToSet(CommandAt(before, i) \o CommandAt(plan, i)) : \A part \in ToSet(Clipped(CommandBounds(command), viewport)) :
        \E k \in DOMAIN regions : IsInside(part, regions[k])
ChangesAreRedrawn ==
  live.undrawn /= {} /\ live'.undrawn = {} /\ live'.engine /= NoFrame /\ live.engine /= NoFrame =>
    RegionsCover(live.engine.plan, live'.engine.plan, live'.viewport, live'.regions)

(* The page, its DOM, the keyboard and the screen agree after every        *)
(* handler and frame (browser/dom.rs, browser/forms.rs, reflow.rs).        *)
PageAnswersItsUser ==
  [](RuntimeMirrorsDocument /\ KeysGoToTheCaret /\ EventsReachTheirTarget /\ FramesAreWhole) /\ [][ChangesAreRedrawn]_live

(* Whatever is shown, with what was typed, is laid out as it should be.    *)
ShownPagesAreLaidOut == PageShown => LayoutKeepsThePage(live.document, live.viewport)
=============================================================================
