---------------------------- MODULE Invalidation ----------------------------
(***************************************************************************)
(* The queue of invalidations scripts cause and the plan a flush makes of  *)
(* it (crates/syljs/src/invalidation.rs), with the flags the renderer      *)
(* reads (crates/app/src/render/style_layout_invalidation_bridge.rs).      *)
(*                                                                         *)
(* A flush folds the queue into one scope and one impact and forgets the   *)
(* inputs, so the plan has to stand for every one of them.  Rectangles,    *)
(* reasons, sources and the log of events are left out.                    *)
(***************************************************************************)
EXTENDS Integers, Sequences

CONSTANTS
  MaxInputs,                \* bound: inputs queued at once
  DirtyNodes,               \* the nodes that change
  UnknownScopeIsDocument,   \* config.unknown_scope_is_document, by default TRUE
  CoalesceDocumentScope     \* config.coalesce_document_scope, by default TRUE

ASSUME InvalidationAssumption ==
  /\ MaxInputs \in Nat
  /\ {UnknownScopeIsDocument, CoalesceDocumentScope} \subseteq BOOLEAN

VARIABLE queue      \* the inputs submitted since the last flush

-----------------------------------------------------------------------------
(* The kinds, in the order their enums derive. *)
StyleKinds == <<"None", "Inline", "SelectorMatch", "Cascade">>
LayoutKinds == <<"None", "IntrinsicSize", "Node", "Subtree", "Tree", "Viewport">>
PaintKinds == <<"None", "Node", "Subtree", "PaintPlan", "Viewport">>
Hints == <<"None", "StyleOnly", "LayoutTree", "PaintPlan", "FullPipeline">>
Priorities == <<"Low", "Normal", "High", "Critical">>

Level(kinds, kind) == CHOOSE i \in DOMAIN kinds : kinds[i] = kind
AtLeast(kinds, a, b) == Level(kinds, a) >= Level(kinds, b)
Stronger(kinds, a, b) == IF AtLeast(kinds, a, b) THEN a ELSE b

Document == [kind |-> "Document"]
Viewport == [kind |-> "Viewport"]
Unknown == [kind |-> "Unknown"]
AtNode(n) == [kind |-> "Node", node |-> n]
UnderNode(n) == [kind |-> "Subtree", node |-> n]
WholeDocument(scope) == scope \in {Document, Viewport}
HasNode(scope) == scope.kind \in {"Node", "Subtree"}

Impact(style, layout, paint, rebuild) ==
  [style |-> style, layout |-> layout, paint |-> paint, rebuild |-> rebuild]

NoImpact == Impact("None", "None", "None", "None")
PaintImpact == Impact("None", "None", "Node", "PaintPlan")
StylePaintImpact == Impact("Inline", "None", "Node", "PaintPlan")
LayoutPaintImpact == Impact("Inline", "Node", "Subtree", "LayoutTree")
FullPipelineImpact == Impact("Cascade", "Viewport", "Viewport", "FullPipeline")
RecalcImpact == Impact("SelectorMatch", "Subtree", "PaintPlan", "LayoutTree")

Merged(a, b) ==
  [style |-> Stronger(StyleKinds, a.style, b.style),
   layout |-> Stronger(LayoutKinds, a.layout, b.layout),
   paint |-> Stronger(PaintKinds, a.paint, b.paint),
   rebuild |-> Stronger(Hints, a.rebuild, b.rebuild)]

-----------------------------------------------------------------------------
(* What is submitted. *)
Input(priority, scope, impact) == [priority |-> priority, scope |-> scope, impact |-> impact]

DirtyFlagImpact ==
  [Dom |-> Impact("Cascade", "Tree", "PaintPlan", "FullPipeline"),
   Style |-> Impact("Cascade", "Subtree", "PaintPlan", "LayoutTree"),
   Layout |-> Impact("None", "Tree", "PaintPlan", "LayoutTree"),
   Paint |-> Impact("None", "None", "PaintPlan", "PaintPlan"),
   Lifecycle |-> PaintImpact]

MergeFlag(impact, flags, flag) ==
  IF flag \in flags THEN Merged(impact, DirtyFlagImpact[flag]) ELSE impact

(* impact_from_dirty_flags *)
ImpactOfFlags(flags) ==
  LET dom == MergeFlag(NoImpact, flags, "Dom")
      style == MergeFlag(dom, flags, "Style")
      layout == MergeFlag(style, flags, "Layout")
      paint == MergeFlag(layout, flags, "Paint")
  IN  MergeFlag(paint, flags, "Lifecycle")

ReflowRequests == {Input("High", Document, ImpactOfFlags(flags)) : flags \in SUBSET DOMAIN DirtyFlagImpact}

CssomMutations ==
  LET scopes == {Document} \cup {AtNode(n) : n \in DirtyNodes} IN
  {Input(m[1], scope, m[2]) : scope \in scopes,
     m \in {<<"Normal", StylePaintImpact>>, <<"High", LayoutPaintImpact>>, <<"Normal", RecalcImpact>>}}

DomSnapshots ==
  {Input("Normal", UnderNode(n), RecalcImpact) : n \in DirtyNodes} \cup
  {Input("Normal", scope, Impact("None", "IntrinsicSize", "Subtree", "LayoutTree")) :
     scope \in {AtNode(n) : n \in DirtyNodes} \cup {UnderNode(n) : n \in DirtyNodes}}

(* submit_inputs takes any input. *)
RawInputs ==
  {Input("Critical", scope, impact) :
     scope \in {Viewport, Unknown} \cup {AtNode(n) : n \in DirtyNodes},
     impact \in {NoImpact, PaintImpact, LayoutPaintImpact, FullPipelineImpact}}

Inputs == ReflowRequests \cup CssomMutations \cup DomSnapshots \cup RawInputs

-----------------------------------------------------------------------------
NormalizeScope(scope) ==
  IF UnknownScopeIsDocument /\ scope = Unknown THEN Document ELSE scope

(* Mutant of MergeScope: the scopes of two nodes are not widened. *)
KeepFirstScope(existing, new) == existing

MergeScope(existing, new) ==
  IF existing = new THEN existing
  ELSE IF Document \in {existing, new}
       THEN IF CoalesceDocumentScope THEN Document ELSE existing
  ELSE IF Viewport \in {existing, new} THEN Viewport
  ELSE IF HasNode(existing) /\ HasNode(new) /\ existing.node = new.node
       THEN UnderNode(existing.node)
  ELSE Document

(* One turn of the loop of InvalidationCoalescer::coalesce, for the first  *)
(* input and for any other.                                                *)
FirstBatch(input) == Input(input.priority, NormalizeScope(input.scope), input.impact)
Joined(batch, input) ==
  Input(Stronger(Priorities, batch.priority, input.priority),
        MergeScope(batch.scope, NormalizeScope(input.scope)),
        Merged(batch.impact, input.impact))

(* What coalesce makes of inputs that are not empty. *)
Coalesce(inputs) ==
  LET batch[i \in 1 .. Len(inputs)] ==
        IF i = 1 THEN FirstBatch(inputs[1]) ELSE Joined(batch[i - 1], inputs[i])
  IN  batch[Len(inputs)]

(* plan_from_batch *)
PlanFromBatch(batch) ==
  LET impact == batch.impact
      scope == batch.scope
      At(there) == IF HasNode(scope) /\ there THEN {scope.node} ELSE {}
      lays == impact.layout # "None"
      paints == impact.paint # "None"
      styles == impact.style # "None"
  IN [priority |-> batch.priority,
      style_nodes |-> At(styles), layout_nodes |-> At(lays), paint_nodes |-> At(paints),
      restyle_document |-> WholeDocument(scope) \/ impact.style = "Cascade",
      rebuild_layout_tree |->
        \/ impact.layout \in {"Tree", "Viewport"}
        \/ impact.rebuild \in {"LayoutTree", "FullPipeline"}
        \/ lays /\ scope.kind \notin {"Node", "Subtree"}
        \/ scope.kind = "Subtree" /\ AtLeast(LayoutKinds, impact.layout, "Subtree"),
      rebuild_paint_plan |->
        \/ AtLeast(PaintKinds, impact.paint, "PaintPlan")
        \/ lays
        \/ AtLeast(Hints, impact.rebuild, "PaintPlan")
        \/ paints /\ ~HasNode(scope),
      full_viewport_paint |->
        WholeDocument(scope) \/ impact.paint = "Viewport" \/ impact.rebuild = "FullPipeline"]

FlushedPlan == PlanFromBatch(Coalesce(queue))

-----------------------------------------------------------------------------
InvalidationInit == queue = <<>>

Submit(input) ==
  /\ Len(queue) < MaxInputs
  /\ queue' = Append(queue, input)

(* flush_plan and clear both leave the queue empty; only the first returns *)
(* a plan, FlushedPlan.                                                    *)
FlushPlan == queue' = <<>>

InvalidationNext == (\E input \in Inputs : Submit(input)) \/ FlushPlan

InvalidationSpec == InvalidationInit /\ [][InvalidationNext]_queue

-----------------------------------------------------------------------------
(* Whatever is queued, and in whatever order, the plan a flush would       *)
(* return does the work every single input asks for: its style, layout and *)
(* paint are redone at its node or everywhere, with its priority or more   *)
(* (coalesce, merge_scope, plan_from_batch).                               *)
PlanCoversInputs ==
  \A i \in DOMAIN queue :
    LET plan == FlushedPlan
        input == queue[i]
        impact == input.impact
        In(listed) == HasNode(input.scope) /\ input.scope.node \in listed
    IN /\ impact.style # "None" => plan.restyle_document \/ In(plan.style_nodes)
       /\ impact.style = "Cascade" => plan.restyle_document
       /\ impact.layout # "None" => plan.rebuild_layout_tree \/ In(plan.layout_nodes)
       /\ impact.layout = "Subtree" /\ input.scope.kind = "Subtree" => plan.rebuild_layout_tree
       /\ impact.paint # "None" => plan.rebuild_paint_plan \/ In(plan.paint_nodes)
       /\ impact.rebuild = "FullPipeline" => plan.full_viewport_paint
       /\ AtLeast(Priorities, plan.priority, input.priority)
=============================================================================
