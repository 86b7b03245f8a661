----------------------------- MODULE ScriptCssom -----------------------------
(***************************************************************************)
(* The style objects SylJS gives a script (crates/syljs/src/cssom.rs):     *)
(* inline styles, style sheets with their rules, computed style, and the   *)
(* record of style mutations that tells the page what to bring up to date. *)
(***************************************************************************)
EXTENDS Integers, Sequences, SequencesExt, FiniteSetsExt, TLC

CONSTANTS
  Snapshots,        \* node -> [tag, id, classes]: the nodes of the document
  DetachedNodes,    \* nodes the document does not know
  StyleNames,       \* property names as scripts write them
  StyleValues,
  SheetRules,       \* rules scripts insert: [selector, declarations]
  MaxStyleCalls,    \* bound: mutations recorded
  MaxSheets         \* bound: style sheets

ASSUME CssomAssumption == MaxStyleCalls \in Nat /\ MaxSheets \in Nat

VARIABLE cssom    \* ResearchCssomHost

-----------------------------------------------------------------------------
StyledNodes == DOMAIN Snapshots \cup DetachedNodes
NoDeclarations == [p \in {} |-> ""]

(* An upper case letter becomes a dash and its lower case. *)
NormalizeCssProperty(name) ==
  CASE name = "marginTop" -> "margin-top"
    [] name = "fontSize" -> "font-size"
    [] name = "cssText" -> "css-text"
    [] name = "insertRule" -> "insert-rule"
    [] name = "deleteRule" -> "delete-rule"
    [] OTHER -> name

ReflowProperties == {"width", "height", "min-width", "max-width", "min-height", "max-height", "margin",
  "margin-top", "margin-right", "margin-bottom", "margin-left", "padding", "padding-top", "padding-right",
  "padding-bottom", "padding-left", "border", "border-width", "font-size", "display", "position", "top",
  "right", "bottom", "left"}
(* Called with "insertRule" and "deleteRule" too, which the normalization  *)
(* turns into names of the last arm.                                       *)
InvalidationForProperty(name) ==
  CASE NormalizeCssProperty(name) \in ReflowProperties -> "Layout"
    [] NormalizeCssProperty(name) \in {"class", "id", "insertRule", "deleteRule"} -> "StyleRecalc"
    [] OTHER -> "Paint"

(* `#id`, `.class`, `tag.class`, `tag#id` or `tag`; a selector is given as *)
(* its three names, "" for the absent ones.                                *)
SelectorMatchesSnapshot(node, s) ==
  /\ s # [tag |-> "", id |-> "", class |-> ""]
  /\ s.tag \in {"", node.tag}
  /\ s.id \in {"", node.id}
  /\ s.class = "" \/ s.class \in node.classes

DefaultComputed ==
  [p \in {"display", "position", "color", "background-color", "background", "font-size", "margin", "padding", "border-width"} |->
     CASE p = "display" -> "block" [] p = "position" -> "static" [] p = "color" -> "black"
       [] p \in {"background", "background-color"} -> "transparent" [] p = "font-size" -> "16px" [] OTHER -> "0px"]
NoValue == "none"
Get(f, p, otherwise) == IF p \in DOMAIN f THEN f[p] ELSE otherwise

(* The declarations of all rules that match, later ones over earlier ones. *)
Cascaded(sheets, node) ==
  LET matching == SelectSeq(FlattenSeq(sheets), LAMBDA r : SelectorMatchesSnapshot(Snapshots[node], r.selector))
  IN FoldLeft(LAMBDA all, r : r.declarations @@ all, NoDeclarations, matching)
ComputedStyle(c, node, name) ==
  LET p == NormalizeCssProperty(name)
  IN IF p \in DOMAIN c.inline[node] THEN c.inline[node][p]
     ELSE IF node \in DetachedNodes THEN NoValue
     ELSE Get(Cascaded(c.sheets, node), p, Get(DefaultComputed, p, NoValue))

-----------------------------------------------------------------------------
CssomInit ==
  cssom = [inline |-> [n \in StyledNodes |-> NoDeclarations], sheets |-> << <<>> >>, nextRule |-> 0, mutations |-> <<>>]

Record(c, node, name) ==
  [c EXCEPT !.mutations = Append(@, [node |-> node, property |-> name, invalidation |-> InvalidationForProperty(name)])]
Room == Len(cssom.mutations) < MaxStyleCalls
Page == "page"     \* a mutation that is of no one node

(* style.name = value and style.setProperty(name, value) *)
InlineStyleSet(node, name, value) ==
  /\ Room
  /\ LET p == NormalizeCssProperty(name)
     IN cssom' = Record([cssom EXCEPT !.inline[node] = (p :> value) @@ @], node, p)
InlineStyleRemoved(node, name) ==
  /\ Room
  /\ LET p == NormalizeCssProperty(name)
     IN cssom' = Record([cssom EXCEPT !.inline[node] = [q \in DOMAIN @ \ {p} |-> @[q]]], node, p)
CssTextSet(node, declarations) ==
  /\ Room
  /\ cssom' = Record([cssom EXCEPT !.inline[node] = declarations], node, "cssText")

EnsureSheet(c, sheet) == [c EXCEPT !.sheets = @ \o [i \in 1..(sheet - Len(@)) |-> <<>>]]
NoSelector == [tag |-> "", id |-> "", class |-> ""]
(* Mutant of Inserted: a rule is known by its place. *)
InsertedAtItsPlace(c, sheet, rule, at) ==
  LET ready == EnsureSheet(c, sheet)
      position == Min({at, Len(ready.sheets[sheet]) + 1})
      named == [id |-> position, selector |-> rule.selector, declarations |-> rule.declarations]
  IN Record([ready EXCEPT !.sheets[sheet] = InsertAt(@, position, named), !.nextRule = @ + 1], Page, "insertRule")
Inserted(c, sheet, rule, at) ==
  LET ready == EnsureSheet(c, sheet)
      position == Min({at, Len(ready.sheets[sheet]) + 1})
      named == [id |-> c.nextRule, selector |-> rule.selector, declarations |-> rule.declarations]
  IN Record([ready EXCEPT !.sheets[sheet] = InsertAt(@, position, named), !.nextRule = @ + 1], Page, "insertRule")
RuleInserted(sheet, rule, at) ==
  /\ Room /\ sheet <= Len(cssom.sheets)
  /\ cssom' = Inserted(cssom, sheet, rule, at)
(* new CSSStyleSheet(): a sheet comes to be by inserting an empty rule. *)
SheetCreated ==
  /\ Room /\ Len(cssom.sheets) < MaxSheets
  /\ cssom' = Inserted(cssom, Len(cssom.sheets) + 1, [selector |-> NoSelector, declarations |-> NoDeclarations], 1)
RuleDeleted(sheet, at) ==
  /\ Room /\ sheet <= Len(cssom.sheets) /\ at <= Len(cssom.sheets[sheet])
  /\ cssom' = Record([cssom EXCEPT !.sheets[sheet] = RemoveAt(@, at)], Page, "deleteRule")
(* An index past the end deletes nothing; rule.style is a copy, so writing *)
(* to it, like every read, leaves the host as it is.                       *)
NothingStyled == cssom' = cssom

CssomNext ==
  \/ \E node \in StyledNodes, name \in StyleNames :
       \/ \E value \in StyleValues : InlineStyleSet(node, name, value)
       \/ InlineStyleRemoved(node, name)
       \/ \E value \in StyleValues : CssTextSet(node, NormalizeCssProperty(name) :> value)
  \/ \E sheet \in 1..MaxSheets :
       \/ \E rule \in SheetRules, at \in 1..3 : RuleInserted(sheet, rule, at)
       \/ \E at \in 1..3 : RuleDeleted(sheet, at)
  \/ SheetCreated
  \/ NothingStyled

CssomSpec == CssomInit /\ [][CssomNext]_cssom
-----------------------------------------------------------------------------
Changed(name) == {n \in StyledNodes : ComputedStyle(cssom, n, name) # ComputedStyle(cssom, n, name)'}
RulesOf(c) == UNION {ToSet(c.sheets[s]) : s \in DOMAIN c.sheets}
IdsAreUnique(c) ==
  \A s, t \in DOMAIN c.sheets : \A i \in DOMAIN c.sheets[s], j \in DOMAIN c.sheets[t] :
    c.sheets[s][i].id = c.sheets[t][j].id => s = t /\ i = j

(* What getComputedStyle answers changes only by a recorded mutation, of   *)
(* the node whose answer changed or of the page; a rule keeps its id while *)
(* rules come and go around it, and shares it with no other, in any sheet  *)
(* (record_invalidation, insert_rule, delete_rule).                        *)
StyleChangesAreReported ==
  [][ /\ \A name \in StyleNames : Changed(name) # {} =>
           LET m == Last(cssom'.mutations)
           IN /\ cssom'.mutations = Append(cssom.mutations, m)
              /\ m.node = Page \/ Changed(name) = {m.node}
      /\ \A r \in RulesOf(cssom'), q \in RulesOf(cssom) : r.id = q.id => r = q
      /\ IdsAreUnique(cssom') ]_cssom
=============================================================================
