---------------------------- MODULE StyleCascade ----------------------------
(***************************************************************************)
(* How a page gets its style: the selectors and the per-node cascade       *)
(* (crates/present/src/{selector,styled}.rs), the summary sheet of simple  *)
(* tags (css_lite.rs, style.rs), and the CSSOM engine that edits it for    *)
(* scripts (cssom.rs, dynamic_style.rs, app's cssom_bridge.rs and          *)
(* js/cssom.rs).                                                           *)
(*                                                                         *)
(* A value is a sequence of tokens: <<"hex", colour>>, <<"px", length>> or *)
(* <<"word", w>>.  Units other than px, and names' letter case, are left   *)
(* out.                                                                    *)
(***************************************************************************)
EXTENDS Collections, Integers, Sequences, SequencesExt, FiniteSetsExt

CONSTANTS
  StyledElements,   \* the elements a page may hold
  RuleLists,        \* the rules a page may have, in source order
  BaseSheets,       \* rule lists of the page's own sheet
  CssomScripts,     \* scripts, each the sequence of its style statements
  HostMutations,    \* the CSSOM mutations the host itself makes
  MaxStyleWork      \* bound: scripts and mutations that meet one page

(* Rules, selectors, ancestors and statements are lists, classes finitely  *)
(* many, and mutations are of the kinds the engine knows.                  *)
IsVec(list) == list \in Seq(ToSet(list))
MutationKinds == {"InsertStyleSheet", "SetStyleSheetDisabled", "InsertRule", "SetInlineStyle", "RemoveInlineStyle",
                  "ClassMutation"}
ASSUME StyleAssumption ==
  /\ MaxStyleWork \in Nat
  /\ \A rules \in RuleLists : IsVec(rules) /\ \A i \in DOMAIN rules :
       LET rule == rules[i] IN
       /\ IsVec(rule.declarations) /\ IsVec(rule.selectors) /\ rule.selectors # <<>>
       /\ \A j \in DOMAIN rule.selectors : LET selector == rule.selectors[j] IN
            IsVec(selector) /\ \A k \in DOMAIN selector : IsFiniteSet(selector[k].classes)
  /\ \A e \in StyledElements : IsVec(e.ancestors)
  /\ \A base \in BaseSheets : IsVec(base) /\ \A i \in DOMAIN base :
       IsVec(base[i].declarations) /\ IsVec(base[i].selectors)
  /\ \A statements \in CssomScripts : IsVec(statements) /\ \A i \in DOMAIN statements : statements[i].kind \in MutationKinds
  /\ \A m \in HostMutations : m.kind \in MutationKinds

VARIABLES
  styled,      \* the element whose style was computed, the rules, the style
  pageStyle    \* the CSSOM engine, the page's summary sheet, the revisions

styleVars == <<styled, pageStyle>>

-----------------------------------------------------------------------------
(* Selectors: a sequence of parts, each the tag ("" for any), id ("" for   *)
(* none), classes, and the pseudo-class or attribute test, which is cut.   *)
ParsePart(part) == [tag |-> part.tag, id |-> part.id, classes |-> part.classes]
ParseSelector(selector) ==
  LET kept == {i \in DOMAIN selector : LET p == selector[i] IN p.tag # "" \/ p.id # "" \/ p.classes # {} \/ p.cut = ""}
  IN Picked([i \in 1..Len(selector) |-> ParsePart(selector[i])], kept)

PartSpecificity(p) == <<IF p.id # "" THEN 1 ELSE 0, Cardinality(p.classes), IF p.tag # "" THEN 1 ELSE 0>>
Specificity(parts) ==
  LET sum[n \in 0..Len(parts)] ==
        [k \in 1..3 |-> IF n = 0 THEN 0 ELSE sum[n - 1][k] + PartSpecificity(parts[n])[k]]
  IN sum[Len(parts)]

MatchesCore(p, e) ==
  p.tag \in {"", e.tag} /\ p.id \in {"", e.id} /\ p.classes \subseteq e.classes

(* The ancestors are walked from the parent up, once for all the parts,    *)
(* the last part first; nearest is the next of them that a part matches.   *)
Nearest(part, ancestors, below) == Max({0} \cup {i \in 1..(below - 1) : MatchesCore(part, ancestors[i])})
MatchesAncestors(parts, ancestors) ==
  LET reached[n \in 0..Len(parts)] ==
        IF n = 0 THEN Len(ancestors) + 1 ELSE Nearest(parts[Len(parts) + 1 - n], ancestors, reached[n - 1])
  IN reached[Len(parts)] # 0
Matches(parts, e) ==
  /\ parts # <<>> /\ MatchesCore(Last(parts), e)
  /\ MatchesAncestors(Front(parts), e.ancestors)

-----------------------------------------------------------------------------
(* Values: <<v>> for a value that parses, <<>> otherwise. *)
FirstOf(value, kind) ==
  LET found == {i \in DOMAIN value : value[i][1] = kind} IN IF found = {} THEN <<>> ELSE <<value[Min(found)][2]>>
ParseColor(value) == FirstOf(value, "hex")
ParsePx(value) == IF Len(value) = 1 THEN FirstOf(value, "px") ELSE <<>>
ParseDisplay(value) ==
  CASE value = << <<"word", "none">> >> -> <<"None">>
    [] value \in {<< <<"word", w>> >> : w \in {"inline", "inline-block"}} -> <<"Inline">>
    [] value \in {<< <<"word", w>> >> : w \in {"block", "flex", "grid", "table", "list-item"}} -> <<"Block">>
    [] OTHER -> <<>>

EdgeSizes(t, r, b, l) == [top |-> t, right |-> r, bottom |-> b, left |-> l]
ParseEdges(value) ==
  LET px == Picked(value, {i \in DOMAIN value : value[i][1] = "px"})
      v(i) == px[i][2]
  IN CASE Len(px) = 0 -> <<>>
       [] Len(px) = 1 -> <<EdgeSizes(v(1), v(1), v(1), v(1))>>
       [] Len(px) = 2 -> <<EdgeSizes(v(1), v(2), v(1), v(2))>>
       [] Len(px) = 3 -> <<EdgeSizes(v(1), v(2), v(3), v(2))>>
       [] OTHER -> <<EdgeSizes(v(1), v(2), v(3), v(4))>>

(* The side a longhand such as margin-top sets. *)
Longhands ==
  [margin |-> [top |-> "margin-top", right |-> "margin-right", bottom |-> "margin-bottom", left |-> "margin-left"],
   padding |-> [top |-> "padding-top", right |-> "padding-right", bottom |-> "padding-bottom", left |-> "padding-left"]]
EdgeSlots == DOMAIN Longhands
Sides == {"top", "right", "bottom", "left"}
SideOf(property, shorthand) == CHOOSE s \in Sides : property = Longhands[shorthand][s]
IsSideOf(property, shorthand) == \E s \in Sides : property = Longhands[shorthand][s]
SetSide(current, property, shorthand, px) ==
  [(IF current = <<>> THEN EdgeSizes(0, 0, 0, 0) ELSE current[1]) EXCEPT ![SideOf(property, shorthand)] = px]

(* What a declaration sets: pairs of a slot and its new value, given what  *)
(* the slots of four sides hold.                                           *)
Pair(slot, parsed) == IF parsed = <<>> THEN <<>> ELSE << <<slot, parsed[1]>> >>
BoxSets(d, held) ==
  CASE d.property \in {"background", "background-color"} -> Pair("background", ParseColor(d.value))
    [] d.property = "display" -> Pair("display", ParseDisplay(d.value))
    [] d.property \in EdgeSlots -> Pair(d.property, ParseEdges(d.value))
    [] \E s \in EdgeSlots : IsSideOf(d.property, s) ->
         LET s == CHOOSE x \in EdgeSlots : IsSideOf(d.property, x)
             px == ParsePx(d.value)
         IN IF px = <<>> THEN <<>> ELSE << <<s, SetSide(held[s], d.property, s, px[1])>> >>
    [] d.property = "border" ->
         LET width == FirstOf(d.value, "px")
         IN Pair("border-width", IF width = <<>> THEN <<>> ELSE <<EdgeSizes(width[1], width[1], width[1], width[1])>>)
            \o Pair("border-color", ParseColor(d.value))
    [] d.property = "border-width" -> Pair("border-width", ParseEdges(d.value))
    [] d.property = "border-color" -> Pair("border-color", ParseColor(d.value))
    [] OTHER -> <<>>

-----------------------------------------------------------------------------
(* The cascade: every slot keeps the declaration of the highest priority,  *)
(* <<ids, classes, tags, source order, declaration order>>.                *)
Slots == {"color", "font-size", "margin", "padding", "border-width", "border-color", "background", "display"}
EmptySlot == [value |-> <<>>, priority |-> <<>>]
NoStyle == [s \in Slots |-> EmptySlot]

DeclarationPriority(specificity, order, declaration) == specificity \o <<order, declaration>>
AtLeast(p, q) == \/ p = q
                 \/ \E k \in 1..Len(p) : p[k] > q[k] /\ \A j \in 1..(k - 1) : p[j] = q[j]
(* Mutant of SetIfWins: the later rule wins, whatever the selectors. *)
SetAlways(slot, value, priority) == [value |-> <<value>>, priority |-> priority]
SetIfWins(slot, value, priority) ==
  IF slot.priority = <<>> \/ AtLeast(priority, slot.priority)
  THEN [value |-> <<value>>, priority |-> priority] ELSE slot

DeclarationSets(style, d) ==
  CASE d.property = "color" -> Pair("color", ParseColor(d.value))
    [] d.property = "font-size" -> Pair("font-size", ParsePx(d.value))
    [] OTHER -> BoxSets(d, [s \in EdgeSlots |-> style[s].value])
Given(sets, slot) == {i \in DOMAIN sets : sets[i][1] = slot}
ApplyDeclaration(style, d, priority) ==
  LET sets == DeclarationSets(style, d)
  IN [slot \in Slots |->
        IF Given(sets, slot) = {} THEN style[slot]
        ELSE SetIfWins(style[slot], sets[CHOOSE i \in Given(sets, slot) : TRUE][2], priority)]
ApplyDeclarations(style, declarations, specificity, order) ==
  LET after[k \in 0..Len(declarations)] ==
        IF k = 0 THEN style ELSE ApplyDeclaration(after[k - 1], declarations[k], DeclarationPriority(specificity, order, k))
  IN after[Len(declarations)]

(* Of the selectors of a rule that match, the most specific counts. *)
MatchingSpecificities(rule, e) ==
  {Specificity(ParseSelector(rule.selectors[i])) :
     i \in {j \in 1..Len(rule.selectors) : Matches(ParseSelector(rule.selectors[j]), e)}}
MostSpecific(matching) == CHOOSE s \in matching : \A t \in matching : AtLeast(s, t)
ApplyRule(style, e, rule, order) ==
  LET matching == MatchingSpecificities(rule, e)
  IN IF matching = {} THEN style ELSE ApplyDeclarations(style, rule.declarations, MostSpecific(matching), order)
ComputeNodeStyle(e, rules) ==
  LET after[i \in 0..Len(rules)] == IF i = 0 THEN NoStyle ELSE ApplyRule(after[i - 1], e, rules[i], i)
  IN after[Len(rules)]

-----------------------------------------------------------------------------
(* The summary sheet: <<tag, slot>> -> value, for selectors of one tag.    *)
EmptySheet == [k \in {} |-> 0]
BoxTag(tag) == IF tag \in {"section", "article", "main", "nav", "header", "footer", "aside"} THEN "div" ELSE tag
SummaryTags == {"body", "p", "a", "img", "form", "input", "button", "textarea", "div",
                "h1", "h2", "h3", "h4", "h5", "h6"}
TextSets(tag, d) ==
  CASE tag \in {"body", "a"} /\ d.property = "color" -> Pair(<<tag, "color">>, ParseColor(d.value))
    [] tag = "a" /\ d.property = "font-size" -> Pair(<<"p", "font-size">>, ParsePx(d.value))
    [] tag \in {"body", "p", "h1", "h2", "h3", "h4", "h5", "h6"} /\ d.property = "font-size" ->
         Pair(<<tag, "font-size">>, ParsePx(d.value))
    [] OTHER -> <<>>
Held(sheet, key) == IF key \in DOMAIN sheet THEN <<sheet[key]>> ELSE <<>>
SheetAfter(sheet, sets) ==
  [key \in DOMAIN sheet \cup {sets[i][1] : i \in DOMAIN sets} |->
     IF Given(sets, key) = {} THEN sheet[key] ELSE sets[CHOOSE i \in Given(sets, key) : TRUE][2]]
DeclarationSummed(sheet, tag, d) ==
  LET box == BoxSets(d, [slot \in EdgeSlots |-> Held(sheet, <<tag, slot>>)])
  IN SheetAfter(SheetAfter(sheet, TextSets(tag, d)), [i \in DOMAIN box |-> << <<tag, box[i][1]>>, box[i][2]>>])

ApplyToTag(sheet, tag, declarations) ==
  LET after[k \in 0..Len(declarations)] ==
        IF k = 0 THEN sheet ELSE DeclarationSummed(after[k - 1], tag, declarations[k])
  IN IF tag \in SummaryTags THEN after[Len(declarations)] ELSE sheet

SimpleTag(parts) == IF Len(parts) = 1 /\ parts[1].id = "" /\ parts[1].classes = {} THEN parts[1].tag ELSE ""
RuleSummed(sheet, rule) ==
  LET after[j \in 0..Len(rule.selectors)] ==
        IF j = 0 THEN sheet
        ELSE ApplyToTag(after[j - 1], BoxTag(SimpleTag(ParseSelector(rule.selectors[j]))), rule.declarations)
  IN after[Len(rule.selectors)]
ParseCssLite(rules) ==
  LET after[i \in 0..Len(rules)] == IF i = 0 THEN EmptySheet ELSE RuleSummed(after[i - 1], rules[i])
  IN after[Len(rules)]
(* merge_from, sheet after sheet: the last that sets a slot counts.        *)
Merged(base, sheets) ==
  LET Setting(k) == {i \in DOMAIN sheets : k \in DOMAIN sheets[i]}
  IN [k \in DOMAIN base \cup UNION {DOMAIN sheets[i] : i \in DOMAIN sheets} |->
        IF Setting(k) = {} THEN base[k] ELSE sheets[Max(Setting(k))][k]]

-----------------------------------------------------------------------------
(* The CSSOM engine.  A sheet's rules go through CSS text, where an        *)
(* important value carries the mark as one more token.                     *)
Important == <<"word", "!important">>
WrittenDeclaration(d) == IF d.important THEN [d EXCEPT !.value = Append(@, Important)] ELSE d
WrittenRule(rule) == [rule EXCEPT !.declarations = [i \in 1..Len(@) |-> WrittenDeclaration(@[i])]]
ToStyleSheetLite(rules) == ParseCssLite([i \in 1..Len(rules) |-> WrittenRule(rules[i])])

LayoutProperties == {"display", "font-size", "width", "height", "min-width", "max-width", "min-height",
  "max-height", "margin", "margin-top", "margin-right", "margin-bottom", "margin-left", "padding", "padding-top",
  "padding-right", "padding-bottom", "padding-left", "border", "border-width", "border-style"}
(* Mutant of LayoutAffecting: the margins of one side are forgotten. *)
LayoutAffectingShorthands(property) == property \in LayoutProperties /\ ~IsSideOf(property, "margin")
LayoutAffecting(property) == property \in LayoutProperties

InvalidationOf(mutation) ==
  IF mutation.kind \in {"SetInlineStyle", "RemoveInlineStyle"} /\ ~LayoutAffecting(mutation.property)
  THEN {"style", "paint"} ELSE {"style", "layout", "paint"}

NewEngine == [sheets |-> <<>>, dynamic |-> <<>>, inline |-> <<>>, classes |-> <<>>]
Rule(selector, declarations) == [selectors |-> <<selector>>, declarations |-> declarations]
SetDisabled(engine, m) ==
  [engine EXCEPT !.sheets = [i \in 1..Len(@) |->
     IF @[i].origin = m.origin THEN [@[i] EXCEPT !.disabled = m.disabled] ELSE @[i]]]
RemoveInline(engine, m) ==
  LET Without(rule) ==
        IF m.selector \notin ToSet(rule.selectors) THEN rule
        ELSE [rule EXCEPT !.declarations = Picked(@, {i \in DOMAIN @ : @[i].property # m.property})]
      left == [i \in 1..Len(engine.inline) |-> Without(engine.inline[i])]
  IN [engine EXCEPT !.inline = Picked(left, {i \in DOMAIN left : left[i].declarations # <<>>})]

ApplyMutation(engine, m) ==
  CASE m.kind = "InsertStyleSheet" ->
         [engine EXCEPT !.sheets = Append(@, [origin |-> m.origin, disabled |-> FALSE, rules |-> m.rules])]
    [] m.kind = "SetStyleSheetDisabled" -> SetDisabled(engine, m)
    [] m.kind = "InsertRule" ->
         IF m.declarations = <<>> THEN engine
         ELSE [engine EXCEPT !.dynamic = Append(@, Rule(m.selector, m.declarations))]
    [] m.kind = "SetInlineStyle" ->
         [engine EXCEPT !.inline = Append(@, Rule(m.selector,
            << [property |-> m.property, value |-> m.value, important |-> m.important] >>))]
    [] m.kind = "RemoveInlineStyle" -> RemoveInline(engine, m)
    [] m.kind = "ClassMutation" -> [engine EXCEPT !.classes = Append(@, m)]

ApplyMutations(engine, mutations) ==
  LET after[i \in 0..Len(mutations)] == IF i = 0 THEN engine ELSE ApplyMutation(after[i - 1], mutations[i])
  IN after[Len(mutations)]

ActiveSheets(engine) ==
  LET active == Picked(engine.sheets, {i \in DOMAIN engine.sheets : ~engine.sheets[i].disabled})
  IN Append([i \in 1..Len(active) |-> active[i].rules], engine.dynamic)
ComputeSummarySheet(engine, base) ==
  LET active == ActiveSheets(engine)
  IN Merged(Merged(base, [i \in 1..Len(active) |-> ToStyleSheetLite(active[i])]), <<ToStyleSheetLite(engine.inline)>>)

(* js/cssom.rs reads the effects off the script's text, one pattern after  *)
(* another, not in the order in which the script has them.                 *)
ExtractEffects(statements) ==
  LET Written(how) == Picked(statements, {i \in DOMAIN statements : statements[i].how = how})
  IN Written("assignment") \o Written("setProperty") \o Written("insertRule") \o Written("classList")

-----------------------------------------------------------------------------
StyleInit ==
  /\ styled = [element |-> <<>>, rules |-> <<>>, style |-> NoStyle]
  /\ \E base \in BaseSheets :
       pageStyle = [engine |-> NewEngine, summary |-> ParseCssLite(base), work |-> 0, revision |-> 0,
                    layout |-> 0, paint |-> 0]

(* recompute_document_style_tree, for one element *)
DocumentStyled ==
  /\ styled.element = <<>>
  /\ \E e \in StyledElements, rules \in RuleLists :
       styled' = [element |-> <<e>>, rules |-> rules, style |-> ComputeNodeStyle(e, rules)]
  /\ UNCHANGED pageStyle

(* The engine takes the mutations, the revisions move, and the summary is  *)
(* merged over what the page already shows.                                *)
Restyled(mutations) ==
  LET engine == ApplyMutations(pageStyle.engine, mutations)
      dirty == UNION {InvalidationOf(mutations[i]) : i \in 1..Len(mutations)}
      Bumped(revision, part) == revision + (IF part \in dirty THEN 1 ELSE 0)
  IN [engine |-> engine, summary |-> ComputeSummarySheet(engine, pageStyle.summary),
      work |-> pageStyle.work + 1, revision |-> Bumped(pageStyle.revision, "style"),
      layout |-> Bumped(pageStyle.layout, "layout"), paint |-> Bumped(pageStyle.paint, "paint")]

(* PageCssomController::apply_script_effects *)
ScriptStyled ==
  /\ pageStyle.work < MaxStyleWork
  /\ \E statements \in CssomScripts : pageStyle' = Restyled(ExtractEffects(statements))
  /\ UNCHANGED styled
(* PageCssomController::apply_host_mutations *)
HostStyled ==
  /\ pageStyle.work < MaxStyleWork
  /\ \E m \in HostMutations : pageStyle' = Restyled(<<m>>)
  /\ UNCHANGED styled

PageRestyled == ScriptStyled \/ HostStyled

StyleSpec == StyleInit /\ [][DocumentStyled \/ PageRestyled]_styleVars
-----------------------------------------------------------------------------
(* What a selector means: its parts match the element and, in order, some  *)
(* of its ancestors.                                                       *)
Describes(parts, e) ==
  \E at \in [1..Len(parts) -> 1..(Len(e.ancestors) + 1)] :
    /\ at[Len(parts)] = Len(e.ancestors) + 1
    /\ \A k \in 1..(Len(parts) - 1) : at[k] < at[k + 1]
    /\ \A k \in 1..Len(parts) : MatchesCore(parts[k], IF at[k] > Len(e.ancestors) THEN e ELSE e.ancestors[at[k]])
(* The declarations that set the slot as a whole, with their priorities.   *)
Places(rules) == UNION {{i} \X (DOMAIN rules[i].selectors) \X (DOMAIN rules[i].declarations) : i \in DOMAIN rules}
SetsAlone(d, slot) == ApplyDeclaration(NoStyle, d, <<0>>)[slot].value
AppliesAt(e, rules, slot, i, j, k) ==
  LET parts == ParseSelector(rules[i].selectors[j])
  IN parts # <<>> /\ Describes(parts, e) /\ SetsAlone(rules[i].declarations[k], slot) # <<>>
Declared(e, rules, slot) ==
  {[priority |-> DeclarationPriority(Specificity(ParseSelector(rules[at[1]].selectors[at[2]])), at[1], at[3]),
    value |-> SetsAlone(rules[at[1]].declarations[at[3]], slot)] :
     at \in {p \in Places(rules) : AppliesAt(e, rules, slot, p[1], p[2], p[3])}}

(* A node's colour, size, background, border and display are those of the  *)
(* declaration CSS gives the last word: of the rules one of whose          *)
(* selectors describes the node, the most specific, then the latest.       *)
(* Margins and paddings are left out: a slot for all four sides keeps one  *)
(* priority, and a margin-left of low priority is lost to a margin-top of  *)
(* a higher one.                                                           *)
StylesFollowTheCascade ==
  styled.element # <<>> =>
    \A slot \in Slots \ EdgeSlots :
      LET declared == Declared(styled.element[1], styled.rules, slot)
      IN styled.style[slot].value =
           IF declared = {} THEN <<>>
           ELSE (CHOOSE d \in declared : \A o \in declared : AtLeast(d.priority, o.priority)).value

LayoutKeys(sheet) == {k \in DOMAIN sheet : k[2] \in {"margin", "padding", "border-width", "display", "font-size"}}
LayoutOf(sheet) == [k \in LayoutKeys(sheet) |-> sheet[k]]
(* When a script or the host changes what the page shows of a size, a      *)
(* distance or a display, the layout revision moves; when it changes       *)
(* anything, the paint revision does.                                      *)
RestyledPagesAreLaidOut ==
  [][ /\ LayoutOf(pageStyle.summary) # LayoutOf(pageStyle'.summary) => pageStyle'.layout > pageStyle.layout
      /\ pageStyle.summary # pageStyle'.summary => pageStyle'.paint > pageStyle.paint ]_styleVars
=============================================================================
