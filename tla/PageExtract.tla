----------------------------- MODULE PageExtract -----------------------------
(***************************************************************************)
(* What is shown of a document: the blocks, forms and style sources taken  *)
(* out of its tree (present: extract.rs, inline.rs, stylesheet.rs,         *)
(* document.rs), and the style sheets fetched for it (app:                 *)
(* browser/stylesheets.rs).  Trees are those of HtmlTree, blocks those of  *)
(* PageLayout.  The text of a style sheet is its imports and its rules;    *)
(* theme colours are left out, which are found as titles are.              *)
(***************************************************************************)
EXTENDS HtmlTree, PageLayout

CONSTANTS
  ParsedPages,         \* trees of the pages that are shown
  Sheets,              \* what the network has: address -> [imports, rules, large]
  MaxStylesheets,      \* style sheets of a page that are fetched
  MaxImportDepth       \* imports in imports that are followed

VARIABLE extracted     \* the tree, the document taken out of it, the sheets that cannot be had

-----------------------------------------------------------------------------
(* Tags and attributes.                                                    *)
ScriptLike == {"script", "noscript", "template"}
IgnoredSubtrees == ScriptLike \cup {"style"}
HeadOnly == {"head", "title", "meta", "link", "base"}
NotShown == IgnoredSubtrees \cup HeadOnly
InlineTextTags == {"center", "font", "span", "label", "small", "strong", "em", "b", "i", "u"}
HeadingTags == {"h1", "h2", "h3", "h4", "h5", "h6"}
GroupTags ==
  {"html", "body", "main", "section", "article", "div", "nav", "header", "footer", "aside", "ul", "ol", "li",
   "table", "thead", "tbody", "tfoot", "tr", "td", "th"}
ControlTags == {"input", "button", "textarea"}
AttrValue(e, name) ==
  LET at == SelectInSeq(e.attrs, LAMBDA attr : attr[1] = name) IN IF at = 0 THEN <<>> ELSE <<e.attrs[at][2]>>
AttrOr(e, name, default) == IF AttrValue(e, name) = <<>> THEN default ELSE AttrValue(e, name)[1]

(* Words of a text, and the text of nodes: of a title as it is written, of *)
(* what is visible with a space before every piece.                        *)
NormalizeText(symbols) ==
  LET words == FoldLeft(LAMBDA at, x : IF x = <<" ">> THEN [at EXCEPT !.open = FALSE]
                                       ELSE IF at.open THEN [at EXCEPT !.done = Append(Front(@), Append(Last(@), x))]
                                       ELSE [open |-> TRUE, done |-> Append(at.done, <<x>>)],
                        [open |-> FALSE, done |-> <<>>], symbols).done IN
  [i \in DOMAIN words |-> [id |-> words[i], length |-> Len(words[i])]]
RECURSIVE WrittenText(_), VisibleText(_)
WrittenText(nodes) ==
  FoldLeft(LAMBDA text, n : CASE n.node = "text" -> text \o n.text
                              [] n.node = "element" -> text \o WrittenText(n.children)
                              [] OTHER -> text, <<>>, nodes)
VisibleText(nodes) ==
  FoldLeft(LAMBDA text, n : CASE n.node = "text" -> text \o << <<" ">> >> \o n.text
                              [] n.node = "element" /\ n.tag \notin NotShown -> text \o VisibleText(n.children)
                              [] OTHER -> text, <<>>, nodes)
CollectText(nodes) == NormalizeText(WrittenText(nodes))
CollectVisibleText(nodes) == NormalizeText(VisibleText(nodes))

(* The first title with a text, scripts and styles apart.                  *)
RECURSIVE FindTitle(_)
FindTitle(nodes) ==
  FoldLeft(LAMBDA found, n :
             LET text == CollectText(n.children) IN
             IF found /= <<>> \/ n.node /= "element" THEN found
             ELSE IF n.tag = "title" /\ text /= <<>> THEN text
             ELSE IF n.tag \in IgnoredSubtrees THEN <<>> ELSE FindTitle(n.children), <<>>, nodes)

-----------------------------------------------------------------------------
(* Fragments of mixed text and links.                                      *)
Fragment(text, link, linked) == [text |-> text, link |-> link, linked |-> linked]
TextFragment(text) == IF text = <<>> THEN <<>> ELSE <<Fragment(text, <<>>, FALSE)>>
LinkTo(e) == LET href == AttrValue(e, "href") IN IF href = <<>> THEN <<>> ELSE <<[id |-> href[1], length |-> Len(href[1])]>>
LinkFragment(e) ==
  LET text == CollectVisibleText(e.children) IN
  IF text = <<>> /\ IsBlank(AttrOr(e, "href", <<>>)) THEN <<>> ELSE <<Fragment(text, LinkTo(e), TRUE)>>
RECURSIVE AppendInlineFragments(_)
AppendInlineFragments(nodes) ==
  FoldLeft(LAMBDA done, n :
             CASE n.node = "text" -> done \o TextFragment(NormalizeText(n.text))
               [] n.node = "element" /\ n.tag = "a" -> done \o LinkFragment(n)
               [] n.node = "element" /\ n.tag \in InlineTextTags -> done \o AppendInlineFragments(n.children)
               [] n.node = "element" /\ n.tag \notin NotShown -> done \o TextFragment(CollectVisibleText(n.children))
               [] OTHER -> done, <<>>, nodes)
(* Mutant of CompactFragments: any two links that follow each other are one. *)
CompactLinks(fragments) ==
  FoldLeft(LAMBDA done, f : IF done /= <<>> /\ Last(done).linked = f.linked
                            THEN Append(Front(done), [Last(done) EXCEPT !.text = @ \o f.text]) ELSE Append(done, f), <<>>, fragments)
CompactFragments(fragments) ==
  FoldLeft(LAMBDA done, f : IF done /= <<>> /\ Last(done).linked = f.linked /\ Last(done).link = f.link
                            THEN Append(Front(done), [Last(done) EXCEPT !.text = @ \o f.text]) ELSE Append(done, f), <<>>, fragments)
CollectInlineFragments(nodes) == CompactFragments(AppendInlineFragments(nodes))
PlainText(fragments) == FlattenSeq([i \in DOMAIN fragments |-> fragments[i].text])

-----------------------------------------------------------------------------
(* Controls and forms; ids are counted over the page.                      *)
InputKinds ==
  (<<"search">> :> "Search") @@ (<<"password">> :> "Password") @@ (<<"hidden">> :> "Hidden") @@ (<<"submit">> :> "Submit")
    @@ (<<"button">> :> "Button") @@ (<<"reset">> :> "Button")
TypeOf(e, default) == LET type == AttrOr(e, "type", <<>>) IN IF type = <<>> THEN <<default>> ELSE type[1]
LettersOfWords(words) ==
  FlattenSeq([i \in DOMAIN words |-> (IF i = 1 THEN <<>> ELSE << <<" ">> >>) \o words[i].id])
ControlKind(e) ==
  LET type == TypeOf(e, "submit") IN
  CASE e.tag = "input" -> IF TypeOf(e, "text") \in DOMAIN InputKinds THEN InputKinds[TypeOf(e, "text")] ELSE "Text"
    [] e.tag = "button" -> IF type \in {<<"button">>, <<"reset">>} THEN "Button" ELSE "Submit"
    [] OTHER -> "TextArea"
ControlText(e, kind) ==
  IF e.tag = "input" THEN IF kind \in SubmitLike THEN << <<kind>> >> ELSE <<>>
  ELSE LettersOfWords(NormalizeText(IF e.tag = "textarea" THEN WrittenText(e.children) ELSE VisibleText(e.children)))
ExtractControl(e, id) ==
  LET button == e.tag = "button"
      labelled(value) == IF button /\ IsBlank(value) THEN << <<"Submit">> >> ELSE value
      control(kind, value) ==
        [id |-> id, kind |-> kind, name |-> AttrOr(e, "name", <<>>), value |-> value,
         placeholder |-> IF button THEN <<>> ELSE AttrOr(e, "placeholder", <<>>),
         label |-> IF button THEN value ELSE AttrOr(e, "aria-label", AttrOr(e, "title", <<>>)),
         disabled |-> AttrValue(e, "disabled") /= <<>>, focused |-> FALSE]
      ofKind(kind) == control(kind, labelled(AttrOr(e, "value", ControlText(e, kind)))) IN
  ofKind(ControlKind(e))
RECURSIVE CollectFormControls(_, _)
CollectFormControls(controls, nodes) ==    \* controls are those before, the last with the last id
  FoldLeft(LAMBDA done, n :
             LET own == IF n.node = "element" /\ n.tag \in ControlTags
                        THEN [last |-> done.last + 1, all |-> Append(done.all, ExtractControl(n, done.last + 1))] ELSE done IN
             IF n.node = "element" /\ n.tag \notin IgnoredSubtrees THEN CollectFormControls(own, n.children) ELSE own, controls, nodes)

NoForm == [id |-> 0, method |-> "Get", controls |-> <<>>]
ShownBlock(kind, text) == [kind |-> kind, level |-> 1, text |-> text, link |-> <<>>, fragments |-> <<>>, form |-> NoForm]
ElementOf(e, ancestors) == [tag |-> e.tag, attrs |-> e.attrs, ancestors |-> ancestors]
PushBlock(at, block, element) == [at EXCEPT !.blocks = Append(@, block), !.elements = Append(@, element)]
PushText(at, block, element) == IF block.text = <<>> THEN at ELSE PushBlock(at, block, element)
PushForm(at, e, element, controls) ==
  LET form == [id |-> at.forms + 1, controls |-> controls,
               method |-> IF e.tag = "form" /\ AttrOr(e, "method", <<>>) = << <<"post">> >> THEN "Post" ELSE "Get"]
      counted == [at EXCEPT !.forms = @ + 1, !.controls = @ + Len(controls)] IN
  IF controls = <<>> THEN counted ELSE PushBlock(counted, [ShownBlock("Form", <<>>) EXCEPT !.form = form], element)
PushFragments(at, e, element, fragments) ==
  IF (\E i \in DOMAIN fragments : fragments[i].linked) \/ Len(fragments) > 1
  THEN IF PlainText(fragments) = <<>> THEN at ELSE PushBlock(at, [ShownBlock("InlineFlow", <<>>) EXCEPT !.fragments = fragments], element)
  ELSE PushText(at, ShownBlock("Paragraph", CollectVisibleText(e.children)), element)
PushFlow(at, e, element) == PushFragments(at, e, element, CollectInlineFragments(e.children))
LinkBlockOf(e) == [ShownBlock("Link", CollectVisibleText(e.children)) EXCEPT !.link = LinkTo(e)]
(* A paragraph that is one link and no text of its own.                    *)
SingleLink(nodes) ==
  LET own == SelectSeq(nodes, LAMBDA n : n.node = "element" \/ (n.node = "text" /\ ~IsBlank(n.text))) IN
  IF Len(own) = 1 /\ IsElement(own[1], {"a"}) THEN own ELSE <<>>

RECURSIVE CollectBlocks(_, _, _)
CollectElement(at, e, ancestors) ==
  LET element == ElementOf(e, ancestors)
      text == CollectVisibleText(e.children)
      controls == CollectFormControls([last |-> at.controls, all |-> <<>>], e.children).all
      single == SingleLink(e.children)
      image == AttrValue(e, "alt") \o AttrValue(e, "src") IN
  CASE e.tag \in NotShown -> at
    [] e.tag \in HeadingTags -> PushText(at, [ShownBlock("Heading", text) EXCEPT !.level = IF e.tag = "h1" THEN 1 ELSE 2], element)
    [] e.tag \in InlineTextTags -> PushFlow(at, e, element)
    [] e.tag = "form" -> PushForm(at, e, element, controls)
    [] e.tag \in ControlTags -> PushForm(at, e, element, <<ExtractControl(e, at.controls + 1)>>)
    [] e.tag = "p" -> IF single = <<>> THEN PushFlow(at, e, element) ELSE PushBlock(at, LinkBlockOf(single[1]), ElementOf(single[1], ancestors))
    [] e.tag = "a" -> IF text = <<>> /\ LinkTo(e) = <<>> THEN at ELSE PushBlock(at, LinkBlockOf(e), element)
    [] e.tag = "img" -> IF image = <<>> THEN at
                        ELSE PushBlock(at, [ShownBlock("Image", NormalizeText(AttrOr(e, "alt", <<>>))) EXCEPT !.link = NormalizeText(AttrOr(e, "src", <<>>))], element)
    [] e.tag \in GroupTags -> CollectBlocks(at, e.children, Append(ancestors, [tag |-> e.tag, attrs |-> e.attrs]))
    [] OTHER -> PushText(at, ShownBlock("Generic", text), element)
CollectBlocks(at, nodes, ancestors) ==
  FoldLeft(LAMBDA done, n :
             CASE n.node = "text" -> PushText(done, ShownBlock("Paragraph", NormalizeText(n.text)), ElementOf(NewElement("p", <<>>), ancestors))
               [] n.node = "element" -> CollectElement(done, n, ancestors)
               [] OTHER -> done, at, nodes)

-----------------------------------------------------------------------------
(* Style sources in the order of the tree.  Inline rules are the words of  *)
(* their text.                                                             *)
InlineSource(css) == [kind |-> "Inline", css |-> css, href |-> <<>>, applies |-> TRUE]
AppliesToScreen(e) ==
  /\ AttrValue(e, "disabled") = <<>>
  /\ LET media == AttrOr(e, "media", <<>>) IN IsBlank(media) \/ <<"all">> \in ToSet(media) \/ <<"screen">> \in ToSet(media)
LinkedSource(e) ==
  LET rel == ToSet(AttrOr(e, "rel", <<>>)) IN
  IF e.tag = "link" /\ <<"stylesheet">> \in rel /\ <<"alternate">> \notin rel /\ ~IsBlank(AttrOr(e, "href", <<>>))
  THEN <<[kind |-> "External", css |-> <<>>, href |-> AttrOr(e, "href", <<>>), applies |-> AppliesToScreen(e)]>> ELSE <<>>
RECURSIVE StyleSources(_)
StyleSources(nodes) ==
  FoldLeft(LAMBDA done, n :
             CASE n.node /= "element" -> done
               [] n.tag = "style" -> IF IsBlank(WrittenText(n.children)) THEN done ELSE Append(done, InlineSource(CollectText(n.children)))
               [] LinkedSource(n) /= <<>> -> done \o LinkedSource(n)
               [] n.tag \in ScriptLike -> done
               [] OTHER -> done \o StyleSources(n.children), <<>>, nodes)

Stride == 10000
RulesAt(names, base) == [i \in DOMAIN names |-> [name |-> names[i], order |-> base + i - 1]]
InlineNames(source) == [i \in DOMAIN source.css |-> source.css[i].id]
RulesOfSources(sources) ==
  FlattenSeq([i \in DOMAIN sources |-> RulesAt(InlineNames(sources[i]), (i - 1) * Stride)])
ExtractRenderDocument(nodes) ==
  LET document(sources, found) ==
        [title |-> FindTitle(nodes), sources |-> sources, rules |-> RulesOfSources(sources), blocks |-> found.blocks,
         elements |-> found.elements] IN
  document(StyleSources(nodes), CollectBlocks([blocks |-> <<>>, elements |-> <<>>, forms |-> 0, controls |-> 0], nodes, <<>>))

(* Fetching: an address is fetched once, an import before the sheet that   *)
(* imports it, and what follows an import to the first brace is lost with  *)
(* it (selector.rs, parse_css_rules_lite).                                 *)
RulesOfSheet(sheet) == IF sheet.imports = <<>> \/ sheet.rules = <<>> THEN sheet.rules ELSE Tail(sheet.rules)
Tallied(at, what, n) == [at EXCEPT !.summary[what] = @ + n]
RECURSIVE LoadSheet(_, _, _, _, _)
LoadImport(at, href, failing, depth, base) ==
  LET got == LoadSheet(at, href, failing, depth, base) IN
  IF got.ok THEN Tallied(got, "imported", 1) ELSE Tallied([got EXCEPT !.ok = TRUE], "failed", 1)
LoadSheet(at, href, failing, depth, base) ==
  LET sheet == Sheets[href]
      fetched == [at EXCEPT !.visited = @ \cup {href}]
      imported == FoldLeft(LAMBDA done, i : LoadImport(done, sheet.imports[i], failing, depth + 1, base + i * 100),
                           fetched, [i \in DOMAIN sheet.imports |-> i]) IN
  IF href \notin DOMAIN Sheets THEN [at EXCEPT !.ok = FALSE]
  ELSE IF depth > MaxImportDepth \/ href \in at.visited THEN Tallied(at, "skipped", 1)
  ELSE IF href \in failing THEN [fetched EXCEPT !.ok = FALSE]
  ELSE IF sheet.large THEN Tallied(fetched, "skipped", 1)
  ELSE Tallied([imported EXCEPT !.rules = @ \o RulesAt(RulesOfSheet(sheet), base), !.loaded = Append(@, href)], "loaded", 1)
LoadSource(at, source, place, failing) ==
  LET counted == [at EXCEPT !.seen = @ + 1]
      settled(got) == IF got.ok THEN got ELSE Tallied([got EXCEPT !.ok = TRUE, !.rules = at.rules], "failed", 1) IN
  CASE source.kind = "Inline" -> [at EXCEPT !.rules = @ \o RulesAt(InlineNames(source), place * Stride)]
    [] source.kind = "External" /\ at.seen >= MaxStylesheets -> Tallied(at, "skipped", 1)
    [] source.kind = "External" /\ at.seen < MaxStylesheets /\ ~source.applies -> Tallied(counted, "skipped", 1)
    [] OTHER -> settled(LoadSheet(counted, source.href, failing, 0, place * Stride))
NoSheetsLoaded ==
  [visited |-> {}, loaded |-> <<>>, rules |-> <<>>, seen |-> 0, ok |-> TRUE,
   summary |-> [loaded |-> 0, imported |-> 0, skipped |-> 0, failed |-> 0]]
SortedByOrder(rules) ==
  LET sorted == SetToSortSeq(DOMAIN rules, LAMBDA i, k : \/ rules[i].order < rules[k].order
                                                         \/ (rules[i].order = rules[k].order /\ i < k)) IN
  [k \in DOMAIN sorted |-> rules[sorted[k]]]
LoadStylesheets(document, failing) ==
  LET sorted(at) == [at EXCEPT !.rules = SortedByOrder(@)] IN
  sorted(FoldLeft(LAMBDA done, i : LoadSource(done, document.sources[i], i - 1, failing),
                  NoSheetsLoaded, [i \in DOMAIN document.sources |-> i]))

-----------------------------------------------------------------------------
NothingExtracted == [tree |-> <<>>]
ExtractInit == extracted = NothingExtracted
PageExtracted ==
  /\ extracted = NothingExtracted
  /\ \E tree \in ParsedPages :
       extracted' = [tree |-> tree, document |-> ExtractRenderDocument(tree), sheets |-> NoSheetsLoaded]
StylesheetsLoaded ==    \* the network may refuse any of the sheets
  /\ extracted /= NothingExtracted /\ extracted.sheets = NoSheetsLoaded
  /\ \E failing \in SUBSET DOMAIN Sheets : extracted' = [extracted EXCEPT !.sheets = LoadStylesheets(extracted.document, failing)]
ExtractNext == PageExtracted \/ StylesheetsLoaded

-----------------------------------------------------------------------------
(* What a reader sees of a tree: the words of its text, those of forms     *)
(* apart.  A form or a control inside a paragraph or another element whose *)
(* text is taken as a whole has no block of its own.                       *)
RECURSIVE SeenWords(_), FormsStandAlone(_, _), LinksIn(_)
SeenWords(nodes) ==
  FoldLeft(LAMBDA words, n :
             CASE n.node = "text" -> words \o NormalizeText(n.text)
               [] n.node = "element" /\ n.tag \notin NotShown \cup ControlTags \cup {"form"} -> words \o SeenWords(n.children)
               [] OTHER -> words, <<>>, nodes)
FormsStandAlone(nodes, grouped) ==
  \A i \in DOMAIN nodes :
    LET n == nodes[i] IN
    \/ n.node /= "element"
    \/ n.tag \in NotShown
    \/ n.tag \in ControlTags \cup {"form"} /\ grouped
    \/ n.tag \notin ControlTags \cup {"form"} /\ FormsStandAlone(n.children, grouped /\ n.tag \in GroupTags)
LinksIn(nodes) ==
  UNION {IF nodes[i].node /= "element" THEN {}
         ELSE LinksIn(nodes[i].children)
                \cup (IF nodes[i].tag = "a" THEN {[link |-> LinkTo(nodes[i]), words |-> ToSet(CollectVisibleText(nodes[i].children))]} ELSE {})
         : i \in DOMAIN nodes}
WordsOfBlock(block) == IF block.kind = "Image" THEN <<>> ELSE block.text \o PlainText(block.fragments)
WordsAreShownOnce(tree, document) ==
  FormsStandAlone(tree, TRUE) => SeenWords(tree) = FlattenSeq([i \in DOMAIN document.blocks |-> WordsOfBlock(document.blocks[i])])
LinksLeadWhereTheirWordsSay(tree, document) ==
  \A i \in DOMAIN document.blocks : \A f \in ToSet(document.blocks[i].fragments) :
    f.linked => \A w \in ToSet(f.text) : \E a \in LinksIn(tree) : a.link = f.link /\ w \in a.words
ControlIds(document) ==
  FlattenSeq([i \in DOMAIN document.blocks |-> [k \in DOMAIN document.blocks[i].form.controls |-> document.blocks[i].form.controls[k].id]])
BlocksHaveTheirElements(document) ==
  LET controls == ControlIds(document) IN
  /\ Len(document.blocks) = Len(document.elements)
  /\ \A i, k \in DOMAIN controls : i < k => controls[i] < controls[k]
  /\ \A i, k \in DOMAIN document.blocks : (i < k /\ document.blocks[k].kind = "Form") => document.blocks[i].form.id < document.blocks[k].form.id
SheetsLoadOnce(sheets) ==    \* and no rule of a sheet that was refused is applied; which sheet wins is not said
  /\ IsInjective(sheets.loaded)
  /\ \A href \in DOMAIN Sheets :
       LET rules == RulesOfSheet(Sheets[href])
           applied == SelectSeq(sheets.rules, LAMBDA r : r.name \in ToSet(Sheets[href].rules)) IN
       [i \in DOMAIN applied |-> applied[i].name] = IF href \in ToSet(sheets.loaded) THEN rules ELSE <<>>
SourcesKeepTheirOrder(document, sheets) ==    \* rules of an earlier source come first, whatever is imported between
  \A i \in DOMAIN document.sources : document.sources[i].kind = "Inline" =>
    SelectSeq(sheets.rules, LAMBDA r : r.order \in ((i - 1) * Stride)..(i * Stride - 1)) = RulesAt(InlineNames(document.sources[i]), (i - 1) * Stride)

(* Whatever the page holds, every word a reader sees of it is in one block,*)
(* in the order of the tree; a word that is a link leads where the link it *)
(* was in leads, though links that follow each other are run together;     *)
(* blocks, their elements, forms and controls stay in step; a sheet that is*)
(* linked, imported by another or imports itself is fetched and its rules  *)
(* applied once, before or after those of the sheet that imports it and    *)
(* whichever fetches fail; and inline rules keep their place between those *)
(* that are fetched.                                                       *)
PageIsExtractedWhole ==
  extracted.tree /= <<>> =>
    /\ WordsAreShownOnce(extracted.tree, extracted.document)
    /\ LinksLeadWhereTheirWordsSay(extracted.tree, extracted.document)
    /\ BlocksHaveTheirElements(extracted.document)
    /\ extracted.sheets /= NoSheetsLoaded =>
         /\ SheetsLoadOnce(extracted.sheets)
         /\ SourcesKeepTheirOrder(extracted.document, extracted.sheets)
=============================================================================
