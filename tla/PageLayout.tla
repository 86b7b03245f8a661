----------------------------- MODULE PageLayout -----------------------------
(***************************************************************************)
(* What of a render document is put where (present: layout.rs, paint.rs,   *)
(* hit.rs, and the computed styles of style.rs and box_model.rs).  Lengths *)
(* are in tenths of a pixel and are exact, where the code has f32; colours *)
(* are names, and those of text are left out.  A text is a sequence of     *)
(* words [id, length], length in characters. A document is [sheet, nodes,  *)
(* blocks]: what the style sheet sets, what the style tree sets for each   *)
(* block, and blocks                                                       *)
(*                                                                         *)
(*   [kind, level, text, link, fragments, form]                            *)
(*                                                                         *)
(* with link <<>> or <<word>>, fragments of [text, link, linked], a form   *)
(* [id, method, controls], and controls of [id, kind, name, value,         *)
(* placeholder, label, disabled, focused], their texts of characters.      *)
(***************************************************************************)
EXTENDS Collections, SequencesExt, FiniteSetsExt

NoLess(n, least) == Max({n, least})

(* What a document is made of: the lists are lists, the lengths numbers.   *)
IsVector(list) == list \in Seq(ToSet(list))
IsText(words) == IsVector(words) /\ \A i \in DOMAIN words : words[i].length \in Nat
LevelTags == <<"h1", "h2", "h3", "h4", "h5", "h6">>
LengthKeys == {"bodySize", "paragraphSize", "widthPercent", "topPercent", "marginTop", "marginLeft", "fontSize"} \cup ToSet(LevelTags)
BoxKeys == {"margin", "padding", "border"}
IsStyling(set) ==
  /\ \A key \in DOMAIN set \cap LengthKeys : set[key] \in Int
  /\ \A key \in DOMAIN set \cap BoxKeys : \A side \in {"top", "right", "bottom", "left"} : set[key][side] \in Int
IsSheet(sheet) == IsStyling(sheet) /\ ("boxes" \in DOMAIN sheet => \A tag \in DOMAIN sheet.boxes : IsStyling(sheet.boxes[tag]))
IsControl(control) ==
  /\ DOMAIN control = {"id", "kind", "name", "value", "placeholder", "label", "disabled", "focused"}
  /\ IsVector(control.name) /\ IsVector(control.value) /\ IsVector(control.placeholder) /\ IsVector(control.label)
  /\ control.disabled \in BOOLEAN /\ control.focused \in BOOLEAN
IsBlock(block) ==
  /\ DOMAIN block = {"kind", "level", "text", "link", "fragments", "form"} /\ DOMAIN block.form = {"id", "method", "controls"}
  /\ block.kind = "Heading" => block.level \in 1..6
  /\ block.kind /= "FormControl"
  /\ IsText(block.text) /\ IsText(block.link)
  /\ IsVector(block.fragments) /\ \A i \in DOMAIN block.fragments : IsText(block.fragments[i].text)
  /\ IsVector(block.form.controls) /\ \A i \in DOMAIN block.form.controls : IsControl(block.form.controls[i])
  /\ block.kind /= "Form" => block.form.controls = <<>>
IsRenderDocument(document) ==
  /\ DOMAIN document = {"sheet", "nodes", "blocks"}
  /\ IsSheet(document.sheet)
  /\ IsVector(document.blocks) /\ \A i \in DOMAIN document.blocks : IsBlock(document.blocks[i]) /\ IsStyling(document.nodes[i])
SumOf(numbers) ==
  LET sum[n \in 0..Len(numbers)] == IF n = 0 THEN 0 ELSE sum[n - 1] + numbers[n]
  IN sum[Len(numbers)]

-----------------------------------------------------------------------------
(* Text.                                                                   *)
GlyphAdvance(size) == NoLess((size * 56) \div 100, 10)
LineHeight(size) == NoLess((size * 135) \div 100, 10)
MaxChars(width, size) == width \div GlyphAdvance(size)

Piece(word, from, length) == [word |-> word.id, from |-> from, length |-> length]
WholeWord(word) == Piece(word, 1, word.length)
Chunks(word, max) ==
  [k \in 1 .. (word.length + max - 1) \div max |-> Piece(word, (k - 1) * max + 1, Min({max, word.length - (k - 1) * max}))]
LineLength(line) == SumOf([i \in DOMAIN line |-> line[i].length]) + NoLess(Len(line) - 1, 0)

(* Mutant of WrapWord: the space before a word takes no room.              *)
WrapWordWithoutSpace(lines, word, max) ==
  IF word.length > max
  THEN (IF Last(lines) = <<>> THEN Front(lines) ELSE lines) \o [k \in DOMAIN Chunks(word, max) |-> <<Chunks(word, max)[k]>>]
  ELSE IF Last(lines) = <<>> \/ LineLength(Last(lines)) + word.length <= max
  THEN [lines EXCEPT ![Len(lines)] = Append(@, WholeWord(word))]
  ELSE Append(lines, <<WholeWord(word)>>)
WrapWord(lines, word, max) ==
  IF word.length > max
  THEN (IF Last(lines) = <<>> THEN Front(lines) ELSE lines) \o [k \in DOMAIN Chunks(word, max) |-> <<Chunks(word, max)[k]>>]
  ELSE IF Last(lines) = <<>> \/ LineLength(Last(lines)) + 1 + word.length <= max
  THEN [lines EXCEPT ![Len(lines)] = Append(@, WholeWord(word))]
  ELSE Append(lines, <<WholeWord(word)>>)
WrapText(text, width, size) ==
  LET max == MaxChars(width, size) IN
  IF max = 0 THEN << [i \in DOMAIN text |-> WholeWord(text[i])] >>
  ELSE LET lines[n \in 0..Len(text)] == IF n = 0 THEN << <<>> >> ELSE WrapWord(lines[n - 1], text[n], max)
       IN lines[Len(text)]

(* Of characters that are too many, the last, after three dots.            *)
TruncateToWidth(chars, width, size) ==
  LET max == MaxChars(width, size)
      count == Len(chars) IN
  IF count <= max THEN chars
  ELSE IF max <= 3 THEN SubSeq(chars, 1, max)
  ELSE <<".", ".", ".">> \o SubSeq(chars, count - (max - 3) + 1, count)

-----------------------------------------------------------------------------
(* Boxes.                                                                  *)
Edges(t, r, b, l) == [top |-> t, right |-> r, bottom |-> b, left |-> l]
NoEdges == Edges(0, 0, 0, 0)
Horizontal(edges) == edges.left + edges.right
Vertical(edges) == edges.top + edges.bottom
LayoutRect(x, y, width, height) ==
  [x |-> x, y |-> y, width |-> IF width > 0 THEN width ELSE 10, height |-> IF height > 0 THEN height ELSE 10]
Bottom(rect) == rect.y + rect.height
Right(rect) == rect.x + rect.width
Inset(rect, edges) ==
  LayoutRect(rect.x + edges.left, rect.y + edges.top, NoLess(rect.width - Horizontal(edges), 10),
             NoLess(rect.height - Vertical(edges), 10))

NoBox == [margin |-> NoEdges, padding |-> NoEdges, border |-> NoEdges, borderColor |-> "", background |-> "", display |-> "block"]
(* Set over a box, the border's colour being the text's where none is set. *)
BoxWith(base, set, fallback) ==
  LET over == [k \in DOMAIN base |-> IF k \in DOMAIN set THEN set[k] ELSE base[k]] IN
  [over EXCEPT !.borderColor = IF over.border = NoEdges THEN "" ELSE IF @ = "" THEN fallback ELSE @]

InnerRect(x, y, width, box) ==
  LayoutRect(x + box.margin.left + box.border.left + box.padding.left, y + box.margin.top + box.border.top + box.padding.top,
             NoLess(NoLess(width - Horizontal(box.margin), 10) - Horizontal(box.border) - Horizontal(box.padding), 10), 10)
OuterRect(x, y, width, box, content) ==
  LayoutRect(x + box.margin.left, y + box.margin.top, NoLess(width - Horizontal(box.margin), 10),
             NoLess(content + Vertical(box.border) + Vertical(box.padding), 10))
LayoutBox(block, rect, box, runs) ==
  [kind |-> block.kind, link |-> block.link, control |-> 0, form |-> 0, rect |-> rect, background |-> box.background,
   border |-> box.border, borderColor |-> box.borderColor, after |-> box.margin.bottom, runs |-> runs]
TextRun(x, y, text, length, size, link) ==
  [x |-> x, y |-> y, text |-> text, length |-> length, size |-> size, link |-> link]
RunsOf(lines, x, y, size) ==
  [i \in DOMAIN lines |-> TextRun(x, y + (i - 1) * LineHeight(size), lines[i], LineLength(lines[i]), size, <<>>)]

-----------------------------------------------------------------------------
(* The style of the page (StyleSheetLite::compute); percentages are of the *)
(* viewport.                                                               *)
SetOr(sheet, key, default) == IF key \in DOMAIN sheet THEN sheet[key] ELSE default
BoxTags == {"body", "p", "a", "img", "form", "input", "button", "textarea", "div"} \cup ToSet(LevelTags)
LevelPercents == <<175, 150, 130, 115, 105, 100>>
ComputeStyle(sheet, width, height) ==
  LET set(key, default) == SetOr(sheet, key, default)
      bodySize == NoLess(set("bodySize", 160), 80)
      paragraph == NoLess(set("paragraphSize", bodySize), 80)
      model == [tag \in BoxTags |-> BoxWith(NoBox, SetOr(set("boxes", <<>>), tag, <<>>), "text")]
      body == model["body"]
      full == IF "widthPercent" \in DOMAIN sheet THEN (width * Min({Max({sheet.widthPercent, 5}), 100})) \div 100
              ELSE NoLess(width - 640, 2400)
      top == IF "marginTop" \in DOMAIN sheet THEN sheet.marginTop
             ELSE IF "topPercent" \in DOMAIN sheet THEN (height * sheet.topPercent) \div 100 ELSE 320
      left == IF set("center", FALSE) THEN NoLess((width - full) \div 2, 240)
              ELSE NoLess(set("marginLeft", 320), 0) + body.margin.left IN
  [background |-> set("background", IF body.background /= "" THEN body.background ELSE set("theme", "dark")),
   headings |-> [level \in 1..6 |-> NoLess(set(LevelTags[level], (bodySize * LevelPercents[level]) \div 100), 80)],
   paragraph |-> paragraph, generic |-> NoLess((paragraph * 90) \div 100, 80), gap |-> NoLess((paragraph * 75) \div 100, 120),
   x |-> left + body.border.left + body.padding.left,
   y |-> NoLess(top, 0) + body.margin.top + body.border.top + body.padding.top,
   width |-> NoLess(full - Horizontal(body.padding) - Horizontal(body.border), 800), boxes |-> model]

-----------------------------------------------------------------------------
(* One block, at y.                                                        *)
TagOf(block) ==
  CASE block.kind = "Heading" -> LevelTags[block.level]
    [] block.kind = "Link" -> "a"
    [] block.kind = "Image" -> "img"
    [] block.kind = "Form" -> "form"
    [] block.kind = "Generic" -> "div"
    [] OTHER -> "p"
SizeOf(block, node, style) ==
  SetOr(node, "fontSize", CASE block.kind = "Heading" -> style.headings[block.level]
                              [] block.kind = "Generic" -> style.generic
                              [] OTHER -> style.paragraph)
BoxOf(block, node, style) == BoxWith(style.boxes[TagOf(block)], node, "text")

(* A link without a text shows its address, an image its text and address, *)
(* and a block of another kind the name of its tag.                        *)
DisplayText(block) ==
  CASE block.kind = "Link" -> IF block.text = <<>> THEN block.link ELSE block.text
    [] block.kind = "Image" -> <<[id |-> <<"Image:">>, length |-> 6]>> \o block.text \o block.link
    [] block.kind = "Generic" -> <<[id |-> <<"<tag>">>, length |-> 5]>> \o block.text
    [] OTHER -> block.text

TextBoxes(block, y, style, node) ==
  LET box == BoxOf(block, node, style)
      size == SizeOf(block, node, style)
      lines == WrapText(DisplayText(block), InnerRect(style.x, y, style.width, box).width, size)
      rect == OuterRect(style.x, y, style.width, box, Len(lines) * LineHeight(size))
      inner == Inset(Inset(rect, box.border), box.padding) IN
  IF DisplayText(block) = <<>> \/ box.display = "none" THEN <<>>
  ELSE <<LayoutBox(block, rect, box, RunsOf(lines, inner.x, inner.y, size))>>

ImageBoxes(block, y, style, node, viewport) ==
  LET box == BoxOf(block, node, style)
      rect == OuterRect(style.x, y, style.width, box, Min({Max({style.paragraph * 6, 720}), 1800}))
      inner == Inset(Inset(rect, box.border), box.padding)
      lines == WrapText(DisplayText(block), NoLess(inner.width - 240, 10), style.generic)
      shown == [box EXCEPT !.background = IF @ = "" THEN "placeholder" ELSE @] IN
  IF box.display = "none" THEN <<>>
  ELSE <<LayoutBox(block, rect, shown, RunsOf(lines, inner.x + 120, Min({inner.y + 120, viewport.height}), style.generic))>>

(* Words of mixed text, one run each, on lines of their own coordinates.   *)
PlacePiece(at, piece, link, size, inner) ==
  LET advance == GlyphAdvance(size)
      width == piece.length * advance
      breaks == at.filled /\ at.x + advance + width > inner.x + inner.width
      x == IF breaks THEN inner.x ELSE IF at.filled THEN at.x + advance ELSE at.x
      y == IF breaks THEN at.y + LineHeight(size) ELSE at.y IN
  [x |-> x + width, y |-> y, filled |-> TRUE, runs |-> Append(at.runs, TextRun(x, y, <<piece>>, piece.length, size, link))]
PiecesOf(word, size, inner) ==
  IF word.length * GlyphAdvance(size) <= inner.width THEN <<WholeWord(word)>> ELSE Chunks(word, NoLess(MaxChars(inner.width, size), 1))
InlinePieces(fragments, size, inner) ==
  LET linked(pieces, link) == [k \in DOMAIN pieces |-> [piece |-> pieces[k], link |-> link]]
      piecesOf(part) == FlattenSeq([k \in DOMAIN part.text |-> linked(PiecesOf(part.text[k], size, inner), part.link)])
  IN FlattenSeq([i \in DOMAIN fragments |-> piecesOf(fragments[i])])
PlacePieces(pieces, size, inner) ==
  LET placed[n \in 0..Len(pieces)] ==
        IF n = 0 THEN [x |-> inner.x, y |-> inner.y, filled |-> FALSE, runs |-> <<>>]
        ELSE PlacePiece(placed[n - 1], pieces[n].piece, pieces[n].link, size, inner)
  IN placed[Len(pieces)]
InlineBoxes(block, y, style, node) ==
  LET size == SizeOf(block, node, style)
      boxed(box, inner, at) ==
        IF box.display = "none" \/ at.runs = <<>> THEN <<>>
        ELSE <<LayoutBox(block, OuterRect(style.x, y, style.width, box, ((at.y - inner.y) \div LineHeight(size) + 1) * LineHeight(size)),
                         box, at.runs)>>
      within(box, inner) == boxed(box, inner, PlacePieces(InlinePieces(block.fragments, size, inner), size, inner))
      around(box) == within(box, InnerRect(style.x, y, style.width, box)) IN
  around(BoxOf(block, node, style))

-----------------------------------------------------------------------------
(* The controls of a form, one below the other.                            *)
SubmitLike == {"Submit", "Button"}
TextEditable == {"Text", "Search", "Password", "TextArea"}
MayFocus(control) == control.kind \in TextEditable /\ ~control.disabled
DisplayChars(control) ==
  IF control.value /= <<>> THEN IF control.kind = "Password" THEN [i \in DOMAIN control.value |-> "*"] ELSE control.value
  ELSE IF control.kind \in SubmitLike /\ control.label /= <<>> THEN control.label ELSE control.placeholder
WordsTyped(chars) ==
  LET ends == InOrder({i \in DOMAIN chars : chars[i] = "newline"} \cup {0, Len(chars) + 1})
      parts == [k \in 1 .. Len(ends) - 1 |-> SubSeq(chars, ends[k] + 1, ends[k + 1] - 1)] IN
  Picked([k \in DOMAIN parts |-> [id |-> parts[k], length |-> Len(parts[k])]], {k \in DOMAIN parts : parts[k] /= <<>>})
ControlBackground(control) ==
  IF control.disabled THEN "disabled" ELSE IF control.kind \in SubmitLike THEN "button" ELSE IF control.focused THEN "focused" ELSE "control"

ControlLines(control, shown, room, size) ==
  IF shown = <<>> THEN <<>>
  ELSE IF control.kind = "TextArea" THEN WrapText(WordsTyped(shown), room, size)
  ELSE << <<Piece([id |-> TruncateToWidth(shown, room, size)], 1, Len(TruncateToWidth(shown, room, size)))>> >>
(* Lines that end below the control are not drawn; the caret is, after the *)
(* characters, of the one control that has the focus.                      *)
RunsAbove(bottom, runs, size) == Picked(runs, {i \in DOMAIN runs : runs[i].y + LineHeight(size) <= bottom})
WithCaret(text, control, chars, inner, room, size) ==
  LET caret == inner.x + 120 + Min({Len(TruncateToWidth(chars, room, size)) * GlyphAdvance(size), room - 40}) IN
  IF control.focused /\ MayFocus(control)
  THEN Append(text, TextRun(caret, inner.y + 90, <<Piece([id |-> <<"|">>], 1, 1)>>, 1, size, <<>>)) ELSE text
ControlRuns(control, chars, inner, height, room, size) ==
  LET shown == IF chars = <<>> /\ control.kind \notin SubmitLike THEN control.name ELSE chars IN
  WithCaret(RunsAbove(inner.y + height, RunsOf(ControlLines(control, shown, room, size), inner.x + 120, inner.y + 90, size), size),
            control, chars, inner, room, size)
RunsIn(control, height, style, inner) ==
  ControlRuns(control, DisplayChars(control), inner, height, NoLess(inner.width - 240, 10), NoLess(style.paragraph, 120))
ControlBoxAt(rect, control, form, box, height, style) ==
  [kind |-> "FormControl", link |-> <<>>, control |-> control.id, form |-> form, rect |-> rect,
   background |-> IF box.background = "" THEN ControlBackground(control) ELSE box.background,
   border |-> box.border, borderColor |-> box.borderColor, after |-> box.margin.bottom,
   runs |-> RunsIn(control, height, style, Inset(Inset(rect, box.border), box.padding))]
ControlBox(control, form, y, style, x, fullWidth) ==
  LET button == control.kind \in SubmitLike
      box == style.boxes[IF control.kind = "TextArea" THEN "textarea" ELSE IF button THEN "button" ELSE "input"]
      height == IF control.kind = "TextArea" THEN 880 ELSE 380 IN
  ControlBoxAt(OuterRect(x, y, IF button THEN Min({1700, fullWidth}) ELSE fullWidth, box, height), control, form, box, height, style)

AddControl(boxes, control, form, inner, style) ==
  Append(boxes, ControlBox(control, form, IF boxes = <<>> THEN inner.y ELSE Bottom(Last(boxes).rect) + 100, style, inner.x, inner.width))
ControlBoxes(controls, form, inner, style) ==
  LET boxes[n \in 0..Len(controls)] == IF n = 0 THEN <<>> ELSE AddControl(boxes[n - 1], controls[n], form, inner, style)
  IN boxes[Len(controls)]
FormBoxes(block, y, style, node) ==
  LET box == BoxOf(block, node, style)
      shown == Picked(block.form.controls, {i \in DOMAIN block.form.controls : block.form.controls[i].kind /= "Hidden"})
      closed(boxes) ==
        IF box.display = "none" \/ boxes = <<>> THEN <<>> ELSE [boxes EXCEPT ![Len(boxes)].after = @ + box.margin.bottom] IN
  closed(ControlBoxes(shown, block.form.id, InnerRect(style.x, y, style.width, box), style))

-----------------------------------------------------------------------------
(* The page: blocks one below the other, until one ends below the fold.  A *)
(* block that begins below it is left out and takes no room.               *)
BlockBoxes(block, y, style, node, viewport) ==
  CASE block.kind = "Form" -> FormBoxes(block, y, style, node)
    [] block.kind = "Image" -> ImageBoxes(block, y, style, node, viewport)
    [] block.kind = "InlineFlow" -> InlineBoxes(block, y, style, node)
    [] OTHER -> TextBoxes(block, y, style, node)

PlaceBox(at, box, style, viewport) ==
  LET overflow == NoLess(Bottom(box.rect) + box.after, at.overflow)
      y == NoLess(Bottom(box.rect) + box.after + style.gap, at.y) IN
  IF at.broken THEN at
  ELSE IF box.rect.y > viewport.height THEN [at EXCEPT !.overflow = overflow, !.clipped = TRUE, !.broken = TRUE]
  ELSE [at EXCEPT !.overflow = overflow, !.y = y, !.clipped = @ \/ y > viewport.height, !.boxes = Append(@, box)]
PlaceBoxes(at, boxes, style, viewport) ==
  LET placed[n \in 0..Len(boxes)] == IF n = 0 THEN at ELSE PlaceBox(placed[n - 1], boxes[n], style, viewport)
  IN placed[Len(boxes)]
PlaceBlock(at, block, node, style, viewport) ==
  IF at.clipped /\ at.y > viewport.height THEN at
  ELSE PlaceBoxes([at EXCEPT !.broken = FALSE], BlockBoxes(block, at.y, style, node, viewport), style, viewport)
PlaceBlocks(document, style, viewport) ==
  LET placed[n \in 0..Len(document.blocks)] ==
        IF n = 0 THEN [y |-> style.y, overflow |-> style.y, clipped |-> FALSE, broken |-> FALSE, boxes |-> <<>>]
        ELSE PlaceBlock(placed[n - 1], document.blocks[n], document.nodes[n], style, viewport)
  IN placed[Len(document.blocks)]
LayoutIn(document, viewport, style) ==
  LET laid(end) == [background |-> style.background, viewport |-> viewport, boxes |-> end.boxes, overflow |-> end.overflow,
                    clipped |-> end.clipped] IN
  laid(PlaceBlocks(document, style, viewport))
LayoutDocument(document, viewport) == LayoutIn(document, viewport, ComputeStyle(document.sheet, viewport.width, viewport.height))

-----------------------------------------------------------------------------
(* What is painted of a layout, in order.                                  *)
PaintRect(rect, color) == [kind |-> "Rect", rect |-> rect, paints |-> color, length |-> 0, size |-> 0]
PaintText(run) == [kind |-> "Text", rect |-> [x |-> run.x, y |-> run.y], paints |-> run.text, length |-> run.length, size |-> run.size]
PaintBox(box) ==
  LET content == Inset(box.rect, IF box.borderColor = "" THEN NoEdges ELSE box.border)
      texts == Picked(box.runs, {i \in DOMAIN box.runs : box.runs[i].length > 0}) IN
  (IF box.borderColor = "" THEN <<>> ELSE <<PaintRect(box.rect, box.borderColor)>>)
    \o (IF box.kind = "Image" THEN << [PaintRect(content, box.background) EXCEPT !.kind = "Image"] >>
        ELSE (IF box.background = "" THEN <<>> ELSE <<PaintRect(content, box.background)>>)
               \o [i \in DOMAIN texts |-> PaintText(texts[i])])
BuildPaintPlan(layout) ==
  [background |-> layout.background,
   commands |-> <<PaintRect(LayoutRect(0, 0, layout.viewport.width, layout.viewport.height), layout.background)>>
                  \o FlattenSeq([i \in DOMAIN layout.boxes |-> PaintBox(layout.boxes[i])])]

-----------------------------------------------------------------------------
(* Hits: the first region that holds the point, of links and of controls.  *)
ContainsPoint(rect, x, y) == x >= rect.x /\ x <= Right(rect) /\ y >= rect.y /\ y <= Bottom(rect)
LinkRegionsOf(box) ==
  LET href(run) == IF run.link /= <<>> THEN run.link ELSE IF box.kind = "Link" THEN box.link ELSE <<>>
      linked == Picked(box.runs, {i \in DOMAIN box.runs : box.runs[i].length > 0 /\ href(box.runs[i]) /= <<>>}) IN
  [i \in DOMAIN linked |->
     [href |-> href(linked[i])[1].id, text |-> linked[i].text,
      rect |-> LayoutRect(linked[i].x, linked[i].y,
                          NoLess(linked[i].length * GlyphAdvance(linked[i].size), linked[i].size \div 2), LineHeight(linked[i].size))]]
LinkHitRegions(layout) == FlattenSeq([i \in DOMAIN layout.boxes |-> LinkRegionsOf(layout.boxes[i])])
ControlHitRegions(layout) ==
  LET controls == Picked(layout.boxes, {i \in DOMAIN layout.boxes : layout.boxes[i].kind = "FormControl"}) IN
  [i \in DOMAIN controls |-> [form |-> controls[i].form, control |-> controls[i].control, rect |-> controls[i].rect]]
HitIn(regions, x, y) == SelectInSeq(regions, LAMBDA region : ContainsPoint(region.rect, x, y))

-----------------------------------------------------------------------------
(* What a layout promises.  The characters of a box's text, in order.      *)
CharsOfPieces(pieces) == FlattenSeq([i \in DOMAIN pieces |-> [k \in 1 .. pieces[i].length |-> <<pieces[i].word, pieces[i].from + k - 1>>]])
CharsOfWords(words) == CharsOfPieces([i \in DOMAIN words |-> WholeWord(words[i])])
WordsOf(block) ==
  IF block.kind = "InlineFlow" THEN FlattenSeq([i \in DOMAIN block.fragments |-> block.fragments[i].text]) ELSE DisplayText(block)
ShowsItsText(box, block) ==
  CharsOfPieces(FlattenSeq([i \in DOMAIN box.runs |-> box.runs[i].text])) = CharsOfWords(WordsOf(block))

TextFitsItsBox(box) ==
  \A i \in DOMAIN box.runs : LET run == box.runs[i] IN
    /\ run.x >= box.rect.x /\ run.x + run.length * GlyphAdvance(run.size) <= Right(box.rect)
    /\ run.y >= box.rect.y /\ run.y + LineHeight(run.size) <= Bottom(box.rect)
MiddleHits(regions) ==
  \A i \in DOMAIN regions : LET rect == regions[i].rect IN
    HitIn(regions, rect.x + rect.width \div 2, rect.y + rect.height \div 2) = i

(* Boxes stand one below the other, text is cut into lines without loss    *)
(* and stays in its box, wherever a letter has room there, and the middle  *)
(* of a link or a control is a hit on it (layout.rs, hit.rs).  A page that *)
(* ends below the window is clipped; one that is clipped ends below it, or *)
(* so near its end that the gap to a next line would.                      *)
LayoutIsKept(document, viewport, layout) ==
  LET narrow(box) == box.rect.width < 400 IN
  /\ \A i \in 2 .. Len(layout.boxes) : Bottom(layout.boxes[i - 1].rect) <= layout.boxes[i].rect.y
  /\ \A i \in DOMAIN layout.boxes : narrow(layout.boxes[i]) \/ layout.boxes[i].kind = "Image" \/ TextFitsItsBox(layout.boxes[i])
  /\ \A i \in DOMAIN layout.boxes : layout.boxes[i].kind /= "FormControl" =>
       \E k \in DOMAIN document.blocks : document.blocks[k].kind = layout.boxes[i].kind /\ ShowsItsText(layout.boxes[i], document.blocks[k])
  /\ MiddleHits(LinkHitRegions(layout)) /\ MiddleHits(ControlHitRegions(layout))
  /\ layout.boxes /= <<>> /\ layout.overflow > viewport.height => layout.clipped
  /\ layout.clipped => layout.overflow + ComputeStyle(document.sheet, viewport.width, viewport.height).gap > viewport.height
(* Every page the model shows is so laid out.                              *)
LayoutKeepsThePage(document, viewport) == LayoutIsKept(document, viewport, LayoutDocument(document, viewport))
=============================================================================
