----------------------------- MODULE PageProofs -----------------------------
(***************************************************************************)
(* What holds of a page the user works with, for documents, windows and    *)
(* texts of any size.                                                      *)
(*                                                                         *)
(* PageLayout: every document has a layout whose lengths are numbers and   *)
(* whose control boxes carry the ids of the document's controls, so that a *)
(* click on one finds its control; every layout has a paint plan.          *)
(*                                                                         *)
(* PageRuntime: page, DOM, keyboard and screen agree after every handler.  *)
(* A handler changes them one after the other, and they do not agree in    *)
(* between: what it keeps of them is stated of each of its parts, Later    *)
(* for what the renderer reads and SameNodes for the DOM, and they agree   *)
(* again when the parts are put together.  The invariant adds to what the  *)
(* user sees that the DOM has a node for every control, that the controls  *)
(* have ids of their own, and that the frame the renderer keeps is that of *)
(* the document and the window unless either is marked as not yet drawn.   *)
(***************************************************************************)
EXTENDS PageRuntime, CollectionsProofs

-----------------------------------------------------------------------------
(* Numbers, and the first place of something in a list                     *)

\* The larger and the smaller of two numbers.
LEMMA MaxOfTwo ==
  ASSUME NEW a \in Int, NEW b \in Int
  PROVE  /\ Max({a, b}) = IF a >= b THEN a ELSE b
         /\ Min({a, b}) = IF a <= b THEN a ELSE b
<1>1. \E x \in {a, b} : \A y \in {a, b} : x >= y
  OBVIOUS
<1>2. \E x \in {a, b} : \A y \in {a, b} : x <= y
  OBVIOUS
<1>3. Max({a, b}) \in {a, b} /\ \A y \in {a, b} : Max({a, b}) >= y
  BY <1>1 DEF Max
<1>4. Min({a, b}) \in {a, b} /\ \A y \in {a, b} : Min({a, b}) <= y
  BY <1>2 DEF Min
<1> QED
  BY <1>3, <1>4

LEMMA LesserIs ==
  ASSUME NEW a \in Int, NEW b \in Int
  PROVE  Min({a, b}) = (IF a <= b THEN a ELSE b) /\ Min({a, b}) \in Int
<1>1. Min({a, b}) = IF a <= b THEN a ELSE b
  BY MaxOfTwo
<1> QED
  BY <1>1

\* The first place a list has something at, or 0.
LEMMA FirstPlace ==
  ASSUME NEW S \in SUBSET Nat, S # {}
  PROVE  Min(S) \in S /\ \A n \in S : Min(S) <= n
<1>1. \E x \in S : \A y \in S : x <= y
  BY LeastNatural
<1> QED
  BY <1>1 DEF Min

IsFirst(at, list, S) ==
  /\ at \in 0 .. Len(list)
  /\ at = 0 => S = {}
  /\ at # 0 => at \in S /\ \A n \in S : at <= n

\* The node of a control is the first there is.
LEMMA NodeForControlIs ==
  ASSUME NEW runtime, IsList(runtime.nodes), NEW control
  PROVE  IsFirst(NodeForControl(runtime, control), runtime.nodes, {n \in 1 .. Len(runtime.nodes) : runtime.nodes[n].control = control})
<1> DEFINE S == {n \in 1 .. Len(runtime.nodes) : runtime.nodes[n].control = control}
<1>1. NodeForControl(runtime, control) = IF S # {} THEN Min(S) ELSE 0
  BY DEF NodeForControl, SelectInSeq
<1>2. S \in SUBSET Nat /\ S \subseteq 1 .. Len(runtime.nodes) /\ Len(runtime.nodes) \in Nat
  BY ListFacts
<1> HIDE DEF S
<1>3. S # {} => Min(S) \in S /\ \A n \in S : Min(S) <= n
  BY <1>2, FirstPlace
<1>4. IsFirst(NodeForControl(runtime, control), runtime.nodes, S)
  <2> DEFINE at == NodeForControl(runtime, control)
             n == Len(runtime.nodes)
  <2>1. CASE S = {}
    BY <1>1, <1>2, <2>1 DEF IsFirst
  <2>2. CASE S # {}
    <3>1. at = Min(S) /\ at \in S /\ \A k \in S : at <= k
      BY <1>1, <1>3, <2>2
    <3>2. at \in 1 .. n /\ n \in Nat
      BY <1>2, <3>1
    <3> QED
      BY <3>1, <3>2 DEF IsFirst
  <2> QED
    BY <2>1, <2>2
<1> QED
  BY <1>4 DEF S

-----------------------------------------------------------------------------
(* What a layout is made of                                                *)
Rects == [x : Int, y : Int, width : Nat, height : Nat]
AreEdges(edges) == edges.top \in Int /\ edges.right \in Int /\ edges.bottom \in Int /\ edges.left \in Int
IsBoxStyle(box) ==
  /\ DOMAIN box = DOMAIN NoBox
  /\ AreEdges(box.margin) /\ AreEdges(box.padding) /\ AreEdges(box.border)
IsPageStyle(style) ==
  /\ \A level \in 1..6 : style.headings[level] \in Int
  /\ style.paragraph \in Int /\ style.generic \in Int /\ style.gap \in Int
  /\ style.x \in Int /\ style.y \in Int /\ style.width \in Int
  /\ \A tag \in BoxTags : IsBoxStyle(style.boxes[tag])
IsLine(line) == IsList(line) /\ \A i \in 1 .. Len(line) : line[i].length \in Int
AreLines(lines) == IsList(lines) /\ \A i \in 1 .. Len(lines) : IsLine(lines[i])
IsRun(run) == run.x \in Int /\ run.y \in Int /\ run.length \in Int /\ run.size \in Int
AreRuns(runs) == IsList(runs) /\ \A i \in 1 .. Len(runs) : IsRun(runs[i])

\* Bounds from below, and the sizes of letters and lines.
LEMMA NoLessIs ==
  ASSUME NEW n \in Int, NEW least \in Int
  PROVE  NoLess(n, least) = IF n >= least THEN n ELSE least
BY MaxOfTwo DEF NoLess

LEMMA SizesAre ==
  ASSUME NEW size \in Int
  PROVE  /\ GlyphAdvance(size) \in Int /\ GlyphAdvance(size) >= 10
         /\ LineHeight(size) \in Int /\ LineHeight(size) >= 10
<1>1. (size * 56) \div 100 \in Int /\ (size * 135) \div 100 \in Int
  OBVIOUS
<1> QED
  BY <1>1, NoLessIs DEF GlyphAdvance, LineHeight

\* Rectangles: of a place and a size, within edges, of a box.
LEMMA RectIs ==
  ASSUME NEW x \in Int, NEW y \in Int, NEW width \in Int, NEW height \in Int
  PROVE  LayoutRect(x, y, width, height) \in Rects
BY DEF LayoutRect, Rects

LEMMA EdgesAdd ==
  ASSUME NEW edges, AreEdges(edges)
  PROVE  Horizontal(edges) \in Int /\ Vertical(edges) \in Int
BY DEF AreEdges, Horizontal, Vertical

LEMMA InsetIs ==
  ASSUME NEW rect \in Rects, NEW edges, AreEdges(edges)
  PROVE  Inset(rect, edges) \in Rects
<1> DEFINE w == rect.width - Horizontal(edges)
           h == rect.height - Vertical(edges)
<1>1. w \in Int /\ h \in Int /\ rect.x + edges.left \in Int /\ rect.y + edges.top \in Int
  BY EdgesAdd DEF Rects, AreEdges
<1> HIDE DEF w, h
<1>2. NoLess(w, 10) \in Int /\ NoLess(h, 10) \in Int
  BY <1>1, NoLessIs
<1>3. LayoutRect(rect.x + edges.left, rect.y + edges.top, NoLess(w, 10), NoLess(h, 10)) \in Rects
  BY <1>1, <1>2, RectIs
<1> QED
  BY <1>3 DEF Inset, w, h

LEMMA InnerIs ==
  ASSUME NEW x \in Int, NEW y \in Int, NEW width \in Int, NEW box, IsBoxStyle(box)
  PROVE  InnerRect(x, y, width, box) \in Rects
<1> DEFINE v == width - Horizontal(box.margin)
           w == NoLess(v, 10) - Horizontal(box.border) - Horizontal(box.padding)
           left == x + box.margin.left + box.border.left + box.padding.left
           top == y + box.margin.top + box.border.top + box.padding.top
<1>1. v \in Int /\ left \in Int /\ top \in Int /\ Horizontal(box.border) \in Int /\ Horizontal(box.padding) \in Int
  BY EdgesAdd DEF IsBoxStyle, AreEdges
<1> HIDE DEF v, left, top
<1>2. w \in Int
  BY <1>1, NoLessIs
<1> HIDE DEF w
<1>3. NoLess(w, 10) \in Int
  BY <1>2, NoLessIs
<1>4. LayoutRect(left, top, NoLess(w, 10), 10) \in Rects
  BY <1>1, <1>3, RectIs
<1> QED
  BY <1>4 DEF InnerRect, v, w, left, top

LEMMA OuterIs ==
  ASSUME NEW x \in Int, NEW y \in Int, NEW width \in Int, NEW box, IsBoxStyle(box), NEW content \in Int
  PROVE  OuterRect(x, y, width, box, content) \in Rects
<1> DEFINE v == width - Horizontal(box.margin)
           h == content + Vertical(box.border) + Vertical(box.padding)
<1>1. v \in Int /\ h \in Int /\ x + box.margin.left \in Int /\ y + box.margin.top \in Int
  BY EdgesAdd DEF IsBoxStyle, AreEdges
<1> HIDE DEF v, h
<1>2. NoLess(v, 10) \in Int /\ NoLess(h, 10) \in Int
  BY <1>1, NoLessIs
<1>3. LayoutRect(x + box.margin.left, y + box.margin.top, NoLess(v, 10), NoLess(h, 10)) \in Rects
  BY <1>1, <1>2, RectIs
<1> QED
  BY <1>3 DEF OuterRect, v, h

\* Styles: a box under a styling, and the style of the page.
LEMMA BoxWithIs ==
  ASSUME NEW base, IsBoxStyle(base), NEW set, IsStyling(set), NEW fallback
  PROVE  IsBoxStyle(BoxWith(base, set, fallback))
<1> DEFINE over == [k \in DOMAIN base |-> IF k \in DOMAIN set THEN set[k] ELSE base[k]]
           result == BoxWith(base, set, fallback)
<1>1. DOMAIN result = DOMAIN over /\ \A k \in BoxKeys : k \in DOMAIN over => result[k] = over[k]
  BY DEF BoxWith, BoxKeys
<1>2. DOMAIN over = DOMAIN NoBox /\ BoxKeys \subseteq DOMAIN NoBox
  BY DEF IsBoxStyle, NoBox, BoxKeys
<1>3. ASSUME NEW k \in BoxKeys PROVE AreEdges(result[k])
  BY <1>1, <1>2 DEF IsBoxStyle, BoxKeys, IsStyling, AreEdges
<1> HIDE DEF over, result
<1>4. IsBoxStyle(result)
  BY <1>1, <1>2, <1>3 DEF IsBoxStyle, BoxKeys
<1> QED
  BY <1>4 DEF result

LEMMA NoBoxIs ==
  IsBoxStyle(NoBox) /\ AreEdges(NoEdges) /\ IsStyling(<<>>)
<1>1. AreEdges(NoEdges)
  BY DEF AreEdges, NoEdges, Edges
<1>2. DOMAIN <<>> = {}
  OBVIOUS
<1>3. IsStyling(<<>>)
  BY <1>2 DEF IsStyling
<1> QED
  BY <1>1, <1>3 DEF IsBoxStyle, NoBox

LEMMA SetOrIs ==
  ASSUME NEW set, IsStyling(set), NEW key \in LengthKeys, NEW default \in Int
  PROVE  SetOr(set, key, default) \in Int
BY DEF SetOr, IsStyling

\* Headings have six levels, a tag and a size each.
LEMMA HeadingsHaveTags ==
  ASSUME NEW level \in 1..6
  PROVE  LevelTags[level] \in BoxTags /\ LevelTags[level] \in LengthKeys /\ LevelPercents[level] \in Int
<1>1. level \in {1, 2, 3, 4, 5, 6}
  OBVIOUS
<1>2. ToSet(LevelTags) = {"h1", "h2", "h3", "h4", "h5", "h6"}
  BY DEF ToSet, LevelTags
<1>3. LevelTags[level] \in ToSet(LevelTags)
  BY <1>1, <1>2 DEF LevelTags
<1> QED
  BY <1>1, <1>3 DEF BoxTags, LengthKeys, LevelPercents

LEMMA StyleIs ==
  ASSUME NEW sheet, IsSheet(sheet), NEW width \in Int, NEW height \in Int
  PROVE  IsPageStyle(ComputeStyle(sheet, width, height))
<1> DEFINE set(key, default) == SetOr(sheet, key, default)
           bodySize == NoLess(set("bodySize", 160), 80)
           paragraph == NoLess(set("paragraphSize", bodySize), 80)
           model == [tag \in BoxTags |-> BoxWith(NoBox, SetOr(set("boxes", <<>>), tag, <<>>), "text")]
           body == model["body"]
           full == IF "widthPercent" \in DOMAIN sheet THEN (width * Min({Max({sheet.widthPercent, 5}), 100})) \div 100
                   ELSE NoLess(width - 640, 2400)
           top == IF "marginTop" \in DOMAIN sheet THEN sheet.marginTop
                  ELSE IF "topPercent" \in DOMAIN sheet THEN (height * sheet.topPercent) \div 100 ELSE 320
           left == IF set("center", FALSE) THEN NoLess((width - full) \div 2, 240)
                   ELSE NoLess(set("marginLeft", 320), 0) + body.margin.left
           headings == [level \in 1..6 |-> NoLess(set(LevelTags[level], (bodySize * LevelPercents[level]) \div 100), 80)]
           style == ComputeStyle(sheet, width, height)
<1>1. IsStyling(sheet)
  BY DEF IsSheet
<1>2. bodySize \in Int
  BY <1>1, SetOrIs, NoLessIs DEF LengthKeys
<1>3. style.headings = headings
  BY DEF ComputeStyle
<1>4. style.paragraph = paragraph
  BY DEF ComputeStyle
<1>5. style.generic = NoLess((paragraph * 90) \div 100, 80)
  BY DEF ComputeStyle
<1>6. style.gap = NoLess((paragraph * 75) \div 100, 120)
  BY DEF ComputeStyle
<1>7. style.x = left + body.border.left + body.padding.left
  BY DEF ComputeStyle
<1>8. style.y = NoLess(top, 0) + body.margin.top + body.border.top + body.padding.top
  BY DEF ComputeStyle
<1>9. style.width = NoLess(full - Horizontal(body.padding) - Horizontal(body.border), 800)
  BY DEF ComputeStyle
<1>10. style.boxes = model
  BY DEF ComputeStyle
<1> HIDE DEF bodySize, style
<1>11. \A tag \in BoxTags : IsBoxStyle(model[tag])
  <2> SUFFICES ASSUME NEW tag \in BoxTags PROVE IsBoxStyle(model[tag])
    OBVIOUS
  <2>1. IsStyling(SetOr(set("boxes", <<>>), tag, <<>>))
    BY NoBoxIs DEF SetOr, IsSheet
  <2> QED
    BY <2>1, NoBoxIs, BoxWithIs
<1>12. IsBoxStyle(body)
  BY <1>11 DEF BoxTags
<1> HIDE DEF model, body
<1>13. \A level \in 1..6 : headings[level] \in Int
  <2> SUFFICES ASSUME NEW level \in 1..6 PROVE headings[level] \in Int
    OBVIOUS
  <2> DEFINE ratio == (bodySize * LevelPercents[level]) \div 100
  <2>1. headings[level] = NoLess(set(LevelTags[level], ratio), 80)
    OBVIOUS
  <2>2. LevelTags[level] \in LengthKeys /\ LevelPercents[level] \in Int
    BY HeadingsHaveTags
  <2>3. ratio \in Int
    BY <1>2, <2>2
  <2> HIDE DEF headings, ratio
  <2>4. set(LevelTags[level], ratio) \in Int
    BY <1>1, <2>2, <2>3, SetOrIs
  <2> QED
    BY <2>1, <2>4, NoLessIs
<1>14. paragraph \in Int
  BY <1>1, <1>2, SetOrIs, NoLessIs DEF LengthKeys
<1> HIDE DEF paragraph
<1>15. (paragraph * 90) \div 100 \in Int /\ (paragraph * 75) \div 100 \in Int
  BY <1>14
<1>16. NoLess((paragraph * 90) \div 100, 80) \in Int /\ NoLess((paragraph * 75) \div 100, 120) \in Int
  BY <1>15, NoLessIs
<1>17. full \in Int
  <2>1. "widthPercent" \in DOMAIN sheet => sheet.widthPercent \in Int
    BY <1>1 DEF IsStyling, LengthKeys
  <2>2. \A n \in Int : Min({Max({n, 5}), 100}) \in Int
    <3>1. \A n \in Int : Max({n, 5}) \in Int
      BY MaxOfTwo
    <3>2. ASSUME NEW n \in Int PROVE Min({n, 100}) \in Int
      <4>1. Min({n, 100}) = IF n <= 100 THEN n ELSE 100
        BY MaxOfTwo
      <4> QED
        BY <4>1
    <3> QED
      BY <3>1, <3>2
  <2>3. \A n \in Int : (width * n) \div 100 \in Int
    OBVIOUS
  <2>4. NoLess(width - 640, 2400) \in Int
    BY NoLessIs
  <2> QED
    BY <2>1, <2>2, <2>3, <2>4
<1> HIDE DEF full
<1>18. top \in Int
  BY <1>1 DEF IsStyling, LengthKeys
<1> HIDE DEF top
<1>19. left \in Int
  <2>1. set("marginLeft", 320) \in Int
    BY <1>1, SetOrIs DEF LengthKeys
  <2>2. NoLess(set("marginLeft", 320), 0) + body.margin.left \in Int
    BY <1>12, <2>1, NoLessIs DEF IsBoxStyle, AreEdges
  <2>3. (width - full) \div 2 \in Int
    BY <1>17
  <2>4. NoLess((width - full) \div 2, 240) \in Int
    BY <2>3, NoLessIs
  <2> QED
    BY <2>2, <2>4
<1> HIDE DEF left
<1>20. style.x \in Int /\ style.y \in Int
  BY <1>7, <1>8, <1>12, <1>18, <1>19, NoLessIs DEF IsBoxStyle, AreEdges
<1>21. style.width \in Int
  BY <1>9, <1>12, <1>17, EdgesAdd, NoLessIs DEF IsBoxStyle
<1>22. IsPageStyle(style)
  <2> HIDE DEF headings
  <2> QED
    BY <1>3, <1>4, <1>5, <1>6, <1>10, <1>11, <1>13, <1>14, <1>16, <1>20, <1>21 DEF IsPageStyle
<1> QED
  BY <1>22 DEF style

-----------------------------------------------------------------------------
(* Lists, and loops over the parts of a page                               *)

\* Lists that are functions of their places, of one item, and as what pages are made of.
LEMMA ListBuilt ==
  ASSUME NEW n \in Nat, NEW f, f = [k \in 1 .. n |-> f[k]]
  PROVE  IsList(f) /\ Len(f) = n /\ DOMAIN f = 1 .. n
<1> DEFINE T == {f[k] : k \in 1 .. n}
<1>1. f \in [1 .. n -> T]
  OBVIOUS
<1>2. f \in Seq(T)
  BY <1>1, SeqDef
<1>3. Len(f) = n /\ DOMAIN f = 1 .. n
  BY <1>1, <1>2, LenProperties
<1> QED
  BY <1>2, <1>3 DEF IsList

LEMMA OneList ==
  ASSUME NEW x
  PROVE  IsList(<<x>>) /\ Len(<<x>>) = 1 /\ \A i \in 1 .. 1 : i = 1 /\ <<x>>[i] = x
<1>1. <<x>> \in Seq({x})
  OBVIOUS
<1>2. Len(<<x>>) = 1 /\ <<x>>[1] = x
  OBVIOUS
<1>3. \A i \in 1 .. 1 : i = 1
  OBVIOUS
<1>4. IsList(<<x>>)
  BY <1>1 DEF IsList
<1> QED
  BY <1>2, <1>3, <1>4

LEMMA VectorIsList ==
  ASSUME NEW s, IsVector(s)
  PROVE  IsList(s) /\ Len(s) \in Nat /\ DOMAIN s = 1 .. Len(s)
<1>1. IsList(s)
  BY DEF IsVector, IsList
<1> QED
  BY <1>1, ListFacts

\* A quotient of natural numbers is one.
LEMMA DivisionIs ==
  ASSUME NEW a \in Nat, NEW b \in Nat, b > 0
  PROVE  a \div b \in Nat
OBVIOUS

-----------------------------------------------------------------------------
\* The loops over the parts of a page, each by what it does with one of them.
TakePart(state, part) ==
  CASE part.what = "number" -> state + part.of
    [] part.what = "word" -> WrapWord(state, part.of, part.max)
    [] part.what = "piece" -> PlacePiece(state, part.of.piece, part.of.link, part.size, part.inner)
    [] part.what = "control" -> AddControl(state, part.of, part.form, part.inner, part.style)
    [] part.what = "box" -> PlaceBox(state, part.of, part.style, part.viewport)
    [] part.what = "block" -> PlaceBlock(state, part.of, part.node, part.style, part.viewport)
    [] part.what = "nodes" -> AddBlockNode(state, part.of)
    [] part.what = "value" -> SetFormValue(state, part.of)
    [] part.what = "union" -> UnionRect(state, part.of)
    [] part.what = "region" -> AddRegion(state, part.of)

PartsRun(first, parts, n, f) ==
  f = [i \in 0 .. n |-> IF i = 0 THEN first ELSE TakePart(f[i - 1], parts[i])]

\* Such a loop has a value at each turn.
LEMMA PartsRunExists ==
  ASSUME NEW first, NEW parts, NEW n \in Nat
  PROVE  \E f : PartsRun(first, parts, n, f)
<1> DEFINE S == {k \in 0 .. n : \E f : PartsRun(first, parts, k, f)}
           start == 0
<1>1. start \in S
  <2> DEFINE none == [i \in 0 .. start |-> first]
  <2>1. PartsRun(first, parts, start, none)
    BY DEF PartsRun
  <2> QED
    BY <2>1
<1>2. ASSUME NEW k \in start .. n - 1, k \in S
      PROVE  k + 1 \in S
  <2>1. PICK f : PartsRun(first, parts, k, f)
    BY <1>2
  <2> DEFINE last == TakePart(f[k], parts[k + 1])
             more == [i \in 0 .. k + 1 |-> IF i = k + 1 THEN last ELSE f[i]]
  <2>2. \A i \in 0 .. k : f[i] = IF i = 0 THEN first ELSE TakePart(f[i - 1], parts[i])
    BY <2>1 DEF PartsRun
  <2>3. ASSUME NEW i \in 0 .. k + 1
        PROVE  more[i] = IF i = 0 THEN first ELSE TakePart(more[i - 1], parts[i])
    <3>1. CASE i = k + 1
      <4>1. more[i - 1] = f[k] /\ more[i] = last /\ i # 0
        BY <1>2, <3>1
      <4> HIDE DEF more
      <4> QED
        BY <3>1, <4>1
    <3>2. CASE i # k + 1
      <4>1. i \in 0 .. k /\ more[i] = f[i]
        BY <1>2, <3>2
      <4>2. i # 0 => more[i - 1] = f[i - 1]
        BY <1>2, <3>2
      <4> HIDE DEF more
      <4> QED
        BY <2>2, <4>1, <4>2
    <3> QED
      BY <3>1, <3>2
  <2>4. more = [i \in 0 .. k + 1 |-> more[i]]
    BY <1>2
  <2> HIDE DEF more
  <2>5. PartsRun(first, parts, k + 1, more)
    BY <2>3, <2>4 DEF PartsRun
  <2> QED
    BY <1>2, <2>5
<1>3. start \in Nat /\ n \in start .. n
  OBVIOUS
<1> HIDE DEF S, start
<1>4. start .. n \subseteq S
  BY <1>1, <1>2, <1>3, CountingUp
<1> HIDE DEF S
<1>5. n \in S
  BY <1>3, <1>4
<1> QED
  BY <1>5 DEF S

-----------------------------------------------------------------------------
(* Text in lines                                                           *)

\* Lengths of lines.
LEMMA SumIs ==
  ASSUME NEW numbers, IsList(numbers), \A i \in 1 .. Len(numbers) : numbers[i] \in Int
  PROVE  SumOf(numbers) \in Int
<1> DEFINE n == Len(numbers)
           f == CHOOSE g : g = [k \in 0..n |-> IF k = 0 THEN 0 ELSE g[k - 1] + numbers[k]]
           parts == [k \in 1 .. n |-> [what |-> "number", of |-> numbers[k]]]
           start == 0
<1>1. SumOf(numbers) = f[n] /\ n \in Nat
  BY ListFacts DEF SumOf
<1>2. PICK g : PartsRun(start, parts, n, g)
  BY <1>1, PartsRunExists
<1>3. \A k \in 1 .. n : \A s : TakePart(s, parts[k]) = s + numbers[k]
  BY DEF TakePart
<1>4. \A k \in 0 .. n : k # 0 => k \in 1 .. n
  BY <1>1
<1> HIDE DEF parts, f
<1>5. g = [k \in 0..n |-> IF k = 0 THEN 0 ELSE g[k - 1] + numbers[k]]
  BY <1>2, <1>3, <1>4 DEF PartsRun
<1>6. f = [k \in 0..n |-> IF k = 0 THEN 0 ELSE f[k - 1] + numbers[k]]
  BY <1>5 DEF f
<1> DEFINE S == {k \in 0 .. n : f[k] \in Int}
<1>7. start \in S
  BY <1>1, <1>6
<1>8. ASSUME NEW k \in start .. n - 1, k \in S PROVE k + 1 \in S
  BY <1>1, <1>6, <1>8
<1> HIDE DEF S
<1>9. start .. n \subseteq S
  BY <1>1, <1>7, <1>8, CountingUp
<1>10. n \in S
  BY <1>1, <1>9
<1> QED
  BY <1>1, <1>10 DEF S

LEMMA LengthOfLine ==
  ASSUME NEW line, IsLine(line)
  PROVE  LineLength(line) \in Int
<1> DEFINE lengths == [i \in DOMAIN line |-> line[i].length]
           n == Len(line)
<1>1. n \in Nat /\ DOMAIN line = 1 .. n
  BY ListFacts DEF IsLine
<1>2. lengths = [i \in 1 .. n |-> lengths[i]] /\ \A i \in 1 .. n : lengths[i] \in Int
  BY <1>1 DEF IsLine
<1> HIDE DEF lengths
<1>3. IsList(lengths) /\ Len(lengths) = n
  BY <1>1, <1>2, ListBuilt
<1>4. SumOf(lengths) \in Int
  BY <1>2, <1>3, SumIs
<1>5. NoLess(n - 1, 0) \in Int
  BY <1>1, NoLessIs
<1> QED
  BY <1>4, <1>5 DEF LineLength, lengths

\* Words that are cut, and whole ones.
LEMMA ChunksAre ==
  ASSUME NEW word, word.length \in Nat, NEW max \in Nat, max > 0
  PROVE  IsLine(Chunks(word, max))
<1> DEFINE n == (word.length + max - 1) \div max
           chunks == Chunks(word, max)
<1>1. word.length + max - 1 \in Nat
  OBVIOUS
<1>2. n \in Nat
  BY <1>1, DivisionIs
<1>3. chunks = [k \in 1 .. n |-> Piece(word, (k - 1) * max + 1, Min({max, word.length - (k - 1) * max}))]
  BY DEF Chunks
<1> HIDE DEF n
<1>4. ASSUME NEW k \in 1 .. n PROVE chunks[k].length \in Int
  <2>1. (k - 1) * max \in Int
    BY <1>2
  <2> DEFINE rest == word.length - (k - 1) * max
  <2>2. rest \in Int
    BY <2>1
  <2>3. chunks[k] = Piece(word, (k - 1) * max + 1, Min({max, rest}))
    BY <1>3
  <2> HIDE DEF rest
  <2>4. Min({max, rest}) \in Int
    BY <2>2, MaxOfTwo
  <2> QED
    BY <2>3, <2>4 DEF Piece
<1>5. chunks = [k \in 1 .. n |-> chunks[k]]
  BY <1>3
<1> HIDE DEF chunks
<1>6. IsList(chunks) /\ Len(chunks) = n
  BY <1>2, <1>5, ListBuilt
<1>7. IsLine(chunks)
  BY <1>4, <1>6 DEF IsLine
<1> QED
  BY <1>7 DEF chunks

LEMMA WholeLine ==
  ASSUME NEW words, IsText(words)
  PROVE  IsLine([i \in DOMAIN words |-> WholeWord(words[i])])
<1> DEFINE line == [i \in DOMAIN words |-> WholeWord(words[i])]
           n == Len(words)
<1>1. n \in Nat /\ DOMAIN words = 1 .. n
  BY VectorIsList DEF IsText
<1>2. line = [i \in 1 .. n |-> line[i]] /\ \A i \in 1 .. n : line[i].length \in Int
  BY <1>1 DEF IsText, WholeWord, Piece
<1> HIDE DEF line
<1>3. IsList(line) /\ Len(line) = n
  BY <1>1, <1>2, ListBuilt
<1>4. IsLine(line)
  BY <1>2, <1>3 DEF IsLine
<1> QED
  BY <1>4 DEF line

\* Lines below lines.
LEMMA LinesJoined ==
  ASSUME NEW s, AreLines(s), NEW t, AreLines(t)
  PROVE  AreLines(s \o t) /\ Len(s \o t) = Len(s) + Len(t)
<1>1. /\ IsList(s \o t) /\ Len(s \o t) = Len(s) + Len(t)
      /\ \A i \in 1 .. Len(s) + Len(t) : (s \o t)[i] = IF i <= Len(s) THEN s[i] ELSE t[i - Len(s)]
  BY ConcatList DEF AreLines
<1>2. Len(s) \in Nat /\ Len(t) \in Nat
  BY ListFacts DEF AreLines
<1>3. ASSUME NEW i \in 1 .. Len(s) + Len(t) PROVE IsLine((s \o t)[i])
  <2>1. CASE i <= Len(s)
    BY <1>1, <1>2, <2>1 DEF AreLines
  <2>2. CASE i > Len(s)
    BY <1>1, <1>2, <2>2 DEF AreLines
  <2> QED
    BY <1>2, <2>1, <2>2
<1> QED
  BY <1>1, <1>3 DEF AreLines

\* A word goes on the last line or on lines of its own.
LEMMA WordWrapped ==
  ASSUME NEW lines, AreLines(lines), Len(lines) >= 1, NEW word, word.length \in Nat, NEW max \in Nat, max > 0
  PROVE  AreLines(WrapWord(lines, word, max)) /\ Len(WrapWord(lines, word, max)) >= 1
<1> DEFINE n == Len(lines)
           chunks == Chunks(word, max)
           cut == [k \in DOMAIN chunks |-> <<chunks[k]>>]
           kept == IF Last(lines) = <<>> THEN Front(lines) ELSE lines
           whole == <<WholeWord(word)>>
<1>1. n \in Nat /\ n \in 1 .. n /\ IsList(lines) /\ IsLine(Last(lines))
  BY ListFacts DEF AreLines, Last
<1>2. WholeWord(word).length \in Int
  BY DEF WholeWord, Piece
<1>3. IsLine(whole)
  BY <1>2, OneList DEF IsLine
<1>4. CASE word.length > max
  <2>1. WrapWord(lines, word, max) = kept \o cut
    BY <1>4 DEF WrapWord
  <2>2. IsLine(chunks)
    BY ChunksAre
  <2>3. AreLines(cut) /\ Len(cut) = Len(chunks) /\ Len(chunks) >= 1
    <3>1. Len(chunks) \in Nat /\ DOMAIN chunks = 1 .. Len(chunks)
      BY <2>2, ListFacts DEF IsLine
    <3> DEFINE m == (word.length + max - 1) \div max
    <3>2. m >= 1 /\ m \in Nat
      BY <1>4
    <3>3. DOMAIN chunks = 1 .. m
      BY DEF Chunks
    <3>4. Len(chunks) = m
      <4> HIDE DEF m, chunks
      <4>1. m \in 1 .. m
        BY <3>2
      <4>2. m \in 1 .. Len(chunks)
        BY <3>1, <3>3, <4>1
      <4>3. m + 1 \in 1 .. Len(chunks) => m + 1 \in 1 .. m
        BY <3>1, <3>3
      <4>4. ~(m + 1 \in 1 .. Len(chunks))
        BY <3>2, <4>3
      <4>5. \A a, b \in Nat : a \in 1 .. b /\ ~(a + 1 \in 1 .. b) => b = a
        OBVIOUS
      <4> QED
        BY <3>1, <3>2, <4>2, <4>4, <4>5
    <3> HIDE DEF chunks, m
    <3>5. cut = [k \in 1 .. Len(chunks) |-> cut[k]]
      BY <3>1
    <3>6. ASSUME NEW k \in 1 .. Len(chunks) PROVE IsLine(cut[k])
      BY <2>2, <3>1, OneList DEF IsLine
    <3> HIDE DEF cut
    <3>7. IsList(cut) /\ Len(cut) = Len(chunks)
      BY <3>1, <3>5, ListBuilt
    <3> QED
      BY <3>2, <3>4, <3>6, <3>7 DEF AreLines
  <2>4. AreLines(kept) /\ Len(kept) \in Nat
    <3>1. IsList(Front(lines)) /\ Len(Front(lines)) = n - 1 /\ \A i \in 1 .. n - 1 : Front(lines)[i] = lines[i]
      <4>1. 1 \in 1 .. n + 1 /\ n - 1 \in 1 - 1 .. n
        BY <1>1
      <4>2. /\ IsList(SubSeq(lines, 1, n - 1)) /\ Len(SubSeq(lines, 1, n - 1)) = (n - 1) - 1 + 1
            /\ \A i \in 1 .. (n - 1) - 1 + 1 : SubSeq(lines, 1, n - 1)[i] = lines[1 + i - 1]
        BY <1>1, <4>1, SubList
      <4>3. (n - 1) - 1 + 1 = n - 1 /\ \A i \in 1 .. n - 1 : 1 + i - 1 = i
        BY <1>1
      <4> QED
        BY <4>2, <4>3 DEF Front
    <3>2. AreLines(Front(lines)) /\ Len(Front(lines)) \in Nat
      BY <1>1, <3>1 DEF AreLines
    <3> QED
      BY <1>1, <3>2
  <2> HIDE DEF cut, kept, chunks
  <2> QED
    BY <2>1, <2>3, <2>4, LinesJoined
<1>5. CASE ~(word.length > max) /\ (Last(lines) = <<>> \/ LineLength(Last(lines)) + 1 + word.length <= max)
  <2> DEFINE longer == Append(lines[n], WholeWord(word))
  <2>1. WrapWord(lines, word, max) = [lines EXCEPT ![n] = longer]
    BY <1>5 DEF WrapWord
  <2>2. IsLine(lines[n])
    BY <1>1 DEF Last
  <2>3. IsLine(longer)
    <3> DEFINE line == lines[n]
               m == Len(line)
    <3>1. IsList(line) /\ m \in Nat
      BY <2>2, ListFacts DEF IsLine
    <3>2. IsList(longer) /\ Len(longer) = m + 1 /\ (\A i \in 1 .. m : longer[i] = line[i]) /\ longer[m + 1] = WholeWord(word)
      BY <3>1, AppendList
    <3>3. \A i \in 1 .. m + 1 : i \in 1 .. m \/ i = m + 1
      BY <3>1
    <3>4. \A i \in 1 .. m : line[i].length \in Int
      BY <2>2 DEF IsLine
    <3> HIDE DEF longer, line, m
    <3> QED
      BY <1>2, <3>2, <3>3, <3>4 DEF IsLine
  <2> HIDE DEF longer
  <2> DEFINE t == [lines EXCEPT ![Len(lines)] = longer]
  <2>4. IsList(t) /\ Len(t) = n /\ \A i \in 1 .. n : t[i] = IF i = n THEN longer ELSE lines[i]
    <3>1. DOMAIN lines = 1 .. n
      BY <1>1, ListFacts
    <3>2. t = [i \in 1 .. n |-> t[i]] /\ \A i \in 1 .. n : t[i] = IF i = n THEN longer ELSE lines[i]
      BY <3>1
    <3> HIDE DEF t
    <3> QED
      BY <1>1, <3>2, ListBuilt
  <2> QED
    BY <1>1, <2>1, <2>3, <2>4 DEF AreLines
<1>6. CASE ~(word.length > max) /\ ~(Last(lines) = <<>> \/ LineLength(Last(lines)) + 1 + word.length <= max)
  <2>1. WrapWord(lines, word, max) = Append(lines, whole)
    BY <1>6 DEF WrapWord
  <2> HIDE DEF whole
  <2>2. /\ IsList(Append(lines, whole)) /\ Len(Append(lines, whole)) = n + 1
        /\ (\A i \in 1 .. n : Append(lines, whole)[i] = lines[i]) /\ Append(lines, whole)[n + 1] = whole
    BY <1>1, AppendList
  <2>3. \A i \in 1 .. n + 1 : i \in 1 .. n \/ i = n + 1
    BY <1>1
  <2> QED
    BY <1>1, <1>3, <2>1, <2>2, <2>3 DEF AreLines
<1> QED
  BY <1>4, <1>5, <1>6

\* Text is cut into lines.
LEMMA TextWrapped ==
  ASSUME NEW text, IsText(text), NEW width \in Nat, NEW size \in Int
  PROVE  AreLines(WrapText(text, width, size))
<1> DEFINE max == MaxChars(width, size)
           n == Len(text)
           start == 0
<1>1. max \in Nat /\ n \in Nat /\ \A i \in 1 .. n : text[i].length \in Nat
  <2>1. max \in Nat
    BY SizesAre, DivisionIs DEF MaxChars
  <2> QED
    BY <2>1, VectorIsList DEF IsText
<1>2. CASE max = 0
  <2> DEFINE line == [i \in DOMAIN text |-> WholeWord(text[i])]
  <2>1. WrapText(text, width, size) = <<line>>
    BY <1>2 DEF WrapText
  <2>2. IsLine(line)
    BY WholeLine
  <2> HIDE DEF line
  <2> QED
    BY <2>1, <2>2, OneList DEF AreLines
<1>3. CASE max # 0
  <2> DEFINE first == << <<>> >>
             f == CHOOSE g : g = [k \in 0..n |-> IF k = 0 THEN << <<>> >> ELSE WrapWord(g[k - 1], text[k], max)]
             parts == [k \in 1 .. n |-> [what |-> "word", of |-> text[k], max |-> max]]
  <2>1. WrapText(text, width, size) = f[n]
    BY <1>3 DEF WrapText
  <2> HIDE DEF max, f
  <2>2. PICK g : PartsRun(first, parts, n, g)
    BY <1>1, PartsRunExists
  <2>3. \A k \in 1 .. n : \A s : TakePart(s, parts[k]) = WrapWord(s, text[k], max)
    BY DEF TakePart
  <2>4. \A k \in 0 .. n : k # 0 => k \in 1 .. n
    BY <1>1
  <2> HIDE DEF parts
  <2>5. g = [k \in 0..n |-> IF k = 0 THEN first ELSE WrapWord(g[k - 1], text[k], max)]
    BY <2>2, <2>3, <2>4 DEF PartsRun
  <2>6. f = [k \in 0..n |-> IF k = 0 THEN first ELSE WrapWord(f[k - 1], text[k], max)]
    BY <2>5 DEF f
  <2> DEFINE S == {k \in 0 .. n : AreLines(f[k]) /\ Len(f[k]) >= 1}
  <2>7. start \in S
    BY <1>1, <2>6, EmptyList, OneList DEF IsLine, AreLines
  <2>8. ASSUME NEW k \in start .. n - 1, k \in S PROVE k + 1 \in S
    <3>1. k + 1 \in 1 .. n /\ k + 1 \in 0 .. n /\ k + 1 # 0 /\ (k + 1) - 1 = k /\ AreLines(f[k]) /\ Len(f[k]) >= 1
      BY <1>1, <2>8
    <3>2. f[k + 1] = WrapWord(f[k], text[k + 1], max)
      BY <2>6, <3>1
    <3>3. max > 0
      BY <1>1, <1>3
    <3> QED
      BY <1>1, <3>1, <3>2, <3>3, WordWrapped
  <2> HIDE DEF S
  <2>9. start .. n \subseteq S
    BY <1>1, <2>7, <2>8, CountingUp
  <2>10. n \in S
    BY <1>1, <2>9
  <2> QED
    BY <2>1, <2>10 DEF S
<1> QED
  BY <1>2, <1>3

-----------------------------------------------------------------------------
(* Lists of lists, texts and runs                                          *)

\* What is in a list of lists joined is what was in them.
LEMMA FlattenIsFrom ==
  ASSUME NEW seqs, IsList(seqs), \A i \in 1 .. Len(seqs) : IsList(seqs[i])
  PROVE  /\ IsList(FlattenSeq(seqs))
         /\ \A k \in 1 .. Len(FlattenSeq(seqs)) : \E i \in 1 .. Len(seqs) : \E j \in 1 .. Len(seqs[i]) : FlattenSeq(seqs)[k] = seqs[i][j]
         /\ \A i \in 1 .. Len(seqs) : \A j \in 1 .. Len(seqs[i]) : \E k \in 1 .. Len(FlattenSeq(seqs)) : FlattenSeq(seqs)[k] = seqs[i][j]
<1> DEFINE Of(i) == {seqs[i][j] : j \in 1 .. Len(seqs[i])}
           T == UNION {Of(i) : i \in 1 .. Len(seqs)}
           flat == FlattenSeq(seqs)
<1>1. ASSUME NEW i \in 1 .. Len(seqs) PROVE seqs[i] \in Seq(T)
  <2>1. PICK U : seqs[i] \in Seq(U)
    BY DEF IsList
  <2>2. Of(i) \subseteq T
    OBVIOUS
  <2>3. seqs[i] \in [1 .. Len(seqs[i]) -> T] /\ Len(seqs[i]) \in Nat
    BY <2>1, <2>2, LenProperties
  <2> HIDE DEF T, Of
  <2> QED
    BY <2>3, SeqDef
<1> HIDE DEF T, Of
<1>2. seqs \in Seq(Seq(T))
  <2>1. PICK U : seqs \in Seq(U)
    BY DEF IsList
  <2>2. seqs \in [1 .. Len(seqs) -> Seq(T)] /\ Len(seqs) \in Nat
    BY <1>1, <2>1, LenProperties
  <2> QED
    BY <2>2, SeqDef
<1>3. flat \in Seq(T)
  BY <1>2, FlattenHolds
<1>4. ASSUME NEW i \in 1 .. Len(seqs), NEW j \in 1 .. Len(seqs[i]) PROVE \E k \in 1 .. Len(flat) : flat[k] = seqs[i][j]
  BY <1>2, FlattenHolds DEF Lists
<1>5. ASSUME NEW k \in 1 .. Len(flat) PROVE \E i \in 1 .. Len(seqs) : \E j \in 1 .. Len(seqs[i]) : flat[k] = seqs[i][j]
  <2> HIDE DEF flat
  <2>1. flat[k] \in T
    BY <1>3, ElementOfSeq
  <2> QED
    BY <2>1 DEF T, Of
<1>6. IsList(flat)
  BY <1>3 DEF IsList
<1> HIDE DEF flat
<1>7. IsList(flat) /\ (\A k \in 1 .. Len(flat) : \E i \in 1 .. Len(seqs) : \E j \in 1 .. Len(seqs[i]) : flat[k] = seqs[i][j])
      /\ (\A i \in 1 .. Len(seqs) : \A j \in 1 .. Len(seqs[i]) : \E k \in 1 .. Len(flat) : flat[k] = seqs[i][j])
  BY <1>4, <1>5, <1>6
<1> QED
  BY <1>7 DEF flat

\* Lists are what documents have; so are texts.
LEMMA ListIsVector ==
  ASSUME NEW s, IsList(s)
  PROVE  IsVector(s)
<1>1. PICK U : s \in Seq(U)
  BY DEF IsList
<1>2. s \in [1 .. Len(s) -> ToSet(s)] /\ Len(s) \in Nat
  BY <1>1, LenProperties DEF ToSet
<1>3. s \in Seq(ToSet(s))
  BY <1>2, SeqDef
<1> QED
  BY <1>3 DEF IsVector

LEMMA TextJoined ==
  ASSUME NEW s, IsText(s), NEW t, IsText(t)
  PROVE  IsText(s \o t)
<1>1. /\ IsList(s) /\ Len(s) \in Nat /\ DOMAIN s = 1 .. Len(s)
      /\ IsList(t) /\ Len(t) \in Nat /\ DOMAIN t = 1 .. Len(t)
  BY VectorIsList DEF IsText
<1> DEFINE m == Len(s)
           n == Len(t)
           both == s \o t
<1>2. IsList(both) /\ Len(both) = m + n /\ \A i \in 1 .. m + n : both[i] = IF i <= m THEN s[i] ELSE t[i - m]
  BY <1>1, ConcatList
<1> HIDE DEF both
<1>3. DOMAIN both = 1 .. m + n
  BY <1>2, ListFacts
<1>4. ASSUME NEW i \in 1 .. m + n PROVE both[i].length \in Nat
  <2>1. CASE i <= m
    BY <1>1, <1>2, <2>1 DEF IsText
  <2>2. CASE i > m
    BY <1>1, <1>2, <2>2 DEF IsText
  <2> QED
    BY <1>1, <2>1, <2>2
<1>5. IsText(both)
  BY <1>2, <1>3, <1>4, ListIsVector DEF IsText
<1> QED
  BY <1>5 DEF both

LEMMA OneText ==
  ASSUME NEW word, word.length \in Nat
  PROVE  IsText(<<word>>)
<1>1. IsList(<<word>>) /\ Len(<<word>>) = 1 /\ \A i \in 1 .. 1 : i = 1 /\ <<word>>[i] = word
  BY OneList
<1>2. DOMAIN <<word>> = 1 .. 1
  BY <1>1, ListFacts
<1> QED
  BY <1>1, <1>2, ListIsVector DEF IsText

\* What a block shows is a text, and its lines are runs.
LEMMA TextShown ==
  ASSUME NEW block, IsBlock(block)
  PROVE  IsText(DisplayText(block))
<1>1. IsText(<<[id |-> <<"Image:">>, length |-> 6]>>) /\ IsText(<<[id |-> <<"<tag>">>, length |-> 5]>>)
  BY OneText
<1>2. IsText(block.text) /\ IsText(block.link)
  BY DEF IsBlock
<1>3. IsText(<<[id |-> <<"Image:">>, length |-> 6]>> \o block.text)
  BY <1>1, <1>2, TextJoined
<1>4. IsText(<<[id |-> <<"Image:">>, length |-> 6]>> \o block.text \o block.link)
  BY <1>2, <1>3, TextJoined
<1>5. IsText(<<[id |-> <<"<tag>">>, length |-> 5]>> \o block.text)
  BY <1>1, <1>2, TextJoined
<1> QED
  BY <1>2, <1>4, <1>5 DEF DisplayText

LEMMA RunsAre ==
  ASSUME NEW lines, AreLines(lines), NEW x \in Int, NEW y \in Int, NEW size \in Int
  PROVE  AreRuns(RunsOf(lines, x, y, size))
<1> DEFINE runs == RunsOf(lines, x, y, size)
           n == Len(lines)
<1>1. n \in Nat /\ DOMAIN lines = 1 .. n
  BY ListFacts DEF AreLines
<1>2. ASSUME NEW i \in 1 .. n PROVE IsRun(runs[i])
  <2>1. runs[i] = TextRun(x, y + (i - 1) * LineHeight(size), lines[i], LineLength(lines[i]), size, <<>>)
    BY <1>1 DEF RunsOf
  <2>2. LineLength(lines[i]) \in Int
    BY LengthOfLine DEF AreLines
  <2>3. (i - 1) * LineHeight(size) \in Int
    BY <1>1, SizesAre
  <2>4. y + (i - 1) * LineHeight(size) \in Int
    BY <2>3
  <2> QED
    BY <2>1, <2>2, <2>4 DEF IsRun, TextRun
<1>3. runs = [i \in 1 .. n |-> runs[i]]
  BY <1>1 DEF RunsOf
<1> HIDE DEF runs
<1>4. IsList(runs) /\ Len(runs) = n
  BY <1>1, <1>3, ListBuilt
<1>5. AreRuns(runs)
  BY <1>2, <1>4 DEF AreRuns
<1> QED
  BY <1>5 DEF runs

LEMMA RunAdded ==
  ASSUME NEW runs, AreRuns(runs), NEW run, IsRun(run)
  PROVE  AreRuns(Append(runs, run))
<1> DEFINE n == Len(runs)
           longer == Append(runs, run)
<1>1. n \in Nat /\ IsList(longer) /\ Len(longer) = n + 1 /\ (\A i \in 1 .. n : longer[i] = runs[i]) /\ longer[n + 1] = run
  BY AppendList, ListFacts DEF AreRuns
<1>2. \A i \in 1 .. n + 1 : i \in 1 .. n \/ i = n + 1
  BY <1>1
<1> HIDE DEF longer
<1>3. AreRuns(longer)
  BY <1>1, <1>2 DEF AreRuns
<1> QED
  BY <1>3 DEF longer

LEMMA RunsPicked ==
  ASSUME NEW runs, AreRuns(runs), NEW S \in SUBSET DOMAIN runs
  PROVE  AreRuns(Picked(runs, S))
<1>1. IsList(Picked(runs, S)) /\ \E places : PicksFrom(runs, S, Picked(runs, S), places)
  BY PickedList DEF AreRuns
<1>2. DOMAIN runs = 1 .. Len(runs)
  BY ListFacts DEF AreRuns
<1>3. PICK places : PicksFrom(runs, S, Picked(runs, S), places)
  BY <1>1
<1>4. \A n \in 1 .. Len(Picked(runs, S)) : IsRun(Picked(runs, S)[n])
  BY <1>2, <1>3 DEF PicksFrom, AreRuns
<1> QED
  BY <1>1, <1>4 DEF AreRuns

-----------------------------------------------------------------------------
(* Boxes of blocks                                                         *)

\* A box of a layout; that of a control has one of the ids.
IsLaidBox(box, ids) ==
  /\ box.rect \in Rects /\ AreEdges(box.border) /\ box.after \in Int /\ AreRuns(box.runs)
  /\ box.kind = "FormControl" => box.control \in ids
AreBoxes(boxes, ids) == IsList(boxes) /\ \A i \in 1 .. Len(boxes) : IsLaidBox(boxes[i], ids)

\* The boxes of blocks, kind by kind.
LEMMA LaidBoxIs ==
  ASSUME NEW block, IsBlock(block), NEW rect \in Rects, NEW box, IsBoxStyle(box), NEW runs, AreRuns(runs), NEW ids
  PROVE  AreBoxes(<<LayoutBox(block, rect, box, runs)>>, ids)
<1> DEFINE laid == LayoutBox(block, rect, box, runs)
<1>1. IsLaidBox(laid, ids)
  BY DEF IsLaidBox, LayoutBox, IsBlock, IsBoxStyle, AreEdges
<1> HIDE DEF laid
<1>2. AreBoxes(<<laid>>, ids)
  BY <1>1, OneList DEF AreBoxes
<1> QED
  BY <1>2 DEF laid

LEMMA NoBoxes ==
  ASSUME NEW ids
  PROVE  AreBoxes(<<>>, ids)
BY EmptyList DEF AreBoxes

LEMMA SizeIs ==
  ASSUME NEW block, IsBlock(block), NEW node, IsStyling(node), NEW style, IsPageStyle(style)
  PROVE  SizeOf(block, node, style) \in Int /\ IsBoxStyle(BoxOf(block, node, style))
<1>1. (CASE block.kind = "Heading" -> style.headings[block.level]
         [] block.kind = "Generic" -> style.generic
         [] OTHER -> style.paragraph) \in Int
  BY DEF IsBlock, IsPageStyle
<1>2. SizeOf(block, node, style) \in Int
  BY <1>1, SetOrIs DEF SizeOf, LengthKeys
<1>3. TagOf(block) \in BoxTags
  BY HeadingsHaveTags DEF TagOf, BoxTags, IsBlock
<1>4. IsBoxStyle(style.boxes[TagOf(block)])
  BY <1>3 DEF IsPageStyle
<1> QED
  BY <1>2, <1>4, BoxWithIs DEF BoxOf

LEMMA TextBoxesAre ==
  ASSUME NEW block, IsBlock(block), NEW node, IsStyling(node), NEW style, IsPageStyle(style), NEW y \in Int, NEW ids
  PROVE  AreBoxes(TextBoxes(block, y, style, node), ids)
<1> DEFINE box == BoxOf(block, node, style)
           size == SizeOf(block, node, style)
           within == InnerRect(style.x, y, style.width, box)
           lines == WrapText(DisplayText(block), within.width, size)
           rect == OuterRect(style.x, y, style.width, box, Len(lines) * LineHeight(size))
           inner == Inset(Inset(rect, box.border), box.padding)
           runs == RunsOf(lines, inner.x, inner.y, size)
<1>1. size \in Int /\ IsBoxStyle(box) /\ style.x \in Int /\ style.width \in Int
  BY SizeIs DEF IsPageStyle
<1>2. TextBoxes(block, y, style, node) = IF DisplayText(block) = <<>> \/ box.display = "none" THEN <<>>
                                         ELSE <<LayoutBox(block, rect, box, runs)>>
  BY DEF TextBoxes
<1> HIDE DEF box, size
<1>3. within.width \in Nat
  BY <1>1, InnerIs DEF Rects
<1> HIDE DEF within
<1>4. AreLines(lines)
  BY <1>1, <1>3, TextShown, TextWrapped
<1> HIDE DEF lines
<1>5. Len(lines) * LineHeight(size) \in Int
  BY <1>1, <1>4, ListFacts, SizesAre DEF AreLines
<1>6. rect \in Rects
  BY <1>1, <1>5, OuterIs
<1> HIDE DEF rect
<1>7. inner \in Rects
  BY <1>1, <1>6, InsetIs DEF IsBoxStyle
<1> HIDE DEF inner
<1>8. AreRuns(runs)
  BY <1>1, <1>4, <1>7, RunsAre DEF Rects
<1> HIDE DEF runs
<1> QED
  BY <1>1, <1>2, <1>6, <1>8, LaidBoxIs, NoBoxes

LEMMA ImageBoxesAre ==
  ASSUME NEW block, IsBlock(block), NEW node, IsStyling(node), NEW style, IsPageStyle(style), NEW y \in Int,
         NEW viewport, viewport.height \in Int, NEW ids
  PROVE  AreBoxes(ImageBoxes(block, y, style, node, viewport), ids)
<1> DEFINE box == BoxOf(block, node, style)
           tall == Min({Max({style.paragraph * 6, 720}), 1800})
           rect == OuterRect(style.x, y, style.width, box, tall)
           inner == Inset(Inset(rect, box.border), box.padding)
           room == NoLess(inner.width - 240, 10)
           lines == WrapText(DisplayText(block), room, style.generic)
           shown == [box EXCEPT !.background = IF @ = "" THEN "placeholder" ELSE @]
           top == Min({inner.y + 120, viewport.height})
           runs == RunsOf(lines, inner.x + 120, top, style.generic)
<1>1. IsBoxStyle(box) /\ style.x \in Int /\ style.width \in Int /\ style.paragraph \in Int /\ style.generic \in Int
  BY SizeIs DEF IsPageStyle
<1>2. ImageBoxes(block, y, style, node, viewport) = IF box.display = "none" THEN <<>> ELSE <<LayoutBox(block, rect, shown, runs)>>
  BY DEF ImageBoxes
<1>3. IsBoxStyle(shown)
  <2> HIDE DEF box
  <2>1. DOMAIN shown = DOMAIN box
    OBVIOUS
  <2>2. shown.margin = box.margin /\ shown.padding = box.padding /\ shown.border = box.border
    BY <1>1 DEF IsBoxStyle, NoBox
  <2> HIDE DEF shown
  <2> QED
    BY <1>1, <2>1, <2>2 DEF IsBoxStyle
<1> HIDE DEF box, shown
<1>4. tall \in Int
  <2> DEFINE least == style.paragraph * 6
  <2>1. least \in Int
    BY <1>1
  <2> HIDE DEF least
  <2> DEFINE most == Max({least, 720})
  <2>2. most \in Int
    BY <2>1, MaxOfTwo
  <2> HIDE DEF most
  <2>3. Min({most, 1800}) \in Int
    BY <2>2, LesserIs
  <2> QED
    BY <2>3 DEF most, least
<1> HIDE DEF tall
<1>5. rect \in Rects
  BY <1>1, <1>4, OuterIs
<1> HIDE DEF rect
<1>6. inner \in Rects
  BY <1>1, <1>5, InsetIs DEF IsBoxStyle
<1> HIDE DEF inner
<1>7. inner.x \in Int /\ inner.y \in Int /\ inner.width - 240 \in Int /\ inner.y + 120 \in Int /\ inner.x + 120 \in Int
  BY <1>6 DEF Rects
<1>8. room \in Nat
  BY <1>7, NoLessIs
<1>9. top \in Int
  BY <1>7, LesserIs
<1> HIDE DEF room, top
<1>10. AreLines(lines)
  BY <1>1, <1>8, TextShown, TextWrapped
<1> HIDE DEF lines
<1>11. AreRuns(runs)
  BY <1>1, <1>7, <1>9, <1>10, RunsAre
<1> HIDE DEF runs
<1> QED
  BY <1>2, <1>3, <1>5, <1>11, LaidBoxIs, NoBoxes

\* Where words go that stand in one line with others.
IsPlace(at) == at.x \in Int /\ at.y \in Int /\ AreRuns(at.runs)

LEMMA PiecePlaced ==
  ASSUME NEW at, IsPlace(at), NEW piece, piece.length \in Int, NEW link, NEW size \in Int, NEW inner \in Rects
  PROVE  IsPlace(PlacePiece(at, piece, link, size, inner))
<1> DEFINE advance == GlyphAdvance(size)
           width == piece.length * advance
           breaks == at.filled /\ at.x + advance + width > inner.x + inner.width
           x == IF breaks THEN inner.x ELSE IF at.filled THEN at.x + advance ELSE at.x
           y == IF breaks THEN at.y + LineHeight(size) ELSE at.y
           run == TextRun(x, y, <<piece>>, piece.length, size, link)
<1>1. PlacePiece(at, piece, link, size, inner) = [x |-> x + width, y |-> y, filled |-> TRUE, runs |-> Append(at.runs, run)]
  BY DEF PlacePiece
<1>2. advance \in Int /\ LineHeight(size) \in Int
  BY SizesAre
<1> HIDE DEF advance
<1>3. width \in Int
  BY <1>2
<1> HIDE DEF width, breaks
<1>4. x \in Int /\ y \in Int
  BY <1>2 DEF IsPlace, Rects
<1> HIDE DEF x, y
<1>5. IsRun(run)
  BY <1>4 DEF IsRun, TextRun
<1> HIDE DEF run
<1>6. AreRuns(Append(at.runs, run))
  BY <1>5, RunAdded DEF IsPlace
<1> QED
  BY <1>1, <1>3, <1>4, <1>6 DEF IsPlace

ArePieces(pieces) == IsList(pieces) /\ \A k \in 1 .. Len(pieces) : pieces[k].piece.length \in Int

LEMMA PiecesPlaced ==
  ASSUME NEW pieces, ArePieces(pieces), NEW size \in Int, NEW inner \in Rects
  PROVE  IsPlace(PlacePieces(pieces, size, inner))
<1> DEFINE n == Len(pieces)
           start == 0
           first == [x |-> inner.x, y |-> inner.y, filled |-> FALSE, runs |-> <<>>]
           Placed(s, k) == PlacePiece(s, pieces[k].piece, pieces[k].link, size, inner)
           f == CHOOSE g : g = [k \in 0..n |-> IF k = 0 THEN first ELSE Placed(g[k - 1], k)]
           parts == [k \in 1 .. n |-> [what |-> "piece", of |-> pieces[k], size |-> size, inner |-> inner]]
<1>1. PlacePieces(pieces, size, inner) = f[n] /\ n \in Nat
  BY ListFacts DEF PlacePieces, ArePieces
<1> HIDE DEF f
<1>2. PICK g : PartsRun(first, parts, n, g)
  BY <1>1, PartsRunExists
<1>3. \A k \in 1 .. n : \A s : TakePart(s, parts[k]) = Placed(s, k)
  BY DEF TakePart
<1>4. \A k \in 0 .. n : k # 0 => k \in 1 .. n
  BY <1>1
<1>5. IsPlace(first)
  BY EmptyList DEF AreRuns, IsPlace, Rects
<1> HIDE DEF parts, Placed, first
<1>6. g = [k \in 0..n |-> IF k = 0 THEN first ELSE Placed(g[k - 1], k)]
  BY <1>2, <1>3, <1>4 DEF PartsRun
<1>7. f = [k \in 0..n |-> IF k = 0 THEN first ELSE Placed(f[k - 1], k)]
  BY <1>6 DEF f
<1> DEFINE S == {k \in 0 .. n : IsPlace(f[k])}
<1>8. start \in S
  BY <1>1, <1>5, <1>7
<1>9. ASSUME NEW k \in start .. n - 1, k \in S PROVE k + 1 \in S
  <2>1. k + 1 \in 1 .. n /\ k + 1 \in 0 .. n /\ k + 1 # 0 /\ (k + 1) - 1 = k /\ IsPlace(f[k])
    BY <1>1, <1>9
  <2>2. f[k + 1] = Placed(f[k], k + 1)
    BY <1>7, <2>1
  <2>3. pieces[k + 1].piece.length \in Int
    BY <2>1 DEF ArePieces
  <2>4. IsPlace(Placed(f[k], k + 1))
    BY <2>1, <2>3, PiecePlaced DEF Placed
  <2> QED
    BY <2>1, <2>2, <2>4
<1> HIDE DEF S
<1>10. start .. n \subseteq S
  BY <1>1, <1>8, <1>9, CountingUp
<1>11. n \in S
  BY <1>1, <1>10
<1> QED
  BY <1>1, <1>11 DEF S

LEMMA PiecesAre ==
  ASSUME NEW fragments, IsVector(fragments), \A i \in DOMAIN fragments : IsText(fragments[i].text), NEW size \in Int, NEW inner \in Rects
  PROVE  ArePieces(InlinePieces(fragments, size, inner))
<1> DEFINE Linked(pieces, link) == [k \in DOMAIN pieces |-> [piece |-> pieces[k], link |-> link]]
           Words(part) == [k \in DOMAIN part.text |-> Linked(PiecesOf(part.text[k], size, inner), part.link)]
           Of(part) == FlattenSeq(Words(part))
           all == [i \in DOMAIN fragments |-> Of(fragments[i])]
<1>1. InlinePieces(fragments, size, inner) = FlattenSeq(all)
  BY DEF InlinePieces
<1>2. ASSUME NEW word, word.length \in Nat PROVE IsLine(PiecesOf(word, size, inner))
  <2>1. IsLine(<<WholeWord(word)>>)
    BY <1>2, OneList DEF WholeWord, Piece, IsLine
  <2>2. MaxChars(inner.width, size) \in Int
    BY SizesAre, DivisionIs DEF MaxChars, Rects
  <2>3. NoLess(MaxChars(inner.width, size), 1) \in Nat /\ NoLess(MaxChars(inner.width, size), 1) > 0
    BY <2>2, NoLessIs
  <2>4. IsLine(Chunks(word, NoLess(MaxChars(inner.width, size), 1)))
    BY <1>2, <2>3, ChunksAre
  <2> QED
    BY <2>1, <2>4 DEF PiecesOf
<1>3. ASSUME NEW pieces, IsLine(pieces), NEW link PROVE ArePieces(Linked(pieces, link))
  <2> DEFINE linked == Linked(pieces, link)
  <2>1. DOMAIN pieces = 1 .. Len(pieces) /\ Len(pieces) \in Nat
    BY <1>3, ListFacts DEF IsLine
  <2>2. linked = [k \in 1 .. Len(pieces) |-> linked[k]] /\ \A k \in 1 .. Len(pieces) : linked[k].piece.length \in Int
    BY <1>3, <2>1 DEF IsLine
  <2> HIDE DEF linked
  <2>3. IsList(linked) /\ Len(linked) = Len(pieces)
    BY <2>1, <2>2, ListBuilt
  <2>4. ArePieces(linked)
    BY <2>2, <2>3 DEF ArePieces
  <2> QED
    BY <2>4 DEF linked
<1> HIDE DEF Linked
<1>4. ASSUME NEW seqs, IsList(seqs), \A i \in 1 .. Len(seqs) : ArePieces(seqs[i]) PROVE ArePieces(FlattenSeq(seqs))
  <2>1. \A i \in 1 .. Len(seqs) : IsList(seqs[i])
    BY <1>4 DEF ArePieces
  <2>2. /\ IsList(FlattenSeq(seqs))
        /\ \A k \in 1 .. Len(FlattenSeq(seqs)) : \E i \in 1 .. Len(seqs) : \E j \in 1 .. Len(seqs[i]) : FlattenSeq(seqs)[k] = seqs[i][j]
    BY <1>4, <2>1, FlattenIsFrom
  <2>3. \A i \in 1 .. Len(seqs) : \A j \in 1 .. Len(seqs[i]) : seqs[i][j].piece.length \in Int
    BY <1>4 DEF ArePieces
  <2> QED
    BY <2>2, <2>3 DEF ArePieces
<1>5. ASSUME NEW part, IsText(part.text) PROVE ArePieces(Of(part))
  <2> DEFINE n == Len(part.text)
             words == Words(part)
  <2>1. n \in Nat /\ DOMAIN part.text = 1 .. n
    BY <1>5, VectorIsList DEF IsText
  <2>2. words = [k \in 1 .. n |-> words[k]]
    BY <2>1
  <2>3. \A k \in 1 .. n : ArePieces(words[k])
    BY <1>2, <1>3, <1>5, <2>1 DEF IsText
  <2> HIDE DEF words
  <2>4. IsList(words) /\ Len(words) = n
    BY <2>1, <2>2, ListBuilt
  <2>5. ArePieces(FlattenSeq(words))
    BY <1>4, <2>3, <2>4
  <2> QED
    BY <2>5 DEF words
<1> HIDE DEF Of
<1>6. DOMAIN fragments = 1 .. Len(fragments) /\ Len(fragments) \in Nat
  BY VectorIsList
<1>7. all = [i \in 1 .. Len(fragments) |-> all[i]] /\ \A i \in 1 .. Len(fragments) : ArePieces(all[i])
  BY <1>5, <1>6
<1> HIDE DEF all
<1>8. IsList(all) /\ Len(all) = Len(fragments)
  BY <1>6, <1>7, ListBuilt
<1> QED
  BY <1>1, <1>4, <1>7, <1>8

LEMMA InlineBoxesAre ==
  ASSUME NEW block, IsBlock(block), NEW node, IsStyling(node), NEW style, IsPageStyle(style), NEW y \in Int, NEW ids
  PROVE  AreBoxes(InlineBoxes(block, y, style, node), ids)
<1> DEFINE box == BoxOf(block, node, style)
           size == SizeOf(block, node, style)
           inner == InnerRect(style.x, y, style.width, box)
           at == PlacePieces(InlinePieces(block.fragments, size, inner), size, inner)
           tall == ((at.y - inner.y) \div LineHeight(size) + 1) * LineHeight(size)
           rect == OuterRect(style.x, y, style.width, box, tall)
<1>1. size \in Int /\ IsBoxStyle(box) /\ style.x \in Int /\ style.width \in Int
  BY SizeIs DEF IsPageStyle
<1>2. InlineBoxes(block, y, style, node) = IF box.display = "none" \/ at.runs = <<>> THEN <<>>
                                           ELSE <<LayoutBox(block, rect, box, at.runs)>>
  BY DEF InlineBoxes
<1> HIDE DEF box, size
<1>3. inner \in Rects
  BY <1>1, InnerIs
<1> HIDE DEF inner
<1>4. IsPlace(at)
  BY <1>1, <1>3, PiecesAre, PiecesPlaced DEF IsBlock
<1> HIDE DEF at
<1>5. tall \in Int
  <2> DEFINE high == LineHeight(size)
             down == at.y - inner.y
  <2>1. high \in Int /\ high >= 10 /\ down \in Int
    BY <1>1, <1>3, <1>4, SizesAre DEF IsPlace, Rects
  <2> HIDE DEF high, down
  <2>2. down \div high \in Int
    BY <2>1
  <2>3. \A n \in Int : (n + 1) * high \in Int
    BY <2>1
  <2>4. (down \div high + 1) * high \in Int
    BY <2>2, <2>3
  <2> QED
    BY <2>4 DEF high, down
<1> HIDE DEF tall
<1>6. rect \in Rects
  BY <1>1, <1>5, OuterIs
<1> HIDE DEF rect
<1> QED
  BY <1>1, <1>2, <1>4, <1>6, LaidBoxIs, NoBoxes DEF IsPlace

-----------------------------------------------------------------------------
(* Boxes of controls                                                       *)

\* What a control shows: the words typed, as many as fit.
LEMMA TypedWords ==
  ASSUME NEW chars, IsList(chars)
  PROVE  IsText(WordsTyped(chars))
<1> DEFINE S == {i \in DOMAIN chars : chars[i] = "newline"} \cup {0, Len(chars) + 1}
           ends == InOrder(S)
           parts == [k \in 1 .. Len(ends) - 1 |-> SubSeq(chars, ends[k] + 1, ends[k + 1] - 1)]
           words == [k \in DOMAIN parts |-> [id |-> parts[k], length |-> Len(parts[k])]]
           filled == {k \in DOMAIN parts : parts[k] /= <<>>}
           n == Len(chars)
           m == Len(ends)
<1>1. n \in Nat /\ DOMAIN chars = 1 .. n
  BY ListFacts
<1>2. WordsTyped(chars) = Picked(words, filled)
  BY DEF WordsTyped
<1>3. S \subseteq 0 .. n + 1 /\ S \in SUBSET Int /\ 0 \in S /\ n + 1 \in S
  BY <1>1
<1>4. IsFiniteSet(S)
  BY <1>1, <1>3, FS_Interval, FS_Subset
<1> HIDE DEF S
<1>5. EnumeratesInOrder(ends, S) /\ ends \in Seq(S)
  BY <1>3, <1>4, InOrderEnumerates
<1> HIDE DEF ends
<1>6. m \in Nat /\ m = Cardinality(S) /\ ends \in [1 .. m -> S]
  <2>1. m \in Nat /\ DOMAIN ends = 1 .. m /\ ends \in [1 .. m -> S]
    BY <1>5, LenProperties
  <2>2. DOMAIN ends = 1 .. Cardinality(S) /\ Cardinality(S) \in Nat
    BY <1>4, <1>5, FS_CardinalityType DEF EnumeratesInOrder
  <2>3. m = Cardinality(S)
    <3>1. \A a, b \in Nat : 1 .. a = 1 .. b => a = b
      OBVIOUS
    <3> QED
      BY <2>1, <2>2, <3>1
  <2> QED
    BY <2>1, <2>3
<1>7. m >= 1
  BY <1>3, <1>5, <1>6 DEF EnumeratesInOrder
<1>8. m - 1 \in Nat /\ DOMAIN parts = 1 .. m - 1
  BY <1>6, <1>7
<1>9. ASSUME NEW k \in 1 .. m - 1 PROVE Len(parts[k]) \in Nat
  <2>1. k \in 1 .. m /\ k + 1 \in 1 .. m /\ k < k + 1
    BY <1>6
  <2>2. ends[k] \in 0 .. n + 1 /\ ends[k + 1] \in 0 .. n + 1 /\ ends[k] < ends[k + 1]
    BY <1>3, <1>5, <1>6, <2>1 DEF EnumeratesInOrder
  <2> DEFINE from == ends[k] + 1
             to == ends[k + 1] - 1
  <2>3. from \in 1 .. n + 1 /\ to \in from - 1 .. n /\ to - from + 1 \in Nat
    BY <1>1, <2>2
  <2>4. parts[k] = SubSeq(chars, from, to)
    BY <1>8
  <2> HIDE DEF from, to, parts
  <2>5. Len(SubSeq(chars, from, to)) = to - from + 1
    BY <2>3, SubList
  <2> QED
    BY <2>3, <2>4, <2>5
<1> HIDE DEF parts
<1>10. words = [k \in 1 .. m - 1 |-> words[k]] /\ \A k \in 1 .. m - 1 : words[k].length \in Nat
  BY <1>8, <1>9
<1>11. filled \subseteq 1 .. m - 1
  BY <1>8
<1> HIDE DEF words, filled
<1>12. IsList(words) /\ Len(words) = m - 1 /\ DOMAIN words = 1 .. m - 1
  BY <1>8, <1>10, ListBuilt
<1> DEFINE picked == Picked(words, filled)
<1>13. IsList(picked) /\ \E places : PicksFrom(words, filled, picked, places)
  BY <1>11, <1>12, PickedList
<1> HIDE DEF picked
<1>14. PICK places : PicksFrom(words, filled, picked, places)
  BY <1>13
<1>15. \A k \in 1 .. Len(picked) : picked[k].length \in Nat
  BY <1>10, <1>11, <1>14 DEF PicksFrom
<1>16. IsText(picked)
  BY <1>13, <1>15, ListIsVector, ListFacts DEF IsText
<1> QED
  BY <1>2, <1>16 DEF picked

LEMMA CharsCut ==
  ASSUME NEW chars, IsList(chars), NEW width \in Nat, NEW size \in Int
  PROVE  IsList(TruncateToWidth(chars, width, size))
<1> DEFINE max == MaxChars(width, size)
           count == Len(chars)
           dots == <<".", ".", ".">>
           from == count - (max - 3) + 1
<1>1. max \in Nat /\ count \in Nat
  <2>1. GlyphAdvance(size) \in Nat /\ GlyphAdvance(size) > 0
    BY SizesAre
  <2>2. max \in Nat
    BY <2>1, DivisionIs DEF MaxChars
  <2> QED
    BY <2>2, ListFacts
<1>2. TruncateToWidth(chars, width, size) =
        IF count <= max THEN chars ELSE IF max <= 3 THEN SubSeq(chars, 1, max) ELSE dots \o SubSeq(chars, from, count)
  BY DEF TruncateToWidth
<1> HIDE DEF max
<1>3. CASE ~(count <= max) /\ max <= 3
  BY <1>1, <1>2, <1>3, SubList
<1>4. CASE ~(count <= max) /\ ~(max <= 3)
  <2>1. from \in 1 .. count + 1 /\ count \in from - 1 .. count
    BY <1>1, <1>4
  <2> HIDE DEF from
  <2>2. IsList(SubSeq(chars, from, count))
    BY <2>1, SubList
  <2>3. IsList(dots)
    <3>1. dots \in Seq({"."})
      OBVIOUS
    <3> QED
      BY <3>1 DEF IsList
  <2>4. IsList(dots \o SubSeq(chars, from, count))
    BY <2>2, <2>3, ConcatList
  <2> QED
    BY <1>2, <1>4, <2>4
<1> QED
  BY <1>2, <1>3, <1>4

LEMMA CharsShown ==
  ASSUME NEW control, IsControl(control)
  PROVE  IsList(DisplayChars(control)) /\ IsList(control.name)
<1>1. IsList(control.name) /\ IsList(control.value) /\ IsList(control.placeholder) /\ IsList(control.label)
  BY VectorIsList DEF IsControl
<1> DEFINE stars == [i \in DOMAIN control.value |-> "*"]
<1>2. stars = [i \in 1 .. Len(control.value) |-> stars[i]] /\ Len(control.value) \in Nat
  BY <1>1, ListFacts
<1> HIDE DEF stars
<1>3. IsList(stars)
  BY <1>2, ListBuilt
<1> QED
  BY <1>1, <1>3 DEF DisplayChars, stars

LEMMA ControlLinesAre ==
  ASSUME NEW control, NEW shown, IsList(shown), NEW room \in Nat, NEW size \in Int
  PROVE  AreLines(ControlLines(control, shown, room, size))
<1>1. AreLines(<<>>)
  BY EmptyList DEF AreLines
<1>2. AreLines(WrapText(WordsTyped(shown), room, size))
  BY TypedWords, TextWrapped
<1>3. AreLines(<< <<Piece([id |-> TruncateToWidth(shown, room, size)], 1, Len(TruncateToWidth(shown, room, size)))>> >>)
  <2> DEFINE cut == TruncateToWidth(shown, room, size)
             piece == Piece([id |-> cut], 1, Len(cut))
  <2>1. Len(cut) \in Int
    BY CharsCut, ListFacts
  <2>2. piece.length = Len(cut)
    BY DEF Piece
  <2> HIDE DEF cut, piece
  <2>3. IsLine(<<piece>>)
    BY <2>1, <2>2, OneList DEF IsLine
  <2>4. AreLines(<< <<piece>> >>)
    BY <2>3, OneList DEF AreLines
  <2> QED
    BY <2>4 DEF piece, cut
<1> QED
  BY <1>1, <1>2, <1>3 DEF ControlLines

LEMMA ControlRunsAre ==
  ASSUME NEW control, IsControl(control), NEW chars, IsList(chars), NEW inner \in Rects, NEW height \in Int,
         NEW room \in Nat, NEW size \in Int
  PROVE  AreRuns(ControlRuns(control, chars, inner, height, room, size))
<1> DEFINE shown == IF chars = <<>> /\ control.kind \notin SubmitLike THEN control.name ELSE chars
           lines == ControlLines(control, shown, room, size)
           runs == RunsOf(lines, inner.x + 120, inner.y + 90, size)
           text == Picked(runs, {i \in DOMAIN runs : runs[i].y + LineHeight(size) <= inner.y + height})
           count == Len(TruncateToWidth(chars, room, size))
           caret == inner.x + 120 + Min({count * GlyphAdvance(size), room - 40})
           run == TextRun(caret, inner.y + 90, <<Piece([id |-> <<"|">>], 1, 1)>>, 1, size, <<>>)
<1>1. ControlRuns(control, chars, inner, height, room, size) =
        IF control.focused /\ MayFocus(control) THEN Append(text, run) ELSE text
  BY DEF ControlRuns, WithCaret, RunsAbove
<1>2. AreLines(lines)
  BY CharsShown, ControlLinesAre
<1> HIDE DEF lines
<1>3. inner.x + 120 \in Int /\ inner.y + 90 \in Int
  BY DEF Rects
<1>4. AreRuns(runs)
  BY <1>2, <1>3, RunsAre
<1> HIDE DEF runs
<1>5. AreRuns(text)
  BY <1>4, RunsPicked
<1> HIDE DEF text
<1>6. caret \in Int
  <2> DEFINE wide == count * GlyphAdvance(size)
             most == room - 40
  <2>1. count \in Int
    BY CharsCut, ListFacts
  <2>2. wide \in Int /\ most \in Int
    BY <2>1, SizesAre
  <2> HIDE DEF wide, most
  <2>3. Min({wide, most}) = IF wide <= most THEN wide ELSE most
    BY <2>2, MaxOfTwo
  <2>4. Min({wide, most}) \in Int
    BY <2>2, <2>3
  <2>5. inner.x + 120 + Min({wide, most}) \in Int
    BY <1>3, <2>4
  <2> QED
    BY <2>5 DEF wide, most
<1> HIDE DEF caret
<1>7. IsRun(run)
  BY <1>3, <1>6 DEF IsRun, TextRun
<1> HIDE DEF run
<1> QED
  BY <1>1, <1>5, <1>7, RunAdded

\* The box of a control has its id.
LEMMA ControlBoxIs ==
  ASSUME NEW control, IsControl(control), NEW form, NEW y \in Int, NEW style, IsPageStyle(style), NEW x \in Int, NEW fullWidth \in Int,
         NEW ids, control.id \in ids
  PROVE  IsLaidBox(ControlBox(control, form, y, style, x, fullWidth), ids)
<1> DEFINE button == control.kind \in SubmitLike
           box == style.boxes[IF control.kind = "TextArea" THEN "textarea" ELSE IF button THEN "button" ELSE "input"]
           height == IF control.kind = "TextArea" THEN 880 ELSE 380
           wide == IF button THEN Min({1700, fullWidth}) ELSE fullWidth
           rect == OuterRect(x, y, wide, box, height)
           inner == Inset(Inset(rect, box.border), box.padding)
           room == NoLess(inner.width - 240, 10)
           size == NoLess(style.paragraph, 120)
           runs == ControlRuns(control, DisplayChars(control), inner, height, room, size)
           laid == ControlBox(control, form, y, style, x, fullWidth)
<1>1. laid.control = control.id /\ laid.rect = rect /\ laid.border = box.border /\ laid.after = box.margin.bottom /\ laid.runs = runs
  BY DEF ControlBox, ControlBoxAt, RunsIn
<1> HIDE DEF laid
<1>2. IsBoxStyle(box)
  BY DEF IsPageStyle, BoxTags
<1> HIDE DEF box
<1>3. height \in Int
  OBVIOUS
<1> HIDE DEF height
<1>4. wide \in Int
  <2>1. Min({1700, fullWidth}) = IF 1700 <= fullWidth THEN 1700 ELSE fullWidth
    BY MaxOfTwo
  <2> QED
    BY <2>1
<1> HIDE DEF wide
<1>5. rect \in Rects
  BY <1>2, <1>3, <1>4, OuterIs
<1> HIDE DEF rect
<1>6. inner \in Rects
  BY <1>2, <1>5, InsetIs DEF IsBoxStyle
<1> HIDE DEF inner
<1>7. room \in Nat
  BY <1>6, NoLessIs DEF Rects
<1>8. size \in Int
  BY NoLessIs DEF IsPageStyle
<1> HIDE DEF room, size
<1>9. AreRuns(runs)
  BY <1>3, <1>6, <1>7, <1>8, CharsShown, ControlRunsAre
<1> HIDE DEF runs
<1>10. IsLaidBox(laid, ids)
  BY <1>1, <1>2, <1>5, <1>9 DEF IsLaidBox, IsBoxStyle, AreEdges
<1> QED
  BY <1>10 DEF laid

-----------------------------------------------------------------------------
(* Forms, blocks and the layout                                            *)

\* Controls one below the other.
LEMMA BoxAdded ==
  ASSUME NEW ids, NEW boxes, AreBoxes(boxes, ids), NEW box, IsLaidBox(box, ids)
  PROVE  AreBoxes(Append(boxes, box), ids)
<1> DEFINE n == Len(boxes)
           longer == Append(boxes, box)
<1>1. n \in Nat /\ IsList(longer) /\ Len(longer) = n + 1 /\ (\A i \in 1 .. n : longer[i] = boxes[i]) /\ longer[n + 1] = box
  BY AppendList, ListFacts DEF AreBoxes
<1>2. \A i \in 1 .. n + 1 : i \in 1 .. n \/ i = n + 1
  BY <1>1
<1> HIDE DEF longer
<1>3. AreBoxes(longer, ids)
  BY <1>1, <1>2 DEF AreBoxes
<1> QED
  BY <1>3 DEF longer

LEMMA ControlAdded ==
  ASSUME NEW ids, NEW boxes, AreBoxes(boxes, ids), NEW control, IsControl(control), control.id \in ids, NEW form,
         NEW inner \in Rects, NEW style, IsPageStyle(style)
  PROVE  AreBoxes(AddControl(boxes, control, form, inner, style), ids)
<1> DEFINE y == IF boxes = <<>> THEN inner.y ELSE Bottom(Last(boxes).rect) + 100
           box == ControlBox(control, form, y, style, inner.x, inner.width)
<1>1. AddControl(boxes, control, form, inner, style) = Append(boxes, box)
  BY DEF AddControl
<1>2. inner.x \in Int /\ inner.y \in Int /\ inner.width \in Int
  BY DEF Rects
<1>3. y \in Int
  <2>1. CASE boxes = <<>>
    BY <1>2, <2>1
  <2>2. CASE boxes # <<>>
    BY <2>2, ListFacts DEF AreBoxes, IsLaidBox, Last, Rects, Bottom
  <2> QED
    BY <2>1, <2>2
<1> HIDE DEF y
<1>4. IsLaidBox(box, ids)
  BY <1>2, <1>3, ControlBoxIs
<1> HIDE DEF box
<1> QED
  BY <1>1, <1>4, BoxAdded

LEMMA ControlBoxesAre ==
  ASSUME NEW ids, NEW controls, IsList(controls), \A i \in 1 .. Len(controls) : IsControl(controls[i]) /\ controls[i].id \in ids,
         NEW form, NEW inner \in Rects, NEW style, IsPageStyle(style)
  PROVE  AreBoxes(ControlBoxes(controls, form, inner, style), ids)
<1> DEFINE n == Len(controls)
           start == 0
           first == <<>>
           Turn(s, k) == AddControl(s, controls[k], form, inner, style)
           f == CHOOSE g : g = [k \in 0..n |-> IF k = 0 THEN first ELSE Turn(g[k - 1], k)]
           parts == [k \in 1 .. n |-> [what |-> "control", of |-> controls[k], form |-> form, inner |-> inner, style |-> style]]
<1>1. ControlBoxes(controls, form, inner, style) = f[n] /\ n \in Nat
  BY ListFacts DEF ControlBoxes
<1> HIDE DEF f
<1>2. PICK g : PartsRun(first, parts, n, g)
  BY <1>1, PartsRunExists
<1>3. \A k \in 1 .. n : \A s : TakePart(s, parts[k]) = Turn(s, k)
  BY DEF TakePart
<1>4. \A k \in 0 .. n : k # 0 => k \in 1 .. n
  BY <1>1
<1>5. AreBoxes(first, ids)
  BY NoBoxes
<1> HIDE DEF parts, Turn, first
<1>6. g = [k \in 0..n |-> IF k = 0 THEN first ELSE Turn(g[k - 1], k)]
  BY <1>2, <1>3, <1>4 DEF PartsRun
<1>7. f = [k \in 0..n |-> IF k = 0 THEN first ELSE Turn(f[k - 1], k)]
  BY <1>6 DEF f
<1> DEFINE S == {k \in 0 .. n : AreBoxes(f[k], ids)}
<1>8. start \in S
  BY <1>1, <1>5, <1>7
<1>9. ASSUME NEW k \in start .. n - 1, k \in S PROVE k + 1 \in S
  BY <1>1, <1>7, <1>9, ControlAdded DEF Turn
<1> HIDE DEF S
<1>10. start .. n \subseteq S
  BY <1>1, <1>8, <1>9, CountingUp
<1>11. n \in S
  BY <1>1, <1>10
<1> QED
  BY <1>1, <1>11 DEF S

LEMMA FormBoxesAre ==
  ASSUME NEW block, IsBlock(block), NEW node, IsStyling(node), NEW style, IsPageStyle(style), NEW y \in Int, NEW ids,
         \A i \in DOMAIN block.form.controls : block.form.controls[i].id \in ids
  PROVE  AreBoxes(FormBoxes(block, y, style, node), ids)
<1> DEFINE box == BoxOf(block, node, style)
           all == block.form.controls
           seen == {i \in DOMAIN all : all[i].kind /= "Hidden"}
           shown == Picked(all, seen)
           inner == InnerRect(style.x, y, style.width, box)
           boxes == ControlBoxes(shown, block.form.id, inner, style)
           longer == [boxes EXCEPT ![Len(boxes)].after = @ + box.margin.bottom]
<1>1. FormBoxes(block, y, style, node) = IF box.display = "none" \/ boxes = <<>> THEN <<>> ELSE longer
  BY DEF FormBoxes
<1>2. IsBoxStyle(box) /\ style.x \in Int /\ style.width \in Int
  BY SizeIs DEF IsPageStyle
<1> HIDE DEF box
<1>3. inner \in Rects
  BY <1>2, InnerIs
<1> HIDE DEF inner
<1>4. IsList(shown) /\ \A i \in 1 .. Len(shown) : IsControl(shown[i]) /\ shown[i].id \in ids
  <2>1. IsList(all) /\ DOMAIN all = 1 .. Len(all)
    BY VectorIsList DEF IsBlock
  <2>2. \A i \in DOMAIN all : IsControl(all[i]) /\ all[i].id \in ids
    BY DEF IsBlock
  <2>3. seen \in SUBSET DOMAIN all
    OBVIOUS
  <2> HIDE DEF seen, all
  <2>4. IsList(shown) /\ \E places : PicksFrom(all, seen, shown, places)
    BY <2>1, <2>3, PickedList
  <2>5. PICK places : PicksFrom(all, seen, shown, places)
    BY <2>4
  <2> HIDE DEF shown
  <2>6. \A i \in 1 .. Len(shown) : places[i] \in DOMAIN all /\ shown[i] = all[places[i]]
    BY <2>3, <2>5 DEF PicksFrom
  <2> QED
    BY <2>2, <2>4, <2>6
<1> HIDE DEF shown
<1>5. AreBoxes(boxes, ids)
  BY <1>3, <1>4, ControlBoxesAre
<1> HIDE DEF boxes
<1>6. ASSUME boxes # <<>> PROVE AreBoxes(longer, ids)
  <2> DEFINE n == Len(boxes)
  <2>1. n \in Nat /\ DOMAIN boxes = 1 .. n /\ n \in 1 .. n
    BY <1>5, <1>6, ListFacts DEF AreBoxes
  <2> DEFINE last == [boxes[n] EXCEPT !.after = @ + box.margin.bottom]
  <2>2. longer = [i \in 1 .. n |-> longer[i]] /\ \A i \in 1 .. n : longer[i] = IF i = n THEN last ELSE boxes[i]
    BY <2>1
  <2> HIDE DEF longer
  <2>3. IsLaidBox(last, ids)
    <3>1. IsLaidBox(boxes[n], ids)
      BY <1>5, <2>1 DEF AreBoxes
    <3> DEFINE b == boxes[n]
    <3>2. last.rect = b.rect /\ last.border = b.border /\ last.runs = b.runs /\ last.kind = b.kind /\ last.control = b.control
      OBVIOUS
    <3>3. last.after \in Int
      <4>1. last.after = b.after + box.margin.bottom \/ last.after = b.after
        OBVIOUS
      <4>2. box.margin.bottom \in Int /\ b.after \in Int
        BY <1>2, <3>1 DEF IsLaidBox, IsBoxStyle, AreEdges
      <4> HIDE DEF last, b
      <4> QED
        BY <4>1, <4>2
    <3> HIDE DEF last
    <3> QED
      BY <3>1, <3>2, <3>3 DEF IsLaidBox
  <2> HIDE DEF last
  <2>4. IsList(longer) /\ Len(longer) = n
    BY <2>1, <2>2, ListBuilt
  <2> QED
    BY <1>5, <2>2, <2>3, <2>4 DEF AreBoxes
<1> HIDE DEF longer
<1> QED
  BY <1>1, <1>6, NoBoxes

\* The boxes of any block.
LEMMA BlockBoxesAre ==
  ASSUME NEW block, IsBlock(block), NEW node, IsStyling(node), NEW style, IsPageStyle(style), NEW y \in Int,
         NEW viewport, viewport.height \in Int, NEW ids, \A i \in DOMAIN block.form.controls : block.form.controls[i].id \in ids
  PROVE  AreBoxes(BlockBoxes(block, y, style, node, viewport), ids)
BY FormBoxesAre, ImageBoxesAre, InlineBoxesAre, TextBoxesAre DEF BlockBoxes

\* Where the next block goes, and what was placed.
IsStand(at, ids) ==
  /\ DOMAIN at = {"y", "overflow", "clipped", "broken", "boxes"}
  /\ at.y \in Int /\ AreBoxes(at.boxes, ids)

\* Boxes and blocks are placed one by one.
LEMMA BoxPlaced ==
  ASSUME NEW ids, NEW at, IsStand(at, ids), NEW box, IsLaidBox(box, ids), NEW style, IsPageStyle(style), NEW viewport
  PROVE  IsStand(PlaceBox(at, box, style, viewport), ids)
<1> DEFINE y == NoLess(Bottom(box.rect) + box.after + style.gap, at.y)
           overflow == NoLess(Bottom(box.rect) + box.after, at.overflow)
           left == [at EXCEPT !.overflow = overflow, !.clipped = TRUE, !.broken = TRUE]
           more == [at EXCEPT !.overflow = overflow, !.y = y, !.clipped = @ \/ y > viewport.height, !.boxes = Append(@, box)]
<1>1. PlaceBox(at, box, style, viewport) = IF at.broken THEN at ELSE IF box.rect.y > viewport.height THEN left ELSE more
  BY DEF PlaceBox
<1>2. y \in Int
  BY NoLessIs DEF IsLaidBox, Rects, IsPageStyle, Bottom, IsStand
<1> HIDE DEF y, overflow
<1>3. IsStand(left, ids)
  <2>1. DOMAIN left = DOMAIN at /\ left.y = at.y /\ left.boxes = at.boxes
    BY DEF IsStand
  <2> HIDE DEF left
  <2> QED
    BY <2>1 DEF IsStand
<1>4. IsStand(more, ids)
  <2>1. DOMAIN more = DOMAIN at /\ more.y = y /\ more.boxes = Append(at.boxes, box)
    BY DEF IsStand
  <2>2. AreBoxes(Append(at.boxes, box), ids)
    BY BoxAdded DEF IsStand
  <2> HIDE DEF more
  <2> QED
    BY <1>2, <2>1, <2>2 DEF IsStand
<1> HIDE DEF left, more
<1> QED
  BY <1>1, <1>3, <1>4

LEMMA BoxesPlaced ==
  ASSUME NEW ids, NEW at, IsStand(at, ids), NEW boxes, AreBoxes(boxes, ids), NEW style, IsPageStyle(style), NEW viewport
  PROVE  IsStand(PlaceBoxes(at, boxes, style, viewport), ids)
<1> DEFINE n == Len(boxes)
           start == 0
           Turn(s, k) == PlaceBox(s, boxes[k], style, viewport)
           f == CHOOSE g : g = [k \in 0..n |-> IF k = 0 THEN at ELSE Turn(g[k - 1], k)]
           parts == [k \in 1 .. n |-> [what |-> "box", of |-> boxes[k], style |-> style, viewport |-> viewport]]
<1>1. PlaceBoxes(at, boxes, style, viewport) = f[n] /\ n \in Nat
  BY ListFacts DEF PlaceBoxes, AreBoxes
<1> HIDE DEF f
<1>2. PICK g : PartsRun(at, parts, n, g)
  BY <1>1, PartsRunExists
<1>3. \A k \in 1 .. n : \A s : TakePart(s, parts[k]) = Turn(s, k)
  BY DEF TakePart
<1>4. \A k \in 0 .. n : k # 0 => k \in 1 .. n
  BY <1>1
<1> HIDE DEF parts, Turn
<1>6. g = [k \in 0..n |-> IF k = 0 THEN at ELSE Turn(g[k - 1], k)]
  BY <1>2, <1>3, <1>4 DEF PartsRun
<1>7. f = [k \in 0..n |-> IF k = 0 THEN at ELSE Turn(f[k - 1], k)]
  BY <1>6 DEF f
<1> DEFINE S == {k \in 0 .. n : IsStand(f[k], ids)}
<1>8. start \in S
  BY <1>1, <1>7
<1>9. ASSUME NEW k \in start .. n - 1, k \in S PROVE k + 1 \in S
  BY <1>1, <1>7, <1>9, BoxPlaced DEF AreBoxes, Turn
<1> HIDE DEF S
<1>10. start .. n \subseteq S
  BY <1>1, <1>8, <1>9, CountingUp
<1>11. n \in S
  BY <1>1, <1>10
<1> QED
  BY <1>1, <1>11 DEF S

LEMMA BlockPlaced ==
  ASSUME NEW ids, NEW at, IsStand(at, ids), NEW block, IsBlock(block), NEW node, IsStyling(node), NEW style, IsPageStyle(style),
         NEW viewport, viewport.height \in Int, \A i \in DOMAIN block.form.controls : block.form.controls[i].id \in ids
  PROVE  IsStand(PlaceBlock(at, block, node, style, viewport), ids)
<1> DEFINE anew == [at EXCEPT !.broken = FALSE]
<1>1. IsStand(anew, ids)
  <2>1. DOMAIN anew = DOMAIN at /\ anew.y = at.y /\ anew.boxes = at.boxes
    BY DEF IsStand
  <2> HIDE DEF anew
  <2> QED
    BY <2>1 DEF IsStand
<1>2. AreBoxes(BlockBoxes(block, at.y, style, node, viewport), ids)
  BY BlockBoxesAre DEF IsStand
<1>3. IsStand(PlaceBoxes(anew, BlockBoxes(block, at.y, style, node, viewport), style, viewport), ids)
  BY <1>1, <1>2, BoxesPlaced
<1> QED
  BY <1>3 DEF PlaceBlock

LEMMA BlocksPlaced ==
  ASSUME NEW ids, NEW document, IsRenderDocument(document), NEW style, IsPageStyle(style), NEW viewport, viewport.height \in Int,
         \A k \in DOMAIN document.blocks : \A i \in DOMAIN document.blocks[k].form.controls : document.blocks[k].form.controls[i].id \in ids
  PROVE  IsStand(PlaceBlocks(document, style, viewport), ids)
<1> DEFINE blocks == document.blocks
           nodes == document.nodes
           n == Len(blocks)
           start == 0
           first == [y |-> style.y, overflow |-> style.y, clipped |-> FALSE, broken |-> FALSE, boxes |-> <<>>]
           Turn(s, k) == PlaceBlock(s, blocks[k], nodes[k], style, viewport)
           f == CHOOSE g : g = [k \in 0..n |-> IF k = 0 THEN first ELSE Turn(g[k - 1], k)]
           parts == [k \in 1 .. n |-> [what |-> "block", of |-> blocks[k], node |-> nodes[k], style |-> style, viewport |-> viewport]]
<1>1. n \in Nat /\ DOMAIN blocks = 1 .. n
  BY VectorIsList DEF IsRenderDocument
<1>2. PlaceBlocks(document, style, viewport) = f[n]
  BY DEF PlaceBlocks
<1> HIDE DEF f
<1>3. PICK g : PartsRun(first, parts, n, g)
  BY <1>1, PartsRunExists
<1>4. \A k \in 1 .. n : \A s : TakePart(s, parts[k]) = Turn(s, k)
  BY DEF TakePart
<1>5. \A k \in 0 .. n : k # 0 => k \in 1 .. n
  BY <1>1
<1>6. IsStand(first, ids)
  BY NoBoxes DEF IsStand, IsPageStyle
<1> HIDE DEF parts, Turn, first
<1>7. g = [k \in 0..n |-> IF k = 0 THEN first ELSE Turn(g[k - 1], k)]
  BY <1>3, <1>4, <1>5 DEF PartsRun
<1>8. f = [k \in 0..n |-> IF k = 0 THEN first ELSE Turn(f[k - 1], k)]
  BY <1>7 DEF f
<1> DEFINE S == {k \in 0 .. n : IsStand(f[k], ids)}
<1>9. start \in S
  BY <1>1, <1>6, <1>8
<1>10. ASSUME NEW k \in start .. n - 1, k \in S PROVE k + 1 \in S
  <2>1. k + 1 \in 1 .. n /\ k + 1 \in 0 .. n /\ k + 1 # 0 /\ (k + 1) - 1 = k /\ IsStand(f[k], ids)
    BY <1>1, <1>10
  <2>2. f[k + 1] = Turn(f[k], k + 1)
    BY <1>8, <2>1
  <2>3. IsBlock(blocks[k + 1]) /\ IsStyling(nodes[k + 1]) /\ \A i \in DOMAIN blocks[k + 1].form.controls : blocks[k + 1].form.controls[i].id \in ids
    BY <1>1, <2>1 DEF IsRenderDocument
  <2>4. IsStand(Turn(f[k], k + 1), ids)
    BY <2>1, <2>3, BlockPlaced DEF Turn
  <2> QED
    BY <2>1, <2>2, <2>4
<1> HIDE DEF S
<1>11. start .. n \subseteq S
  BY <1>1, <1>9, <1>10, CountingUp
<1>12. n \in S
  BY <1>1, <1>11
<1> QED
  BY <1>2, <1>12 DEF S

\* A layout of a document, with the ids of the controls in it.
IsLayout(layout, ids, viewport) == layout.viewport = viewport /\ AreBoxes(layout.boxes, ids)

\* Every document has a layout, and its controls have their ids there.
LEMMA LayoutIs ==
  ASSUME NEW ids, NEW document, IsRenderDocument(document), NEW viewport, viewport.width \in Int, viewport.height \in Int,
         \A k \in DOMAIN document.blocks : \A i \in DOMAIN document.blocks[k].form.controls : document.blocks[k].form.controls[i].id \in ids
  PROVE  IsLayout(LayoutDocument(document, viewport), ids, viewport)
<1> DEFINE style == ComputeStyle(document.sheet, viewport.width, viewport.height)
           end == PlaceBlocks(document, style, viewport)
<1>1. IsPageStyle(style)
  BY StyleIs DEF IsRenderDocument
<1>2. LayoutDocument(document, viewport)
        = [background |-> style.background, viewport |-> viewport, boxes |-> end.boxes, overflow |-> end.overflow, clipped |-> end.clipped]
  BY DEF LayoutDocument, LayoutIn
<1> HIDE DEF style
<1>3. IsStand(end, ids)
  BY <1>1, BlocksPlaced
<1> HIDE DEF end
<1> QED
  BY <1>2, <1>3 DEF IsStand, IsLayout

-----------------------------------------------------------------------------
(* Lists that correspond                                                   *)

JoinsUp(seqs, flat) ==
  /\ \A i \in 1 .. Len(seqs) : IsList(flat[i])
  /\ flat[1] = seqs[1] /\ \A i \in 2 .. Len(seqs) : flat[i] = flat[i - 1] \o seqs[i]

\* A list of lists joined up, one after the other.
LEMMA JoinsUpExists ==
  ASSUME NEW seqs, IsList(seqs), Len(seqs) >= 1, \A i \in 1 .. Len(seqs) : IsList(seqs[i])
  PROVE  \E flat : JoinsUp(seqs, flat) /\ FlattenSeq(seqs) = flat[Len(seqs)]
<1> DEFINE Of(i) == {seqs[i][j] : j \in 1 .. Len(seqs[i])}
           T == UNION {Of(i) : i \in 1 .. Len(seqs)}
<1>1. ASSUME NEW i \in 1 .. Len(seqs) PROVE seqs[i] \in Seq(T)
  <2>1. PICK U : seqs[i] \in Seq(U)
    BY DEF IsList
  <2>2. Of(i) \subseteq T
    OBVIOUS
  <2>3. seqs[i] \in [1 .. Len(seqs[i]) -> T] /\ Len(seqs[i]) \in Nat
    BY <2>1, <2>2, LenProperties
  <2> QED
    BY SMTT(30), <2>3, SeqDef
<1> HIDE DEF T, Of
<1>2. seqs \in Seq(Seq(T))
  <2>1. PICK U : seqs \in Seq(U)
    BY DEF IsList
  <2>2. seqs \in [1 .. Len(seqs) -> Seq(T)] /\ Len(seqs) \in Nat
    BY <1>1, <2>1, LenProperties
  <2> QED
    BY <2>2, SeqDef
<1>3. seqs # <<>> /\ Len(seqs) \in Nat
  BY ListFacts
<1>4. PICK flat : Joins(T, seqs, flat) /\ FlattenSeq(seqs) = flat[Len(seqs)]
  BY <1>2, <1>3, FlattenFacts
<1> DEFINE n == Len(seqs)
<1>5. flat \in [1 .. n -> Seq(T)] /\ \A i \in 1 .. n : flat[i] = IF i = 1 THEN seqs[i] ELSE flat[i - 1] \o seqs[i]
  BY <1>4 DEF Joins
<1> HIDE DEF n
<1>6. n \in Nat /\ n >= 1
  BY <1>3 DEF n
<1>7. flat[1] = seqs[1] /\ \A i \in 2 .. n : flat[i] = flat[i - 1] \o seqs[i]
  <2>1. 1 \in 1 .. n /\ \A i \in 2 .. n : i \in 1 .. n /\ i # 1
    BY <1>6
  <2> QED
    BY <1>5, <2>1
<1>8. \A i \in 1 .. n : IsList(flat[i])
  BY <1>5 DEF IsList
<1>9. JoinsUp(seqs, flat)
  BY <1>7, <1>8 DEF JoinsUp, n
<1> QED
  BY <1>4, <1>9

\* Lists of lists of the same lengths, joined, have the same things beside each other.
BothAt(seqs, other, one, two, p) ==
  \E i \in 1 .. Len(seqs) : \E j \in 1 .. Len(seqs[i]) : one[p] = seqs[i][j] /\ two[p] = other[i][j]

LEMMA BothJoined ==
  ASSUME NEW seqs, NEW other, NEW m \in 1 .. Len(seqs), NEW one, IsList(one), NEW two, IsList(two), Len(two) = Len(one),
         IsList(seqs[m]), IsList(other[m]), Len(other[m]) = Len(seqs[m]), \A p \in 1 .. Len(one) : BothAt(seqs, other, one, two, p)
  PROVE  /\ Len(two \o other[m]) = Len(one \o seqs[m])
         /\ \A p \in 1 .. Len(one \o seqs[m]) : BothAt(seqs, other, one \o seqs[m], two \o other[m], p)
<1> DEFINE a == Len(one)
           b == Len(seqs[m])
           first == one \o seqs[m]
           second == two \o other[m]
<1>1. a \in Nat /\ b \in Nat
  BY ListFacts
<1>2. Len(first) = a + b /\ \A p \in 1 .. a + b : first[p] = IF p <= a THEN one[p] ELSE seqs[m][p - a]
  BY ConcatList
<1>3. Len(second) = a + b /\ \A p \in 1 .. a + b : second[p] = IF p <= a THEN two[p] ELSE other[m][p - a]
  <2>1. /\ Len(second) = Len(two) + Len(other[m])
        /\ \A p \in 1 .. Len(two) + Len(other[m]) : second[p] = IF p <= Len(two) THEN two[p] ELSE other[m][p - Len(two)]
    BY ConcatList
  <2> HIDE DEF second
  <2> QED
    BY <2>1
<1> HIDE DEF first, second
<1>4. ASSUME NEW p \in 1 .. a + b PROVE BothAt(seqs, other, first, second, p)
  <2>1. CASE p <= a
    BY <1>1, <1>2, <1>3, <2>1 DEF BothAt
  <2>2. CASE p > a
    BY <1>1, <1>2, <1>3, <2>2 DEF BothAt
  <2> QED
    BY <1>1, <2>1, <2>2
<1> QED
  BY <1>2, <1>3, <1>4 DEF first, second

\* What stands beside each other before is beside each other after.
LEMMA ListsCorrespond ==
  ASSUME NEW seqs, IsList(seqs), NEW other, IsList(other), Len(other) = Len(seqs),
         \A i \in 1 .. Len(seqs) : IsList(seqs[i]) /\ IsList(other[i]) /\ Len(other[i]) = Len(seqs[i])
  PROVE  /\ Len(FlattenSeq(other)) = Len(FlattenSeq(seqs))
         /\ \A p \in 1 .. Len(FlattenSeq(seqs)) : BothAt(seqs, other, FlattenSeq(seqs), FlattenSeq(other), p)
<1> DEFINE n == Len(seqs)
<1>1. n \in Nat
  BY ListFacts
<1>2. CASE n = 0
  BY <1>2 DEF FlattenSeq
<1>3. CASE n # 0
  <2> DEFINE start == 1
  <2>1. n >= 1
    BY <1>1, <1>3
  <2>2. PICK one : JoinsUp(seqs, one) /\ FlattenSeq(seqs) = one[n]
    BY <2>1, JoinsUpExists
  <2>3. PICK two : JoinsUp(other, two) /\ FlattenSeq(other) = two[n]
    BY <2>1, JoinsUpExists
  <2>4. /\ \A i \in 1 .. n : IsList(one[i]) /\ IsList(two[i])
        /\ one[1] = seqs[1] /\ two[1] = other[1]
        /\ \A i \in 2 .. n : one[i] = one[i - 1] \o seqs[i] /\ two[i] = two[i - 1] \o other[i]
    BY <2>2, <2>3 DEF JoinsUp
  <2> DEFINE Alike(k) == Len(two[k]) = Len(one[k]) /\ \A p \in 1 .. Len(one[k]) : BothAt(seqs, other, one[k], two[k], p)
             S == {k \in 1 .. n : Alike(k)}
  <2>5. start \in S
    BY <1>1, <2>1, <2>4 DEF BothAt
  <2>6. ASSUME NEW k \in start .. n - 1, k \in S PROVE k + 1 \in S
    <3> DEFINE m == k + 1
    <3>1. k \in 1 .. n /\ m \in 2 .. n /\ m \in 1 .. n /\ m - 1 = k /\ Alike(k)
      BY <1>1, <2>6
    <3>2. one[m] = one[k] \o seqs[m] /\ two[m] = two[k] \o other[m]
      BY <2>4, <3>1
    <3> HIDE DEF m
    <3>3. IsList(one[k]) /\ IsList(two[k]) /\ IsList(seqs[m]) /\ IsList(other[m]) /\ Len(two[k]) = Len(one[k]) /\ Len(other[m]) = Len(seqs[m])
      BY <2>4, <3>1
    <3>4. \A p \in 1 .. Len(one[k]) : BothAt(seqs, other, one[k], two[k], p)
      BY <3>1
    <3>5. Alike(m)
      <4>1. /\ Len(two[k] \o other[m]) = Len(one[k] \o seqs[m])
            /\ \A p \in 1 .. Len(one[k] \o seqs[m]) : BothAt(seqs, other, one[k] \o seqs[m], two[k] \o other[m], p)
        BY <3>1, <3>3, <3>4, BothJoined
      <4> QED
        BY <3>2, <4>1
    <3> QED
      BY <3>1, <3>5 DEF m
  <2>7. start \in Nat /\ n \in start .. n
    BY <1>1, <2>1
  <2> HIDE DEF S, start
  <2>8. start .. n \subseteq S
    BY <1>1, <2>5, <2>6, <2>7, CountingUp
  <2>9. Alike(n)
    BY <2>7, <2>8 DEF S
  <2> QED
    BY <2>2, <2>3, <2>9
<1> QED
  BY <1>2, <1>3

-----------------------------------------------------------------------------
(* The controls of a document                                              *)

IsInteractive(document) == IsRenderDocument(document) /\ ControlsAreApart(document)

ControlLists(document) == [i \in DOMAIN document.blocks |-> ControlsIn(document.blocks[i])]

\* The controls of a document are those of its forms.
LEMMA ListsOfControls ==
  ASSUME NEW document, IsRenderDocument(document)
  PROVE  /\ IsList(ControlLists(document)) /\ Len(ControlLists(document)) = Len(document.blocks)
         /\ DOMAIN document.blocks = 1 .. Len(document.blocks)
         /\ \A i \in 1 .. Len(document.blocks) :
              /\ ControlLists(document)[i] = document.blocks[i].form.controls
              /\ IsList(document.blocks[i].form.controls)
              /\ DOMAIN document.blocks[i].form.controls = 1 .. Len(document.blocks[i].form.controls)
              /\ \A j \in 1 .. Len(document.blocks[i].form.controls) : IsControl(document.blocks[i].form.controls[j])
         /\ ControlsOf(document) = FlattenSeq(ControlLists(document))
<1> DEFINE blocks == document.blocks
           n == Len(blocks)
           lists == ControlLists(document)
<1>1. n \in Nat /\ DOMAIN blocks = 1 .. n
  BY VectorIsList DEF IsRenderDocument
<1>2. lists = [i \in 1 .. n |-> ControlsIn(blocks[i])]
  BY <1>1 DEF ControlLists
<1>3. lists = [i \in 1 .. n |-> lists[i]]
  BY <1>2
<1>4. ASSUME NEW i \in 1 .. n
      PROVE  /\ lists[i] = blocks[i].form.controls /\ IsList(blocks[i].form.controls)
             /\ DOMAIN blocks[i].form.controls = 1 .. Len(blocks[i].form.controls)
             /\ \A j \in 1 .. Len(blocks[i].form.controls) : IsControl(blocks[i].form.controls[j])
  BY <1>1, <1>2, VectorIsList DEF IsRenderDocument, ControlsIn, IsBlock
<1> HIDE DEF lists
<1>5. IsList(lists) /\ Len(lists) = n
  BY <1>1, <1>3, ListBuilt
<1>6. ControlsOf(document) = FlattenSeq(lists)
  BY DEF ControlsOf, ControlLists, lists
<1> QED
  BY <1>1, <1>4, <1>5, <1>6 DEF lists

LEMMA ControlsAre ==
  ASSUME NEW document, IsRenderDocument(document)
  PROVE  /\ IsList(ControlsOf(document)) /\ DOMAIN ControlsOf(document) = 1 .. Len(ControlsOf(document))
         /\ \A p \in 1 .. Len(ControlsOf(document)) : IsControl(ControlsOf(document)[p])
         /\ \A k \in DOMAIN document.blocks : \A i \in DOMAIN document.blocks[k].form.controls :
              \E p \in 1 .. Len(ControlsOf(document)) : ControlsOf(document)[p] = document.blocks[k].form.controls[i]
<1> DEFINE lists == ControlLists(document)
           flat == FlattenSeq(lists)
<1>1. /\ IsList(lists) /\ Len(lists) = Len(document.blocks)
      /\ DOMAIN document.blocks = 1 .. Len(document.blocks)
      /\ \A i \in 1 .. Len(document.blocks) :
           /\ lists[i] = document.blocks[i].form.controls
           /\ IsList(document.blocks[i].form.controls)
           /\ DOMAIN document.blocks[i].form.controls = 1 .. Len(document.blocks[i].form.controls)
           /\ \A j \in 1 .. Len(document.blocks[i].form.controls) : IsControl(document.blocks[i].form.controls[j])
      /\ ControlsOf(document) = flat
  BY ListsOfControls
<1> HIDE DEF lists
<1>2. \A i \in 1 .. Len(lists) : IsList(lists[i])
  BY <1>1
<1>3. /\ IsList(flat)
      /\ \A k \in 1 .. Len(flat) : \E i \in 1 .. Len(lists) : \E j \in 1 .. Len(lists[i]) : flat[k] = lists[i][j]
      /\ \A i \in 1 .. Len(lists) : \A j \in 1 .. Len(lists[i]) : \E k \in 1 .. Len(flat) : flat[k] = lists[i][j]
  BY <1>1, <1>2, FlattenIsFrom
<1> HIDE DEF flat
<1>4. DOMAIN flat = 1 .. Len(flat)
  BY <1>3, ListFacts
<1>5. \A p \in 1 .. Len(flat) : IsControl(flat[p])
  <2> SUFFICES ASSUME NEW p \in 1 .. Len(flat) PROVE IsControl(flat[p])
    OBVIOUS
  <2>1. PICK i \in 1 .. Len(lists) : \E j \in 1 .. Len(lists[i]) : flat[p] = lists[i][j]
    BY <1>3
  <2>2. PICK j \in 1 .. Len(lists[i]) : flat[p] = lists[i][j]
    BY <2>1
  <2>3. lists[i] = document.blocks[i].form.controls /\ IsControl(document.blocks[i].form.controls[j])
    BY <1>1
  <2> QED
    BY <2>2, <2>3
<1>6. ASSUME NEW k \in DOMAIN document.blocks, NEW i \in DOMAIN document.blocks[k].form.controls
      PROVE  \E p \in 1 .. Len(flat) : flat[p] = document.blocks[k].form.controls[i]
  <2>1. k \in 1 .. Len(lists) /\ i \in 1 .. Len(lists[k]) /\ lists[k] = document.blocks[k].form.controls
    BY <1>1
  <2> QED
    BY <1>3, <2>1
<1> QED
  BY <1>1, <1>3, <1>4, <1>5, <1>6

-----------------------------------------------------------------------------
(* Controls that change                                                    *)

\* The control that has the focus, and the control of an id.
LEMMA FocusedIs ==
  ASSUME NEW document, IsInteractive(document)
  PROVE  /\ \A p \in 1 .. Len(ControlsOf(document)) : ControlsOf(document)[p].focused => FocusedControl(document) = ControlsOf(document)[p].id
         /\ (\A p \in 1 .. Len(ControlsOf(document)) : ~ControlsOf(document)[p].focused) => FocusedControl(document) = 0
<1> DEFINE cs == ControlsOf(document)
           n == Len(cs)
           S == {p \in 1 .. n : cs[p].focused}
           at == IF S # {} THEN Min(S) ELSE 0
<1>1. FocusedControl(document) = IF at = 0 THEN 0 ELSE cs[at].id
  BY DEF FocusedControl, SelectInSeq
<1>2. IsList(cs) /\ DOMAIN cs = 1 .. n /\ n \in Nat
  BY ControlsAre, ListFacts DEF IsInteractive
<1>3. \A p, q \in 1 .. n : p # q => ~(cs[p].focused /\ cs[q].focused)
  BY <1>2 DEF IsInteractive, ControlsAreApart
<1> HIDE DEF cs, n
<1>4. S \in SUBSET Nat
  BY <1>2
<1>5. ASSUME NEW p \in 1 .. n, cs[p].focused PROVE at = p
  <2>1. p \in S
    BY <1>5
  <2>2. \A q \in S : q = p
    BY <1>3, <1>5
  <2> HIDE DEF S
  <2>3. Min(S) \in S
    BY <1>4, <2>1, FirstPlace
  <2> QED
    BY <2>1, <2>2, <2>3
<1>6. ASSUME \A p \in 1 .. n : ~cs[p].focused PROVE at = 0
  BY <1>6
<1> HIDE DEF at
<1>7. (\A p \in 1 .. n : cs[p].focused => FocusedControl(document) = cs[p].id)
      /\ ((\A p \in 1 .. n : ~cs[p].focused) => FocusedControl(document) = 0)
  BY <1>1, <1>2, <1>5, <1>6
<1> QED
  BY <1>7 DEF cs, n

LEMMA ByIdIs ==
  ASSUME NEW document, IsInteractive(document), NEW p \in 1 .. Len(ControlsOf(document))
  PROVE  ControlById(document, ControlsOf(document)[p].id) = ControlsOf(document)[p]
<1> DEFINE cs == ControlsOf(document)
           n == Len(cs)
           id == cs[p].id
           S == {q \in 1 .. n : cs[q].id = id}
           at == IF S # {} THEN Min(S) ELSE 0
<1>1. ControlById(document, id) = cs[at]
  BY DEF ControlById, SelectInSeq
<1>2. IsList(cs) /\ DOMAIN cs = 1 .. n /\ n \in Nat
  BY ControlsAre, ListFacts DEF IsInteractive
<1>3. \A r, q \in 1 .. n : r # q => cs[r].id # cs[q].id
  BY <1>2 DEF IsInteractive, ControlsAreApart
<1>4. p \in 1 .. n
  OBVIOUS
<1> HIDE DEF cs, n
<1>5. S \in SUBSET Nat /\ p \in S
  BY <1>2, <1>4
<1>6. \A q \in S : q = p
  BY <1>3, <1>4
<1> HIDE DEF S
<1>7. Min(S) \in S
  BY <1>5, FirstPlace
<1>8. at = p
  BY <1>5, <1>6, <1>7
<1> QED
  BY <1>1, <1>8 DEF cs

\* A block whose controls are others, as many.
BlockChanged(block, other) ==
  /\ DOMAIN other = DOMAIN block /\ DOMAIN other.form = DOMAIN block.form
  /\ other.kind = block.kind /\ other.level = block.level /\ other.text = block.text
  /\ other.link = block.link /\ other.fragments = block.fragments
  /\ IsList(other.form.controls) /\ Len(other.form.controls) = Len(block.form.controls)
  /\ \A j \in 1 .. Len(block.form.controls) : IsControl(other.form.controls[j])

DocumentChanged(document, other) ==
  /\ DOMAIN other = DOMAIN document /\ other.sheet = document.sheet /\ other.nodes = document.nodes
  /\ IsList(other.blocks) /\ Len(other.blocks) = Len(document.blocks)
  /\ \A i \in 1 .. Len(document.blocks) : BlockChanged(document.blocks[i], other.blocks[i])

\* One control of the document and what it has become.
ControlBecomes(document, other, p) ==
  \E i \in 1 .. Len(document.blocks) : \E j \in 1 .. Len(document.blocks[i].form.controls) :
    /\ ControlsOf(document)[p] = document.blocks[i].form.controls[j]
    /\ ControlsOf(other)[p] = other.blocks[i].form.controls[j]

\* Documents that differ in their controls have them in the same places.
LEMMA ControlsChanged ==
  ASSUME NEW document, IsRenderDocument(document), NEW other, DocumentChanged(document, other)
  PROVE  /\ IsRenderDocument(other)
         /\ Len(ControlsOf(other)) = Len(ControlsOf(document))
         /\ \A p \in 1 .. Len(ControlsOf(document)) : ControlBecomes(document, other, p)
<1> DEFINE n == Len(document.blocks)
<1>1. n \in Nat /\ DOMAIN document.blocks = 1 .. n /\ DOMAIN other.blocks = 1 .. n
  BY VectorIsList, ListFacts DEF IsRenderDocument, DocumentChanged
<1>2. IsRenderDocument(other)
  <2>1. ASSUME NEW i \in 1 .. n PROVE IsBlock(other.blocks[i])
    <3>1. IsBlock(document.blocks[i]) /\ BlockChanged(document.blocks[i], other.blocks[i])
      BY <1>1 DEF IsRenderDocument, DocumentChanged
    <3> DEFINE b == document.blocks[i]
               c == other.blocks[i]
    <3>2. IsVector(b.form.controls)
      BY <3>1 DEF IsBlock
    <3>3. Len(b.form.controls) \in Nat /\ DOMAIN c.form.controls = 1 .. Len(b.form.controls) /\ IsVector(c.form.controls)
      BY <3>1, <3>2, VectorIsList, ListFacts, ListIsVector DEF BlockChanged
    <3>4. b.form.controls = <<>> => c.form.controls = <<>>
      <4>1. Len(<<>>) = 0
        OBVIOUS
      <4> HIDE DEF b, c
      <4> QED
        BY <3>1, <3>3, <4>1, ListFacts DEF BlockChanged, b, c
    <3> QED
      BY <3>1, <3>3, <3>4 DEF IsBlock, BlockChanged
  <2>2. IsVector(other.blocks)
    BY ListIsVector DEF DocumentChanged
  <2> QED
    BY <1>1, <2>1, <2>2 DEF IsRenderDocument, DocumentChanged
<1> DEFINE seqs == ControlLists(document)
           turned == ControlLists(other)
<1>3. /\ IsList(seqs) /\ Len(seqs) = n /\ ControlsOf(document) = FlattenSeq(seqs)
      /\ \A i \in 1 .. n : seqs[i] = document.blocks[i].form.controls /\ IsList(seqs[i])
  BY ListsOfControls
<1>4. /\ IsList(turned) /\ Len(turned) = n /\ ControlsOf(other) = FlattenSeq(turned)
      /\ \A i \in 1 .. n : turned[i] = other.blocks[i].form.controls /\ IsList(turned[i])
  BY <1>2, ListsOfControls DEF DocumentChanged
<1>5. \A i \in 1 .. n : Len(turned[i]) = Len(seqs[i])
  BY <1>3, <1>4 DEF DocumentChanged, BlockChanged
<1> HIDE DEF seqs, turned
<1>6. /\ Len(FlattenSeq(turned)) = Len(FlattenSeq(seqs))
      /\ \A p \in 1 .. Len(FlattenSeq(seqs)) : BothAt(seqs, turned, FlattenSeq(seqs), FlattenSeq(turned), p)
  BY <1>3, <1>4, <1>5, ListsCorrespond
<1>7. ASSUME NEW p \in 1 .. Len(ControlsOf(document)) PROVE ControlBecomes(document, other, p)
  <2>1. PICK i \in 1 .. Len(seqs) : \E j \in 1 .. Len(seqs[i]) : FlattenSeq(seqs)[p] = seqs[i][j] /\ FlattenSeq(turned)[p] = turned[i][j]
    BY <1>3, <1>6 DEF BothAt
  <2>2. PICK j \in 1 .. Len(seqs[i]) : FlattenSeq(seqs)[p] = seqs[i][j] /\ FlattenSeq(turned)[p] = turned[i][j]
    BY <2>1
  <2>3. i \in 1 .. n /\ seqs[i] = document.blocks[i].form.controls /\ turned[i] = other.blocks[i].form.controls
    BY <1>3, <1>4
  <2> QED
    BY <1>3, <1>4, <2>2, <2>3 DEF ControlBecomes
<1> QED
  BY <1>2, <1>3, <1>4, <1>6, <1>7

-----------------------------------------------------------------------------
(* The focus and the keys                                                  *)

Refocused(control, id) == [control EXCEPT !.focused = control.id = id /\ MayFocus(control)]

\* A control with or without the focus.
LEMMA ControlRefocused ==
  ASSUME NEW control, IsControl(control), NEW id
  PROVE  /\ IsControl(Refocused(control, id))
         /\ Refocused(control, id).id = control.id /\ Refocused(control, id).kind = control.kind
         /\ Refocused(control, id).disabled = control.disabled /\ Refocused(control, id).value = control.value
         /\ Refocused(control, id).focused <=> control.id = id /\ MayFocus(control)
<1> DEFINE c == Refocused(control, id)
           holds == control.id = id /\ MayFocus(control)
<1>1. holds \in BOOLEAN
  OBVIOUS
<1>2. c = [control EXCEPT !.focused = holds]
  BY DEF Refocused
<1> HIDE DEF holds, c
<1>3. /\ DOMAIN c = DOMAIN control /\ c.focused = holds
      /\ c.id = control.id /\ c.kind = control.kind /\ c.name = control.name /\ c.value = control.value
      /\ c.placeholder = control.placeholder /\ c.label = control.label /\ c.disabled = control.disabled
  BY <1>2 DEF IsControl
<1>4. IsControl(c)
  BY <1>1, <1>3 DEF IsControl
<1> QED
  BY <1>3, <1>4 DEF c, holds

\* A block with other controls.
LEMMA BlockWith ==
  ASSUME NEW block, IsBlock(block), NEW controls, IsList(controls), Len(controls) = Len(block.form.controls),
         \A j \in 1 .. Len(block.form.controls) : IsControl(controls[j])
  PROVE  /\ BlockChanged(block, [block EXCEPT !.form.controls = controls])
         /\ [block EXCEPT !.form.controls = controls].form.controls = controls
<1> DEFINE c == [block EXCEPT !.form.controls = controls]
<1>1. /\ DOMAIN c = DOMAIN block /\ c.kind = block.kind /\ c.level = block.level /\ c.text = block.text
      /\ c.link = block.link /\ c.fragments = block.fragments
  OBVIOUS
<1>2. c.form = [block.form EXCEPT !.controls = controls]
  BY DEF IsBlock
<1>3. DOMAIN c.form = DOMAIN block.form /\ c.form.controls = controls
  BY <1>2 DEF IsBlock
<1> HIDE DEF c
<1>4. BlockChanged(block, c) /\ c.form.controls = controls
  BY <1>1, <1>3 DEF BlockChanged
<1> QED
  BY <1>4 DEF c

LEMMA BlockItself ==
  ASSUME NEW block, IsBlock(block)
  PROVE  BlockChanged(block, block)
<1>1. IsVector(block.form.controls)
  BY DEF IsBlock
<1>2. IsList(block.form.controls) /\ DOMAIN block.form.controls = 1 .. Len(block.form.controls)
  BY <1>1, VectorIsList
<1> QED
  BY <1>2 DEF BlockChanged, IsBlock

LEMMA BlockTurned ==
  ASSUME NEW block, IsBlock(block), NEW controls, controls = [j \in DOMAIN block.form.controls |-> controls[j]],
         \A j \in DOMAIN block.form.controls : IsControl(controls[j])
  PROVE  /\ block.kind = "Form" => /\ BlockChanged(block, [block EXCEPT !.form.controls = controls])
                                  /\ [block EXCEPT !.form.controls = controls].form.controls = controls
         /\ block.kind # "Form" => BlockChanged(block, block) /\ Len(block.form.controls) = 0
         /\ DOMAIN block.form.controls = 1 .. Len(block.form.controls)
<1> DEFINE m == Len(block.form.controls)
<1>1. m \in Nat /\ DOMAIN block.form.controls = 1 .. m
  BY VectorIsList DEF IsBlock
<1>2. IsList(controls) /\ Len(controls) = m
  BY <1>1, ListBuilt
<1>3. block.kind # "Form" => m = 0
  BY DEF IsBlock
<1> QED
  BY <1>1, <1>2, <1>3, BlockWith, BlockItself

\* What a document becomes whose controls are each replaced.
LEMMA DocumentWith ==
  ASSUME NEW document, IsRenderDocument(document), NEW other, NEW blocks,
         DOMAIN other = DOMAIN document, other.sheet = document.sheet, other.nodes = document.nodes, other.blocks = blocks,
         blocks = [i \in 1 .. Len(document.blocks) |-> blocks[i]],
         \A i \in 1 .. Len(document.blocks) : BlockChanged(document.blocks[i], blocks[i])
  PROVE  DocumentChanged(document, other)
<1>2. Len(document.blocks) \in Nat
  BY VectorIsList DEF IsRenderDocument
<1>3. IsList(blocks) /\ Len(blocks) = Len(document.blocks)
  BY <1>2, ListBuilt
<1> QED
  BY <1>3 DEF DocumentChanged

RefocusedTo(document, other, id) ==
  /\ IsRenderDocument(other) /\ Len(ControlsOf(other)) = Len(ControlsOf(document))
  /\ \A p \in 1 .. Len(ControlsOf(document)) : ControlsOf(other)[p] = Refocused(ControlsOf(document)[p], id)

\* FocusFormControl turns every control.
LEMMA FocusMoves ==
  ASSUME NEW document, IsRenderDocument(document), NEW id
  PROVE  RefocusedTo(document, FocusFormControl(document, id), id)
<1> DEFINE other == FocusFormControl(document, id)
           n == Len(document.blocks)
           turned(c) == [c EXCEPT !.focused = c.id = id /\ MayFocus(c)]
           blocks == [i \in DOMAIN document.blocks |->
                        IF document.blocks[i].kind = "Form"
                        THEN [document.blocks[i] EXCEPT !.form.controls = [k \in DOMAIN @ |-> turned(@[k])]]
                        ELSE document.blocks[i]]
<1>1. n \in Nat /\ DOMAIN document.blocks = 1 .. n
  BY VectorIsList DEF IsRenderDocument
<1>2. other = [document EXCEPT !.blocks = blocks]
  BY DEF FocusFormControl, WithControls
<1>3. ASSUME NEW i \in 1 .. n
      PROVE  /\ BlockChanged(document.blocks[i], blocks[i])
             /\ \A j \in 1 .. Len(document.blocks[i].form.controls) :
                  blocks[i].form.controls[j] = Refocused(document.blocks[i].form.controls[j], id)
  <2> DEFINE block == document.blocks[i]
             controls == [k \in DOMAIN block.form.controls |-> turned(block.form.controls[k])]
  <2>1. IsBlock(block) /\ \A j \in DOMAIN block.form.controls : IsControl(block.form.controls[j])
    BY <1>1 DEF IsRenderDocument, IsBlock
  <2>2. blocks[i] = IF block.kind = "Form" THEN [block EXCEPT !.form.controls = controls] ELSE block
    BY <1>1
  <2>3. controls = [j \in DOMAIN block.form.controls |-> controls[j]]
        /\ \A j \in DOMAIN block.form.controls : controls[j] = Refocused(block.form.controls[j], id)
    BY DEF Refocused
  <2> HIDE DEF block, controls
  <2>4. \A j \in DOMAIN block.form.controls : IsControl(controls[j])
    <3> SUFFICES ASSUME NEW j \in DOMAIN block.form.controls PROVE IsControl(controls[j])
      OBVIOUS
    <3>1. IsControl(block.form.controls[j]) /\ controls[j] = Refocused(block.form.controls[j], id)
      BY <2>1, <2>3
    <3> QED
      BY <3>1, ControlRefocused
  <2>5. /\ block.kind = "Form" => /\ BlockChanged(block, [block EXCEPT !.form.controls = controls])
                                  /\ [block EXCEPT !.form.controls = controls].form.controls = controls
        /\ block.kind # "Form" => BlockChanged(block, block) /\ Len(block.form.controls) = 0
        /\ DOMAIN block.form.controls = 1 .. Len(block.form.controls)
    BY <2>1, <2>3, <2>4, BlockTurned
  <2> DEFINE m == Len(block.form.controls)
  <2>6. block.kind # "Form" => \A j \in 1 .. m : FALSE
    BY <2>5
  <2> HIDE DEF blocks
  <2>7. BlockChanged(block, blocks[i]) /\ \A j \in 1 .. m : blocks[i].form.controls[j] = Refocused(block.form.controls[j], id)
    BY <2>2, <2>3, <2>5, <2>6
  <2> QED
    BY <2>7 DEF block
<1>4. blocks = [i \in 1 .. n |-> blocks[i]]
  BY <1>1
<1> HIDE DEF blocks, other
<1>5. DocumentChanged(document, other) /\ other.blocks = blocks
  BY <1>2, <1>3, <1>4, DocumentWith DEF IsRenderDocument
<1>6. /\ IsRenderDocument(other) /\ Len(ControlsOf(other)) = Len(ControlsOf(document))
      /\ \A p \in 1 .. Len(ControlsOf(document)) : ControlBecomes(document, other, p)
  BY <1>5, ControlsChanged
<1>7. ASSUME NEW p \in 1 .. Len(ControlsOf(document)) PROVE ControlsOf(other)[p] = Refocused(ControlsOf(document)[p], id)
  BY <1>3, <1>5, <1>6 DEF ControlBecomes
<1>8. RefocusedTo(document, other, id)
  BY <1>6, <1>7 DEF RefocusedTo
<1> QED
  BY <1>8 DEF other

\* What a key does to the control that has the focus.
Keyed(control, id, value) == IF control.id = id /\ MayFocus(control) THEN [control EXCEPT !.value = value] ELSE control

LEMMA ControlKeyed ==
  ASSUME NEW control, IsControl(control), NEW id, NEW value, IsList(value)
  PROVE  /\ IsControl(Keyed(control, id, value))
         /\ Keyed(control, id, value).id = control.id /\ Keyed(control, id, value).kind = control.kind
         /\ Keyed(control, id, value).disabled = control.disabled /\ Keyed(control, id, value).focused = control.focused
<1> DEFINE c == [control EXCEPT !.value = value]
<1>1. /\ DOMAIN c = DOMAIN control /\ c.value = value /\ c.focused = control.focused
      /\ c.id = control.id /\ c.kind = control.kind /\ c.name = control.name
      /\ c.placeholder = control.placeholder /\ c.label = control.label /\ c.disabled = control.disabled
  BY DEF IsControl
<1> HIDE DEF c
<1>2. IsControl(c)
  BY <1>1, ListIsVector DEF IsControl
<1> QED
  BY <1>1, <1>2 DEF Keyed, c

\* What a key makes of a value.
LEMMA ValuesKeyed ==
  ASSUME NEW control, IsControl(control), NEW char
  PROVE  /\ IsList(IF char = "newline" /\ control.kind /= "TextArea" THEN control.value ELSE Append(control.value, char))
         /\ IsList(IF control.value = <<>> THEN control.value ELSE Front(control.value))
<1>1. IsList(control.value) /\ Len(control.value) \in Nat /\ (control.value # <<>> <=> Len(control.value) > 0)
  BY VectorIsList, ListFacts DEF IsControl
<1>2. IsList(Append(control.value, char))
  BY <1>1, AppendList
<1>3. ASSUME control.value # <<>> PROVE IsList(Front(control.value))
  BY <1>1, <1>3, SubList DEF Front
<1> QED
  BY <1>1, <1>2, <1>3

\* Only the value of a control changes.
SameControl(control, other) ==
  /\ IsControl(other)
  /\ other.id = control.id /\ other.kind = control.kind /\ other.disabled = control.disabled /\ other.focused = control.focused
SameControls(document, other) ==
  /\ IsRenderDocument(other) /\ Len(ControlsOf(other)) = Len(ControlsOf(document))
  /\ \A p \in 1 .. Len(ControlsOf(document)) : SameControl(ControlsOf(document)[p], ControlsOf(other)[p])

-----------------------------------------------------------------------------
(* Documents that are worked with                                          *)

\* A key changes values and nothing else.
LEMMA CharIsTyped ==
  ASSUME NEW document, IsRenderDocument(document), NEW char
  PROVE  SameControls(document, TypeChar(document, char))
<1> DEFINE other == TypeChar(document, char)
           n == Len(document.blocks)
           id == FocusedControl(document)
           value(c) == IF char = "newline" /\ c.kind /= "TextArea" THEN c.value ELSE Append(c.value, char)
           turned(c) == IF c.id = id /\ MayFocus(c) THEN [c EXCEPT !.value = value(c)] ELSE c
           blocks == [i \in DOMAIN document.blocks |->
                        IF document.blocks[i].kind = "Form"
                        THEN [document.blocks[i] EXCEPT !.form.controls = [k \in DOMAIN @ |-> turned(@[k])]]
                        ELSE document.blocks[i]]
<1>1. n \in Nat /\ DOMAIN document.blocks = 1 .. n
  BY VectorIsList DEF IsRenderDocument
<1>2. other = [document EXCEPT !.blocks = blocks]
  BY DEF TypeChar, EditFocused, WithControls
<1> HIDE DEF id
<1>3. ASSUME NEW i \in 1 .. n
      PROVE  /\ BlockChanged(document.blocks[i], blocks[i])
             /\ \A j \in 1 .. Len(document.blocks[i].form.controls) :
                  SameControl(document.blocks[i].form.controls[j], blocks[i].form.controls[j])
  <2> DEFINE block == document.blocks[i]
             controls == [k \in DOMAIN block.form.controls |-> turned(block.form.controls[k])]
  <2>1. IsBlock(block) /\ \A j \in DOMAIN block.form.controls : IsControl(block.form.controls[j])
    BY <1>1 DEF IsRenderDocument, IsBlock
  <2>2. blocks[i] = IF block.kind = "Form" THEN [block EXCEPT !.form.controls = controls] ELSE block
    BY <1>1
  <2>3. controls = [j \in DOMAIN block.form.controls |-> controls[j]]
        /\ \A j \in DOMAIN block.form.controls : controls[j] = Keyed(block.form.controls[j], id, value(block.form.controls[j]))
    BY DEF Keyed
  <2> HIDE DEF block, controls
  <2>4. \A j \in DOMAIN block.form.controls : IsControl(controls[j]) /\ SameControl(block.form.controls[j], controls[j])
    <3> SUFFICES ASSUME NEW j \in DOMAIN block.form.controls PROVE IsControl(controls[j]) /\ SameControl(block.form.controls[j], controls[j])
      OBVIOUS
    <3> DEFINE c == block.form.controls[j]
               v == value(c)
    <3>1. IsControl(c) /\ controls[j] = Keyed(c, id, v)
      BY <2>1, <2>3
    <3>2. IsList(v)
      BY <3>1, ValuesKeyed
    <3> HIDE DEF v, c
    <3> QED
      BY <3>1, <3>2, ControlKeyed DEF SameControl, c
  <2>5. /\ block.kind = "Form" => /\ BlockChanged(block, [block EXCEPT !.form.controls = controls])
                                  /\ [block EXCEPT !.form.controls = controls].form.controls = controls
        /\ block.kind # "Form" => BlockChanged(block, block) /\ Len(block.form.controls) = 0
        /\ DOMAIN block.form.controls = 1 .. Len(block.form.controls)
    BY <2>1, <2>3, <2>4, BlockTurned
  <2> DEFINE m == Len(block.form.controls)
  <2>6. block.kind # "Form" => \A j \in 1 .. m : FALSE
    BY <2>5
  <2> HIDE DEF blocks
  <2>7. BlockChanged(block, blocks[i]) /\ \A j \in 1 .. m : SameControl(block.form.controls[j], blocks[i].form.controls[j])
    BY <2>2, <2>4, <2>5, <2>6
  <2> QED
    BY <2>7 DEF block
<1>4. blocks = [i \in 1 .. n |-> blocks[i]]
  BY <1>1
<1> HIDE DEF blocks, other
<1>5. DocumentChanged(document, other) /\ other.blocks = blocks
  BY <1>2, <1>3, <1>4, DocumentWith DEF IsRenderDocument
<1>6. /\ IsRenderDocument(other) /\ Len(ControlsOf(other)) = Len(ControlsOf(document))
      /\ \A p \in 1 .. Len(ControlsOf(document)) : ControlBecomes(document, other, p)
  BY <1>5, ControlsChanged
<1>7. ASSUME NEW p \in 1 .. Len(ControlsOf(document)) PROVE SameControl(ControlsOf(document)[p], ControlsOf(other)[p])
  BY <1>3, <1>5, <1>6 DEF ControlBecomes
<1>8. SameControls(document, other)
  BY <1>6, <1>7 DEF SameControls
<1> QED
  BY <1>8 DEF other

LEMMA BackspaceIsTyped ==
  ASSUME NEW document, IsRenderDocument(document)
  PROVE  SameControls(document, TypeBackspace(document))
<1> DEFINE other == TypeBackspace(document)
           n == Len(document.blocks)
           id == FocusedControl(document)
           value(c) == IF c.value = <<>> THEN c.value ELSE Front(c.value)
           turned(c) == IF c.id = id /\ MayFocus(c) THEN [c EXCEPT !.value = value(c)] ELSE c
           blocks == [i \in DOMAIN document.blocks |->
                        IF document.blocks[i].kind = "Form"
                        THEN [document.blocks[i] EXCEPT !.form.controls = [k \in DOMAIN @ |-> turned(@[k])]]
                        ELSE document.blocks[i]]
<1>1. n \in Nat /\ DOMAIN document.blocks = 1 .. n
  BY VectorIsList DEF IsRenderDocument
<1>2. other = [document EXCEPT !.blocks = blocks]
  BY DEF TypeBackspace, EditFocused, WithControls
<1> HIDE DEF id
<1>3. ASSUME NEW i \in 1 .. n
      PROVE  /\ BlockChanged(document.blocks[i], blocks[i])
             /\ \A j \in 1 .. Len(document.blocks[i].form.controls) :
                  SameControl(document.blocks[i].form.controls[j], blocks[i].form.controls[j])
  <2> DEFINE block == document.blocks[i]
             controls == [k \in DOMAIN block.form.controls |-> turned(block.form.controls[k])]
  <2>1. IsBlock(block) /\ \A j \in DOMAIN block.form.controls : IsControl(block.form.controls[j])
    BY <1>1 DEF IsRenderDocument, IsBlock
  <2>2. blocks[i] = IF block.kind = "Form" THEN [block EXCEPT !.form.controls = controls] ELSE block
    BY <1>1
  <2>3. controls = [j \in DOMAIN block.form.controls |-> controls[j]]
        /\ \A j \in DOMAIN block.form.controls : controls[j] = Keyed(block.form.controls[j], id, value(block.form.controls[j]))
    BY DEF Keyed
  <2> HIDE DEF block, controls
  <2>4. \A j \in DOMAIN block.form.controls : IsControl(controls[j]) /\ SameControl(block.form.controls[j], controls[j])
    <3> SUFFICES ASSUME NEW j \in DOMAIN block.form.controls PROVE IsControl(controls[j]) /\ SameControl(block.form.controls[j], controls[j])
      OBVIOUS
    <3> DEFINE c == block.form.controls[j]
               v == value(c)
    <3>1. IsControl(c) /\ controls[j] = Keyed(c, id, v)
      BY <2>1, <2>3
    <3>2. IsList(v)
      BY <3>1, ValuesKeyed
    <3> HIDE DEF v, c
    <3> QED
      BY <3>1, <3>2, ControlKeyed DEF SameControl, c
  <2>5. /\ block.kind = "Form" => /\ BlockChanged(block, [block EXCEPT !.form.controls = controls])
                                  /\ [block EXCEPT !.form.controls = controls].form.controls = controls
        /\ block.kind # "Form" => BlockChanged(block, block) /\ Len(block.form.controls) = 0
        /\ DOMAIN block.form.controls = 1 .. Len(block.form.controls)
    BY <2>1, <2>3, <2>4, BlockTurned
  <2> DEFINE m == Len(block.form.controls)
  <2>6. block.kind # "Form" => \A j \in 1 .. m : FALSE
    BY <2>5
  <2> HIDE DEF blocks
  <2>7. BlockChanged(block, blocks[i]) /\ \A j \in 1 .. m : SameControl(block.form.controls[j], blocks[i].form.controls[j])
    BY <2>2, <2>4, <2>5, <2>6
  <2> QED
    BY <2>7 DEF block
<1>4. blocks = [i \in 1 .. n |-> blocks[i]]
  BY <1>1
<1> HIDE DEF blocks, other
<1>5. DocumentChanged(document, other) /\ other.blocks = blocks
  BY <1>2, <1>3, <1>4, DocumentWith DEF IsRenderDocument
<1>6. /\ IsRenderDocument(other) /\ Len(ControlsOf(other)) = Len(ControlsOf(document))
      /\ \A p \in 1 .. Len(ControlsOf(document)) : ControlBecomes(document, other, p)
  BY <1>5, ControlsChanged
<1>7. ASSUME NEW p \in 1 .. Len(ControlsOf(document)) PROVE SameControl(ControlsOf(document)[p], ControlsOf(other)[p])
  BY <1>3, <1>5, <1>6 DEF ControlBecomes
<1>8. SameControls(document, other)
  BY <1>6, <1>7 DEF SameControls
<1> QED
  BY <1>8 DEF other

\* The ids of the controls are apart and at most one control has the focus, and may have it.
ApartMeans(document) ==
  LET cs == ControlsOf(document) IN
  /\ \A p \in 1 .. Len(cs) : cs[p].id \in Nat \ {0} /\ (cs[p].focused => MayFocus(cs[p]))
  /\ \A p, q \in 1 .. Len(cs) : p # q => cs[p].id # cs[q].id /\ ~(cs[p].focused /\ cs[q].focused)

LEMMA InteractiveMeans ==
  ASSUME NEW document, IsRenderDocument(document)
  PROVE  IsInteractive(document) <=> ApartMeans(document)
<1> DEFINE cs == ControlsOf(document)
<1>1. DOMAIN cs = 1 .. Len(cs)
  BY ControlsAre
<1>2. ControlsAreApart(document) <=>
        /\ \A i \in DOMAIN cs : cs[i].id \in Nat \ {0} /\ (cs[i].focused => MayFocus(cs[i]))
        /\ \A i, j \in DOMAIN cs : i /= j => cs[i].id /= cs[j].id /\ ~(cs[i].focused /\ cs[j].focused)
  BY DEF ControlsAreApart
<1> QED
  BY <1>1, <1>2 DEF IsInteractive, ApartMeans

\* Documents stay what they are with other values, and with another focus.
LEMMA SameIsInteractive ==
  ASSUME NEW document, IsInteractive(document), NEW other, SameControls(document, other)
  PROVE  IsInteractive(other) /\ FocusedControl(other) = FocusedControl(document)
<1> DEFINE cs == ControlsOf(document)
           ds == ControlsOf(other)
           n == Len(cs)
<1>1. IsRenderDocument(document) /\ IsRenderDocument(other) /\ Len(ds) = n /\ ApartMeans(document)
  BY InteractiveMeans DEF SameControls, IsInteractive
<1>2. /\ \A p \in 1 .. n : cs[p].id \in Nat \ {0} /\ (cs[p].focused => MayFocus(cs[p]))
      /\ \A p, q \in 1 .. n : p # q => cs[p].id # cs[q].id /\ ~(cs[p].focused /\ cs[q].focused)
  BY <1>1 DEF ApartMeans
<1>3. \A p \in 1 .. n : ds[p].id = cs[p].id /\ (MayFocus(ds[p]) <=> MayFocus(cs[p])) /\ ds[p].focused = cs[p].focused
  BY DEF SameControls, SameControl, MayFocus
<1>4. /\ \A p \in 1 .. n : ds[p].id \in Nat \ {0} /\ (ds[p].focused => MayFocus(ds[p]))
      /\ \A p, q \in 1 .. n : p # q => ds[p].id # ds[q].id /\ ~(ds[p].focused /\ ds[q].focused)
  BY <1>2, <1>3
<1>5. IsInteractive(other)
  BY <1>1, <1>4, InteractiveMeans DEF ApartMeans
<1>6. (\A p \in 1 .. n : cs[p].focused => FocusedControl(document) = cs[p].id)
      /\ ((\A p \in 1 .. n : ~cs[p].focused) => FocusedControl(document) = 0)
  BY FocusedIs
<1>7. (\A p \in 1 .. n : ds[p].focused => FocusedControl(other) = ds[p].id)
      /\ ((\A p \in 1 .. n : ~ds[p].focused) => FocusedControl(other) = 0)
  BY <1>1, <1>5, FocusedIs
<1> HIDE DEF cs, ds, n
<1> QED
  BY <1>3, <1>5, <1>6, <1>7

LEMMA RefocusedIsInteractive ==
  ASSUME NEW document, IsInteractive(document), NEW id, NEW other, RefocusedTo(document, other, id)
  PROVE  /\ IsInteractive(other)
         /\ FocusedControl(other) # 0 => FocusedControl(other) = id
         /\ \A p \in 1 .. Len(ControlsOf(document)) : ControlsOf(document)[p].id = id =>
              /\ MayFocus(ControlsOf(document)[p]) => FocusedControl(other) = id
              /\ ~MayFocus(ControlsOf(document)[p]) => FocusedControl(other) = 0 /\ ~MayFocus(ControlById(other, id))
<1> DEFINE cs == ControlsOf(document)
           ds == ControlsOf(other)
           n == Len(cs)
<1>1. IsRenderDocument(document) /\ IsRenderDocument(other) /\ Len(ds) = n /\ ApartMeans(document)
  BY InteractiveMeans DEF RefocusedTo, IsInteractive
<1>2. /\ \A p \in 1 .. n : cs[p].id \in Nat \ {0}
      /\ \A p, q \in 1 .. n : p # q => cs[p].id # cs[q].id
      /\ \A p \in 1 .. n : IsControl(cs[p])
  BY <1>1, ControlsAre DEF ApartMeans
<1>3. \A p \in 1 .. n : ds[p].id = cs[p].id /\ (MayFocus(ds[p]) <=> MayFocus(cs[p])) /\ (ds[p].focused <=> cs[p].id = id /\ MayFocus(cs[p]))
  <2> SUFFICES ASSUME NEW p \in 1 .. n
               PROVE  ds[p].id = cs[p].id /\ (MayFocus(ds[p]) <=> MayFocus(cs[p])) /\ (ds[p].focused <=> cs[p].id = id /\ MayFocus(cs[p]))
    OBVIOUS
  <2>1. ds[p] = Refocused(cs[p], id) /\ IsControl(cs[p])
    BY <1>2 DEF RefocusedTo
  <2> HIDE DEF cs, ds
  <2>2. /\ ds[p].id = cs[p].id /\ ds[p].kind = cs[p].kind /\ ds[p].disabled = cs[p].disabled
        /\ (ds[p].focused <=> cs[p].id = id /\ MayFocus(cs[p]))
    BY <2>1, ControlRefocused
  <2> QED
    BY <2>2 DEF MayFocus
<1>4. /\ \A p \in 1 .. n : ds[p].id \in Nat \ {0} /\ (ds[p].focused => MayFocus(ds[p]))
      /\ \A p, q \in 1 .. n : p # q => ds[p].id # ds[q].id /\ ~(ds[p].focused /\ ds[q].focused)
  BY <1>2, <1>3
<1>5. IsInteractive(other)
  BY <1>1, <1>4, InteractiveMeans DEF ApartMeans
<1>6. (\A p \in 1 .. n : ds[p].focused => FocusedControl(other) = ds[p].id)
      /\ ((\A p \in 1 .. n : ~ds[p].focused) => FocusedControl(other) = 0)
  BY <1>1, <1>5, FocusedIs
<1>7. \A p \in 1 .. n : ControlById(other, ds[p].id) = ds[p]
  BY <1>1, <1>5, ByIdIs
<1> HIDE DEF cs, ds, n
<1>8. FocusedControl(other) # 0 => FocusedControl(other) = id
  BY <1>3, <1>6
<1>9. ASSUME NEW p \in 1 .. n, cs[p].id = id
      PROVE  /\ MayFocus(cs[p]) => FocusedControl(other) = id
             /\ ~MayFocus(cs[p]) => FocusedControl(other) = 0 /\ ~MayFocus(ControlById(other, id))
  BY <1>2, <1>3, <1>6, <1>7, <1>9
<1> QED
  BY <1>5, <1>8, <1>9 DEF cs, n

-----------------------------------------------------------------------------
(* The DOM beside the document                                             *)

IsNode(node) == DOMAIN node = {"kind", "parent", "text", "link", "control"}
AreNodes(nodes) == IsList(nodes) /\ \A n \in 1 .. Len(nodes) : IsNode(nodes[n])
IsDom(runtime) == DOMAIN runtime = {"nodes", "focus", "dirty"} /\ AreNodes(runtime.nodes)

\* The nodes of one DOM are for the controls and the links the nodes of the other are for.
SameNodes(runtime, other) ==
  /\ IsDom(other) /\ Len(other.nodes) = Len(runtime.nodes)
  /\ \A n \in 1 .. Len(runtime.nodes) :
       other.nodes[n].control = runtime.nodes[n].control /\ other.nodes[n].kind = runtime.nodes[n].kind /\ other.nodes[n].link = runtime.nodes[n].link

\* Nodes are found in the same places.
LEMMA SameNodesFound ==
  ASSUME NEW runtime, IsDom(runtime), NEW other, SameNodes(runtime, other), NEW control
  PROVE  NodeForControl(other, control) = NodeForControl(runtime, control)
<1> DEFINE S == {n \in 1 .. Len(runtime.nodes) : runtime.nodes[n].control = control}
           T == {n \in 1 .. Len(other.nodes) : other.nodes[n].control = control}
<1>1. NodeForControl(runtime, control) = IF S # {} THEN Min(S) ELSE 0
  BY DEF NodeForControl, SelectInSeq
<1>2. NodeForControl(other, control) = IF T # {} THEN Min(T) ELSE 0
  BY DEF NodeForControl, SelectInSeq
<1>3. S = T
  BY DEF SameNodes
<1> HIDE DEF S, T
<1> QED
  BY <1>1, <1>2, <1>3

LEMMA NodeFound ==
  ASSUME NEW runtime, IsDom(runtime), NEW control
  PROVE  /\ NodeForControl(runtime, control) \in 0 .. Len(runtime.nodes)
         /\ NodeForControl(runtime, control) # 0 =>
              NodeForControl(runtime, control) \in 1 .. Len(runtime.nodes) /\ runtime.nodes[NodeForControl(runtime, control)].control = control
         /\ NodeForControl(runtime, control) = 0 => \A n \in 1 .. Len(runtime.nodes) : runtime.nodes[n].control # control
<1> DEFINE at == NodeForControl(runtime, control)
           S == {n \in 1 .. Len(runtime.nodes) : runtime.nodes[n].control = control}
<1>1. IsFirst(at, runtime.nodes, S) /\ Len(runtime.nodes) \in Nat
  BY NodeForControlIs, ListFacts DEF IsDom, AreNodes
<1> HIDE DEF at
<1>2. at \in 0 .. Len(runtime.nodes) /\ (at = 0 => S = {}) /\ (at # 0 => at \in S)
  BY <1>1 DEF IsFirst
<1>3. /\ at # 0 => at \in 1 .. Len(runtime.nodes) /\ runtime.nodes[at].control = control
      /\ at = 0 => \A n \in 1 .. Len(runtime.nodes) : runtime.nodes[n].control # control
  BY <1>2
<1> QED
  BY <1>2, <1>3 DEF at

\* A link is looked for among the nodes of links, the root taken where there is none.
LEMMA LinkFound ==
  ASSUME NEW runtime, IsDom(runtime), NEW href, NEW text
  PROVE  LET target == OrRoot(NodeForLink(runtime, href, text)) IN
         \/ target = 1
         \/ target \in 1 .. Len(runtime.nodes) /\ runtime.nodes[target].kind = "Link" /\ runtime.nodes[target].link[1].id = href
<1> DEFINE Fits(n) == n.kind = "Link" /\ n.link # <<>> /\ n.link[1].id = href
                        /\ (text = <<>> \/ [i \in DOMAIN n.text |-> WholeWord(n.text[i])] = text)
           S == {i \in 1 .. Len(runtime.nodes) : Fits(runtime.nodes[i])}
           at == NodeForLink(runtime, href, text)
<1>1. at = IF S # {} THEN Min(S) ELSE 0
  BY DEF NodeForLink, SelectInSeq
<1>2. S \in SUBSET Nat /\ \A i \in S : i \in 1 .. Len(runtime.nodes) /\ Fits(runtime.nodes[i])
  BY ListFacts DEF IsDom, AreNodes
<1>3. \A i \in S : runtime.nodes[i].kind = "Link" /\ runtime.nodes[i].link[1].id = href
  BY <1>2
<1> HIDE DEF S, Fits, at
<1>4. S # {} => Min(S) \in S
  BY <1>2, FirstPlace
<1> QED
  BY <1>1, <1>2, <1>3, <1>4 DEF OrRoot, at

LEMMA MarkedDom ==
  ASSUME NEW runtime, IsDom(runtime), NEW flags
  PROVE  /\ IsDom(MarkDirty(runtime, flags)) /\ SameNodes(runtime, MarkDirty(runtime, flags))
         /\ MarkDirty(runtime, flags).nodes = runtime.nodes /\ MarkDirty(runtime, flags).focus = runtime.focus
<1> DEFINE r == MarkDirty(runtime, flags)
<1>1. DOMAIN r = DOMAIN runtime /\ r.nodes = runtime.nodes /\ r.focus = runtime.focus
  BY DEF MarkDirty, IsDom
<1> HIDE DEF r
<1>2. IsDom(r)
  BY <1>1 DEF IsDom
<1> QED
  BY <1>1, <1>2 DEF SameNodes, r

LEMMA NodesSameItself ==
  ASSUME NEW runtime, IsDom(runtime)
  PROVE  SameNodes(runtime, runtime)
BY DEF SameNodes

LEMMA SameNodesFollow ==
  ASSUME NEW a, NEW b, NEW c, SameNodes(a, b), SameNodes(b, c)
  PROVE  SameNodes(a, c)
BY DEF SameNodes

\* One value is set, and then all of them.
LEMMA ValueSet ==
  ASSUME NEW runtime, IsDom(runtime), NEW control, NodeForControl(runtime, control.id) # 0
  PROVE  /\ SameNodes(runtime, SetFormValue(runtime, control)) /\ SetFormValue(runtime, control).focus = runtime.focus
         /\ SetFormValue(runtime, control).nodes[NodeForControl(runtime, control.id)].text = control.value
         /\ \A n \in 1 .. Len(runtime.nodes) : n # NodeForControl(runtime, control.id) =>
              SetFormValue(runtime, control).nodes[n].text = runtime.nodes[n].text
<1> DEFINE at == NodeForControl(runtime, control.id)
           m == Len(runtime.nodes)
           set == [runtime EXCEPT !.nodes[at].text = control.value]
           r == SetFormValue(runtime, control)
<1>1. at \in 1 .. m /\ m \in Nat /\ DOMAIN runtime.nodes = 1 .. m
  BY NodeFound, ListFacts DEF IsDom, AreNodes
<1>2. r = IF runtime.nodes[at].text = control.value THEN runtime ELSE MarkDirty(set, TextDirty)
  BY DEF SetFormValue
<1> HIDE DEF at, m
<1>3. /\ DOMAIN set = DOMAIN runtime /\ set.focus = runtime.focus
      /\ set.nodes = [runtime.nodes EXCEPT ![at].text = control.value]
  BY DEF IsDom
<1> DEFINE nodes == set.nodes
<1>4. /\ nodes = [n \in 1 .. m |-> nodes[n]]
      /\ \A n \in 1 .. m : nodes[n] = IF n = at THEN [runtime.nodes[at] EXCEPT !.text = control.value] ELSE runtime.nodes[n]
  BY <1>1, <1>3
<1>5. IsNode(runtime.nodes[at]) /\ \A n \in 1 .. m : IsNode(runtime.nodes[n])
  BY <1>1 DEF IsDom, AreNodes, m
<1> DEFINE node == [runtime.nodes[at] EXCEPT !.text = control.value]
<1>6. /\ IsNode(node) /\ node.text = control.value /\ node.control = runtime.nodes[at].control
      /\ node.kind = runtime.nodes[at].kind /\ node.link = runtime.nodes[at].link
  BY <1>5 DEF IsNode
<1> HIDE DEF node, nodes, set
<1>7. \A n \in 1 .. m : nodes[n] = IF n = at THEN node ELSE runtime.nodes[n]
  BY <1>4 DEF node
<1>8. IsList(nodes) /\ Len(nodes) = m
  BY <1>1, <1>4, ListBuilt
<1>9. IsDom(set) /\ SameNodes(runtime, set)
  BY <1>3, <1>5, <1>6, <1>7, <1>8 DEF IsDom, AreNodes, nodes, SameNodes, m
<1> DEFINE marked == MarkDirty(set, TextDirty)
<1>10. IsDom(marked) /\ SameNodes(set, marked) /\ marked.nodes = nodes /\ marked.focus = runtime.focus
  BY <1>3, <1>9, MarkedDom DEF nodes
<1>11. SameNodes(runtime, marked)
  BY <1>9, <1>10, SameNodesFollow
<1> HIDE DEF marked, r
<1>12. CASE runtime.nodes[at].text = control.value
  BY <1>2, <1>12, NodesSameItself DEF r, at
<1>13. CASE runtime.nodes[at].text # control.value
  BY <1>1, <1>2, <1>6, <1>7, <1>10, <1>11, <1>13 DEF marked, r, at, m
<1> QED
  BY <1>12, <1>13

\* The DOM has a node for each control of the document.
HasNodes(runtime, document) ==
  /\ IsDom(runtime)
  /\ \A p \in 1 .. Len(ControlsOf(document)) : NodeForControl(runtime, ControlsOf(document)[p].id) # 0

FitsDocument(runtime, document) ==
  /\ HasNodes(runtime, document) /\ runtime.focus = FocusedControl(document)
  /\ \A p \in 1 .. Len(ControlsOf(document)) :
       runtime.nodes[NodeForControl(runtime, ControlsOf(document)[p].id)].text = ControlsOf(document)[p].value

LEMMA ValuesSet ==
  ASSUME NEW document, IsInteractive(document), NEW runtime, HasNodes(runtime, document)
  PROVE  /\ SameNodes(runtime, SetFormValues(runtime, ControlsOf(document)))
         /\ SetFormValues(runtime, ControlsOf(document)).focus = runtime.focus
         /\ \A p \in 1 .. Len(ControlsOf(document)) :
              SetFormValues(runtime, ControlsOf(document)).nodes[NodeForControl(runtime, ControlsOf(document)[p].id)].text
                = ControlsOf(document)[p].value
<1> DEFINE cs == ControlsOf(document)
           n == Len(cs)
           start == 0
           at(p) == NodeForControl(runtime, cs[p].id)
           f == CHOOSE g : g = [k \in 0..n |-> IF k = 0 THEN runtime ELSE SetFormValue(g[k - 1], cs[k])]
           parts == [k \in 1 .. n |-> [what |-> "value", of |-> cs[k]]]
<1>1. n \in Nat /\ IsDom(runtime) /\ (\A p \in 1 .. n : at(p) # 0) /\ ApartMeans(document)
  BY ControlsAre, ListFacts, InteractiveMeans DEF IsInteractive, HasNodes
<1>2. \A p, q \in 1 .. n : p # q => at(p) # at(q)
  BY <1>1, NodeFound DEF ApartMeans
<1>3. \A p \in 1 .. n : at(p) \in 1 .. Len(runtime.nodes)
  BY <1>1, NodeFound
<1>4. SetFormValues(runtime, cs) = f[n]
  BY DEF SetFormValues
<1> HIDE DEF f, cs, n
<1>5. PICK g : PartsRun(runtime, parts, n, g)
  BY <1>1, PartsRunExists
<1>6. \A k \in 1 .. n : \A s : TakePart(s, parts[k]) = SetFormValue(s, cs[k])
  BY DEF TakePart
<1>7. \A k \in 0 .. n : k # 0 => k \in 1 .. n
  BY <1>1
<1> HIDE DEF parts
<1>8. g = [k \in 0..n |-> IF k = 0 THEN runtime ELSE SetFormValue(g[k - 1], cs[k])]
  BY <1>5, <1>6, <1>7 DEF PartsRun
<1>9. f = [k \in 0..n |-> IF k = 0 THEN runtime ELSE SetFormValue(f[k - 1], cs[k])]
  BY <1>8 DEF f
<1> DEFINE Set(k) == /\ SameNodes(runtime, f[k]) /\ f[k].focus = runtime.focus
                     /\ \A p \in 1 .. n : p <= k => f[k].nodes[at(p)].text = cs[p].value
           S == {k \in 0 .. n : Set(k)}
<1>10. start \in S
  BY <1>1, <1>9, NodesSameItself
<1>11. ASSUME NEW k \in start .. n - 1, k \in S PROVE k + 1 \in S
  <2> DEFINE m == k + 1
             before == f[k]
             after == f[m]
  <2>1. m \in 1 .. n /\ m \in 0 .. n /\ m # 0 /\ m - 1 = k /\ Set(k) /\ \A p \in 1 .. n : p <= m => p <= k \/ p = m
    BY <1>1, <1>11
  <2>2. after = SetFormValue(before, cs[m])
    BY <1>9, <2>1
  <2> HIDE DEF m, after
  <2>3. IsDom(before) /\ SameNodes(runtime, before)
    BY <2>1 DEF SameNodes
  <2> HIDE DEF before
  <2>4. NodeForControl(before, cs[m].id) = at(m) /\ at(m) # 0 /\ Len(before.nodes) = Len(runtime.nodes)
    BY <1>1, <2>1, <2>3, SameNodesFound DEF SameNodes
  <2>5. /\ SameNodes(before, after) /\ after.focus = before.focus
        /\ after.nodes[at(m)].text = cs[m].value
        /\ \A i \in 1 .. Len(runtime.nodes) : i # at(m) => after.nodes[i].text = before.nodes[i].text
    BY <2>2, <2>3, <2>4, ValueSet
  <2>6. \A p \in 1 .. n : p <= m => after.nodes[at(p)].text = cs[p].value
    <3> SUFFICES ASSUME NEW p \in 1 .. n, p <= m PROVE after.nodes[at(p)].text = cs[p].value
      OBVIOUS
    <3>1. CASE p = m
      BY <2>5, <3>1
    <3>2. CASE p # m
      BY <1>2, <1>3, <2>1, <2>5, <3>2 DEF before
    <3> QED
      BY <3>1, <3>2
  <2>7. SameNodes(runtime, after)
    BY <2>3, <2>5, SameNodesFollow
  <2>8. after.focus = runtime.focus
    BY <2>1, <2>5 DEF before
  <2>9. Set(m)
    BY <2>6, <2>7, <2>8 DEF after
  <2> QED
    BY <2>1, <2>9 DEF m
<1>12. start \in Nat /\ n \in start .. n
  BY <1>1
<1> HIDE DEF S, start
<1>13. start .. n \subseteq S
  BY <1>1, <1>10, <1>11, <1>12, CountingUp
<1>14. n \in S
  BY <1>12, <1>13
<1>15. Set(n) /\ \A p \in 1 .. n : p <= n
  BY <1>1, <1>14 DEF S
<1> HIDE DEF at
<1>16. /\ SameNodes(runtime, SetFormValues(runtime, cs)) /\ SetFormValues(runtime, cs).focus = runtime.focus
       /\ \A p \in 1 .. n : SetFormValues(runtime, cs).nodes[at(p)].text = cs[p].value
  BY <1>4, <1>15
<1> QED
  BY <1>16 DEF cs, n, at

\* The focus of the document is one of a control, which has a node.
LEMMA FocusKnown ==
  ASSUME NEW document, IsInteractive(document), FocusedControl(document) # 0
  PROVE  \E p \in 1 .. Len(ControlsOf(document)) : ControlsOf(document)[p].focused /\ FocusedControl(document) = ControlsOf(document)[p].id
<1>1. \E p \in 1 .. Len(ControlsOf(document)) : ControlsOf(document)[p].focused
  BY FocusedIs
<1> QED
  BY <1>1, FocusedIs

LEMMA FocusSet ==
  ASSUME NEW runtime, IsDom(runtime), NEW control, control # 0 => NodeForControl(runtime, control) # 0
  PROVE  /\ SameNodes(runtime, RuntimeFocus(runtime, control)) /\ RuntimeFocus(runtime, control).nodes = runtime.nodes
         /\ RuntimeFocus(runtime, control).focus = control
<1> DEFINE set == [runtime EXCEPT !.focus = control]
           r == RuntimeFocus(runtime, control)
<1>1. r = IF runtime.focus = control THEN runtime ELSE MarkDirty(set, FocusDirty)
  BY DEF RuntimeFocus
<1>2. DOMAIN set = DOMAIN runtime /\ set.nodes = runtime.nodes /\ set.focus = control
  BY DEF IsDom
<1> HIDE DEF set
<1>3. IsDom(set)
  BY <1>2 DEF IsDom
<1> DEFINE marked == MarkDirty(set, FocusDirty)
<1>4. IsDom(marked) /\ marked.nodes = runtime.nodes /\ marked.focus = control
  BY <1>2, <1>3, MarkedDom
<1> HIDE DEF r, marked
<1>5. r.nodes = runtime.nodes /\ r.focus = control /\ IsDom(r)
  BY <1>1, <1>4 DEF marked
<1> QED
  BY <1>5 DEF SameNodes, r

\* After SyncFromDocument the DOM has the values and the focus of the document.
LEMMA SyncFits ==
  ASSUME NEW document, IsInteractive(document), NEW runtime, HasNodes(runtime, document)
  PROVE  SameNodes(runtime, SyncFromDocument(runtime, document)) /\ FitsDocument(SyncFromDocument(runtime, document), document)
<1> DEFINE cs == ControlsOf(document)
           n == Len(cs)
           at(p) == NodeForControl(runtime, cs[p].id)
           valued == SetFormValues(runtime, cs)
           r == RuntimeFocus(valued, FocusedControl(document))
<1>1. SyncFromDocument(runtime, document) = r
  BY DEF SyncFromDocument
<1>2. IsDom(runtime) /\ \A p \in 1 .. n : at(p) # 0
  BY DEF HasNodes
<1>3. SameNodes(runtime, valued) /\ valued.focus = runtime.focus /\ \A p \in 1 .. n : valued.nodes[at(p)].text = cs[p].value
  BY ValuesSet
<1> HIDE DEF valued
<1>4. IsDom(valued) /\ \A p \in 1 .. n : NodeForControl(valued, cs[p].id) = at(p)
  BY <1>2, <1>3, SameNodesFound DEF SameNodes
<1>5. FocusedControl(document) # 0 => NodeForControl(valued, FocusedControl(document)) # 0
  BY <1>2, <1>4, FocusKnown
<1>6. SameNodes(valued, r) /\ r.nodes = valued.nodes /\ r.focus = FocusedControl(document)
  BY <1>4, <1>5, FocusSet
<1> HIDE DEF r
<1>7. SameNodes(runtime, r) /\ IsDom(r)
  BY <1>3, <1>6, SameNodesFollow DEF SameNodes
<1>8. \A p \in 1 .. n : NodeForControl(r, cs[p].id) = at(p)
  BY <1>2, <1>7, SameNodesFound
<1>9. HasNodes(r, document)
  BY <1>2, <1>7, <1>8 DEF HasNodes
<1>10. FitsDocument(r, document)
  BY <1>3, <1>6, <1>8, <1>9 DEF FitsDocument
<1> QED
  BY <1>1, <1>7, <1>10

-----------------------------------------------------------------------------
(* The DOM of a document that comes in                                     *)

NodesAdded(nodes, own, all, a, b, c) ==
  /\ AreNodes(all) /\ Len(all) = b + c /\ b \in Nat /\ a + 1 <= b /\ c \in Nat
  /\ \A n \in 1 .. a : all[n] = nodes[n]
  /\ \A n \in a + 1 .. b : all[n].control = 0
  /\ \A j \in 1 .. c : all[b + j].control = own[j].id /\ all[b + j].text = own[j].value
\* A block adds a node of its own, and then those of its fragments and controls.
LEMMA BlockNodeAdded ==
  ASSUME NEW nodes, AreNodes(nodes), NEW block, IsBlock(block)
  PROVE  NodesAdded(nodes, block.form.controls, AddBlockNode(nodes, block),
                    Len(nodes), Len(nodes) + 1 + Len(block.fragments), Len(block.form.controls))
<1> DEFINE id == Len(nodes) + 1
           top == DomNode(NodeKind(block), 1, block.text, block.link, 0)
           first == Append(nodes, top)
           parts == [i \in DOMAIN block.fragments |-> LET part == block.fragments[i] IN
                       DomNode(IF part.linked THEN "Link" ELSE "Text", id, part.text, part.link, 0)]
           own == [i \in DOMAIN block.form.controls |-> LET c == block.form.controls[i] IN DomNode("FormControl", id, c.value, <<>>, c.id)]
           all == AddBlockNode(nodes, block)
           a == Len(nodes)
           f == Len(block.fragments)
           c == Len(block.form.controls)
           b == a + 1 + f
<1>1. all = first \o parts \o own
  BY DEF AddBlockNode
<1>2. a \in Nat /\ f \in Nat /\ c \in Nat /\ DOMAIN block.fragments = 1 .. f /\ DOMAIN block.form.controls = 1 .. c /\ IsList(nodes)
  BY VectorIsList, ListFacts DEF IsBlock, AreNodes
<1>3. IsNode(top) /\ top.control = 0
  BY DEF IsNode, DomNode
<1>4. parts = [i \in 1 .. f |-> parts[i]] /\ \A i \in 1 .. f : IsNode(parts[i]) /\ parts[i].control = 0
  BY <1>2 DEF IsNode, DomNode
<1>5. own = [i \in 1 .. c |-> own[i]] /\ \A i \in 1 .. c : IsNode(own[i]) /\ own[i].control = block.form.controls[i].id
                                                          /\ own[i].text = block.form.controls[i].value
  BY <1>2 DEF IsNode, DomNode
<1> HIDE DEF top, parts, own
<1>6. IsList(parts) /\ Len(parts) = f /\ IsList(own) /\ Len(own) = c
  BY <1>2, <1>4, <1>5, ListBuilt
<1>7. IsList(first) /\ Len(first) = a + 1 /\ (\A n \in 1 .. a : first[n] = nodes[n]) /\ first[a + 1] = top
  BY <1>2, AppendList
<1> HIDE DEF first
<1> DEFINE middle == first \o parts
<1>8. IsList(middle) /\ Len(middle) = b /\ \A n \in 1 .. b : middle[n] = IF n <= a + 1 THEN first[n] ELSE parts[n - (a + 1)]
  <2>1. IsList(middle) /\ Len(middle) = Len(first) + Len(parts)
        /\ \A n \in 1 .. Len(first) + Len(parts) : middle[n] = IF n <= Len(first) THEN first[n] ELSE parts[n - Len(first)]
    BY <1>6, <1>7, ConcatList
  <2> HIDE DEF middle
  <2> QED
    BY <1>6, <1>7, <2>1
<1> HIDE DEF middle, all
<1>9. IsList(all) /\ Len(all) = b + c /\ \A n \in 1 .. b + c : all[n] = IF n <= b THEN middle[n] ELSE own[n - b]
  <2>1. all = middle \o own
    BY <1>1 DEF middle
  <2>2. IsList(middle \o own) /\ Len(middle \o own) = Len(middle) + Len(own)
        /\ \A n \in 1 .. Len(middle) + Len(own) : (middle \o own)[n] = IF n <= Len(middle) THEN middle[n] ELSE own[n - Len(middle)]
    BY <1>6, <1>8, ConcatList
  <2> HIDE DEF b, c
  <2> QED
    BY <1>6, <1>8, <2>1, <2>2
<1> HIDE DEF a, f, c
<1>10. \A n \in 1 .. a : all[n] = nodes[n]
  BY <1>2, <1>7, <1>8, <1>9
<1>11. \A n \in a + 1 .. b : all[n].control = 0 /\ IsNode(all[n])
  <2> SUFFICES ASSUME NEW n \in a + 1 .. b PROVE all[n].control = 0 /\ IsNode(all[n])
    OBVIOUS
  <2>1. n \in 1 .. b /\ n \in 1 .. b + c /\ n <= b /\ (n <= a + 1 => n = a + 1) /\ (~(n <= a + 1) => n - (a + 1) \in 1 .. f)
    BY <1>2
  <2>2. all[n] = IF n <= a + 1 THEN first[n] ELSE parts[n - (a + 1)]
    BY <1>8, <1>9, <2>1
  <2> HIDE DEF b
  <2> QED
    BY <1>3, <1>4, <1>7, <2>1, <2>2
<1>12. \A j \in 1 .. c : all[b + j] = own[j]
  BY <1>2, <1>9
<1>13. \A n \in 1 .. b + c : n \in 1 .. a \/ n \in a + 1 .. b \/ (n - b \in 1 .. c /\ b + (n - b) = n)
  BY <1>2
<1>14. b \in Nat /\ a + 1 <= b
  BY <1>2
<1> HIDE DEF b
<1>15. \A n \in 1 .. b + c : IsNode(all[n])
  BY <1>5, <1>10, <1>11, <1>12, <1>13 DEF AreNodes, a
<1>16. AreNodes(all)
  BY <1>9, <1>15 DEF AreNodes
<1>17. \A j \in 1 .. c : all[b + j].control = block.form.controls[j].id /\ all[b + j].text = block.form.controls[j].value
  BY <1>5, <1>12
<1> QED
  BY <1>2, <1>9, <1>10, <1>11, <1>14, <1>16, <1>17 DEF all, a, b, c, f, NodesAdded

\* The nodes of a DOM that is built: one for each control of the blocks so far, and for no other.
NodeIsOf(node, controls) == node.control = 0 \/ \E p \in 1 .. Len(controls) : node.control = controls[p].id /\ node.text = controls[p].value
HasNode(nodes, control) == \E n \in 1 .. Len(nodes) : nodes[n].control = control
NodesUpTo(document, nodes, k) ==
  /\ AreNodes(nodes) /\ \A n \in 1 .. Len(nodes) : NodeIsOf(nodes[n], ControlsOf(document))
  /\ \A i \in 1 .. k : \A j \in 1 .. Len(document.blocks[i].form.controls) : HasNode(nodes, document.blocks[i].form.controls[j].id)

LEMMA BlockNodesListed ==
  ASSUME NEW document, IsRenderDocument(document), NEW m \in 1 .. Len(document.blocks), NEW nodes, NodesUpTo(document, nodes, m - 1)
  PROVE  NodesUpTo(document, AddBlockNode(nodes, document.blocks[m]), m)
<1> DEFINE block == document.blocks[m]
           cs == ControlsOf(document)
           own == block.form.controls
           all == AddBlockNode(nodes, block)
           a == Len(nodes)
           b == a + 1 + Len(block.fragments)
           c == Len(own)
<1>1. IsBlock(block) /\ DOMAIN own = 1 .. c /\ m \in DOMAIN document.blocks /\ DOMAIN document.blocks = 1 .. Len(document.blocks)
  BY ListsOfControls DEF IsRenderDocument
<1>2. AreNodes(nodes) /\ (\A n \in 1 .. a : NodeIsOf(nodes[n], cs)) /\ a \in Nat /\ Len(document.blocks) \in Nat
  BY ListFacts, ListsOfControls DEF NodesUpTo, AreNodes
<1>3. NodesAdded(nodes, own, all, a, b, c)
  BY <1>1, <1>2, BlockNodeAdded
<1> HIDE DEF all, b, c, a, own, cs
<1>4. /\ AreNodes(all) /\ Len(all) = b + c /\ b \in Nat /\ a + 1 <= b /\ c \in Nat
      /\ \A n \in 1 .. a : all[n] = nodes[n]
      /\ \A n \in a + 1 .. b : all[n].control = 0
      /\ \A j \in 1 .. c : all[b + j].control = own[j].id /\ all[b + j].text = own[j].value
  BY <1>3 DEF NodesAdded
<1>5. \A j \in 1 .. c : \E p \in 1 .. Len(cs) : cs[p] = own[j]
  <2> SUFFICES ASSUME NEW j \in 1 .. c PROVE \E p \in 1 .. Len(cs) : cs[p] = own[j]
    OBVIOUS
  <2>1. m \in DOMAIN document.blocks /\ j \in DOMAIN own
    BY <1>1
  <2> QED
    BY <2>1, ControlsAre DEF own, cs
<1>6. \A n \in 1 .. b + c : n \in 1 .. a \/ n \in a + 1 .. b \/ (n - b \in 1 .. c /\ b + (n - b) = n)
  BY <1>2, <1>4
<1>7. \A j \in 1 .. c : b + j \in 1 .. b + c
  BY <1>4
<1>8. \A n \in 1 .. a : n \in 1 .. b + c
  BY <1>2, <1>4
<1>9. \A i \in 1 .. m : i \in 1 .. m - 1 \/ i = m
  BY <1>2
<1>10. \A n \in 1 .. Len(all) : NodeIsOf(all[n], cs)
  <2> SUFFICES ASSUME NEW n \in 1 .. b + c PROVE NodeIsOf(all[n], cs)
    BY <1>4
  <2>1. CASE n \in 1 .. a
    BY <1>2, <1>4, <2>1
  <2>2. CASE n \in a + 1 .. b
    BY <1>4, <2>2 DEF NodeIsOf
  <2>3. CASE n - b \in 1 .. c /\ b + (n - b) = n
    BY <1>4, <1>5, <2>3 DEF NodeIsOf
  <2> QED
    BY <1>6, <2>1, <2>2, <2>3
<1>11. \A j \in 1 .. c : HasNode(all, own[j].id)
  BY <1>4, <1>7 DEF HasNode
<1>12. \A i \in 1 .. m - 1 : \A j \in 1 .. Len(document.blocks[i].form.controls) : HasNode(all, document.blocks[i].form.controls[j].id)
  <2> SUFFICES ASSUME NEW i \in 1 .. m - 1, NEW j \in 1 .. Len(document.blocks[i].form.controls)
               PROVE HasNode(all, document.blocks[i].form.controls[j].id)
    OBVIOUS
  <2>1. PICK n \in 1 .. a : nodes[n].control = document.blocks[i].form.controls[j].id
    BY DEF NodesUpTo, HasNode, a
  <2>2. n \in 1 .. Len(all) /\ all[n] = nodes[n]
    BY <1>4, <1>8
  <2> QED
    BY <2>1, <2>2 DEF HasNode
<1>13. \A i \in 1 .. m : \A j \in 1 .. Len(document.blocks[i].form.controls) : HasNode(all, document.blocks[i].form.controls[j].id)
  BY <1>9, <1>11, <1>12 DEF c, own
<1> QED
  BY <1>4, <1>10, <1>13 DEF NodesUpTo, all, cs

\* The nodes of all blocks.
LEMMA NodesAre ==
  ASSUME NEW document, IsRenderDocument(document)
  PROVE  NodesUpTo(document, NodesOf(document.blocks), Len(document.blocks))
<1> DEFINE blocks == document.blocks
           n == Len(blocks)
           start == 0
           root == <<DomNode("Root", 0, <<>>, <<>>, 0)>>
           f == CHOOSE g : g = [k \in 0..n |-> IF k = 0 THEN root ELSE AddBlockNode(g[k - 1], blocks[k])]
           parts == [k \in 1 .. n |-> [what |-> "nodes", of |-> blocks[k]]]
<1>1. n \in Nat
  BY ListsOfControls, VectorIsList DEF IsRenderDocument
<1>2. NodesOf(blocks) = f[n]
  BY DEF NodesOf
<1>3. NodesUpTo(document, root, 0)
  <2>1. IsList(root) /\ Len(root) = 1 /\ \A i \in 1 .. 1 : root[i] = DomNode("Root", 0, <<>>, <<>>, 0)
    BY OneList
  <2> HIDE DEF root
  <2>2. \A i \in 1 .. 1 : IsNode(root[i]) /\ NodeIsOf(root[i], ControlsOf(document))
    BY <2>1 DEF DomNode, IsNode, NodeIsOf
  <2> QED
    BY <2>1, <2>2 DEF NodesUpTo, AreNodes
<1> HIDE DEF f, n, root
<1>5. PICK g : PartsRun(root, parts, n, g)
  BY <1>1, PartsRunExists
<1>6. \A k \in 1 .. n : \A s : TakePart(s, parts[k]) = AddBlockNode(s, blocks[k])
  BY DEF TakePart
<1>7. \A k \in 0 .. n : k # 0 => k \in 1 .. n
  BY <1>1
<1> HIDE DEF parts
<1>8. g = [k \in 0..n |-> IF k = 0 THEN root ELSE AddBlockNode(g[k - 1], blocks[k])]
  BY <1>5, <1>6, <1>7 DEF PartsRun
<1>9. f = [k \in 0..n |-> IF k = 0 THEN root ELSE AddBlockNode(f[k - 1], blocks[k])]
  BY <1>8 DEF f
<1> DEFINE S == {k \in 0 .. n : NodesUpTo(document, f[k], k)}
<1>10. start \in S
  BY <1>1, <1>3, <1>9
<1>11. ASSUME NEW k \in start .. n - 1, k \in S PROVE k + 1 \in S
  <2> DEFINE m == k + 1
  <2>1. m \in 1 .. n /\ m \in 0 .. n /\ m # 0 /\ m - 1 = k /\ NodesUpTo(document, f[k], k)
    BY <1>1, <1>11
  <2>2. f[m] = AddBlockNode(f[k], blocks[m])
    BY <1>9, <2>1
  <2> HIDE DEF m
  <2>3. NodesUpTo(document, f[k], m - 1) /\ m \in 1 .. Len(document.blocks)
    BY <2>1 DEF n
  <2>4. NodesUpTo(document, f[m], m)
    BY <2>2, <2>3, BlockNodesListed
  <2> QED
    BY <2>1, <2>4 DEF m
<1>12. start \in Nat /\ n \in start .. n
  BY <1>1
<1> HIDE DEF S, start
<1>13. start .. n \subseteq S
  BY <1>1, <1>10, <1>11, <1>12, CountingUp
<1>14. n \in S
  BY <1>12, <1>13
<1> QED
  BY <1>2, <1>14 DEF S, n

\* The DOM of a document that comes in has its values and its focus.
LEMMA DomBuilt ==
  ASSUME NEW document, IsInteractive(document)
  PROVE  FitsDocument(FromRenderDocument(document), document)
<1> DEFINE cs == ControlsOf(document)
           n == Len(cs)
           nodes == NodesOf(document.blocks)
           bare == [nodes |-> nodes, focus |-> FocusedControl(document), dirty |-> {}]
           runtime == FromRenderDocument(document)
           at(p) == NodeForControl(runtime, cs[p].id)
<1>1. IsRenderDocument(document) /\ ApartMeans(document) /\ NodesUpTo(document, nodes, Len(document.blocks))
  BY NodesAre, InteractiveMeans DEF IsInteractive
<1>2. AreNodes(nodes) /\ (\A i \in 1 .. Len(nodes) : NodeIsOf(nodes[i], cs))
  BY <1>1 DEF NodesUpTo
<1> HIDE DEF nodes
<1>3. IsDom(bare) /\ bare.nodes = nodes /\ bare.focus = FocusedControl(document)
  BY <1>2 DEF IsDom
<1>4. runtime = MarkDirty(bare, AllDirty)
  BY DEF FromRenderDocument, nodes
<1> HIDE DEF bare, runtime
<1>5. IsDom(runtime) /\ runtime.nodes = nodes /\ runtime.focus = FocusedControl(document)
  BY <1>3, <1>4, MarkedDom
<1>6. \A p \in 1 .. n : HasNode(nodes, cs[p].id)
  <2> SUFFICES ASSUME NEW p \in 1 .. n PROVE HasNode(nodes, cs[p].id)
    OBVIOUS
  <2>1. /\ IsList(ControlLists(document)) /\ Len(ControlLists(document)) = Len(document.blocks)
        /\ \A i \in 1 .. Len(document.blocks) : IsList(ControlLists(document)[i]) /\ ControlLists(document)[i] = document.blocks[i].form.controls
        /\ cs = FlattenSeq(ControlLists(document))
    BY <1>1, ListsOfControls
  <2>2. \E i \in 1 .. Len(document.blocks) : \E j \in 1 .. Len(document.blocks[i].form.controls) : cs[p] = document.blocks[i].form.controls[j]
    <3> DEFINE lists == ControlLists(document)
    <3>1. IsList(lists) /\ \A i \in 1 .. Len(lists) : IsList(lists[i])
      BY <2>1
    <3> HIDE DEF lists
    <3>2. \A k \in 1 .. Len(FlattenSeq(lists)) : \E i \in 1 .. Len(lists) : \E j \in 1 .. Len(lists[i]) : FlattenSeq(lists)[k] = lists[i][j]
      BY <3>1, FlattenIsFrom
    <3>3. FlattenSeq(lists) = cs
      BY <2>1 DEF lists
    <3>4. \E i \in 1 .. Len(lists) : \E j \in 1 .. Len(lists[i]) : cs[p] = lists[i][j]
      BY <3>2, <3>3
    <3> HIDE DEF cs
    <3> QED
      BY <2>1, <3>4 DEF lists
  <2> QED
    BY <1>1, <2>2 DEF NodesUpTo, nodes
<1>7. \A p \in 1 .. n : at(p) # 0
  BY <1>5, <1>6, NodeFound DEF HasNode
<1>8. HasNodes(runtime, document)
  BY <1>5, <1>7 DEF HasNodes
<1>9. \A p \in 1 .. n : runtime.nodes[at(p)].text = cs[p].value
  <2> SUFFICES ASSUME NEW p \in 1 .. n PROVE runtime.nodes[at(p)].text = cs[p].value
    OBVIOUS
  <2>1. at(p) \in 1 .. Len(nodes) /\ nodes[at(p)].control = cs[p].id
    BY <1>5, <1>7, NodeFound
  <2> DEFINE node == nodes[at(p)]
  <2>2. NodeIsOf(node, cs) /\ node.control = cs[p].id
    BY <1>2, <2>1
  <2> HIDE DEF node
  <2>3. cs[p].id # 0 /\ \A q \in 1 .. n : q # p => cs[q].id # cs[p].id
    BY <1>1 DEF ApartMeans
  <2>4. PICK q \in 1 .. n : node.control = cs[q].id /\ node.text = cs[q].value
    BY <2>2, <2>3 DEF NodeIsOf
  <2>5. q = p
    BY <2>2, <2>3, <2>4
  <2> QED
    BY <1>5, <2>4, <2>5 DEF node
<1> QED
  BY <1>5, <1>8, <1>9 DEF FitsDocument, runtime

-----------------------------------------------------------------------------
(* What is painted                                                         *)
AreCommands(commands) == IsList(commands) /\ \A i \in 1 .. Len(commands) : CommandBounds(commands[i]) \in Rects
IsPlan(plan) == DOMAIN plan = {"background", "commands"} /\ AreCommands(plan.commands)

\* Commands of rectangles, texts, boxes and of the page.
LEMMA RectPainted ==
  ASSUME NEW rect \in Rects, NEW color
  PROVE  /\ CommandBounds(PaintRect(rect, color)) \in Rects
         /\ CommandBounds([PaintRect(rect, color) EXCEPT !.kind = "Image"]) \in Rects
  BY DEF CommandBounds, PaintRect

LEMMA TextPainted ==
  ASSUME NEW run, IsRun(run)
  PROVE  CommandBounds(PaintText(run)) \in Rects
<1> DEFINE command == PaintText(run)
           width == command.length * GlyphAdvance(command.size)
<1>1. command.kind = "Text" /\ command.rect.x \in Int /\ command.rect.y \in Int /\ command.length \in Int /\ command.size \in Int
  BY DEF PaintText, IsRun
<1> HIDE DEF command
<1>2. GlyphAdvance(command.size) \in Int /\ LineHeight(command.size) \in Int
  BY <1>1, SizesAre
<1>3. width \in Int
  BY <1>1, <1>2
<1> HIDE DEF width
<1>4. NoLess(width, command.size) \in Int
  BY <1>1, <1>3, NoLessIs
<1>5. LayoutRect(command.rect.x, command.rect.y, NoLess(width, command.size), LineHeight(command.size)) \in Rects
  BY <1>1, <1>2, <1>4, RectIs
<1> QED
  BY <1>1, <1>5 DEF CommandBounds, command, width

LEMMA CommandsJoined ==
  ASSUME NEW s, AreCommands(s), NEW t, AreCommands(t)
  PROVE  AreCommands(s \o t)
<1> DEFINE a == Len(s)
           b == Len(t)
           all == s \o t
<1>1. a \in Nat /\ b \in Nat
  BY ListFacts DEF AreCommands
<1>2. IsList(all) /\ Len(all) = a + b /\ \A i \in 1 .. a + b : all[i] = IF i <= a THEN s[i] ELSE t[i - a]
  BY ConcatList DEF AreCommands
<1> HIDE DEF all
<1>3. (\A i \in 1 .. a : CommandBounds(s[i]) \in Rects) /\ \A i \in 1 .. b : CommandBounds(t[i]) \in Rects
  BY DEF AreCommands
<1> HIDE DEF a, b
<1>4. \A i \in 1 .. a + b : (i <= a => i \in 1 .. a) /\ (~(i <= a) => i - a \in 1 .. b)
  BY <1>1
<1>5. \A i \in 1 .. a + b : CommandBounds(all[i]) \in Rects
  BY <1>2, <1>3, <1>4
<1> QED
  BY <1>2, <1>5 DEF AreCommands, all

LEMMA OneCommand ==
  ASSUME NEW command, CommandBounds(command) \in Rects
  PROVE  AreCommands(<<command>>) /\ AreCommands(<<>>)
  BY OneList, EmptyList DEF AreCommands

LEMMA BoxPainted ==
  ASSUME NEW ids, NEW box, IsLaidBox(box, ids)
  PROVE  AreCommands(PaintBox(box))
<1> DEFINE edges == IF box.borderColor = "" THEN NoEdges ELSE box.border
           content == Inset(box.rect, edges)
           S == {i \in DOMAIN box.runs : box.runs[i].length > 0}
           texts == Picked(box.runs, S)
           around == IF box.borderColor = "" THEN <<>> ELSE <<PaintRect(box.rect, box.borderColor)>>
           ground == IF box.background = "" THEN <<>> ELSE <<PaintRect(content, box.background)>>
           image == << [PaintRect(content, box.background) EXCEPT !.kind = "Image"] >>
           words == [i \in DOMAIN texts |-> PaintText(texts[i])]
           within == IF box.kind = "Image" THEN image ELSE ground \o words
<1>1. PaintBox(box) = around \o within
  BY DEF PaintBox
<1>2. box.rect \in Rects /\ AreEdges(edges) /\ AreRuns(box.runs)
  BY NoBoxIs DEF IsLaidBox
<1> HIDE DEF edges
<1>3. content \in Rects
  BY <1>2, InsetIs
<1> HIDE DEF content
<1>4. AreRuns(texts)
  BY <1>2, RunsPicked
<1> HIDE DEF texts
<1>5. AreCommands(around) /\ AreCommands(ground) /\ AreCommands(image)
  BY <1>2, <1>3, RectPainted, OneCommand
<1>6. AreCommands(words)
  <2>1. IsList(texts) /\ DOMAIN texts = 1 .. Len(texts) /\ Len(texts) \in Nat /\ \A i \in 1 .. Len(texts) : IsRun(texts[i])
    BY <1>4, ListFacts DEF AreRuns
  <2>2. words = [i \in 1 .. Len(texts) |-> words[i]] /\ \A i \in 1 .. Len(texts) : words[i] = PaintText(texts[i])
    BY <2>1
  <2> HIDE DEF words
  <2>3. IsList(words) /\ Len(words) = Len(texts)
    BY <2>1, <2>2, ListBuilt
  <2> QED
    BY <2>1, <2>2, <2>3, TextPainted DEF AreCommands
<1> HIDE DEF around, ground, image, words
<1>7. AreCommands(within)
  BY <1>5, <1>6, CommandsJoined
<1> QED
  BY <1>1, <1>5, <1>7, CommandsJoined

LEMMA PlanIs ==
  ASSUME NEW ids, NEW viewport, viewport.width \in Int, viewport.height \in Int, NEW layout, IsLayout(layout, ids, viewport)
  PROVE  IsPlan(BuildPaintPlan(layout))
<1> DEFINE boxes == layout.boxes
           painted == [i \in DOMAIN boxes |-> PaintBox(boxes[i])]
           page == LayoutRect(0, 0, layout.viewport.width, layout.viewport.height)
           first == <<PaintRect(page, layout.background)>>
           rest == FlattenSeq(painted)
           n == Len(boxes)
<1>1. BuildPaintPlan(layout) = [background |-> layout.background, commands |-> first \o rest]
  BY DEF BuildPaintPlan
<1>2. AreBoxes(boxes, ids) /\ layout.viewport = viewport
  BY DEF IsLayout
<1> HIDE DEF boxes
<1>3. IsList(boxes) /\ DOMAIN boxes = 1 .. n /\ n \in Nat /\ \A i \in 1 .. n : AreCommands(PaintBox(boxes[i]))
  BY <1>2, ListFacts, BoxPainted DEF AreBoxes
<1> HIDE DEF n
<1>4. painted = [i \in 1 .. n |-> painted[i]] /\ \A i \in 1 .. n : AreCommands(painted[i])
  BY <1>3
<1> HIDE DEF painted
<1>5. IsList(painted) /\ Len(painted) = n /\ \A i \in 1 .. Len(painted) : IsList(painted[i])
  BY <1>3, <1>4, ListBuilt DEF AreCommands
<1>6. IsList(rest) /\ \A k \in 1 .. Len(rest) : \E i \in 1 .. Len(painted) : \E j \in 1 .. Len(painted[i]) : rest[k] = painted[i][j]
  BY <1>5, FlattenIsFrom
<1> HIDE DEF rest
<1>7. AreCommands(rest)
  BY <1>4, <1>5, <1>6 DEF AreCommands
<1>8. page \in Rects
  <2>1. layout.viewport.width \in Int /\ layout.viewport.height \in Int /\ 0 \in Int
    BY <1>2
  <2> QED
    BY <2>1, RectIs
<1> HIDE DEF page
<1>9. AreCommands(first)
  BY <1>8, RectPainted, OneCommand
<1> HIDE DEF first
<1>10. AreCommands(first \o rest)
  BY <1>7, <1>9, CommandsJoined
<1> QED
  BY <1>1, <1>10 DEF IsPlan

LEMMA PlanIsNotEmpty ==
  ASSUME NEW plan, IsPlan(plan)
  PROVE  plan # <<>>
<1>1. DOMAIN <<>> = {}
  BY EmptyList, ListFacts
<1> QED
  BY <1>1 DEF IsPlan

-----------------------------------------------------------------------------
(* What is drawn again                                                     *)
AreRegions(regions) == IsList(regions) /\ \A k \in 1 .. Len(regions) : regions[k] \in Rects
Covers(regions, part) == \E k \in 1 .. Len(regions) : IsInside(part, regions[k])

LEMMA InsideFollows ==
  ASSUME NEW a \in Rects, NEW b \in Rects, NEW c \in Rects, IsInside(a, b), IsInside(b, c)
  PROVE  IsInside(a, c)
  BY DEF Rects, IsInside, Right, Bottom

LEMMA InsideItself ==
  ASSUME NEW a \in Rects
  PROVE  IsInside(a, a)
  BY DEF Rects, IsInside, Right, Bottom

\* The part of a rectangle in the window is one of the window.
LEMMA ClippedIs ==
  ASSUME NEW rect \in Rects, NEW viewport, viewport.width \in Nat \ {0}, viewport.height \in Nat \ {0}
  PROVE  /\ AreRegions(Clipped(rect, viewport)) /\ AreRegions(FullRegion(viewport))
         /\ \A part \in ToSet(Clipped(rect, viewport)) : part \in Rects /\ Covers(FullRegion(viewport), part)
<1> DEFINE x == NoLess(rect.x, 0)
           y == NoLess(rect.y, 0)
           right == Min({Right(rect), viewport.width})
           bottom == Min({Bottom(rect), viewport.height})
           part == [x |-> x, y |-> y, width |-> right - x, height |-> bottom - y]
           full == [x |-> 0, y |-> 0, width |-> viewport.width, height |-> viewport.height]
<1>1. Clipped(rect, viewport) = IF right - x > 0 /\ bottom - y > 0 THEN <<part>> ELSE <<>>
  BY DEF Clipped
<1>2. FullRegion(viewport) = <<full>> /\ full \in Rects
  BY DEF FullRegion, Rects
<1>3. rect.x \in Int /\ rect.y \in Int /\ Right(rect) \in Int /\ Bottom(rect) \in Int
  BY DEF Rects, Right, Bottom
<1>4. x \in Int /\ y \in Int /\ x >= 0 /\ y >= 0
  BY <1>3, NoLessIs
<1>5. right \in Int /\ bottom \in Int /\ right <= viewport.width /\ bottom <= viewport.height
  BY <1>3, LesserIs
<1> HIDE DEF x, y, right, bottom
<1>6. right - x > 0 /\ bottom - y > 0 => part \in Rects /\ IsInside(part, full)
  BY <1>4, <1>5 DEF Rects, IsInside, Right, Bottom
<1> HIDE DEF part, full
<1>7. AreRegions(<<>>) /\ AreRegions(<<full>>) /\ (part \in Rects => AreRegions(<<part>>)) /\ ToSet(<<part>>) = {part} /\ ToSet(<<>>) = {}
  BY <1>2, OneList, EmptyList, ListFacts DEF AreRegions, ToSet
<1>8. IsInside(part, full) => Covers(<<full>>, part)
  BY OneList DEF Covers
<1> QED
  BY <1>1, <1>2, <1>6, <1>7, <1>8

\* A union holds both.
LEMMA UnionIs ==
  ASSUME NEW a \in Rects, NEW b \in Rects
  PROVE  UnionRect(a, b) \in Rects /\ IsInside(a, UnionRect(a, b)) /\ IsInside(b, UnionRect(a, b))
<1> DEFINE x == Min({a.x, b.x})
           y == Min({a.y, b.y})
           right == Max({Right(a), Right(b)})
           bottom == Max({Bottom(a), Bottom(b)})
           u == [x |-> x, y |-> y, width |-> right - x, height |-> bottom - y]
<1>1. UnionRect(a, b) = u
  BY DEF UnionRect
<1>2. /\ a.x \in Int /\ b.x \in Int /\ a.y \in Int /\ b.y \in Int /\ Right(a) \in Int /\ Right(b) \in Int /\ Bottom(a) \in Int /\ Bottom(b) \in Int
      /\ a.x <= Right(a) /\ b.x <= Right(b) /\ a.y <= Bottom(a) /\ b.y <= Bottom(b)
  BY DEF Rects, Right, Bottom
<1>3. x \in Int /\ y \in Int /\ x <= a.x /\ x <= b.x /\ y <= a.y /\ y <= b.y
  BY <1>2, LesserIs
<1>4. right \in Int /\ bottom \in Int /\ right >= Right(a) /\ right >= Right(b) /\ bottom >= Bottom(a) /\ bottom >= Bottom(b)
  BY <1>2, MaxOfTwo
<1> HIDE DEF x, y, right, bottom
<1>5. u \in Rects
  BY <1>2, <1>3, <1>4 DEF Rects
<1>6. Right(u) = right /\ Bottom(u) = bottom /\ u.x = x /\ u.y = y
  BY <1>3, <1>4 DEF Right, Bottom
<1> HIDE DEF u
<1> QED
  BY <1>1, <1>2, <1>3, <1>4, <1>5, <1>6 DEF IsInside

\* The union of all regions holds each.
LEMMA UnitedIs ==
  ASSUME NEW regions, AreRegions(regions), NEW rect \in Rects
  PROVE  /\ UnionWith(rect, regions) \in Rects /\ IsInside(rect, UnionWith(rect, regions))
         /\ \A k \in 1 .. Len(regions) : IsInside(regions[k], UnionWith(rect, regions))
<1> DEFINE n == Len(regions)
           start == 0
           f == CHOOSE g : g = [k \in 0..n |-> IF k = 0 THEN rect ELSE UnionRect(g[k - 1], regions[k])]
           parts == [k \in 1 .. n |-> [what |-> "union", of |-> regions[k]]]
<1>1. n \in Nat /\ \A k \in 1 .. n : regions[k] \in Rects
  BY ListFacts DEF AreRegions
<1>2. UnionWith(rect, regions) = f[n]
  BY DEF UnionWith
<1> HIDE DEF f, n
<1>5. PICK g : PartsRun(rect, parts, n, g)
  BY <1>1, PartsRunExists
<1>6. \A k \in 1 .. n : \A s : TakePart(s, parts[k]) = UnionRect(s, regions[k])
  BY DEF TakePart
<1>7. \A k \in 0 .. n : k # 0 => k \in 1 .. n
  BY <1>1
<1> HIDE DEF parts
<1>8. g = [k \in 0..n |-> IF k = 0 THEN rect ELSE UnionRect(g[k - 1], regions[k])]
  BY <1>5, <1>6, <1>7 DEF PartsRun
<1>9. f = [k \in 0..n |-> IF k = 0 THEN rect ELSE UnionRect(f[k - 1], regions[k])]
  BY <1>8 DEF f
<1> DEFINE United(k) == f[k] \in Rects /\ IsInside(rect, f[k]) /\ \A i \in 1 .. n : i <= k => IsInside(regions[i], f[k])
           S == {k \in 0 .. n : United(k)}
<1>10. start \in S
  BY <1>1, <1>9, InsideItself
<1>11. ASSUME NEW k \in start .. n - 1, k \in S PROVE k + 1 \in S
  <2> DEFINE m == k + 1
             before == f[k]
             after == f[m]
  <2>1. m \in 1 .. n /\ m \in 0 .. n /\ m # 0 /\ m - 1 = k /\ United(k) /\ \A i \in 1 .. n : i <= m => i <= k \/ i = m
    BY <1>1, <1>11
  <2>2. after = UnionRect(before, regions[m])
    BY <1>9, <2>1
  <2>3. before \in Rects /\ IsInside(rect, before) /\ \A i \in 1 .. n : i <= k => IsInside(regions[i], before)
    BY <2>1
  <2> HIDE DEF m, after, before
  <2>4. after \in Rects /\ IsInside(before, after) /\ IsInside(regions[m], after)
    BY <1>1, <2>1, <2>2, <2>3, UnionIs
  <2>5. IsInside(rect, after)
    BY <2>3, <2>4, InsideFollows
  <2>6. \A i \in 1 .. n : i <= m => IsInside(regions[i], after)
    BY <1>1, <2>1, <2>3, <2>4, InsideFollows
  <2>7. United(m)
    BY <2>4, <2>5, <2>6 DEF after
  <2> QED
    BY <2>1, <2>7 DEF m
<1>12. start \in Nat /\ n \in start .. n
  BY <1>1
<1> HIDE DEF S, start
<1>13. start .. n \subseteq S
  BY <1>1, <1>10, <1>11, <1>12, CountingUp
<1>14. n \in S
  BY <1>12, <1>13
<1>15. United(n) /\ \A k \in 1 .. n : k <= n
  BY <1>1, <1>14 DEF S
<1> QED
  BY <1>2, <1>15 DEF n

\* What the regions cover they cover with one more, which they cover too.
Widens(before, after) == \A part \in Rects : Covers(before, part) => Covers(after, part)

LEMMA RegionAdded ==
  ASSUME NEW regions, AreRegions(regions), NEW rect \in Rects
  PROVE  /\ AreRegions(AddRegion(regions, rect)) /\ AddRegion(regions, rect) # <<>>
         /\ Widens(regions, AddRegion(regions, rect)) /\ Covers(AddRegion(regions, rect), rect)
<1> DEFINE u == UnionWith(rect, regions)
           n == Len(regions)
           longer == Append(regions, rect)
           one == <<u>>
<1>1. IsList(regions) /\ n \in Nat /\ \A k \in 1 .. n : regions[k] \in Rects
  BY ListFacts DEF AreRegions
<1>2. u \in Rects /\ IsInside(rect, u) /\ \A k \in 1 .. n : IsInside(regions[k], u)
  BY UnitedIs
<1> HIDE DEF u
<1>3. IsList(longer) /\ Len(longer) = n + 1 /\ (\A k \in 1 .. n : longer[k] = regions[k]) /\ longer[n + 1] = rect
  BY <1>1, AppendList
<1>4. IsList(one) /\ Len(one) = 1 /\ one[1] = u /\ \A i \in 1 .. 1 : i = 1
  BY OneList
<1>5. AddRegion(regions, rect) = longer \/ AddRegion(regions, rect) = one
  BY DEF AddRegion, u
<1> HIDE DEF longer, one, n
<1>6. \A k \in 1 .. n + 1 : k \in 1 .. n \/ k = n + 1
  BY <1>1
<1>7. (\A k \in 1 .. n : k \in 1 .. n + 1) /\ n + 1 \in 1 .. n + 1 /\ n + 1 > 0 /\ 1 \in 1 .. 1
  BY <1>1
<1>8. AreRegions(longer) /\ AreRegions(one) /\ longer # <<>> /\ one # <<>>
  <2>1. \A k \in 1 .. n + 1 : longer[k] \in Rects
    BY <1>1, <1>3, <1>6
  <2>2. longer # <<>> /\ one # <<>>
    BY <1>3, <1>4, <1>7, ListFacts
  <2> QED
    BY <1>2, <1>3, <1>4, <2>1, <2>2 DEF AreRegions
<1>9. Widens(regions, longer) /\ Widens(regions, one)
  <2> SUFFICES ASSUME NEW part \in Rects, Covers(regions, part) PROVE Covers(longer, part) /\ Covers(one, part)
    BY DEF Widens
  <2>1. PICK k \in 1 .. n : IsInside(part, regions[k])
    BY DEF Covers, n
  <2>2. Covers(longer, part)
    BY <1>3, <1>7, <2>1 DEF Covers
  <2>3. IsInside(part, u)
    BY <1>1, <1>2, <2>1, InsideFollows
  <2> QED
    BY <1>4, <1>7, <2>2, <2>3 DEF Covers
<1>10. Covers(longer, rect) /\ Covers(one, rect)
  BY <1>2, <1>3, <1>4, <1>7, InsideItself DEF Covers
<1> QED
  BY <1>5, <1>8, <1>9, <1>10

\* Regions that are added one by one are covered in the end, however many there are.
LEMMA RegionsAdded ==
  ASSUME NEW rects, AreRegions(rects)
  PROVE  AreRegions(AddRegions(rects)) /\ \A i \in 1 .. Len(rects) : Covers(AddRegions(rects), rects[i])
<1> DEFINE n == Len(rects)
           start == 0
           f == CHOOSE g : g = [k \in 0..n |-> IF k = 0 THEN <<>> ELSE AddRegion(g[k - 1], rects[k])]
           parts == [k \in 1 .. n |-> [what |-> "region", of |-> rects[k]]]
<1>1. n \in Nat /\ \A k \in 1 .. n : rects[k] \in Rects
  BY ListFacts DEF AreRegions
<1>2. AddRegions(rects) = f[n]
  BY DEF AddRegions
<1> HIDE DEF f, n
<1>5. PICK g : PartsRun(<<>>, parts, n, g)
  BY <1>1, PartsRunExists
<1>6. \A k \in 1 .. n : \A s : TakePart(s, parts[k]) = AddRegion(s, rects[k])
  BY DEF TakePart
<1>7. \A k \in 0 .. n : k # 0 => k \in 1 .. n
  BY <1>1
<1> HIDE DEF parts
<1>8. g = [k \in 0..n |-> IF k = 0 THEN <<>> ELSE AddRegion(g[k - 1], rects[k])]
  BY <1>5, <1>6, <1>7 DEF PartsRun
<1>9. f = [k \in 0..n |-> IF k = 0 THEN <<>> ELSE AddRegion(f[k - 1], rects[k])]
  BY <1>8 DEF f
<1> DEFINE Added(k) == AreRegions(f[k]) /\ \A i \in 1 .. n : i <= k => Covers(f[k], rects[i])
           S == {k \in 0 .. n : Added(k)}
<1>10. start \in S
  BY <1>1, <1>9, EmptyList DEF AreRegions
<1>11. ASSUME NEW k \in start .. n - 1, k \in S PROVE k + 1 \in S
  <2> DEFINE m == k + 1
             before == f[k]
             after == f[m]
  <2>1. m \in 1 .. n /\ m \in 0 .. n /\ m # 0 /\ m - 1 = k /\ Added(k) /\ \A i \in 1 .. n : i <= m => i <= k \/ i = m
    BY <1>1, <1>11
  <2>2. after = AddRegion(before, rects[m])
    BY <1>9, <2>1
  <2>3. AreRegions(before) /\ \A i \in 1 .. n : i <= k => Covers(before, rects[i])
    BY <2>1
  <2> HIDE DEF m, after, before
  <2>4. AreRegions(after) /\ Widens(before, after) /\ Covers(after, rects[m])
    BY <1>1, <2>1, <2>2, <2>3, RegionAdded
  <2>5. \A i \in 1 .. n : i <= m => Covers(after, rects[i])
    BY <1>1, <2>1, <2>3, <2>4 DEF Widens
  <2>7. Added(m)
    BY <2>4, <2>5 DEF after
  <2> QED
    BY <2>1, <2>7 DEF m
<1>12. start \in Nat /\ n \in start .. n
  BY <1>1
<1> HIDE DEF S, start
<1>13. start .. n \subseteq S
  BY <1>1, <1>10, <1>11, <1>12, CountingUp
<1>14. n \in S
  BY <1>12, <1>13
<1>15. Added(n) /\ \A k \in 1 .. n : k <= n
  BY <1>1, <1>14 DEF S
<1> QED
  BY <1>2, <1>15 DEF n

-----------------------------------------------------------------------------
\* Whatever differs between two plans is in a region.
IsWindow(viewport) == viewport.width \in Nat \ {0} /\ viewport.height \in Nat \ {0}

\* What is clipped of the command at a place.
LEMMA PlaceClipped ==
  ASSUME NEW plan, IsPlan(plan), NEW viewport, IsWindow(viewport), NEW i
  PROVE  /\ AreRegions(ClippedAt(plan, i, viewport))
         /\ \A command \in ToSet(CommandAt(plan, i)) : \A part \in ToSet(Clipped(CommandBounds(command), viewport)) :
              /\ part \in Rects /\ Covers(FullRegion(viewport), part)
              /\ part \in ToSet(ClippedAt(plan, i, viewport))
<1> DEFINE commands == plan.commands
<1>1. DOMAIN commands = 1 .. Len(commands) /\ \A k \in 1 .. Len(commands) : CommandBounds(commands[k]) \in Rects
  BY ListFacts DEF IsPlan, AreCommands
<1>2. CASE i \notin DOMAIN commands
  BY <1>2, EmptyList, ListFacts DEF CommandAt, ClippedAt, ToSet, AreRegions
<1>3. CASE i \in DOMAIN commands
  <2> DEFINE command == commands[i]
             rect == CommandBounds(command)
             one == <<command>>
  <2>1. rect \in Rects
    BY <1>1, <1>3
  <2>2. CommandAt(plan, i) = one /\ ClippedAt(plan, i, viewport) = Clipped(rect, viewport)
    BY <1>3 DEF CommandAt, ClippedAt
  <2> HIDE DEF command
  <2>3. ToSet(one) = {command}
    BY OneList, ListFacts DEF ToSet
  <2>4. \A c \in ToSet(one) : CommandBounds(c) = rect
    BY <2>3
  <2> HIDE DEF one, rect
  <2>5. /\ AreRegions(Clipped(rect, viewport))
        /\ \A part \in ToSet(Clipped(rect, viewport)) : part \in Rects /\ Covers(FullRegion(viewport), part)
    BY <2>1, ClippedIs DEF IsWindow
  <2> QED
    BY <2>2, <2>4, <2>5
<1> QED
  BY <1>2, <1>3

LEMMA RegionsJoined ==
  ASSUME NEW s, AreRegions(s), NEW t, AreRegions(t)
  PROVE  /\ AreRegions(s \o t) /\ ToSet(s \o t) = ToSet(s) \cup ToSet(t) /\ ToSet(s \o t) = {(s \o t)[k] : k \in 1 .. Len(s \o t)}
<1> DEFINE a == Len(s)
           b == Len(t)
           all == s \o t
<1>1. a \in Nat /\ b \in Nat /\ DOMAIN s = 1 .. a /\ DOMAIN t = 1 .. b
  BY ListFacts DEF AreRegions
<1>2. IsList(all) /\ Len(all) = a + b /\ \A i \in 1 .. a + b : all[i] = IF i <= a THEN s[i] ELSE t[i - a]
  BY ConcatList DEF AreRegions
<1> HIDE DEF all
<1>3. (\A i \in 1 .. a : s[i] \in Rects) /\ \A i \in 1 .. b : t[i] \in Rects
  BY DEF AreRegions
<1>4. DOMAIN all = 1 .. Len(all)
  BY <1>2, ListFacts
<1> HIDE DEF a, b
<1>5. \A i \in 1 .. a + b : (i <= a => i \in 1 .. a) /\ (~(i <= a) => i - a \in 1 .. b)
  BY <1>1
<1>6. \A i \in 1 .. a + b : all[i] \in Rects /\ all[i] \in ToSet(s) \cup ToSet(t)
  BY <1>1, <1>2, <1>3, <1>5 DEF ToSet
<1>7. \A i \in 1 .. a : i \in 1 .. a + b /\ all[i] = s[i]
  BY <1>1, <1>2
<1>8. \A i \in 1 .. b : a + i \in 1 .. a + b /\ all[a + i] = t[i]
  BY <1>1, <1>2
<1>9. ToSet(all) = ToSet(s) \cup ToSet(t)
  <2>1. ToSet(all) \subseteq ToSet(s) \cup ToSet(t)
    BY <1>2, <1>4, <1>6 DEF ToSet
  <2>2. ToSet(s) \subseteq ToSet(all)
    BY <1>1, <1>2, <1>4, <1>7 DEF ToSet
  <2>3. ToSet(t) \subseteq ToSet(all)
    BY <1>1, <1>2, <1>4, <1>8 DEF ToSet
  <2> QED
    BY <2>1, <2>2, <2>3
<1>10. ToSet(all) = {all[k] : k \in 1 .. Len(all)}
  BY <1>4 DEF ToSet
<1> QED
  BY <1>2, <1>6, <1>9, <1>10 DEF AreRegions, all

-----------------------------------------------------------------------------
(* What has changed is drawn again                                         *)

LEMMA FullCovers ==
  ASSUME NEW before, IsPlan(before), NEW plan, IsPlan(plan), NEW viewport, IsWindow(viewport), NEW i,
         NEW command \in ToSet(CommandAt(before, i) \o CommandAt(plan, i)), NEW part \in ToSet(Clipped(CommandBounds(command), viewport))
  PROVE  /\ part \in Rects /\ Covers(FullRegion(viewport), part)
         /\ part \in ToSet(ClippedAt(before, i, viewport) \o ClippedAt(plan, i, viewport))
<1>1. command \in ToSet(CommandAt(before, i)) \/ command \in ToSet(CommandAt(plan, i))
  <2> DEFINE s == CommandAt(before, i)
             t == CommandAt(plan, i)
             a == Len(s)
             b == Len(t)
             all == s \o t
  <2>1. IsList(s) /\ IsList(t)
    BY OneList, EmptyList DEF CommandAt
  <2> HIDE DEF s, t
  <2>2. a \in Nat /\ b \in Nat /\ DOMAIN s = 1 .. a /\ DOMAIN t = 1 .. b
    BY <2>1, ListFacts
  <2>3. IsList(all) /\ Len(all) = a + b /\ \A k \in 1 .. a + b : all[k] = IF k <= a THEN s[k] ELSE t[k - a]
    BY <2>1, ConcatList
  <2> HIDE DEF all
  <2>4. DOMAIN all = 1 .. a + b
    BY <2>3, ListFacts
  <2>5. command \in ToSet(all)
    BY DEF all, s, t
  <2>6. PICK k \in 1 .. a + b : command = all[k]
    BY <2>4, <2>5 DEF ToSet
  <2> HIDE DEF a, b
  <2>7. (k <= a => k \in 1 .. a) /\ (~(k <= a) => k - a \in 1 .. b)
    BY <2>2
  <2>8. command \in ToSet(s) \/ command \in ToSet(t)
    BY <2>2, <2>3, <2>6, <2>7 DEF ToSet
  <2> QED
    BY <2>8 DEF s, t
<1>2. AreRegions(ClippedAt(before, i, viewport)) /\ AreRegions(ClippedAt(plan, i, viewport))
  BY PlaceClipped
<1>3. ToSet(ClippedAt(before, i, viewport) \o ClippedAt(plan, i, viewport)) = ToSet(ClippedAt(before, i, viewport)) \cup ToSet(ClippedAt(plan, i, viewport))
  BY <1>2, RegionsJoined
<1>4. /\ part \in Rects /\ Covers(FullRegion(viewport), part)
      /\ part \in ToSet(ClippedAt(before, i, viewport)) \cup ToSet(ClippedAt(plan, i, viewport))
  BY <1>1, PlaceClipped
<1> QED
  BY <1>3, <1>4

LEMMA RegionsAreRects ==
  ASSUME NEW regions, AreRegions(regions), NEW part
  PROVE  (\E k \in DOMAIN regions : IsInside(part, regions[k])) <=> Covers(regions, part)
  BY ListFacts DEF AreRegions, Covers

\* What differs between two plans is drawn again.
LEMMA ChangesCovered ==
  ASSUME NEW before, IsPlan(before), NEW plan, IsPlan(plan), NEW viewport, IsWindow(viewport)
  PROVE  /\ RegionsCover(before, plan, viewport, DirtyRegionsBetween(before, plan, viewport))
         /\ RegionsCover(before, plan, viewport, FullRegion(viewport))
<1> DEFINE longest == Max({Len(before.commands), Len(plan.commands)})
           touched(i) == IF CommandAt(before, i) = CommandAt(plan, i) THEN <<>> ELSE ClippedAt(before, i, viewport) \o ClippedAt(plan, i, viewport)
           lists == [i \in 1 .. longest |-> touched(i)]
           rects == FlattenSeq(lists)
           regions == AddRegions(rects)
           full == FullRegion(viewport)
           all == DirtyRegionsBetween(before, plan, viewport)
<1>1. all = full \/ all = regions
  BY DEF DirtyRegionsBetween
<1>2. longest \in Nat
  BY MaxOfTwo, ListFacts DEF IsPlan, AreCommands
<1>3. AreRegions(full)
  <2>1. [x |-> 0, y |-> 0, width |-> 0, height |-> 0] \in Rects
    BY DEF Rects
  <2> QED
    BY <2>1, ClippedIs DEF IsWindow
<1> HIDE DEF all, full
<1>4. \A i \in 1 .. longest : AreRegions(touched(i))
  BY EmptyList, PlaceClipped, RegionsJoined DEF AreRegions
<1>5. lists = [i \in 1 .. longest |-> lists[i]] /\ \A i \in 1 .. longest : lists[i] = touched(i)
  OBVIOUS
<1> HIDE DEF lists, longest
<1>6. IsList(lists) /\ Len(lists) = longest
  BY <1>2, <1>5, ListBuilt
<1> HIDE DEF touched
<1>7. \A i \in 1 .. Len(lists) : AreRegions(lists[i]) /\ IsList(lists[i])
  BY <1>4, <1>5, <1>6 DEF AreRegions
<1>8. /\ IsList(rects)
      /\ \A k \in 1 .. Len(rects) : \E i \in 1 .. Len(lists) : \E j \in 1 .. Len(lists[i]) : rects[k] = lists[i][j]
      /\ \A i \in 1 .. Len(lists) : \A j \in 1 .. Len(lists[i]) : \E k \in 1 .. Len(rects) : rects[k] = lists[i][j]
  BY <1>6, <1>7, FlattenIsFrom
<1> HIDE DEF rects
<1>9. AreRegions(rects)
  BY <1>7, <1>8 DEF AreRegions
<1>10. AreRegions(regions) /\ \A k \in 1 .. Len(rects) : Covers(regions, rects[k])
  BY <1>9, RegionsAdded
<1> HIDE DEF regions
<1>11. ASSUME NEW i \in 1 .. longest, CommandAt(before, i) # CommandAt(plan, i),
              NEW command \in ToSet(CommandAt(before, i) \o CommandAt(plan, i)), NEW part \in ToSet(Clipped(CommandBounds(command), viewport))
       PROVE  Covers(full, part) /\ Covers(regions, part)
  <2> DEFINE list == ClippedAt(before, i, viewport) \o ClippedAt(plan, i, viewport)
  <2>1. Covers(full, part) /\ part \in ToSet(list)
    BY FullCovers DEF full
  <2>2. touched(i) = list
    BY <1>11 DEF touched
  <2>3. DOMAIN lists[i] = 1 .. Len(lists[i]) /\ lists[i] = list /\ i \in 1 .. Len(lists)
    BY <1>5, <1>6, <1>7, <2>2, ListFacts
  <2> HIDE DEF list
  <2>4. PICK j \in 1 .. Len(lists[i]) : part = lists[i][j]
    BY <2>1, <2>3 DEF ToSet
  <2>5. PICK k \in 1 .. Len(rects) : rects[k] = part
    BY <1>8, <2>3, <2>4
  <2> QED
    BY <1>10, <2>1, <2>5
<1>12. ASSUME NEW some, some = full \/ some = regions PROVE RegionsCover(before, plan, viewport, some)
  BY <1>3, <1>10, <1>11, <1>12, RegionsAreRects DEF RegionsCover, longest
<1> QED
  BY <1>1, <1>12 DEF all, full

\* A plan that stays the same has nothing to be drawn again.
LEMMA SameCovered ==
  ASSUME NEW plan, NEW viewport, NEW regions
  PROVE  RegionsCover(plan, plan, viewport, regions)
  BY DEF RegionsCover

-----------------------------------------------------------------------------
(* A point of a control's region is one of a region of a control.          *)
LEMMA ControlRegionsAre ==
  ASSUME NEW ids, NEW viewport, NEW layout, IsLayout(layout, ids, viewport)
  PROVE  /\ IsList(ControlHitRegions(layout)) /\ DOMAIN ControlHitRegions(layout) = 1 .. Len(ControlHitRegions(layout))
         /\ \A i \in 1 .. Len(ControlHitRegions(layout)) :
              ControlHitRegions(layout)[i].control \in ids /\ ControlHitRegions(layout)[i].rect \in Rects
<1> DEFINE boxes == layout.boxes
           S == {i \in DOMAIN boxes : boxes[i].kind = "FormControl"}
           controls == Picked(boxes, S)
           regions == [i \in DOMAIN controls |-> [form |-> controls[i].form, control |-> controls[i].control, rect |-> controls[i].rect]]
           n == Len(controls)
<1>1. ControlHitRegions(layout) = regions
  BY DEF ControlHitRegions
<1>2. AreBoxes(boxes, ids)
  BY DEF IsLayout
<1> HIDE DEF boxes
<1>3. IsList(boxes) /\ DOMAIN boxes = 1 .. Len(boxes) /\ \A i \in 1 .. Len(boxes) : IsLaidBox(boxes[i], ids)
  BY <1>2, ListFacts DEF AreBoxes
<1>4. IsList(controls) /\ \E places : PicksFrom(boxes, S, controls, places)
  BY <1>3, PickedList
<1>5. PICK places : PicksFrom(boxes, S, controls, places)
  BY <1>4
<1> HIDE DEF controls
<1>6. n \in Nat /\ DOMAIN controls = 1 .. n
  BY <1>4, ListFacts
<1>7. \A i \in 1 .. n : controls[i].control \in ids /\ controls[i].rect \in Rects
  BY <1>3, <1>5 DEF PicksFrom, IsLaidBox
<1> HIDE DEF n
<1>8. regions = [i \in 1 .. n |-> regions[i]] /\ \A i \in 1 .. n : regions[i].control \in ids /\ regions[i].rect \in Rects
  BY <1>6, <1>7
<1> HIDE DEF regions
<1>9. IsList(regions) /\ Len(regions) = n /\ DOMAIN regions = 1 .. n
  BY <1>6, <1>8, ListBuilt
<1> QED
  BY <1>1, <1>8, <1>9

\* A hit is on the first region that holds the point.
LEMMA HitIs ==
  ASSUME NEW regions, IsList(regions), NEW x, NEW y
  PROVE  IsFirst(HitIn(regions, x, y), regions, {n \in 1 .. Len(regions) : ContainsPoint(regions[n].rect, x, y)})
<1> DEFINE S == {n \in 1 .. Len(regions) : ContainsPoint(regions[n].rect, x, y)}
<1>1. DOMAIN regions = 1 .. Len(regions) /\ Len(regions) \in Nat
  BY ListFacts
<1>2. HitIn(regions, x, y) = IF S # {} THEN Min(S) ELSE 0
  BY <1>1 DEF HitIn, SelectInSeq, S
<1>3. S \in SUBSET Nat /\ S \subseteq 1 .. Len(regions)
  BY <1>1
<1> HIDE DEF S
<1>4. S # {} => Min(S) \in S /\ \A n \in S : Min(S) <= n
  BY <1>3, FirstPlace
<1>5. IsFirst(HitIn(regions, x, y), regions, S)
  <2> DEFINE at == HitIn(regions, x, y)
             n == Len(regions)
  <2>1. CASE S = {}
    BY <1>1, <1>2, <2>1 DEF IsFirst
  <2>2. CASE S # {}
    <3>1. at = Min(S) /\ at \in S /\ \A k \in S : at <= k
      BY <1>2, <1>4, <2>2
    <3>2. at \in 1 .. n /\ n \in Nat
      BY <1>1, <1>3, <3>1
    <3> QED
      BY <3>1, <3>2 DEF IsFirst
  <2> QED
    BY <2>1, <2>2
<1> QED
  BY <1>5 DEF S

LEMMA MiddleIsInside ==
  ASSUME NEW rect \in Rects
  PROVE  ContainsPoint(rect, Middle(rect)[1], Middle(rect)[2])
<1> DEFINE w == rect.width \div 2
           h == rect.height \div 2
<1>1. rect.width \in Nat /\ rect.height \in Nat /\ rect.x \in Int /\ rect.y \in Int
  BY DEF Rects
<1>2. w \in 0 .. rect.width /\ h \in 0 .. rect.height
  BY <1>1
<1>3. Middle(rect)[1] = rect.x + w /\ Middle(rect)[2] = rect.y + h
  BY DEF Middle
<1> HIDE DEF w, h
<1>4. rect.x + w >= rect.x /\ rect.x + w <= rect.x + rect.width /\ rect.y + h >= rect.y /\ rect.y + h <= rect.y + rect.height
  BY <1>1, <1>2
<1> QED
  BY <1>3, <1>4 DEF ContainsPoint, Right, Bottom

LEMMA PointIsHit ==
  ASSUME NEW regions, IsList(regions), NEW i \in 1 .. Len(regions), regions[i].rect \in Rects
  PROVE  PointHit(regions, i) \in 1 .. Len(regions)
<1> DEFINE rect == regions[i].rect
           at == HitIn(regions, Middle(rect)[1], Middle(rect)[2])
           S == {n \in 1 .. Len(regions) : ContainsPoint(regions[n].rect, Middle(rect)[1], Middle(rect)[2])}
<1>1. PointHit(regions, i) = at
  BY DEF PointHit
<1>2. i \in S /\ S \subseteq 1 .. Len(regions)
  BY MiddleIsInside
<1>3. IsFirst(at, regions, S)
  BY HitIs
<1> HIDE DEF at, S
<1>4. S # {} /\ (at # 0 => at \in S) /\ (at = 0 => S = {})
  BY <1>2, <1>3 DEF IsFirst
<1> QED
  BY <1>1, <1>2, <1>4

-----------------------------------------------------------------------------
(* The page and what its handlers do with it                               *)
IsPage(page) ==
  DOMAIN page = {"document", "runtime", "focus", "events", "asked", "surface", "undrawn", "viewport", "engine", "regions"}

\* What handlers leave to the renderer.
Later(page, other) ==
  /\ IsPage(other) /\ other.viewport = page.viewport /\ other.engine = page.engine /\ page.undrawn \subseteq other.undrawn
  /\ other.surface = page.surface \/ "document" \in other.undrawn
\* The document, its DOM and the keyboard.
SameStanding(page, other) == other.document = page.document /\ other.runtime = page.runtime /\ other.focus = page.focus

\* An event of the handler that runs, of which no one typed.
Reaches(event, runtime) ==
  \/ event.default.kind = "None" \/ runtime = NoRuntimeYet
  \/ event.default.kind = "Navigate" /\ event.target = 1
  \/ event.target \in 1 .. Len(runtime.nodes) /\ IsForIt(event, runtime.nodes[event.target])
IsAimed(event, runtime) == event.kind # "Input" /\ Reaches(event, runtime)
AreAimed(events, runtime) == IsList(events) /\ \A i \in 1 .. Len(events) : IsAimed(events[i], runtime)
EventFits(event, runtime, document) ==
  /\ event.default.kind # "None" /\ runtime # NoRuntimeYet => IsForIt(event, runtime.nodes[event.target])
  /\ event.kind = "Input" /\ document # NoPageShown => runtime.nodes[event.target].control = FocusedControl(document)
EventsFit(events, runtime, document) == IsList(events) /\ \A i \in 1 .. Len(events) : EventFits(events[i], runtime, document)

\* Handlers one after the other.
LEMMA LaterFollows ==
  ASSUME NEW a, NEW b, NEW c, Later(a, b), Later(b, c)
  PROVE  Later(a, c)
  BY DEF Later

LEMMA LaterItself ==
  ASSUME NEW page, IsPage(page)
  PROVE  Later(page, page)
  BY DEF Later

\* What the parts of handlers do with the page.
LEMMA HandledIs ==
  ASSUME NEW page, IsPage(page)
  PROVE  Later(page, Handled(page)) /\ SameStanding(page, Handled(page)) /\ Handled(page).events = <<>> /\ Handled(page).surface = page.surface
  BY DEF Handled, Later, SameStanding, IsPage

LEMMA SurfaceIs ==
  ASSUME NEW page, IsPage(page), NEW document, NEW dirty
  PROVE  /\ Later(page, SetSurface(page, document, dirty)) /\ SameStanding(page, SetSurface(page, document, dirty))
         /\ SetSurface(page, document, dirty).events = page.events /\ SetSurface(page, document, dirty).surface.document = document
  BY DEF SetSurface, Later, SameStanding, IsPage

LEMMA ClearedIs ==
  ASSUME NEW page, IsPage(page)
  PROVE  /\ Later(page, ClearDom(page)) /\ ClearDom(page).runtime = NoRuntimeYet /\ ClearDom(page).focus = 0
         /\ ClearDom(page).document = page.document /\ ClearDom(page).events = page.events /\ ClearDom(page).surface = page.surface
  BY DEF ClearDom, Later, IsPage

LEMMA FocusPut ==
  ASSUME NEW page, IsPage(page), NEW focus
  PROVE  /\ Later(page, [page EXCEPT !.focus = focus]) /\ [page EXCEPT !.focus = focus].focus = focus
         /\ [page EXCEPT !.focus = focus].document = page.document /\ [page EXCEPT !.focus = focus].runtime = page.runtime
         /\ [page EXCEPT !.focus = focus].events = page.events /\ [page EXCEPT !.focus = focus].surface = page.surface
  BY DEF Later, IsPage

LEMMA ErrorShown ==
  ASSUME NEW page, IsPage(page)
  PROVE  /\ Later(page, ShowError(page)) /\ SameStanding(page, ShowError(page)) /\ ShowError(page).events = page.events
         /\ ShowError(page).surface = page.surface
  BY DEF ShowError, Later, SameStanding, IsPage

LEMMA DispatchedIs ==
  ASSUME NEW page, IsPage(page), IsDom(page.runtime), NEW event
  PROVE  /\ Later(page, Dispatch(page, event)) /\ Dispatch(page, event).document = page.document /\ Dispatch(page, event).focus = page.focus
         /\ IsDom(Dispatch(page, event).runtime) /\ SameNodes(page.runtime, Dispatch(page, event).runtime)
         /\ Dispatch(page, event).runtime.nodes = page.runtime.nodes /\ Dispatch(page, event).runtime.focus = page.runtime.focus
         /\ Dispatch(page, event).events = Append(page.events, event) /\ Dispatch(page, event).surface = page.surface
<1> DEFINE runtime == MarkDirty(page.runtime, DirtyOfEvent(event.kind))
           other == Dispatch(page, event)
<1>1. IsDom(runtime) /\ SameNodes(page.runtime, runtime) /\ runtime.nodes = page.runtime.nodes /\ runtime.focus = page.runtime.focus
  BY MarkedDom
<1>2. other = [page EXCEPT !.runtime = runtime, !.events = Append(page.events, event)]
  BY DEF Dispatch, IsPage
<1> HIDE DEF runtime, other
<1>3. /\ other.runtime = runtime /\ other.events = Append(page.events, event) /\ other.document = page.document /\ other.focus = page.focus
      /\ other.surface = page.surface /\ Later(page, other)
  BY <1>2 DEF IsPage, Later
<1> QED
  BY <1>1, <1>3 DEF other

\* The page goes.
LEMMA PageLeft ==
  ASSUME NEW page, IsPage(page), NEW asked
  PROVE  /\ Later(page, LeavePage(page, asked)) /\ LeavePage(page, asked).document = NoPageShown
         /\ LeavePage(page, asked).runtime = NoRuntimeYet /\ LeavePage(page, asked).focus = 0
         /\ LeavePage(page, asked).events = page.events /\ LeavePage(page, asked).surface.document = EmptyPage
<1> DEFINE cleared == ClearDom(page)
           gone == [cleared EXCEPT !.document = NoPageShown, !.asked = asked]
           left == SetSurface(gone, EmptyPage, AllDirty)
<1>1. LeavePage(page, asked) = left
  BY DEF LeavePage
<1>2. Later(page, cleared) /\ cleared.runtime = NoRuntimeYet /\ cleared.focus = 0 /\ cleared.events = page.events
  BY ClearedIs
<1> HIDE DEF cleared
<1>3. Later(cleared, gone) /\ gone.document = NoPageShown /\ gone.runtime = NoRuntimeYet /\ gone.focus = 0 /\ gone.events = page.events
  BY <1>2 DEF Later, IsPage
<1> HIDE DEF gone
<1>4. IsPage(gone)
  BY <1>3 DEF Later
<1>5. Later(gone, left) /\ SameStanding(gone, left) /\ left.events = gone.events /\ left.surface.document = EmptyPage
  BY <1>4, SurfaceIs
<1> HIDE DEF left
<1>6. Later(page, left)
  BY <1>2, <1>3, <1>5, LaterFollows
<1> QED
  BY <1>1, <1>3, <1>5, <1>6 DEF SameStanding

\* The document of the page is another one, and so is its DOM.
LEMMA CommittedIs ==
  ASSUME NEW page, IsPage(page), NEW document, IsInteractive(document),
         page.runtime = NoRuntimeYet \/ HasNodes(page.runtime, document)
  PROVE  LET other == CommitDocument(page, document) IN
         /\ Later(page, other) /\ other.document = document /\ other.focus = page.focus /\ other.events = page.events
         /\ other.surface.document = document
         /\ page.runtime = NoRuntimeYet => other.runtime = NoRuntimeYet
         /\ page.runtime # NoRuntimeYet => SameNodes(page.runtime, other.runtime) /\ FitsDocument(other.runtime, document)
<1> DEFINE has == HasRuntime(page)
           synced == IF has THEN SyncFromDocument(page.runtime, document) ELSE NoRuntimeYet
           dirty == IF has THEN synced.dirty ELSE {}
           runtime == IF has THEN [synced EXCEPT !.dirty = {}] ELSE page.runtime
           between == [page EXCEPT !.document = document, !.runtime = runtime]
           other == SetSurface(between, document, dirty)
<1>1. CommitDocument(page, document) = other
  BY DEF IsPage, CommitDocument
<1>2. has <=> page.runtime # NoRuntimeYet
  BY DEF HasRuntime
<1>3. has => SameNodes(page.runtime, synced) /\ FitsDocument(synced, document) /\ IsDom(synced)
  BY <1>2, SyncFits DEF SameNodes
<1> HIDE DEF synced, has
<1>4. has => SameNodes(page.runtime, runtime) /\ FitsDocument(runtime, document)
  <2> SUFFICES ASSUME has PROVE SameNodes(page.runtime, runtime) /\ FitsDocument(runtime, document)
    OBVIOUS
  <2>1. IsDom(synced) /\ SameNodes(page.runtime, synced)
    BY <1>3
  <2>2. IsDom(runtime) /\ runtime.nodes = synced.nodes /\ runtime.focus = synced.focus
    BY <2>1 DEF IsDom
  <2> HIDE DEF runtime
  <2>3. SameNodes(synced, runtime)
    BY <2>1, <2>2 DEF SameNodes
  <2>4. SameNodes(page.runtime, runtime)
    BY <2>1, <2>3, SameNodesFollow
  <2>5. \A control : NodeForControl(runtime, control) = NodeForControl(synced, control)
    BY <2>1, <2>3, SameNodesFound
  <2>6. FitsDocument(synced, document)
    BY <1>3
  <2>7. FitsDocument(runtime, document)
    BY <2>2, <2>5, <2>6 DEF FitsDocument, HasNodes
  <2> QED
    BY <2>4, <2>7
<1>5. ~has => runtime = page.runtime
  OBVIOUS
<1> HIDE DEF runtime, dirty
<1>6. Later(page, between) /\ between.document = document /\ between.runtime = runtime /\ between.focus = page.focus /\ between.events = page.events
  BY DEF Later, IsPage
<1> HIDE DEF between
<1>7. IsPage(between)
  BY <1>6 DEF Later
<1>8. Later(between, other) /\ SameStanding(between, other) /\ other.events = between.events /\ other.surface.document = document
  BY <1>7, SurfaceIs
<1> HIDE DEF other
<1>9. Later(page, other)
  BY <1>6, <1>8, LaterFollows
<1> QED
  BY <1>1, <1>2, <1>4, <1>5, <1>6, <1>8, <1>9 DEF SameStanding

-----------------------------------------------------------------------------
(* Events                                                                  *)

\* A DOM is not the one there is before a page comes.
LEMMA DomIsSome ==
  ASSUME NEW runtime, IsDom(runtime)
  PROVE  runtime # NoRuntimeYet
<1>1. DOMAIN NoRuntimeYet = {"nodes"}
  BY DEF NoRuntimeYet
<1> QED
  BY <1>1 DEF IsDom

\* The target of an event is the node of a control.
Aims(target, runtime, control) == target \in 1 .. Len(runtime.nodes) /\ runtime.nodes[target].control = control
EventAims(event, runtime, document) ==
  /\ Reaches(event, runtime)
  /\ event.kind = "Input" => Aims(event.target, runtime, FocusedControl(document))
EventsAim(events, runtime, document) == IsList(events) /\ \A i \in 1 .. Len(events) : EventAims(events[i], runtime, document)

\* Events keep their targets as long as the nodes stay.
LEMMA AimsKept ==
  ASSUME NEW runtime, IsDom(runtime), NEW other, SameNodes(runtime, other), NEW events, NEW document, EventsAim(events, runtime, document)
  PROVE  EventsAim(events, other, document)
<1>1. runtime # NoRuntimeYet
  BY DomIsSome
<1>2. \A target, control : Aims(target, runtime, control) => Aims(target, other, control)
  BY DEF Aims, SameNodes
<1>3. \A event : Reaches(event, runtime) => Reaches(event, other)
  BY <1>1 DEF Reaches, IsForIt, SameNodes
<1> QED
  BY <1>2, <1>3 DEF EventsAim, EventAims

LEMMA AimedFit ==
  ASSUME NEW events, NEW runtime, NEW document, EventsAim(events, runtime, document)
  PROVE  EventsFit(events, runtime, document)
<1>1. \A event : Reaches(event, runtime) /\ event.default.kind # "None" /\ runtime # NoRuntimeYet => IsForIt(event, runtime.nodes[event.target])
  BY DEF Reaches, IsForIt
<1> QED
  BY <1>1 DEF EventsAim, EventAims, EventsFit, EventFits, Aims

LEMMA AimedAim ==
  ASSUME NEW events, NEW runtime, AreAimed(events, runtime), NEW document
  PROVE  EventsAim(events, runtime, document)
  BY DEF EventsAim, EventAims, AreAimed, IsAimed

LEMMA EventAdded ==
  ASSUME NEW events, NEW runtime, NEW document, EventsAim(events, runtime, document), NEW event, EventAims(event, runtime, document)
  PROVE  EventsAim(Append(events, event), runtime, document)
<1> DEFINE all == Append(events, event)
           n == Len(events)
<1>1. IsList(events) /\ n \in Nat
  BY ListFacts DEF EventsAim
<1>2. IsList(all) /\ Len(all) = n + 1 /\ (\A i \in 1 .. n : all[i] = events[i]) /\ all[n + 1] = event
  BY <1>1, AppendList
<1> HIDE DEF all
<1>3. \A i \in 1 .. n : EventAims(events[i], runtime, document)
  BY DEF EventsAim
<1> HIDE DEF n
<1>4. \A i \in 1 .. n + 1 : i \in 1 .. n \/ i = n + 1
  BY <1>1
<1>5. \A i \in 1 .. n + 1 : EventAims(all[i], runtime, document)
  BY <1>2, <1>3, <1>4
<1> QED
  BY <1>2, <1>5 DEF EventsAim, all

\* The DOM follows the document, and who typed is told.
LEMMA MutationIs ==
  ASSUME NEW page, IsPage(page), NEW document, IsInteractive(document),
         page.runtime = NoRuntimeYet \/ HasNodes(page.runtime, document), AreAimed(page.events, page.runtime)
  PROVE  LET other == DispatchMutation(page, document) IN
         /\ Later(page, other) /\ other.focus = page.focus
         /\ page.runtime = NoRuntimeYet => other.runtime = NoRuntimeYet
         /\ page.runtime # NoRuntimeYet => SameNodes(page.runtime, other.runtime) /\ HasNodes(other.runtime, document)
         /\ EventsAim(other.events, other.runtime, document)
<1> DEFINE other == DispatchMutation(page, document)
           runtime == SyncFromDocument(page.runtime, document)
           synced == [page EXCEPT !.runtime = runtime]
           id == FocusedControl(document)
           event == DomEvent("Input", OrRoot(NodeForControl(synced.runtime, id)), Action("None", <<>>))
           typed == Dispatch(synced, event)
<1>1. CASE page.runtime = NoRuntimeYet
  BY <1>1, LaterItself, AimedAim DEF DispatchMutation, HasRuntime
<1>2. CASE page.runtime # NoRuntimeYet
  <2>1. other = IF id = 0 THEN synced ELSE typed
    BY <1>2 DEF IsPage, DispatchMutation, HasRuntime
  <2>2. HasNodes(page.runtime, document) /\ IsDom(page.runtime)
    BY <1>2 DEF HasNodes
  <2>3. SameNodes(page.runtime, runtime) /\ FitsDocument(runtime, document)
    BY <2>2, SyncFits
  <2> HIDE DEF runtime, other
  <2>4. Later(page, synced) /\ synced.focus = page.focus /\ synced.runtime = runtime /\ synced.events = page.events
    BY DEF Later, IsPage
  <2>5. IsDom(runtime) /\ HasNodes(runtime, document)
    BY <2>3 DEF SameNodes, FitsDocument
  <2>6. EventsAim(page.events, page.runtime, document)
    BY AimedAim
  <2>7. EventsAim(synced.events, runtime, document)
    BY <2>2, <2>3, <2>4, <2>6, AimsKept
  <2> HIDE DEF synced
  <2>8. CASE id = 0
    BY <1>2, <2>1, <2>3, <2>4, <2>5, <2>7, <2>8 DEF other
  <2>9. CASE id # 0
    <3>1. IsPage(synced) /\ IsDom(synced.runtime)
      BY <2>4, <2>5 DEF Later
    <3>2. /\ Later(synced, typed) /\ typed.focus = synced.focus
          /\ IsDom(typed.runtime) /\ SameNodes(runtime, typed.runtime) /\ typed.runtime.nodes = runtime.nodes
          /\ typed.events = Append(synced.events, event)
      BY <2>4, <3>1, DispatchedIs
    <3>3. NodeForControl(runtime, id) # 0
      <4>1. PICK p \in 1 .. Len(ControlsOf(document)) : id = ControlsOf(document)[p].id
        BY <2>9, FocusKnown
      <4> QED
        BY <2>5, <4>1 DEF HasNodes
    <3>4. EventAims(event, runtime, document)
      <4>1. NodeForControl(runtime, id) \in 1 .. Len(runtime.nodes) /\ runtime.nodes[NodeForControl(runtime, id)].control = id
        BY <2>5, <3>3, NodeFound
      <4>2. event.target = NodeForControl(runtime, id) /\ event.default.kind = "None"
        BY <2>4, <3>3 DEF DomEvent, Action, OrRoot
      <4> HIDE DEF event
      <4> QED
        BY <4>1, <4>2 DEF EventAims, Aims, Reaches
    <3> HIDE DEF event, typed
    <3>5. EventsAim(typed.events, runtime, document)
      BY <2>7, <3>2, <3>4, EventAdded
    <3>6. EventsAim(typed.events, typed.runtime, document)
      BY <2>5, <3>2, <3>5, AimsKept
    <3>7. HasNodes(typed.runtime, document)
      BY <2>5, <3>2, SameNodesFound DEF HasNodes
    <3>8. SameNodes(page.runtime, typed.runtime)
      BY <2>3, <3>2, SameNodesFollow
    <3>9. Later(page, typed)
      BY <2>4, <3>2, LaterFollows
    <3> QED
      BY <1>2, <2>1, <2>4, <2>9, <3>2, <3>6, <3>7, <3>8, <3>9 DEF other
  <2> QED
    BY <2>8, <2>9
<1> QED
  BY <1>1, <1>2

\* The document is changed, its DOM with it.
PageShows(other, document) ==
  /\ other.document = document /\ other.surface.document = document
  /\ other.runtime = NoRuntimeYet \/ FitsDocument(other.runtime, document)
  /\ EventsFit(other.events, other.runtime, document)

LEMMA EditedIs ==
  ASSUME NEW page, IsPage(page), NEW document, IsInteractive(document),
         page.runtime = NoRuntimeYet \/ HasNodes(page.runtime, document), AreAimed(page.events, page.runtime)
  PROVE  LET other == CommitDocument(DispatchMutation(page, document), document) IN
         Later(page, other) /\ other.focus = page.focus /\ PageShows(other, document)
<1> DEFINE between == DispatchMutation(page, document)
           other == CommitDocument(between, document)
<1>1. /\ Later(page, between) /\ between.focus = page.focus
      /\ page.runtime = NoRuntimeYet => between.runtime = NoRuntimeYet
      /\ page.runtime # NoRuntimeYet => SameNodes(page.runtime, between.runtime) /\ HasNodes(between.runtime, document)
      /\ EventsAim(between.events, between.runtime, document)
  BY MutationIs
<1> HIDE DEF between
<1>2. IsPage(between) /\ (between.runtime = NoRuntimeYet \/ HasNodes(between.runtime, document))
  BY <1>1 DEF Later
<1>3. /\ Later(between, other) /\ other.document = document /\ other.focus = between.focus /\ other.events = between.events
      /\ other.surface.document = document
      /\ between.runtime = NoRuntimeYet => other.runtime = NoRuntimeYet
      /\ between.runtime # NoRuntimeYet => SameNodes(between.runtime, other.runtime) /\ FitsDocument(other.runtime, document)
  BY <1>2, CommittedIs
<1> HIDE DEF other
<1>4. Later(page, other)
  BY <1>1, <1>3, LaterFollows
<1>5. EventsAim(other.events, other.runtime, document)
  <2>1. CASE between.runtime = NoRuntimeYet
    BY <1>1, <1>3, <2>1
  <2>2. CASE between.runtime # NoRuntimeYet
    BY <1>1, <1>2, <1>3, <2>2, AimsKept DEF HasNodes
  <2> QED
    BY <2>1, <2>2
<1>6. EventsFit(other.events, other.runtime, document)
  BY <1>5, AimedFit
<1> QED
  BY <1>1, <1>3, <1>4, <1>6 DEF PageShows, other, between

-----------------------------------------------------------------------------
(* Handlers                                                                *)

\* The keyboard writes into the control that has the caret, or into none.
FocusFits(focus, document) ==
  focus # 0 => \/ FocusedControl(document) = focus
               \/ FocusedControl(document) = 0 /\ ~MayFocus(ControlById(document, focus))
IsGone(page) ==
  /\ page.document = NoPageShown /\ page.runtime = NoRuntimeYet /\ page.focus = 0
  /\ page.surface.document \in {NoPageShown, EmptyPage} /\ IsList(page.events)
IsShown(page) == IsInteractive(page.document) /\ PageShows(page, page.document) /\ FocusFits(page.focus, page.document)
PageStands(page) == IsGone(page) \/ IsShown(page)

\* A document with the same ids has nodes in the same DOM.
SameIds(document, other) ==
  /\ Len(ControlsOf(other)) = Len(ControlsOf(document))
  /\ \A p \in 1 .. Len(ControlsOf(document)) : ControlsOf(other)[p].id = ControlsOf(document)[p].id

LEMMA IdsKept ==
  ASSUME NEW document, NEW other, SameIds(document, other), NEW runtime, HasNodes(runtime, document)
  PROVE  HasNodes(runtime, other)
  BY DEF SameIds, HasNodes

LEMMA IdsOfRefocused ==
  ASSUME NEW document, IsRenderDocument(document), NEW id, NEW other, RefocusedTo(document, other, id)
  PROVE  SameIds(document, other)
<1>1. \A p \in 1 .. Len(ControlsOf(document)) : IsControl(ControlsOf(document)[p])
  BY ControlsAre
<1>2. \A p \in 1 .. Len(ControlsOf(document)) : Refocused(ControlsOf(document)[p], id).id = ControlsOf(document)[p].id
  BY <1>1, ControlRefocused
<1> QED
  BY <1>2 DEF SameIds, RefocusedTo

LEMMA IdsOfSame ==
  ASSUME NEW document, NEW other, SameControls(document, other)
  PROVE  SameIds(document, other)
  BY DEF SameIds, SameControls, SameControl

LEMMA IdsOfItself ==
  ASSUME NEW document
  PROVE  SameIds(document, document)
  BY DEF SameIds

\* A document is not the one of no page.
LEMMA ShownSomething ==
  ASSUME NEW document, IsRenderDocument(document)
  PROVE  document # NoPageShown
<1>1. DOMAIN NoPageShown = {"none"}
  BY DEF NoPageShown
<1> QED
  BY <1>1 DEF IsRenderDocument

-----------------------------------------------------------------------------
\* What handlers end with: the page is left, stays, or is acted on.
LEMMA LeftStands ==
  ASSUME NEW page, IsPage(page), IsList(page.events), NEW asked
  PROVE  Later(page, LeavePage(page, asked)) /\ PageStands(LeavePage(page, asked))
<1> DEFINE left == LeavePage(page, asked)
<1>1. /\ Later(page, left) /\ left.document = NoPageShown /\ left.runtime = NoRuntimeYet /\ left.focus = 0
      /\ left.events = page.events /\ left.surface.document = EmptyPage
  BY PageLeft
<1> HIDE DEF left
<1> QED
  BY <1>1 DEF PageStands, IsGone, left

LEMMA StandsTheSame ==
  ASSUME NEW page, PageStands(page), NEW other, SameStanding(page, other), other.events = page.events, other.surface = page.surface
  PROVE  PageStands(other)
  BY DEF PageStands, IsGone, IsShown, PageShows, SameStanding

LEMMA ActedIs ==
  ASSUME NEW page, IsPage(page), PageStands(page), NEW action
  PROVE  Later(page, Acted(page, action)) /\ PageStands(Acted(page, action))
<1>1. IsList(page.events)
  BY DEF PageStands, IsGone, IsShown, PageShows, EventsFit
<1>2. CASE action.kind = "Submit"
  <2> DEFINE away == [page EXCEPT !.focus = 0]
             left == LeavePage(away, action.what)
  <2>1. Acted(page, action) = left
    BY <1>2 DEF Acted
  <2>2. Later(page, away) /\ away.events = page.events
    BY FocusPut
  <2> HIDE DEF away
  <2>3. IsPage(away) /\ IsList(away.events)
    BY <1>1, <2>2 DEF Later
  <2>4. Later(away, left) /\ PageStands(left)
    BY <2>3, LeftStands
  <2> HIDE DEF left
  <2> QED
    BY <2>1, <2>2, <2>4, LaterFollows
<1>3. CASE action.kind = "Error"
  BY <1>3, ErrorShown, StandsTheSame DEF Acted
<1>4. CASE action.kind # "Submit" /\ action.kind # "Error"
  BY <1>4, LaterItself DEF Acted
<1> QED
  BY <1>2, <1>3, <1>4

\* What is edited is shown, and then acted on.
LEMMA EditedStands ==
  ASSUME NEW page, IsPage(page), NEW document, IsInteractive(document), FocusFits(page.focus, document),
         page.runtime = NoRuntimeYet \/ HasNodes(page.runtime, document), AreAimed(page.events, page.runtime), NEW action
  PROVE  LET other == Acted(CommitDocument(DispatchMutation(page, document), document), action) IN
         Later(page, other) /\ PageStands(other)
<1> DEFINE edited == CommitDocument(DispatchMutation(page, document), document)
           other == Acted(edited, action)
<1>1. Later(page, edited) /\ edited.focus = page.focus /\ PageShows(edited, document)
  BY EditedIs
<1> HIDE DEF edited
<1>2. IsPage(edited) /\ PageStands(edited)
  BY <1>1 DEF Later, PageStands, IsShown, PageShows
<1>3. Later(edited, other) /\ PageStands(other)
  BY <1>2, ActedIs
<1> HIDE DEF other
<1>4. Later(page, other)
  BY <1>1, <1>3, LaterFollows
<1> QED
  BY <1>3, <1>4 DEF other, edited

\* A page whose handler has just begun.
Begun(page) == IsPage(page) /\ IsShown(page) /\ page.events = <<>>

LEMMA BegunIs ==
  ASSUME NEW page, Begun(page)
  PROVE  /\ IsPage(page) /\ IsInteractive(page.document) /\ IsRenderDocument(page.document) /\ AreAimed(page.events, page.runtime)
         /\ page.runtime = NoRuntimeYet \/ FitsDocument(page.runtime, page.document)
         /\ FocusFits(page.focus, page.document) /\ page.surface.document = page.document
<1>1. AreAimed(<<>>, page.runtime)
  BY EmptyList DEF AreAimed
<1> QED
  BY <1>1 DEF Begun, IsShown, PageShows, IsInteractive

\* The focus is set, the document changed, and the action taken.
LEMMA FocusSetStands ==
  ASSUME NEW page, Begun(page), NEW focus, NEW document, IsInteractive(document), SameIds(page.document, document), FocusFits(focus, document),
         NEW action
  PROVE  LET other == Acted(CommitDocument(DispatchMutation([page EXCEPT !.focus = focus], document), document), action) IN
         Later(page, other) /\ PageStands(other)
<1> DEFINE begun == [page EXCEPT !.focus = focus]
           other == Acted(CommitDocument(DispatchMutation(begun, document), document), action)
<1>1. IsPage(page) /\ AreAimed(page.events, page.runtime) /\ (page.runtime = NoRuntimeYet \/ FitsDocument(page.runtime, page.document))
  BY BegunIs
<1>2. Later(page, begun) /\ begun.focus = focus /\ begun.runtime = page.runtime /\ begun.events = page.events
  BY <1>1, FocusPut
<1> HIDE DEF begun
<1>3. IsPage(begun) /\ AreAimed(begun.events, begun.runtime) /\ FocusFits(begun.focus, document)
  BY <1>1, <1>2 DEF Later
<1>4. begun.runtime = NoRuntimeYet \/ HasNodes(begun.runtime, document)
  BY <1>1, <1>2, IdsKept DEF FitsDocument
<1>5. Later(begun, other) /\ PageStands(other)
  BY <1>3, <1>4, EditedStands
<1> HIDE DEF other
<1>6. Later(page, other)
  BY <1>2, <1>5, LaterFollows
<1> QED
  BY <1>5, <1>6 DEF other, begun

-----------------------------------------------------------------------------
(* Clicks                                                                  *)

\* The focus moves to a control, if it may have it, and away from the others.
LEMMA FocusTurned ==
  ASSUME NEW document, IsInteractive(document), NEW id
  PROVE  /\ IsInteractive(FocusFormControl(document, id)) /\ SameIds(document, FocusFormControl(document, id))
         /\ \A p \in 1 .. Len(ControlsOf(document)) : ControlsOf(document)[p].id = id => FocusFits(id, FocusFormControl(document, id))
         /\ FocusFits(0, FocusFormControl(document, id))
<1> DEFINE other == FocusFormControl(document, id)
<1>1. IsRenderDocument(document)
  BY DEF IsInteractive
<1>2. RefocusedTo(document, other, id)
  BY <1>1, FocusMoves
<1> HIDE DEF other
<1>3. /\ IsInteractive(other)
      /\ \A p \in 1 .. Len(ControlsOf(document)) : ControlsOf(document)[p].id = id =>
              /\ MayFocus(ControlsOf(document)[p]) => FocusedControl(other) = id
              /\ ~MayFocus(ControlsOf(document)[p]) => FocusedControl(other) = 0 /\ ~MayFocus(ControlById(other, id))
  BY <1>2, RefocusedIsInteractive
<1>4. SameIds(document, other)
  BY <1>1, <1>2, IdsOfRefocused
<1>5. \A p \in 1 .. Len(ControlsOf(document)) : ControlsOf(document)[p].id = id => FocusFits(id, other)
  BY <1>3 DEF FocusFits
<1> QED
  BY <1>3, <1>4, <1>5 DEF other, FocusFits

\* The click is dispatched on the node of the control.
ClickOf(page, control) ==
  IF HasRuntime(page)
  THEN Dispatch(page, DomEvent("Click", OrRoot(NodeForControl(page.runtime, control.id)),
                               DefaultAction("Click", control, FormOf(page.document, control.id).id, <<>>)))
  ELSE page

LEMMA ClickDispatched ==
  ASSUME NEW page, Begun(page), NEW p \in 1 .. Len(ControlsOf(page.document))
  PROVE  LET clicked == ClickOf(page, ControlsOf(page.document)[p]) IN
         /\ Later(page, clicked) /\ clicked.focus = page.focus /\ clicked.document = page.document
         /\ clicked.runtime = NoRuntimeYet \/ HasNodes(clicked.runtime, page.document)
         /\ AreAimed(clicked.events, clicked.runtime)
<1> DEFINE control == ControlsOf(page.document)[p]
           id == control.id
           event == DomEvent("Click", OrRoot(NodeForControl(page.runtime, id)), DefaultAction("Click", control, FormOf(page.document, id).id, <<>>))
           clicked == ClickOf(page, control)
<1>1. /\ IsPage(page) /\ AreAimed(page.events, page.runtime)
      /\ page.runtime = NoRuntimeYet \/ HasNodes(page.runtime, page.document)
  BY BegunIs DEF FitsDocument
<1>2. CASE ~HasRuntime(page)
  BY <1>1, <1>2, LaterItself DEF ClickOf, HasRuntime
<1>3. CASE HasRuntime(page)
  <2>1. clicked = Dispatch(page, event)
    BY <1>3 DEF ClickOf
  <2>2. HasNodes(page.runtime, page.document) /\ IsDom(page.runtime)
    BY <1>1, <1>3 DEF HasRuntime, HasNodes
  <2>3. NodeForControl(page.runtime, id) # 0
    BY <2>2 DEF HasNodes
  <2>4. NodeForControl(page.runtime, id) \in 1 .. Len(page.runtime.nodes) /\ page.runtime.nodes[NodeForControl(page.runtime, id)].control = id
    BY <2>2, <2>3, NodeFound
  <2>5. /\ event.kind = "Click" /\ event.target = NodeForControl(page.runtime, id)
        /\ event.default.kind = "FocusControl" => event.default.what = id
        /\ event.default.kind = "SubmitForm" => event.default.what[2] = id
        /\ event.default.kind # "Navigate"
    BY <2>3 DEF DomEvent, OrRoot, DefaultAction, Action
  <2> HIDE DEF event, clicked
  <2>6. /\ Later(page, clicked) /\ clicked.document = page.document /\ clicked.focus = page.focus
        /\ IsDom(clicked.runtime) /\ SameNodes(page.runtime, clicked.runtime) /\ clicked.runtime.nodes = page.runtime.nodes
        /\ clicked.events = Append(page.events, event)
    BY <1>1, <2>1, <2>2, DispatchedIs
  <2>7. IsAimed(event, clicked.runtime)
    BY <2>4, <2>5, <2>6 DEF IsAimed, Reaches, IsForIt
  <2>8. AreAimed(clicked.events, clicked.runtime)
    <3>1. page.events = <<>> /\ IsList(<<>>) /\ Len(<<>>) = 0
      BY EmptyList DEF Begun
    <3>2. IsList(Append(<<>>, event)) /\ Len(Append(<<>>, event)) = 1 /\ Append(<<>>, event)[1] = event
      <4>1. IsList(Append(<<>>, event)) /\ Len(Append(<<>>, event)) = Len(<<>>) + 1 /\ Append(<<>>, event)[Len(<<>>) + 1] = event
        BY <3>1, AppendList
      <4> QED
        BY <3>1, <4>1
    <3>3. clicked.events = Append(<<>>, event) /\ \A i \in 1 .. 1 : i = 1
      BY <2>6, <3>1
    <3> QED
      BY <2>7, <3>2, <3>3 DEF AreAimed
  <2>9. HasNodes(clicked.runtime, page.document)
    BY <2>2, <2>6, SameNodesFound DEF HasNodes
  <2> QED
    BY <2>6, <2>8, <2>9 DEF clicked
<1> QED
  BY <1>2, <1>3

\* A click on a control.
LEMMA ControlClickedStands ==
  ASSUME NEW page, Begun(page), NEW p \in 1 .. Len(ControlsOf(page.document))
  PROVE  /\ Later(page, ClickControl(page, ControlsOf(page.document)[p]))
         /\ PageStands(ClickControl(page, ControlsOf(page.document)[p]))
<1> DEFINE control == ControlsOf(page.document)[p]
           id == control.id
           clicked == ClickOf(page, control)
           editable == control.kind \in TextEditable
           submits == control.kind \in SubmitLike
           document == IF editable \/ submits THEN FocusFormControl(page.document, IF editable THEN id ELSE 0) ELSE page.document
           focus == IF editable THEN id ELSE IF submits THEN 0 ELSE page.focus
           focused == [clicked EXCEPT !.focus = focus]
           action == IF control.kind = "Submit" THEN Submission(FormOf(document, id), id) ELSE Action("Mutated", <<>>)
           other == Acted(CommitDocument(DispatchMutation(focused, document), document), action)
<1>1. /\ Later(page, clicked) /\ clicked.focus = page.focus /\ clicked.document = page.document
      /\ clicked.runtime = NoRuntimeYet \/ HasNodes(clicked.runtime, page.document)
      /\ AreAimed(clicked.events, clicked.runtime)
  BY ClickDispatched
<1>2. IsPage(clicked)
  BY <1>1 DEF Later
<1>3. ClickControl(page, control) = other
  <2> DEFINE set == [clicked EXCEPT !.focus = IF editable THEN id ELSE IF submits THEN 0 ELSE @]
             acted == Acted(CommitDocument(DispatchMutation(set, document), document), action)
  <2>1. ClickControl(page, control) = acted
    BY DEF ClickControl, ClickOf
  <2> HIDE DEF clicked
  <2>2. set = focused
    BY <1>1, <1>2 DEF IsPage
  <2> HIDE DEF action, document, focused, set
  <2> QED
    BY <2>1, <2>2
<1> HIDE DEF clicked
<1>4. IsInteractive(page.document) /\ FocusFits(page.focus, page.document)
  BY BegunIs
<1>5. IsInteractive(document) /\ SameIds(page.document, document) /\ FocusFits(focus, document)
  BY <1>4, FocusTurned, IdsOfItself
<1> HIDE DEF document, focus, action
<1>6. Later(clicked, focused) /\ focused.focus = focus /\ focused.runtime = clicked.runtime /\ focused.events = clicked.events
  BY <1>2, FocusPut
<1> HIDE DEF focused
<1>7. IsPage(focused) /\ FocusFits(focused.focus, document) /\ AreAimed(focused.events, focused.runtime)
  BY <1>1, <1>5, <1>6 DEF Later
<1>8. focused.runtime = NoRuntimeYet \/ HasNodes(focused.runtime, document)
  BY <1>1, <1>5, <1>6, IdsKept
<1>9. Later(focused, other) /\ PageStands(other)
  BY <1>5, <1>7, <1>8, EditedStands
<1> HIDE DEF other
<1>10. Later(page, other)
  BY <1>1, <1>6, <1>9, LaterFollows
<1> QED
  BY <1>3, <1>9, <1>10

\* A click on no control.
LEMMA UnfocusedStands ==
  ASSUME NEW page, Begun(page)
  PROVE  Later(page, Unfocused(page)) /\ Begun(Unfocused(page))
<1>1. /\ IsPage(page) /\ IsInteractive(page.document) /\ page.events = <<>>
      /\ page.runtime = NoRuntimeYet \/ FitsDocument(page.runtime, page.document)
  BY BegunIs DEF Begun
<1>2. CASE page.focus = 0
  BY <1>1, <1>2, LaterItself DEF Unfocused
<1>3. CASE page.focus # 0
  <2> DEFINE set == [page EXCEPT !.focus = 0]
             document == FocusFormControl(page.document, 0)
             other == CommitDocument(set, document)
  <2>1. Unfocused(page) = other
    BY <1>3 DEF Unfocused
  <2>2. Later(page, set) /\ set.focus = 0 /\ set.runtime = page.runtime /\ set.events = page.events
    BY <1>1, FocusPut
  <2>3. IsInteractive(document) /\ SameIds(page.document, document) /\ FocusFits(0, document)
    BY <1>1, FocusTurned
  <2> HIDE DEF set, document
  <2>4. IsPage(set) /\ (set.runtime = NoRuntimeYet \/ HasNodes(set.runtime, document))
    BY <1>1, <2>2, <2>3, IdsKept DEF Later, FitsDocument
  <2>5. /\ Later(set, other) /\ other.document = document /\ other.focus = set.focus /\ other.events = set.events
        /\ other.surface.document = document
        /\ set.runtime = NoRuntimeYet => other.runtime = NoRuntimeYet
        /\ set.runtime # NoRuntimeYet => SameNodes(set.runtime, other.runtime) /\ FitsDocument(other.runtime, document)
    BY <2>3, <2>4, CommittedIs
  <2> HIDE DEF other
  <2>6. Later(page, other) /\ IsPage(other)
    BY <2>2, <2>5, LaterFollows DEF Later
  <2>7. EventsFit(other.events, other.runtime, document)
    BY <1>1, <2>2, <2>5, EmptyList DEF EventsFit
  <2>8. Begun(other)
    BY <1>1, <2>2, <2>3, <2>5, <2>6, <2>7 DEF Begun, IsShown, PageShows
  <2> QED
    BY <2>1, <2>6, <2>8
<1> QED
  BY <1>2, <1>3

LEMMA BegunStands ==
  ASSUME NEW page, Begun(page)
  PROVE  PageStands(page)
  BY DEF Begun, PageStands

\* A click on a link.
LEMMA LinkClickedStands ==
  ASSUME NEW page, Begun(page), NEW region, NEW supported
  PROVE  Later(page, ClickLink(page, region, supported)) /\ PageStands(ClickLink(page, region, supported))
<1> DEFINE event == DomEvent("Click", OrRoot(NodeForLink(page.runtime, region.href, region.text)), Action("Navigate", region.href))
           clicked == IF HasRuntime(page) THEN Dispatch(page, event) ELSE page
           other == IF supported THEN LeavePage(clicked, region.href) ELSE ShowError(clicked)
<1>1. ClickLink(page, region, supported) = other
  BY DEF ClickLink
<1>2. /\ IsPage(page) /\ IsInteractive(page.document) /\ page.events = <<>> /\ FocusFits(page.focus, page.document)
      /\ page.runtime = NoRuntimeYet \/ FitsDocument(page.runtime, page.document)
      /\ page.surface.document = page.document /\ PageStands(page)
  BY BegunIs, BegunStands DEF Begun
<1>3. /\ event.kind = "Click" /\ event.default = Action("Navigate", region.href)
      /\ event.target = OrRoot(NodeForLink(page.runtime, region.href, region.text))
  BY DEF DomEvent
<1> HIDE DEF event
<1>4. Later(page, clicked) /\ IsPage(clicked) /\ PageStands(clicked)
  <2>1. CASE ~HasRuntime(page)
    BY <1>2, <2>1, LaterItself
  <2>2. CASE HasRuntime(page)
    <3>1. FitsDocument(page.runtime, page.document) /\ IsDom(page.runtime)
      BY <1>2, <2>2 DEF HasRuntime, FitsDocument, HasNodes
    <3>2. clicked = Dispatch(page, event)
      BY <2>2
    <3> HIDE DEF clicked
    <3>3. /\ Later(page, clicked) /\ clicked.document = page.document /\ clicked.focus = page.focus
          /\ IsDom(clicked.runtime) /\ SameNodes(page.runtime, clicked.runtime)
          /\ clicked.runtime.nodes = page.runtime.nodes /\ clicked.runtime.focus = page.runtime.focus
          /\ clicked.events = Append(page.events, event) /\ clicked.surface = page.surface
      BY <1>2, <3>1, <3>2, DispatchedIs
    <3>4. \A c : NodeForControl(clicked.runtime, c) = NodeForControl(page.runtime, c)
      BY <3>1, <3>3, SameNodesFound
    <3>5. FitsDocument(clicked.runtime, page.document)
      BY <3>1, <3>3, <3>4 DEF FitsDocument, HasNodes
    <3>6. EventsAim(clicked.events, clicked.runtime, page.document)
      <4>1. EventsAim(<<>>, clicked.runtime, page.document)
        BY EmptyList DEF EventsAim
      <4>2. EventAims(event, clicked.runtime, page.document)
        <5>1. event.default.kind = "Navigate" /\ event.default.what = region.href
          BY <1>3 DEF Action
        <5>2. \/ event.target = 1
              \/ /\ event.target \in 1 .. Len(page.runtime.nodes)
                 /\ page.runtime.nodes[event.target].kind = "Link" /\ page.runtime.nodes[event.target].link[1].id = region.href
          BY <1>3, <3>1, LinkFound
        <5> QED
          BY <1>3, <3>3, <5>1, <5>2 DEF EventAims, Reaches, IsForIt
      <4> QED
        BY <1>2, <3>3, <4>1, <4>2, EventAdded
    <3>7. EventsFit(clicked.events, clicked.runtime, page.document)
      BY <3>6, AimedFit
    <3>8. IsShown(clicked)
      BY <1>2, <3>3, <3>5, <3>7 DEF IsShown, PageShows
    <3> QED
      BY <3>3, <3>8 DEF PageStands, Later
  <2> QED
    BY <2>1, <2>2
<1> HIDE DEF clicked
<1>5. IsList(clicked.events)
  BY <1>4 DEF PageStands, IsGone, IsShown, PageShows, EventsFit
<1>6. Later(clicked, other) /\ PageStands(other)
  <2>1. CASE supported
    BY <1>4, <1>5, <2>1, LeftStands
  <2>2. CASE ~supported
    BY <1>4, <2>2, ErrorShown, StandsTheSame
  <2> QED
    BY <2>1, <2>2
<1> HIDE DEF other
<1>7. Later(page, other)
  BY <1>4, <1>6, LaterFollows
<1> QED
  BY <1>1, <1>6, <1>7

-----------------------------------------------------------------------------
(* Pages that come in                                                      *)

\* A page that comes in.
LEMMA InstalledStands ==
  ASSUME NEW page, IsPage(page), page.runtime = NoRuntimeYet, page.events = <<>>, NEW document, IsInteractive(document),
         FocusFits(page.focus, document)
  PROVE  Later(page, InstallPage(page, document)) /\ PageStands(InstallPage(page, document))
<1> DEFINE runtime == FromRenderDocument(document)
           between == [page EXCEPT !.document = document, !.runtime = runtime]
           other == SetSurface(between, document, AllDirty)
<1>1. InstallPage(page, document) = other
  BY DEF InstallPage, HasRuntime
<1>2. FitsDocument(runtime, document)
  BY DomBuilt
<1> HIDE DEF runtime
<1>3. Later(page, between) /\ between.document = document /\ between.runtime = runtime /\ between.focus = page.focus /\ between.events = page.events
  BY DEF Later, IsPage
<1> HIDE DEF between
<1>4. IsPage(between)
  BY <1>3 DEF Later
<1>5. Later(between, other) /\ SameStanding(between, other) /\ other.events = between.events /\ other.surface.document = document
  BY <1>4, SurfaceIs
<1> HIDE DEF other
<1>6. EventsFit(other.events, other.runtime, document)
  BY <1>3, <1>5, EmptyList DEF EventsFit
<1>7. IsShown(other)
  BY <1>2, <1>3, <1>5, <1>6 DEF IsShown, PageShows, SameStanding
<1>8. Later(page, other)
  BY <1>3, <1>5, LaterFollows
<1> QED
  BY <1>1, <1>7, <1>8 DEF PageStands

-----------------------------------------------------------------------------
(* Frames                                                                  *)
FrameShown(document, viewport) ==
  [plan |-> BuildPaintPlan(LayoutDocument(document, viewport)), layout |-> LayoutDocument(document, viewport),
   viewport |-> viewport, of |-> Fingerprint(document)]
FrameFits(page) ==
  /\ page.engine = NoFrame \/ IsPlan(page.engine.plan)
  /\ page.undrawn \cap {"document", "window"} = {} /\ page.surface.document # NoPageShown =>
       page.engine = FrameShown(page.surface.document, page.viewport)

\* Handlers leave the frame as it is.
LEMMA FrameFitsLater ==
  ASSUME NEW page, FrameFits(page), NEW other, Later(page, other)
  PROVE  FrameFits(other)
  BY DEF FrameFits, Later

\* There is a plan for every document shown, and for none.
LEMMA EmptyPageIs ==
  IsRenderDocument(EmptyPage)
<1>1. DOMAIN <<>> = {} /\ IsVector(<<>>)
  BY EmptyList, ListFacts, ListIsVector
<1> QED
  BY <1>1 DEF EmptyPage, IsRenderDocument, IsSheet, IsStyling

LEMMA PlanShown ==
  ASSUME NEW document, IsRenderDocument(document), NEW viewport, IsWindow(viewport)
  PROVE  IsPlan(BuildPaintPlan(LayoutDocument(document, viewport)))
<1> DEFINE ids == {ControlsOf(document)[p].id : p \in 1 .. Len(ControlsOf(document))}
<1>1. \A k \in DOMAIN document.blocks : \A i \in DOMAIN document.blocks[k].form.controls : document.blocks[k].form.controls[i].id \in ids
  BY ControlsAre
<1>2. viewport.width \in Int /\ viewport.height \in Int
  BY DEF IsWindow
<1> HIDE DEF ids
<1>3. IsLayout(LayoutDocument(document, viewport), ids, viewport)
  BY <1>1, <1>2, LayoutIs
<1> QED
  BY <1>2, <1>3, PlanIs

\* A frame is laid out for the document and the window it is drawn for, and covers what has changed.
LEMMA FrameDrawn ==
  ASSUME NEW document, IsRenderDocument(document), NEW viewport, IsWindow(viewport), NEW flags, NEW force \in BOOLEAN,
         NEW engine, engine = NoFrame \/ IsPlan(engine.plan), ~force => engine = FrameShown(document, viewport)
  PROVE  LET next == Reflow(engine, document, viewport, flags, force) IN
         /\ next.engine = FrameShown(document, viewport) /\ IsPlan(next.engine.plan)
         /\ engine # NoFrame => RegionsCover(engine.plan, next.engine.plan, viewport, next.regions)
<1> DEFINE reason == ReflowReason(engine, document, viewport, flags, force)
           laid == LayoutDocument(document, viewport)
           layout == IF reason = "PaintOnlyInvalidation" /\ engine.of = Fingerprint(document) THEN engine.layout ELSE laid
           plan == BuildPaintPlan(layout)
           frame == [plan |-> plan, layout |-> layout, viewport |-> viewport, of |-> Fingerprint(document)]
           regions == IF engine.plan = <<>> THEN FullRegion(viewport) ELSE DirtyRegionsBetween(engine.plan, plan, viewport)
           next == Reflow(engine, document, viewport, flags, force)
<1>1. force => reason = "Initial"
  BY DEF ReflowReason
<1>2. IsPlan(BuildPaintPlan(laid))
  BY PlanShown
<1>3. next = IF reason = "Reused" THEN [engine |-> engine, reason |-> reason, regions |-> <<>>]
             ELSE [engine |-> frame, reason |-> reason, regions |-> regions]
  BY DEF Reflow, FrameOf
<1> HIDE DEF next, regions, reason
<1>4. CASE reason = "Reused"
  BY <1>1, <1>2, <1>3, <1>4, SameCovered DEF FrameShown, next
<1>5. CASE reason # "Reused"
  <2>1. layout = laid
    BY <1>1 DEF FrameShown
  <2> HIDE DEF layout, laid
  <2>2. next.engine = frame /\ next.regions = regions
    BY <1>3, <1>5
  <2>3. IsPlan(plan)
    BY <1>2, <2>1
  <2>4. frame = FrameShown(document, viewport)
    BY <2>1 DEF FrameShown, laid
  <2>5. engine # NoFrame => RegionsCover(engine.plan, plan, viewport, regions)
    BY <2>3, ChangesCovered DEF regions
  <2>6. frame.plan = plan
    OBVIOUS
  <2> HIDE DEF frame, plan
  <2> QED
    BY <2>2, <2>3, <2>4, <2>5, <2>6 DEF next
<1> QED
  BY <1>4, <1>5 DEF next

-----------------------------------------------------------------------------
(* The page                                                                *)

\* The inductive invariant.
IsWhole(page) == IsPage(page) /\ IsWindow(page.viewport) /\ PageStands(page) /\ FrameFits(page)
PageInvariant == IsWhole(live)

\* A handler that leaves the frame to the renderer.
LEMMA HandlersKeep ==
  ASSUME PageInvariant, Later(live, live'), PageStands(live')
  PROVE  PageInvariant' /\ ChangesAreRedrawn
<1>1. IsWindow(live'.viewport) /\ IsPage(live')
  BY DEF PageInvariant, IsWhole, Later
<1>2. FrameFits(live')
  BY FrameFitsLater DEF PageInvariant, IsWhole
<1>3. live.undrawn # {} => live'.undrawn # {}
  BY DEF Later
<1> QED
  BY <1>1, <1>2, <1>3 DEF PageInvariant, IsWhole, ChangesAreRedrawn

LEMMA HandlerBegins ==
  ASSUME PageInvariant
  PROVE  /\ Later(live, Handled(live)) /\ IsPage(Handled(live)) /\ Handled(live).events = <<>> /\ SameStanding(live, Handled(live))
         /\ PageShown => Begun(Handled(live))
         /\ ~PageShown => IsGone(Handled(live))
<1> DEFINE page == Handled(live)
<1>1. IsPage(live) /\ PageStands(live)
  BY DEF PageInvariant, IsWhole
<1>2. Later(live, page) /\ SameStanding(live, page) /\ page.events = <<>> /\ page.surface = live.surface
  BY <1>1, HandledIs
<1> HIDE DEF page
<1>3. IsPage(page)
  BY <1>2 DEF Later
<1>4. PageShown => IsShown(live)
  BY <1>1 DEF PageShown, PageStands, IsGone
<1>5. ~PageShown => IsGone(live)
  BY <1>1, ShownSomething DEF PageShown, PageStands, IsShown, IsInteractive
<1>6. EventsFit(page.events, page.runtime, page.document) /\ IsList(page.events)
  BY <1>2, EmptyList DEF EventsFit
<1>7. PageShown => Begun(page)
  BY <1>2, <1>3, <1>4, <1>6 DEF Begun, IsShown, PageShows, SameStanding
<1>8. ~PageShown => IsGone(page)
  BY <1>2, <1>5, <1>6 DEF IsGone, SameStanding
<1> QED
  BY <1>2, <1>3, <1>7, <1>8 DEF page

LEMMA HandlerEnds ==
  ASSUME PageInvariant, Later(Handled(live), live'), PageStands(live')
  PROVE  PageInvariant' /\ ChangesAreRedrawn
  BY HandlerBegins, LaterFollows, HandlersKeep

\* Handler by handler.
LEMMA LoadKeeps ==
  ASSUME PageInvariant, PageLoaded
  PROVE  PageInvariant' /\ ChangesAreRedrawn
<1> DEFINE page == Handled(live)
<1>1. PICK document \in InteractiveDocuments : live' = InstallPage(page, document)
  BY DEF PageLoaded
<1>2. IsPage(page) /\ page.events = <<>> /\ IsGone(page)
  BY HandlerBegins DEF PageLoaded
<1>3. IsInteractive(document)
  BY PageAssumption DEF IsInteractive
<1> HIDE DEF page
<1>4. page.runtime = NoRuntimeYet /\ FocusFits(page.focus, document)
  BY <1>2 DEF IsGone, FocusFits
<1>5. Later(page, live') /\ PageStands(live')
  BY <1>1, <1>2, <1>3, <1>4, InstalledStands
<1> QED
  BY <1>5, HandlerEnds DEF page

LEMMA ReturnKeeps ==
  ASSUME PageInvariant, TabReturned
  PROVE  PageInvariant' /\ ChangesAreRedrawn
<1> DEFINE page == Handled(live)
           cleared == ClearDom(page)
<1>1. live' = InstallPage(cleared, live.document) /\ PageShown
  BY DEF TabReturned
<1>2. Begun(page) /\ IsPage(page) /\ live.document = page.document
  BY <1>1, HandlerBegins DEF SameStanding
<1>3. IsInteractive(page.document) /\ page.events = <<>>
  BY <1>2, BegunIs DEF Begun
<1> HIDE DEF page
<1>4. Later(page, cleared) /\ cleared.runtime = NoRuntimeYet /\ cleared.focus = 0 /\ cleared.events = page.events
  BY <1>2, ClearedIs
<1> HIDE DEF cleared
<1>5. IsPage(cleared) /\ FocusFits(cleared.focus, page.document)
  BY <1>4 DEF Later, FocusFits
<1>6. Later(cleared, live') /\ PageStands(live')
  BY <1>1, <1>2, <1>3, <1>4, <1>5, InstalledStands
<1>7. Later(page, live')
  BY <1>4, <1>6, LaterFollows
<1> QED
  BY <1>6, <1>7, HandlerEnds DEF page

LEMMA RejectionKeeps ==
  ASSUME PageInvariant, AddressRejected
  PROVE  PageInvariant' /\ ChangesAreRedrawn
<1> DEFINE page == Handled(live)
           cleared == ClearDom(page)
           other == ShowError(cleared)
<1>1. PageShown /\ live' = ShowError(ClearDom(Handled(live)))
  BY DEF AddressRejected
<1>2. PageShown /\ IsPage(live) /\ IsShown(live)
  BY <1>1 DEF PageInvariant, IsWhole, PageShown, PageStands, IsGone
<1>3. live' = ShowError(cleared) /\ Begun(page) /\ IsPage(page)
  BY <1>1, HandlerBegins
<1> HIDE DEF page
<1>4. /\ Later(page, cleared) /\ cleared.runtime = NoRuntimeYet /\ cleared.focus = 0 /\ cleared.events = page.events
      /\ cleared.document = page.document /\ cleared.surface = page.surface
  BY <1>3, ClearedIs
<1> HIDE DEF cleared
<1>5. IsPage(cleared)
  BY <1>4 DEF Later
<1>6. EventsFit(cleared.events, cleared.runtime, cleared.document)
  BY <1>3, <1>4, EmptyList DEF Begun, EventsFit
<1>7. PageStands(cleared)
  BY <1>3, <1>4, <1>6 DEF Begun, PageStands, IsShown, PageShows, FocusFits
<1>8. /\ Later(cleared, other) /\ SameStanding(cleared, other) /\ other.events = cleared.events /\ other.surface = cleared.surface
  BY <1>5, ErrorShown
<1>9. other = live'
  BY <1>3
<1> HIDE DEF other
<1>10. PageStands(live')
  BY <1>7, <1>8, <1>9, StandsTheSame
<1>11. Later(page, live')
  BY <1>4, <1>8, <1>9, LaterFollows
<1> QED
  BY <1>10, <1>11, HandlerEnds DEF page

\* Clicks.
LEMMA ControlClickKeeps ==
  ASSUME PageInvariant, ControlClicked
  PROVE  PageInvariant' /\ ChangesAreRedrawn
<1> DEFINE page == Handled(live)
           document == live.document
           regions == ControlHitRegions(LaidOut)
           cs == ControlsOf(document)
           ids == {cs[p].id : p \in 1 .. Len(cs)}
<1>1. PageShown /\ \E i \in DOMAIN regions : live' = ClickControl(page, ControlById(document, regions[PointHit(regions, i)].control))
  BY DEF ControlClicked
<1>2. PICK i \in DOMAIN regions : live' = ClickControl(page, ControlById(document, regions[PointHit(regions, i)].control))
  BY <1>1
<1>3. Begun(page) /\ page.document = document
  BY <1>1, HandlerBegins DEF SameStanding
<1>4. IsInteractive(document) /\ IsRenderDocument(document) /\ live.surface.document = document /\ IsWindow(live.viewport)
  BY <1>1 DEF PageInvariant, IsWhole, PageShown, PageStands, IsGone, IsShown, PageShows, IsInteractive
<1>5. IsLayout(LaidOut, ids, live.viewport)
  <2>1. \A k \in DOMAIN document.blocks : \A j \in DOMAIN document.blocks[k].form.controls : document.blocks[k].form.controls[j].id \in ids
    BY <1>4, ControlsAre
  <2>2. live.viewport.width \in Int /\ live.viewport.height \in Int
    BY <1>4 DEF IsWindow
  <2> HIDE DEF ids, document
  <2>3. IsLayout(LayoutDocument(document, live.viewport), ids, live.viewport)
    BY <1>4, <2>1, <2>2, LayoutIs
  <2> QED
    BY <1>4, <2>3 DEF LaidOut
<1>6. /\ IsList(regions) /\ DOMAIN regions = 1 .. Len(regions)
      /\ \A k \in 1 .. Len(regions) : regions[k].control \in ids /\ regions[k].rect \in Rects
  BY <1>5, ControlRegionsAre
<1> HIDE DEF regions
<1>7. PointHit(regions, i) \in 1 .. Len(regions)
  BY <1>2, <1>6, PointIsHit
<1>8. PICK p \in 1 .. Len(cs) : regions[PointHit(regions, i)].control = cs[p].id
  BY <1>6, <1>7
<1>9. ControlById(document, cs[p].id) = cs[p]
  BY <1>4, ByIdIs
<1>10. live' = ClickControl(page, ControlsOf(page.document)[p]) /\ p \in 1 .. Len(ControlsOf(page.document))
  BY <1>2, <1>3, <1>8, <1>9
<1> HIDE DEF page
<1>11. Later(page, live') /\ PageStands(live')
  BY <1>3, <1>10, ControlClickedStands
<1> QED
  BY <1>11, HandlerEnds DEF page

LEMMA LinkClickKeeps ==
  ASSUME PageInvariant, LinkClicked
  PROVE  PageInvariant' /\ ChangesAreRedrawn
<1> DEFINE page == Handled(live)
           away == Unfocused(page)
<1>1. PageShown /\ \E region : \E supported : live' = ClickLink(away, region, supported)
  BY DEF LinkClicked
<1>2. PICK region, supported : live' = ClickLink(away, region, supported)
  BY <1>1
<1>3. Begun(page)
  BY <1>1, HandlerBegins
<1> HIDE DEF page
<1>4. Later(page, away) /\ Begun(away)
  BY <1>3, UnfocusedStands
<1> HIDE DEF away
<1>5. Later(away, live') /\ PageStands(live')
  BY <1>2, <1>4, LinkClickedStands
<1>6. Later(page, live')
  BY <1>4, <1>5, LaterFollows
<1> QED
  BY <1>5, <1>6, HandlerEnds DEF page

LEMMA BesideKeeps ==
  ASSUME PageInvariant, ClickedBeside
  PROVE  PageInvariant' /\ ChangesAreRedrawn
<1>1. PageShown /\ live' = Unfocused(Handled(live))
  BY DEF ClickedBeside
<1>2. Later(Handled(live), live') /\ Begun(live')
  BY <1>1, HandlerBegins, UnfocusedStands
<1> QED
  BY <1>2, BegunStands, HandlerEnds

\* A key that leaves the ids and the focus of the document as they are, or takes the focus away.
LEMMA KeyKeeps ==
  ASSUME PageInvariant, PageShown, NEW document, IsInteractive(document), SameIds(live.document, document), NEW action,
         action.kind # "Escaped" => FocusedControl(document) = FocusedControl(live.document),
         KeyPressed(document, action)
  PROVE  PageInvariant' /\ ChangesAreRedrawn
<1> DEFINE page == Handled(live)
           focus == IF action.kind = "Escaped" THEN 0 ELSE FocusedControl(live.document)
           other == Acted(CommitDocument(DispatchMutation([page EXCEPT !.focus = focus], document), document), action)
<1>1. live' = other
  BY DEF KeyPressed
<1>2. Begun(page) /\ page.document = live.document
  BY HandlerBegins DEF SameStanding
<1>3. FocusFits(focus, document)
  BY DEF FocusFits
<1>4. SameIds(page.document, document)
  BY <1>2
<1> HIDE DEF page, focus
<1>5. Later(page, other) /\ PageStands(other)
  BY <1>2, <1>3, <1>4, FocusSetStands
<1> QED
  BY <1>1, <1>5, HandlerEnds DEF page

\* The page shown is a document to work with.
LEMMA ShownDocument ==
  ASSUME PageInvariant, PageShown
  PROVE  IsInteractive(live.document) /\ IsRenderDocument(live.document)
  BY DEF PageInvariant, IsWhole, PageShown, PageStands, IsGone, IsShown, IsInteractive

\* Keys.
LEMMA CharKeeps ==
  ASSUME PageInvariant, CharTyped \/ LineTyped
  PROVE  PageInvariant' /\ ChangesAreRedrawn
<1> DEFINE action == Action("Mutated", <<>>)
<1>1. PICK char : KeyPressed(TypeChar(live.document, char), action)
  BY DEF CharTyped, LineTyped
<1>2. PageShown
  BY DEF CharTyped, LineTyped, Typing
<1>3. IsInteractive(live.document) /\ IsRenderDocument(live.document)
  BY <1>2, ShownDocument
<1>4. SameControls(live.document, TypeChar(live.document, char))
  BY <1>3, CharIsTyped
<1> DEFINE document == TypeChar(live.document, char)
<1>5. IsInteractive(document) /\ FocusedControl(document) = FocusedControl(live.document) /\ SameIds(live.document, document)
  BY <1>3, <1>4, SameIsInteractive, IdsOfSame
<1> HIDE DEF document, action
<1>6. KeyPressed(document, action)
  BY <1>1 DEF document
<1> QED
  BY <1>2, <1>5, <1>6, KeyKeeps

LEMMA BackspaceKeeps ==
  ASSUME PageInvariant, BackspaceTyped
  PROVE  PageInvariant' /\ ChangesAreRedrawn
<1> DEFINE action == Action("Mutated", <<>>)
           document == TypeBackspace(live.document)
<1>1. KeyPressed(document, action) /\ PageShown
  BY DEF BackspaceTyped, Typing
<1>3. IsInteractive(live.document) /\ IsRenderDocument(live.document)
  BY <1>1, ShownDocument
<1>4. SameControls(live.document, document)
  BY <1>3, BackspaceIsTyped
<1> HIDE DEF document, action
<1>5. IsInteractive(document) /\ FocusedControl(document) = FocusedControl(live.document) /\ SameIds(live.document, document)
  BY <1>3, <1>4, SameIsInteractive, IdsOfSame
<1> QED
  BY <1>1, <1>5, KeyKeeps

LEMMA EscapeKeeps ==
  ASSUME PageInvariant, EscapeTyped
  PROVE  PageInvariant' /\ ChangesAreRedrawn
<1> DEFINE action == Action("Escaped", <<>>)
           document == FocusFormControl(live.document, 0)
<1>1. KeyPressed(document, action) /\ PageShown
  BY DEF EscapeTyped, Typing
<1>2. action.kind = "Escaped"
  BY DEF Action
<1>3. IsInteractive(live.document)
  BY <1>1, ShownDocument
<1>4. IsInteractive(document) /\ SameIds(live.document, document)
  BY <1>3, FocusTurned
<1> HIDE DEF document, action
<1> QED
  BY <1>1, <1>2, <1>4, KeyKeeps

LEMMA EnterKeeps ==
  ASSUME PageInvariant, EnterTyped
  PROVE  PageInvariant' /\ ChangesAreRedrawn
<1> DEFINE action == Submission(FormOf(live.document, Focused.id), 0)
<1>1. KeyPressed(live.document, action) /\ PageShown
  BY DEF EnterTyped, Typing
<1>2. IsInteractive(live.document) /\ SameIds(live.document, live.document)
  BY <1>1, ShownDocument, IdsOfItself
<1> HIDE DEF action
<1> QED
  BY <1>1, <1>2, KeyKeeps

LEMMA NothingKeeps ==
  ASSUME PageInvariant, NothingTyped
  PROVE  PageInvariant' /\ ChangesAreRedrawn
<1> DEFINE page == Handled(live)
           other == [page EXCEPT !.focus = 0]
<1>1. PageShown /\ live' = other
  BY DEF NothingTyped
<1>2. Begun(page) /\ IsPage(page)
  BY <1>1, HandlerBegins
<1> HIDE DEF page
<1>3. /\ Later(page, other) /\ other.focus = 0 /\ other.document = page.document /\ other.runtime = page.runtime
      /\ other.events = page.events /\ other.surface = page.surface
  BY <1>2, FocusPut
<1> HIDE DEF other
<1>4. PageStands(other)
  BY <1>2, <1>3 DEF Begun, PageStands, IsShown, PageShows, FocusFits
<1> QED
  BY <1>1, <1>3, <1>4, HandlerEnds DEF page

-----------------------------------------------------------------------------
\* The window and the renderer.
LEMMA StandsHandled ==
  ASSUME PageInvariant
  PROVE  PageStands(Handled(live))
  BY HandlerBegins, BegunStands DEF PageStands

LEMMA ResizeKeeps ==
  ASSUME PageInvariant, Resized
  PROVE  PageInvariant' /\ ChangesAreRedrawn
<1> DEFINE page == Handled(live)
           undrawn == page.undrawn \cup {"any", "window"}
<1>1. PICK viewport \in Viewports : live' = [page EXCEPT !.viewport = viewport, !.undrawn = @ \cup {"any", "window"}]
  BY DEF Resized
<1>2. IsPage(page) /\ PageStands(page) /\ Later(live, page)
  BY HandlerBegins, StandsHandled
<1> HIDE DEF page
<1>3. /\ IsPage(live') /\ live'.viewport = viewport /\ live'.undrawn = undrawn /\ SameStanding(page, live') /\ live'.events = page.events
      /\ live'.surface = page.surface /\ live'.engine = page.engine
  BY <1>1, <1>2 DEF IsPage, SameStanding
<1>4. PageStands(live')
  BY <1>2, <1>3, StandsTheSame
<1>5. IsWindow(live'.viewport)
  BY <1>3, PageAssumption DEF IsWindow
<1>6. FrameFits(live')
  BY <1>2, <1>3 DEF PageInvariant, IsWhole, FrameFits, Later
<1>7. live'.undrawn # {}
  BY <1>3
<1> QED
  BY <1>3, <1>4, <1>5, <1>6, <1>7 DEF PageInvariant, IsWhole, ChangesAreRedrawn

LEMMA ChromeKeeps ==
  ASSUME PageInvariant, ChromeDrawnAgain
  PROVE  PageInvariant' /\ ChangesAreRedrawn
<1> DEFINE page == Handled(live)
<1>1. live' = [page EXCEPT !.undrawn = {"any"}] /\ live.undrawn = {}
  BY DEF ChromeDrawnAgain
<1>2. IsPage(page) /\ PageStands(page) /\ Later(live, page) /\ page.surface = live.surface
  BY HandlerBegins, StandsHandled, HandledIs DEF PageInvariant, IsWhole
<1> HIDE DEF page
<1>3. /\ IsPage(live') /\ live'.viewport = page.viewport /\ SameStanding(page, live') /\ live'.events = page.events
      /\ live'.surface = page.surface /\ live'.engine = page.engine
  BY <1>1, <1>2 DEF IsPage, SameStanding
<1>4. PageStands(live')
  BY <1>2, <1>3, StandsTheSame
<1>5. live'.viewport = live.viewport /\ live'.engine = live.engine /\ live'.surface = live.surface
  BY <1>2, <1>3 DEF Later
<1>6. FrameFits(live')
  BY <1>1, <1>5 DEF PageInvariant, IsWhole, FrameFits
<1> QED
  BY <1>1, <1>3, <1>4, <1>5, <1>6 DEF PageInvariant, IsWhole, ChangesAreRedrawn

LEMMA NoFrameKeeps ==
  ASSUME PageInvariant, NothingDrawn
  PROVE  PageInvariant' /\ ChangesAreRedrawn
<1> DEFINE page == Handled(live)
<1>1. live' = [page EXCEPT !.engine = NoFrame, !.undrawn = {}] /\ live.surface.document = NoPageShown
  BY DEF NothingDrawn
<1>2. IsPage(page) /\ PageStands(page) /\ Later(live, page) /\ page.surface = live.surface
  BY HandlerBegins, StandsHandled, HandledIs DEF PageInvariant, IsWhole
<1> HIDE DEF page
<1>3. /\ IsPage(live') /\ live'.viewport = page.viewport /\ SameStanding(page, live') /\ live'.events = page.events
      /\ live'.surface = page.surface /\ live'.engine = NoFrame
  BY <1>1, <1>2 DEF IsPage, SameStanding
<1>4. PageStands(live')
  BY <1>2, <1>3, StandsTheSame
<1>5. live'.viewport = live.viewport
  BY <1>2, <1>3 DEF Later
<1>6. FrameFits(live')
  BY <1>1, <1>2, <1>3 DEF FrameFits
<1> QED
  BY <1>3, <1>4, <1>5, <1>6 DEF PageInvariant, IsWhole, ChangesAreRedrawn

LEMMA DrawKeeps ==
  ASSUME PageInvariant, Drawn
  PROVE  PageInvariant' /\ ChangesAreRedrawn
<1> DEFINE page == Handled(live)
           document == live.surface.document
           force == live.undrawn \cap {"document", "window"} # {}
           next == Reflow(live.engine, document, live.viewport, live.surface.dirty, force)
<1>1. live' = [page EXCEPT !.engine = next.engine, !.undrawn = {}, !.regions = next.regions] /\ document # NoPageShown
  BY DEF Drawn
<1>2. IsPage(page) /\ PageStands(page) /\ Later(live, page) /\ page.surface = live.surface
  BY HandlerBegins, StandsHandled, HandledIs DEF PageInvariant, IsWhole
<1>3. IsRenderDocument(document)
  BY <1>1, EmptyPageIs DEF PageInvariant, IsWhole, PageStands, IsGone, IsShown, PageShows, IsInteractive
<1>4. IsWindow(live.viewport) /\ (live.engine = NoFrame \/ IsPlan(live.engine.plan)) /\ force \in BOOLEAN
      /\ (~force => live.engine = FrameShown(document, live.viewport))
  BY <1>1 DEF PageInvariant, IsWhole, FrameFits
<1> HIDE DEF force, document
<1>5. /\ next.engine = FrameShown(document, live.viewport) /\ IsPlan(next.engine.plan)
      /\ live.engine # NoFrame => RegionsCover(live.engine.plan, next.engine.plan, live.viewport, next.regions)
  BY <1>3, <1>4, FrameDrawn
<1> HIDE DEF page, next
<1>6. /\ IsPage(live') /\ live'.viewport = page.viewport /\ SameStanding(page, live') /\ live'.events = page.events
      /\ live'.surface = page.surface /\ live'.engine = next.engine /\ live'.regions = next.regions
  BY <1>1, <1>2 DEF IsPage, SameStanding
<1>7. PageStands(live')
  BY <1>2, <1>6, StandsTheSame
<1>8. live'.viewport = live.viewport
  BY <1>2, <1>6 DEF Later
<1>9. FrameFits(live')
  BY <1>2, <1>5, <1>6, <1>8 DEF FrameFits, document
<1>10. ChangesAreRedrawn
  BY <1>5, <1>6, <1>8 DEF ChangesAreRedrawn
<1> QED
  BY <1>4, <1>6, <1>7, <1>8, <1>9, <1>10 DEF PageInvariant, IsWhole

-----------------------------------------------------------------------------
\* The invariant holds of the empty window, and every handler keeps it.
LEMMA PageBegins ==
  ASSUME RuntimeInit
  PROVE  PageInvariant
<1>1. PICK viewport \in Viewports :
        live = [document |-> NoPageShown, runtime |-> NoRuntimeYet, focus |-> 0, events |-> <<>>, asked |-> <<>>,
                surface |-> [document |-> NoPageShown, dirty |-> {}], undrawn |-> {"document", "any", "window"}, viewport |-> viewport,
                engine |-> NoFrame, regions |-> <<>>]
  BY DEF RuntimeInit
<1>2. IsWindow(viewport)
  BY PageAssumption DEF IsWindow
<1>3. IsPage(live)
  BY <1>1 DEF IsPage
<1>4. PageStands(live)
  BY <1>1, EmptyList DEF PageStands, IsGone
<1>5. FrameFits(live)
  BY <1>1 DEF FrameFits
<1> QED
  BY <1>1, <1>2, <1>3, <1>4, <1>5 DEF PageInvariant, IsWhole

LEMMA PageGoesOn ==
  ASSUME PageInvariant, RuntimeNext
  PROVE  PageInvariant' /\ ChangesAreRedrawn
  BY LoadKeeps, ReturnKeeps, RejectionKeeps, ControlClickKeeps, LinkClickKeeps, BesideKeeps, CharKeeps, BackspaceKeeps, EscapeKeeps,
     EnterKeeps, NothingKeeps, ResizeKeeps, ChromeKeeps, NoFrameKeeps, DrawKeeps DEF RuntimeNext

\* After every handler of the window (browser/mod.rs, browser/events.rs,
\* browser/forms.rs) the document is one of a page or none, its controls have ids of
\* their own and a node each in the DOM that browser/dom.rs keeps beside it, DOM and
\* keyboard have the focus and the values of the document, events name nodes there are,
\* and the frame browser/render.rs shows is the one laid out for document and window
\* unless either is marked as changed.
THEOREM PageInvariance == RuntimeSpec => []PageInvariant
<1>1. RuntimeInit => PageInvariant
  BY PageBegins
<1>2. PageInvariant /\ [RuntimeNext]_live => PageInvariant'
  BY PageGoesOn DEF PageInvariant
<1> QED
  BY <1>1, <1>2, PTL DEF RuntimeSpec

\* What the invariant says to the user.
LEMMA PageAgrees ==
  ASSUME PageInvariant
  PROVE  RuntimeMirrorsDocument /\ KeysGoToTheCaret /\ EventsReachTheirTarget /\ FramesAreWhole
<1> DEFINE cs == ControlsOf(live.document)
<1>1. PageShown => IsShown(live) /\ IsRenderDocument(live.document) /\ IsInteractive(live.document)
  BY DEF PageInvariant, IsWhole, PageShown, PageStands, IsGone, IsShown, IsInteractive
<1>2. PageShown => DOMAIN cs = 1 .. Len(cs)
  BY <1>1, ControlsAre
<1>3. RuntimeMirrorsDocument
  BY <1>1, <1>2 DEF RuntimeMirrorsDocument, HasRuntime, IsShown, PageShows, FitsDocument
<1>4. KeysGoToTheCaret
  BY <1>1 DEF IsShown, IsInteractive, ControlsAreApart, KeysGoToTheCaret, FocusFits
<1>5. EventsReachTheirTarget
  <2>1. EventsFit(live.events, live.runtime, live.document)
    <3>1. CASE PageShown
      BY <1>1, <3>1 DEF IsShown, PageShows
    <3>2. CASE ~PageShown
      BY <3>2, ShownSomething DEF PageInvariant, IsWhole, PageShown, PageStands, IsShown, IsInteractive, IsGone,
         EventsFit, EventFits
    <3> QED
      BY <3>1, <3>2
  <2>2. DOMAIN live.events = 1 .. Len(live.events)
    BY <2>1, ListFacts DEF EventsFit
  <2> QED
    BY <2>1, <2>2 DEF EventsReachTheirTarget, EventsFit, EventFits, PageShown, HasRuntime
<1>6. FramesAreWhole
  BY ShownSomething DEF PageInvariant, IsWhole, PageShown, PageStands, IsGone, IsShown, PageShows, IsInteractive,
     FrameFits, FramesAreWhole, FrameShown
<1> QED
  BY <1>3, <1>4, <1>5, <1>6

\* The page answers its user, however many controls, letters and handlers there are:
\* the DOM says what the document says, keys go to the control with the caret, clicks on
\* a control and typing are dispatched on its node, clicks on a link on a link of that
\* address or on the root (browser/dom.rs), the regions the renderer draws again
\* (present/reflow.rs) cover everything that has changed, and no handler changes what is
\* shown without asking for a redraw.
THEOREM PageAnswers == RuntimeSpec => PageAnswersItsUser
<1>1. PageInvariant => RuntimeMirrorsDocument /\ KeysGoToTheCaret /\ EventsReachTheirTarget /\ FramesAreWhole
  BY PageAgrees
<1>2. PageInvariant /\ [RuntimeNext]_live => [ChangesAreRedrawn]_live
  BY PageGoesOn
<1> QED
  BY <1>1, <1>2, PageInvariance, PTL DEF RuntimeSpec, PageAnswersItsUser

=============================================================================
