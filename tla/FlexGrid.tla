------------------------------- MODULE FlexGrid -------------------------------
(***************************************************************************)
(* The flexbox and grid layout (present: flex_grid.rs) and the trees the   *)
(* app makes for it (flex_grid_dom_adapter.rs, flex_grid_layout_bridge.rs).*)
(* A node is laid out in the rectangle its parent gives it and emits its   *)
(* box after its children's.  Lengths are whole: a share is rounded down.  *)
(***************************************************************************)
EXTENDS PageLayout

CONSTANTS
  LayoutTrees,     \* trees that are laid out
  PageSizes,       \* viewports they are laid out in
  LayoutConfig     \* depth that is laid out, sizes of automatic tracks, whether items shrink below their content

VARIABLE flow      \* the tree, its viewport and what was laid out of it

-----------------------------------------------------------------------------
(* Lengths and rectangles.                                                 *)
Length(kind, value) == [kind |-> kind, value |-> value]
AutoLength == Length("Auto", 0)
InPx(value) == Length("Px", value)
Resolve(length, available, intrinsic) ==
  CASE length.kind = "Px" -> <<NoLess(length.value, 0)>>
    [] length.kind = "Percent" -> <<NoLess((available * length.value) \div 100, 0)>>
    [] length.kind \in {"MinContent", "MaxContent"} -> <<NoLess(intrinsic, 0)>>
    [] OTHER -> <<>>
OrElse(found, default) == IF found = <<>> THEN default ELSE found[1]
ApplyMinMax(value, low, high, available, least, most) ==
  LET raised == NoLess(value, OrElse(Resolve(low, available, least), value)) IN
  NoLess(Min({raised, OrElse(Resolve(high, available, most), raised)}), 0)

FlexRect(x, y, width, height) == [x |-> x, y |-> y, width |-> width, height |-> height]
InsetBy(rect, edges) ==
  FlexRect(rect.x + edges.left, rect.y + edges.top, NoLess(rect.width - Horizontal(edges), 0), NoLess(rect.height - Vertical(edges), 0))
OutsetBy(rect, x, y, edges) == FlexRect(x, y, rect.width + Horizontal(edges), rect.height + Vertical(edges))
UnionOf(bounds, rect) ==
  IF bounds = <<>> THEN <<rect>>
  ELSE LET x == Min({bounds[1].x, rect.x})
           y == Min({bounds[1].y, rect.y}) IN
       <<FlexRect(x, y, Max({Right(bounds[1]), Right(rect)}) - x, Max({Bottom(bounds[1]), Bottom(rect)}) - y)>>

-----------------------------------------------------------------------------
(* Nodes, with the defaults of their styles.                               *)
FlexContainer == [direction |-> "Row", justify |-> "FlexStart", align |-> "Stretch", gap |-> 0]
FlexItem == [grow |-> 0, shrink |-> 1, basis |-> AutoLength, align |-> "", order |-> 0]
GridContainer ==
  [columns |-> <<>>, rows |-> <<>>, autoColumns |-> AutoLength, autoRows |-> AutoLength, columnGap |-> 0, rowGap |-> 0, flow |-> "Row"]
GridItem == [cell |-> <<>>, columnSpan |-> 1, rowSpan |-> 1]
NewLayoutNode(id) ==
  [id |-> id, display |-> "Block", width |-> AutoLength, height |-> AutoLength, minWidth |-> AutoLength, maxWidth |-> AutoLength,
   minHeight |-> AutoLength, maxHeight |-> AutoLength, margin |-> NoEdges, padding |-> NoEdges, border |-> NoEdges,
   borderBox |-> FALSE, flex |-> FlexContainer, item |-> FlexItem, grid |-> GridContainer, cell |-> GridItem,
   least |-> 0, most |-> 0, tall |-> 0, children |-> <<>>]
VisibleChildren(node) == SelectSeq(node.children, LAMBDA child : child.display /= "None")

(* The app's elements, with the few properties it passes on.               *)
StyledNode(element) ==
  LET node == NewLayoutNode(element.id)
      length(name) == IF name \in DOMAIN element THEN InPx(element[name]) ELSE AutoLength
      columns == SetOr(element, "columns", <<>>)
      gap == SetOr(element, "gap", 0) IN
  [node EXCEPT !.display = SetOr(element, "display", "Block"), !.width = length("width"), !.height = length("height"),
               !.margin = SetOr(element, "margin", NoEdges), !.padding = SetOr(element, "padding", NoEdges),
               !.least = element.wide \div 2, !.most = element.wide, !.tall = element.tall,
               !.flex.gap = IF SetOr(element, "display", "Block") = "Flex" THEN gap ELSE 0,
               !.grid = IF SetOr(element, "display", "Block") /= "Grid" THEN @
                        ELSE [@ EXCEPT !.columns = IF columns = <<>> THEN <<Length("Fr", 1)>> ELSE [i \in DOMAIN columns |-> Length("Fr", columns[i])],
                                       !.columnGap = gap, !.rowGap = gap]]
RECURSIVE DomToLayoutNode(_)
DomToLayoutNode(element) ==
  [StyledNode(element) EXCEPT !.children = [i \in DOMAIN element.children |-> DomToLayoutNode(element.children[i])]]

-----------------------------------------------------------------------------
(* Flex: what items ask for, and how room is shared among them.            *)
IsRow(flex) == flex.direction \in {"Row", "RowReverse"}
FlexOrder(node) ==
  LET items == VisibleChildren(node)
      sorted == SetToSortSeq(DOMAIN items, LAMBDA i, k : \/ items[i].item.order < items[k].item.order
                                                         \/ items[i].item.order = items[k].item.order /\ i < k)
      placed == IF node.flex.direction \in {"RowReverse", "ColumnReverse"} THEN Reverse(sorted) ELSE sorted IN
  [k \in DOMAIN placed |-> items[placed[k]]]
MainContent(child, row) == IF row THEN child.most ELSE child.tall
FlexBasis(child, available, row) ==
  LET content == MainContent(child, row)
      size == OrElse(Resolve(IF row THEN child.width ELSE child.height, available, content), content) IN
  OrElse(Resolve(child.item.basis, available, content), NoLess(size, 0))
MainSizes(items, available, gap, row) ==
  LET bases == [i \in DOMAIN items |-> FlexBasis(items[i], available, row)]
      grows == [i \in DOMAIN items |-> NoLess(items[i].item.grow, 0)]
      shrinks == [i \in DOMAIN items |-> NoLess(items[i].item.shrink, 0) * bases[i]]
      free == available - SumOf(bases) - gap * (Len(items) - 1)
      shared(i) == IF free > 0 /\ SumOf(grows) > 0 THEN bases[i] + (free * grows[i]) \div SumOf(grows)
                   ELSE IF free < 0 /\ SumOf(shrinks) > 0 THEN bases[i] + (free * shrinks[i]) \div SumOf(shrinks)
                   ELSE bases[i]
      least(i) == IF LayoutConfig.shrinkBelowContent THEN 0 ELSE IF row THEN items[i].least ELSE items[i].tall IN
  [i \in DOMAIN items |-> NoLess(NoLess(shared(i), least(i)), 0)]
(* Where the first item begins and the gap from one to the next.           *)
JustifyOffsets(justify, room, gap, count) ==
  CASE justify = "Center" -> <<room \div 2, gap>>
    [] justify = "FlexEnd" -> <<room, gap>>
    [] justify = "SpaceBetween" /\ count > 1 -> <<0, gap + room \div (count - 1)>>
    [] justify = "SpaceAround" -> <<(room \div count) \div 2, gap + room \div count>>
    [] justify = "SpaceEvenly" -> <<room \div (count + 1), gap + room \div (count + 1)>>
    [] OTHER -> <<0, gap>>
FlexCrossSize(child, available, align, row) ==
  LET content == IF row THEN child.tall ELSE child.most
      own == IF align = "Stretch" THEN available ELSE content IN
  NoLess(OrElse(Resolve(IF row THEN child.height ELSE child.width, available, content), own), 0)
AlignOffset(align, available, size) ==
  CASE align = "Center" -> NoLess(available - size, 0) \div 2
    [] align = "FlexEnd" -> NoLess(available - size, 0)
    [] OTHER -> 0

-----------------------------------------------------------------------------
(* Grid: tracks, and the cells items take.                                 *)
ResolveGridTracks(explicit, count, auto, available, gap, fallback) ==
  LET track(i) == IF i \in DOMAIN explicit THEN explicit[i] ELSE auto
      room == NoLess(available - NoLess(gap, 0) * NoLess(count - 1, 0), 0)
      fixed(i) == IF track(i).kind = "Auto" THEN fallback ELSE OrElse(Resolve(track(i), room, 0), 0)
      shares == [i \in 1 .. count |-> IF track(i).kind = "Fr" THEN NoLess(track(i).value, 0) ELSE 0]
      left == NoLess(room - SumOf([i \in 1 .. count |-> fixed(i)]), 0) IN
  [i \in 1 .. count |-> IF track(i).kind = "Fr" /\ SumOf(shares) > 0 THEN (left * shares[i]) \div SumOf(shares) ELSE fixed(i)]
TrackOffset(tracks, index, gap) == SumOf(SubSeq(tracks, 1, Min({index, Len(tracks)}))) + NoLess(gap, 0) * index
SpanSize(tracks, start, span, gap) ==
  SumOf(SubSeq(tracks, start + 1, Min({start + span, Len(tracks)}))) + NoLess(gap, 0) * NoLess(span - 1, 0)

GridCells(at, item) == (at[1] .. at[1] + item.rowSpan - 1) \X (at[2] .. at[2] + item.columnSpan - 1)
(* The first place from the cursor on where all the item's cells are free, *)
(* else the last cell.                                                     *)
CellAt(cursor, rows, columns, order) ==
  IF order = "Row" THEN <<cursor \div columns, cursor % columns>> ELSE <<cursor % rows, cursor \div rows>>
GridPositionIn(Fits(_), cursor, rows, columns, order) ==
  LET from == SelectInSeq([k \in 1 .. NoLess(rows * columns, 1) |-> cursor + k - 1], LAMBDA c : Fits(CellAt(c, rows, columns, order))) IN
  IF from = 0 THEN <<NoLess(rows - 1, 0), NoLess(columns - 1, 0)>> ELSE CellAt(cursor + from - 1, rows, columns, order)
(* Mutant of NextGridPosition: what is there already is not asked.         *)
PositionAnyhow(occupied, cursor, rows, columns, item, order) ==
  GridPositionIn(LAMBDA at : at[1] + item.rowSpan <= rows /\ at[2] + item.columnSpan <= columns, cursor, rows, columns, order)
NextGridPosition(occupied, cursor, rows, columns, item, order) ==
  GridPositionIn(LAMBDA at : /\ at[1] + item.rowSpan <= rows /\ at[2] + item.columnSpan <= columns
                             /\ GridCells(at, item) \cap occupied = {},
                 cursor, rows, columns, order)
PlaceGridItem(at, child, rows, columns, order) ==
  LET item == [child.cell EXCEPT !.rowSpan = NoLess(@, 1), !.columnSpan = NoLess(@, 1)]
      next == NextGridPosition(at.occupied, at.cursor, rows, columns, item, order)
      place == IF item.cell = <<>> THEN next ELSE <<NoLess(item.cell[1] - 1, 0), NoLess(item.cell[2] - 1, 0)>> IN
  [occupied |-> at.occupied \cup GridCells(place, item),
   cursor |-> IF item.cell = <<>> THEN next[1] * columns + next[2] + 1 ELSE at.cursor,
   areas |-> Append(at.areas, <<place[1], place[2], item.rowSpan, item.columnSpan>>)]
GridShape(node) ==
  LET count == Len(VisibleChildren(node))
      columns == NoLess(Len(node.grid.columns), 1) IN
  [columns |-> columns, rows |-> Max({Len(node.grid.rows), (count + columns - 1) \div columns, 1})]
GridAreas(node) ==
  LET shape == GridShape(node) IN
  FoldLeft(LAMBDA at, child : PlaceGridItem(at, child, shape.rows, shape.columns, node.grid.flow),
           [occupied |-> {}, cursor |-> 0, areas |-> <<>>], VisibleChildren(node)).areas

-----------------------------------------------------------------------------
(* The tree.  forced is the size a flex or grid container gives, role says *)
(* whose item the node is; each result is the box and all that is emitted. *)
RECURSIVE LayoutNode(_, _, _, _, _, _)
NoRole == [item |-> "None", area |-> <<>>]
NothingLaid == [bounds |-> <<>>, ids |-> <<>>, boxes |-> <<>>, from |-> 0]
Laid(done, child, result) ==
  [done EXCEPT !.bounds = UnionOf(@, result.box.margin), !.ids = Append(@, child.id), !.boxes = @ \o result.boxes,
               !.from = Bottom(result.box.margin)]
LayoutBlockChildren(node, content, depth) ==
  FoldLeft(LAMBDA done, child : Laid(done, child, LayoutNode(child, node.id, [content EXCEPT !.y = done.from], <<>>, depth, NoRole)),
           [NothingLaid EXCEPT !.from = content.y], VisibleChildren(node))
LaidAt(done, child, node, slot, depth, role) ==
  Laid(done, child, LayoutNode(child, node.id, slot, <<slot>>, depth, role))
LayoutFlexChildren(node, content, depth) ==
  LET items == FlexOrder(node)
      row == IsRow(node.flex)
      main == IF row THEN content.width ELSE content.height
      cross == IF row THEN content.height ELSE content.width
      gap == NoLess(node.flex.gap, 0)
      offsetsOf(sizes) ==
        JustifyOffsets(node.flex.justify, NoLess(main - SumOf(sizes) - gap * (Len(items) - 1), 0), gap, Len(items))
      align(i) == IF items[i].item.align = "" THEN node.flex.align ELSE items[i].item.align
      slot(begins, aside, along, across) ==
        IF row THEN FlexRect(content.x + begins, content.y + aside, along, across)
        ELSE FlexRect(content.x + aside, content.y + begins, across, along)
      slotOf(i, across, sizes, offsets) ==
        slot(offsets[1] + SumOf(SubSeq(sizes, 1, i - 1)) + (i - 1) * offsets[2], AlignOffset(align(i), cross, across), sizes[i], across)
      laid(sizes, offsets) ==
        FoldLeft(LAMBDA done, i : LaidAt(done, items[i], node, slotOf(i, FlexCrossSize(items[i], cross, align(i), row), sizes, offsets),
                                         depth, [item |-> "Flex", area |-> <<>>]),
                 NothingLaid, [i \in DOMAIN items |-> i])
      laidOut(sizes) == laid(sizes, offsetsOf(sizes)) IN
  laidOut(MainSizes(items, main, gap, row))
LayoutGridChildren(node, content, depth) ==
  LET items == VisibleChildren(node)
      grid == node.grid
      columns(shape) == ResolveGridTracks(grid.columns, shape.columns, grid.autoColumns, content.width, grid.columnGap, LayoutConfig.autoColumn)
      rows(shape) == ResolveGridTracks(grid.rows, shape.rows, grid.autoRows, content.height, grid.rowGap, LayoutConfig.autoRow)
      slot(a, wide, tall) == FlexRect(content.x + TrackOffset(wide, a[2], grid.columnGap), content.y + TrackOffset(tall, a[1], grid.rowGap),
                                      SpanSize(wide, a[2], a[4], grid.columnGap), SpanSize(tall, a[1], a[3], grid.rowGap))
      laid(wide, tall, areas) ==
        FoldLeft(LAMBDA done, i : LaidAt(done, items[i], node, slot(areas[i], wide, tall), depth, [item |-> "Grid", area |-> areas[i]]),
                 NothingLaid, [i \in DOMAIN items |-> i]) IN
  laid(columns(GridShape(node)), rows(GridShape(node)), GridAreas(node))

BoxKind(node, role) ==
  CASE node.display \in {"Flex", "Grid"} -> node.display
    [] role.item /= "None" -> role.item
    [] OTHER -> "Block"
HiddenBox(node, parent, at) ==
  [id |-> node.id, parent |-> parent, kind |-> "Hidden", margin |-> at, border |-> at, padding |-> at, content |-> at,
   children |-> <<>>, area |-> <<>>]
(* The rectangles of a node, from its border in, before its children.      *)
InnerRects(node, border) ==
  LET padding == InsetBy(border, node.border) IN
  [border |-> border, padding |-> padding, content |-> InsetBy(padding, node.padding)]
NodeHeight(node, containing, value) == ApplyMinMax(value, node.minHeight, node.maxHeight, containing.height, node.tall, node.tall)
NodeRects(node, containing, forced) ==
  LET edges == Horizontal(node.margin) + Horizontal(node.border) + Horizontal(node.padding)
      asked == IF forced /= <<>> THEN forced[1]
               ELSE [width |-> OrElse(Resolve(node.width, containing.width, node.most), NoLess(containing.width - edges, 0)),
                     height |-> OrElse(Resolve(node.height, containing.height, node.tall), 0)]
      wide == ApplyMinMax(asked.width, node.minWidth, node.maxWidth, containing.width, node.least, node.most)
      bordered(size, edge) == IF node.borderBox THEN NoLess(size - edge, 0) + edge ELSE size + edge IN
  InnerRects(node, FlexRect(containing.x + node.margin.left, containing.y + node.margin.top,
                            bordered(wide, Horizontal(node.padding) + Horizontal(node.border)),
                            bordered(NodeHeight(node, containing, asked.height), Vertical(node.padding) + Vertical(node.border))))
ChildrenLaid(node, content, depth) ==
  CASE node.display = "Flex" -> LayoutFlexChildren(node, content, depth)
    [] node.display = "Grid" -> LayoutGridChildren(node, content, depth)
    [] OTHER -> LayoutBlockChildren(node, content, depth)
(* Its box around them: a node of automatic height grows with them.        *)
NodeBox(node, parent, containing, forced, role, rects, laid) ==
  LET grown == NodeHeight(node, containing, IF laid.bounds = <<>> THEN node.tall ELSE NoLess(Bottom(laid.bounds[1]) - rects.content.y, node.tall))
      box(content, padded, bordered) ==
        [id |-> node.id, parent |-> parent, kind |-> BoxKind(node, role), content |-> content, padding |-> padded, border |-> bordered,
         margin |-> OutsetBy(bordered, containing.x, containing.y, node.margin), children |-> laid.ids, area |-> role.area]
      around(content, padded) == box(content, padded, OutsetBy(padded, rects.border.x, rects.border.y, node.border))
      over(content) == around(content, OutsetBy(content, rects.padding.x, rects.padding.y, node.padding)) IN
  over(IF forced = <<>> /\ node.height.kind = "Auto" THEN [rects.content EXCEPT !.height = grown] ELSE rects.content)
LayoutNode(node, parent, containing, forced, depth, role) ==
  LET emitted(box, boxes) == [box |-> box, boxes |-> Append(boxes, box)]
      around(rects, laid) == emitted(NodeBox(node, parent, containing, forced, role, rects, laid), laid.boxes)
      within(rects) == around(rects, ChildrenLaid(node, rects.content, depth + 1)) IN
  IF depth > LayoutConfig.maxDepth \/ node.display = "None"
  THEN [box |-> HiddenBox(node, parent, FlexRect(containing.x, containing.y, 0, 0)), boxes |-> <<>>]
  ELSE within(NodeRects(node, containing, forced))

LayoutResult(laid) ==
  [root |-> laid.box, boxes |-> laid.boxes, bounds |-> FoldLeft(LAMBDA bounds, box : UnionOf(bounds, box.margin), <<laid.box.margin>>, laid.boxes)[1]]
LayoutFlexGridTree(root, size) ==
  LayoutResult(LayoutNode(root, 0, FlexRect(0, 0, NoLess(size.width, 0), NoLess(size.height, 0)), <<>>, 0, NoRole))

-----------------------------------------------------------------------------
NotLaidOut == [boxes |-> <<>>]
FlowInit ==
  \E root \in LayoutTrees, size \in PageSizes : flow = [root |-> root, size |-> size, result |-> NotLaidOut]
TreeLaidOut == flow.result = NotLaidOut /\ flow' = [flow EXCEPT !.result = LayoutFlexGridTree(flow.root, flow.size)]

-----------------------------------------------------------------------------
(* What a layout promises.  Nodes with their depth and parent, as shown.   *)
RECURSIVE NodesShown(_, _, _)
NodesShown(node, parent, depth) ==
  IF depth > LayoutConfig.maxDepth \/ node.display = "None" THEN {}
  ELSE {[node |-> node, parent |-> parent]} \cup UNION {NodesShown(node.children[i], node, depth + 1) : i \in DOMAIN node.children}
BoxOfNode(result, node) == result.boxes[SelectInSeq(result.boxes, LAMBDA box : box.id = node.id)]
IsLaid(result, node) == \E i \in DOMAIN result.boxes : result.boxes[i].id = node.id
IsAround(outer, inner) ==
  outer.x <= inner.x /\ outer.y <= inner.y /\ Right(inner) <= Right(outer) /\ Bottom(inner) <= Bottom(outer)

(* Every node that is shown has one box, after its children's, which are   *)
(* its visible children; boxes lie in each other, and all in the bounds.   *)
BoxesMirrorTheTree(root, result) ==
  LET shown == NodesShown(root, [id |-> 0], 0)
      place(id) == SelectInSeq(result.boxes, LAMBDA box : box.id = id) IN
  /\ Len(result.boxes) = Cardinality(shown)
  /\ \A one \in shown : IsLaid(result, one.node) /\
       LET box == BoxOfNode(result, one.node) IN
       /\ box.parent = one.parent.id
       /\ ToSet(box.children) = {child.id : child \in ToSet(VisibleChildren(one.node))}
       /\ \A id \in ToSet(box.children) : place(id) < place(one.node.id)
       /\ IsAround(box.border, box.padding) /\ IsAround(box.padding, box.content) /\ IsAround(result.bounds, box.margin)

(* A box as high as its content holds the boxes of its children.           *)
GrownBoxesHold(root, result) ==
  \A one \in NodesShown(root, NewLayoutNode(0), 0) :
    LET box == BoxOfNode(result, one.node) IN
    one.parent.display = "Block" /\ one.node.height = AutoLength /\ one.node.maxHeight = AutoLength =>
      \A child \in ToSet(VisibleChildren(one.node)) :
        IsLaid(result, child) => Bottom(BoxOfNode(result, child).margin) <= Bottom(box.content)

(* Items without edges and limits of their own come one after the other    *)
(* with their gap, fill what they may grow into, and fit what all of them  *)
(* may shrink into.                                                        *)
IsPlain(child) ==
  /\ child.margin = NoEdges /\ child.padding = NoEdges /\ child.border = NoEdges
  /\ child.minWidth = AutoLength /\ child.maxWidth = AutoLength /\ child.minHeight = AutoLength /\ child.maxHeight = AutoLength
FlexItemsShareTheirRoom(node, result) ==
  LET row == IsRow(node.flex)
      content == BoxOfNode(result, node).content
      items == FlexOrder(node)
      count == Len(items)
      gap == NoLess(node.flex.gap, 0)
      rect(i) == BoxOfNode(result, items[i]).margin
      begins(i) == IF row THEN rect(i).x - content.x ELSE rect(i).y - content.y
      size(i) == IF row THEN rect(i).width ELSE rect(i).height
      room == IF row THEN content.width ELSE content.height
      least(i) == IF row THEN items[i].least ELSE items[i].tall
      wanted == SumOf([i \in 1 .. count |-> FlexBasis(items[i], room, row)]) + gap * (count - 1) IN
  /\ begins(1) >= 0
  /\ \A i \in 1 .. count - 1 : begins(i + 1) >= begins(i) + size(i) + gap
  /\ wanted <= room /\ (\E i \in 1 .. count : items[i].item.grow > 0) => room - (begins(count) + size(count)) \in 0 .. count
  /\ gap * (count - 1) <= room /\ (\A i \in 1 .. count : items[i].item.shrink = 1 /\ (LayoutConfig.shrinkBelowContent \/ least(i) = 0)) =>
       begins(count) + size(count) <= room

(* In rows, items of one cell each are put where no item is yet.           *)
GridItemsKeepApart(node) ==
  LET items == VisibleChildren(node)
      shape == GridShape(node)
      areas == GridAreas(node)
      single(i) == areas[i][3] = 1 /\ areas[i][4] = 1 /\ areas[i][1] < shape.rows /\ areas[i][2] < shape.columns IN
  node.grid.flow = "Row" /\ (\A i \in DOMAIN items : single(i)) =>
    \A i, k \in DOMAIN items : i < k /\ items[k].cell.cell = <<>> => areas[i] /= areas[k]

(* A tree is laid out whole and its items share their container's room     *)
(* (flex_grid.rs).                                                         *)
FlexGridTreesAreLaidOut ==
  flow.result /= NotLaidOut =>
    /\ BoxesMirrorTheTree(flow.root, flow.result)
    /\ GrownBoxesHold(flow.root, flow.result)
    /\ \A one \in NodesShown(flow.root, [id |-> 0], 0) :
         LET items == VisibleChildren(one.node)
             whole == items /= <<>> /\ \A i \in DOMAIN items : IsLaid(flow.result, items[i]) IN
         /\ one.node.display = "Flex" /\ whole /\ (\A i \in DOMAIN items : IsPlain(items[i])) =>
              FlexItemsShareTheirRoom(one.node, flow.result)
         /\ one.node.display = "Grid" => GridItemsKeepApart(one.node)
=============================================================================
