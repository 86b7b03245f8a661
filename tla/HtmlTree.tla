------------------------------ MODULE HtmlTree ------------------------------
(***************************************************************************)
(* html_mvp (crates/html_mvp/src): the tokenizer, the tree builder with    *)
(* its implied end tags, the normaliser that gives every page its html,    *)
(* head and body, and the serializer.                                      *)
(*                                                                         *)
(* A source is a sequence of symbols, each a tuple of strings: a mark such *)
(* as <<"<">>, a word such as <<"p">>, or a character reference, which is  *)
(* <<"&">> before the symbol it stands for.  "quote" is a double quote and *)
(* " " any white space.  Case, single quotes, malformed references and the *)
(* order in which attributes are written are left out.                     *)
(***************************************************************************)
EXTENDS Integers, Sequences, SequencesExt, FiniteSetsExt, TLC

CONSTANTS
  Pieces,      \* the pieces of markup sources are put together from
  MaxPieces    \* bound: pieces of a source

ASSUME HtmlAssumption == MaxPieces \in Nat /\ \A p \in Pieces : Len(p) > 0

VARIABLE html    \* the page: its source, its document, the document read back

-----------------------------------------------------------------------------
(* Symbols *)
Marks == {"<", ">", "/", "!", "--", "=", "quote", " "}
IsMark(s, i, mark) == i \in 1..Len(s) /\ s[i] = <<mark>>
IsWord(s, i) == i \in 1..Len(s) /\ Len(s[i]) = 1 /\ s[i][1] \notin Marks
LooksAt(s, i, marks) == \A k \in 1..Len(marks) : IsMark(s, i + k - 1, marks[k])
FirstFrom(s, i, marks) ==     \* 0 when there is none
  LET found == {j \in i..Len(s) : LooksAt(s, j, marks)} IN IF found = {} THEN 0 ELSE Min(found)
SkipSpaces(s, i) == Min({j \in i..(Len(s) + 1) : ~IsMark(s, j, " ")})
IsBlank(text) == \A i \in 1..Len(text) : text[i] = <<" ">>

Each(Op(_), s) == FoldLeft(LAMBDA done, x : Append(done, Op(x)), <<>>, s)
Reference(symbol) == <<"&">> \o symbol
DecodeEntities(text) == Each(LAMBDA x : IF x[1] = "&" THEN Tail(x) ELSE x, text)
EscapeAll(text, special) == Each(LAMBDA x : IF x[1] \in special THEN Reference(x) ELSE x, text)
(* Mutant of EscapeText: an ampersand is written as it is. *)
EscapeAngles(text) == EscapeAll(text, {"<", ">"})
EscapeText(text) == EscapeAll(text, {"<", ">", "&"})
EscapeAttr(text) == EscapeAll(text, {"<", ">", "&", "quote"})

-----------------------------------------------------------------------------
(* Tokens *)
RawTags == {"script", "style", "xmp", "iframe", "noembed", "noframes"}
RcDataTags == {"title", "textarea"}
TextToken(text) == [token |-> "text", text |-> text]
EndToken(tag) == [token |-> "end", tag |-> tag]
CommentToken(text) == [token |-> "comment", text |-> text]

NoTag == [ok |-> FALSE]
EndOfValue(s, i) ==    \* of an unquoted value
  Min({j \in i..(Len(s) + 1) : j > Len(s) \/ IsMark(s, j, " ") \/ IsMark(s, j, ">") \/ LooksAt(s, j, <<"/", ">">>)})

ParseAttr(s, i) ==
  LET equals == SkipSpaces(s, i + 1)
      value == SkipSpaces(s, equals + 1)
      closing == FirstFrom(s, value + 1, <<"quote">>)
      Attr(from, to, next) ==
        [ok |-> TRUE, next |-> next, attr |-> <<s[i][1], DecodeEntities(SubSeq(s, from, to))>>]
  IN IF ~IsWord(s, i) THEN NoTag
     ELSE IF ~IsMark(s, equals, "=") THEN Attr(1, 0, equals)
     ELSE IF ~IsMark(s, value, "quote") THEN Attr(value, EndOfValue(s, value) - 1, EndOfValue(s, value))
     ELSE IF closing = 0 THEN Attr(value + 1, Len(s), Len(s) + 1)
     ELSE Attr(value + 1, closing - 1, closing + 1)

(* A name already given keeps its first value. *)
AddAttr(attrs, attr) ==
  IF \E k \in 1..Len(attrs) : attrs[k][1] = attr[1] THEN attrs ELSE Append(attrs, attr)

RECURSIVE ParseAttrs(_, _, _)
ParseAttrs(s, from, attrs) ==
  LET i == SkipSpaces(s, from)
      one == ParseAttr(s, i)
      Closed(selfClosing, next) == [ok |-> TRUE, attrs |-> attrs, selfClosing |-> selfClosing, next |-> next]
  IN IF i > Len(s) THEN NoTag
     ELSE IF IsMark(s, i, ">") THEN Closed(FALSE, i + 1)
     ELSE IF LooksAt(s, i, <<"/", ">">>) THEN Closed(TRUE, i + 2)
     ELSE IF IsMark(s, i, "/") THEN ParseAttrs(s, i + 1, attrs)
     ELSE IF one.ok THEN ParseAttrs(s, one.next, AddAttr(attrs, one.attr))
     ELSE NoTag

ParseEndTag(s, i) ==
  LET name == SkipSpaces(s, i + 2)
      end == FirstFrom(s, name + 1, <<">">>)
  IN IF IsWord(s, name) /\ end # 0 THEN [ok |-> TRUE, tag |-> s[name][1], next |-> end + 1] ELSE NoTag

DoctypeName(raw) ==
  LET words == SelectSeq(raw, LAMBDA w : w # <<" ">>)
  IN IF words = <<>> THEN ""
     ELSE IF words[1] # <<"doctype">> THEN words[1][1]
     ELSE IF Len(words) = 1 THEN "html" ELSE words[2][1]

FlushText(tokens, text) == IF text = <<>> THEN tokens ELSE Append(tokens, TextToken(DecodeEntities(text)))
AddText(tokens, text) == IF text = <<>> THEN tokens ELSE Append(tokens, TextToken(text))

ReadOn(next, tokens) == [next |-> next, text |-> <<>>, tokens |-> tokens]
(* What follows the start tag of a script, a title, ...: all of it is text *)
(* up to the end tag, or to the end of the source.                         *)
ReadRawText(s, i, tag, tokens) ==
  LET Text(raw) == AddText(tokens, IF tag \in RcDataTags THEN DecodeEntities(raw) ELSE raw)
      ended(before, end) == IF end.ok THEN ReadOn(end.next, Append(before, EndToken(end.tag))) ELSE ReadOn(end.at, before)
      closed(close) ==
        IF close = 0 THEN ReadOn(Len(s) + 1, Text(SubSeq(s, i, Len(s))))
        ELSE ended(Text(SubSeq(s, i, close - 1)), [at |-> close] @@ ParseEndTag(s, close))
  IN closed(FirstFrom(s, i, <<"<", "/", tag>>))

ReadStartTag(s, tag, start, started) ==
  IF start.selfClosing \/ tag \notin RawTags \cup RcDataTags \cup {"plaintext"} THEN ReadOn(start.next, started)
  ELSE IF tag = "plaintext" THEN ReadOn(Len(s) + 1, AddText(started, SubSeq(s, start.next, Len(s))))
  ELSE ReadRawText(s, start.next, tag, started)
(* One token, or one symbol more of the text before the next.              *)
NextMarkup(s, at) ==
  LET i == at.next
      flushed == FlushText(at.tokens, at.text)
      literal == [at EXCEPT !.next = i + 1, !.text = Append(@, s[i])]
      commented(end) ==
        IF end # 0 THEN ReadOn(end + 2, Append(flushed, CommentToken(SubSeq(s, i + 3, end - 1))))
        ELSE ReadOn(Len(s) + 1, Append(flushed, CommentToken(SubSeq(s, i + 3, Len(s)))))
      named(name) == IF name = "" THEN flushed ELSE Append(flushed, [token |-> "doctype", name |-> name])
      declared(end) == IF end = 0 THEN literal ELSE ReadOn(end + 1, named(DoctypeName(SubSeq(s, i + 2, end - 1))))
      ended(end) == IF end.ok THEN ReadOn(end.next, Append(flushed, EndToken(end.tag))) ELSE literal
      started(tag, start) ==
        IF ~start.ok THEN literal
        ELSE ReadStartTag(s, tag, start, Append(flushed, [token |-> "start", tag |-> tag, attrs |-> start.attrs,
                                                          selfClosing |-> start.selfClosing]))
  IN CASE LooksAt(s, i, <<"<", "!", "--">>) -> commented(FirstFrom(s, i + 3, <<"--", ">">>))
       [] LooksAt(s, i, <<"<", "!">>) /\ ~LooksAt(s, i, <<"<", "!", "--">>) -> declared(FirstFrom(s, i + 2, <<">">>))
       [] LooksAt(s, i, <<"<", "/">>) -> ended(ParseEndTag(s, i))
       [] IsMark(s, i, "<") /\ IsWord(s, i + 1) -> started(s[i + 1][1], ParseAttrs(s, i + 2, <<>>))
       [] OTHER -> literal
RECURSIVE TokenizeFrom(_, _)
TokenizeFrom(s, at) ==
  IF at.next > Len(s) THEN FlushText(at.tokens, at.text) ELSE TokenizeFrom(s, NextMarkup(s, at))
Tokenize(s) == TokenizeFrom(s, ReadOn(1, <<>>))

-----------------------------------------------------------------------------
(* The tree builder: the nodes of the document so far and the elements     *)
(* still open; an element joins its parent when it is closed.              *)
TextNode(text) == [node |-> "text", text |-> text]
CommentNode(text) == [node |-> "comment", text |-> text]
Element(tag, attrs, children) == [node |-> "element", tag |-> tag, attrs |-> attrs, children |-> children]
NewElement(tag, children) == Element(tag, <<>>, children)
IsElement(n, tags) == n.node = "element" /\ (n.node = "element" => n.tag \in tags)
IsBlankText(n) == n.node = "text" /\ (n.node = "text" => IsBlank(n.text))

VoidTags == {"area", "base", "br", "col", "embed", "hr", "img", "input", "link", "meta",
             "param", "source", "track", "wbr"}
ClosesParagraph == {"address", "article", "aside", "blockquote", "div", "dl", "fieldset",
  "footer", "form", "h1", "h2", "h3", "h4", "h5", "h6", "header", "hr", "main", "nav",
  "ol", "p", "pre", "section", "table", "ul"}
ListTags == {"ul", "ol", "menu"}

AppendNode(b, n) ==
  IF b.stack = <<>> /\ IsBlankText(n) THEN b
  ELSE IF b.stack = <<>> THEN [b EXCEPT !.children = Append(@, n)]
  ELSE [b EXCEPT !.stack[Len(b.stack)].children = Append(@, n)]
PopOpen(b) == AppendNode([b EXCEPT !.stack = Front(@)], Last(b.stack))
RECURSIVE PopDownTo(_, _)
PopDownTo(b, depth) == IF Len(b.stack) <= depth THEN b ELSE PopDownTo(PopOpen(b), depth)
LastOpen(b, tags) == Max({0} \cup {i \in 1..Len(b.stack) : b.stack[i].tag \in tags})
CloseOpen(b, tag) ==
  LET position == LastOpen(b, {tag}) IN IF position = 0 THEN b ELSE PopDownTo(b, position - 1)

ApplyImpliedEndTags(b, tag) ==
  LET unlessParagraph == IF tag \in ClosesParagraph THEN CloseOpen(b, "p") ELSE b
  IN CASE tag = "li" -> IF LastOpen(b, ListTags) > LastOpen(b, {"li"}) THEN b ELSE CloseOpen(b, "li")
       [] tag \in {"dt", "dd"} -> CloseOpen(CloseOpen(b, "dt"), "dd")
       [] tag = "option" -> CloseOpen(b, "option")
       [] tag = "tr" -> CloseOpen(unlessParagraph, "tr")
       [] tag \in {"td", "th"} -> CloseOpen(CloseOpen(unlessParagraph, "td"), "th")
       [] OTHER -> unlessParagraph

BuildToken(b, t) ==
  CASE t.token = "doctype" -> IF b.doctype = "" THEN [b EXCEPT !.doctype = t.name] ELSE b
    [] t.token = "start" ->
         LET closed == ApplyImpliedEndTags(b, t.tag)
             element == Element(t.tag, t.attrs, <<>>)
         IN IF t.tag \in VoidTags \/ t.selfClosing THEN AppendNode(closed, element)
            ELSE [closed EXCEPT !.stack = Append(@, element)]
    [] t.token = "end" -> CloseOpen(b, t.tag)
    [] t.token = "comment" -> AppendNode(b, CommentNode(t.text))
    [] t.token = "text" -> AppendNode(b, TextNode(t.text))

BuildTree(tokens) ==
  LET document(built) == [doctype |-> built.doctype, children |-> built.children]
  IN document(PopDownTo(FoldLeft(BuildToken, [doctype |-> "", children |-> <<>>, stack |-> <<>>], tokens), 0))

-----------------------------------------------------------------------------
(* The normaliser *)
HeadTags == {"base", "basefont", "bgsound", "link", "meta", "noscript", "script", "style", "template", "title"}

CoalesceNodes(nodes) ==
  FoldLeft(LAMBDA merged, n :
             IF n.node = "text" /\ merged # <<>> /\ Last(merged).node = "text"
             THEN Append(Front(merged), TextNode(Last(merged).text \o n.text))
             ELSE Append(merged, n), <<>>, nodes)

(* The element as its parent keeps it: what may not be a child of a list,  *)
(* a table or a row gets the containers it lacks.                          *)
WrapFor(parent, child) ==
  LET keeps == child.node = "comment" \/ IsBlankText(child)
  IN CASE parent \in ListTags ->
            IF keeps \/ IsElement(child, {"li"}) THEN child ELSE NewElement("li", <<child>>)
       [] parent = "table" ->
            IF keeps \/ IsElement(child, {"caption", "colgroup", "thead", "tbody", "tfoot", "tr"}) THEN child
            ELSE NewElement("tbody", << NewElement("tr", << NewElement("td", <<child>>) >>) >>)
       [] parent = "tr" ->
            IF keeps \/ IsElement(child, {"td", "th"}) THEN child ELSE NewElement("td", <<child>>)
       [] OTHER -> child

RECURSIVE NormalizeNode(_)
NormalizeNode(n) ==
  IF n.node # "element" THEN n
  ELSE IF n.tag \in VoidTags THEN [n EXCEPT !.children = <<>>]
  ELSE [n EXCEPT !.children =
         CoalesceNodes(Each(LAMBDA child : WrapFor(n.tag, NormalizeNode(child)), @))]

ClassifyHtmlChild(shell, n) ==
  IF ~shell.seenBody /\ (IsBlankText(n) \/ n.node = "comment" \/ IsElement(n, HeadTags))
  THEN [shell EXCEPT !.headNodes = Append(@, n)]
  ELSE [shell EXCEPT !.bodyNodes = Append(@, n)]

NormalizeHtmlChildren(page) ==
  LET Take(shell, n) ==
        CASE IsElement(n, {"head"}) /\ shell.head = <<>> -> [shell EXCEPT !.head = <<n>>]
          [] IsElement(n, {"body"}) /\ shell.body = <<>> -> [shell EXCEPT !.body = <<n>>, !.seenBody = TRUE]
          [] IsElement(n, {"html"}) -> FoldLeft(ClassifyHtmlChild, shell, n.children)
          [] OTHER -> ClassifyHtmlChild(shell, n)
      shell == FoldLeft(Take, [head |-> <<>>, body |-> <<>>, headNodes |-> <<>>, bodyNodes |-> <<>>, seenBody |-> FALSE],
                        page.children)
      Part(tag, taken, nodes) ==
        LET part == IF taken = <<>> THEN NewElement(tag, <<>>) ELSE taken[1] IN [part EXCEPT !.children = @ \o nodes]
  IN [page EXCEPT !.children =
        << Part("head", shell.head, shell.headNodes), Part("body", shell.body, shell.bodyNodes) >>]

NormalizeShell(children) ==
  LET Sort(shell, n) ==
        CASE n.node = "comment" /\ shell.page = <<>> /\ shell.loose = <<>> -> [shell EXCEPT !.comments = Append(@, n)]
          [] IsElement(n, {"html"}) /\ shell.page = <<>> -> [shell EXCEPT !.page = <<n>>]
          [] OTHER -> [shell EXCEPT !.loose = Append(@, n)]
      shell == FoldLeft(Sort, [comments |-> <<>>, page |-> <<>>, loose |-> <<>>], children)
      page == IF shell.page = <<>> THEN NewElement("html", <<>>) ELSE shell.page[1]
  IN Append(shell.comments, NormalizeHtmlChildren([page EXCEPT !.children = @ \o shell.loose]))

NormalizeDocument(d) ==
  LET shell == NormalizeShell(d.children)
  IN [doctype |-> IF d.doctype = "" THEN "html" ELSE d.doctype,
      children |-> CoalesceNodes(Each(NormalizeNode, shell))]

ParseHtml(source) == NormalizeDocument(BuildTree(Tokenize(source)))

-----------------------------------------------------------------------------
(* The serializer *)
BooleanAttributes == {"allowfullscreen", "async", "autofocus", "autoplay", "checked", "controls",
  "defer", "disabled", "hidden", "loop", "multiple", "muted", "open", "readonly", "required", "selected"}
Written(marks) == Each(LAMBDA mark : <<mark>>, marks)
SanitizeComment(text) == Each(LAMBDA x : IF x = <<"--">> THEN <<"- -">> ELSE x, text)
SerializeAttr(attr) ==
  IF attr[2] = <<>> /\ attr[1] \in BooleanAttributes THEN Written(<<" ", attr[1]>>)
  ELSE Written(<<" ", attr[1], "=", "quote">>) \o EscapeAttr(attr[2]) \o Written(<<"quote">>)

RECURSIVE SerializeNode(_, _)
SerializeNode(n, parent) ==
  CASE n.node = "text" -> IF parent \in RawTags \cup {"plaintext"} THEN n.text ELSE EscapeText(n.text)
    [] n.node = "comment" -> Written(<<"<", "!", "--">>) \o SanitizeComment(n.text) \o Written(<<"--", ">">>)
    [] n.node = "element" ->
         LET start == Written(<<"<", n.tag>>)
                      \o FlattenSeq(Each(SerializeAttr, n.attrs)) \o Written(<<">">>)
         IN IF n.tag \in VoidTags THEN start
            ELSE start \o FlattenSeq(Each(LAMBDA child : SerializeNode(child, n.tag), n.children))
                 \o Written(<<"<", "/", n.tag, ">">>)

SerializeDocument(d) ==
  Written(<<"<", "!", "doctype", " ", d.doctype, ">">>)
  \o FlattenSeq(Each(LAMBDA n : SerializeNode(n, ""), d.children))

-----------------------------------------------------------------------------
(* The page: it is parsed, written out, and read back. *)
NoDocument == [doctype |-> "", children |-> <<>>]
HtmlInit == html = [phase |-> "empty", pieces |-> <<>>, source |-> <<>>, document |-> NoDocument, again |-> NoDocument]

PageParsed ==
  /\ html.phase = "empty"
  /\ \E pieces \in BoundedSeq(Pieces, MaxPieces) :
       html' = [html EXCEPT !.phase = "parsed", !.source = FlattenSeq(pieces), !.document = ParseHtml(FlattenSeq(pieces))]
PageReadBack ==
  /\ html.phase = "parsed"
  /\ html' = [html EXCEPT !.phase = "again", !.again = ParseHtml(SerializeDocument(html.document))]

HtmlNext == PageParsed \/ PageReadBack

-----------------------------------------------------------------------------
RECURSIVE TextIn(_)
TextIn(nodes) ==
  FoldLeft(LAMBDA text, n : CASE n.node = "text" -> text \o n.text
                              [] n.node = "element" -> text \o TextIn(n.children)
                              [] OTHER -> text, <<>>, nodes)
(* A start tag ends an open item, row or cell of these tags; a list within *)
(* an item begins items of its own.                                        *)
EndedBy(tag) == CASE tag \in {"li", "tr"} -> {tag} [] tag \in {"td", "th"} -> {"td", "th"} [] OTHER -> {}
RECURSIVE CannotBeWritten(_, _)
CannotBeWritten(n, open) ==
  /\ n.node = "element"
  /\ \/ EndedBy(n.tag) \cap open # {}
     \/ \E i \in 1..Len(n.children) :
          CannotBeWritten(n.children[i], {n.tag} \cup IF n.tag \in ListTags THEN open \ {"li"} ELSE open)
RECURSIVE SameNodes(_, _)
SameNodes(a, b) ==     \* dom_eq: the order of the attributes does not count
  Len(a) = Len(b) /\ \A i \in 1..Len(a) :
    IF a[i].node = "element" /\ b[i].node = "element"
    THEN a[i].tag = b[i].tag /\ ToSet(a[i].attrs) = ToSet(b[i].attrs) /\ SameNodes(a[i].children, b[i].children)
    ELSE a[i] = b[i]
DomEq(a, b) == a.doctype = b.doctype /\ SameNodes(a.children, b.children)

SourceText(tokens) == FlattenSeq(Each(LAMBDA t : IF t.token = "text" THEN t.text ELSE <<>>, tokens))
Solid(text) == SelectSeq(text, LAMBDA symbol : symbol # <<" ">>)
Starts(tokens, tags) == \E i \in 1..Len(tokens) : tokens[i].token = "start" /\ tokens[i].tag \in tags

(* However broken the markup, the repairs of the tree builder and of the   *)
(* normaliser lose no text and make none up, and unless the page has a     *)
(* part of its own for it to move to, the text keeps its order.            *)
TextIsKept(tokens) ==
  html.phase # "empty" =>
    LET kept == Solid(TextIn(html.document.children))
        source == Solid(SourceText(tokens))
    IN /\ ToBag(kept) = ToBag(source)
       /\ Starts(tokens, HeadTags \cup {"html", "head", "body"}) \/ kept = source

(* serialize_document writes a page parse reads back as the same page,     *)
(* whatever is in its text, containers the normaliser added included.      *)
(* Excepted are comments with two dashes, plaintext, and pages in which    *)
(* such a container has come to hold, or to lie in, an item, row or cell   *)
(* its own start tag ends: the tree builder nests no such elements.        *)
SavedPagesReadBack(tokens) ==
  html.phase = "again" =>
    \/ DomEq(html.document, html.again)
    \/ \E n \in ToSet(html.document.children) : CannotBeWritten(n, {})
    \/ Starts(tokens, {"plaintext"})
    \/ \E i \in 1..Len(tokens) : tokens[i].token = "comment" /\ <<"--">> \in ToSet(tokens[i].text)

(* A page can be written out and read back, its text whole both times. *)
PagesKeepTheirContent == \A tokens \in {Tokenize(html.source)} : TextIsKept(tokens) /\ SavedPagesReadBack(tokens)
=============================================================================
