------------------------------- MODULE MCPage -------------------------------
(***************************************************************************)
(* Instances for TLC of what makes a page out of its text: the lexer, the  *)
(* parser and the machine of its scripts, its tree, its styles.  The parts *)
(* share no state, so one part at a time is explored, from the inputs      *)
(* below.                                                                  *)
(***************************************************************************)
EXTENDS JsLexer, JsParser, JsVm, HtmlTree, StyleCascade, ScriptCssom, ScriptStores, PageScripts, PageRuntime, FlexGrid, PageExtract, ResourceLoads

VARIABLE part     \* the part this behaviour is about

-----------------------------------------------------------------------------
(* Sources for the lexer: every text over the characters of a few tokens   *)
(* that could be taken for each other.                                     *)
Over(alphabet, n) == UNION {[1..k -> alphabet] : k \in 0..n}
SampleTexts ==
  Over({"=", "/", "*", "a", "1", "newline", "!", "'"}, 4)
    \cup Over({"1", ".", "e", "+", "&", "backquote", "$", "{"}, 4)
    \cup Over({"'", "\\", "\"", "a", "/", "*"}, 4)

-----------------------------------------------------------------------------
(* Trees for the parser: every construct within every other.               *)
A == <<"name", "a">>
Simple ==
  {A, <<"lit", "1">>, <<"this">>, <<"un", "-", A>>, <<"un", "+", A>>, <<"assign", "=", A, A>>, <<"cond", A, A, A>>,
   <<"member", A, "a">>, <<"index", A, A>>, <<"call", A, <<A>>>>, <<"new", A, <<>>>>,
   <<"array", << <<A>>, <<>>, <<A>> >> >>, <<"object", << <<"a", <<"lit", "1">> >> >> >>,
   <<"fun", <<>>, <<"a">>, <<>> >>}
    \cup {<<"bin", op, A, A>> : op \in {"||", "&&", "===", "<", "+", "*"}}
Nested ==
  {<<"bin", op, x, y>> : op \in {"&&", "+", "*"}, x \in Simple, y \in Simple}
    \cup {<<"un", op, x>> : op \in {"!", "+", "void", "delete", "typeof"}, x \in Simple}
    \cup {<<"bin", "+", A, <<"un", "+", x>> >> : x \in Simple}
    \cup {<<"assign", "+=", x, y>> : x \in Simple, y \in Simple}
    \cup UNION {{<<"cond", x, y, A>>, <<"cond", A, x, y>>, <<"index", x, y>>, <<"call", x, <<y, A>> >>, <<"new", x, <<y>> >>} :
                 x \in Simple, y \in Simple}
Statements ==
  {<<"expr", e>> : e \in Simple}
    \cup {<<"empty">>, <<"break">>, <<"continue">>, <<"return", <<>> >>, <<"return", <<A>> >>, <<"block", <<>> >>,
          <<"var", "let", << <<"a", <<>> >>, <<"b", <<A>> >> >> >>, <<"fundecl", "a", <<"a", "b">>, << <<"break">> >> >>}
SampleTrees ==
  {<<"expr", e>> : e \in Nested} \cup Statements
    \cup {<<"block", <<x, y>> >> : x \in Statements, y \in Statements}
    \cup {<<"if", A, x, y>> : x \in Statements, y \in {<<>>, << <<"empty">> >>, << <<"if", A, <<"empty">>, <<>> >> >>}}
    \cup {<<"while", e, x>> : e \in Simple, x \in Statements}
    \cup {<<"for", i, t, u, x>> : i \in {<<>>, <<A>>, << <<"var", "var", << <<"a", <<A>> >> >> >> >>},
                                  t \in {<<>>, <<A>>}, u \in {<<>>, <<A>>}, x \in Statements}
SampleTokens ==
  Over({"a", "1", "+", "*", "(", ")", "=", "?", ":"}, 4) \cup Over({"a", "if", "else", "(", ")", "}", ";", "let", "{"}, 4)

-----------------------------------------------------------------------------
(* Scripts for the machine: loops left and continued from everywhere,      *)
(* calls and constructions that return from within, objects, errors.       *)
B == <<"name", "b">>
L(n) == <<"lit", Num(n)>>
Less(x, n) == <<"bin", "<", x, L(n)>>
Assign(n, e) == <<"assign", "=", <<"name", n>>, e>>
Increment(n) == <<"assign", "+=", <<"name", n>>, L(1)>>
Does(e) == <<"expr", e>>
Log(e) == Does(<<"call", <<"name", "log">>, <<e>> >>)
Block(body) == <<"block", body>>
When(test, body) == <<"if", test, body, <<>> >>
Break == <<"break">>
Continue == <<"continue">>
LoopBodies ==
  {Break, Continue, Does(Assign("b", Increment("a"))), Block(<<Does(Increment("b")), When(Less(B, 2), Continue), Log(A)>>), Block(<<When(Less(A, 1), Continue), Log(A)>>),
   Block(<<Log(A), When(Less(L(0), 1), Break), Log(B)>>), <<"if", Less(A, 1), Log(A), <<Block(<<Log(B), Break>>)>> >>,
   <<"while", Less(B, 2), Block(<<Does(Increment("b")), When(Less(B, 2), Continue), Break>>)>>,
   <<"for", <<>>, <<>>, <<Increment("b")>>, When(Less(L(1), 2), Break)>>}
LoopScripts ==
  {<<Does(Assign("b", L(0))), Does(Assign("a", L(0))), loop, Log(A), Log(B)>> :
     loop \in {<<"for", i, <<Less(A, 2)>>, <<Increment("a")>>, body>> :
                 i \in {<<>>, << <<"var", "let", << <<"a", <<L(0)>> >> >> >> >>}, body \in LoopBodies}
              \cup {<<"while", Less(A, 2), Block(<<Does(Increment("a")), body>>)>> : body \in LoopBodies}}
CallScripts ==
  {<< <<"fundecl", "f", <<"a">>, <<body, <<"return", <<e>> >> >> >>, Log(<<how, <<"name", "f">>, <<L(1)>> >>), Log(A)>> :
     body \in {When(Less(A, 1), <<"return", <<L(0)>> >>), Block(<<When(Less(A, 2), <<"return", <<B>> >>)>>),
               Does(<<"assign", "=", <<"member", <<"this">>, "a">>, A>>)},
     e \in {A, <<"member", <<"this">>, "a">>, <<"cond", Less(A, 1), A, <<"call", <<"name", "f">>, <<L(0)>> >> >>},
     how \in {"call", "new"}}
ObjectScripts ==
  {<<Does(Assign("a", <<"object", << <<"a", L(1)>>, <<"b", <<"un", "!", A>> >> >> >>)),
     Does(<<"assign", op, <<"member", A, "a">>, e>>), Log(<<"cond", <<"bin", "||", x, <<"member", A, "b">> >>, L(1), B>>)>> :
     op \in {"=", "+="}, e \in {Increment("b"), <<"member", A, "a">>, <<"fun", <<>>, <<>>, <<>> >>}, x \in {A, B}}
FailingScripts ==
  {<<Break>>, <<Log(L(1)), Does(<<"call", L(1), <<>> >>)>>, <<Does(<<"assign", "=", L(1), L(1)>>)>>,
   << <<"fundecl", "f", <<>>, <<Does(<<"call", <<"name", "f">>, <<>> >>)>> >>, Does(<<"call", <<"name", "f">>, <<>> >>)>>,
   << <<"var", "let", << <<"b", <<>> >> >> >>, <<"empty">>, <<"while", L(1), <<"empty">> >> >>}
SampleScripts == LoopScripts \cup CallScripts \cup ObjectScripts \cup FailingScripts

-----------------------------------------------------------------------------
(* Markup: tags that imply the end of others, or a container for them,     *)
(* text that is not text, and pieces of markup that go nowhere.            *)
Start(tag) == << <<"<">>, <<tag>>, <<">">> >>
End(tag) == << <<"<">>, <<"/">>, <<tag>>, <<">">> >>
SamplePieces ==
  {Start(tag) : tag \in {"p", "div", "li", "ul", "td", "table", "title", "script", "body"}}
    \cup {End(tag) : tag \in {"p", "ul", "script"}}
    \cup {<< <<"x">> >>, << <<" ">> >>, << <<"<">> >>, << <<"&", "&", "<">> >>,
          << <<"<">>, <<"a">>, <<" ">>, <<"href">>, <<"=">>, <<"quote">>, <<"&", "quote">>, <<"quote">>, <<" ">>, <<"async">>, <<">">> >>,
          << <<"<">>, <<"br">>, <<"/">>, <<">">> >>, << <<"<">>, <<"!">>, <<"doctype">>, <<">">> >>,
          << <<"<">>, <<"!">>, <<"--">>, <<"x">>, <<"--">>, <<">">> >>, << <<"<">>, <<"!">>, <<"--">> >>}

-----------------------------------------------------------------------------
(* Styles: rules whose selectors differ in what they ask of the element    *)
(* and of its ancestors, over three elements that answer differently.      *)
Part(tag, id, classes, cut) == [tag |-> tag, id |-> id, classes |-> classes, cut |-> cut]
Div == Part("div", "", {}, "")
P == Part("p", "", {}, "")
K == Part("", "", {"k"}, "")
Selectors ==
  {<<P>>, <<K>>, <<Part("", "i", {}, "")>>, <<Div, P>>, <<Div, K, P>>, <<Part("p", "", {}, "hover")>>,
   <<Part("", "", {}, "root"), P>>}
Hex(colour) == << <<"hex", colour>> >>
Px(n) == << <<"px", n>> >>
Word(w) == << <<"word", w>> >>
Declaration(property, value) == [property |-> property, value |-> value, important |-> FALSE]
Bodies ==
  {<<Declaration("color", Hex("red")), Declaration("border", Px(1) \o Hex("blue"))>>,
   <<Declaration("color", Hex("blue")), Declaration("margin-top", Px(2))>>,
   <<Declaration("color", Px(1)), Declaration("display", Word("none")), Declaration("border-color", Hex("red"))>>}
StyleRules ==
  {[selectors |-> <<s>>, declarations |-> d] : s \in Selectors, d \in Bodies}
    \cup {[selectors |-> <<a, b>>, declarations |-> <<Declaration("color", Hex("green"))>>] : a, b \in {<<P>>, <<K>>, <<Div, P>>}}
SampleRuleLists == {<<a, b>> : a \in StyleRules, b \in StyleRules}
Ancestor(tag, classes) == [tag |-> tag, id |-> "", classes |-> classes]
SampleElements ==
  {[tag |-> "p", id |-> "", classes |-> {}, ancestors |-> <<>>],
   [tag |-> "p", id |-> "i", classes |-> {"k"}, ancestors |-> <<Ancestor("div", {}), Ancestor("div", {"k"})>>],
   [tag |-> "p", id |-> "", classes |-> {"k"}, ancestors |-> <<Ancestor("div", {"k"}), Ancestor("p", {})>>]}
SampleBases == {<< [selectors |-> << <<P>> >>, declarations |-> <<Declaration("margin", Px(1)), Declaration("color", Hex("red"))>>] >>}
SetInline(how, property, value, important) ==
  [how |-> how, kind |-> "SetInlineStyle", selector |-> <<P>>, property |-> property, value |-> value, important |-> important]
InsertRule(declarations) ==
  [how |-> "insertRule", kind |-> "InsertRule", selector |-> <<P>>, declarations |-> declarations]
InlineSettings ==
  {SetInline("assignment", "display", Word("none"), FALSE), SetInline("setProperty", "margin-top", Px(3), FALSE),
   SetInline("setProperty", "display", Word("block"), TRUE), SetInline("setProperty", "background", Hex("blue"), FALSE)}
SampleCssom ==
  {<<a, b>> : a \in InlineSettings, b \in InlineSettings}
    \cup {<<s>> : s \in InlineSettings \cup {InsertRule(<<Declaration("padding", Px(2))>>), InsertRule(<<>>),
                    [how |-> "classList", kind |-> "ClassMutation", selector |-> <<P>>, class |-> "k"]}}
SampleHostMutations ==
  {[kind |-> "RemoveInlineStyle", selector |-> <<P>>, property |-> "margin-top"],
   [kind |-> "InsertStyleSheet", origin |-> "a",
    rules |-> << [selectors |-> << <<P>> >>, declarations |-> <<Declaration("margin", Px(9))>>] >>],
   [kind |-> "SetStyleSheetDisabled", origin |-> "a", disabled |-> TRUE]}

SampleSnapshots ==
  ("a" :> [tag |-> "p", id |-> "i", classes |-> {"k"}]) @@ ("b" :> [tag |-> "div", id |-> "", classes |-> {}])
SampleSheetRules ==
  {[selector |-> [tag |-> "p", id |-> "", class |-> ""], declarations |-> "color" :> "x"],
   [selector |-> [tag |-> "", id |-> "", class |-> "k"], declarations |-> "margin-top" :> "y"]}

-----------------------------------------------------------------------------
(* Visits of pages whose hosts, ports and cookies could be taken for each  *)
(* other's, with scripts that write what another page may see.             *)
WebUrl(scheme, host, port, path) == [scheme |-> scheme, host |-> host, port |-> port, path |-> path]
ShopPage == WebUrl("https", <<"shop", "x">>, "", <<"/">>)
PlainPage == WebUrl("http", <<"x">>, "", <<"/", "a", "/", "b">>)
PortPage == WebUrl("http", <<"x">>, "1", <<"/">>)
LookalikePage == WebUrl("http", <<"x_1">>, "", <<"/">>)
SampleUrlLiterals ==
  "/next" :> [relative |-> TRUE, url |-> WebUrl("http", <<>>, "", <<"/", "a">>)]
    @@ "https://y/" :> [relative |-> FALSE, url |-> WebUrl("https", <<"y">>, "", <<"/">>)]
    @@ "mailto:a" :> [relative |-> FALSE, url |-> WebUrl("mailto", <<>>, "", <<>>)]
Cookie(name, domain, path, secure, maxAge) ==
  [name |-> name, value |-> "v", domain |-> domain, path |-> path, secure |-> secure, maxAge |-> maxAge]
SampleCookieLiterals ==
  "a=v" :> Cookie("a", <<>>, <<>>, FALSE, <<>>)
    @@ "a=v; domain=x; path=/" :> Cookie("a", << <<"x">> >>, <<"/">>, FALSE, <<>>)
    @@ "b=v; domain=y; secure; max-age=1" :> Cookie("b", << <<"y">> >>, <<>>, TRUE, <<1>>)
    @@ "b=v; domain=; path=a; secure; max-age=1" :> Cookie("b", << <<>> >>, <<"a">>, TRUE, <<1>>)
    @@ "a=v; domain=x; path=/; max-age=0" :> Cookie("a", << <<"x">> >>, <<"/">>, FALSE, <<0>>)
    @@ "/next" :> Cookie("", <<>>, <<>>, FALSE, <<>>)
ScriptStatement(names, form, args) == [name |-> Path(names), form |-> form, args |-> args,
                                         cut |-> FALSE, commented |-> FALSE]
CookieIs(value) == ScriptStatement(<<"window", "document", "cookie">>, "assign", <<value>>)
CallTo(names, args) == ScriptStatement(names, "call", args)
ReadOf(names) == ScriptStatement(names, "read", <<>>)
Fetching == CallTo(<<"fetch">>, <<"/next">>)
SetsOwnCookie == <<CookieIs("a=v"), Fetching, CallTo(<<"localStorage", "setItem">>, <<"k", "1">>)>>
SetsSharedCookie ==
  <<CookieIs("a=v; domain=x; path=/"), CallTo(<<"window", "localStorage", "removeItem">>, <<"k">>),
    CallTo(<<"xhr", "open">>, <<"POST", "/next">>), CallTo(<<"xhr", "open">>, <<"GET", "/next">>), Fetching>>
SetsForeignCookie == <<CookieIs("b=v; domain=y; secure; max-age=1"), CookieIs("b=v; domain=; path=a; secure; max-age=1")>>
DeletesCookie ==
  <<CookieIs("a=v; domain=x; path=/; max-age=0"), CallTo(<<"localStorage", "setItem">>, <<"k", "2">>),
    CallTo(<<"localStorage", "setItem">>, <<"l", "long">>), CallTo(<<"localStorage", "setItem">>, <<"l", "1">>),
    CallTo(<<"sessionStorage", "setItem">>, <<"k", "1">>)>>
WalksHistory ==
  <<CallTo(<<"history", "pushState">>, <<"", "", "/next">>), CallTo(<<"history", "pushState">>, <<"", "", "https://y/">>),
    CallTo(<<"history", "replaceState">>, <<"s">>), CallTo(<<"location", "replace">>, <<"/next">>),
    CallTo(<<"location", "assign">>, <<"mailto:a">>), CallTo(<<"localStorage", "clear">>, <<>>)>>
ReadsThenAssigns ==
  <<ReadOf(<<"document", "cookie">>), ReadOf(<<"location", "href">>), ScriptStatement(<<"a", "b">>, "assign", <<"/next">>)>>
CutShort == <<CallTo(<<"setTimeout">>, <<>>), [Fetching EXCEPT !.cut = TRUE]>>
SampleVisits ==
  {[url |-> u, scripts |-> <<s>>] :
     u \in {ShopPage, PlainPage}, s \in {SetsOwnCookie, SetsSharedCookie, SetsForeignCookie, DeletesCookie}}
    \cup {[url |-> u, scripts |-> <<s>>] : u \in {PortPage, LookalikePage}, s \in {SetsOwnCookie, DeletesCookie}}
    \cup {[url |-> ShopPage, scripts |-> <<s>>] : s \in {WalksHistory, ReadsThenAssigns, CutShort}}

-----------------------------------------------------------------------------
(* Pages whose scripts write over each other's work, listen, register and  *)
(* fail to come, over a document with a form, an image and a paragraph.    *)
SampleSelectors ==
  LET selector(whole, tag, id, class, control, name) ==
        [whole |-> whole, tag |-> tag, id |-> id, class |-> class, control |-> control, name |-> name] IN
  "p" :> selector("p", "p", "", "", "p", "") @@ "#i" :> selector("#i", "", "i", "", "#i", "")
    @@ "div p.k:hover" :> selector("p.k", "p", "", "k", "p.k", "") @@ "*" :> selector("*", "", "", "", "*", "")
    @@ "input[name=q]" :> selector("input[name=q]", "input[name=q]", "", "", "input", "q")
    @@ "form" :> selector("form", "form", "", "", "form", "")
    @@ "document" :> selector("document", "document", "", "", "document", "")
    @@ "window" :> selector("window", "window", "", "", "window", "")
    @@ "body" :> selector("body", "body", "", "", "body", "")
SampleTextLiterals == "x" :> <<"x">> @@ "k" :> <<"k">> @@ "a<b>c</b>" :> <<"a", "<", "b", ">", "c", "<", "/", "b", ">">> @@ "a > c" :> <<"a", " ", ">", " ", "c">>
OnPage(query, names, form, args) ==
  [name |-> << <<"document">>, query>> \o Path(names), form |-> form, args |-> args, cut |-> FALSE, commented |-> FALSE]
FromWindow(statement) == [statement EXCEPT !.name = Path(<<"window">>) \o @]
ById == <<"getElementById", "i">>
Asked(selector) == <<"querySelector", selector>>
WritesText == <<OnPage(Asked("*"), <<"textContent">>, "assign", <<"a > c">>), OnPage(ById, <<"innerHTML">>, "assign", <<"a<b>c</b>">>)>>
WritesBody == <<ScriptStatement(<<"window", "document", "body", "textContent">>, "assign", <<"x">>), ScriptStatement(<<"document", "title">>, "assign", <<"new">>)>>
ChangesClasses ==
  <<FromWindow(OnPage(Asked("p"), <<"classList", "add">>, "call", <<"k">>)), OnPage(Asked("div p.k:hover"), <<"classList", "remove">>, "call", <<"k">>),
    OnPage(ById, <<"setAttribute">>, "call", <<"id", "j">>), OnPage(Asked("p"), <<"setAttribute">>, "call", <<"id", "i">>)>>
WritesForm ==
  <<OnPage(Asked("input[name=q]"), <<"value">>, "assign", <<"x">>), OnPage(Asked("form"), <<"innerText">>, "assign", <<"x">>),
    OnPage(Asked("form"), <<"setAttribute">>, "call", <<"action", "/next">>)>>
Listens ==
  <<ScriptStatement(<<"window", "addEventListener">>, "call", <<"load">>), OnPage(Asked("p"), <<"addEventListener">>, "call", <<"click">>),
    OnPage(Asked("p"), <<"dispatchEvent">>, "call", <<"click">>), ScriptStatement(<<"document", "dispatchEvent">>, "call", <<>>),
    ScriptStatement(<<"console", "warn">>, "call", <<>>), ScriptStatement(<<"window", "document", "title">>, "assign", <<"late">>),
    ScriptStatement(<<"location", "assign">>, "call", <<"/next">>)>>
Registers ==
  <<[ScriptStatement(<<"navigator", "serviceWorker", "register">>, "call", <<"/next">>) EXCEPT !.commented = TRUE],
    ScriptStatement(<<"window", "navigator", "serviceWorker", "register">>, "call", <<"/next", "https://y/">>),
    ScriptStatement(<<"caches", "match">>, "call", <<"/next">>), ScriptStatement(<<"navigator", "serviceWorker", "register">>, "call", <<"mailto:a">>)>>
UsesCaches ==
  <<ScriptStatement(<<"caches", "open">>, "call", <<"a/">>), ScriptStatement(<<"cache", "addAll">>, "call", <<"/next", "mailto:a">>),
    ScriptStatement(<<"caches", "match">>, "call", <<"/next">>), ScriptStatement(<<"caches", "delete">>, "call", <<"a">>)>>
NamesWorkers == <<[ScriptStatement(<<"navigator", "serviceWorker", "register">>, "call", <<"https://y/">>) EXCEPT !.cut = TRUE]>>
PageScriptTag(type, src, code, oversized) == <<"script", [type |-> type, src |-> src, code |-> code, oversized |-> oversized]>>
InlineScript(code) == PageScriptTag("", <<>>, code, FALSE)
InlineCodes == {WritesText, WritesBody, ChangesClasses, WritesForm, Listens, Registers, UsesCaches, NamesWorkers}
SamplePagesWithScripts ==
  {<<InlineScript(a), <<"element", <<InlineScript(b)>> >> >> : a \in InlineCodes, b \in {WritesBody, Listens, UsesCaches}}
    \cup {<<PageScriptTag("module", <<>>, <<>>, FALSE), PageScriptTag("javascript", <<"/next">>, <<>>, FALSE), PageScriptTag("", <<"mailto:a">>, <<>>, FALSE)>>,
          <<PageScriptTag("", <<>>, <<>>, TRUE), InlineScript(<<>>), InlineScript(WritesBody), InlineScript(Listens)>>}
SampleDocument ==
  LET control(kind, name, disabled) == [kind |-> kind, name |-> name, disabled |-> disabled, value |-> <<>>]
      block(kind, tag) == RenderBlock(kind, tag, <<>>)
      elements == <<Signature("h1"), [tag |-> "p", id |-> "i", classes |-> <<"k">>], Signature("p"), Signature("form")>> IN
  [title |-> "old",
   blocks |-> <<block("Heading", "h1"), block("Paragraph", "p"), block("Image", "img"),
                [block("Form", "form") EXCEPT !.controls = <<control("Hidden", "h", FALSE), control("Text", "t", TRUE), control("Text", "q", FALSE)>>]>>,
   elements |-> elements, styled |-> elements]
SampleDisabledForm == [SampleDocument EXCEPT !.blocks[4].controls[3].disabled = TRUE]
SampleWorkerSources ==
  {<<>>, <<ScriptStatement(<<"caches", "open">>, "call", <<"a/">>), ScriptStatement(<<"cache", "addAll">>, "call", <<"/next", "/next", "mailto:a">>)>>}
SampleNamesWithSlashes == "a/" :> "a"
SampleRenderDocuments == {SampleDocument, SampleDisabledForm}

-----------------------------------------------------------------------------
(* Pages to work with: text, pictures, fields, one form to post.           *)
Wd(id, length) == [id |-> <<id>>, length |-> length]
Txt(block) == [kind |-> block, level |-> 1, text |-> <<>>, link |-> <<>>, fragments |-> <<>>, form |-> [id |-> 0, method |-> "Get", controls |-> <<>>]]
LongText == <<Wd("a", 4), Wd("b", 3), Wd("c", 4), Wd("d", 48), Wd("e", 2)>>
TextBlock(kind, words) == [Txt(kind) EXCEPT !.text = words]
LinkBlock(words, href) == [TextBlock("Link", words) EXCEPT !.link = <<Wd(href, 5)>>]
FlowBlock(words) ==
  [Txt("InlineFlow") EXCEPT !.fragments = <<[text |-> <<Wd("s", 3)>>, link |-> <<>>, linked |-> FALSE],
     [text |-> words, link |-> <<Wd("/x", 2)>>, linked |-> TRUE], [text |-> <<Wd("t", 9)>>, link |-> <<>>, linked |-> FALSE]>>]
Ctl(id, kind) ==
  [id |-> id, kind |-> kind, name |-> <<"n">>, value |-> <<>>, placeholder |-> <<>>, label |-> <<>>, disabled |-> FALSE, focused |-> FALSE]
FormOfControls(id, method, controls) == [Txt("Form") EXCEPT !.form = [id |-> id, method |-> method, controls |-> controls]]
Styled(sheet, blocks) == [sheet |-> sheet, nodes |-> [i \in DOMAIN blocks |-> <<>>], blocks |-> blocks]
NodesSet(document, i, set) == [document EXCEPT !.nodes[i] = set]
Narrow == [widthPercent |-> 5, marginLeft |-> 0, marginTop |-> 0]
Boxed == [center |-> TRUE, bodySize |-> 200, widthPercent |-> 30, topPercent |-> 5,
          boxes |-> [p |-> [margin |-> Edges(50, 30, 50, 30), border |-> Edges(10, 10, 10, 10), padding |-> Edges(0, 20, 0, 20)],
                     body |-> [background |-> "light", padding |-> Edges(0, 10, 0, 10)]]]
TextPage == <<TextBlock("Heading", LongText), FlowBlock(<<Wd("l", 4), Wd("m", 60)>>), LinkBlock(<<>>, "mailto:"), TextBlock("Generic", LongText)>>
PicturePage == <<LinkBlock(LongText, "/y"), TextBlock("Image", <<Wd("alt", 3)>>), TextBlock("Paragraph", <<>>), TextBlock("Paragraph", LongText)>>
FieldsPage ==
  <<FormOfControls(1, "Get", <<[Ctl(1, "Text") EXCEPT !.placeholder = <<"p">>], [Ctl(2, "Text") EXCEPT !.disabled = TRUE],
                               [Ctl(3, "Hidden") EXCEPT !.value = <<"h">>], [Ctl(4, "Submit") EXCEPT !.label = <<"go">>]>>)>>
PostPage ==
  <<FlowBlock(<<Wd("l", 4)>>),
    FormOfControls(2, "Post", <<[Ctl(1, "TextArea") EXCEPT !.focused = TRUE], [Ctl(2, "Password") EXCEPT !.value = <<"s">>, !.disabled = TRUE], Ctl(3, "Button"), Ctl(4, "Submit")>>)>>
SampleInteractive ==
  {NodesSet(Styled(Narrow, FieldsPage), 1, [padding |-> Edges(20, 20, 20, 20), background |-> "pale", border |-> Edges(5, 0, 0, 0)]),
   Styled(Boxed, PostPage), NodesSet(NodesSet(Styled(<<>>, TextPage \o PicturePage), 1, [display |-> "none", fontSize |-> 300]), 4, [margin |-> Edges(9000, 0, 0, 0)])}
SampleViewports == {[width |-> 6400, height |-> 4800], [width |-> 3200, height |-> 1400]}

-----------------------------------------------------------------------------
(* Containers with every way to share their room, and elements of the app. *)
AppElement(id, wide, tall, set, children) == set @@ [id |-> id, wide |-> wide, tall |-> tall, children |-> children]
AppElements ==
  {AppElement(1, 40, 10, [display |-> display, gap |-> 6, width |-> 90] @@ set,
           <<AppElement(2, 30, 8, [margin |-> Edges(1, 2, 3, 4)], <<AppElement(5, 9, 9, <<>>, <<AppElement(6, 5, 5, <<>>, <<AppElement(7, 4, 4, <<>>, <<>>)>>)>>)>>),
             AppElement(3, 24, 6, [padding |-> Edges(2, 2, 2, 2)], <<>>), AppElement(4, 7, 7, [display |-> "None"], <<>>)>>) :
     display \in {"Block", "Flex", "Grid"}, set \in {<<>>, [height |-> 50], [columns |-> <<1, 2>>]}}
LayoutLeaf(id, wide, tall) == [NewLayoutNode(id) EXCEPT !.least = wide \div 2, !.most = wide, !.tall = tall]
FlexTrees ==
  {[NewLayoutNode(1) EXCEPT !.display = "Flex", !.width = InPx(120), !.height = InPx(80), !.flex.direction = direction, !.flex.justify = justify,
      !.flex.align = align, !.flex.gap = gap, !.children = items] :
     direction \in {"Row", "RowReverse", "Column"}, justify \in {"FlexStart", "Center", "FlexEnd", "SpaceBetween", "SpaceAround", "SpaceEvenly"},
     align \in {"Stretch", "Center"}, gap \in {0, 7},
     items \in {<<[LayoutLeaf(2, 90, 0) EXCEPT !.least = 0, !.item.basis = InPx(70)], [LayoutLeaf(3, 80, 0) EXCEPT !.least = 0, !.item.basis = InPx(80)]>>,
                <<LayoutLeaf(2, 30, 10), LayoutLeaf(3, 20, 20), LayoutLeaf(4, 10, 5)>>,
                <<[LayoutLeaf(2, 70, 50) EXCEPT !.item.order = 1], [LayoutLeaf(3, 60, 40) EXCEPT !.item.basis = Length("Percent", 50)],
                  [LayoutLeaf(4, 20, 9) EXCEPT !.item.align = "FlexEnd"]>>,
                <<[LayoutLeaf(2, 30, 10) EXCEPT !.item.grow = 1], [LayoutLeaf(3, 20, 20) EXCEPT !.item.grow = 2], [LayoutLeaf(4, 9, 9) EXCEPT !.display = "None"]>>,
                <<[LayoutLeaf(2, 90, 50) EXCEPT !.item.shrink = 0], [LayoutLeaf(3, 60, 40) EXCEPT !.borderBox = TRUE, !.border = Edges(1, 1, 1, 1)]>>}}
GridTrees ==
  {[NewLayoutNode(1) EXCEPT !.display = "Grid", !.width = InPx(120), !.height = Length("Percent", 50), !.minHeight = InPx(30), !.maxHeight = InPx(90),
      !.grid = [GridContainer EXCEPT !.columns = columns, !.rows = rows, !.columnGap = 4, !.flow = order], !.children = items] :
     columns \in {<<>>, <<InPx(40), Length("Fr", 1)>>, <<Length("Fr", 1), AutoLength, Length("Percent", 20)>>}, rows \in {<<>>, <<InPx(10), Length("Fr", 2)>>},
     order \in {"Row", "Column"},
     items \in {[k \in 1 .. 4 |-> LayoutLeaf(k + 1, 10, 10)],
                [k \in 1 .. 3 |-> [LayoutLeaf(k + 1, 10, 10) EXCEPT !.cell.cell = IF k = 1 THEN <<1, 2>> ELSE <<>>]],
                [k \in 1 .. 3 |-> [LayoutLeaf(k + 1, 10, 10) EXCEPT !.cell.columnSpan = k]]}}
SampleLayoutTrees == {DomToLayoutNode(element) : element \in AppElements} \cup FlexTrees \cup GridTrees
SamplePageSizes == {[width |-> 100, height |-> 60]}
SampleLayoutConfig == [maxDepth |-> 2, autoColumn |-> 30, autoRow |-> 10, shrinkBelowContent |-> FALSE]

-----------------------------------------------------------------------------
(* Pages of mixed text, forms and sources of style, and sheets that import. *)
Says(w) == TextNode(<< <<w>> >>)
Attr(name, w) == <<name, << <<w>> >> >>
Link(href, children) == Element("a", IF href = "" THEN <<>> ELSE <<Attr("href", href)>>, children)
InPlace ==
  {<<Says("x")>>, <<Link("u", <<Says("y")>>)>>, <<Link("v", <<Says("z"), NewElement("b", <<Says("w")>>)>>)>>,
   <<NewElement("span", <<Says("x"), Link("u", <<Says("w")>>)>>)>>, <<NewElement("code", <<Link("v", <<Says("x")>>)>>)>>,
   <<NewElement("script", <<Says("z")>>)>>, <<Link("", <<>>)>>}
Runs3 == {x \o y \o z : x \in InPlace, y \in InPlace, z \in InPlace}
Control(tag, type, children) == Element(tag, IF type = "" THEN <<>> ELSE <<Attr("type", type)>>, children)
Controls ==
  {Control("input", "", <<>>), Control("input", "submit", <<>>), Control("button", "reset", <<Says("x")>>),
   Control("textarea", "", <<Says("y"), NewElement("b", <<Says("z")>>)>>)}
Standing ==
  {Element("form", <<Attr("method", "post")>>, <<Says("w"), NewElement("div", <<c>>), d>>) : c \in Controls, d \in Controls}
    \cup Controls \cup {NewElement("form", <<Says("w")>>), NewElement("h1", <<Link("u", <<Says("x")>>)>>), Says("y"),
                        Element("img", <<Attr("alt", "x"), Attr("src", "u")>>, <<>>), NewElement("table", <<NewElement("tr", <<Says("z")>>)>>)}
StyleOf(w) == NewElement("style", <<Says(w)>>)
LinkingTo(w) == Element("link", <<Attr("rel", "stylesheet"), Attr("href", w)>>, <<>>)
SourcesOfStyle == {StyleOf("r"), LinkingTo("base"), LinkingTo("theme"), LinkingTo("large"), LinkingTo("nowhere"),
           Element("link", <<Attr("rel", "stylesheet"), Attr("href", "base"), Attr("media", "print")>>, <<>>)}
SampleParsedPages ==
  {<<NewElement(tag, nodes)>> : tag \in {"p", "span", "div", "pre"}, nodes \in Runs3}
    \cup {<<x, NewElement("div", <<y>>)>> : x \in Standing, y \in Standing}
    \cup {<<NewElement("head", <<NewElement("title", <<Says("x")>>), x, y, z>>), StyleOf("s")>> : x \in SourcesOfStyle, y \in SourcesOfStyle, z \in SourcesOfStyle}
SheetNamed(w) == << <<w>> >>    \* and a rule
SampleSheets ==
  (SheetNamed("base") :> [imports |-> <<>>, rules |-> <<SheetNamed("k"), SheetNamed("l")>>, large |-> FALSE])
    @@ (SheetNamed("theme") :> [imports |-> <<SheetNamed("base"), SheetNamed("theme"), SheetNamed("deep")>>, rules |-> <<SheetNamed("m"), SheetNamed("n")>>, large |-> FALSE])
    @@ (SheetNamed("deep") :> [imports |-> <<SheetNamed("large")>>, rules |-> <<>>, large |-> FALSE])
    @@ (SheetNamed("large") :> [imports |-> <<>>, rules |-> <<SheetNamed("o")>>, large |-> TRUE])

-----------------------------------------------------------------------------
(* Pages and batches of resources, and what the network says of them.      *)
Address(path, extension) == [scheme |-> "https", path |-> path, extension |-> extension]
HomePage == Address(1, "")
MovedPage == Address(2, "")
SheetAddress == Address(3, ".css")
ScriptAddress == Address(4, ".js")
PictureAddress == Address(5, ".png")
OtherPicture == Address(6, "")
FileAddress == [scheme |-> "file", path |-> 7, extension |-> ""]
PlainAnswer ==
  [status |-> 200, location |-> <<>>, control |-> <<>>, type |-> <<>>, prefix |-> "other", chunks |-> <<1>>, utf8 |-> TRUE, long |-> FALSE]
MovesTo(address) == [PlainAnswer EXCEPT !.status = 302, !.location = <<address>>]
SampleAnswers ==
  (HomePage :> {MovesTo(MovedPage), MovesTo(FileAddress), [PlainAnswer EXCEPT !.prefix = "html", !.control = << {"max-age"} >>]})
    @@ (MovedPage :> {MovesTo(HomePage), [PlainAnswer EXCEPT !.type = <<"text/html">>, !.control = << {"no-cache"} >>], [PlainAnswer EXCEPT !.status = 404]})
    @@ (SheetAddress :> {PlainAnswer, [PlainAnswer EXCEPT !.utf8 = FALSE], [PlainAnswer EXCEPT !.chunks = <<1, 1>>]})
    @@ (PictureAddress :> {[PlainAnswer EXCEPT !.prefix = "png", !.control = << {"no-store"} >>], [PlainAnswer EXCEPT !.type = <<"text/html">>]})
    @@ (ScriptAddress :> {[PlainAnswer EXCEPT !.long = TRUE]})
SamplePagePlans ==
  {[document |-> Asks("Document", HomePage, 1), parts |-> <<Asks("Script", FileAddress, 1), Asks("Script", ScriptAddress, 1)>>,
    images |-> <<OtherPicture, PictureAddress, FileAddress>>],
   [document |-> Asks("Document", MovedPage, 1), parts |-> <<>>, images |-> <<>>]}
SampleBatches ==
  {<<Asks("Image", PictureAddress, 2), Asks("Stylesheet", SheetAddress, 1), Asks("Stylesheet", SheetAddress, 2), Asks("Script", ScriptAddress, 1)>>}

-----------------------------------------------------------------------------
Nothing == <<>>

Init ==
  /\ part \in {"lexer", "parser", "vm", "html", "cascade", "restyling", "cssom", "stores", "scripts", "runtime", "flexgrid", "extract", "resources"}
  /\ IF part = "lexer" THEN LexerInit ELSE lexer = [source |-> Nothing, at |-> 1, tokens |-> <<>>, diagnostics |-> 0]
  /\ IF part = "parser" THEN ParserInit ELSE parser = NewParser(Nothing) /\ written = Nothing
  /\ VmInit /\ HtmlInit /\ StyleInit /\ CssomInit /\ StoresInit /\ RuntimeInit
  /\ IF part = "scripts" THEN ScriptsInit ELSE pass = Pass(<<>>, SampleDocument)
  /\ IF part = "flexgrid" THEN FlowInit ELSE flow = [result |-> NotLaidOut]
  /\ ExtractInit
  /\ ResourcesInit

Next ==
  /\ UNCHANGED part
  /\ \/ /\ part = "lexer" /\ LexerNext
        /\ UNCHANGED <<parserVars, vmVars, html, styleVars, cssom, storesVars, pass, live, flow, extracted, resourceVars>>
     \/ /\ part = "parser" /\ ParserNext
        /\ UNCHANGED <<lexer, vmVars, html, styleVars, cssom, storesVars, pass, live, flow, extracted, resourceVars>>
     \/ /\ part = "vm" /\ VmNext
        /\ UNCHANGED <<lexer, parserVars, html, styleVars, cssom, storesVars, pass, live, flow, extracted, resourceVars>>
     \/ /\ part = "html" /\ HtmlNext
        /\ UNCHANGED <<lexer, parserVars, vmVars, styleVars, cssom, storesVars, pass, live, flow, extracted, resourceVars>>
     \/ /\ part = "cascade" /\ DocumentStyled
        /\ UNCHANGED <<lexer, parserVars, vmVars, html, cssom, storesVars, pass, live, flow, extracted, resourceVars>>
     \/ /\ part = "restyling" /\ PageRestyled
        /\ UNCHANGED <<lexer, parserVars, vmVars, html, cssom, storesVars, pass, live, flow, extracted, resourceVars>>
     \/ /\ part = "cssom" /\ CssomNext
        /\ UNCHANGED <<lexer, parserVars, vmVars, html, styleVars, storesVars, pass, live, flow, extracted, resourceVars>>
     \/ /\ part = "stores" /\ StoresNext
        /\ UNCHANGED <<lexer, parserVars, vmVars, html, styleVars, cssom, pass, live, flow, extracted, resourceVars>>
     \/ /\ part = "scripts" /\ ScriptsNext
        /\ UNCHANGED <<lexer, parserVars, vmVars, html, styleVars, cssom, storesVars, live, flow, extracted, resourceVars>>
     \/ /\ part = "runtime" /\ RuntimeNext
        /\ UNCHANGED <<lexer, parserVars, vmVars, html, styleVars, cssom, storesVars, pass, flow, extracted, resourceVars>>
     \/ /\ part = "flexgrid" /\ TreeLaidOut
        /\ UNCHANGED <<lexer, parserVars, vmVars, html, styleVars, cssom, storesVars, pass, live, extracted, resourceVars>>
     \/ /\ part = "extract" /\ ExtractNext
        /\ UNCHANGED <<lexer, parserVars, vmVars, html, styleVars, cssom, storesVars, pass, live, flow, resourceVars>>
     \/ /\ part = "resources" /\ ResourcesNext
        /\ UNCHANGED <<lexer, parserVars, vmVars, html, styleVars, cssom, storesVars, pass, live, flow, extracted>>

vars == <<part, lexer, parserVars, vmVars, html, styleVars, cssom, storesVars, pass, live, flow, extracted, resourceVars>>
Spec == Init /\ [][Next]_vars
=============================================================================
