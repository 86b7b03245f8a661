----------------------------- MODULE DomBindings -----------------------------
(***************************************************************************)
(* The DOM calls a page's script is scanned for, and what each does to the *)
(* render document (app/js/dom_bindings.rs). A document is                 *)
(*                                                                         *)
(*   [title, blocks, elements, styled]                                     *)
(*                                                                         *)
(* the blocks that are laid out, the signature of the element each block   *)
(* comes from, and the signatures the style tree was computed from, which  *)
(* it is a function of. A text is the sequence of its words. The class     *)
(* attribute of a signature repeats its classes and is left out.           *)
(***************************************************************************)
EXTENDS ScriptSource

CONSTANTS
  SelectorLiterals,   \* literal -> its last compound without pseudo-classes, in lower case:
                      \* [whole, tag, id, class], and [control, name] as a form control's
  TextLiterals        \* literal -> the sequence of its characters; "<br>" is one

-----------------------------------------------------------------------------
(* Of a text with markup, what stands between the end of a tag and the     *)
(* next greater sign, or a whole piece that holds no end of a tag.         *)
Split(chars, at) ==
  FoldLeft(LAMBDA parts, c : IF c = at THEN Append(parts, <<>>) ELSE [parts EXCEPT ![Len(parts)] = Append(@, c)],
           << <<>> >>, chars)
AfterTag(part) == LET pieces == Split(part, ">") IN IF Len(pieces) > 1 THEN pieces[2] ELSE part
TextFromHtmlish(value) ==
  LET chars == [i \in DOMAIN TextLiterals[value] |-> IF TextLiterals[value][i] = "<br>" THEN " " ELSE TextLiterals[value][i]]
      parts == Split(chars, "<")
      shown == FlattenSeq([i \in DOMAIN parts |-> AfterTag(parts[i])]) IN
  SelectSeq(Split(shown, " "), LAMBDA word : word /= <<>>)

-----------------------------------------------------------------------------
(* Capture. A target is an expression as it is written, with the selector  *)
(* it asks for. What is called on an expression is found by its text, so   *)
(* that a name from window is found from document as well.                 *)
DomTarget(expression, selector) == [expression |-> expression, selector |-> selector]
QueriedBy(name, object, method) ==
  LET at == SelectInSeq(name, LAMBDA part : part[1] = method) IN
  IF at > 0 /\ IsSuffix(object, SubSeq(name, 1, at - 1)) THEN <<object \o <<name[at]>> >> ELSE <<>>
SelectorCalls(source, object, method, prefix) ==
  LET expressions == FlattenSeq([i \in DOMAIN source |-> QueriedBy(source[i].name, object, method)]) IN
  [i \in DOMAIN expressions |-> DomTarget(expressions[i], prefix \o Last(Last(expressions[i])))]
DedupeTargets(targets) ==
  Picked(targets, {i \in DOMAIN targets : \A j \in 1 .. i - 1 : targets[j].expression # targets[i].expression})

Document == Path(<<"document">>)
WindowDocument == Path(<<"window", "document">>)
Body == Path(<<"body">>)
DomTargets(source) ==
  DedupeTargets(<<DomTarget(Document \o Body, "body"), DomTarget(WindowDocument \o Body, "body")>>
    \o SelectorCalls(source, Document, "querySelector", "") \o SelectorCalls(source, WindowDocument, "querySelector", "")
    \o SelectorCalls(source, Document, "getElementById", "#") \o SelectorCalls(source, WindowDocument, "getElementById", "#"))
EventTargets(source) ==
  DedupeTargets(DomTargets(source) \o <<DomTarget(Document, "document"), DomTarget(Path(<<"window">>), "window")>>)

DomEffect(kind, selector, args) == [kind |-> kind, selector |-> selector, args |-> args]
EffectsOn(targets, source, kind, names, form, least) ==
  FlattenSeq([t \in DOMAIN targets |->
    LET found == Found(source, targets[t].expression \o Path(names), form, least) IN
    [i \in DOMAIN found |-> DomEffect(kind, targets[t].selector, found[i].args)]])
CaptureDomEffects(source) ==
  LET of(calls, targets) ==
        FlattenSeq([i \in DOMAIN calls |-> EffectsOn(targets, source, calls[i][1], calls[i][2], calls[i][3], calls[i][4])]) IN
  of(<< <<"SetText", <<"textContent">>, "assign", 1>>, <<"SetText", <<"innerText">>, "assign", 1>>,
        <<"SetHtml", <<"innerHTML">>, "assign", 1>>, <<"SetValue", <<"value">>, "assign", 1>>,
        <<"SetAttribute", <<"setAttribute">>, "call", 2>>,
        <<"AddClass", <<"classList", "add">>, "call", 1>>, <<"RemoveClass", <<"classList", "remove">>, "call", 1>> >>, DomTargets(source))
    \o of(<< <<"RegisterEventListener", <<"addEventListener">>, "call", 1>>,
              <<"DispatchEvent", <<"dispatchEvent">>, "call", 0>> >>, EventTargets(source))

-----------------------------------------------------------------------------
(* The block an effect lands on: the first whose element matches, or the   *)
(* first whose own tag is the whole selector.                              *)
RenderBlock(kind, tag, text) == [kind |-> kind, tag |-> tag, text |-> text, link |-> "", controls |-> <<>>]
Signature(tag) == [tag |-> tag, id |-> "", classes |-> <<>>]

SelectorMatchesElement(selector, element) ==
  /\ selector.tag \in {"", element.tag}
  /\ selector.id \in {"", element.id}
  /\ selector.class = "" \/ selector.class \in ToSet(element.classes)
FirstMatchingBlock(document, literal) ==
  LET selector == SelectorLiterals[literal]
      direct == SelectInSeq(document.elements, LAMBDA e : SelectorMatchesElement(selector, e)) IN
  IF direct > 0 THEN direct ELSE SelectInSeq(document.blocks, LAMBDA b : b.tag = selector.whole)

CanFocus(control) == control.kind \in {"Text", "Search", "Password", "TextArea"} /\ ~control.disabled
SetBlockText(block, text) ==
  LET first == SelectInSeq(block.controls, CanFocus) IN
  IF block.kind /= "Form" THEN [block EXCEPT !.text = text] ELSE [block EXCEPT !.controls[first].value = text]
AcceptsText(block) == block.kind = "Form" => \E i \in DOMAIN block.controls : CanFocus(block.controls[i])

-----------------------------------------------------------------------------
(* One effect: the document after it, and whether it counts as applied.    *)
Ignored(document) == [document |-> document, changed |-> FALSE]
Applied(document) == [document |-> document, changed |-> TRUE]

(* Mutant of ReplaceBody: the signatures of the old blocks stay.           *)
ReplaceBodyKeepsElements(document, text) == [document EXCEPT !.blocks = <<RenderBlock("Paragraph", "p", text)>>]
ReplaceBody(document, text) ==
  [document EXCEPT !.blocks = <<RenderBlock("Paragraph", "p", text)>>, !.elements = <<Signature("p")>>]
SetText(document, selector, value) ==
  LET text == TextFromHtmlish(value)
      set(at) ==
        IF at = 0 THEN Ignored(document)
        ELSE IF ~AcceptsText(document.blocks[at]) THEN Ignored(document)
        ELSE Applied([document EXCEPT !.blocks[at] = SetBlockText(@, text)]) IN
  IF selector \in {"body", "document"} THEN Applied(ReplaceBody(document, text)) ELSE set(FirstMatchingBlock(document, selector))

LinkOf == [Link |-> {"href"}, Image |-> {"src"}, Form |-> {"action"}]
SetAttribute(document, selector, name, value) ==
  LET described(block) ==
        CASE block.kind \in DOMAIN LinkOf /\ name \in LinkOf[block.kind] -> [block EXCEPT !.link = value]
          [] block.kind = "Image" /\ name = "alt" -> [block EXCEPT !.text = <<TextLiterals[value]>>]
          [] OTHER -> block
      signed(element) ==
        CASE name = "id" -> [element EXCEPT !.id = value]
          [] name = "class" -> [element EXCEPT !.classes = <<value>>]
          [] OTHER -> element
      set(at) ==
        IF at = 0 THEN Ignored(document)
        ELSE Applied([document EXCEPT !.blocks[at] = described(@), !.elements[at] = signed(@)]) IN
  set(FirstMatchingBlock(document, selector))

(* A control's value, or the alt of an image, is the text as it is: one    *)
(* word here, whatever is in it.                                           *)
SetValue(document, selector, value) ==
  LET asked == SelectorLiterals[selector]
      answers(control) == asked.name \in {"", control.name} /\ asked.control \in {"", "input", "textarea", "button", "select"}
      at == SelectInSeq(document.blocks, LAMBDA b : \E i \in DOMAIN b.controls : answers(b.controls[i]))
      control == SelectInSeq(document.blocks[at].controls, answers) IN
  IF at = 0 THEN Ignored(document)
  ELSE IF ~CanFocus(document.blocks[at].controls[control]) THEN Ignored(document)
  ELSE Applied([document EXCEPT !.blocks[at].controls[control].value = <<TextLiterals[value]>>])

AddClass(document, selector, class) ==
  LET at == FirstMatchingBlock(document, selector) IN
  IF at = 0 \/ class = "" THEN Ignored(document)
  ELSE IF class \in ToSet(document.elements[at].classes) THEN Applied(document)
  ELSE Applied([document EXCEPT !.elements[at].classes = Append(@, class)])
RemoveClass(document, selector, class) ==
  LET at == FirstMatchingBlock(document, selector)
      kept == SelectSeq(document.elements[at].classes, LAMBDA c : c /= class) IN
  IF at = 0 THEN Ignored(document)
  ELSE IF kept = document.elements[at].classes THEN Ignored(document)
  ELSE Applied([document EXCEPT !.elements[at].classes = kept])

RecomputeStyleTree(document) == [document EXCEPT !.styled = document.elements]
ApplyDomEffect(document, effect) ==
  LET a == effect.args
      styled(done) == IF done.changed THEN [done EXCEPT !.document = RecomputeStyleTree(@)] ELSE done IN
  styled(CASE effect.kind \in {"SetText", "SetHtml"} -> SetText(document, effect.selector, a[1])
           [] effect.kind = "SetAttribute" -> SetAttribute(document, effect.selector, a[1], a[2])
           [] effect.kind = "SetValue" -> SetValue(document, effect.selector, a[1])
           [] effect.kind = "AddClass" -> AddClass(document, effect.selector, a[1])
           [] effect.kind = "RemoveClass" -> RemoveClass(document, effect.selector, a[1])
           [] OTHER -> Applied(document))
=============================================================================
