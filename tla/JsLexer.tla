------------------------------ MODULE JsLexer ------------------------------
(***************************************************************************)
(* The lexer of SylJS scripts (crates/syljs/src/lexer.rs).  A source is a  *)
(* sequence of characters; letters stand for identifiers, "1" for digits,  *)
(* "e" is a letter that may also begin an exponent, "_" any white space    *)
(* but the end of a line.  A token is its kind and the span it came from.  *)
(***************************************************************************)
EXTENDS Integers, Sequences, SequencesExt

CONSTANT SourceTexts     \* the sources to read

(* Sources are sequences of characters. *)
ASSUME SourceAssumption == \A source \in SourceTexts : source \in Seq(ToSet(source))

VARIABLE lexer           \* source, index of the next character, tokens, number of diagnostics

Letters == {"a", "e"}
Digits == {"1"}
LineEnd == "newline"
Whitespace == {"_", LineEnd}
Quotes == {"'", "\""}

(* Operators of more than one character: what may follow what. *)
Continuations == {<<"+", "+">>, <<"+", "=">>, <<"*", "=">>, <<"/", "=">>, <<"!", "=">>, <<"!", "=", "=">>,
                  <<"=", ">">>, <<"=", "=">>, <<"=", "=", "=">>, <<"<", "=">>, <<"&", "&">>}
Singles == {"(", ".", "+", "*", "/", "!", "=", "<", "&"}

-----------------------------------------------------------------------------
At(s, i) == IF i <= Len(s) THEN s[i] ELSE "eof"

(* The first index from i on whose character is not in the class. *)
SpanOf(s, i, class) ==
  LET stops == {k \in i .. Len(s) : s[k] \notin class}
  IN IF stops = {} THEN Len(s) + 1 ELSE CHOOSE k \in stops : \A j \in stops : k <= j

(* A token of a kind that ends before `to`, and whether a diagnostic came with it. *)
Lexed(kind, to, faulty) == [kind |-> kind, to |-> to, faulty |-> faulty]

LexIdentifier(s, i) == Lexed("identifier", SpanOf(s, i, Letters \cup Digits), FALSE)

(* Mutant of NumberEnd: every dot is taken for a decimal point. *)
NumberEndAnyDot(s, i) == SpanOf(s, i, Digits \cup {"."})

(* Digits with at most one dot, at any place but the first. *)
NumberEnd(s, i) ==
  LET whole == SpanOf(s, i, Digits)
  IN IF At(s, whole) = "." THEN SpanOf(s, whole + 1, Digits) ELSE whole

LexNumber(s, i) ==
  LET end == NumberEnd(s, i)
      sign == IF At(s, end + 1) = "+" THEN end + 2 ELSE end + 1
      exponent == SpanOf(s, sign, Digits)
  IN IF At(s, end) # "e" THEN Lexed("number", end, FALSE)
     ELSE Lexed("number", exponent, exponent = sign)

(* The end of a string: its own quote, not behind a backslash.  Without    *)
(* one the string takes the rest of the source.                            *)
LexString(s, i, quote) ==
  LET read[k \in i .. Len(s) + 1] ==
        CASE At(s, k) = "eof" -> Lexed("string", Len(s) + 1, TRUE)
          [] At(s, k) = quote -> Lexed("string", k + 1, FALSE)
          [] At(s, k) = "\\" -> IF k < Len(s) THEN read[k + 2] ELSE Lexed("string", Len(s) + 1, TRUE)
          [] OTHER -> read[k + 1]
  IN read[i]

(* Templates end at the next backquote; what looks like an interpolation is refused. *)
LexTemplate(s, i) ==
  LET end == SpanOf(s, i, {At(s, k) : k \in i .. Len(s)} \ {"backquote"})
      faulty == \E k \in i .. end - 1 : s[k] = "$" /\ k < Len(s) /\ s[k + 1] = "{"
  IN IF end > Len(s) THEN Lexed("template", end, TRUE) ELSE Lexed("template", end + 1, faulty)

(* The nested consume_if: one more character as long as it continues the operator. *)
LexOperator(s, i) ==
  LET Is(n) == \E c \in Continuations : Len(c) = n /\ i + n - 1 <= Len(s) /\ c = SubSeq(s, i, i + n - 1)
      length == IF ~Is(2) THEN 1 ELSE IF ~Is(3) THEN 2 ELSE 3
  IN Lexed("operator", i + length, s[i] = "&" /\ length = 1)

LexToken(s, i) ==
  CASE s[i] \in Letters -> LexIdentifier(s, i)
    [] s[i] \in Digits -> LexNumber(s, i)
    [] s[i] \in Quotes -> LexString(s, i + 1, s[i])
    [] s[i] = "backquote" -> LexTemplate(s, i + 1)
    [] s[i] \in Singles -> LexOperator(s, i)
    [] OTHER -> Lexed("unexpected", i + 1, TRUE)

(* skip_trivia: white space and comments, one after the other. *)
LineCommentEnd(s, i) == SpanOf(s, i, {At(s, k) : k \in i .. Len(s)} \ {LineEnd})
BlockCommentEnd(s, i) ==
  LET ends == {k \in i + 2 .. Len(s) - 1 : s[k] = "*" /\ s[k + 1] = "/"}
  IN IF ends = {} THEN [to |-> Len(s) + 1, faulty |-> TRUE]
     ELSE [to |-> 2 + CHOOSE k \in ends : \A j \in ends : k <= j, faulty |-> FALSE]

SkipTrivia(s, from) ==
  LET skipped[start \in from .. Len(s) + 1] ==
        LET i == SpanOf(s, start, Whitespace) IN
        CASE At(s, i) = "/" /\ At(s, i + 1) = "/" -> skipped[LineCommentEnd(s, i)]
          [] At(s, i) = "/" /\ At(s, i + 1) = "*" ->
               LET comment == BlockCommentEnd(s, i) IN IF comment.faulty THEN comment ELSE skipped[comment.to]
          [] OTHER -> [to |-> i, faulty |-> FALSE]
  IN skipped[from]

-----------------------------------------------------------------------------
LexerInit ==
  \E source \in SourceTexts : lexer = [source |-> source, at |-> 1, tokens |-> <<>>, diagnostics |-> 0]

Faults(found) == IF found.faulty THEN 1 ELSE 0

(* One turn of the loop of tokenize. *)
NextToken(trivia) ==
  /\ trivia.to <= Len(lexer.source)
  /\ \E token \in {LexToken(lexer.source, trivia.to)} :
       lexer' = [lexer EXCEPT !.at = token.to,
                              !.tokens = Append(@, [kind |-> token.kind, from |-> trivia.to, to |-> token.to]),
                              !.diagnostics = @ + Faults(trivia) + Faults(token)]

(* Only trivia is left. *)
EndOfSource(trivia) ==
  /\ trivia.to > Len(lexer.source)
  /\ lexer' = [lexer EXCEPT !.at = trivia.to, !.diagnostics = @ + Faults(trivia)]

LexerNext ==
  /\ lexer.at <= Len(lexer.source)
  /\ \E trivia \in {SkipTrivia(lexer.source, lexer.at)} : NextToken(trivia) \/ EndOfSource(trivia)
LexerSpec == LexerInit /\ [][LexerNext]_lexer

-----------------------------------------------------------------------------
(* The reference: what, from a place of the source to the place before     *)
(* another, is a token of a kind, and what is only white space and comments.*)
IsName(s, from, to) == s[from] \in Letters /\ \A k \in from .. to - 1 : s[k] \in Letters \cup Digits
IsNumber(s, from, to) ==
  \E dot \in {0} \cup from + 1 .. to - 1, exp \in from .. to :
    /\ s[from] \in Digits
    /\ dot > 0 => s[dot] = "." /\ dot < exp
    /\ exp < to => s[exp] = "e" /\ s[to - 1] \in Digits
    /\ \A k \in from .. to - 1 : s[k] \in Digits \/ k \in {dot, exp} \/ (k = exp + 1 /\ s[k] = "+")
(* A string ends at its own quote, unless a backslash escapes that, which  *)
(* nothing escaped it.                                                     *)
IsString(s, from, to) ==
  /\ from + 1 < to /\ s[from] \in Quotes /\ s[to - 1] = s[from]
  /\ \E escaped \in SUBSET (from + 1 .. to - 2) : \A k \in from + 1 .. to - 2 :
       /\ k \in escaped <=> k > from + 1 /\ s[k - 1] = "\\" /\ k - 1 \notin escaped
       /\ k \notin escaped => s[k] # s[from]
       /\ s[k] = "\\" /\ k \notin escaped => k + 1 \in escaped
IsTemplate(s, from, to) ==
  /\ from + 1 < to /\ s[from] = "backquote" /\ s[to - 1] = "backquote"
  /\ \A k \in from + 1 .. to - 2 : s[k] # "backquote" /\ ~(s[k] = "$" /\ s[k + 1] = "{")
IsOperator(s, from, to) == SubSeq(s, from, to - 1) \in Continuations \cup {<<c>> : c \in Singles \ {"&"}}
IsToken(kind, s, from, to) ==
  \/ kind = "identifier" /\ IsName(s, from, to)
  \/ kind = "number" /\ IsNumber(s, from, to)
  \/ kind = "string" /\ IsString(s, from, to)
  \/ kind = "template" /\ IsTemplate(s, from, to)
  \/ kind = "operator" /\ IsOperator(s, from, to)

(* One character of white space, or a comment, with its last character.    *)
IsGap(s, first, last) ==
  \/ first = last /\ s[first] \in Whitespace
  \/ /\ first < last /\ s[first] = "/" /\ s[first + 1] = "/" /\ \A k \in first .. last : s[k] # LineEnd
     /\ last < Len(s) => s[last + 1] = LineEnd
  \/ /\ first + 2 < last /\ s[first] = "/" /\ s[first + 1] = "*" /\ s[last - 1] = "*" /\ s[last] = "/"
     /\ \A k \in first + 3 .. last - 1 : ~(s[k - 1] = "*" /\ s[k] = "/")
(* Gaps one after the other, given where they begin.                       *)
IsTrivia(s, from, to) ==
  \E begins \in SUBSET (from .. to - 1) :
    /\ from < to => from \in begins
    /\ \A i \in begins : \E last \in i .. to - 1 : IsGap(s, i, last) /\ last + 1 \in begins \cup {to}

(* Without a diagnostic the tokens are the source with only trivia between *)
(* them, each is a text of its kind, and none could have been longer: no   *)
(* operator, number or name is cut in two, no comment is code.             *)
TokensAreTheSource ==
  lexer.diagnostics = 0 =>
    LET s == lexer.source
        start(k) == IF k = 1 THEN 1 ELSE lexer.tokens[k - 1].to IN
    /\ \A k \in DOMAIN lexer.tokens : LET t == lexer.tokens[k] IN
         /\ t.from < t.to /\ IsTrivia(s, start(k), t.from) /\ IsToken(t.kind, s, t.from, t.to)
         /\ t.to <= Len(s) /\ t.kind \in {"identifier", "number", "operator"} => ~IsToken(t.kind, s, t.from, t.to + 1)
    /\ lexer.at > Len(s) => IsTrivia(s, start(Len(lexer.tokens) + 1), Len(s) + 1)
=============================================================================
