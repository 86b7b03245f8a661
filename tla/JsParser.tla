------------------------------ MODULE JsParser ------------------------------
(***************************************************************************)
(* The parser of SylJS scripts (crates/syljs/src/parser.rs): recursive     *)
(* descent for statements, precedence climbing for expressions, and the    *)
(* loop of parse_program that skips what it cannot read.                   *)
(*                                                                         *)
(* A token is its text; spans are left out.  A node is a tuple with its    *)
(* kind first, an optional part a sequence of at most one.                 *)
(***************************************************************************)
EXTENDS Integers, Sequences, SequencesExt

CONSTANTS
  Identifiers,    \* tokens that are names
  Numbers,        \* tokens that are numbers
  TreesWritten,   \* statements whose written form is parsed
  TokensWritten   \* token sequences parsed whatever they mean

ASSUME ParserAssumption == Identifiers \cap Numbers = {}

VARIABLES
  parser,     \* tokens, the index of the next one, the body so far, the number of diagnostics
  written     \* ghost: the statement the tokens were written from, if any

parserVars == <<parser, written>>

-----------------------------------------------------------------------------
(* Results of the parse functions: a node, or none, and the next index. *)
Node(node, i) == [ok |-> TRUE, node |-> node, at |-> i]
Diagnostic(i) == [ok |-> FALSE, node |-> <<>>, at |-> i]
AndThen(result, Cont(_)) == IF result.ok THEN Cont(result) ELSE result

Peek(s, i) == IF i <= Len(s) THEN s[i] ELSE "eof"
Bump(s, i) == IF i <= Len(s) THEN i + 1 ELSE i

(* expect_kind, expect_keyword and expect_identifier *)
ExpectIn(s, i, kinds) == IF Peek(s, i) \in kinds THEN Node(Peek(s, i), i + 1) ELSE Diagnostic(i)
Expect(s, i, kind) == ExpectIn(s, i, {kind})

(* consume_semicolon *)
SkipSemicolon(s, i) == IF Peek(s, i) = ";" THEN i + 1 ELSE i

AssignOps == {"=", "+=", "-=", "*=", "/=", "%="}
UnaryOps == {"!", "-", "+", "typeof", "void", "delete"}
DeclarationKinds == {"let", "const", "var"}

(* Precedence of the operators between two operands; 0 is none of them. *)
BinaryPrecedence(op) ==
  CASE op = "||" -> 1
    [] op = "&&" -> 2
    [] op \in {"==", "!=", "===", "!=="} -> 3
    [] op \in {"<", "<=", ">", ">="} -> 4
    [] op \in {"+", "-"} -> 5
    [] op \in {"*", "/", "%"} -> 6
    [] OTHER -> 0

RECURSIVE ParseExpression(_, _), ParseUnary(_, _), ParseStatement(_, _), ParseItems(_, _, _, _, _)

(* The loop of parse_binary: take operators no weaker than least. *)
RECURSIVE ClimbFrom(_, _, _)
ParseBinary(s, i, least) == AndThen(ParseUnary(s, i), LAMBDA left : ClimbFrom(s, left, least))

(* Mutant of ClimbFrom: an operator of the same precedence binds to the right. *)
ClimbFromRight(s, left, least) ==
  LET op == Peek(s, left.at)
      prec == BinaryPrecedence(op)
  IN IF prec = 0 \/ prec < least THEN left
     ELSE AndThen(ParseBinary(s, left.at + 1, prec), LAMBDA right :
            ClimbFrom(s, Node(<<"bin", op, left.node, right.node>>, right.at), least))

ClimbFrom(s, left, least) ==
  LET op == Peek(s, left.at)
      prec == BinaryPrecedence(op)
  IN IF prec = 0 \/ prec < least THEN left
     ELSE AndThen(ParseBinary(s, left.at + 1, prec + 1), LAMBDA right :
            ClimbFrom(s, Node(<<"bin", op, left.node, right.node>>, right.at), least))

ParseConditional(s, i) ==
  AndThen(ParseBinary(s, i, 0), LAMBDA test :
    IF Peek(s, test.at) # "?" THEN test
    ELSE AndThen(ParseExpression(s, test.at + 1), LAMBDA yes :
           AndThen(Expect(s, yes.at, ":"), LAMBDA colon :
             AndThen(ParseExpression(s, colon.at), LAMBDA no :
               Node(<<"cond", test.node, yes.node, no.node>>, no.at)))))

(* parse_assignment: right-associative, any expression on the left. *)
ParseExpression(s, i) ==
  AndThen(ParseConditional(s, i), LAMBDA left :
    IF Peek(s, left.at) \notin AssignOps THEN left
    ELSE AndThen(ParseExpression(s, left.at + 1), LAMBDA right :
           Node(<<"assign", Peek(s, left.at), left.node, right.node>>, right.at)))

(* Loops over comma-separated items.  A trailing comma is dropped; a comma *)
(* where an item could be is a hole, in array literals only.               *)
ParseArguments(s, i) ==
  AndThen(Expect(s, i, "("), LAMBDA open :
    IF Peek(s, open.at) = ")" THEN Node(<<>>, open.at + 1)
    ELSE ParseItems(s, open.at, <<>>, "args", ")"))

ParseArrayLiteral(s, i) ==
  IF Peek(s, i) = "]" THEN Node(<<>>, i + 1) ELSE ParseItems(s, i, <<>>, "array", "]")

ParseObjectLiteral(s, i) ==
  IF Peek(s, i) = "}" THEN Node(<<>>, i + 1) ELSE ParseItems(s, i, <<>>, "object", "}")

(* One property; a key alone stands for the variable of that name. *)
ParseProperty(s, i) ==
  IF Peek(s, i) \notin Identifiers \cup Numbers THEN Diagnostic(Bump(s, i))
  ELSE IF Peek(s, i + 1) # ":" THEN Node(<<Peek(s, i), <<"name", Peek(s, i)>>>>, i + 1)
  ELSE AndThen(ParseExpression(s, i + 2), LAMBDA value : Node(<<Peek(s, i), value.node>>, value.at))

ParseItems(s, i, items, what, close) ==
  IF what = "array" /\ Peek(s, i) = "," THEN ParseItems(s, i + 1, Append(items, <<>>), what, close)
  ELSE AndThen(IF what = "object" THEN ParseProperty(s, i) ELSE ParseExpression(s, i), LAMBDA item :
         LET more == Append(items, IF what = "array" THEN <<item.node>> ELSE item.node)
         IN IF Peek(s, item.at) = "," /\ Peek(s, item.at + 1) # close
              THEN ParseItems(s, item.at + 1, more, what, close)
            ELSE LET end == IF Peek(s, item.at) = "," THEN item.at + 1 ELSE item.at
                 IN AndThen(Expect(s, end, close), LAMBDA closed : Node(more, closed.at)))

RECURSIVE ParseParamsFrom(_, _, _)
ParseParamsFrom(s, i, params) ==
  AndThen(ExpectIn(s, i, Identifiers), LAMBDA param :
    IF Peek(s, param.at) = "," THEN ParseParamsFrom(s, param.at + 1, Append(params, param.node))
    ELSE AndThen(Expect(s, param.at, ")"), LAMBDA close : Node(Append(params, param.node), close.at)))

ParseParams(s, i) ==
  AndThen(Expect(s, i, "("), LAMBDA open :
    IF Peek(s, open.at) = ")" THEN Node(<<>>, open.at + 1) ELSE ParseParamsFrom(s, open.at, <<>>))

RECURSIVE ParseBlockFrom(_, _, _)
ParseBlockFrom(s, i, body) ==
  IF Peek(s, i) \in {"}", "eof"} THEN AndThen(Expect(s, i, "}"), LAMBDA close : Node(body, close.at))
  ELSE AndThen(ParseStatement(s, i), LAMBDA stmt : ParseBlockFrom(s, stmt.at, Append(body, stmt.node)))
ParseBlock(s, i) == AndThen(Expect(s, i, "{"), LAMBDA open : ParseBlockFrom(s, open.at, <<>>))

(* Parameters and body after `function` and a name, for both its forms. *)
ParseFunctionRest(s, i, kind, name) ==
  AndThen(ParseParams(s, i), LAMBDA params :
    AndThen(ParseBlock(s, params.at), LAMBDA body :
      Node(<<kind, name, params.node, body.node>>, body.at)))

ParseFunctionExpression(s, i) ==
  IF Peek(s, i) \in Identifiers THEN ParseFunctionRest(s, i + 1, "fun", <<Peek(s, i)>>)
  ELSE ParseFunctionRest(s, i, "fun", <<>>)

(* Member accesses, and calls where they are taken, after an expression. *)
RECURSIVE ParseAccesses(_, _, _)
ParseAccesses(s, expr, takesCalls) ==
  CASE Peek(s, expr.at) = "." ->
         AndThen(ExpectIn(s, expr.at + 1, Identifiers), LAMBDA name :
           ParseAccesses(s, Node(<<"member", expr.node, name.node>>, name.at), takesCalls))
    [] Peek(s, expr.at) = "[" ->
         AndThen(ParseExpression(s, expr.at + 1), LAMBDA key :
           AndThen(Expect(s, key.at, "]"), LAMBDA close :
             ParseAccesses(s, Node(<<"index", expr.node, key.node>>, close.at), takesCalls)))
    [] Peek(s, expr.at) = "(" /\ takesCalls ->
         AndThen(ParseArguments(s, expr.at), LAMBDA args :
           ParseAccesses(s, Node(<<"call", expr.node, args.node>>, args.at), takesCalls))
    [] OTHER -> expr

RECURSIVE ParsePrimary(_, _)
ParseNew(s, i) ==
  AndThen(ParsePrimary(s, i), LAMBDA first :
    AndThen(ParseAccesses(s, first, FALSE), LAMBDA callee :
      IF Peek(s, callee.at) # "(" THEN Node(<<"new", callee.node, <<>>>>, callee.at)
      ELSE AndThen(ParseArguments(s, callee.at), LAMBDA args :
             Node(<<"new", callee.node, args.node>>, args.at))))

(* parse_primary takes a token before it looks whether an expression can start with it. *)
ParsePrimary(s, i) ==
  LET t == Peek(s, i) IN
  CASE t \in Numbers \cup {"true", "false", "null", "undefined"} -> Node(<<"lit", t>>, i + 1)
    [] t \in Identifiers -> Node(<<"name", t>>, i + 1)
    [] t = "this" -> Node(<<"this">>, i + 1)
    [] t = "function" -> ParseFunctionExpression(s, i + 1)
    [] t = "new" -> ParseNew(s, i + 1)
    [] t = "(" -> AndThen(ParseExpression(s, i + 1), LAMBDA e :
                    AndThen(Expect(s, e.at, ")"), LAMBDA close : Node(e.node, close.at)))
    [] t = "[" -> AndThen(ParseArrayLiteral(s, i + 1), LAMBDA items : Node(<<"array", items.node>>, items.at))
    [] t = "{" -> AndThen(ParseObjectLiteral(s, i + 1), LAMBDA props : Node(<<"object", props.node>>, props.at))
    [] OTHER -> Diagnostic(Bump(s, i))

ParseUnary(s, i) ==
  IF Peek(s, i) \in UnaryOps
  THEN AndThen(ParseUnary(s, i + 1), LAMBDA e : Node(<<"un", Peek(s, i), e.node>>, e.at))
  ELSE AndThen(ParsePrimary(s, i), LAMBDA e : ParseAccesses(s, e, TRUE))

-----------------------------------------------------------------------------
(* Statements *)

RECURSIVE ParseDeclarators(_, _, _)
ParseDeclarators(s, i, found) ==
  AndThen(ExpectIn(s, i, Identifiers), LAMBDA name :
    AndThen(IF Peek(s, name.at) = "="
              THEN AndThen(ParseExpression(s, name.at + 1), LAMBDA e : Node(<<e.node>>, e.at))
              ELSE Node(<<>>, name.at), LAMBDA init :
      LET more == Append(found, <<name.node, init.node>>)
      IN IF Peek(s, init.at) = "," THEN ParseDeclarators(s, init.at + 1, more)
         ELSE Node(more, init.at)))
ParseVarDecl(s, i) ==
  AndThen(ParseDeclarators(s, i + 1, <<>>), LAMBDA decls : Node(<<"var", Peek(s, i), decls.node>>, decls.at))

ParseReturn(s, i) ==
  IF Peek(s, i + 1) \in {"eof", ";", "}"} THEN Node(<<"return", <<>>>>, SkipSemicolon(s, i + 1))
  ELSE AndThen(ParseExpression(s, i + 1), LAMBDA e : Node(<<"return", <<e.node>>>>, SkipSemicolon(s, e.at)))

ParseParenthesised(s, i) ==
  AndThen(Expect(s, i, "("), LAMBDA open :
    AndThen(ParseExpression(s, open.at), LAMBDA e :
      AndThen(Expect(s, e.at, ")"), LAMBDA close : Node(e.node, close.at))))

ParseIf(s, i) ==
  AndThen(ParseParenthesised(s, i + 1), LAMBDA test :
    AndThen(ParseStatement(s, test.at), LAMBDA yes :
      IF Peek(s, yes.at) # "else" THEN Node(<<"if", test.node, yes.node, <<>>>>, yes.at)
      ELSE AndThen(ParseStatement(s, yes.at + 1), LAMBDA no :
             Node(<<"if", test.node, yes.node, <<no.node>>>>, no.at))))

ParseWhile(s, i) ==
  AndThen(ParseParenthesised(s, i + 1), LAMBDA test :
    AndThen(ParseStatement(s, test.at), LAMBDA body : Node(<<"while", test.node, body.node>>, body.at)))

(* One of the three parts of `for (;;)` and the token that ends it. *)
ParseForPart(s, i, end) ==
  IF Peek(s, i) = end THEN Node(<<>>, i + 1)
  ELSE AndThen(ParseExpression(s, i), LAMBDA e :
         AndThen(Expect(s, e.at, end), LAMBDA close : Node(<<e.node>>, close.at)))
ParseForInit(s, i) ==
  IF Peek(s, i) \notin DeclarationKinds THEN ParseForPart(s, i, ";")
  ELSE AndThen(ParseVarDecl(s, i), LAMBDA decl :
         AndThen(Expect(s, decl.at, ";"), LAMBDA close : Node(<<decl.node>>, close.at)))
ParseFor(s, i) ==
  AndThen(Expect(s, i + 1, "("), LAMBDA open :
    AndThen(ParseForInit(s, open.at), LAMBDA init :
      AndThen(ParseForPart(s, init.at, ";"), LAMBDA test :
        AndThen(ParseForPart(s, test.at, ")"), LAMBDA update :
          AndThen(ParseStatement(s, update.at), LAMBDA body :
            Node(<<"for", init.node, test.node, update.node, body.node>>, body.at))))))

ParseStatement(s, i) ==
  LET t == Peek(s, i) IN
  CASE t = ";" -> Node(<<"empty">>, i + 1)
    [] t = "{" -> AndThen(ParseBlock(s, i), LAMBDA b : Node(<<"block", b.node>>, b.at))
    [] t \in DeclarationKinds -> AndThen(ParseVarDecl(s, i), LAMBDA d : Node(d.node, SkipSemicolon(s, d.at)))
    [] t = "function" -> AndThen(ExpectIn(s, i + 1, Identifiers), LAMBDA name :
                           ParseFunctionRest(s, name.at, "fundecl", name.node))
    [] t = "return" -> ParseReturn(s, i)
    [] t = "if" -> ParseIf(s, i)
    [] t = "while" -> ParseWhile(s, i)
    [] t = "for" -> ParseFor(s, i)
    [] t \in {"break", "continue"} -> Node(<<t>>, SkipSemicolon(s, i + 1))
    [] OTHER -> AndThen(ParseExpression(s, i), LAMBDA e : Node(<<"expr", e.node>>, SkipSemicolon(s, e.at)))

StatementStarts == DeclarationKinds \cup {"function", "if", "for", "while", "return"}

RECURSIVE Synchronize(_, _)
Synchronize(s, i) ==
  IF Peek(s, i) = ";" THEN i + 1
  ELSE IF Peek(s, i) \in {"eof"} \cup StatementStarts THEN i
  ELSE Synchronize(s, i + 1)

-----------------------------------------------------------------------------
(* The reference: how a tree is written with no more parentheses than the  *)
(* grammar of JavaScript needs.  Strength of an expression as an operand:  *)
Strength(e) ==
  CASE e[1] = "assign" -> 0
    [] e[1] = "cond" -> 1
    [] e[1] = "bin" -> 1 + BinaryPrecedence(e[2])
    [] e[1] = "un" -> 8
    [] e[1] \in {"call", "member", "index"} -> 9
    [] OTHER -> 10

RECURSIVE WriteExpr(_, _), WriteStmt(_)
Commas(parts) == FoldLeft(LAMBDA all, p : IF all = <<>> THEN p ELSE all \o <<",">> \o p, <<>>, parts)
WriteArgs(args) == <<"(">> \o Commas([k \in DOMAIN args |-> WriteExpr(args[k], 0)]) \o <<")">>
WriteBody(body) == <<"{">> \o FlattenSeq([k \in DOMAIN body |-> WriteStmt(body[k])]) \o <<"}">>
WriteFunction(e, name) ==
  <<"function">> \o name \o <<"(">> \o Commas([k \in DOMAIN e[3] |-> <<e[3][k]>>]) \o <<")">> \o WriteBody(e[4])

WriteBare(e) ==
  CASE e[1] \in {"lit", "name"} -> <<e[2]>>
    [] e[1] = "this" -> <<"this">>
    [] e[1] = "array" -> <<"[">> \o Commas([k \in DOMAIN e[2] |->
                           IF e[2][k] = <<>> THEN <<>> ELSE WriteExpr(e[2][k][1], 0)]) \o <<"]">>
    [] e[1] = "object" -> <<"{">> \o Commas([k \in DOMAIN e[2] |->
                            <<e[2][k][1], ":">> \o WriteExpr(e[2][k][2], 0)]) \o <<"}">>
    [] e[1] = "un" -> <<e[2]>> \o WriteExpr(e[3], 8)
    [] e[1] = "bin" -> WriteExpr(e[3], Strength(e)) \o <<e[2]>> \o WriteExpr(e[4], Strength(e) + 1)
    [] e[1] = "assign" -> WriteExpr(e[3], 2) \o <<e[2]>> \o WriteExpr(e[4], 0)
    [] e[1] = "cond" -> WriteExpr(e[2], 2) \o <<"?">> \o WriteExpr(e[3], 0) \o <<":">> \o WriteExpr(e[4], 0)
    [] e[1] = "member" -> WriteExpr(e[2], 9) \o <<".", e[3]>>
    [] e[1] = "index" -> WriteExpr(e[2], 9) \o <<"[">> \o WriteExpr(e[3], 0) \o <<"]">>
    [] e[1] = "call" -> WriteExpr(e[2], 9) \o WriteArgs(e[3])
    [] e[1] = "new" -> <<"new">> \o WriteExpr(e[2], 10) \o WriteArgs(e[3])
    [] e[1] = "fun" -> WriteFunction(e, e[2])
WriteExpr(e, least) ==
  IF Strength(e) < least THEN <<"(">> \o WriteBare(e) \o <<")">> ELSE WriteBare(e)

WriteOptional(e) == IF e = <<>> THEN <<>> ELSE WriteExpr(e[1], 0)
WriteVar(s) ==
  <<s[2]>> \o Commas([k \in DOMAIN s[3] |-> <<s[3][k][1]>> \o
    (IF s[3][k][2] = <<>> THEN <<>> ELSE <<"=">> \o WriteExpr(s[3][k][2][1], 0))])
WriteStmt(s) ==
  CASE s[1] = "empty" -> <<";">>
    [] s[1] = "block" -> WriteBody(s[2])
    [] s[1] = "expr" -> LET e == WriteExpr(s[2], 0)
                        IN (IF e[1] \in {"{", "function"} THEN <<"(">> \o e \o <<")">> ELSE e) \o <<";">>
    [] s[1] = "var" -> WriteVar(s) \o <<";">>
    [] s[1] = "fundecl" -> WriteFunction(s, <<s[2]>>)
    [] s[1] = "return" -> <<"return">> \o WriteOptional(s[2]) \o <<";">>
    [] s[1] = "if" -> <<"if", "(">> \o WriteExpr(s[2], 0) \o <<")">> \o WriteStmt(s[3])
                      \o (IF s[4] = <<>> THEN <<>> ELSE <<"else">> \o WriteStmt(s[4][1]))
    [] s[1] = "while" -> <<"while", "(">> \o WriteExpr(s[2], 0) \o <<")">> \o WriteStmt(s[3])
    [] s[1] = "for" -> <<"for", "(">>
                       \o (IF s[2] = <<>> THEN <<>> ELSE IF s[2][1][1] = "var" THEN WriteVar(s[2][1])
                           ELSE WriteOptional(s[2]))
                       \o <<";">> \o WriteOptional(s[3]) \o <<";">> \o WriteOptional(s[4]) \o <<")">> \o WriteStmt(s[5])
    [] OTHER -> <<s[1], ";">>

-----------------------------------------------------------------------------
NewParser(tokens) == [tokens |-> tokens, at |-> 1, body |-> <<>>, diagnostics |-> 0]

ParserInit ==
  \/ \E stmt \in TreesWritten : written = <<stmt>> /\ parser = NewParser(WriteStmt(stmt))
  \/ \E tokens \in TokensWritten : written = <<>> /\ parser = NewParser(tokens)

AtEof == Peek(parser.tokens, parser.at) = "eof"

(* One turn of the loop of parse_program, for a statement it can read ... *)
StatementRead(found) ==
  /\ found.ok
  /\ parser' = [parser EXCEPT !.at = found.at, !.body = Append(@, found.node)]

(* ... and for one it cannot: a diagnostic, and on to where a statement may start. *)
StatementSkipped(found) ==
  /\ ~found.ok
  /\ parser' = [parser EXCEPT !.at = Synchronize(parser.tokens, found.at), !.diagnostics = @ + 1]

ParserNext ==
  /\ ~AtEof
  /\ \E found \in {ParseStatement(parser.tokens, parser.at)} : StatementRead(found) \/ StatementSkipped(found)
  /\ UNCHANGED written

-----------------------------------------------------------------------------
(* What is left of a token sequence without the tokens that only group. *)
Words(tokens) == SelectSeq(tokens, LAMBDA t : t \notin {"(", ")", ";", ","})
Accepted == AtEof /\ parser.diagnostics = 0

(* A tree is read back from its written form as it was: operators bind by  *)
(* precedence and to the left, assignments and conditionals to the right,  *)
(* and no parentheses are needed beyond those of JavaScript.  And whatever *)
(* sequence of tokens is accepted, the body means all of them, in order.   *)
ParserReadsWhatIsWritten ==
  /\ written # <<>> => parser.diagnostics = 0 /\ (AtEof => parser.body = written)
  /\ Accepted => Words(FlattenSeq([k \in DOMAIN parser.body |-> WriteStmt(parser.body[k])])) = Words(parser.tokens)
=============================================================================
