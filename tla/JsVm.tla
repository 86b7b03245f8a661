-------------------------------- MODULE JsVm --------------------------------
(***************************************************************************)
(* The compiler and the stack machine of SylJS (crates/syljs/src/          *)
(* {compiler,bytecode,vm,value}.rs): a script is compiled to instructions  *)
(* with absolute jump targets, and run over one operand stack, one stack   *)
(* of scopes and the global object that every assignment also writes.      *)
(*                                                                         *)
(* Trees are those of JsParser, with values for literals.  Strings, the    *)
(* arithmetic beyond + and <, and host objects are left out; a constant    *)
(* stands in the instruction that loads it.  Indices count from 1.         *)
(***************************************************************************)
EXTENDS Integers, Sequences, SequencesExt, TLC

CONSTANTS
  Scripts,             \* the scripts a page may run
  MaxScriptsRun,       \* bound: scripts run on one machine
  InstructionBudget,   \* VmConfig::instruction_budget
  MaxCallDepth         \* VmConfig::max_call_depth

ASSUME VmAssumption ==
  /\ MaxScriptsRun \in Nat /\ InstructionBudget \in Nat /\ MaxCallDepth \in Nat

VARIABLES
  vm,         \* the machine
  script,     \* ghost: the tree being run, <<>> between scripts
  before      \* ghost: scopes, global object, objects and console as the script found them

vmVars == <<vm, script, before>>

-----------------------------------------------------------------------------
(* Values *)
Num(n) == [t |-> "number", n |-> n]
Bool(b) == [t |-> "boolean", b |-> b]
Undefined == [t |-> "undefined"]
NaN == [t |-> "nan"]
Object(ref) == [t |-> "object", ref |-> ref]
Function(f) == [t |-> "function", f |-> f]
ConsoleLog == [t |-> "native"]

IsTruthy(v) ==
  CASE v.t = "number" -> v.n # 0
    [] v.t = "boolean" -> v.b
    [] OTHER -> v.t \notin {"undefined", "nan"}
ToNumber(v) ==
  CASE v.t = "number" -> v
    [] v.t = "boolean" -> Num(IF v.b THEN 1 ELSE 0)
    [] OTHER -> NaN

ApplyUnary(op, v) ==
  LET n == ToNumber(v)
  IN CASE op = "!" -> Bool(~IsTruthy(v))
       [] op = "+" -> n
       [] op = "-" -> IF n = NaN THEN NaN ELSE Num(-n.n)
       [] op = "delete" -> Bool(TRUE)
       [] op = "void" -> Undefined

(* Both operands are values by now: `&&` and `||` choose between them. *)
ApplyBinary(op, left, right) ==
  LET a == ToNumber(left)
      b == ToNumber(right)
      both == a # NaN /\ b # NaN
  IN CASE op = "+" -> IF both THEN Num(a.n + b.n) ELSE NaN
       [] op = "<" -> Bool(both /\ a.n < b.n)
       [] op = "&&" -> IF IsTruthy(left) THEN right ELSE left
       [] op = "||" -> IF IsTruthy(left) THEN left ELSE right
ApplyAssignment(op, left, right) == IF op = "+=" THEN ApplyBinary("+", left, right) ELSE right

-----------------------------------------------------------------------------
(* The compiler: the code so far, the open loops with the jumps to patch,  *)
(* and whether no error was met.                                           *)
NewCompiler == [code |-> <<>>, loops |-> <<>>, ok |-> TRUE]
Emit(c, instruction) == [c EXCEPT !.code = Append(@, instruction)]
EmitAll(c, instructions) == FoldLeft(Emit, c, instructions)
Target(c) == Len(c.code) + 1
LastIndex(c) == Len(c.code)
Unpatched == 0
PatchJump(c, index, target) == [c EXCEPT !.code[index] = <<@[1], target>>]
PatchAll(c, indices, target) == FoldLeft(LAMBDA d, i : PatchJump(d, i, target), c, indices)

RECURSIVE CompileExpr(_, _), CompileStmt(_, _)
CompileEach(c, trees) == FoldLeft(LAMBDA d, e : CompileExpr(e, d), c, trees)
CompileBody(c, body) == FoldLeft(LAMBDA d, s : CompileStmt(s, d), c, body)
CompileFunction(params, body) ==
  [params |-> params, tree |-> body,
   code |-> EmitAll(CompileBody(NewCompiler, body), << <<"LoadUndefined">>, <<"Return">> >>).code]

(* Mutant of CompileAssignment: `a.b += c` forgets what a.b was.           *)
CompileAssignmentAfresh(c, op, left, right) ==
  CASE left[1] = "name" /\ op = "=" -> Emit(CompileExpr(right, c), <<"StoreName", left[2]>>)
    [] left[1] = "name" ->
         EmitAll(CompileExpr(right, Emit(c, <<"LoadName", left[2]>>)),
                 << <<"Assignment", op>>, <<"StoreName", left[2]>> >>)
    [] left[1] = "member" ->
         Emit(CompileExpr(right, CompileExpr(left[2], c)), <<"SetNamedProperty", left[3]>>)
    [] OTHER -> [c EXCEPT !.ok = FALSE]

CompileAssignment(c, op, left, right) ==
  CASE left[1] = "name" /\ op = "=" -> Emit(CompileExpr(right, c), <<"StoreName", left[2]>>)
    [] left[1] = "name" ->
         EmitAll(CompileExpr(right, Emit(c, <<"LoadName", left[2]>>)),
                 << <<"Assignment", op>>, <<"StoreName", left[2]>> >>)
    [] left[1] = "member" /\ op = "=" ->
         Emit(CompileExpr(right, CompileExpr(left[2], c)), <<"SetNamedProperty", left[3]>>)
    [] left[1] = "member" ->
         EmitAll(CompileExpr(right, EmitAll(CompileExpr(left[2], c), << <<"Dup">>, <<"GetNamedProperty", left[3]>> >>)),
                 << <<"Assignment", op>>, <<"SetNamedProperty", left[3]>> >>)
    [] OTHER -> [c EXCEPT !.ok = FALSE]     \* invalid assignment target

(* test ? yes : no and if (test) yes else no *)
CompileBranches(c, test, Yes(_), No(_)) ==
  LET joined(yes, no) == PatchJump(no, LastIndex(yes), Target(no))
      other(tested, yes) == joined(yes, No(PatchJump(yes, LastIndex(tested), Target(yes))))
      first(tested) == other(tested, Emit(Yes(tested), <<"Jump", Unpatched>>))
  IN first(Emit(CompileExpr(test, c), <<"JumpIfFalse", Unpatched>>))

CompileExpr(e, c) ==
  CASE e[1] = "lit" -> Emit(c, <<"LoadConst", e[2]>>)
    [] e[1] = "name" -> Emit(c, <<"LoadName", e[2]>>)
    [] e[1] = "this" -> Emit(c, <<"LoadName", "this">>)
    [] e[1] = "object" ->
         FoldLeft(LAMBDA d, p : Emit(CompileExpr(p[2], d), <<"DefineProperty", p[1]>>), Emit(c, <<"NewObject">>), e[2])
    [] e[1] = "un" -> Emit(CompileExpr(e[3], c), <<"Unary", e[2]>>)
    [] e[1] = "bin" -> Emit(CompileExpr(e[4], CompileExpr(e[3], c)), <<"Binary", e[2]>>)
    [] e[1] = "assign" -> CompileAssignment(c, e[2], e[3], e[4])
    [] e[1] = "member" -> Emit(CompileExpr(e[2], c), <<"GetNamedProperty", e[3]>>)
    [] e[1] = "call" -> Emit(CompileEach(CompileExpr(e[2], c), e[3]), <<"Call", Len(e[3])>>)
    [] e[1] = "new" -> Emit(CompileEach(CompileExpr(e[2], c), e[3]), <<"New", Len(e[3])>>)
    [] e[1] = "fun" -> Emit(c, <<"LoadConst", Function(CompileFunction(e[3], e[4]))>>)
    [] e[1] = "cond" -> CompileBranches(c, e[2], LAMBDA d : CompileExpr(e[3], d), LAMBDA d : CompileExpr(e[4], d))

CompileVarDecl(c, declarators) ==
  FoldLeft(LAMBDA d, v :
             EmitAll(IF v[2] = <<>> THEN EmitAll(d, << <<"DeclareName", v[1]>>, <<"LoadUndefined">> >>)
                     ELSE CompileExpr(v[2][1], Emit(d, <<"DeclareName", v[1]>>)),
                     << <<"StoreName", v[1]>>, <<"Pop">> >>),
           c, declarators)

OpenLoop(c) == [c EXCEPT !.loops = Append(@, [breaks |-> <<>>, continues |-> <<>>])]
CloseLoop(c, atBreak, atContinue) ==
  PatchAll(PatchAll([c EXCEPT !.loops = Front(@)], Last(c.loops).breaks, atBreak), Last(c.loops).continues, atContinue)

CompileWhile(c, test, body) ==
  LET closed(tested, looped) ==
        CloseLoop(PatchJump(looped, LastIndex(tested), Target(looped)), Target(looped), Target(c))
      looping(tested) == closed(tested, Emit(CompileStmt(body, OpenLoop(tested)), <<"Jump", Target(c)>>))
  IN looping(Emit(CompileExpr(test, c), <<"JumpIfFalse", Unpatched>>))

CompileForInit(c, init) ==
  CASE init = <<>> -> c
    [] init # <<>> /\ init[1][1] = "var" -> CompileVarDecl(c, init[1][3])
    [] OTHER -> Emit(CompileExpr(init[1], c), <<"Pop">>)

CompileFor(c, init, test, update, body) ==
  LET tested(start) == IF test = <<>> THEN start ELSE Emit(CompileExpr(test[1], start), <<"JumpIfFalse", Unpatched>>)
      updated(ran) == IF update = <<>> THEN ran ELSE Emit(CompileExpr(update[1], ran), <<"Pop">>)
      closed(entry, ran, looped) ==
        CloseLoop(IF test = <<>> THEN looped ELSE PatchJump(looped, LastIndex(entry), Target(looped)), Target(looped), Target(ran))
      looping(start, entry, ran) == closed(entry, ran, Emit(updated(ran), <<"Jump", Target(start)>>))
      running(start, entry) == looping(start, entry, CompileStmt(body, OpenLoop(entry)))
      starting(start) == running(start, tested(start))
  IN Emit(starting(CompileForInit(Emit(c, <<"EnterScope">>), init)), <<"ExitScope">>)

(* break and continue: a jump the innermost loop patches when it ends. *)
CompileJump(c, which) ==
  IF c.loops = <<>> THEN [c EXCEPT !.ok = FALSE]
  ELSE LET jumped == Emit(c, <<"Jump", Unpatched>>)
           listed(loop) == IF which = "break" THEN [loop EXCEPT !.breaks = Append(@, LastIndex(jumped))]
                           ELSE [loop EXCEPT !.continues = Append(@, LastIndex(jumped))]
       IN [jumped EXCEPT !.loops[Len(jumped.loops)] = listed(@)]

CompileStmt(s, c) ==
  CASE s[1] = "empty" -> Emit(c, <<"Nop">>)
    [] s[1] = "block" -> Emit(CompileBody(Emit(c, <<"EnterScope">>), s[2]), <<"ExitScope">>)
    [] s[1] = "expr" -> Emit(CompileExpr(s[2], c), <<"Pop">>)
    [] s[1] = "var" -> CompileVarDecl(c, s[3])
    [] s[1] = "fundecl" -> EmitAll(c, << <<"LoadConst", Function(CompileFunction(s[3], s[4]))>>, <<"StoreName", s[2]>>, <<"Pop">> >>)
    [] s[1] = "return" -> Emit(IF s[2] = <<>> THEN Emit(c, <<"LoadUndefined">>) ELSE CompileExpr(s[2][1], c), <<"Return">>)
    [] s[1] = "if" -> CompileBranches(c, s[2], LAMBDA d : CompileStmt(s[3], d),
                                      LAMBDA d : IF s[4] = <<>> THEN d ELSE CompileStmt(s[4][1], d))
    [] s[1] = "while" -> CompileWhile(c, s[2], s[3])
    [] s[1] = "for" -> CompileFor(c, s[2], s[3], s[4], s[5])
    [] OTHER -> CompileJump(c, s[1])

CompileProgram(body) == EmitAll(CompileBody(NewCompiler, body), << <<"LoadUndefined">>, <<"Return">> >>)

-----------------------------------------------------------------------------
(* Names: the innermost scope that has one, else the global object.  A new *)
(* name goes into the innermost scope; every write also reaches the global *)
(* object.  The scopes are those of the calls in progress, not of the text.*)
NoNames == [n \in {} |-> Undefined]
Bind(names, n, v) == [x \in DOMAIN names \cup {n} |-> IF x = n THEN v ELSE names[x]]
ScopesWith(m, n) == {k \in DOMAIN m.scopes : n \in DOMAIN m.scopes[k]}
Innermost(scopes) == CHOOSE k \in scopes : \A j \in scopes : j <= k

GetName(m, n) ==
  IF ScopesWith(m, n) # {} THEN m.scopes[Innermost(ScopesWith(m, n))][n]
  ELSE IF n \in DOMAIN m.global THEN m.global[n] ELSE Undefined
SetName(m, n, v) ==
  LET k == IF ScopesWith(m, n) = {} THEN Len(m.scopes) ELSE Innermost(ScopesWith(m, n))
  IN [m EXCEPT !.scopes[k] = Bind(@, n, v), !.global = Bind(@, n, v)]
DeclareName(m, n) ==
  IF n \in DOMAIN Last(m.scopes) THEN m ELSE [m EXCEPT !.scopes[Len(m.scopes)] = Bind(@, n, Undefined)]
EnterScope(m) == [m EXCEPT !.scopes = Append(@, NoNames)]
ExitScope(m) == IF Len(m.scopes) > 1 THEN [m EXCEPT !.scopes = Front(@)] ELSE m

(* Properties; anything but an object has none and takes none. *)
GetProperty(m, v, key) ==
  IF v.t = "object" /\ key \in DOMAIN m.heap[v.ref] THEN m.heap[v.ref][key] ELSE Undefined
SetProperty(m, v, key, value) ==
  IF v.t = "object" THEN [m EXCEPT !.heap[v.ref] = Bind(@, key, value)] ELSE m
NewObject(m) == [m EXCEPT !.heap = Append(@, NoNames)]
NewestObject(m) == Object(Len(m.heap))

(* What console.log shows of a value. *)
Shown(v) == IF v.t = "function" THEN [t |-> "function"] ELSE v

(* `this` and the parameters of a call, in a scope of its own. *)
SetParams(m, params, args) ==
  FoldLeft(LAMBDA d, k : SetName(d, params[k], IF k <= Len(args) THEN args[k] ELSE Undefined),
           m, [k \in DOMAIN params |-> k])
EnterFunction(m, f, this, args) == SetParams(SetName(EnterScope(m), "this", this), f.params, args)

-----------------------------------------------------------------------------
(* The machine *)
Frame == Last(vm.frames)
Running == vm.frames # <<>>
Instruction == Frame.code[Frame.ip]
Is(names) == Running /\ Instruction[1] \in names
Advanced(m) == [m EXCEPT !.frames[Len(m.frames)].ip = @ + 1]
Top(m) == Last(m.stack)
Under(m) == m.stack[Len(m.stack) - 1]
Popped(m, n) == [m EXCEPT !.stack = SubSeq(@, 1, Len(@) - n)]
Pushed(m, v) == [m EXCEPT !.stack = Append(@, v)]

(* An error leaves every function in progress at once: neither their *)
(* scopes nor the call depth is taken back.                           *)
Abandoned(m) == [m EXCEPT !.frames = <<>>, !.failed = TRUE]

(* execute_function up to its loop *)
Called(m, f, this, args) ==
  IF m.depth >= MaxCallDepth THEN Abandoned(m)
  ELSE LET entered == EnterFunction(m, f, this, args)
       IN [entered EXCEPT !.depth = @ + 1, !.frames = Append(@, [code |-> f.code, ip |-> 1])]

NewVm ==
  [frames |-> <<>>, stack |-> <<>>, scopes |-> << "log" :> ConsoleLog >>, global |-> "log" :> ConsoleLog,
   heap |-> <<>>, depth |-> 0, instructions |-> 0, console |-> <<>>, failed |-> FALSE, scripts |-> 0]

VmInit == vm = NewVm /\ script = <<>> /\ before = <<>>

(* Vm::execute on what compile_program made of a script *)
Execute(body) ==
  LET cleared == [vm EXCEPT !.stack = <<>>, !.console = <<>>, !.instructions = 0, !.failed = FALSE, !.scripts = @ + 1]
  IN /\ ~Running
     /\ vm.scripts < MaxScriptsRun
     /\ before' = [scopes |-> vm.scopes, global |-> vm.global, heap |-> vm.heap, depth |-> vm.depth]
     /\ script' = body
     /\ \E compiled \in {CompileProgram(body)} :
          vm' = IF compiled.ok THEN Called(cleared, [params |-> <<>>, code |-> compiled.code], Undefined, <<>>)
                ELSE [vm EXCEPT !.failed = TRUE, !.scripts = @ + 1]

(* One more instruction than the budget ends the run; only the innermost *)
(* function takes back its scope and its depth.                          *)
BudgetExceeded ==
  /\ Running
  /\ vm.instructions >= InstructionBudget
  /\ vm' = Abandoned([vm EXCEPT !.instructions = @ + 1, !.depth = @ - 1, !.scopes = Front(@)])

Counted == vm.instructions < InstructionBudget
Step(names, m) == Is(names) /\ Counted /\ vm' = Advanced([m EXCEPT !.instructions = @ + 1])

Loads ==
  \/ Step({"LoadConst"}, Pushed(vm, Instruction[2]))
  \/ Step({"LoadUndefined"}, Pushed(vm, Undefined))
  \/ Step({"LoadName"}, Pushed(vm, GetName(vm, Instruction[2])))
Stores ==
  \/ Step({"StoreName"}, SetName(vm, Instruction[2], Top(vm)))
  \/ Step({"DeclareName"}, DeclareName(vm, Instruction[2]))
Operands ==
  \/ Step({"Nop"}, vm)
  \/ Step({"Pop"}, Popped(vm, 1))
  \/ Step({"Dup"}, Pushed(vm, Top(vm)))
  \/ Step({"Unary"}, Pushed(Popped(vm, 1), ApplyUnary(Instruction[2], Top(vm))))
  \/ Step({"Binary"}, Pushed(Popped(vm, 2), ApplyBinary(Instruction[2], Under(vm), Top(vm))))
  \/ Step({"Assignment"}, Pushed(Popped(vm, 2), ApplyAssignment(Instruction[2], Under(vm), Top(vm))))
Properties ==
  \/ Step({"NewObject"}, Pushed(NewObject(vm), Object(Len(vm.heap) + 1)))
  \/ Step({"DefineProperty"}, Popped(SetProperty(vm, Under(vm), Instruction[2], Top(vm)), 1))
  \/ Step({"GetNamedProperty"}, Pushed(Popped(vm, 1), GetProperty(vm, Top(vm), Instruction[2])))
  \/ Step({"SetNamedProperty"}, Pushed(Popped(SetProperty(vm, Under(vm), Instruction[2], Top(vm)), 2), Top(vm)))
ScopeSteps ==
  \/ Step({"EnterScope"}, EnterScope(vm))
  \/ Step({"ExitScope"}, ExitScope(vm))

Jumped(target) ==
  vm' = [vm EXCEPT !.frames[Len(vm.frames)].ip = target, !.instructions = @ + 1]
JumpedOnFalse(target) ==
  LET m == [Popped(vm, 1) EXCEPT !.instructions = @ + 1]
  IN vm' = IF IsTruthy(Top(vm)) THEN Advanced(m) ELSE [m EXCEPT !.frames[Len(vm.frames)].ip = target]
Jumps ==
  \/ Is({"Jump"}) /\ Counted /\ Jumped(Instruction[2])
  \/ Is({"JumpIfFalse"}) /\ Counted /\ JumpedOnFalse(Instruction[2])

(* Call and New differ in `this`: New makes an object for it, and still gives what the function returns. *)
CallStep ==
  LET args == SubSeq(vm.stack, Len(vm.stack) - Instruction[2] + 1, Len(vm.stack))
      callee == vm.stack[Len(vm.stack) - Instruction[2]]
      popped == Advanced([Popped(vm, Instruction[2] + 1) EXCEPT !.instructions = @ + 1])
      made == IF Instruction[1] = "New" THEN NewObject(popped) ELSE popped
      this == IF Instruction[1] = "New" THEN NewestObject(made) ELSE Undefined
  IN /\ Is({"Call", "New"}) /\ Counted
     /\ vm' = CASE callee.t = "native" -> Pushed([made EXCEPT !.console = Append(@, [k \in DOMAIN args |-> Shown(args[k])])], Undefined)
                [] callee.t = "function" -> Called(made, callee.f, this, args)
                [] OTHER -> Abandoned(made)

ReturnStep ==
  LET left == ExitScope([Popped(vm, 1) EXCEPT !.frames = Front(@), !.depth = @ - 1, !.instructions = @ + 1])
  IN /\ Is({"Return"}) /\ Counted
     /\ vm' = IF Len(vm.frames) = 1 THEN left ELSE Pushed(left, Top(vm))

VmStep ==
  /\ \/ BudgetExceeded \/ Loads \/ Stores \/ Operands \/ Properties \/ ScopeSteps \/ Jumps \/ CallStep \/ ReturnStep
  /\ UNCHANGED <<script, before>>

VmNext ==
  \/ \E body \in Scripts : Execute(body)
  \/ VmStep

-----------------------------------------------------------------------------
(* The reference: what a script means, told by recursion over its tree.    *)
(* m is a machine without stack and frames; `end` says how the statement   *)
(* before ended, and every statement but the next of the same loop or call *)
(* is skipped unless it ended normally.  `turns` bounds the loops.         *)
RECURSIVE Meant(_, _)

Value(m, v) == [m EXCEPT !.value = v]
Failed(m) == m.end = "failed"
(* What has failed stays so, and what is done to it then has no meaning.   *)
Ends(m, how) == IF Failed(m) THEN m ELSE [m EXCEPT !.end = how]
Goes(m) == m.end = "normal"

(* The values of expressions, evaluated from left to right *)
MeantEach(trees, m) ==
  FoldLeft(LAMBDA d, e : LET r == Meant(e, d[1]) IN <<r, Append(d[2], r.value)>>, <<m, <<>>>>, trees)

DoneBody(body, m) == FoldLeft(LAMBDA d, s : IF Goes(d) THEN Meant(s, d) ELSE d, m, body)

(* A call has a scope of its own, which is gone afterwards. *)
MeantCall(f, this, args, m) ==
  LET returned(ran) == Ends(Value([ran EXCEPT !.scopes = SubSeq(@, 1, Len(m.scopes))],
                                  IF ran.end = "return" THEN ran.value ELSE Undefined), "normal")
  IN returned(DoneBody(f.tree, EnterFunction(m, f, this, args)))

MeantApply(e, m) ==
  LET this(made) == IF e[1] = "new" THEN NewestObject(made) ELSE Undefined
      applied(callee, args, made) ==
        CASE Failed(made) -> made
          [] callee.t = "native" -> Value([made EXCEPT !.console = Append(@, [k \in DOMAIN args |-> Shown(args[k])])], Undefined)
          [] callee.t = "function" -> MeantCall(callee.f, this(made), args, made)
          [] OTHER -> Ends(made, "failed")
      called(found) ==
        applied(Head(found[2]), Tail(found[2]), IF e[1] = "new" THEN NewObject(found[1]) ELSE found[1])
  IN called(MeantEach(<<e[2]>> \o e[3], m))

MeantAssign(e, m) ==
  LET onName(old, right) ==
        LET new == ApplyAssignment(e[2], old, right.value) IN Value(SetName(right, e[3][2], new), new)
      onMember(object, old, right) ==
        LET new == ApplyAssignment(e[2], old, right.value) IN Value(SetProperty(right, object, e[3][3], new), new)
      member(place) == onMember(place.value, GetProperty(place, place.value, e[3][3]), Meant(e[4], place))
  IN IF e[3][1] = "member" THEN member(Meant(e[3][2], m)) ELSE onName(GetName(m, e[3][2]), Meant(e[4], m))

MeantObject(properties, made) ==
  LET set(d, p) == LET r == Meant(p[2], d) IN SetProperty(r, NewestObject(made), p[1], r.value) IN
  Value(FoldLeft(set, made, properties), NewestObject(made))

MeantOr(e, otherwise, m) == IF e = <<>> THEN Value(m, otherwise) ELSE Meant(e[1], m)
(* One turn, and those after it: a `break` ends them, a `continue` ends    *)
(* only the turn.                                                          *)
RECURSIVE DoneLoop(_, _, _, _)
DoneLoop(test, update, body, m) ==
  LET again(updated) == IF ~Goes(updated) THEN updated
                        ELSE IF updated.turns = 1 THEN Ends(updated, "failed")
                        ELSE DoneLoop(test, update, body, [updated EXCEPT !.turns = @ - 1])
      turned(ran) == CASE ran.end = "break" -> Ends(ran, "normal")
                       [] ran.end \in {"normal", "continue"} -> again(MeantOr(update, Undefined, Ends(ran, "normal")))
                       [] OTHER -> ran
      tested(at) == IF Goes(at) /\ IsTruthy(at.value) THEN turned(Meant(body, at)) ELSE at
  IN tested(MeantOr(test, Bool(TRUE), m))

Within(m, ran) == [ran EXCEPT !.scopes = SubSeq(@, 1, Len(m.scopes))]

DoneVar(declarators, m) ==
  LET declared(d, v) == LET r == MeantOr(v[2], Undefined, DeclareName(d, v[1])) IN SetName(r, v[1], r.value) IN
  FoldLeft(declared, m, declarators)

Meant(e, m) ==
  LET unary(r) == Value(r, ApplyUnary(e[2], r.value))
      binary(found) == Value(found[1], ApplyBinary(e[2], found[2][1], found[2][2]))
      member(r) == Value(r, GetProperty(r, r.value, e[3]))
      chosen(test) == Meant(IF IsTruthy(test.value) THEN e[3] ELSE e[4], test)
      branch(test) == DoneBody(IF IsTruthy(test.value) THEN <<e[3]>> ELSE e[4], test)
      started(scope) ==
        CASE e[2] = <<>> -> scope
          [] e[2] # <<>> /\ e[2][1][1] = "var" -> DoneVar(e[2][1][3], scope)
          [] OTHER -> Meant(e[2][1], scope) IN
  IF Failed(m) THEN m ELSE
  CASE e[1] = "lit" -> Value(m, e[2])
    [] e[1] = "name" -> Value(m, GetName(m, e[2]))
    [] e[1] = "this" -> Value(m, GetName(m, "this"))
    [] e[1] = "object" -> MeantObject(e[2], NewObject(m))
    [] e[1] = "un" -> unary(Meant(e[3], m))
    [] e[1] = "bin" -> binary(MeantEach(<<e[3], e[4]>>, m))
    [] e[1] = "assign" -> MeantAssign(e, m)
    [] e[1] = "member" -> member(Meant(e[2], m))
    [] e[1] \in {"call", "new"} -> MeantApply(e, m)
    [] e[1] = "fun" -> Value(m, Function(CompileFunction(e[3], e[4])))
    [] e[1] = "cond" -> chosen(Meant(e[2], m))
    [] e[1] = "empty" -> m
    [] e[1] = "block" -> Within(m, DoneBody(e[2], EnterScope(m)))
    [] e[1] = "expr" -> Meant(e[2], m)
    [] e[1] = "var" -> DoneVar(e[3], m)
    [] e[1] = "fundecl" -> SetName(m, e[2], Function(CompileFunction(e[3], e[4])))
    [] e[1] = "return" -> Ends(MeantOr(e[2], Undefined, m), "return")
    [] e[1] = "if" -> branch(Meant(e[2], m))
    [] e[1] = "while" -> DoneLoop(<<e[2]>>, <<>>, e[3], m)
    [] e[1] = "for" -> Within(m, DoneLoop(e[3], e[4], e[5], started(EnterScope(m))))
    [] e[1] \in {"break", "continue"} -> Ends(m, e[1])

MeantScript ==
  LET m == [scopes |-> before.scopes, global |-> before.global, heap |-> before.heap, console |-> <<>>,
            value |-> Undefined, end |-> "normal", turns |-> InstructionBudget]
  IN DoneBody(script, SetName(EnterScope(m), "this", Undefined))

-----------------------------------------------------------------------------
(* A jump out of a block leaves the block's scope on the stack: nothing    *)
(* between a `break`, `continue` or `return` and its target exits scopes.  *)
StatementsOf(s) ==
  CASE s[1] = "block" -> s[2]
    [] s[1] = "if" -> <<s[3]>> \o s[4]
    [] s[1] = "while" -> <<s[3]>>
    [] s[1] = "for" -> <<s[5]>>
    [] s[1] = "fundecl" -> s[4]
    [] OTHER -> <<>>
RECURSIVE HasJump(_), LeavesBlock(_), Declares(_)
HasJump(s) == s[1] \in {"break", "continue", "return"} \/ \E p \in ToSet(StatementsOf(s)) : HasJump(p)
LeavesBlock(s) == \E p \in ToSet(StatementsOf(s)) : LeavesBlock(p) \/ (s[1] = "block" /\ HasJump(p))
Declares(s) ==
  \/ s[1] = "var" \/ (s[1] = "for" /\ s[2] # <<>> /\ s[2][1][1] = "var")
  \/ \E p \in ToSet(StatementsOf(s)) : Declares(p)
LeavesDeclarations(body) ==
  /\ \E s \in ToSet(body) : LeavesBlock(s)
  /\ \E s \in ToSet(body) : Declares(s)

Ended == script # <<>> /\ ~Running /\ ~vm.failed

(* A script that came to its end has called console.log, and left the      *)
(* global object and the objects of the page, as its text says: jumps of   *)
(* loops, branches and conditionals were patched to the right places, and  *)
(* operands come off the stack as they went on.  Scripts that jump out of  *)
(* a block and declare names are left out: the block's scope stays open    *)
(* (bytecode.rs: compile_break, compile_continue), and names go astray.    *)
ScriptsMeanTheirText ==
  Ended /\ ~LeavesDeclarations(script) =>
    \E meant \in {MeantScript} :
      /\ ~Failed(meant)
      /\ <<vm.console, vm.global, vm.heap>> = <<meant.console, meant.global, meant.heap>>
      /\ vm.stack = <<>> /\ vm.depth = before.depth
=============================================================================
