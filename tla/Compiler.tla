------------------------------ MODULE Compiler ------------------------------
(***************************************************************************)
(* The Lua compiler: expressions, statements, functions                    *)
(* (src/crates/phodopus/src/compiler/compiler.rs).  Source programs are    *)
(* abstract syntax trees: records tagged by the field s (statements) or e  *)
(* (expressions), and blocks [stmts, ret, returns].                        *)
(***************************************************************************)
EXTENDS CompilerState

\* The methods of the code that call each other all go through Compile, which
\* stands at the end of the module.
RECURSIVE Compile(_, _)
Expression(c, e)      == Compile(c, [to |-> "expression", e |-> e])
Discharge(c, x, dest) == Compile(c, [to |-> "discharge", x |-> x, dest |-> dest])
PushArguments(c, xs)  == Compile(c, [to |-> "arguments", xs |-> xs])
Statement(c, s)       == Compile(c, [to |-> "statement", s |-> s])
Block(c, b)           == Compile(c, [to |-> "block", b |-> b])

-----------------------------------------------------------------------------
(* From syntax to descriptors *)

Expressions(c, es) ==
  InOrder(LAMBDA p, e : LET q == Expression(p.c, e) IN R(q.c, Append(p.x, q.x)), R(c, <<>>), es)

UnaryOperator(op, x) ==
  LET v == IF x.d = "Constant" THEN FoldUnary(op, x.v) ELSE None
  IN  IF v # None THEN Constant(v) ELSE [d |-> "Unary", o |-> op, x |-> x]

\* binary_operator_expression: fold two constants, flatten concatenations.
BinaryOperator(l, op, r) ==
  LET constant == l.d = "Constant" /\ r.d = "Constant"
      folded == CASE constant /\ op \in SimpleOps     -> FoldSimple(op, l.v, r.v)
                  [] constant /\ op \in ComparisonOps -> FoldComparison(op, l.v, r.v)
                  [] OTHER -> None
      Parts(x) == IF x.d = "Concat" THEN x.xs ELSE <<x>>
  IN  CASE folded # None          -> Constant(folded)
        [] op = "Concat"          -> [d |-> "Concat", xs |-> Parts(l) \o Parts(r)]
        [] op \in ShortCircuitOps -> [d |-> "ShortCircuit", o |-> op, l |-> l, r |-> r]
        [] folded = None /\ op \in SimpleOps     -> [d |-> "Simple", o |-> op, l |-> l, r |-> r]
        [] folded = None /\ op \in ComparisonOps -> [d |-> "Comparison", o |-> op, l |-> l, r |-> r]

\* CompilerFunction::start
Start(params) ==
  [constants |-> <<>>, upvalues |-> <<>>, functions |-> <<>>,
   regs |-> IF params = <<>> THEN EmptyAllocator ELSE Push(EmptyAllocator, Len(params)).a,
   fixedParams |-> Len(params),
   locals |-> [i \in DOMAIN params |-> [n |-> params[i], r |-> i - 1, attr |-> "none"]],
   blocks |-> <<>>, jumpId |-> 0, targets |-> <<>>, pending |-> <<>>, operations |-> <<>>]

\* CompilerFunction::finish: what the interpreter gets.
Finish(c) ==
  LET c1 == Emit(c, [op |-> "Return", start |-> 0, count |-> 0])
      c2 == Check(c1, Len(Cur(c1).locals) = Cur(c1).fixedParams, "panic: locals")
      c3 == FreeLocals(c2, 0)
      c4 == Check(c3, Top(c3) = 0, "panic: register leak")
      c5 == Check(c4, Cur(c4).pending = <<>>, "GotoInvalid")
      f  == Cur(c5)
  IN  IF Failed(c) THEN R(c, None) ELSE R(c5, [fixedParams |-> f.fixedParams, stackSize |-> f.regs.stackSize,
             constants |-> f.constants,
             operations |-> [i \in DOMAIN f.operations |-> Encode(f.operations[i])],
             upvalues |-> [i \in DOMAIN f.upvalues |-> f.upvalues[i].u],
             prototypes |-> f.functions])

\* new_prototype: compile the body as a function of its own.
NewPrototype(c, params, body) ==
  LET c1 == Check(c, Len(params) < Byte, "FixedParameters")
      p  == Finish(Block([c1 EXCEPT !.fs = Append(@, Start(params))], body))
      c2 == [p.c EXCEPT !.fs = Front(@)]
      c3 == Put(c2, [Cur(c2) EXCEPT !.functions = Append(@, p.x)])
  IN  R(Check(c3, Len(Cur(c3).functions) <= Byte, "Functions"), Len(Cur(c3).functions) - 1)

Constructor(c, fields) ==
  InOrder(LAMBDA p, f :
             IF f.k = "array"
             THEN LET v == Expression(p.c, f.v)
                  IN  R(v.c, [p.x EXCEPT !.array = Append(@, v.x)])
             ELSE LET k == Expression(p.c, f.key)
                      v == Expression(k.c, f.v)
                  IN  R(v.c, [p.x EXCEPT !.record = Append(@, <<k.x, v.x>>)]),
           R(c, [d |-> "Table", array |-> <<>>, record |-> <<>>]), fields)

\* expression, head_, simple_, suffixed_ and primary_expression.
CompileExpression(c, e) ==
  CASE e.e = "const"   -> R(c, Constant(e.v))
    [] e.e = "varargs" -> R(c, [d |-> "VarArgs"])
    [] e.e = "name"    -> FindVariable(c, e.n)
    [] e.e = "group"   -> LET p == Expression(c, e.x) IN R(p.c, [d |-> "Group", x |-> p.x])
    [] e.e = "un"      -> LET p == Expression(c, e.x) IN R(p.c, UnaryOperator(e.o, p.x))
    [] e.e = "bin"     -> LET l == Expression(c, e.l)
                              r == Expression(l.c, e.r)
                          IN  R(r.c, BinaryOperator(l.x, e.o, r.x))
    [] e.e = "table"   -> Constructor(c, e.fields)
    [] e.e = "function" -> LET p == NewPrototype(c, e.def.params, e.def.body) IN R(p.c, Closure(p.x))
    [] e.e = "index"   -> LET t == Expression(c, e.t)
                              k == Expression(t.c, e.k)
                          IN  R(k.c, Field(t.x, k.x))
    [] e.e = "call"    -> LET f == Expression(c, e.f)
                              a == Expressions(f.c, e.args)
                          IN  R(a.c, [d |-> "Call", f |-> f.x, args |-> a.x])
    [] e.e = "method"  -> LET t == Expression(c, e.t)
                              a == Expressions(t.c, e.args)
                          IN  R(a.c, [d |-> "Method", t |-> t.x, m |-> Constant(Name(e.m)), args |-> a.x])

-----------------------------------------------------------------------------
(* From descriptors to instructions *)

\* expr_any_register: a local is used where it is.
AnyRegister(c, x) ==
  IF x.d = "Local" THEN [c |-> c, x |-> x.r, temp |-> FALSE]
  ELSE LET p == Discharge(c, x, AllocateNew) IN [c |-> p.c, x |-> p.x, temp |-> TRUE]

\* expr_any_register_or_constant
AnyRC(c, x) ==
  LET k == IF x.d = "Constant" THEN GetConstant(c, x.v) ELSE R(c, Byte)
      p == AnyRegister(k.c, x)
  IN  IF k.x < Byte THEN [c |-> k.c, x |-> Con(k.x), temp |-> FALSE, r |-> 0]
      ELSE [c |-> p.c, x |-> Reg(p.x), temp |-> p.temp, r |-> p.x]

\* Two operands; their temporaries are free again when the result is placed.
Operands(c, l, r) ==
  LET a == AnyRC(c, l)
      b == AnyRC(a.c, r)
  IN  [c |-> FreeIf(FreeIf(b.c, a.temp, a.r), b.temp, b.r), l |-> a.x, r |-> b.x]

\* set_rtable, set_uptable and set_table.
SetRTable(c, t, k, v) ==
  LET o == Operands(c, k, v)
  IN  Emit(o.c, [op |-> "SetTable", table |-> t, key |-> o.l, value |-> o.r])
SetTable(c, t, k, v) ==
  IF t.d = "UpValue"
  THEN LET o == Operands(c, k, v)
       IN  Emit(o.c, [op |-> "SetUpTable", table |-> t.i, key |-> o.l, value |-> o.r])
  ELSE LET p == AnyRegister(c, t)
       IN  FreeIf(SetRTable(p.c, p.x, k, v), p.temp, p.x)

GetTable(c, t, k, dest) ==
  IF t.d = "UpValue"
  THEN LET q == AnyRC(c, k)
           n == NewDestination(FreeIf(q.c, q.temp, q.r), dest)
       IN  R(Emit(n.c, [op |-> "GetUpTable", dest |-> n.x, table |-> t.i, key |-> q.x]), n.x)
  ELSE LET p == AnyRegister(c, t)
           q == AnyRC(p.c, k)
           n == NewDestination(FreeIf(FreeIf(q.c, p.temp, p.x), q.temp, q.r), dest)
       IN  R(Emit(n.c, [op |-> "GetTable", dest |-> n.x, table |-> p.x, key |-> q.x]), n.x)

\* call_function and call_method; returns is a count, or TailCall.
TailCall == -2
EmitCall(c, func, args, returns) ==
  Emit(c, IF returns = TailCall THEN [op |-> "TailCall", func |-> func, args |-> args]
          ELSE [op |-> "Call", func |-> func, args |-> args, returns |-> returns])

CallFunction(c, f, args, returns) ==
  LET p == Discharge(c, f, PushNew)
      a == PushArguments(p.c, args)
  IN  R(FreeReg(EmitCall(a.c, p.x, a.x, returns), p.x), p.x)

CallMethod(c, t, m, args, returns) ==
  LET p == AnyRegister(c, t)
      q == AnyRC(p.c, m)
      b == PushRegs(FreeIf(FreeIf(q.c, p.temp, p.x), q.temp, q.r), 2)
      a == PushArguments(Emit(b.c, [op |-> "Method", base |-> b.x, table |-> p.x, key |-> q.x]), args)
      c1 == Check(a.c, a.x + 1 < Byte - 1, "Registers")
  IN  R(PopRegs(EmitCall(c1, b.x, IF a.x = Variable THEN Variable ELSE a.x + 1, returns), b.x), b.x)

IsCall(x) == x.d \in {"Call", "Method"}
CallExpr(c, x, returns) ==
  IF x.d = "Call" THEN CallFunction(c, x.f, x.args, returns)
  ELSE CallMethod(c, x.t, x.m, x.args, returns)

\* Mutant: varargs at the end count as one value.
CountVarArgsAsOne(args) == IF IsCall(Last(args)) THEN Variable ELSE Len(args)
\* The number of values that pushed arguments leave.
CountArguments(args) == IF IsCall(Last(args)) \/ Last(args).d = "VarArgs" THEN Variable ELSE Len(args)

\* push_arguments: the last one may stand for any number of values.
PushAll(c, args) ==
  IF args = <<>> THEN R(c, 0)
  ELSE LET c1 == InOrder(LAMBDA a, x : Discharge(a, x, PushNew).c, c, Front(args))
           x  == Last(args)
           c2 == IF IsCall(x) THEN CallExpr(c1, x, Variable).c
                 ELSE IF x.d = "VarArgs"
                 THEN Emit(Check(c1, Top(c) + Len(args) - 1 < Byte, "Registers"),
                           [op |-> "VarArgs", dest |-> Top(c) + Len(args) - 1, count |-> Variable])
                 ELSE Check(Discharge(c1, x, PushNew).c, Len(args) < Byte - 1, "Registers")
       IN  R(PopRegs(c2, Top(c)), CountArguments(args))

UnaryOp(op) == IF op = "Len" THEN "Length" ELSE op

\* comparison_binop_operation
Compare(op, l, r, skip) ==
  CASE op = "Equal"        -> [op |-> "Eq", skip |-> skip, left |-> l, right |-> r]
    [] op = "NotEqual"     -> [op |-> "Eq", skip |-> ~ skip, left |-> l, right |-> r]
    [] op = "LessThan"     -> [op |-> "Less", skip |-> skip, left |-> l, right |-> r]
    [] op = "LessEqual"    -> [op |-> "LessEq", skip |-> skip, left |-> l, right |-> r]
    [] op = "GreaterThan"  -> [op |-> "Less", skip |-> skip, left |-> r, right |-> l]
    [] op = "GreaterEqual" -> [op |-> "LessEq", skip |-> skip, left |-> r, right |-> l]

LoadBool(r, v, skip) == [op |-> "LoadBool", dest |-> r, value |-> v, skip |-> skip]

RECURSIVE SetLists(_, _, _, _)
\* The array fields of a constructor, FieldsPerFlush at a time; only the last
\* batch may end in any number of values.
SetLists(c, table, index, xs) ==
  IF xs = <<>> THEN c
  ELSE LET n    == Min({FieldsPerFlush, Len(xs)})
           last == n = Len(xs)
           p    == PushRegs(c, n)
           a    == IF last THEN PushArguments(c, xs)
                   ELSE R(InOrder(LAMBDA s, i : Discharge(s, xs[i], Register(p.x + i - 1)).c,
                                   Check(p.c, p.x = index + 1, "panic: constructor"),
                                   [i \in 1 .. n |-> i]), n)
           c1   == Emit(a.c, [op |-> "SetList", base |-> table, count |-> a.x])
       IN  SetLists(PopRegs(c1, index + 1), table, index, SubSeq(xs, n + 1, Len(xs)))

DischargeTable(c, x, dest) ==
  LET t  == PushRegs(c, 1)
      Size(fs) == Min({Len(fs), Byte - 1})
      c1 == Emit(t.c, [op |-> "NewTable", dest |-> t.x, arraySize |-> Size(x.array), mapSize |-> Size(x.record)])
      c2 == InOrder(LAMBDA a, f : SetRTable(a, t.x, f[1], f[2]), c1, x.record)
      i  == PushRegs(c2, 1)
      c3 == Discharge(Check(i.c, i.x = t.x + 1, "panic: constructor"),
                      Constant(Integer(0)), Register(i.x)).c
      c4 == FreeReg(SetLists(c3, t.x, i.x, x.array), i.x)
  IN  IF dest.k = "Register"
      THEN R(FreeReg(Emit(c4, [op |-> "Move", dest |-> dest.r, source |-> t.x]), t.x), dest.r)
      ELSE R(c4, t.x)

RECURSIVE Concats(_, _, _, _)
\* The operands of a concatenation are pushed side by side.  When registers
\* run out, what is there is concatenated first; with nothing to concatenate
\* the loop of the code never ends.
Concats(c, xs, source, count) ==
  IF xs = <<>> THEN R(c, count)
  ELSE LET p == Push(Cur(c).regs, 1)
       IN  IF p.r # NoRegister
           THEN Concats(Discharge(Take(c, p).c, xs[1], Register(p.r)).c, Tail(xs), source, count + 1)
           ELSE IF count = 1 THEN R(Fail(c, "hang: concat"), 1)
           ELSE Concats(PopRegs(Emit(c, [op |-> "Concat", dest |-> source, source |-> source,
                                         count |-> count]), source + 1), xs, source, 1)

DischargeConcat(c, x, dest) ==
  LET n == NewDestination(c, dest)
      s == Discharge(n.c, x.xs[1], PushNew)
      q == Concats(s.c, Tail(x.xs), s.x, 1)
  IN  R(PopRegs(Emit(q.c, [op |-> "Concat", dest |-> n.x, source |-> s.x, count |-> q.x]), s.x), n.x)

DischargeShortCircuit(c, x, dest) ==
  LET l == AnyRegister(c, x.l)
      n == NewDestination(FreeIf(l.c, l.temp, l.x), dest)
      c1 == Emit(n.c, IF l.x = n.x THEN [op |-> "Test", value |-> l.x, isTrue |-> x.o = "And"]
                      ELSE [op |-> "TestSet", dest |-> n.x, value |-> l.x, isTrue |-> x.o = "And"])
      u == UniqueLabel(c1)
      c2 == Jump(u.c, u.x)
  IN  R(JumpTarget(Discharge(c2, x.r, Register(n.x)).c, u.x), n.x)

DischargeComparison(c, x, dest) ==
  LET o == Operands(c, x.l, x.r)
      n == NewDestination(o.c, dest)
      c1 == Emit(Emit(n.c, Compare(x.o, o.l, o.r, FALSE)), JumpOp(1, NoClose))
  IN  R(Emit(Emit(c1, LoadBool(n.x, FALSE, TRUE)), LoadBool(n.x, TRUE, FALSE)), n.x)

DischargeConstant(c, v, dest) ==
  LET n == NewDestination(c, dest)
      k == GetConstant(n.c, v)
  IN  CASE v.t = "nil"  -> R(Emit(n.c, [op |-> "LoadNil", dest |-> n.x, count |-> 1]), n.x)
        [] v.t = "bool" -> R(Emit(n.c, LoadBool(n.x, v.b, FALSE)), n.x)
        [] OTHER        -> R(Emit(k.c, [op |-> "LoadConstant", dest |-> n.x, constant |-> k.x]), n.x)

\* A call leaves its result at the top of the allocated registers.
DischargeCall(c, x, dest) ==
  LET p == CallExpr(c, x, 1)
      q == PushRegs(p.c, 1)
  IN  IF dest.k = "Register"
      THEN R(Emit(Check(p.c, dest.r # p.x, "panic: call"),
                  [op |-> "Move", dest |-> dest.r, source |-> p.x]), dest.r)
      ELSE R(Check(q.c, q.x = p.x, "panic: call"), p.x)

\* expr_discharge
DischargeInto(c, x, dest) ==
  LET Into(cc, o(_)) == LET n == NewDestination(cc, dest) IN R(Emit(n.c, o(n.x)), n.x)
  IN  CASE x.d = "Local"    -> Into(c, LAMBDA r : [op |-> "Move", dest |-> r, source |-> x.r])
        [] x.d = "UpValue"  -> Into(c, LAMBDA r : [op |-> "GetUpValue", dest |-> r, source |-> x.i])
        [] x.d = "VarArgs"  -> Into(c, LAMBDA r : [op |-> "VarArgs", dest |-> r, count |-> 1])
        [] x.d = "Closure"  -> Into(c, LAMBDA r : [op |-> "Closure", dest |-> r, proto |-> x.p])
        [] x.d = "Unary"    -> LET p == AnyRegister(c, x.x)
                               IN  Into(FreeIf(p.c, p.temp, p.x),
                                        LAMBDA r : [op |-> UnaryOp(x.o), dest |-> r, source |-> p.x])
        [] x.d = "Simple"   -> LET o == Operands(c, x.l, x.r)
                               IN  Into(o.c, LAMBDA r : [op |-> x.o, dest |-> r, left |-> o.l, right |-> o.r])
        [] x.d = "Global"   -> LET e == GetEnvironment(c) IN GetTable(e.c, e.x, Constant(Name(x.n)), dest)
        [] x.d = "TableField" -> GetTable(c, x.t, x.k, dest)
        [] x.d = "Constant" -> DischargeConstant(c, x.v, dest)
        [] x.d = "Comparison"   -> DischargeComparison(c, x, dest)
        [] x.d = "ShortCircuit" -> DischargeShortCircuit(c, x, dest)
        [] x.d = "Table"    -> DischargeTable(c, x, dest)
        [] x.d = "Concat"   -> DischargeConcat(c, x, dest)
        [] x.d = "Group"    -> Discharge(c, x.x, dest)
        [] IsCall(x)        -> DischargeCall(c, x, dest)

\* expr_push_count: exactly `count` values in new registers at the top.
PushCount(c, x, count) ==
  LET call == CallExpr(Check(c, count < Byte - 1, "Registers"), x, count)
      p    == PushRegs(c, count)
      one  == Discharge(c, x, PushNew)
      rest == PushRegs(one.c, count - 1)
  IN  CASE IsCall(x) -> R(PushRegs(call.c, count).c, call.x)
        [] x.d = "VarArgs" -> R(Emit(Check(p.c, count < Byte - 1, "Registers"),
                                     [op |-> "VarArgs", dest |-> p.x, count |-> count]), p.x)
        [] x.d = "Constant" /\ x.v = Nil -> R(Emit(p.c, [op |-> "LoadNil", dest |-> p.x, count |-> count]), p.x)
        [] OTHER -> IF count = 1 THEN one
                    ELSE R(Emit(rest.c, [op |-> "LoadNil", dest |-> rest.x, count |-> count - 1]), one.x)

\* expr_test: skip the next instruction when the truth of x is skipIf.
Test(c, x, skipIf) ==
  LET Comparing(y, s) == LET o == Operands(c, y.l, y.r) IN Emit(o.c, Compare(y.o, o.l, o.r, s))
      Testing(y, s)   == LET p == AnyRegister(c, y)
                         IN  Emit(FreeIf(p.c, p.temp, p.x), [op |-> "Test", value |-> p.x, isTrue |-> s])
  IN  CASE x.d = "Constant"   -> IF ToBool(x.v) = skipIf THEN Emit(c, JumpOp(1, NoClose)) ELSE c
        [] x.d = "Comparison" -> Comparing(x, skipIf)
        [] x.d = "Unary" /\ x.o = "Not" ->
             IF x.x.d = "Comparison" THEN Comparing(x.x, ~ skipIf) ELSE Testing(x.x, ~ skipIf)
        [] OTHER -> Testing(x, skipIf)

-----------------------------------------------------------------------------
(* Statements *)

\* Compile x only for its effects.
Drop(c, x) == LET p == Discharge(c, x, AllocateNew) IN FreeReg(p.c, p.x)

NotConst(c, v) == Check(c, v.attr # "const", "AssignToConst")

\* `assign` of assignment_statement
Assign(c, target, x) ==
  IF target.e = "name"
  THEN LET v == FindVariable(c, target.n)
       IN  CASE v.x.d = "Local"   -> Discharge(NotConst(v.c, v.x), x, Register(v.x.r)).c
             [] v.x.d = "UpValue" ->
                  LET p == AnyRegister(NotConst(v.c, v.x), x)
                  IN  FreeIf(Emit(p.c, [op |-> "SetUpValue", dest |-> v.x.i, source |-> p.x]),
                             p.temp, p.x)
             [] v.x.d = "Global"  ->
                  LET e == GetEnvironment(v.c) IN SetTable(e.c, e.x, Constant(Name(target.n)), x)
  ELSE LET t == Expression(c, target.t)
           k == Expression(t.c, target.k)
       IN  SetTable(k.c, t.x, k.x, x)

\* assignment_statement: one target is assigned directly; several are
\* evaluated into registers first and assigned from the last to the first.
Assignment(c, targets, vals) ==
  IF Len(targets) = 1
  THEN LET v == Expression(c, vals[1])
       IN  InOrder(LAMBDA a, e : LET p == Expression(a, e) IN Drop(p.c, p.x),
                    Assign(v.c, targets[1], v.x), Tail(vals))
  ELSE LET n == Len(targets)
           Eval(p, i) ==
             LET e   == Expression(p.c, vals[i])
                 one == Discharge(e.c, e.x, AllocateNew)
                 all == PushCount(Check(e.c, n - i + 1 < Byte, "Registers"), e.x, n - i + 1)
             IN  CASE i > n -> R(Drop(e.c, e.x), p.x)
                   [] i <= n /\ i = Len(vals) -> R(all.c, p.x \o [j \in 1 .. n - i + 1 |-> all.x + j - 1])
                   [] i <= n /\ i < Len(vals) -> R(one.c, Append(p.x, one.x))
           regs == InOrder(Eval, R(c, <<>>), [i \in DOMAIN vals |-> i])
       IN  InOrder(LAMBDA a, i : FreeReg(Assign(a, targets[n + 1 - i], Local(regs.x[n + 1 - i])),
                                          regs.x[n + 1 - i]),
                    regs.c, [i \in 1 .. n |-> i])

\* local_statement: a local comes into scope after its own value.
LocalStatement(c, names, vals) ==
  LET n == Len(names)
      closes == Cardinality({i \in DOMAIN names : names[i].attr = "close"})
      c1 == Check(Check(c, closes <= 1, "MultipleClose"), closes = 0, "CloseUnsupported")
      p  == PushRegs(c1, n)
      Declare(cc, i, r) == NewLocal(cc, names[i].n, r, names[i].attr)
      From(cc, first, r) == InOrder(LAMBDA a, i : Declare(a, i, r + i - first), cc,
                                     [j \in 1 .. n - first + 1 |-> first + j - 1])
      Eval(a, i) ==
        LET e   == Expression(a, vals[i])
            one == Discharge(e.c, e.x, PushNew)
            all == PushCount(Check(e.c, n - i + 1 < Byte, "Registers"), e.x, n - i + 1)
        IN  CASE i > n -> Drop(e.c, e.x)
              [] i <= n /\ i = Len(vals) -> From(all.c, i, all.x)
              [] i <= n /\ i < Len(vals) -> Declare(one.c, i, one.x)
  IN  IF vals = <<>>
      THEN From(Emit(p.c, [op |-> "LoadNil", dest |-> p.x, count |-> n]), 1, p.x)
      ELSE InOrder(Eval, c1, [i \in DOMAIN vals |-> i])

\* local_function_statement: the name is in scope in the body.
LocalFunction(c, s) ==
  LET d == PushRegs(c, 1)
      p == NewPrototype(NewLocal(d.c, s.name, d.x, "none"), s.def.params, s.def.body)
  IN  Emit(p.c, [op |-> "Closure", dest |-> d.x, proto |-> p.x])

\* function_statement: `function a.b.c:m (...)`
FunctionStatement(c, s) ==
  LET path  == <<s.name>> \o s.fields \o (IF s.method = "" THEN <<>> ELSE <<s.method>>)
      root  == IF Len(path) = 1 THEN R(c, Closure(0)) ELSE FindVariable(c, s.name)
      table == InOrder(LAMBDA t, f : Field(t, Constant(Name(f))), root.x, SubSeq(path, 2, Len(path) - 1))
      p     == NewPrototype(root.c, IF s.method = "" THEN s.def.params ELSE <<"self">> \o s.def.params, s.def.body)
  IN  IF Len(path) = 1
      THEN LET v == FindVariable(p.c, s.name)
               q == Discharge(NotConst(v.c, v.x), Closure(p.x), AllocateNew)
               e == GetEnvironment(v.c)
           IN  CASE v.x.d = "Local"   -> Discharge(NotConst(v.c, v.x), Closure(p.x), Register(v.x.r)).c
                 [] v.x.d = "UpValue" ->
                      FreeReg(Emit(q.c, [op |-> "SetUpValue", dest |-> v.x.i, source |-> q.x]), q.x)
                 [] v.x.d = "Global"  -> SetTable(e.c, e.x, Constant(Name(s.name)), Closure(p.x))
      ELSE SetTable(p.c, table, Constant(Name(Last(path))), Closure(p.x))

ReturnStatement(c, es) ==
  LET r == Expressions(c, es)
      a == PushArguments(r.c, r.x)
  IN  IF Len(es) = 1 /\ IsCall(r.x[1]) THEN CallExpr(r.c, r.x[1], TailCall).c
      ELSE Emit(Check(a.c, Top(a.c) < Byte, "panic: return"),
                [op |-> "Return", start |-> Top(a.c), count |-> a.x])

\* block_statements: labels at the end of a block are outside the scope of
\* its locals.
BlockStatements(c, b) ==
  LET Run(cc, ss) == InOrder(Statement, cc, ss)
      n == Max({0} \cup {i \in DOMAIN b.stmts : b.stmts[i].s # "label"})
  IN  IF b.ret THEN ReturnStatement(Run(c, b.stmts), b.returns)
      ELSE Run(ExitBlock(Run(EnterBlock(c), SubSeq(b.stmts, 1, n))), SubSeq(b.stmts, n + 1, Len(b.stmts)))

CompileBlock(c, b) == ExitBlock(BlockStatements(EnterBlock(c), b))

\* if_statement, with its else_if parts.
IfStatement(c, s) ==
  LET end  == UniqueLabel(c)
      next == UniqueLabel(end.c)
      n    == Len(s.parts)
      Part(p, i) ==
        LET c1 == JumpTarget(p.c, p.x)
            u  == UniqueLabel(c1)
            e  == Expression(u.c, s.parts[i].cond)
            c2 == Jump(Test(e.c, e.x, TRUE), u.x)
            c3 == BlockStatements(EnterBlock(c2), s.parts[i].body)
            c4 == IF i # n \/ s.hasElse THEN Jump(c3, end.x) ELSE c3
        IN  R(ExitBlock(c4), u.x)
      parts == InOrder(Part, next, [i \in 1 .. n |-> i])
      c5 == JumpTarget(parts.c, parts.x)
  IN  JumpTarget(IF s.hasElse THEN Block(c5, s.els) ELSE c5, end.x)

WhileStatement(c, s) ==
  LET start == UniqueLabel(c)
      end   == UniqueLabel(start.c)
      e     == Expression(JumpTarget(end.c, start.x), s.cond)
      c1    == EnterBlock(Jump(Test(e.c, e.x, TRUE), end.x))
      c2    == Jump(BlockStatements(c1, s.body), start.x)
  IN  JumpTarget(ExitBlock(JumpTarget(c2, Break)), end.x)

\* repeat_statement: the condition is in the scope of the body's locals.
RepeatStatement(c, s) ==
  LET start == UniqueLabel(c)
      c1 == JumpTarget(EnterBlock(EnterBlock(start.c)), start.x)
      c2 == InOrder(Statement, c1, s.body.stmts)
      c3 == IF s.body.ret THEN ReturnStatement(c2, s.body.returns) ELSE c2
      e  == Expression(c3, s.cond)
      c4 == Jump(Test(e.c, e.x, TRUE), start.x)
  IN  ExitBlock(JumpTarget(ExitBlock(c4), Break))

\* for_statement, numeric: three hidden registers, then the loop variable.
NumericFor(c, s) ==
  LET i  == Expression(c, s.init)
      b  == Discharge(i.c, i.x, PushNew)
      l  == Expression(b.c, s.limit)
      c0 == Discharge(l.c, l.x, PushNew).c
      st == IF s.step.e = "none" THEN R(c0, Constant(Integer(1))) ELSE Expression(c0, s.step)
      c1 == Discharge(st.c, st.x, PushNew).c
      prep == Here(c1)
      v  == PushRegs(EnterBlock(EnterBlock(Emit(c1, [op |-> "NumericForPrep", base |-> b.x, jump |-> 0]))), 1)
      c2 == ExitBlock(BlockStatements(NewLocal(v.c, s.name, v.x, "none"), s.body))
      loop == Here(c2)
      c3 == Emit(Check(c2, OffsetFits(loop, prep + 1) /\ OffsetFits(prep, loop), "JumpOverflow"),
                 [op |-> "NumericForLoop", base |-> b.x, jump |-> JumpOffset(loop, prep + 1)])
      c4 == Put(c3, [Cur(c3) EXCEPT !.operations[prep + 1].jump = JumpOffset(prep, loop)])
  IN  PopRegs(ExitBlock(JumpTarget(c4, Break)), b.x)

\* for_statement, generic: iterator, state and control, then the names.
GenericFor(c, s) ==
  LET u  == UniqueLabel(c)
      NilConst == [e |-> "const", v |-> Nil]
      Arg(i) == IF i <= Len(s.args) THEN s.args[i] ELSE NilConst
      e  == Expression(u.c, s.args[1])
      b  == IF Len(s.args) = 1 THEN PushCount(e.c, e.x, 3) ELSE Discharge(e.c, e.x, PushNew)
      More(cc, i) == LET x == Expression(cc, Arg(i)) IN Discharge(x.c, x.x, PushNew).c
      c1 == IF Len(s.args) = 1 THEN b.c ELSE More(More(b.c, 2), 3)
      n  == PushRegs(EnterBlock(EnterBlock(Check(c1, Len(s.names) < Byte, "Registers"))), Len(s.names))
      c2 == InOrder(LAMBDA a, i : NewLocal(a, s.names[i], n.x + i - 1, "none"), n.c,
                     [i \in DOMAIN s.names |-> i])
      c3 == Jump(c2, u.x)
      start == Here(c3)
      c4 == JumpTarget(ExitBlock(BlockStatements(c3, s.body)), u.x)
      c5 == Emit(c4, [op |-> "GenericForCall", base |-> b.x, varCount |-> Len(s.names)])
      c6 == Emit(Check(c5, OffsetFits(Here(c5), start), "JumpOverflow"),
                 [op |-> "GenericForLoop", base |-> b.x + 2, jump |-> JumpOffset(Here(c5), start)])
  IN  PopRegs(ExitBlock(JumpTarget(c6, Break)), b.x)

\* function_call_statement
CallStatement(c, x) == LET p == Expression(c, x) IN CallExpr(p.c, p.x, 0).c

CompileStatement(c, s) ==
  CASE s.s = "if"       -> IfStatement(c, s)
    [] s.s = "while"    -> WhileStatement(c, s)
    [] s.s = "do"       -> Block(c, s.body)
    [] s.s = "for"      -> NumericFor(c, s)
    [] s.s = "forin"    -> GenericFor(c, s)
    [] s.s = "repeat"   -> RepeatStatement(c, s)
    [] s.s = "function" -> FunctionStatement(c, s)
    [] s.s = "localfn"  -> LocalFunction(c, s)
    [] s.s = "local"    -> LocalStatement(c, s.names, s.vals)
    [] s.s = "label"    -> JumpTarget(c, Named(s.n))
    [] s.s = "break"    -> Jump(c, Break)
    [] s.s = "goto"     -> Jump(c, Named(s.n))
    [] s.s = "assign"   -> Assignment(c, s.targets, s.vals)
    [] s.s = "call"     -> CallStatement(c, s.x)

Compile(c, t) ==
  CASE t.to = "expression" -> CompileExpression(c, t.e)
    [] t.to = "discharge"  -> DischargeInto(c, t.x, t.dest)
    [] t.to = "arguments"  -> PushAll(c, t.xs)
    [] t.to = "statement"  -> CompileStatement(c, t.s)
    [] t.to = "block"      -> CompileBlock(c, t.b)

\* compile_chunk
CompileChunk(block) == Finish(Block([fs |-> <<Start(<<>>)>>, err |-> ""], block))

=============================================================================
