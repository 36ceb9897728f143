---------------------------- MODULE LuaReference ----------------------------
(***************************************************************************)
(* What a Lua program means: an evaluator of syntax trees with no          *)
(* registers, no instructions and no stack, written from the Lua           *)
(* reference manual that the repository names as its specification.  The   *)
(* compiler and the interpreter are checked against it.                    *)
(*                                                                         *)
(* The store s holds every variable that was ever created (cells), the     *)
(* functions, the tables ([m, ks, meta]: a function from keys to values    *)
(* that are not nil and the keys in the order of traversal), and the       *)
(* signal that is on its way out: go (none), break, goto, return or error. *)
(* With a signal other than go nothing is evaluated.  An environment binds *)
(* names to cells, the last binding first, and holds the values of `...`.  *)
(***************************************************************************)
EXTENDS TableLibrary, PatternReference

RECURSIVE Eval(_, _, _), EvalList(_, _, _), Apply(_, _, _), Get(_, _, _), Set(_, _, _, _),
          Unary1(_, _, _),
          Exec(_, _, _), RunFrom(_, _, _, _, _), Loop(_, _, _, _), Count3(_, _, _, _, _, _),
          Iterate(_, _, _, _), Repeat(_, _, _), Branches(_, _, _, _, _), CallValue(_, _, _)

S(s, vs)    == [s |-> s, vs |-> vs]
Signal(s, sig) == [s EXCEPT !.sig = sig]
Go0         == [k |-> "go"]
Going(s)    == s.sig = Go0
Throws(s, e) == S(Signal(s, [k |-> "error", e |-> e]), <<Nil>>)
One(vs)     == Argument(vs, 1)

\* Variables
Cell(env, n)  == LET is == {i \in DOMAIN env.b : env.b[i].n = n}
                 IN  IF is = {} THEN 0 ELSE env.b[Max(is)].c
Bind(s, env, n, v) ==
  [s |-> [s EXCEPT !.cells = Append(@, v)],
   env |-> [env EXCEPT !.b = Append(@, [n |-> n, c |-> Len(s.cells) + 1])]]
BindAll(s, env, ns, vs) ==
  InOrder(LAMBDA p, i : Bind(p.s, p.env, ns[i], Argument(vs, i)), [s |-> s, env |-> env],
           [i \in DOMAIN ns |-> i])

-----------------------------------------------------------------------------
(* Tables *)

EmptyTable == [m |-> <<>>, ks |-> <<>>, meta |-> 0]

Fetch(ts, t, k) ==
  LET c == CanonicalKey(k) IN IF c \in DOMAIN ts[t.ref].m THEN ts[t.ref].m[c] ELSE Nil

\* A key keeps its place in the order when its entry goes and comes again.
Store(ts, t, k, v) ==
  LET c == CanonicalKey(k)
      m == ts[t.ref].m
  IN  [ts EXCEPT ![t.ref].m = [j \in (IF v = Nil THEN DOMAIN m \ {c} ELSE DOMAIN m \cup {c})
                                 |-> IF j = c THEN v ELSE m[j]],
                 ![t.ref].ks = IF \E i \in DOMAIN @ : @[i] = c THEN @ ELSE Append(@, c)]

\* A border.
Size(ts, t) ==
  CHOOSE n \in 0 .. Cardinality(DOMAIN ts[t.ref].m) :
    /\ \A i \in 1 .. n : Integer(i) \in DOMAIN ts[t.ref].m
    /\ Integer(n + 1) \notin DOMAIN ts[t.ref].m

\* The entry behind a key, in the order of the keys.
After(ts, t, k) ==
  LET ks   == ts[t.ref].ks
      live == {i \in DOMAIN ks : /\ ks[i] \in DOMAIN ts[t.ref].m
                                 /\ k = Nil \/ \E j \in 1 .. i - 1 : ks[j] = CanonicalKey(k)}
  IN  IF live = {} THEN <<Nil>> ELSE <<ks[Min(live)], ts[t.ref].m[ks[Min(live)]]>>

Event(ts, v, name) ==
  IF IsTable(v) /\ ts[v.ref].meta # 0 THEN Fetch(ts, Table(ts[v.ref].meta), Name(name)) ELSE Nil

-----------------------------------------------------------------------------
(* Operators *)

FloorDiv(a, b) == IF b < 0 THEN (- a) \div (- b) ELSE a \div b
FloorMod(a, b) == a - b * FloorDiv(a, b)

Binary2(op, a, b) ==
  CASE op = "IDiv" /\ IsInt(a) /\ IsInt(b) -> IF b.n = 0 THEN None ELSE Integer(Wrap(FloorDiv(a.n, b.n)))
    [] op = "Mod" /\ IsInt(a) /\ IsInt(b)  -> IF b.n = 0 THEN None ELSE Integer(FloorMod(a.n, b.n))
    [] OTHER -> ConstOp(op, a, b)

\* A metamethod is looked for in the left operand, then in the right one.
Handler(s, a, b, name) ==
  LET h == Event(s.tables, a, name) IN IF h # Nil THEN h ELSE Event(s.tables, b, name)
Meta(s, a, b, name) ==
  LET h == Handler(s, a, b, name)
  IN  IF h = Nil THEN Throws(s, Message)
      ELSE LET r == CallValue(s, h, <<a, b>>) IN S(r.s, <<One(r.vs)>>)

Ordered(s, name, v, a, b) == IF v # None THEN S(s, <<v>>) ELSE Meta(s, a, b, name)
Truth(r) == S(r.s, <<Boolean(ToBool(One(r.vs)))>>)
Negated(r) == S(r.s, <<Boolean(~ ToBool(One(r.vs)))>>)
Same(s, a, b) ==
  IF IsTable(a) /\ IsTable(b) /\ a # b
  THEN IF Handler(s, a, b, "__eq") = Nil THEN S(s, <<Boolean(FALSE)>>) ELSE Truth(Meta(s, a, b, "__eq"))
  ELSE S(s, <<Boolean(ConstEqual(a, b))>>)

Scalars(a, b) == IsScalar(a) /\ IsScalar(b)
Binary1(s, op, a, b) ==
  LET Lt(x, y) == Truth(Ordered(s, "__lt", IF Scalars(x, y) THEN ConstLess(x, y) ELSE None, x, y))
      Le(x, y) == Truth(Ordered(s, "__le", IF Scalars(x, y) THEN ConstLessEq(x, y) ELSE None, x, y))
  IN  CASE op = "Equal"        -> Same(s, a, b)
        [] op = "NotEqual"     -> Negated(Same(s, a, b))
        [] op = "LessThan"     -> Lt(a, b)
        [] op = "LessEqual"    -> Le(a, b)
        [] op = "GreaterThan"  -> Lt(b, a)
        [] op = "GreaterEqual" -> Le(b, a)
        [] op = "Concat" -> IF IsImplicitString(a) /\ IsImplicitString(b) THEN S(s, <<Joined(<<a, b>>)>>)
                            ELSE Meta(s, a, b, "__concat")
        [] OTHER -> Ordered(s, MetaNames[op], IF Scalars(a, b) THEN Binary2(op, a, b) ELSE None, a, b)

Unary1(s, op, a) ==
  LET name == CASE op = "Minus" -> "__unm" [] op = "BitNot" -> "__bnot" [] op = "Len" -> "__len"
                [] OTHER -> ""
      v == CASE op = "Not" -> Boolean(~ ToBool(a))
             [] op = "Len" /\ a.t = "str" -> Integer(Len(a.s))
             [] op = "Len" /\ IsTable(a) /\ Event(s.tables, a, "__len") = Nil -> Integer(Size(s.tables, a))
             [] op \in {"Minus", "BitNot"} /\ IsScalar(a) -> ConstUnary(op, a)
             [] OTHER -> None
      h == Event(s.tables, a, name)
  IN  IF v # None THEN S(s, <<v>>)
      ELSE IF h = Nil THEN Throws(s, Message)
      ELSE LET r == CallValue(s, h, <<a>>) IN S(r.s, <<One(r.vs)>>)

-----------------------------------------------------------------------------
(* Tables and calls *)

\* t[k]
Get(s, t, k) ==
  LET raw == IF IsTable(t) THEN Fetch(s.tables, t, k) ELSE Nil
      h   == IF t.t = "str" THEN StringLibrary ELSE Event(s.tables, t, "__index")
  IN  CASE ~ Going(s) -> S(s, <<Nil>>)
        [] Going(s) /\ raw # Nil -> S(s, <<raw>>)
        [] Going(s) /\ raw = Nil ->
             CASE h = Nil -> IF IsTable(t) THEN S(s, <<Nil>>) ELSE Throws(s, Message)
               [] IsFunction(h) -> LET r == Apply(s, h, <<t, k>>) IN S(r.s, <<One(r.vs)>>)
               [] OTHER -> Get(s, h, k)

\* t[k] = v
Set(s, t, k, v) ==
  LET h   == Event(s.tables, t, "__newindex")
      raw == ~ IsTable(t) \/ Fetch(s.tables, t, k) # Nil \/ h = Nil
  IN  CASE ~ Going(s) -> s
        [] Going(s) /\ raw -> IF ~ IsTable(t) \/ k = Nil THEN Throws(s, Message).s
                              ELSE [s EXCEPT !.tables = Store(@, t, k, v)]
        [] Going(s) /\ ~ raw -> IF IsFunction(h) THEN Apply(s, h, <<t, k, v>>).s ELSE Set(s, h, k, v)

\* A call of any value.
CallValue(s, f, args) ==
  LET h == Event(s.tables, f, "__call")
  IN  IF IsFunction(f) THEN Apply(s, f, args)
      ELSE IF h = Nil THEN Throws(s, Message) ELSE CallValue(s, h, <<f>> \o args)

\* The table library, in terms of t[k] and #t.
Counted(s, t) ==
  LET r == Unary1(s, "Len", t)
  IN  IF Going(r.s) /\ IsInt(One(r.vs)) THEN [s |-> r.s, n |-> One(r.vs).n]
      ELSE [s |-> IF Going(r.s) THEN Throws(r.s, Message).s ELSE r.s, n |-> 0]
Copied(s, t, from, to) == LET g == Get(s, t, Integer(from)) IN Set(g.s, t, Integer(to), One(g.vs))

Inserted(s, args) ==
  LET t == args[1]
      c == Counted(s, t)
      i == IF Len(args) = 2 THEN c.n + 1 ELSE args[2].n
      moved == InOrder(LAMBDA q, j : Copied(q, t, c.n + 1 - j, c.n + 2 - j), c.s, [j \in 1 .. c.n + 1 - i |-> j])
  IN  IF ~ Going(c.s) THEN S(c.s, <<>>)
      ELSE IF i \notin 1 .. c.n + 1 THEN Throws(c.s, Message)
      ELSE S(Set(moved, t, Integer(i), Last(args)), <<>>)

Removed(s, args) ==
  LET t == args[1]
      c == Counted(s, t)
      i == IF Len(args) = 1 THEN c.n ELSE args[2].n
      v == Get(c.s, t, Integer(i))
      moved == InOrder(LAMBDA q, j : Copied(q, t, j + i, j + i - 1), v.s, [j \in 1 .. c.n - i |-> j])
  IN  IF ~ Going(c.s) THEN S(c.s, <<>>)
      ELSE IF i = c.n + 1 \/ (i = 0 /\ c.n = 0) THEN S(c.s, <<Nil>>)
      ELSE IF i \notin 1 .. c.n THEN Throws(c.s, Message)
      ELSE S(Set(moved, t, Integer(c.n), Nil), <<One(v.vs)>>)

Unpacked(s, args) ==
  LET t == Argument(args, 1)
      first == IF Argument(args, 2) = Nil THEN 1 ELSE args[2].n
      c == IF Argument(args, 3) = Nil THEN Counted(s, t) ELSE [s |-> s, n |-> args[3].n]
  IN  InOrder(LAMBDA p, j : LET g == Get(p.s, t, Integer(first + j)) IN S(g.s, Append(p.vs, One(g.vs))),
              S(c.s, <<>>), [j \in 1 .. Max({0, c.n - first + 1}) |-> j - 1])

Packed(s, args) ==
  LET t == Table(Len(s.tables) + 1)
      ts == InOrder(LAMBDA q, j : Store(q, t, Integer(j), args[j]), Append(s.tables, EmptyTable),
                    [j \in DOMAIN args |-> j])
  IN  S([s EXCEPT !.tables = Store(ts, t, Name("n"), Integer(Len(args)))], <<t>>)

\* The string library.  An iterator of gmatch has its place in the text in a
\* cell of the store.
PlainFind(s, p, j) ==
  LET at == {k \in j .. Len(s) - Len(p) + 1 : SubSeq(s, k, k + Len(p) - 1) = p}
  IN  IF at = {} THEN NoMatch ELSE [from |-> Min(at), end |-> Min(at) + Len(p), captures |-> <<>>]

StringCall(st, f, args) ==
  LET s    == args[1].s
      p    == args[2].s
      j    == SearchStart(s, IF f # "gsub" /\ Argument(args, 3) # Nil THEN args[3].n ELSE 1)
      plain == Argument(args, 4) = Boolean(TRUE)
      m    == IF j > Len(s) + 1 THEN NoMatch ELSE IF plain THEN PlainFind(s, p, j) ELSE FirstFrom(p, s, j)
      r    == IF IsTable(args[3]) THEN [t |-> "map", m |-> st.tables[args[3].ref].m] ELSE String(Text(args[3]))
      g    == GsubFrom(p, s, 1, IF Argument(args, 4) = Nil THEN Len(s) + 2 ELSE Max({args[4].n, 0}), r)
  IN  IF ~ (f = "find" /\ plain) /\ IllFormedFrom(p, 1, 0) THEN Throws(st, Message)
      ELSE IF f = "gsub" /\ ~ IsTable(Argument(args, 3)) /\ ~ IsImplicitString(Argument(args, 3)) THEN Throws(st, Message)
      ELSE CASE f = "find" -> S(st, IF m = NoMatch THEN <<Nil>>
                                    ELSE <<Integer(m.from), Integer(m.end - 1)>> \o Captured(s, m))
             [] f = "match" -> S(st, IF m = NoMatch THEN <<Nil>> ELSE CapturedOrAll(s, m))
             [] f = "gmatch" -> S([st EXCEPT !.cells = Append(@, Integer(j))],
                                  <<Callback("gmatch next", <<s, p, Len(st.cells) + 1>>)>>)
             [] f = "gsub" -> IF g.ok THEN S(st, <<String(g.s), Integer(g.n)>>) ELSE Throws(st, Message)

NextMatch(st, up) ==
  LET s == up[1]
      j == st.cells[up[3]].n
      m == IF j > Len(s) + 1 THEN NoMatch ELSE FirstFrom(up[2], s, j)
      next == IF m.end = m.from THEN m.end + 1 ELSE m.end
  IN  IF m = NoMatch THEN S(st, <<Nil>>)
      ELSE S([st EXCEPT !.cells[up[3]] = Integer(next)], CapturedOrAll(s, m))

\* The functions of the library, for the arguments they are made for.
Library(s, f, args) ==
  LET a1 == Argument(args, 1)
      a2 == Argument(args, 2)
      pc == CallValue(s, a1, From(args, 2))
      i  == IF a2 = Nil THEN 1 ELSE Wrap(a2.n + 1)
      nx == Get(s, a1, Integer(i))
  IN  CASE f.cb = "error"  -> Throws(s, a1)
        [] \E i0 \in DOMAIN StringFunctions : f.cb = StringFunctions[i0] ->
             IF a1.t = "str" /\ a2.t = "str" THEN StringCall(s, f.cb, args) ELSE Throws(s, Message)
        [] f.cb = "gmatch next" -> NextMatch(s, f.up)
        [] f.cb = "assert" -> IF ToBool(a1) THEN S(s, args) ELSE Throws(s, IF a2 = Nil THEN Message ELSE a2)
        [] f.cb = "pcall"  -> IF pc.s.sig.k = "error" THEN S(Signal(pc.s, Go0), <<Boolean(FALSE), pc.s.sig.e>>)
                              ELSE S(pc.s, <<Boolean(TRUE)>> \o pc.vs)
        [] f.cb = "select" ->
             CASE a1 = Name("#") -> S(s, <<Integer(Len(args) - 1)>>)
               [] IsInt(a1) /\ a1.n > 0 -> S(s, From(args, a1.n + 1))
               [] IsInt(a1) /\ a1.n < 0 /\ - a1.n < Len(args) -> S(s, From(args, Len(args) + a1.n + 1))
               [] OTHER -> Throws(s, Message)
        [] f.cb = "pairs"  ->
             IF Event(s.tables, a1, "__pairs") = Nil THEN S(s, <<Callback("next", <<>>), a1, Nil>>)
             ELSE LET r == CallValue(s, Event(s.tables, a1, "__pairs"), <<a1>>) IN S(r.s, Resize(r.vs, 3))
        [] f.cb = "unpack" -> Unpacked(s, args)
        [] f.cb = "pack"   -> Packed(s, args)
        [] f.cb = "ipairs" -> S(s, <<Callback("inext", <<>>), a1, Integer(0)>>)
        [] f.cb = "inext"  -> IF One(nx.vs) = Nil THEN S(nx.s, <<Nil>>) ELSE S(nx.s, <<Integer(i), One(nx.vs)>>)
        [] ~ IsTable(a1)   -> Throws(s, Message)
        [] f.cb = "next"   /\ IsTable(a1) ->
             IF a2 = Nil \/ \E j \in DOMAIN s.tables[a1.ref].ks : s.tables[a1.ref].ks[j] = CanonicalKey(a2)
             THEN S(s, After(s.tables, a1, a2)) ELSE Throws(s, Message)
        [] f.cb = "insert" /\ IsTable(a1) -> IF Len(args) < 2 THEN Throws(s, Message) ELSE Inserted(s, args)
        [] f.cb = "remove" /\ IsTable(a1) -> Removed(s, args)
        [] f.cb = "rawget" /\ IsTable(a1) -> S(s, <<Fetch(s.tables, a1, a2)>>)
        [] f.cb = "rawlen" /\ IsTable(a1) -> S(s, <<Integer(Size(s.tables, a1))>>)
        [] f.cb = "rawset" /\ IsTable(a1) -> S([s EXCEPT !.tables = Store(@, a1, a2, Argument(args, 3))], <<a1>>)
        [] f.cb = "setmetatable" /\ IsTable(a1) ->
             S([s EXCEPT !.tables[a1.ref].meta = IF a2 = Nil THEN 0 ELSE a2.ref], <<a1>>)
        [] f.cb = "getmetatable" /\ IsTable(a1) ->
             S(s, <<IF s.tables[a1.ref].meta = 0 THEN Nil ELSE Table(s.tables[a1.ref].meta)>>)

Apply(s, f, args) ==
  LET d == s.functions[f.ref]
      n == Len(d.def.params)
      p == BindAll(s, [b |-> d.env, va |-> From(args, n + 1)], d.def.params, args)
      r == RunFrom(p.s, p.env, d.def.body, 1, <<>>)
  IN  CASE ~ Going(s)   -> S(s, <<Nil>>)
        [] Going(s) /\ f.t = "cb" -> Library(s, f, args)
        [] Going(s) /\ f.t = "fn" -> IF r.sig.k = "return" THEN S(Signal(r, Go0), r.sig.vs) ELSE S(r, <<>>)

-----------------------------------------------------------------------------
(* Expressions *)

Fresh(s, def, env) ==
  S([s EXCEPT !.functions = Append(@, [def |-> def, env |-> env.b])], <<Function(Len(s.functions) + 1)>>)

\* The array fields are numbered in order; the last may give several values.
Construct(s, env, fields) ==
  LET t == Table(Len(s.tables) + 1)
      arrays == {i \in DOMAIN fields : fields[i].k = "array"}
      Nth(i) == Cardinality({j \in arrays : j <= i})
      Place(p, i) ==
        LET f  == fields[i]
            k  == Eval(p, env, f.key)
            v  == Eval(IF f.k = "array" THEN p ELSE k.s, env, f.v)
            vs == IF i = Len(fields) THEN v.vs ELSE <<One(v.vs)>>
        IN  IF f.k # "array" THEN Set(v.s, t, One(k.vs), One(v.vs))
            ELSE InOrder(LAMBDA q, j : Set(q, t, Integer(Nth(i) + j - 1), vs[j]), v.s, [j \in DOMAIN vs |-> j])
      \* Fields with a key are set before the numbered ones.
      order == SelectSeq([i \in DOMAIN fields |-> i], LAMBDA i : i \notin arrays)
               \o SelectSeq([i \in DOMAIN fields |-> i], LAMBDA i : i \in arrays)
  IN  S(InOrder(Place, [s EXCEPT !.tables = Append(@, EmptyTable)], order), <<t>>)

\* A global name is a field of the variable _ENV.
Environment(s, env) == IF Cell(env, "_ENV") # 0 THEN s.cells[Cell(env, "_ENV")] ELSE Table(1)
ReadName(s, env, n) ==
  IF Cell(env, n) # 0 THEN S(s, <<s.cells[Cell(env, n)]>>) ELSE Get(s, Environment(s, env), Name(n))

Eval(s, env, e) ==
  IF ~ Going(s) THEN S(s, <<Nil>>)
  ELSE CASE e.e = "const"    -> S(s, <<e.v>>)
         [] e.e = "varargs"  -> S(s, env.va)
         [] e.e = "name"     -> ReadName(s, env, e.n)
         [] e.e = "group"    -> LET x == Eval(s, env, e.x) IN S(x.s, <<One(x.vs)>>)
         [] e.e = "function" -> Fresh(s, e.def, env)
         [] e.e = "table"    -> Construct(s, env, e.fields)
         [] e.e = "un"       -> LET x == Eval(s, env, e.x)
                                IN  IF Going(x.s) THEN Unary1(x.s, e.o, One(x.vs)) ELSE x
         [] e.e = "bin" /\ e.o \in ShortCircuitOps ->
              LET l == Eval(s, env, e.l)
                  r == Eval(l.s, env, e.r)
              IN  IF ToBool(One(l.vs)) = (e.o = "And") THEN S(r.s, <<One(r.vs)>>) ELSE S(l.s, <<One(l.vs)>>)
         [] e.e = "bin" /\ e.o \notin ShortCircuitOps ->
              LET l == Eval(s, env, e.l)
                  r == Eval(l.s, env, e.r)
              IN  IF Going(r.s) THEN Binary1(r.s, e.o, One(l.vs), One(r.vs)) ELSE r
         [] e.e = "index"    -> LET t == Eval(s, env, e.t)
                                    k == Eval(t.s, env, e.k)
                                IN  Get(k.s, One(t.vs), One(k.vs))
         [] e.e = "call"     -> LET f == Eval(s, env, e.f)
                                    a == EvalList(f.s, env, e.args)
                                IN  IF Going(a.s) THEN CallValue(a.s, One(f.vs), a.vs) ELSE a
         [] e.e = "method"   -> LET t == Eval(s, env, e.t)
                                    f == Get(t.s, One(t.vs), Name(e.m))
                                    a == EvalList(f.s, env, e.args)
                                IN  IF Going(a.s) THEN CallValue(a.s, One(f.vs), <<One(t.vs)>> \o a.vs) ELSE a

\* Every expression but the last gives one value.
EvalList(s, env, es) ==
  IF es = <<>> THEN S(s, <<>>)
  ELSE LET f == InOrder(LAMBDA p, e : LET x == Eval(p.s, env, e) IN S(x.s, Append(p.vs, One(x.vs))),
                         S(s, <<>>), Front(es))
           l == Eval(f.s, env, Last(es))
       IN  S(l.s, f.vs \o l.vs)

-----------------------------------------------------------------------------
(* Statements *)

E(s, env) == [s |-> s, env |-> env]

WriteName(s, env, n, v) ==
  CASE ~ Going(s) -> s
    [] Going(s) /\ Cell(env, n) # 0 -> [s EXCEPT !.cells[Cell(env, n)] = v]
    [] OTHER -> Set(s, Environment(s, env), Name(n), v)

WriteTarget(s, env, target, v) ==
  IF target.e = "name" THEN WriteName(s, env, target.n, v)
  ELSE LET t == Eval(s, env, target.t)
           k == Eval(t.s, env, target.k)
       IN  Set(k.s, One(t.vs), One(k.vs), v)

\* A block: its statements with an environment of their own; a goto finds a
\* label among them.  before[i] is the environment in front of statement i.
RunFrom(s, env, b, i, before) ==
  LET here  == Append(before, env)
      r     == Exec(s, env, b.stmts[i])
      label == IF r.s.sig.k = "goto"
               THEN {j \in DOMAIN b.stmts : b.stmts[j].s = "label" /\ b.stmts[j].n = r.s.sig.l} ELSE {}
      j     == CHOOSE x \in label : TRUE
      ret   == EvalList(s, env, b.returns)
  IN  CASE ~ Going(s) -> s
        [] Going(s) /\ i > Len(b.stmts) ->
             IF ~ b.ret THEN s
             ELSE IF Going(ret.s) THEN Signal(ret.s, [k |-> "return", vs |-> ret.vs]) ELSE ret.s
        [] Going(s) /\ i <= Len(b.stmts) /\ label # {} ->
             IF j <= i THEN RunFrom(Signal(r.s, Go0), here[j], b, j, SubSeq(here, 1, j - 1))
             ELSE RunFrom(Signal(r.s, Go0), env, b, j, here \o [x \in 1 .. j - i - 1 |-> env])
        [] Going(s) /\ i <= Len(b.stmts) /\ label = {} -> RunFrom(r.s, r.env, b, i + 1, here)

Run(s, env, b) == RunFrom(s, env, b, 1, <<>>)
EndLoop(s) == IF s.sig.k = "break" THEN Signal(s, Go0) ELSE s

\* if
Branches(s, env, parts, i, st) ==
  LET c == Eval(s, env, parts[i].cond)
  IN  IF i > Len(parts) THEN IF st.hasElse THEN Run(s, env, st.els) ELSE s
      ELSE IF ~ Going(c.s) THEN c.s
      ELSE IF ToBool(One(c.vs)) THEN Run(c.s, env, parts[i].body)
      ELSE Branches(c.s, env, parts, i + 1, st)

\* while
Loop(s, env, cond, body) ==
  LET c == Eval(s, env, cond)
      r == Run(c.s, env, body)
  IN  IF ~ Going(c.s) \/ ~ ToBool(One(c.vs)) THEN c.s
      ELSE IF Going(r) THEN Loop(r, env, cond, body) ELSE EndLoop(r)

\* repeat: the condition sees the locals of the body, as a trailing statement.
Repeat(s, env, st) ==
  LET probe == [s |-> "until", cond |-> st.cond]
      body  == [stmts |-> Append(st.body.stmts, probe), ret |-> FALSE, returns |-> <<>>]
      full  == IF st.body.ret THEN st.body ELSE body
      r     == Run(s, env, full)
  IN  IF r.sig.k = "again" THEN Repeat(Signal(r, Go0), env, st) ELSE EndLoop(r)

\* Numeric for: the number of iterations is fixed when the loop begins.
Count3(s, env, st, i, l, d) ==
  LET p == Bind(s, env, st.name, i)
      r == Run(p.s, p.env, st.body)
      next == i.n + d.n
      Val(x) == IF i.t = "int" THEN Integer(x) ELSE Number(x)
      done == IF d.n < 0 THEN i.n < l.n ELSE i.n > l.n
      over == i.t = "int" /\ (next > MaxInt \/ next < MinInt)
  IN  IF done THEN s
      ELSE IF Going(r) /\ ~ over THEN Count3(r, env, st, Val(next), l, d) ELSE EndLoop(r)

\* Generic for
Iterate(s, env, st, fsc) ==
  LET c == CallValue(s, fsc[1], <<fsc[2], fsc[3]>>)
      p == BindAll(c.s, env, st.names, c.vs)
      r == Run(p.s, p.env, st.body)
  IN  IF ~ Going(c.s) \/ One(c.vs) = Nil THEN c.s
      ELSE IF Going(r) THEN Iterate(r, env, st, <<fsc[1], fsc[2], One(c.vs)>>) ELSE EndLoop(r)

Assigned(s, env, targets, vals) ==
  LET v == EvalList(s, env, vals)
      n == Len(targets)
  IN  InOrder(LAMBDA q, i : WriteTarget(q, env, targets[n + 1 - i], Argument(v.vs, n + 1 - i)), v.s,
               [i \in DOMAIN targets |-> i])

NumericLoop(s, env, st) ==
  LET step == IF st.step.e = "none" THEN [e |-> "const", v |-> Integer(1)] ELSE st.step
      v == EvalList(s, env, <<st.init, st.limit, step>>)
      Num(x) == IF IsScalar(x) THEN ToNumeric(x) ELSE None
      i == Num(v.vs[1])
      l == Num(v.vs[2])
      d == Num(v.vs[3])
      ints == IsInt(i) /\ IsInt(d)
  IN  IF ~ Going(v.s) THEN v.s
      ELSE IF None \in {i, l, d} THEN Throws(v.s, Message).s
      ELSE Count3(v.s, env, st, IF ints THEN i ELSE Number(i.n), l, d)

Exec(s, env, st) ==
  IF ~ Going(s) THEN E(s, env)
  ELSE CASE st.s = "do"     -> E(Run(s, env, st.body), env)
         [] st.s = "label"  -> E(s, env)
         [] st.s = "break"  -> E(Signal(s, [k |-> "break"]), env)
         [] st.s = "goto"   -> E(Signal(s, [k |-> "goto", l |-> st.n]), env)
         [] st.s = "call"   -> E(Eval(s, env, st.x).s, env)
         [] st.s = "if"     -> E(Branches(s, env, st.parts, 1, st), env)
         [] st.s = "while"  -> E(Loop(s, env, st.cond, st.body), env)
         [] st.s = "repeat" -> E(Repeat(s, env, st), env)
         [] st.s = "until"  -> LET c == Eval(s, env, st.cond)
                               IN  E(IF Going(c.s) /\ ~ ToBool(One(c.vs)) THEN Signal(c.s, [k |-> "again"])
                                     ELSE c.s, env)
         [] st.s = "for"    -> E(NumericLoop(s, env, st), env)
         [] st.s = "forin"  -> LET v == EvalList(s, env, st.args)
                               IN  E(IF Going(v.s) THEN Iterate(v.s, env, st, [i \in 1 .. 3 |-> Argument(v.vs, i)])
                                     ELSE v.s, env)
         [] st.s = "assign" -> E(Assigned(s, env, st.targets, st.vals), env)
         [] st.s = "local"  -> LET v == EvalList(s, env, st.vals)
                                   ns == [i \in DOMAIN st.names |-> st.names[i].n]
                               IN  IF Going(v.s) THEN BindAll(v.s, env, ns, v.vs) ELSE E(v.s, env)
         [] st.s = "localfn" -> LET p == Bind(s, env, st.name, Nil)
                                    f == Fresh(p.s, st.def, p.env)
                                IN  E(WriteName(f.s, p.env, st.name, f.vs[1]), p.env)
         [] st.s = "function" ->
              LET path == st.fields \o (IF st.method = "" THEN <<>> ELSE <<st.method>>)
                  def  == IF st.method = "" THEN st.def ELSE [st.def EXCEPT !.params = <<"self">> \o @]
                  f    == Fresh(s, def, env)
                  root == ReadName(f.s, env, st.name)
                  t    == InOrder(LAMBDA p, n : Get(p.s, One(p.vs), Name(n)), root, Front(path))
              IN  E(IF path = <<>> THEN WriteName(f.s, env, st.name, f.vs[1])
                    ELSE Set(t.s, One(t.vs), Name(Last(path)), f.vs[1]), env)

\* The meaning of a chunk called with args: the
\* values it returns, or the error it ends with.
LibraryOf(names) ==
  InOrder(LAMBDA ts, n : Store(ts, Table(1), Name(n), Callback(n, <<>>)), <<EmptyTable>>, names)
Meaning(chunk, args) ==
  LET globals == Store(LibraryOf(Builtins), Table(1), Name("table"), Table(3))
      ts == Store(globals, Table(1), Name("string"), Table(2)) \o LibraryOf(StringFunctions) \o LibraryOf(TableFunctions)
      s0 == [cells |-> <<>>, functions |-> <<>>, tables |-> ts, sig |-> Go0]
      r  == Run(s0, [b |-> <<>>, va |-> args], chunk)
  IN  CASE r.sig.k = "return" -> [k |-> "return", vs |-> r.sig.vs]
        [] r.sig.k = "error"  -> [k |-> "error", e |-> r.sig.e]
        [] OTHER              -> [k |-> "return", vs |-> <<>>]

-----------------------------------------------------------------------------
(* Which programs are well formed *)

\* Labels at the end of a block lie outside the scope of its locals, as if the
\* rest of the block were a block of its own.
Split(b) ==
  LET n == Max({0} \cup {i \in DOMAIN b.stmts : b.stmts[i].s # "label"})
  IN  IF b.ret THEN b.stmts
      ELSE <<[s |-> "do", body |-> [b EXCEPT !.stmts = SubSeq(@, 1, n), !.ret = TRUE]]>>
           \o SubSeq(b.stmts, n + 1, Len(b.stmts))

RECURSIVE Escaping(_, _), EscapingFrom(_, _)
IllFormed == "ill-formed"

\* The jumps that leave a list of statements for a label further out; consts
\* holds the names that are constants in front of it.  The result contains
\* IllFormed when something in the list is wrong.
Escaping(ss, consts) ==
  LET Declares(i) == ss[i].s \in {"local", "localfn"}
      Names(i) == IF ss[i].s = "local" THEN {ss[i].names[j].n : j \in DOMAIN ss[i].names} ELSE {ss[i].name}
      Last0(i, n) == Max({0} \cup {j \in 1 .. i - 1 : Declares(j) /\ n \in Names(j)})
      ConstAt(i, n) == IF Last0(i, n) = 0 THEN n \in consts
                       ELSE /\ ss[Last0(i, n)].s = "local"
                            /\ \E j \in DOMAIN ss[Last0(i, n)].names : ss[Last0(i, n)].names[j] = [n |-> n, attr |-> "const"]
      out(i) == EscapingFrom(ss[i], {n \in {"x", "f"} : ConstAt(i, n)})
      labels == {i \in DOMAIN ss : ss[i].s = "label"}
      To(n)  == {j \in labels : ss[j].n = n}
      wrong  == \/ \E i, j \in labels : i # j /\ ss[i].n = ss[j].n
                \/ \E i \in DOMAIN ss : \E n \in out(i) : \E j \in To(n) : \E k \in i + 1 .. j - 1 : Declares(k)
  IN  (IF wrong THEN {IllFormed} ELSE {}) \cup UNION {{n \in out(i) : To(n) = {}} : i \in DOMAIN ss}

\* The same for one statement; "" stands for a break.
EscapingFrom(st, consts) ==
  CASE st.s = "goto"   -> {st.n}
    [] st.s = "break"  -> {""}
    [] st.s = "do"     -> Escaping(Split(st.body), consts)
    [] st.s = "while"  -> Escaping(Split(st.body), consts) \ {""}
    [] st.s = "assign" ->
         IF \/ \E i \in DOMAIN st.targets : st.targets[i].e = "name" /\ st.targets[i].n \in consts
            \/ \E i \in DOMAIN st.vals : /\ st.vals[i].e = "function"
                                        /\ Escaping(Split(st.vals[i].def.body), {}) # {}
         THEN {IllFormed} ELSE {}
    [] OTHER -> {}

WellFormed(chunk) == Escaping(Split(chunk), {}) = {}

=============================================================================
