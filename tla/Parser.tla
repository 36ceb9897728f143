------------------------------- MODULE Parser -------------------------------
(***************************************************************************)
(* The recursive descent parser (src/crates/phodopus/src/compiler/         *)
(* parser.rs).  It reads a sequence of tokens and yields the abstract      *)
(* syntax tree the compiler works on, or an error.                         *)
(*                                                                         *)
(* A token is a string: a reserved word or an operator stands for itself,  *)
(* a numeral for its value, a quoted word for a string, and anything else  *)
(* is a name.  A parser state p holds the tokens still to be read, the     *)
(* number of recursion guards alive and the first error; an error drops    *)
(* the tokens that are left, which ends every loop where the code returns  *)
(* early.  Trees keep what the compiler looks at; line numbers are left    *)
(* out.                                                                    *)
(***************************************************************************)
EXTENDS Constants, SequencesExt

CONSTANTS MaxRecursion,   \* MAX_RECURSION
          StringTokens    \* function: the quoted tokens to the text they hold

Keywords == {"and", "break", "do", "else", "elseif", "end", "false", "for", "function", "goto",
             "if", "in", "local", "nil", "not", "or", "repeat", "return", "then", "true",
             "until", "while"}
Symbols  == {"-", "+", "*", "/", "//", "^", "%", "~", "&", "|", ",", ";", "#", "<<", ">>", "=",
             "==", "~=", "<", "<=", ">", ">=", ".", "..", "...", ":", "::", "[", "]", "(", ")",
             "{", "}"}
Integers10 == [t \in {ToString(i) : i \in 0 .. MaxInt} |->
                 CHOOSE i \in 0 .. MaxInt : ToString(i) = t]
Floats     == [t \in {ToString(i) \o ".0" : i \in 0 .. MaxInt} |->
                 CHOOSE i \in 0 .. MaxInt : ToString(i) \o ".0" = t]
IsName(t) == t \notin Keywords \cup Symbols \cup DOMAIN Integers10 \cup DOMAIN Floats
                        \cup DOMAIN StringTokens

P(p, x) == [p |-> p, x |-> x]

\* look_ahead and check_ahead; the end of the stream is the empty token.
EndOfStream == ""
Ahead(p, n) == IF n < Len(p.ts) THEN p.ts[n + 1] ELSE EndOfStream
Next0(p)    == Ahead(p, 0)
Error(p, e) == [p EXCEPT !.err = IF @ = "" THEN e ELSE @, !.ts = <<>>]

\* take_next, expect_next, expect_name; the reads of get_next fail like these.
TakeNext(p)  == IF p.ts = <<>> THEN Error(p, "EndOfStream") ELSE [p EXCEPT !.ts = Tail(@)]
Unexpected(p) == Error(p, IF p.ts = <<>> THEN "EndOfStream" ELSE "Unexpected")
ExpectNext(p, t) == IF Next0(p) = t THEN TakeNext(p) ELSE Unexpected(p)
ExpectName(p) == IF p.ts # <<>> /\ IsName(Next0(p)) THEN P(TakeNext(p), Next0(p))
                 ELSE P(Unexpected(p), "")
\* `if self.check_ahead(0, t)? { self.take_next()?; ... }`
Accept(p, t) == IF Next0(p) = t THEN P(TakeNext(p), TRUE) ELSE P(p, FALSE)

\* recursion_guard: how many are alive, and one more for the duration of a call.
Guard(p)      == IF p.depth < MaxRecursion - 1 THEN [p EXCEPT !.depth = @ + 1]
                 ELSE [Error(p, "RecursionLimit") EXCEPT !.depth = @ + 1]
Release(q)    == P([q.p EXCEPT !.depth = @ - 1], q.x)

MinPriority   == 0
UnaryPriority == 12
UnaryOps  == ("not" :> "Not") @@ ("-" :> "Minus") @@ ("~" :> "BitNot") @@ ("#" :> "Len")
BinaryOps == ("-" :> "Sub") @@ ("+" :> "Add") @@ ("*" :> "Mul") @@ ("%" :> "Mod") @@ ("^" :> "Pow")
             @@ ("/" :> "Div") @@ ("//" :> "IDiv") @@ ("&" :> "BitAnd") @@ ("|" :> "BitOr")
             @@ ("~" :> "BitXor") @@ ("<<" :> "ShiftLeft") @@ (">>" :> "ShiftRight")
             @@ (".." :> "Concat") @@ ("~=" :> "NotEqual") @@ ("==" :> "Equal")
             @@ ("<" :> "LessThan") @@ ("<=" :> "LessEqual") @@ (">" :> "GreaterThan")
             @@ (">=" :> "GreaterEqual") @@ ("and" :> "And") @@ ("or" :> "Or")
LeftPriority ==
  [o \in {"Add", "Sub"} |-> 10] @@ [o \in {"Mul", "Mod", "Div", "IDiv"} |-> 11]
  @@ ("Pow" :> 14) @@ ("Concat" :> 9) @@ [o \in {"ShiftLeft", "ShiftRight"} |-> 7]
  @@ ("BitAnd" :> 6) @@ ("BitXor" :> 5) @@ ("BitOr" :> 4) @@ [o \in ComparisonOps |-> 3]
  @@ ("And" :> 2) @@ ("Or" :> 1)
RightPriority == ("Pow" :> 13) @@ ("Concat" :> 8) @@ LeftPriority

\* The methods of the code that call each other all go through Parse, which
\* stands at the end of the module.
RECURSIVE Parse(_, _)
SubExpression(p, limit) == Parse(p, [of |-> "expression", limit |-> limit])
ParseBlock(p)           == Parse(p, [of |-> "block"])

RECURSIVE BinaryTail(_, _), SuffixParts(_), Statements(_), List(_, _), Fields(_), ElseIfs(_),
          Parameters(_), Path(_), Targets(_), Item(_, _)

ParseExpression(p) == SubExpression(p, MinPriority)

-----------------------------------------------------------------------------
(* Expressions *)

\* One or more items separated by commas (parse_expression_list and alike).
List(p, kind) ==
  LET x == Item(p, kind)
      m == Accept(x.p, ",")
      r == List(m.p, kind)
  IN  IF m.x THEN P(r.p, <<x.x>> \o r.x) ELSE P(x.p, <<x.x>>)
ExpressionList(p) == List(p, "expression")

\* parse_function_definition after `function`: parameters, then the body.
Parameters(p) ==
  LET n == ExpectName(p)
      m == Accept(n.p, ",")
      r == Parameters(m.p)
  IN  IF Next0(p) = "..." THEN P(TakeNext(p), [params |-> <<>>, dots |-> TRUE])
      ELSE IF m.x THEN P(r.p, [r.x EXCEPT !.params = <<n.x>> \o @])
      ELSE P(n.p, [params |-> <<n.x>>, dots |-> FALSE])

FunctionDefinition(p) ==
  LET o == ExpectNext(p, "(")
      a == IF Next0(o) = ")" THEN P(o, [params |-> <<>>, dots |-> FALSE]) ELSE Parameters(o)
      b == ParseBlock(ExpectNext(a.p, ")"))
  IN  P(ExpectNext(b.p, "end"), [params |-> a.x.params, dots |-> a.x.dots, body |-> b.x])

\* parse_constructor_field and parse_table_constructor
ConstructorField(p) ==
  LET named == p.ts # <<>> /\ IsName(Next0(p)) /\ Ahead(p, 1) = "="
      k == IF named THEN P(TakeNext(p), [e |-> "const", v |-> Name(Next0(p))])
           ELSE LET x == ParseExpression(TakeNext(p)) IN P(ExpectNext(x.p, "]"), x.x)
      v == ParseExpression(ExpectNext(k.p, "="))
      x == ParseExpression(p)
  IN  IF named \/ Next0(p) = "[" THEN P(v.p, [k |-> "record", key |-> k.x, v |-> v.x])
      ELSE P(x.p, [k |-> "array", v |-> x.x])

Fields(p) ==
  LET f == ConstructorField(p)
      r == Fields(TakeNext(f.p))
  IN  IF Next0(p) = "}" THEN P(p, <<>>)
      ELSE IF Next0(f.p) \in {",", ";"} THEN P(r.p, <<f.x>> \o r.x)
      ELSE P(f.p, <<f.x>>)

TableConstructor(p) ==
  LET fs == Fields(ExpectNext(p, "{"))
  IN  P(ExpectNext(fs.p, "}"), [e |-> "table", fields |-> fs.x])

\* parse_call_suffix: a list in parentheses, a table or a string.
CallArguments(p) ==
  LET o == TakeNext(p)
      l == IF Next0(o) = ")" THEN P(o, <<>>) ELSE ExpressionList(o)
      t == TableConstructor(p)
  IN  CASE Next0(p) = "(" -> P(ExpectNext(l.p, ")"), l.x)
        [] Next0(p) = "{" -> P(t.p, <<t.x>>)
        [] Next0(p) \in DOMAIN StringTokens ->
             P(TakeNext(p), <<[e |-> "const", v |-> String(StringTokens[Next0(p)])]>>)
        [] OTHER -> P(Unexpected(p), <<>>)

\* parse_suffix_part, parse_field_suffix, parse_suffixed_expression: q.x is the
\* expression so far.
Suffix(q) ==
  LET t == Next0(q.p)
      n == ExpectName(TakeNext(q.p))
      k == ParseExpression(TakeNext(q.p))
      a == CallArguments(IF t = ":" THEN n.p ELSE q.p)
  IN  CASE t = "." -> P(n.p, [e |-> "index", t |-> q.x, k |-> [e |-> "const", v |-> Name(n.x)]])
        [] t = "[" -> P(ExpectNext(k.p, "]"), [e |-> "index", t |-> q.x, k |-> k.x])
        [] t = ":" -> P(a.p, [e |-> "method", t |-> q.x, m |-> n.x, args |-> a.x])
        [] OTHER   -> P(a.p, [e |-> "call", f |-> q.x, args |-> a.x])

SuffixParts(q) ==
  IF Next0(q.p) \in {".", "[", ":", "(", "{"} \cup DOMAIN StringTokens THEN SuffixParts(Suffix(q)) ELSE q

\* parse_primary_expression
Primary(p) ==
  LET x == ParseExpression(TakeNext(p))
  IN  CASE Next0(p) = "(" -> P(ExpectNext(x.p, ")"), [e |-> "group", x |-> x.x])
        [] p.ts # <<>> /\ IsName(Next0(p)) -> P(TakeNext(p), [e |-> "name", n |-> Next0(p)])
        [] OTHER -> P(Unexpected(p), [e |-> "name", n |-> ""])

SuffixedExpression(p) == SuffixParts(Primary(p))

\* parse_simple_expression
SimpleExpression(p) ==
  LET t == Next0(p)
      Const(v) == P(TakeNext(p), [e |-> "const", v |-> v])
      f == FunctionDefinition(TakeNext(p))
  IN  CASE t \in DOMAIN Integers10   -> Const(Integer(Integers10[t]))
        [] t \in DOMAIN Floats       -> Const(Number(Floats[t]))
        [] t \in DOMAIN StringTokens -> Const(String(StringTokens[t]))
        [] t = "nil"      -> Const(Nil)
        [] t = "true"     -> Const(Boolean(TRUE))
        [] t = "false"    -> Const(Boolean(FALSE))
        [] t = "..."      -> P(TakeNext(p), [e |-> "varargs"])
        [] t = "{"        -> TableConstructor(p)
        [] t = "function" -> P(f.p, [e |-> "function", def |-> f.x])
        [] OTHER          -> SuffixedExpression(p)

\* parse_sub_expression: an operand, then the operators that bind tighter than
\* the limit.  q.x is the expression to the left of the operator.
BinaryTail(q, limit) ==
  LET t == Next0(q.p)
      o == BinaryOps[t]
      r == SubExpression(TakeNext(q.p), RightPriority[o])
  IN  IF t \in DOMAIN BinaryOps /\ LeftPriority[o] > limit
      THEN BinaryTail(P(r.p, [e |-> "bin", o |-> o, l |-> q.x, r |-> r.x]), limit)
      ELSE q

ExpressionAt(p, limit) ==
  LET g == Guard(p)
      u == SubExpression(TakeNext(g), UnaryPriority)
      head == IF Next0(g) \in DOMAIN UnaryOps
              THEN P(u.p, [e |-> "un", o |-> UnaryOps[Next0(g)], x |-> u.x])
              ELSE SimpleExpression(g)
  IN  Release(BinaryTail(head, limit))

-----------------------------------------------------------------------------
(* Statements *)

NoExpression == [e |-> "none"]
NoBlock      == [stmts |-> <<>>, ret |-> FALSE, returns |-> <<>>]

\* A condition or header, a block and what closes it.
Body(p, open) == ParseBlock(ExpectNext(p, open))

\* parse_if_statement; an elseif part is a further condition and block.
ElseIfs(p) ==
  LET c == ParseExpression(TakeNext(p))
      b == Body(c.p, "then")
      r == ElseIfs(b.p)
  IN  IF Next0(p) \in {"if", "elseif"} THEN P(r.p, <<[cond |-> c.x, body |-> b.x]>> \o r.x)
      ELSE P(p, <<>>)
ParseIf(p) ==
  LET parts == ElseIfs(p)
      m == Accept(parts.p, "else")
      b == IF m.x THEN ParseBlock(m.p) ELSE P(m.p, NoBlock)
  IN  P(ExpectNext(b.p, "end"), [s |-> "if", parts |-> parts.x, hasElse |-> m.x, els |-> b.x])

ParseWhile(p) ==
  LET c == ParseExpression(TakeNext(p))
      b == Body(c.p, "do")
  IN  P(ExpectNext(b.p, "end"), [s |-> "while", cond |-> c.x, body |-> b.x])

ParseFor(p) ==
  LET n    == ExpectName(TakeNext(p))
      init == ParseExpression(TakeNext(n.p))
      lim  == ParseExpression(ExpectNext(init.p, ","))
      m    == Accept(lim.p, ",")
      step == IF m.x THEN ParseExpression(m.p) ELSE P(m.p, NoExpression)
      nb   == Body(step.p, "do")
      names == List(TakeNext(p), "name")
      args == ExpressionList(ExpectNext(names.p, "in"))
      gb   == Body(args.p, "do")
  IN  CASE Next0(n.p) = "=" ->
             P(ExpectNext(nb.p, "end"), [s |-> "for", name |-> n.x, init |-> init.x,
                                         limit |-> lim.x, step |-> step.x, body |-> nb.x])
        [] Next0(n.p) \in {",", "in"} ->
             P(ExpectNext(gb.p, "end"), [s |-> "forin", names |-> names.x, args |-> args.x, body |-> gb.x])
        [] OTHER -> P(Unexpected(n.p), [s |-> "break"])

ParseRepeat(p) ==
  LET b == ParseBlock(TakeNext(p))
      c == ParseExpression(ExpectNext(b.p, "until"))
  IN  P(c.p, [s |-> "repeat", body |-> b.x, cond |-> c.x])

\* parse_function_statement: `a.b.c:m`
Path(p) ==
  LET n == ExpectName(TakeNext(p))
      r == Path(n.p)
  IN  CASE Next0(p) = "." -> P(r.p, [r.x EXCEPT !.fields = <<n.x>> \o @])
        [] Next0(p) = ":" -> P(n.p, [fields |-> <<>>, method |-> n.x])
        [] OTHER          -> P(p, [fields |-> <<>>, method |-> ""])
ParseFunction(p) ==
  LET n == ExpectName(TakeNext(p))
      q == Path(n.p)
      d == FunctionDefinition(q.p)
  IN  P(d.p, [s |-> "function", name |-> n.x, fields |-> q.x.fields, method |-> q.x.method,
               def |-> d.x])

ParseLocalFunction(p) ==
  LET n == ExpectName(TakeNext(p))
      d == FunctionDefinition(n.p)
  IN  P(d.p, [s |-> "localfn", name |-> n.x, def |-> d.x])

\* parse_local_statement, with the attribute of each name.
LocalName(p) ==
  LET n == ExpectName(p)
      m == Accept(n.p, "<")
      a == ExpectName(m.p)
      q == ExpectNext(a.p, ">")
  IN  IF ~ m.x THEN P(n.p, [n |-> n.x, attr |-> "none"])
      ELSE P(IF a.x \in {"const", "close"} THEN q ELSE Error(q, "InvalidAttribute"),
             [n |-> n.x, attr |-> a.x])
Item(p, kind) ==
  CASE kind = "expression" -> ParseExpression(p)
    [] kind = "name"       -> ExpectName(p)
    [] kind = "local"      -> LocalName(p)
ParseLocal(p) ==
  LET ns == List(TakeNext(p), "local")
      m  == Accept(ns.p, "=")
      vs == IF m.x THEN ExpressionList(m.p) ELSE P(m.p, <<>>)
  IN  P(vs.p, [s |-> "local", names |-> ns.x, vals |-> vs.x])

ParseLabel(p) ==
  LET n == ExpectName(TakeNext(p)) IN P(ExpectNext(n.p, "::"), [s |-> "label", n |-> n.x])
ParseGoto(p) == LET n == ExpectName(TakeNext(p)) IN P(n.p, [s |-> "goto", n |-> n.x])

\* parse_expression_statement: an assignment to names and fields, or a call.
Targets(q) ==
  LET x == IF q.x.e \in {"name", "index"} THEN q ELSE P(Error(q.p, "AssignToExpression"), q.x)
      m == Accept(x.p, ",")
      r == Targets(SuffixedExpression(m.p))
  IN  IF m.x THEN P(r.p, <<x.x>> \o r.x) ELSE P(x.p, <<x.x>>)
ExpressionStatement(p) ==
  LET x  == SuffixedExpression(p)
      ts == Targets(x)
      vs == ExpressionList(ExpectNext(ts.p, "="))
  IN  CASE Next0(x.p) \in {"=", ","} -> P(vs.p, [s |-> "assign", targets |-> ts.x, vals |-> vs.x])
        [] Next0(x.p) \notin {"=", ","} /\ x.x.e \in {"call", "method"} -> P(x.p, [s |-> "call", x |-> x.x])
        [] OTHER -> P(Error(x.p, "ExpressionNotStatement"), [s |-> "break"])

ParseStatement(p) ==
  LET g == Guard(p)
      t == Next0(g)
      b == ParseBlock(TakeNext(g))
  IN  Release(
        CASE t = "if"       -> ParseIf(g)
          [] t = "while"    -> ParseWhile(g)
          [] t = "do"       -> P(ExpectNext(b.p, "end"), [s |-> "do", body |-> b.x])
          [] t = "for"      -> ParseFor(g)
          [] t = "repeat"   -> ParseRepeat(g)
          [] t = "function" -> ParseFunction(g)
          [] t = "local"    -> IF Ahead(g, 1) = "function" THEN ParseLocalFunction(TakeNext(g))
                               ELSE ParseLocal(g)
          [] t = "::"       -> ParseLabel(g)
          [] t = "break"    -> P(TakeNext(g), [s |-> "break"])
          [] t = "goto"     -> ParseGoto(g)
          [] OTHER          -> ExpressionStatement(g))

\* parse_return_statement
ParseReturn(p) ==
  LET q  == TakeNext(p)
      es == IF Next0(q) \in {"", "end", ";", "else", "elseif", "until"} THEN P(q, <<>>)
            ELSE ExpressionList(q)
  IN  P(Accept(es.p, ";").p, es.x)

\* parse_block: q.x is the block so far.
Statements(q) ==
  LET t == Next0(q.p)
      r == ParseReturn(q.p)
      s == ParseStatement(q.p)
  IN  CASE t \in {"", "else", "elseif", "end", "until"} -> q
        [] t = ";"      -> Statements(P(TakeNext(q.p), q.x))
        [] t = "return" -> P(r.p, [q.x EXCEPT !.ret = TRUE, !.returns = r.x])
        [] OTHER        -> Statements(P(s.p, [q.x EXCEPT !.stmts = Append(@, s.x)]))

Parse(p, t) ==
  CASE t.of = "expression" -> ExpressionAt(p, t.limit)
    [] t.of = "block"      -> Statements(P(p, NoBlock))

\* parse_chunk: the whole stream is one block.
ParseChunk(tokens) ==
  LET b == ParseBlock([ts |-> tokens, depth |-> 0, err |-> ""])
  IN  IF b.p.ts = <<>> THEN b ELSE P(Error(b.p, "EndOfStream"), b.x)

=============================================================================
