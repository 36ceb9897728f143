------------------------------ MODULE MetaOps ------------------------------
(***************************************************************************)
(* Operations on values that may call Lua code                             *)
(* (src/crates/phodopus/src/meta_ops.rs).  Each yields a value, or a       *)
(* function to call with its arguments, or an error.  ts is the heap of    *)
(* tables: a sequence of [raw, meta], with raw the storage of the table    *)
(* (Tables) and meta the index of the metatable or 0.  User data is not    *)
(* modelled.                                                               *)
(***************************************************************************)
EXTENDS Constants, Tables

\* The table behind the metatable of strings (Context::string_metatable).
CONSTANT StringLibrary

Function(i)      == [t |-> "fn", ref |-> i]
Callback(cb, up) == [t |-> "cb", cb |-> cb, up |-> up]
IsTable(v)       == v.t = "table"
IsFunction(v)    == v.t \in {"fn", "cb"}

Value(v)       == [k |-> "value", v |-> v]
Call(f, args)  == [k |-> "call", f |-> f, args |-> args]
Raise(e)       == [k |-> "error", e |-> e]

\* An error made by the interpreter; its text is not modelled.
Message == [t |-> "message"]
Failure == Raise(Message)

-----------------------------------------------------------------------------
(* Raw access to a table (Table::get_raw, set_raw, length) *)

NewTableOf(array, map) == [raw |-> RawTable(array, map), meta |-> 0]

GetRaw(ts, t, k)    == RawGet(ts[t.ref].raw, k)
SetRaw(ts, t, k, v) == [ts EXCEPT ![t.ref].raw = RawSet(@, k, v)]
Length(ts, t)       == RawLength(ts[t.ref].raw)

\* get_metatable and get_metamethod; nil when there is none.
Metamethod(ts, v, name) ==
  IF IsTable(v) /\ ts[v.ref].meta # 0 THEN GetRaw(ts, Table(ts[v.ref].meta), Name(name)) ELSE Nil

\* call: what to call for a value that is not a function.
Callable(ts, v) ==
  LET m == Metamethod(ts, v, "__call")
  IN  CASE IsFunction(v) -> Value(v)
        [] ~ IsFunction(v) /\ (IsFunction(m) \/ IsTable(m)) -> Value(Callback("call", <<v, m>>))
        [] OTHER -> Failure

CallWith(ts, f, args) ==
  LET c == Callable(ts, f) IN IF c.k = "value" THEN Call(c.v, args) ELSE c

\* index: a table behind __index is indexed by a callback of its own.
Index(ts, t, k) ==
  LET v   == IF IsTable(t) THEN GetRaw(ts, t, k) ELSE Nil
      idx == IF t.t = "str" THEN StringLibrary ELSE Metamethod(ts, t, "__index")
  IN  CASE ~ IsTable(t) /\ t.t # "str" -> Failure
        [] IsTable(t) /\ (v # Nil \/ idx = Nil) -> Value(v)
        [] OTHER -> IF IsTable(idx) THEN Call(Callback("index", <<>>), <<idx, k>>)
                    ELSE CallWith(ts, idx, <<t, k>>)

\* new_index: [k |-> "set"] when the entry is to be set in t itself.
NewIndex(ts, t, k, v) ==
  LET idx == Metamethod(ts, t, "__newindex")
  IN  CASE ~ IsTable(t) -> Failure
        [] IsTable(t) /\ (GetRaw(ts, t, k) # Nil \/ idx = Nil) ->
             IF ValidKey(k) THEN [k |-> "set", t |-> t, key |-> k, v |-> v] ELSE Failure
        [] OTHER -> IF IsTable(idx) THEN Call(Callback("newindex", <<>>), <<idx, k, v>>)
                    ELSE CallWith(ts, idx, <<t, k, v>>)

\* len
Len0(ts, v) ==
  LET m == Metamethod(ts, v, "__len")
  IN  CASE m # Nil      -> CallWith(ts, m, <<v>>)
        [] v.t = "str"  -> Value(Integer(Len(v.s)))
        [] m = Nil /\ IsTable(v) -> Value(Integer(Length(ts, v)))
        [] OTHER        -> Failure

\* The metamethod of the left operand, or else of the right one.
Either(ts, a, b, name) ==
  LET m == Metamethod(ts, a, name) IN IF m # Nil THEN m ELSE Metamethod(ts, b, name)

\* equal: only two different tables ask for __eq.
Equal(ts, a, b) ==
  LET m == Either(ts, a, b, "__eq")
  IN  CASE IsTable(a) /\ IsTable(b) /\ a # b -> IF m = Nil THEN Value(Boolean(FALSE)) ELSE CallWith(ts, m, <<a, b>>)
        [] OTHER -> Value(Boolean(ConstEqual(a, b)))

\* meta_metaop: two operands that are no tables are operated on as constants.
MetaBinary(ts, name, a, b, const) ==
  LET m == Either(ts, a, b, name)
  IN  IF IsTable(a) \/ IsTable(b)
      THEN IF m = Nil THEN Failure ELSE CallWith(ts, m, <<a, b>>)
      ELSE IF const = None THEN Failure ELSE Value(const)

IsScalar(v) == ~ (IsTable(v) \/ IsFunction(v))
MetaNames == [Add |-> "__add", Sub |-> "__sub", Mul |-> "__mul", Div |-> "__div", Mod |-> "__mod",
              Pow |-> "__pow", IDiv |-> "__idiv", BitAnd |-> "__band", BitOr |-> "__bor",
              BitXor |-> "__bxor", ShiftLeft |-> "__shl", ShiftRight |-> "__shr"]

\* add, subtract, multiply ... shift_right
Arithmetic(ts, op, a, b) ==
  MetaBinary(ts, MetaNames[op], a, b, IF IsScalar(a) /\ IsScalar(b) THEN ConstOp(op, a, b) ELSE None)

\* less_than and less_equal
Less(ts, a, b)   == MetaBinary(ts, "__lt", a, b, IF IsScalar(a) /\ IsScalar(b) THEN ConstLess(a, b) ELSE None)
LessEq(ts, a, b) == MetaBinary(ts, "__le", a, b, IF IsScalar(a) /\ IsScalar(b) THEN ConstLessEq(a, b) ELSE None)

\* negate and bitwise_not (meta_unary_metaop)
Unary(ts, op, a) ==
  LET m == Metamethod(ts, a, IF op = "Minus" THEN "__unm" ELSE "__bnot")
      v == IF IsScalar(a) THEN ConstUnary(op, a) ELSE None
  IN  IF IsTable(a) THEN IF m = Nil THEN Failure ELSE CallWith(ts, m, <<a>>)
      ELSE IF v = None THEN Failure ELSE Value(v)

\* concat and concat_many.  Numbers are written as Rust writes them.
IsImplicitString(v) == v.t \in {"int", "num", "str"}
Text(v) == IF v.t = "str" THEN v.s ELSE <<ToString(v.n)>>
Joined(vs) == String(FlattenSeq([i \in DOMAIN vs |-> Text(vs[i])]))
Concat(ts, a, b) ==
  MetaBinary(ts, "__concat", a, b,
             IF IsImplicitString(a) /\ IsImplicitString(b) THEN Joined(<<a, b>>) ELSE None)
ConcatMany(vs) ==
  IF \A i \in DOMAIN vs : IsImplicitString(vs[i]) THEN Value(Joined(vs))
  ELSE Call(Callback("concat", <<>>), vs)

=============================================================================
