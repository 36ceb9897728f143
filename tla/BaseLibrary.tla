---------------------------- MODULE BaseLibrary ----------------------------
(***************************************************************************)
(* Callbacks that Lua code calls: functions of the base library            *)
(* (src/crates/phodopus/src/stdlib/base.rs) and the callbacks that the     *)
(* metamethod operations leave behind (meta_ops.rs).                       *)
(*                                                                         *)
(* InvokeResult is what the executor does after the call of a callback on  *)
(* its arguments: return values, call a function (then a sequence runs on  *)
(* its results), run a sequence, or raise an error.  InvokeTables is the   *)
(* heap of tables after the call.                                          *)
(***************************************************************************)
EXTENDS MetaOps

From(args, i) == SubSeq(args, i, Len(args))

\* CallbackReturn::Return, Call with the sequence that follows, and Sequence.
Returns(vs)           == [k |-> "return", vs |-> vs]
CallThen(f, args, sq) == [k |-> "call", f |-> f, args |-> args, then |-> sq]
Runs(sq, args)   == [k |-> "sequence", seq |-> sq, args |-> args]
NoSequence            == [k |-> "none"]

PCall       == [k |-> "pcall"]
INext(n)    == [k |-> "inext", n |-> n]
PairsReturn == [k |-> "pairs"]

\* What a callback does with the result of a metamethod operation.
Settle(res, sq) ==
  CASE res.k = "value" -> Returns(<<res.v>>)
    [] res.k = "call"  -> CallThen(res.f, res.args, sq)
    [] res.k = "set"   -> Returns(<<>>)
    [] res.k = "error" -> res

CallOr(ts, f, args, sq) ==
  LET c == Callable(ts, f) IN IF c.k = "value" THEN CallThen(c.v, args, sq) ELSE Failure

\* select: a positive index counts from the first value, a negative one from
\* the last, "#" asks for their number.
Select(args) ==
  LET n == ToInteger(Argument(args, 1))
  IN  CASE n # None /\ n.n >= 1 -> Returns(From(args, n.n + 1))
        [] n # None /\ n.n < 0 /\ - n.n < Len(args) -> Returns(From(args, Len(args) + n.n + 1))
        [] Argument(args, 1) = Name("#") -> Returns(<<Integer(Len(args) - 1)>>)
        [] OTHER -> Failure

\* The iterator of ipairs.
IPairsNext(ts, args) ==
  LET i   == IF Argument(args, 2) = Nil THEN 1 ELSE Wrap(ToInteger(args[2]).n + 1)
      res == Index(ts, Argument(args, 1), Integer(i))
  IN  IF res.k = "value"
      THEN Returns(IF res.v = Nil THEN <<>> ELSE <<Integer(i), res.v>>)
      ELSE Settle(res, INext(i))

\* next: the key and value that follow a key.
NextPair(ts, t, k) ==
  LET rt == ts[t.ref].raw
      p  == Position(rt, k)
      q  == NextPosition(rt, p)
  IN  IF p = NotFound THEN Failure
      ELSE Returns(IF q = 0 THEN <<Nil, Nil>> ELSE <<Entry(rt, q).key, Entry(rt, q).v>>)

\* pairs: any value will do; next refuses what is no table.
Pairs(ts, v) ==
  LET m == Metamethod(ts, v, "__pairs")
  IN  IF m = Nil THEN Returns(<<Callback("next", <<>>), v>>) ELSE CallOr(ts, m, <<v, Nil>>, PairsReturn)

InvokeResult(ts, f, args) ==
  LET a1 == Argument(args, 1)
      a2 == Argument(args, 2)
  IN  CASE f.cb = "index"    -> Settle(Index(ts, a1, a2), NoSequence)
        [] f.cb = "newindex" -> Settle(NewIndex(ts, a1, a2, Argument(args, 3)), NoSequence)
        [] f.cb = "call"     -> CallOr(ts, f.up[2], <<f.up[1]>> \o args, NoSequence)
        [] f.cb = "concat"   -> Runs([k |-> "concat", i |-> Len(args) - 1], args)
        [] f.cb = "pcall"    -> CallOr(ts, a1, From(args, 2), PCall)
        [] f.cb = "error"    -> Raise(a1)
        [] f.cb = "assert"   -> IF ToBool(a1) THEN Returns(args)
                                ELSE IF a2 = Nil THEN Failure ELSE Raise(a2)
        [] f.cb = "select"   -> Select(args)
        [] f.cb = "inext"    -> IPairsNext(ts, args)
        [] f.cb = "pairs"    -> Pairs(ts, a1)
        [] f.cb = "ipairs"   -> Returns(<<Callback("inext", <<>>)>> \o args)
        [] ~ IsTable(a1)     -> Failure
        [] OTHER ->
             CASE f.cb = "next"   -> NextPair(ts, a1, a2)
               [] f.cb = "rawget" -> Returns(<<GetRaw(ts, a1, a2)>>)
               [] f.cb = "rawlen" -> Returns(<<Integer(Length(ts, a1))>>)
               [] f.cb = "rawset" -> IF ValidKey(a2) THEN Returns(<<a1>>) ELSE Failure
               [] f.cb = "getmetatable" ->
                    Returns(<<IF ts[a1.ref].meta = 0 THEN Nil ELSE Table(ts[a1.ref].meta)>>)
               [] f.cb = "setmetatable" -> IF a2 = Nil \/ IsTable(a2) THEN Returns(<<a1>>) ELSE Failure

\* The tables after the call.
InvokeTables(ts, f, args) ==
  LET a1  == Argument(args, 1)
      set == NewIndex(ts, a1, Argument(args, 2), Argument(args, 3))
  IN  CASE InvokeResult(ts, f, args).k = "error" -> ts
        [] f.cb = "newindex" /\ set.k = "set" -> SetRaw(ts, set.t, set.key, set.v)
        [] f.cb = "rawset" -> SetRaw(ts, a1, args[2], Argument(args, 3))
        [] f.cb = "setmetatable" -> [ts EXCEPT ![a1.ref].meta = IF Argument(args, 2) = Nil THEN 0 ELSE args[2].ref]
        [] OTHER -> ts

Builtins == <<"pcall", "error", "assert", "select", "next", "pairs", "ipairs", "rawget", "rawlen", "rawset",
              "getmetatable", "setmetatable">>

=============================================================================
