---------------------------- MODULE TableLibrary ----------------------------
(***************************************************************************)
(* insert, remove, pack and unpack                                         *)
(* (src/crates/phodopus/src/stdlib/table.rs).  insert and remove shift the *)
(* array part itself when no metamethod can see it.  Otherwise, as unpack  *)
(* and pack always do, a sequence indexes the table one entry at a time;   *)
(* any of its operations may call Lua code.                                *)
(*                                                                         *)
(* A sequence is what it still has to do: len pushes the length of the     *)
(* table, plan takes it from the stack and adds the operations, get pushes *)
(* an entry, set stores the top of the stack, put a value that is given.   *)
(* h is the height of its stack in front of the next operation: what a     *)
(* call left above it is cut off.                                          *)
(***************************************************************************)
EXTENDS BaseLibrary

TableFunctions == <<"insert", "remove", "pack", "unpack">>

LenOp       == [o |-> "len"]
GetOp(k)    == [o |-> "get", k |-> Integer(k)]
SetOp(k)    == [o |-> "set", k |-> Integer(k)]
PutOp(k, v) == [o |-> "put", k |-> k, v |-> v]
FailOp      == [o |-> "fail"]
PlanOp(args) == [o |-> "plan", args |-> args]

TableSequence(f, t, todo, h) == [k |-> "table", f |-> f, t |-> t, todo |-> todo, h |-> h]

\* An optional integer argument: FailOp when it is no integer.
OptInteger(v, default) == IF v = Nil THEN default ELSE ToInteger(v)

-----------------------------------------------------------------------------
(* The plans, for a table of length n *)

\* table_remove_impl.  Index 0 of an empty table is refused here.
RemovePlan(n, i) ==
  IF i = n + 1 THEN <<[o |-> "push", v |-> Nil]>>
  ELSE IF i \notin 1 .. n THEN <<FailOp>>
  ELSE <<GetOp(i)>> \o FlattenSeq([j \in 1 .. n - i |-> <<GetOp(i + j), SetOp(i + j - 1)>>])
       \o <<PutOp(Integer(n), Nil)>>

\* Mutant: the entries are shifted from the first one on.
InsertUpward(n, i) == FlattenSeq([j \in 1 .. n + 1 - i |-> <<GetOp(i + j - 1), SetOp(i + j)>>])
\* table_insert_impl: from the last entry down.
ShiftUp(n, i) == FlattenSeq([j \in 1 .. n + 1 - i |-> <<GetOp(n + 1 - j), SetOp(n + 2 - j)>>])
InsertPlan(n, i, v) ==
  IF n = MaxInt \/ i \notin 1 .. n + 1 THEN <<FailOp>> ELSE ShiftUp(n, i) \o <<PutOp(Integer(i), v)>>

\* Unpack; try_compute_length
UnpackPlan(first, last) ==
  IF last - first + 1 > MaxInt THEN <<FailOp>>
  ELSE [j \in 1 .. Max({0, last - first + 1}) |-> GetOp(first + j - 1)]

\* The arguments were converted when the function was called.
Plan(f, args, n) ==
  CASE f = "remove" -> RemovePlan(n, OptInteger(Argument(args, 2), Integer(n)).n)
    [] f = "insert" -> IF Len(args) = 2 THEN InsertPlan(n, n + 1, args[2]) ELSE InsertPlan(n, ToInteger(args[2]).n, args[3])
    [] f = "unpack" -> UnpackPlan(OptInteger(Argument(args, 2), Integer(1)).n, n)

-----------------------------------------------------------------------------
(* The shifts of the array part *)

\* use_fallback
Observed(ts, t) == \E m \in {"__len", "__index", "__newindex"} : Metamethod(ts, t, m) # Nil

\* array_remove_shift: the value and the array after it.
ArrayRemove(a, n, i) ==
  [j \in DOMAIN a |-> IF j \in i .. n - 1 THEN a[j + 1] ELSE IF j = n THEN Nil ELSE a[j]]

\* array_insert_shift, on an array that has a place behind the last entry.
ArrayInsert(a, n, i, v) ==
  [j \in DOMAIN a |-> IF j = i THEN v ELSE IF j \in i + 1 .. n + 1 THEN a[j - 1] ELSE a[j]]

Done(ts, res) == [ts |-> ts, res |-> res]
WithArray(ts, t, a) == [ts EXCEPT ![t.ref].raw.array = a]

Sequenced(ts, f, args, todo, h) ==
  Done(ts, Runs(TableSequence(f, args[1], todo, h), <<>>))

TableRemove(ts, args) ==
  LET t  == Argument(args, 1)
      rt == ts[t.ref].raw
      n  == RawLength(rt)
      i  == OptInteger(Argument(args, 2), Integer(n))
  IN  IF ~ IsTable(t) \/ OptInteger(Argument(args, 2), Nil) = None THEN Done(ts, Failure)
      ELSE IF Observed(ts, t) THEN Sequenced(ts, "remove", args, <<LenOp, PlanOp(args)>>, 0)
      ELSE IF (i.n = 0 /\ n = 0) \/ i.n = n + 1 THEN Done(ts, Returns(<<Nil>>))
      ELSE IF i.n \notin 1 .. n THEN Done(ts, Failure)
      ELSE IF n > Len(rt.array) THEN Sequenced(ts, "remove", args, RemovePlan(n, i.n), 0)
      ELSE Done(WithArray(ts, t, ArrayRemove(rt.array, n, i.n)), Returns(<<rt.array[i.n]>>))

TableInsert(ts, args) ==
  LET t  == Argument(args, 1)
      rt == ts[t.ref].raw
      n  == RawLength(rt)
      i  == IF Len(args) = 2 THEN Integer(n + 1) ELSE ToInteger(args[2])
      v  == IF Len(args) = 2 THEN args[2] ELSE args[3]
      to == IF n = Len(rt.array) THEN GrowArray(rt, 1) ELSE rt
      ts1 == [ts EXCEPT ![t.ref].raw = to]
  IN  IF Len(args) < 2 \/ ~ IsTable(t) \/ i = None THEN Done(ts, Failure)
      ELSE IF Observed(ts, t) THEN Sequenced(ts, "insert", args, <<LenOp, PlanOp(args)>>, 0)
      ELSE IF i.n \notin 1 .. n + 1 THEN Done(ts, Failure)
      ELSE IF n > Len(rt.array) THEN Sequenced(ts, "insert", args, InsertPlan(n, i.n, v), 0)
      ELSE Done(WithArray(ts1, t, ArrayInsert(to.array, n, i.n, v)), Returns(<<>>))

TableUnpack(ts, args) ==
  LET first == OptInteger(Argument(args, 2), Integer(1))
      last  == OptInteger(Argument(args, 3), Nil)
  IN  IF None \in {first, last} THEN Done(ts, Failure)
      ELSE Sequenced(ts, "unpack", Resize(args, 3),
                     IF last = Nil THEN <<LenOp, PlanOp(args)>> ELSE UnpackPlan(first.n, last.n), 0)

\* Pack: the number of values first, then each of them; the stack goes then.
TablePack(ts, args) ==
  LET t    == Table(Len(ts) + 1)
      todo == <<PutOp(Name("n"), Integer(Len(args)))>> \o [i \in DOMAIN args |-> PutOp(Integer(i), args[i])]
  IN  Done(Append(ts, NewTableOf(0, 0)), Runs(TableSequence("pack", t, Append(todo, [o |-> "push", v |-> t]), 0), <<>>))

\* The call of any callback.
Invoke(ts, f, args) ==
  CASE f.cb = "remove" -> TableRemove(ts, args)
    [] f.cb = "insert" -> TableInsert(ts, args)
    [] f.cb = "unpack" -> TableUnpack(ts, args)
    [] f.cb = "pack"   -> TablePack(ts, args)
    [] OTHER -> Done(InvokeTables(ts, f, args), InvokeResult(ts, f, args))

-----------------------------------------------------------------------------
(* One operation of a sequence *)

\* The result and the stack of the sequence when it goes on.
Does(res, st, sq) == [res |-> res, st |-> st, seq |-> sq]

\* index_helper, index_set_helper, the call of meta_ops::len and the bodies of
\* the loops, on the values vs that lie on the stack of the sequence.
PollTable(ts, sq, vs) ==
  LET o  == Head(sq.todo)
      st == Resize(vs, sq.h)
      n  == ToInteger(Argument(st, 1))
      Rest(h) == [sq EXCEPT !.todo = Tail(@), !.h = h]
      Planned(k) == [sq EXCEPT !.todo = Plan(sq.f, o.args, k), !.h = 0]
  IN  IF sq.todo = <<>> THEN Does(Returns(st), <<>>, sq)
      ELSE CASE o.o = "fail" -> Does(Failure, st, sq)
             [] o.o = "push" -> Does(Value(o.v), st, Rest(sq.h + 1))
             [] o.o = "len"  -> Does(Len0(ts, sq.t), st, Rest(sq.h + 1))
             [] o.o = "plan" -> IF n = None THEN Does(Failure, st, sq)
                                ELSE Does([k |-> "go"], <<>>, Planned(n.n))
             [] o.o = "get"  -> Does(Index(ts, sq.t, o.k), st, Rest(sq.h + 1))
             [] o.o = "set"  -> Does(NewIndex(ts, sq.t, o.k, Last(st)), Front(st), Rest(sq.h - 1))
             [] o.o = "put"  -> Does(NewIndex(ts, sq.t, o.k, o.v), st, Rest(sq.h))

=============================================================================
