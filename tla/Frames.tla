------------------------------- MODULE Frames -------------------------------
(***************************************************************************)
(* The frames of a thread and the part of the stack that each of them has  *)
(* (src/crates/phodopus/src/thread/thread.rs): how a call begins and how   *)
(* its values come back.                                                   *)
(*                                                                         *)
(* Stack indices start at 0 as in the code: the frame with the base b has  *)
(* the elements b + 1 .. b + size of the sequence st as its registers.     *)
(***************************************************************************)
EXTENDS LuaValues, Opcodes, SequencesExt

\* LuaReturn: what the frame below does with the values of a call.
NoReturn      == [k |-> "none"]
Normal(n)     == [k |-> "normal", n |-> n]
Discard       == [k |-> "discard"]
ToRegister(r) == [k |-> "register", r |-> r]
SkipIf(b)     == [k |-> "skip", b |-> b]

LuaFrame(bottom, closure, base, var, pc, size, ret) ==
  [k |-> "Lua", bottom |-> bottom, closure |-> closure, base |-> base, var |-> var, pc |-> pc,
   size |-> size, ret |-> ret]
CallbackFrame(bottom, cb)      == [k |-> "Callback", bottom |-> bottom, cb |-> cb]
SequenceFrame(bottom, sq, err) == [k |-> "Sequence", bottom |-> bottom, seq |-> sq, err |-> err]
ResultFrame(bottom) == [k |-> "Result", bottom |-> bottom]
ErrorFrame(e)       == [k |-> "Error", e |-> e]
PanicFrame          == [k |-> "Panic"]

\* push_call of a closure with the prototype p: the arguments start at bottom;
\* those beyond the fixed parameters are rotated below the registers.
PushClosure(fs, st, bottom, closure, p) ==
  LET given == Len(st) - bottom
      extra == IF given > p.fixedParams THEN given - p.fixedParams ELSE 0
      last  == bottom + given - extra
  IN  [frames |-> Append(fs, LuaFrame(bottom, closure, bottom + extra, FALSE, 0, p.stackSize, NoReturn)),
       stack  |-> Resize(Truncate(st, bottom) \o SubSeq(st, last + 1, Len(st)) \o SubSeq(st, bottom + 1, last),
                         bottom + extra + p.stackSize)]

\* Mutant: registers that the call has cut off are missing.
RefillNothing(f, st) == IF Len(st) < f.base + f.size THEN st ELSE Truncate(st, f.base + f.size)
\* The stack of a Lua frame has all its registers again.
Refill(f, st) == Resize(st, f.base + f.size)

\* A Lua frame whose call has returned goes on, or passes an instruction.
Resumed(f, pass) ==
  LuaFrame(f.bottom, f.closure, f.base, f.ret.k = "normal" /\ f.ret.n = Variable,
           f.pc + IF pass THEN 1 ELSE 0, f.size, NoReturn)

\* return_to: hand the values from bottom up to the frame that is now on top.
ReturnTo(fs, st, bottom) ==
  LET n    == Len(fs)
      f    == fs[n]
      v    == Argument(st, bottom + 1)
      rest == Refill(f, Truncate(st, bottom))
      To(s, pass) == [frames |-> [fs EXCEPT ![n] = Resumed(f, pass)], stack |-> s]
  IN  IF n = 0 THEN [frames |-> <<ResultFrame(bottom)>>, stack |-> st]
      ELSE IF f.k = "Sequence" THEN [frames |-> fs, stack |-> st]
      ELSE IF f.k # "Lua" \/ f.ret.k = "none" THEN [frames |-> <<PanicFrame>>, stack |-> st]
      ELSE CASE f.ret.k = "normal"   -> To(IF f.ret.n = Variable THEN st
                                           ELSE Refill(f, Resize(st, bottom + f.ret.n)), FALSE)
             [] f.ret.k = "discard"  -> To(rest, FALSE)
             [] f.ret.k = "register" -> To([rest EXCEPT ![f.base + f.ret.r + 1] = v], FALSE)
             [] f.ret.k = "skip"     -> To(rest, ToBool(v) = f.ret.b)

-----------------------------------------------------------------------------
(* Where frames lie *)

\* The frames lie on the stack one after the other.
Nested(fs) ==
  \A i \in 1 .. Len(fs) - 1 :
    fs[i].k = "Lua" /\ fs[i + 1].k # "Error" => fs[i + 1].bottom >= fs[i].base

\* A running Lua frame has exactly its registers, unless values of variable
\* number lie on top.
HasRegisters(f, st) ==
  f.k = "Lua" => IF f.var THEN Len(st) >= f.base ELSE Len(st) = f.base + f.size

Placed(fs, st) == Nested(fs) /\ (Len(fs) > 0 => HasRegisters(fs[Len(fs)], st))

=============================================================================
