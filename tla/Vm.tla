--------------------------------- MODULE Vm ---------------------------------
(***************************************************************************)
(* The bytecode interpreter (src/crates/phodopus/src/thread/vm.rs) on the  *)
(* frames, the value stack and the open upvalues of one thread             *)
(* (thread/thread.rs), running the compiled form of a source program.      *)
(*                                                                         *)
(* One step of the model is one instruction, one callback, one poll of a   *)
(* sequence or one frame of an unwinding error.  The batching of           *)
(* instructions, fuel, the memory quota and coroutines are the subject of  *)
(* Executor and Sandbox.  Stack indices start at 0 as in the code.         *)
(***************************************************************************)
EXTENDS RegisterAllocator, UpValues, Frames, PatternLibrary

CONSTANT Chunks        \* what the compiler made of the source programs: [source, err, proto, called, args];
                       \* those that are not called are only loaded

VARIABLES chunk,       \* the chunk that was loaded
          frames,      \* ThreadState::frames
          stack,       \* ThreadState::stack
          open,        \* ThreadState::open_upvalues: indices into upvalues
          upvalues,    \* every UpValue: [open |-> TRUE, i] or [open |-> FALSE, v]
          closures,    \* every Closure: [proto, upvalues]
          tables       \* every Table: [raw, meta]

vars == <<chunk, frames, stack, open, upvalues, closures, tables>>

\* A prototype is named by its path from the chunk.
Proto(path) == InOrder(LAMBDA p, i : p.prototypes[i + 1], chunk.proto, path)

-----------------------------------------------------------------------------
(* Frames *)

\* VMError: bytecode that the compiler never emits.
BadBytecode == [t |-> "bytecode"]

\* push_call
PushCall(fs, st, bottom, f) ==
  IF f.t = "cb" THEN [frames |-> Append(fs, CallbackFrame(bottom, f)), stack |-> st]
  ELSE PushClosure(fs, st, bottom, f.ref, Proto(closures[f.ref].proto))

CloseUpvalues(from) ==
  \E c \in {CloseFrom(open, upvalues, stack, from)} : open' = c.open /\ upvalues' = c.ups

-----------------------------------------------------------------------------
(* The running Lua frame *)

Frame       == Last(frames)
Base        == Frame.base
Code        == Proto(closures[Frame.closure].proto)
Instruction == Decode(Code.operations[Frame.pc + 1])

At(r)     == stack[Base + r + 1]
Put0(r, v) == [stack EXCEPT ![Base + r + 1] = v]

\* get_rc
RC(x) == IF x.k = "R" THEN At(x.i) ELSE Code.constants[x.i + 1]

\* The frames with the program counter behind this instruction and n more.
Go(n) == [frames EXCEPT ![Len(frames)].pc = @ + 1 + n]

Heap == <<open, upvalues, closures, tables>>

Load(r, v) == frames' = Go(0) /\ stack' = Put0(r, v)
Become(s)  == \E t \in {s} : frames' = t.frames /\ stack' = t.stack
Throw(e)   == frames' = Append(frames, ErrorFrame(e)) /\ UNCHANGED stack
Abort      == frames' = Append(frames, PanicFrame) /\ UNCHANGED stack

\* call_meta_function, on the stack st: nothing in the frame is disturbed.
CallMeta(st, f, args, ret) ==
  IF Frame.var \/ Len(st) # Base + Frame.size
  THEN /\ frames' = Append(frames, IF Frame.var THEN ErrorFrame(BadBytecode) ELSE PanicFrame)
       /\ stack' = st
  ELSE Become(PushCall([Go(0) EXCEPT ![Len(frames)].ret = ret], st \o args, Len(st), f))

\* The three ways an operation with metamethods ends.
Settled(result, ret) == \E res \in {result} :
  CASE res.k = "error" -> Throw(res.e)
    [] res.k = "call"  -> CallMeta(stack, res.f, res.args, ret)
    [] res.k = "value" ->
         IF ret.k = "register" THEN Load(ret.r, res.v)
         ELSE frames' = Go(IF ToBool(res.v) = ret.b THEN 1 ELSE 0) /\ UNCHANGED stack

-----------------------------------------------------------------------------
(* Instructions on registers *)

Move(o) ==
  /\ o.op = "Move"
  /\ Load(o.dest, At(o.source))
  /\ UNCHANGED Heap

LoadConstant(o) ==
  /\ o.op = "LoadConstant"
  /\ Load(o.dest, Code.constants[o.constant + 1])
  /\ UNCHANGED Heap

LoadBoolean(o) ==
  /\ o.op = "LoadBool"
  /\ frames' = Go(IF o.skip THEN 1 ELSE 0)
  /\ stack' = Put0(o.dest, Boolean(o.value))
  /\ UNCHANGED Heap

\* The end of the range is computed in a u8.
LoadNil(o) ==
  /\ o.op = "LoadNil"
  /\ frames' = Go(0)
  /\ stack' = [i \in DOMAIN stack |->
       IF i > Base + o.dest /\ i <= Base + ((o.dest + o.count) % Byte) THEN Nil ELSE stack[i]]
  /\ UNCHANGED Heap

JumpTo(o) ==
  /\ o.op = "Jump"
  /\ frames' = Go(o.offset)
  /\ IF o.close = NoClose THEN UNCHANGED <<open, upvalues>> ELSE CloseUpvalues(Base + o.close)
  /\ UNCHANGED <<stack, closures, tables>>

TestValue(o) ==
  /\ o.op = "Test"
  /\ frames' = Go(IF ToBool(At(o.value)) = o.isTrue THEN 1 ELSE 0)
  /\ UNCHANGED <<stack, Heap>>

TestSet(o) ==
  /\ o.op = "TestSet"
  /\ IF ToBool(At(o.value)) = o.isTrue THEN frames' = Go(1) /\ UNCHANGED stack
     ELSE Load(o.dest, At(o.value))
  /\ UNCHANGED Heap

-----------------------------------------------------------------------------
(* Calls *)

\* ExpectedVariableStack: the frame has a variable number of values on its
\* stack exactly when the instruction expects them.
VarMatches(n) == Frame.var = (n = Variable)
Count(n, from) == IF n = Variable THEN Len(stack) - from ELSE n

\* call_function: the function leaves the stack and its arguments become the
\* bottom of the new frame.
CallFunctionAt(o) ==
  /\ o.op = "Call"
  /\ LET at == Base + o.func
         n  == Count(o.args, at + 1)
         f  == Callable(tables, At(o.func))
     IN  CASE ~ VarMatches(o.args) -> Throw(BadBytecode)
           [] VarMatches(o.args) /\ f.k = "error" -> Throw(f.e)
           [] OTHER -> Become(PushCall([Go(0) EXCEPT ![Len(frames)].ret = Normal(o.returns)],
                                       Truncate(stack, at) \o SubSeq(stack, at + 2, at + 1 + n), at, f.v))
  /\ UNCHANGED Heap

\* call_function_keep: the function and its arguments stay.
GenericForCall(o) ==
  /\ o.op = "GenericForCall"
  /\ LET at == Base + o.base
         f  == Callable(tables, At(o.base))
     IN  CASE Frame.var -> Throw(BadBytecode)
           [] ~ Frame.var /\ f.k = "error" -> Throw(f.e)
           [] OTHER -> Become(PushCall([Go(0) EXCEPT ![Len(frames)].ret = Normal(o.varCount)],
                                       Truncate(stack, at + 3) \o SubSeq(stack, at + 2, at + 3), at + 3, f.v))
  /\ UNCHANGED Heap

\* tail_call_function: the frame is replaced.
TailCallFunction(o) ==
  /\ o.op = "TailCall"
  /\ LET at == Base + o.func
         n  == Count(o.args, at + 1)
         f  == Callable(tables, At(o.func))
     IN  CASE ~ VarMatches(o.args) -> Throw(BadBytecode) /\ UNCHANGED <<open, upvalues>>
           [] VarMatches(o.args) /\ f.k = "error" -> Throw(f.e) /\ UNCHANGED <<open, upvalues>>
           [] OTHER -> /\ CloseUpvalues(Frame.bottom)
                       /\ Become(PushCall(Front(frames), Truncate(stack, Frame.bottom)
                                            \o SubSeq(stack, at + 2, at + 1 + n), Frame.bottom, f.v))
  /\ UNCHANGED <<closures, tables>>

\* return_upper
ReturnUpper(o) ==
  /\ o.op = "Return"
  /\ LET from == Base + o.start
         n    == Count(o.count, from)
     IN  IF VarMatches(o.count)
         THEN /\ CloseUpvalues(Frame.bottom)
              /\ Become(ReturnTo(Front(frames), Truncate(stack, Frame.bottom) \o SubSeq(stack, from + 1, from + n),
                                 Frame.bottom))
         ELSE /\ frames' = Append(Front(frames), ErrorFrame(BadBytecode))
              /\ UNCHANGED <<stack, open, upvalues>>
  /\ UNCHANGED <<closures, tables>>

\* varargs: the values between the bottom and the base of the frame.
VarArgs(o) ==
  /\ o.op = "VarArgs"
  /\ LET va == SubSeq(stack, Frame.bottom + 1, Base)
         to == Base + o.dest
     IN  IF Frame.var THEN Throw(BadBytecode)
         ELSE IF o.count = Variable
         THEN /\ frames' = [Go(0) EXCEPT ![Len(frames)].var = TRUE]
              /\ stack' = Truncate(stack, to) \o va
         ELSE /\ frames' = Go(0)
              /\ stack' = Truncate(stack, to) \o Resize(va, o.count) \o SubSeq(stack, to + o.count + 1, Len(stack))
  /\ UNCHANGED Heap

-----------------------------------------------------------------------------
(* Closures and upvalues *)

MakeClosure(o) ==
  /\ o.op = "Closure"
  /\ LET descs == Code.prototypes[o.proto + 1].upvalues
         Capture(s, d) ==
           IF d.k = "ParentLocal" THEN OpenUpvalue(s, Base + d.i)
           ELSE [s EXCEPT !.ids = Append(@, closures[Frame.closure].upvalues[d.i + 1])]
         s == InOrder(Capture, [open |-> open, ups |-> upvalues, ids |-> <<>>], descs)
     IN  IF \E i \in DOMAIN descs : descs[i].k = "Environment"
         THEN Throw(BadBytecode) /\ UNCHANGED <<open, upvalues, closures>>
         ELSE /\ open' = s.open /\ upvalues' = s.ups
              /\ closures' = Append(closures, [proto |-> Append(closures[Frame.closure].proto, o.proto),
                                               upvalues |-> s.ids])
              /\ Load(o.dest, Function(Len(closures) + 1))
  /\ UNCHANGED tables

Upvalue(i) == closures[Frame.closure].upvalues[i + 1]

\* get_upvalue asserts that an open upvalue lies below the running frame.
UpvalueBelow(u) == upvalues[u].open => upvalues[u].i < Frame.bottom
UpvalueValue(u) == IF upvalues[u].open THEN stack[upvalues[u].i + 1] ELSE upvalues[u].v

GetUpValue(o) ==
  /\ o.op = "GetUpValue"
  /\ LET u == Upvalue(o.source) IN IF UpvalueBelow(u) THEN Load(o.dest, UpvalueValue(u)) ELSE Abort
  /\ UNCHANGED Heap

SetUpValue(o) ==
  /\ o.op = "SetUpValue"
  /\ LET u == Upvalue(o.dest)
     IN  CASE ~ UpvalueBelow(u) -> Abort /\ UNCHANGED upvalues
           [] UpvalueBelow(u) /\ upvalues[u].open ->
                /\ frames' = Go(0)
                /\ stack' = [stack EXCEPT ![upvalues[u].i + 1] = At(o.source)]
                /\ UNCHANGED upvalues
           [] OTHER -> /\ frames' = Go(0)
                       /\ upvalues' = [upvalues EXCEPT ![u].v = At(o.source)]
                       /\ UNCHANGED stack
  /\ UNCHANGED <<open, closures, tables>>

-----------------------------------------------------------------------------
(* Tables *)

NewTable(o) ==
  /\ o.op = "NewTable"
  /\ tables' = Append(tables, NewTableOf(o.arraySize, o.mapSize))
  /\ Load(o.dest, Table(Len(tables) + 1))
  /\ UNCHANGED <<open, upvalues, closures>>

GetField(o) ==
  /\ o.op \in {"GetTable", "GetUpTable"}
  /\ LET u == Upvalue(o.table)
     IN  IF o.op = "GetTable" THEN Settled(Index(tables, At(o.table), RC(o.key)), ToRegister(o.dest))
         ELSE IF UpvalueBelow(u)
         THEN Settled(Index(tables, UpvalueValue(u), RC(o.key)), ToRegister(o.dest))
         ELSE Abort
  /\ UNCHANGED Heap

SetEntry(t, key, value) ==
  LET res == NewIndex(tables, t, key, value)
  IN  IF res.k = "set"
      THEN frames' = Go(0) /\ UNCHANGED stack /\ tables' = SetRaw(tables, t, key, value)
      ELSE Settled(res, Discard) /\ UNCHANGED tables

SetField(o) ==
  /\ o.op \in {"SetTable", "SetUpTable"}
  /\ LET u == Upvalue(o.table)
     IN  IF o.op = "SetTable" THEN SetEntry(At(o.table), RC(o.key), RC(o.value))
         ELSE IF UpvalueBelow(u) THEN SetEntry(UpvalueValue(u), RC(o.key), RC(o.value))
         ELSE Abort /\ UNCHANGED tables
  /\ UNCHANGED <<open, upvalues, closures>>

\* set_table_list: the table, its last index, then the values.  The array part
\* is made long enough for all of them first.
SetList(o) ==
  /\ o.op = "SetList"
  /\ LET at    == Base + o.base
         start == stack[at + 2].n
         n     == Count(o.count, at + 2)
         to    == IF n = 0 THEN tables ELSE [tables EXCEPT ![At(o.base).ref].raw = ReserveThrough(@, start + n)]
         after == Truncate([stack EXCEPT ![at + 2] = Integer(start + n)],
                           IF o.count = Variable THEN Min({Base + Frame.size, Len(stack)}) ELSE Len(stack))
     IN  IF ~ VarMatches(o.count) THEN Throw(BadBytecode) /\ UNCHANGED tables
         ELSE /\ tables' = InOrder(LAMBDA ts, i : SetRaw(ts, At(o.base), Integer(start + i), stack[at + 2 + i]),
                                    to, [i \in 1 .. n |-> i])
              /\ frames' = [Go(0) EXCEPT ![Len(frames)].var = FALSE]
              /\ stack' = Resize(after, IF o.count = Variable THEN Base + Frame.size ELSE Len(stack))
  /\ UNCHANGED <<open, upvalues, closures>>

Method(o) ==
  /\ o.op = "Method"
  /\ LET t   == At(o.table)
         res == Index(tables, t, RC(o.key))
         st  == Put0(o.base + 1, t)
     IN  CASE res.k = "value" -> frames' = Go(0) /\ stack' = [st EXCEPT ![Base + o.base + 1] = res.v]
           [] res.k = "error" -> frames' = Append(frames, ErrorFrame(res.e)) /\ stack' = st
           [] res.k = "call"  -> CallMeta(st, res.f, res.args, ToRegister(o.base))
  /\ UNCHANGED Heap

-----------------------------------------------------------------------------
(* Operators *)

\* Mod of two integers.
IntModulo(a, b) ==
  LET r == Rem(a, b)
  IN  IF b = -1 THEN 0 ELSE IF (r > 0 /\ b < 0) \/ (r < 0 /\ b > 0) THEN Wrap(r + b) ELSE r

\* The fast path of Mod on two integers differs from Constant::modulo; the
\* fast paths of the other operators do what the metamethod operation does.
Divide(op, a, b) ==
  CASE op = "Mod" /\ IsInt(a) /\ IsInt(b) /\ b.n # 0 -> Value(Integer(IntModulo(a.n, b.n)))
    [] OTHER -> Arithmetic(tables, op, a, b)

ArithmeticInstruction(o) ==
  /\ o.op \in {"Add", "Sub", "Mul"}
  /\ Settled(Arithmetic(tables, o.op, RC(o.left), RC(o.right)), ToRegister(o.dest))
  /\ UNCHANGED Heap

DivisionInstruction(o) ==
  /\ o.op \in {"Div", "IDiv", "Mod", "Pow"}
  /\ Settled(Divide(o.op, RC(o.left), RC(o.right)), ToRegister(o.dest))
  /\ UNCHANGED Heap

BitwiseInstruction(o) ==
  /\ o.op \in {"BitAnd", "BitOr", "BitXor", "ShiftLeft", "ShiftRight"}
  /\ Settled(Arithmetic(tables, o.op, RC(o.left), RC(o.right)), ToRegister(o.dest))
  /\ UNCHANGED Heap

EqualInstruction(o) ==
  /\ o.op = "Eq"
  /\ Settled(Equal(tables, RC(o.left), RC(o.right)), SkipIf(o.skip))
  /\ UNCHANGED Heap

OrderInstruction(o) ==
  /\ o.op \in {"Less", "LessEq"}
  /\ LET l == RC(o.left)
         r == RC(o.right)
     IN  Settled(IF o.op = "Less" THEN Less(tables, l, r) ELSE LessEq(tables, l, r), SkipIf(o.skip))
  /\ UNCHANGED Heap

UnaryInstruction(o) ==
  /\ o.op \in {"Length", "Not", "Minus", "BitNot"}
  /\ LET v == At(o.source)
     IN  Settled(CASE o.op = "Length" -> Len0(tables, v)
                   [] o.op = "Not"    -> Value(Boolean(~ ToBool(v)))
                   [] OTHER           -> Unary(tables, o.op, v), ToRegister(o.dest))
  /\ UNCHANGED Heap

ConcatInstruction(o) ==
  /\ o.op = "Concat"
  /\ Settled(ConcatMany(SubSeq(stack, Base + o.source + 1, Base + o.source + o.count)), ToRegister(o.dest))
  /\ UNCHANGED Heap

-----------------------------------------------------------------------------
(* Loops *)

\* raw_subtract behind its fast paths.
NumericForPrep(o) ==
  /\ o.op = "NumericForPrep"
  /\ LET i == At(o.base)
         s == At(o.base + 2)
         v == IF IsScalar(i) /\ IsScalar(s) THEN ConstOp("Sub", i, s) ELSE None
     IN  IF v = None THEN Throw(Message)
         ELSE frames' = Go(o.jump) /\ stack' = Put0(o.base, v)
  /\ UNCHANGED Heap

\* Mutant: the sum is allowed to wrap.
PastWrapped(exact, next, limit, step) == IF step < 0 THEN next < limit ELSE next > limit
\* The step leads past the limit, or past the last integer (checked_add).
PastLimit(exact, next, limit, step) ==
  exact # next \/ IF step < 0 THEN next < limit ELSE next > limit

NumericForLoop(o) ==
  /\ o.op = "NumericForLoop"
  /\ LET i == At(o.base)
         l == At(o.base + 1)
         s == At(o.base + 2)
         ints == IsInt(i) /\ IsInt(s)
         To(v) == IF ints /\ IsInt(v) THEN v ELSE IF IsScalar(v) THEN ToNumber(v) ELSE None
         bad  == \E v \in {i, l, s} : To(v) = None
         next == IF ints THEN Integer(Wrap(i.n + s.n)) ELSE Number(To(i).n + To(s).n)
     IN  IF bad THEN Throw(Message)
         ELSE IF PastLimit(i.n + s.n, next.n, To(l).n, To(s).n) THEN Load(o.base, next)
         ELSE /\ frames' = Go(o.jump)
              /\ stack' = [stack EXCEPT ![Base + o.base + 1] = next, ![Base + o.base + 4] = next]
  /\ UNCHANGED Heap

GenericForLoop(o) ==
  /\ o.op = "GenericForLoop"
  /\ IF ToBool(At(o.base + 1))
     THEN frames' = Go(o.jump) /\ stack' = Put0(o.base, At(o.base + 1))
     ELSE frames' = Go(0) /\ UNCHANGED stack
  /\ UNCHANGED Heap

-----------------------------------------------------------------------------
(* Callbacks, sequences and errors *)

Above(bottom) == SubSeq(stack, bottom + 1, Len(stack))

\* Frame::Callback
RunCallback ==
  /\ Frame.k = "Callback"
  /\ \E r \in {InvokeAny(tables, Frame.cb, Above(Frame.bottom))} :
     LET res   == r.res
         below == Truncate(stack, Frame.bottom)
         fs    == Front(frames)
     IN  /\ CASE res.k = "return" -> Become(ReturnTo(fs, below \o res.vs, Frame.bottom))
              [] res.k = "error"  -> frames' = Append(fs, ErrorFrame(res.e)) /\ stack' = below
              [] res.k = "sequence" ->
                   /\ frames' = Append(fs, SequenceFrame(Frame.bottom, res.seq, None))
                   /\ stack' = below \o res.args
              [] res.k = "call"   ->
                   Become(PushCall(IF res.then = NoSequence THEN fs
                                   ELSE Append(fs, SequenceFrame(Frame.bottom, res.then, None)),
                                   below \o res.args, Frame.bottom, res.f))
         /\ tables' = r.ts
  /\ UNCHANGED <<open, upvalues, closures>>

\* PCall::poll and error, INext::poll, PairsReturn::poll.
PollLibrary ==
  /\ Frame.k = "Sequence" /\ Frame.seq.k \in {"pcall", "inext", "pairs"}
  /\ LET below == Truncate(stack, Frame.bottom)
         vs    == Above(Frame.bottom)
         fs    == Front(frames)
     IN  CASE Frame.seq.k = "pcall" /\ Frame.err = None ->
                Become(ReturnTo(fs, below \o <<Boolean(TRUE)>> \o vs, Frame.bottom))
           [] Frame.seq.k = "pcall" /\ Frame.err # None ->
                Become(ReturnTo(fs, below \o <<Boolean(FALSE), Frame.err>>, Frame.bottom))
           [] Frame.seq.k = "inext" /\ Frame.err = None ->
                Become(ReturnTo(fs, below \o (IF Argument(vs, 1) = Nil THEN vs
                                              ELSE <<Integer(Frame.seq.n)>> \o vs), Frame.bottom))
           [] Frame.seq.k = "pairs" /\ Frame.err = None ->
                Become(ReturnTo(fs, below \o Truncate(vs, Min({Len(vs), 3})), Frame.bottom))
           [] OTHER -> frames' = Append(fs, ErrorFrame(Frame.err)) /\ stack' = below
  /\ UNCHANGED Heap

\* The sequences of the table library.
PollTableLibrary ==
  /\ Frame.k = "Sequence" /\ Frame.seq.k = "table"
  /\ LET below == Truncate(stack, Frame.bottom)
         fs    == Front(frames)
     IN  IF Frame.err # None
         THEN frames' = Append(fs, ErrorFrame(Frame.err)) /\ stack' = below /\ UNCHANGED tables
         ELSE \E p \in {PollTable(tables, Frame.seq, Above(Frame.bottom))} :
              LET res == p.res
                  on  == Append(fs, SequenceFrame(Frame.bottom, p.seq, None))
              IN  /\ CASE res.k = "return" -> Become(ReturnTo(fs, below \o res.vs, Frame.bottom))
                       [] res.k = "error"  -> frames' = Append(fs, ErrorFrame(res.e)) /\ stack' = below
                       [] res.k = "value"  -> frames' = on /\ stack' = below \o p.st \o <<res.v>>
                       [] res.k = "call"   -> Become(PushCall(on, below \o p.st \o res.args,
                                                              Frame.bottom + Len(p.st), res.f))
                       [] OTHER            -> frames' = on /\ stack' = below \o p.st
                  /\ tables' = IF res.k = "set" THEN SetRaw(tables, res.t, res.key, res.v) ELSE tables
  /\ UNCHANGED <<open, upvalues, closures>>

\* GsubSequence::poll
PollGsub ==
  /\ Frame.k = "Sequence" /\ Frame.seq.k = "gsub"
  /\ \E res \in {PollGsubStep(tables, Frame.seq)} :
     LET below == Truncate(stack, Frame.bottom)
         fs    == Front(frames)
     IN  CASE res.k = "return" -> Become(ReturnTo(fs, below \o res.vs, Frame.bottom))
           [] res.k = "error"  -> frames' = Append(fs, ErrorFrame(res.e)) /\ stack' = below
           [] res.k = "go"     -> frames' = Append(fs, SequenceFrame(Frame.bottom, res.seq, None)) /\ UNCHANGED stack
  /\ UNCHANGED Heap

\* The sequence of concat_many: from the right, two values at a time, each
\* replaced by one result.
PollConcat ==
  /\ Frame.k = "Sequence" /\ Frame.seq.k = "concat"
  /\ LET i  == Frame.seq.i
         st == Resize(stack, Frame.bottom + i + 1)
         res == Concat(tables, st[Frame.bottom + i], st[Frame.bottom + i + 1])
         below == Truncate(st, Frame.bottom + i - 1)
         fs == [frames EXCEPT ![Len(frames)].seq.i = i - 1]
     IN  CASE Frame.err # None -> /\ frames' = Append(Front(frames), ErrorFrame(Frame.err))
                                  /\ stack' = Truncate(stack, Frame.bottom)
           [] Frame.err = None /\ i = 0 -> Become(ReturnTo(Front(frames), st, Frame.bottom))
           [] Frame.err = None /\ i > 0 ->
                CASE res.k = "error" -> /\ frames' = Append(Front(frames), ErrorFrame(res.e))
                                        /\ stack' = Truncate(stack, Frame.bottom)
                  [] res.k = "value" -> frames' = fs /\ stack' = below \o <<res.v>>
                  [] res.k = "call"  -> Become(PushCall(fs, below \o res.args, Frame.bottom + i - 1, res.f))
  /\ UNCHANGED Heap

\* Frame::Error: one frame is unwound, down to a sequence.
Unwind ==
  /\ Frame.k = "Error" /\ Len(frames) > 1
  /\ LET f  == frames[Len(frames) - 1]
         fs == SubSeq(frames, 1, Len(frames) - 2)
     IN  IF f.k = "Lua"
         THEN /\ CloseUpvalues(f.bottom)
              /\ frames' = Append(fs, Frame) /\ stack' = Truncate(stack, f.bottom)
         ELSE /\ frames' = Append(fs, SequenceFrame(f.bottom, f.seq, Frame.e))
              /\ UNCHANGED <<stack, open, upvalues>>
  /\ UNCHANGED <<closures, tables>>

-----------------------------------------------------------------------------
(* The specification *)

\* One instruction of run_vm.
Execute ==
  /\ Frame.k = "Lua"
  /\ \E o \in {Instruction} :
         \/ Move(o) \/ LoadConstant(o) \/ LoadBoolean(o) \/ LoadNil(o)
         \/ JumpTo(o) \/ TestValue(o) \/ TestSet(o)
         \/ CallFunctionAt(o) \/ GenericForCall(o) \/ TailCallFunction(o) \/ ReturnUpper(o) \/ VarArgs(o)
         \/ MakeClosure(o) \/ GetUpValue(o) \/ SetUpValue(o)
         \/ NewTable(o) \/ GetField(o) \/ SetField(o) \/ SetList(o) \/ Method(o)
         \/ ArithmeticInstruction(o) \/ DivisionInstruction(o) \/ BitwiseInstruction(o)
         \/ EqualInstruction(o) \/ OrderInstruction(o) \/ UnaryInstruction(o) \/ ConcatInstruction(o)
         \/ NumericForPrep(o) \/ NumericForLoop(o) \/ GenericForLoop(o)

\* Closure::load: the chunk's only possible upvalue is the environment.
LibraryTable(names) ==
  InOrder(LAMBDA rt, n : RawSet(rt, Name(n), Callback(n, <<>>)), RawTable(0, 0), names)
Libraries ==
  <<[raw |-> RawSet(RawSet(LibraryTable(Builtins), Name("table"), Table(3)), Name("string"), Table(2)), meta |-> 0],
    [raw |-> LibraryTable(StringFunctions), meta |-> 0],
    [raw |-> LibraryTable(TableFunctions), meta |-> 0]>>

Init ==
  /\ chunk \in Chunks
  /\ \E ts \in {Libraries} : tables = ts
  /\ open = <<>> /\ frames = <<>> /\ stack = <<>> /\ upvalues = <<>> /\ closures = <<>>

LoadChunk ==
  /\ closures = <<>> /\ frames = <<>>
  /\ IF chunk.err # "" THEN frames' = <<ErrorFrame(Message)>> /\ UNCHANGED <<upvalues, closures>>
     ELSE /\ upvalues' = [i \in DOMAIN chunk.proto.upvalues |-> [open |-> FALSE, v |-> Table(1)]]
          /\ closures' = <<[proto |-> <<>>, upvalues |-> [i \in DOMAIN chunk.proto.upvalues |-> i]]>>
          /\ UNCHANGED frames
  /\ UNCHANGED <<stack, open, tables>>

\* Executor::start with the loaded chunk.
StartChunk ==
  /\ frames = <<>> /\ closures # <<>> /\ chunk.called
  /\ Become(PushCall(<<>>, chunk.args, 0, Function(1)))
  /\ UNCHANGED Heap

Next ==
  /\ \/ LoadChunk
     \/ StartChunk
     \/ frames # <<>> /\ (Execute \/ RunCallback \/ PollLibrary \/ PollTableLibrary \/ PollGsub \/ PollConcat
                         \/ Unwind)
  /\ UNCHANGED chunk

\* The executor steps a thread that is neither finished nor suspended.
Spec == Init /\ [][Next]_vars /\ WF_vars(Next)

-----------------------------------------------------------------------------
(* Properties *)

\* The thread has its result: values or an error that nothing caught.
Finished == frames # <<>> /\ (Frame.k = "Result" \/ (Frame.k = "Error" /\ Len(frames) = 1))

\* Every table is what the code that reads it relies on: an entry has one
\* place, in the array part when that has a place for its key (get never looks
\* at the map then), a key that was killed has no value (the expects of set,
\* next and grow_array), nil is no key, the map holds what it has room for,
\* and length is a border whatever holes there are.
TablesWellFormed == \A i \in DOMAIN tables : \E rt \in {tables[i].raw} : ReliedOn(rt)

\* The list of open upvalues is sorted by stack index, as the binary searches
\* of open_upvalue and close_upvalues need, names each open upvalue once, and
\* every one lies on the stack of a Lua frame that is still there.
OpenUpvaluesSorted ==
  /\ Listed(open, upvalues)
  /\ \A i \in DOMAIN open : \E f \in DOMAIN frames :
       /\ frames[f].k = "Lua"
       /\ upvalues[open[i]].i \in frames[f].base .. frames[f].base + frames[f].size - 1
       /\ upvalues[open[i]].i < Len(stack)

\* The compiler's bytecode never meets a check of the interpreter (VMError,
\* an assertion or an expect): variable stacks, upvalue indices and the
\* pending return of a frame are always what the instruction needs.
NoBytecodeError ==
  \A i \in DOMAIN frames : frames[i].k # "Panic" /\ (frames[i].k = "Error" => frames[i].e # BadBytecode)

\* The frames lie on the stack one after the other, and the running Lua frame
\* has exactly its registers, unless values of variable number lie on top.
FramesOnStack == Placed(frames, stack)

\* Every called chunk comes to its end: unwinding, polling and returning make
\* progress in every frame.
Terminates == chunk.called => <>Finished

=============================================================================
