--------------------------- MODULE CompilerState ---------------------------
(***************************************************************************)
(* The state of the Lua compiler (src/crates/phodopus/src/compiler/        *)
(* compiler.rs) and the operations on it that need no syntax: registers,   *)
(* constants, variables, jumps and blocks.  Every method of the code is an *)
(* operator from a compiler state to the next one.                         *)
(*                                                                         *)
(* A compiler state c is the stack of the functions being compiled, the    *)
(* last one current, with the first error.  A compilation that failed goes *)
(* on here, unobserved, where the code returns early.  An operator that    *)
(* also returns a value yields [c |-> state, x |-> value].                 *)
(*                                                                         *)
(* Source programs are abstract syntax trees: records tagged by the field  *)
(* s (statements) or e (expressions).  Expressions become descriptors      *)
(* (tag d) that are discharged into registers later.  Instructions are     *)
(* records tagged op; instruction indices start at 0 as in the code.       *)
(***************************************************************************)
EXTENDS Constants, RegisterAllocator, Opcodes, SequencesExt

CONSTANTS FieldsPerFlush,   \* FIELDS_PER_FLUSH: array fields per SetList (32)
          JumpLimit         \* the largest offset of a jump: i16::MAX

R(c, x) == [c |-> c, x |-> x]

Cur(c)     == Last(c.fs)
Put(c, f)  == [c EXCEPT !.fs[Len(c.fs)] = f]
Fail(c, e) == IF c.err = "" THEN [c EXCEPT !.err = e] ELSE c
Failed(c)  == c.err # ""
Check(c, ok, e) == IF ok THEN c ELSE Fail(c, e)

Here(c)     == Len(Cur(c).operations)
Top(c)      == Cur(c).regs.stackTop
Emit(c, o)  == Put(c, [Cur(c) EXCEPT !.operations = Append(@, o)])

\* An RCIndex: a register or a constant.
Reg(r)  == [k |-> "R", i |-> r]
Con(i)  == [k |-> "C", i |-> i]

-----------------------------------------------------------------------------
(* Registers *)

Take(c, p) ==
  IF p.r = NoRegister THEN R(Fail(c, "Registers"), 0)
  ELSE R(Put(c, [Cur(c) EXCEPT !.regs = p.a]), p.r)
AllocateReg(c)    == Take(c, Allocate(Cur(c).regs))
PushRegs(c, n)    == Take(c, Push(Cur(c).regs, n))
FreeReg(c, r)     == Put(Check(c, r \in Cur(c).regs.registers, "panic: free"),
                         [Cur(c) EXCEPT !.regs = Free(@, r)])
FreeIf(c, b, r)   == IF b THEN FreeReg(c, r) ELSE c
PopRegs(c, top)   == Put(c, [Cur(c) EXCEPT !.regs = PopTo(@, top)])

\* ExprDestination
Register(r) == [k |-> "Register", r |-> r]
AllocateNew == [k |-> "AllocateNew"]
PushNew     == [k |-> "PushNew"]

NewDestination(c, dest) ==
  CASE dest.k = "Register"    -> R(c, dest.r)
    [] dest.k = "AllocateNew" -> AllocateReg(c)
    [] dest.k = "PushNew"     -> PushRegs(c, 1)

NewLocal(c, n, r, attr) ==
  Put(c, [Cur(c) EXCEPT !.locals = Append(@, [n |-> n, r |-> r, attr |-> attr])])

-----------------------------------------------------------------------------
(* Descriptors *)

Local(r)     == [d |-> "Local", r |-> r, attr |-> "none"]
Constant(v)  == [d |-> "Constant", v |-> v]
Closure(p)   == [d |-> "Closure", p |-> p]
Field(t, k)  == [d |-> "TableField", t |-> t, k |-> k]

\* get_constant: constants are shared when they are bit for bit identical.
GetConstant(c, v) ==
  LET cs == Cur(c).constants
  IN  IF \E i \in DOMAIN cs : cs[i] = v
      THEN R(c, (CHOOSE i \in DOMAIN cs : cs[i] = v) - 1)
      ELSE R(Put(c, [Cur(c) EXCEPT !.constants = Append(@, v)]), Len(cs))

\* The block of a function that a register belongs to.
OwningBlock(f, r) == Max({b \in DOMAIN f.blocks : f.blocks[b].stackBottom <= r})

\* find_variable: the innermost function that knows the name, as a local or
\* as an upvalue.  Functions in between inherit it as an upvalue of the one
\* above.  Only a capture of a local keeps the attributes of the variable.
FindVariable(c, name) ==
  LET n == Len(c.fs)
      LocalsAt(i) == {j \in DOMAIN c.fs[i].locals : c.fs[i].locals[j].n = name}
      UpsAt(i)    == {j \in DOMAIN c.fs[i].upvalues : c.fs[i].upvalues[j].n = name}
      implicit    == name = "_ENV" /\ c.fs[1].upvalues = <<>>
      found == {i \in 1 .. n : LocalsAt(i) # {} \/ UpsAt(i) # {} \/ (i = 1 /\ implicit)}
      i     == Max(found)
      Inherit(cc, k, desc) ==
        [cc EXCEPT !.fs = [j \in 1 .. n |->
            IF j < k THEN @[j]
            ELSE [@[j] EXCEPT !.upvalues = Append(@,
                   [n |-> name,
                    u |-> IF j = k THEN desc
                          ELSE [k |-> "Outer", i |-> Len(cc.fs[j - 1].upvalues)]])]]]
      Upvalue(cc, attr) ==
        R(Check(cc, Len(Cur(cc).upvalues) <= Byte, "UpValues"),
          [d |-> "UpValue", i |-> Len(Cur(cc).upvalues) - 1, attr |-> attr])
  IN  IF found = {} THEN R(c, [d |-> "Global", n |-> name])
      ELSE IF LocalsAt(i) # {}
      THEN LET l  == c.fs[i].locals[Max(LocalsAt(i))]
               parameter == \A b \in DOMAIN c.fs[i].blocks : c.fs[i].blocks[b].stackBottom > l.r
               cc == IF parameter THEN c
                     ELSE [c EXCEPT !.fs[i].blocks[OwningBlock(c.fs[i], l.r)].ownsUpvalues = TRUE]
           IN  IF i = n THEN R(c, [d |-> "Local", r |-> l.r, attr |-> l.attr])
               ELSE Upvalue(Inherit(cc, i + 1, [k |-> "ParentLocal", i |-> l.r]), l.attr)
      ELSE LET cc == IF UpsAt(i) # {} THEN c
                     ELSE [c EXCEPT !.fs[1].upvalues = <<[n |-> name, u |-> [k |-> "Environment", i |-> 0]]>>]
               j  == IF UpsAt(i) # {} THEN Min(UpsAt(i)) - 1 ELSE 0
           IN  IF i = n THEN R(cc, [d |-> "UpValue", i |-> j, attr |-> "none"])
               ELSE Upvalue(Inherit(cc, i + 1, [k |-> "Outer", i |-> j]), "none")

GetEnvironment(c) == FindVariable(c, "_ENV")

-----------------------------------------------------------------------------
(* Jumps and blocks *)

JumpOffset(source, target) == target - (source + 1)
OffsetFits(source, target) == Abs(JumpOffset(source, target)) <= JumpLimit
CloseAt(c, top) == Check(c, top < Byte - 1, "Registers")

JumpOp(offset, close) == [op |-> "Jump", offset |-> offset, close |-> close]

UniqueLabel(c) ==
  R(Put(c, [Cur(c) EXCEPT !.jumpId = @ + 1]), [l |-> "Unique", i |-> Cur(c).jumpId])
Named(n) == [l |-> "Named", n |-> n]
Break    == [l |-> "Break"]

\* jump: to the innermost label of that name, or a placeholder that waits for
\* one.  A backward jump closes upvalues when a block it leaves is known to
\* own some.
Jump(c, label) ==
  LET f  == Cur(c)
      ts == {j \in DOMAIN f.targets : f.targets[j].label = label}
      t  == f.targets[Max(ts)]
      closes == /\ t.stackTop < Top(c)
                /\ \E b \in t.block .. Len(f.blocks) : f.blocks[b].ownsUpvalues
  IN  IF ts # {}
      THEN LET c1 == Check(Check(c, t.stackTop <= Top(c), "panic: jump"),
                           OffsetFits(Here(c), t.instruction), "JumpOverflow")
               c2 == IF closes THEN CloseAt(c1, t.stackTop) ELSE c1
           IN  Emit(c2, JumpOp(JumpOffset(Here(c), t.instruction),
                               IF closes THEN t.stackTop ELSE NoClose))
      ELSE Put(c, [f EXCEPT
             !.operations = Append(@, JumpOp(0, NoClose)),
             !.pending = Append(@, [label |-> label, instruction |-> Here(c), block |-> Len(f.blocks),
                                    stackTop |-> Top(c), close |-> FALSE])])

\* Mutant: a jump may enter a scope.
NeverEnters(p, top) == FALSE
\* A jump from stack top p to one that is higher enters the scope of a local.
EntersScope(p, top) == p < top

\* jump_target: a label here.  It resolves the jumps that wait for it in this
\* block, none of which may enter the scope of a local.
JumpTarget(c, label) ==
  LET f    == Cur(c)
      dup  == \E j \in DOMAIN f.targets : /\ f.targets[j].label = label
                                          /\ f.targets[j].block >= Len(f.blocks)
      Hit(p) == p.block = Len(f.blocks) /\ p.label = label
      hits == {j \in DOMAIN f.pending : Hit(f.pending[j])}
      P(k) == CHOOSE j \in hits : f.pending[j].instruction = k - 1
      ops  == [k \in DOMAIN f.operations |->
                 IF \E j \in hits : f.pending[j].instruction = k - 1
                 THEN JumpOp(JumpOffset(k - 1, Here(c)),
                             IF f.pending[P(k)].close THEN Top(c) ELSE NoClose)
                 ELSE f.operations[k]]
      c1 == Check(c, ~ dup, "DuplicateLabel")
      c2 == Check(c1, \A j \in hits : f.pending[j].stackTop <= Top(c), "panic: pending jump")
      c3 == Check(c2, \A j \in hits : ~ EntersScope(f.pending[j].stackTop, Top(c)), "JumpLocal")
      c4 == Check(c3, \A j \in hits : OffsetFits(f.pending[j].instruction, Here(c)), "JumpOverflow")
      c5 == IF \E j \in hits : f.pending[j].close THEN CloseAt(c4, Top(c)) ELSE c4
  IN  IF Failed(c) THEN c ELSE Put(c5, [f EXCEPT
        !.operations = ops,
        !.pending    = SelectSeq(@, LAMBDA p : ~ Hit(p)),
        !.targets    = Append(@, [label |-> label, instruction |-> Here(c), stackTop |-> Top(c),
                                  block |-> Len(f.blocks)])])

EnterBlock(c) ==
  Put(c, [Cur(c) EXCEPT !.blocks = Append(@, [stackBottom |-> Top(c),
                                              bottomTarget |-> Len(Cur(c).targets),
                                              ownsUpvalues |-> FALSE])])

RECURSIVE FreeLocals(_, _)
FreeLocals(c, bottom) ==
  LET ls == Cur(c).locals
  IN  IF ls = <<>> \/ Last(ls).r < bottom THEN c
      ELSE FreeLocals(FreeReg(Put(c, [Cur(c) EXCEPT !.locals = Front(@)]), Last(ls).r), bottom)

\* Whether a jump that leaves block b closes upvalues.
MustClose(close, b) == close \/ b.ownsUpvalues

\* exit_block: free the block's locals, forget its labels, close its upvalues
\* and move the jumps that still wait one block outwards.
ExitBlock(c) ==
  LET b  == Last(Cur(c).blocks)
      c1 == FreeLocals(Put(c, [Cur(c) EXCEPT !.blocks = Front(@),
                                             !.targets = SubSeq(@, 1, b.bottomTarget)]),
                       b.stackBottom)
      inner == Cur(c1).blocks # <<>>
      c2 == IF b.ownsUpvalues /\ inner
            THEN Emit(CloseAt(c1, b.stackBottom), JumpOp(0, b.stackBottom)) ELSE c1
      n  == Len(Cur(c2).blocks)
      c3 == Check(c2, \A j \in DOMAIN Cur(c2).pending :
                        Cur(c2).pending[j].block > n => Cur(c2).pending[j].stackTop >= Top(c2),
                  "panic: pending jump")
  IN  IF Failed(c) \/ ~ inner THEN c1
      ELSE Put(c3, [Cur(c3) EXCEPT !.pending =
             [j \in DOMAIN @ |->
                IF @[j].block <= n THEN @[j]
                ELSE [@[j] EXCEPT !.block = n, !.stackTop = Top(c3),
                                  !.close = MustClose(@, b)]]])

=============================================================================
