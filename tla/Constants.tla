----------------------------- MODULE Constants -----------------------------
(***************************************************************************)
(* The operations on constants that the compiler folds with and the        *)
(* interpreter falls back to (src/crates/phodopus/src/constant.rs,         *)
(* compiler/operators.rs).                                                 *)
(***************************************************************************)
EXTENDS LuaValues, Bitwise, TLC

\* Constant::to_numeric, to_number (an integer is converted to a float) and
\* to_integer (a float only when it holds an integer).
ToNumeric(v) ==
  IF IsNumber(v) THEN v
  ELSE IF v.t = "str" /\ \E i \in MinInt .. MaxInt : v.s = <<ToString(i)>>
  THEN Integer(CHOOSE i \in MinInt .. MaxInt : v.s = <<ToString(i)>>)
  ELSE None

ToNumber(v) == LET n == ToNumeric(v) IN IF IsInt(n) THEN Number(n.n) ELSE n

ToInteger(v) ==
  LET n == ToNumeric(v) IN IF n.t \in {"int", "num"} THEN Integer(n.n) ELSE None

\* Float arithmetic: exact on integral floats, opaque otherwise.
FloatOp(op, a, b) ==
  CASE a = None \/ b = None                             -> None
    [] a.t = "num" /\ b.t = "num" /\ op = "Add"         -> Number(a.n + b.n)
    [] a.t = "num" /\ b.t = "num" /\ op = "Sub"         -> Number(a.n - b.n)
    [] a.t = "num" /\ b.t = "num" /\ op = "Mul"         -> Number(a.n * b.n)
    [] OTHER                                            -> [t |-> "opaque", o |-> op, l |-> a, r |-> b]

\* Rust's integer division and remainder round towards zero.
Abs(i) == IF i < 0 THEN - i ELSE i
Quot(a, b) == IF (a < 0) = (b < 0) THEN Abs(a) \div Abs(b) ELSE - (Abs(a) \div Abs(b))
Rem(a, b) == a - b * Quot(a, b)

Unsigned(i) == i % (2 ^ IntBits)
BitOp(op, a, b) ==
  LET x == Unsigned(a) y == Unsigned(b)
  IN  Wrap(CASE op = "BitAnd" -> x & y
             [] op = "BitOr"  -> x | y
             [] op = "BitXor" -> x ^^ y
             [] op = "ShiftLeft"  -> IF b >= IntBits THEN 0 ELSE x * 2 ^ b
             [] op = "ShiftRight" -> IF b >= IntBits THEN 0 ELSE x \div 2 ^ b)

\* Constant::floor_divide and Constant::modulo on two integers, b # 0.  The
\* remainder of the smallest integer by -1 overflows, which panics in every
\* build; the addition wraps.
ConstFloorDivide(a, b) ==
  LET r == Rem(a, b)
  IN  Wrap(Quot(a, b) - IF (r > 0 /\ b < 0) \/ (r < 0 /\ b > 0) THEN 1 ELSE 0)

ConstModulo(a, b) ==
  IF a = MinInt /\ b = -1 THEN Panic ELSE Integer(Rem(Wrap(Rem(a, b) + b), b))

Bitwise2 == {"BitAnd", "BitOr", "BitXor", "ShiftLeft", "ShiftRight"}

\* The binary methods of Constant.
ConstOp(op, a, b) ==
  CASE op \in Bitwise2 ->
         LET x == ToInteger(a) y == ToInteger(b)
         IN  IF x = None \/ y = None \/ (op \in {"ShiftLeft", "ShiftRight"} /\ y.n < 0)
             THEN None ELSE Integer(BitOp(op, x.n, y.n))
    [] op \notin Bitwise2 /\ IsInt(a) /\ IsInt(b) /\ op \notin {"Div", "Pow"} ->
         (CASE op = "Add" -> Integer(Wrap(a.n + b.n))
            [] op = "Sub" -> Integer(Wrap(a.n - b.n))
            [] op = "Mul" -> Integer(Wrap(a.n * b.n))
            [] op = "IDiv" -> IF b.n = 0 THEN None ELSE Integer(ConstFloorDivide(a.n, b.n))
            [] op = "Mod"  -> IF b.n = 0 THEN None ELSE ConstModulo(a.n, b.n))
    [] OTHER -> FloatOp(op, ToNumber(a), ToNumber(b))

\* Constant::negate, not, bitwise_not.
ConstUnary(op, a) ==
  CASE op = "Not" -> Boolean(~ ToBool(a))
    [] op = "Minus"  -> IF IsInt(a) THEN Integer(Wrap(- a.n)) ELSE FloatOp("Sub", Number(0), ToNumber(a))
    [] op = "BitNot" -> IF ToInteger(a) = None THEN None ELSE Integer(- ToInteger(a).n - 1)
    [] OTHER -> None

\* Constant::is_equal: an integer equals the float that holds it.
ConstEqual(a, b) ==
  IF {a.t, b.t} \subseteq {"int", "num"} THEN a.n = b.n ELSE a = b

\* The order of two strings: byte order, here the order of the atoms.
Atoms == <<"a", "b", "c">>
Rank(x) == CHOOSE i \in 0 .. Len(Atoms) : IF i = 0 THEN \A j \in 1 .. Len(Atoms) : Atoms[j] # x
                                          ELSE Atoms[i] = x
StringLess(s, u) ==
  \E n \in 0 .. Len(s) :
    /\ n <= Len(u) /\ SubSeq(s, 1, n) = SubSeq(u, 1, n)
    /\ IF n = Len(s) THEN n < Len(u) ELSE n < Len(u) /\ Rank(s[n + 1]) < Rank(u[n + 1])

\* Constant::less_than and less_equal; None when the types do not compare.
ConstLess(a, b) ==
  CASE {a.t, b.t} \subseteq {"int", "num"} -> Boolean(a.n < b.n)
    [] a.t = "str" /\ b.t = "str" -> Boolean(StringLess(a.s, b.s))
    [] OTHER -> None
ConstLessEq(a, b) ==
  CASE {a.t, b.t} \subseteq {"int", "num"} -> Boolean(a.n <= b.n)
    [] a.t = "str" /\ b.t = "str" -> Boolean(~ StringLess(b.s, a.s))
    [] OTHER -> None

\* categorize_binop: the operators the compiler treats alike.
SimpleOps == {"Add", "Sub", "Mul", "Mod", "Pow", "Div", "IDiv"} \cup Bitwise2
ComparisonOps == {"NotEqual", "Equal", "LessThan", "LessEqual", "GreaterThan", "GreaterEqual"}
ShortCircuitOps == {"And", "Or"}

\* simple_binop_const_fold: bitwise operators are not folded.
FoldSimple(op, a, b) == IF op \in Bitwise2 THEN None ELSE ConstOp(op, a, b)

\* comparison_binop_const_fold
FoldComparison(op, a, b) ==
  CASE op = "Equal"        -> Boolean(ConstEqual(a, b))
    [] op = "NotEqual"     -> Boolean(~ ConstEqual(a, b))
    [] op = "LessThan"     -> ConstLess(a, b)
    [] op = "LessEqual"    -> ConstLessEq(a, b)
    [] op = "GreaterThan"  -> ConstLess(b, a)
    [] op = "GreaterEqual" -> ConstLessEq(b, a)

\* unop_const_fold: a length is not folded.
FoldUnary(op, a) == IF op = "Len" THEN None ELSE ConstUnary(op, a)

=============================================================================
