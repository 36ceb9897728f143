----------------------------- MODULE LuaValues -----------------------------
(***************************************************************************)
(* Lua values (src/crates/phodopus/src/value.rs).                          *)
(*                                                                         *)
(* Integers have the width IntBits (64 in the code) and wrap.  A float is  *)
(* either one that holds an integer or an opaque term, the result of an    *)
(* operation whose rounding no property depends on.  A string is a         *)
(* sequence of atoms; it is numeric when it is one numeral.                *)
(***************************************************************************)
EXTENDS Integers, Sequences

CONSTANT IntBits

\* The powers of two that a width needs are positive, which no prover knows of ^.
ASSUME WidthAssumption == IntBits \in Nat \ {0} /\ \A i \in 0 .. IntBits : 2 ^ i > 0

Nil        == [t |-> "nil"]
Boolean(b) == [t |-> "bool", b |-> b]
Integer(i) == [t |-> "int", n |-> i]
Number(i)  == [t |-> "num", n |-> i]
String(s)  == [t |-> "str", s |-> s]
Table(i)   == [t |-> "table", ref |-> i]
Name(n)    == String(<<n>>)

\* The absence of a result (Rust's None), and a panic of the compiler.
None  == [t |-> "none"]
Panic == [t |-> "panic"]

\* Sequences of values: what is missing is nil.
Argument(args, i) == IF i <= Len(args) THEN args[i] ELSE Nil
Resize(s, n)      == [i \in 1 .. n |-> Argument(s, i)]
Truncate(s, n)    == SubSeq(s, 1, n)

\* F of a value that TLC computes first, and once: operators that carry a whole
\* state nest deeply.
With(value, F(_)) == CHOOSE r \in {F(x) : x \in {value}} : TRUE

\* A left fold over a sequence, SequencesExt!FoldLeft.
InOrder(op(_, _), base, seq) ==
  LET acc[i \in 0 .. Len(seq)] ==
        IF i = 0 THEN base ELSE With(acc[i - 1], LAMBDA a : op(a, seq[i]))
  IN  acc[Len(seq)]

MaxInt == 2 ^ (IntBits - 1) - 1
MinInt == - MaxInt - 1
Wrap(i) == ((i - MinInt) % (2 ^ IntBits)) + MinInt

IsInt(v)    == v.t = "int"
IsNumber(v) == v.t \in {"int", "num", "opaque"}

\* Constant::to_bool, Value::to_bool
ToBool(v) == ~ (v = Nil \/ v = Boolean(FALSE))

=============================================================================
