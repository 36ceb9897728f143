------------------------------ MODULE Opcodes ------------------------------
(***************************************************************************)
(* The encoding of instructions (src/crates/phodopus/src/opcode.rs).  An   *)
(* instruction whose operands are a register or a constant is stored as    *)
(* one variant per combination, with bare indices; decoding restores which *)
(* of the two an index is from the variant alone.                          *)
(***************************************************************************)
EXTENDS Integers, Sequences

\* VarCount: a number of values or Variable.  NoClose is the absent
\* close_upvalues of a Jump (both are an Opt254 in the code).
Variable == -1
NoClose  == -1

ArithmeticOps == {"Add", "Sub", "Mul", "Div", "IDiv", "Mod", "Pow", "BitAnd", "BitOr", "BitXor",
                  "ShiftLeft", "ShiftRight"}
CompareOps    == {"Eq", "Less", "LessEq"}

\* Operation: the fields of type RCIndex, in the order of the variant's suffix.
RCFields(op) ==
  CASE op \in {"GetTable", "GetUpTable", "Method"} -> <<"key">>
    [] op \in {"SetTable", "SetUpTable"}           -> <<"key", "value">>
    [] op \in ArithmeticOps \cup CompareOps        -> <<"left", "right">>
    [] OTHER -> <<>>

IsRC(op, f) == \E i \in DOMAIN RCFields(op) : RCFields(op)[i] = f

\* OpCodeRepr: the variant is the operation with a letter per RCIndex field,
\* and its fields are those of the operation, each index without its kind.
Repr(op, suffix, fields) == [op |-> op, suffix |-> suffix, fields |-> fields]

\* OpCode::encode
Encode(o) ==
  Repr(o.op,
       [i \in DOMAIN RCFields(o.op) |-> o[RCFields(o.op)[i]].k],
       [f \in DOMAIN o \ {"op"} |-> IF IsRC(o.op, f) THEN o[f].i ELSE o[f]])

\* OpCode::decode
Decode(r) ==
  LET Suffix(f) == r.suffix[CHOOSE i \in DOMAIN r.suffix : RCFields(r.op)[i] = f]
  IN  [f \in DOMAIN r.fields \cup {"op"} |->
         CASE f = "op"      -> r.op
           [] IsRC(r.op, f) -> [k |-> Suffix(f), i |-> r.fields[f]]
           [] f # "op" /\ ~ IsRC(r.op, f) -> r.fields[f]]

=============================================================================
