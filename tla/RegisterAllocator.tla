------------------------- MODULE RegisterAllocator -------------------------
(***************************************************************************)
(* The register allocator of the compiler                                  *)
(* (src/crates/phodopus/src/compiler/register_allocator.rs): a u8-indexed  *)
(* register file with a first free register, a stack top and the high      *)
(* water mark that becomes the frame size of the compiled function.        *)
(*                                                                         *)
(* The allocator is a value, because the compiler owns one per function;   *)
(* its operations are operators from an allocator to the next one.         *)
(***************************************************************************)
EXTENDS Integers, FiniteSetsExt

CONSTANT Byte        \* the number of values of a u8: 256 in the code

ASSUME ByteAssumption == Byte \in Nat \ {0}

\* What `allocate` and `push` return when no register is left.
NoRegister == -1

\* RegisterAllocator::default
EmptyAllocator == [registers |-> {}, firstFree |-> 0, stackTop |-> 0, stackSize |-> 0]

\* RegisterAllocator::allocate: the first free register, wherever it is.
Allocate(a) ==
  IF a.firstFree < Byte
  THEN LET used == a.registers \cup {a.firstFree}
           top  == IF a.firstFree = a.stackTop THEN a.stackTop + 1 ELSE a.stackTop
       IN  [a |-> [registers |-> used,
                   firstFree |-> Min({i \in a.firstFree .. Byte : i = Byte \/ i \notin used}),
                   stackTop  |-> top,
                   stackSize |-> Max({a.stackSize, top})],
            r |-> a.firstFree]
  ELSE [a |-> a, r |-> NoRegister]

\* RegisterAllocator::push: `size` registers at the end of the allocated area.
\* The end of the marked range is computed in a u8, so a block that ends with
\* the last register of the file wraps to an empty range (a build with
\* overflow checks panics there instead).
Push(a, size) ==
  IF size = 0 \/ size > Byte - a.stackTop
  THEN [a |-> a, r |-> NoRegister]
  ELSE [a |-> [registers |-> a.registers \cup
                               {i \in 0 .. (Byte - 1) :
                                  i >= a.stackTop /\ i < (a.stackTop + size) % Byte},
               firstFree |-> IF a.firstFree = a.stackTop
                             THEN a.firstFree + size ELSE a.firstFree,
               stackTop  |-> a.stackTop + size,
               stackSize |-> Max({a.stackSize, a.stackTop + size})],
        r |-> a.stackTop]

\* RegisterAllocator::pop_to: free everything from newTop up, then let the top
\* fall over the registers that were already free.
PopTo(a, newTop) ==
  IF a.stackTop <= newTop THEN a
  ELSE LET used  == {i \in a.registers : i < newTop}
           first == Min({a.firstFree, newTop})
       IN  [a EXCEPT !.registers = used,
                     !.firstFree = first,
                     !.stackTop  = Max({first} \cup {i + 1 : i \in {j \in used : j >= first}})]

\* RegisterAllocator::free; the code asserts r \in a.registers.
Free(a, r) ==
  IF r + 1 = a.stackTop THEN PopTo(a, r)
  ELSE [a EXCEPT !.registers = @ \ {r}, !.firstFree = Min({@, r})]

=============================================================================
