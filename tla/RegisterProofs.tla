--------------------------- MODULE RegisterProofs ---------------------------
(***************************************************************************)
(* What becomes of registers: the compiler allocates them, closures        *)
(* capture them as upvalues, and calls and returns place them.             *)
(*                                                                         *)
(* The allocator, for a register file of any size: its fields repeat what  *)
(* its registers say, the first free one, the end of the used ones, the    *)
(* largest end there ever was.  Well says that they agree.  Every          *)
(* operation keeps that, except for a push whose block ends with the last  *)
(* register, where the sum of two u8 overflows; PushCorrect excludes that  *)
(* case and no other.                                                      *)
(*                                                                         *)
(* The open upvalues of a thread: the list that the code searches stays    *)
(* sorted (Captured), and so no search misses one.                         *)
(*                                                                         *)
(* The frames of a thread: every call gives its function the registers it  *)
(* asks for, filled as Lua's manual says, and every return gives the frame *)
(* below its own registers back.                                           *)
(***************************************************************************)
EXTENDS RegisterAllocator, UpValues, Frames, FiniteSetTheorems, SequenceTheorems, WellFoundedInduction, TLAPS

Register == 0 .. Byte - 1

\* The first free register f, the end t of the registers in use and the stack
\* size z agree with the registers s in use.
Agree(s, f, t, z) ==
    /\ s \in SUBSET Register /\ f \in 0 .. Byte /\ t \in 0 .. Byte /\ z \in 0 .. Byte
    /\ \A i \in Register : i < f => i \in s
    /\ f \notin s
    /\ \A i \in s : i < t
    /\ t > 0 => t - 1 \in s
    /\ t <= z

Well(a) == \E s, f, t, z : /\ Agree(s, f, t, z)
                           /\ a = [registers |-> s, firstFree |-> f, stackTop |-> t, stackSize |-> z]

-----------------------------------------------------------------------------
(* Least and greatest members *)

(* A set of natural numbers that is not empty has a least member, which Min chooses. *)
LEMMA MinIs ==
  ASSUME NEW S \in SUBSET Nat, S # {}
  PROVE  Min(S) \in S /\ \A y \in S : Min(S) <= y
<1>1. PICK R : IsWellFoundedOn(R, Nat) /\ \A x, y \in Nat : x < y => <<x, y>> \in R
  <2>1. \A x, y \in Nat : x < y => <<x, y>> \in OpToRel(<, Nat)
    BY DEF OpToRel
  <2>2. IsWellFoundedOn(OpToRel(<, Nat), Nat)
    BY NatLessThanWellFounded, Zenon
  <2> WITNESS OpToRel(<, Nat)
  <2> QED BY <2>1, <2>2, Zenon
<1>2. PICK x \in S : \A y \in S : ~ (<<y, x>> \in R)
  <2>1. S \subseteq Nat /\ S # {} /\ IsWellFoundedOn(R, Nat)
    BY <1>1, Zenon
  <2> QED BY ONLY <2>1, WFMin, Zenon
<1>3. \A y \in S : ~ (y < x)
  <2>1. \A y \in S : y \in Nat
    OBVIOUS
  <2> QED BY <1>1, <1>2, <2>1, Zenon
<1>4. \A y \in S : x <= y
  BY <1>3
<1> QED BY <1>4 DEF Min

(* The larger and the smaller of two numbers *)
LEMMA OfTwo ==
  ASSUME NEW m \in Int, NEW n \in Int
  PROVE  /\ Max({m, n}) = IF m >= n THEN m ELSE n
         /\ Min({m, n}) = IF m <= n THEN m ELSE n
<1>1. ASSUME NEW x \in {m, n}, \A y \in {m, n} : x >= y PROVE Max({m, n}) = x
  BY <1>1 DEF Max
<1>2. ASSUME NEW x \in {m, n}, \A y \in {m, n} : x <= y PROVE Min({m, n}) = x
  BY <1>2 DEF Min
<1>3. Max({m, n}) = IF m >= n THEN m ELSE n
  BY <1>1
<1>4. Min({m, n}) = IF m <= n THEN m ELSE n
  BY <1>2
<1> QED BY <1>3, <1>4

(* A set of numbers up to a bound has a greatest member, which Max chooses. *)
LEMMA MaxIs ==
  ASSUME NEW b \in Nat, NEW S \in SUBSET (0 .. b), S # {}
  PROVE  Max(S) \in S /\ \A y \in S : y <= Max(S)
<1> DEFINE T == {b - y : y \in S}
<1>1. T \in SUBSET Nat /\ T # {}
  OBVIOUS
<1>2. Min(T) \in T /\ \A z \in T : Min(T) <= z
  BY <1>1, MinIs
<1>3. PICK x \in S : Min(T) = b - x
  BY <1>2
<1>4. \A y \in S : b - x <= b - y
  BY <1>2, <1>3
<1>5. \A y \in S : x >= y
  BY <1>4
<1> QED BY <1>5 DEF Max

-----------------------------------------------------------------------------
(* The allocator *)

(* A new allocator has all registers free. *)
THEOREM DefaultCorrect == Well(EmptyAllocator) /\ EmptyAllocator.registers = {}
<1>1. Agree({}, 0, 0, 0)
  BY ByteAssumption DEF Agree, Register
<1> QED BY <1>1 DEF Well, EmptyAllocator

(* The arithmetic of what agrees: Register spelled out *)
LEMMA AgreeFacts ==
  ASSUME NEW s, NEW f, NEW t, NEW z, Agree(s, f, t, z)
  PROVE  /\ Byte \in Nat /\ f \in Nat /\ t \in Nat /\ z \in Nat
         /\ f <= t /\ t <= z /\ z <= Byte /\ f \notin s
         /\ \A i \in s : i \in Nat /\ i < t
         /\ \A i \in Nat : i < f => i \in s
         /\ t > 0 => t - 1 \in s
<1>1. /\ Byte \in Nat /\ f \in Nat /\ t \in Nat /\ z \in Nat /\ t <= z /\ z <= Byte /\ f <= Byte
      /\ f \notin s /\ (t > 0 => t - 1 \in s)
  BY ByteAssumption DEF Agree
<1>2. \A i \in s : i \in Nat /\ i < t
  BY <1>1 DEF Agree, Register
<1>3. \A i \in Nat : i < f => i \in s
  BY <1>1 DEF Agree, Register
<1>4. f <= t
  <2> SUFFICES ASSUME t < f PROVE FALSE
    BY <1>1
  <2>1. t \in s
    BY <1>1, <1>3
  <2> QED BY <1>1, <1>2, <2>1
<1> QED BY <1>1, <1>2, <1>3, <1>4

(* allocate returns the first register that is free, and fails only if none is. *)
THEOREM AllocateCorrect ==
  ASSUME NEW a, Well(a)
  PROVE  LET n == Allocate(a) IN
         /\ Well(n.a)
         /\ IF a.registers = Register
            THEN n.r = NoRegister /\ n.a = a
            ELSE /\ n.r \in Register \ a.registers
                 /\ \A i \in Register \ a.registers : n.r <= i
                 /\ n.a.registers = a.registers \cup {n.r}
                 /\ n.r < n.a.stackSize /\ a.stackSize <= n.a.stackSize
<1>1. PICK s, f, t, z : /\ Agree(s, f, t, z)
                        /\ a = [registers |-> s, firstFree |-> f, stackTop |-> t, stackSize |-> z]
  BY DEF Well
<1>2. a.registers = s /\ a.firstFree = f /\ a.stackTop = t /\ a.stackSize = z
  BY <1>1
<1>3. /\ Byte \in Nat /\ f \in Nat /\ t \in Nat /\ z \in Nat
      /\ f <= t /\ t <= z /\ z <= Byte /\ f \notin s
      /\ \A i \in s : i \in Nat /\ i < t
      /\ \A i \in Nat : i < f => i \in s
      /\ t > 0 => t - 1 \in s
  BY <1>1, AgreeFacts
<1>4. CASE f = Byte
  <2>1. s \subseteq Register
    BY <1>1 DEF Agree
  <2>2. Register \subseteq s
    BY <1>3, <1>4 DEF Register
  <2>3. Allocate(a) = [a |-> a, r |-> NoRegister]
    BY <1>2, <1>3, <1>4 DEF Allocate
  <2> QED BY <1>2, <2>1, <2>2, <2>3
<1>5. CASE f # Byte
  <2> DEFINE used == s \cup {f}
             top == IF f = t THEN t + 1 ELSE t
             rest == {i \in f .. Byte : i = Byte \/ i \notin used}
             size == IF z >= top THEN z ELSE top
             n == [registers |-> used, firstFree |-> Min(rest), stackTop |-> top, stackSize |-> size]
  <2>1. f < Byte /\ f \in Register
    BY <1>3, <1>5 DEF Register
  <2>2. top \in Nat /\ top <= Byte /\ f < top /\ t <= top
    BY <1>3, <2>1
  <2>3. rest \in SUBSET Nat /\ rest # {}
    <3>1. Byte \in rest
      BY <1>3
    <3> QED BY <1>3, <3>1
  <2>4. Min(rest) \in rest /\ \A y \in rest : Min(rest) <= y
    BY <2>3, MinIs
  <2>5. Max({z, top}) = size
    BY <1>3, <2>2, OfTwo
  <2>6. Allocate(a) = [a |-> n, r |-> f]
    BY <1>2, <2>1, <2>5 DEF Allocate
  <2>7. PICK m : m = Min(rest) /\ m \in f .. Byte /\ (m = Byte \/ m \notin used)
    BY <2>4
  <2>8. \A i \in Nat : i < m => i \in used
    <3> SUFFICES ASSUME NEW i \in Nat, i < m, i \notin used PROVE FALSE
      OBVIOUS
    <3>1. i >= f
      BY <1>3
    <3>2. i \in rest
      BY <1>3, <2>7, <3>1
    <3> QED BY <1>3, <2>4, <2>7, <3>2
  <2>9. m \notin used
    <3>1. Byte \notin used
      BY <1>3, <2>1
    <3> QED BY <2>7, <3>1
  <2>10. \A i \in used : i < top
    BY <1>3, <2>2
  <2>11. top > 0 => top - 1 \in used
    BY <1>3
  <2>12. used \subseteq Register
    BY <1>1, <2>1 DEF Agree
  <2>13. size \in Nat /\ top <= size /\ size <= Byte /\ z <= size /\ f < size
    BY <1>3, <2>2
  <2>14. Agree(used, m, top, size)
    <3> HIDE DEF used, top, size
    <3>1. used \in SUBSET Register /\ m \in 0 .. Byte /\ top \in 0 .. Byte /\ size \in 0 .. Byte
      BY <1>3, <2>2, <2>7, <2>12, <2>13
    <3>2. \A i \in Register : i < m => i \in used
      BY <1>3, <2>8 DEF Register
    <3> QED BY <3>1, <3>2, <2>9, <2>10, <2>11, <2>13 DEF Agree
  <2>15. Well(n)
    BY <2>7, <2>14 DEF Well
  <2>16. f \in Register \ s /\ s # Register
    BY <1>3, <2>1
  <2>17. \A i \in Register \ s : f <= i
    BY <1>3 DEF Register
  <2>18. n.registers = used /\ n.stackSize = size
    OBVIOUS
  <2> HIDE DEF n, size
  <2> QED BY <1>2, <2>6, <2>13, <2>15, <2>16, <2>17, <2>18
<1> QED BY <1>4, <1>5

(* push returns a block behind all registers in use, and fails only if there is no room. *)
THEOREM PushCorrect ==
  ASSUME NEW a, Well(a), NEW size \in 1 .. Byte - 1, a.stackTop + size # Byte
  PROVE  LET n == Push(a, size)
             block == n.r .. n.r + size - 1
         IN  /\ Well(n.a)
             /\ IF a.stackTop + size > Byte
                THEN n.r = NoRegister /\ n.a = a
                ELSE /\ block \subseteq Register
                     /\ \A i \in a.registers : \A j \in block : i < j
                     /\ n.a.registers = a.registers \cup block
                     /\ n.r + size <= n.a.stackSize /\ a.stackSize <= n.a.stackSize
<1>1. PICK s, f, t, z : /\ Agree(s, f, t, z)
                        /\ a = [registers |-> s, firstFree |-> f, stackTop |-> t, stackSize |-> z]
  BY DEF Well
<1>2. a.registers = s /\ a.firstFree = f /\ a.stackTop = t /\ a.stackSize = z
  BY <1>1
<1>3. /\ Byte \in Nat /\ f \in Nat /\ t \in Nat /\ z \in Nat
      /\ f <= t /\ t <= z /\ z <= Byte /\ f \notin s
      /\ \A i \in s : i \in Nat /\ i < t
      /\ \A i \in Nat : i < f => i \in s
      /\ t > 0 => t - 1 \in s
  BY <1>1, AgreeFacts
<1>4. CASE t + size > Byte
  <2>1. Push(a, size) = [a |-> a, r |-> NoRegister]
    BY <1>2, <1>3, <1>4 DEF Push
  <2> QED BY <1>2, <1>4, <2>1
<1>5. CASE t + size < Byte
  <2> DEFINE top == t + size
             block == t .. t + size - 1
             used == s \cup block
             first == IF f = t THEN f + size ELSE f
             high == IF z >= top THEN z ELSE top
             n == [registers |-> used, firstFree |-> first, stackTop |-> top, stackSize |-> high]
  <2>1. top \in Nat /\ top < Byte /\ t < top /\ top % Byte = top
    BY <1>3, <1>5
  <2>2. {i \in 0 .. (Byte - 1) : i >= t /\ i < (t + size) % Byte} = block
    BY <1>3, <2>1
  <2>3. Max({z, t + size}) = high
    BY <1>3, <2>1, OfTwo
  <2>4. ~(size = 0 \/ size > Byte - t)
    BY <1>3, <1>5
  <2>5. Push(a, size) = [a |-> n, r |-> t]
    BY <1>2, <2>2, <2>3, <2>4, Zenon DEF Push
  <2>6. block \subseteq Register
    BY <1>3, <2>1 DEF Register
  <2>7. first \in Nat /\ first <= top /\ first \notin used /\ \A i \in Nat : i < first => i \in used
    BY <1>3, <2>1
  <2>8. (\A i \in used : i < top) /\ top - 1 \in used
    BY <1>3, <2>1
  <2>9. high \in Nat /\ top <= high /\ z <= high /\ high <= Byte
    BY <1>3, <2>1
  <2>10. used \subseteq Register
    BY <1>1, <2>6 DEF Agree
  <2>11. Agree(used, first, top, high)
    <3> HIDE DEF used, first, top, high
    <3>1. used \in SUBSET Register /\ first \in 0 .. Byte /\ top \in 0 .. Byte /\ high \in 0 .. Byte
      BY <1>3, <2>1, <2>7, <2>9, <2>10
    <3>2. \A i \in Register : i < first => i \in used
      BY <1>3, <2>7 DEF Register
    <3> QED BY <3>1, <3>2, <2>7, <2>8, <2>9 DEF Agree
  <2>12. Well(n)
    BY <2>11 DEF Well
  <2>13. \A i \in s : \A j \in block : i < j
    BY <1>3
  <2>14. n.registers = used /\ n.stackSize = high
    OBVIOUS
  <2>15. ~(t + size > Byte) /\ t + size <= high
    BY <1>3, <1>5, <2>9
  <2> HIDE DEF n, high
  <2> QED BY <1>2, <2>5, <2>6, <2>9, <2>12, <2>13, <2>14, <2>15
<1> QED BY <1>2, <1>3, <1>4, <1>5

(* pop_to frees the registers from the new top on and no others. *)
THEOREM PopToCorrect ==
  ASSUME NEW a, Well(a), NEW newTop \in Nat
  PROVE  LET n == PopTo(a, newTop) IN
         /\ Well(n) /\ n.stackTop <= newTop /\ n.stackSize = a.stackSize
         /\ n.registers = {i \in a.registers : i < newTop}
<1>1. PICK s, f, t, z : /\ Agree(s, f, t, z)
                        /\ a = [registers |-> s, firstFree |-> f, stackTop |-> t, stackSize |-> z]
  BY DEF Well
<1>2. a.registers = s /\ a.firstFree = f /\ a.stackTop = t /\ a.stackSize = z
  BY <1>1
<1>3. /\ Byte \in Nat /\ f \in Nat /\ t \in Nat /\ z \in Nat
      /\ f <= t /\ t <= z /\ z <= Byte /\ f \notin s
      /\ \A i \in s : i \in Nat /\ i < t
      /\ \A i \in Nat : i < f => i \in s
      /\ t > 0 => t - 1 \in s
  BY <1>1, AgreeFacts
<1>4. CASE t <= newTop
  <2>1. PopTo(a, newTop) = a
    BY <1>2, <1>4 DEF PopTo
  <2>2. s = {i \in s : i < newTop}
    BY <1>3, <1>4
  <2> QED BY <1>2, <1>4, <2>1, <2>2
<1>5. CASE t > newTop
  <2> DEFINE used == {i \in s : i < newTop}
             first == Min({f, newTop})
             ends == {first} \cup {i + 1 : i \in {j \in used : j >= first}}
             n == [registers |-> used, firstFree |-> first, stackTop |-> Max(ends), stackSize |-> z]
  <2>1. first = IF f <= newTop THEN f ELSE newTop
    <3>1. f \in Int /\ newTop \in Int
      BY <1>3
    <3> QED BY ONLY <3>1, OfTwo
  <2>2. first \in Nat /\ first <= newTop /\ first <= f /\ newTop < Byte
    BY <1>3, <1>5, <2>1
  <2>3. PopTo(a, newTop) = n
    <3>1. ~(a.stackTop <= newTop)
      BY <1>2, <1>3, <1>5
    <3>2. PopTo(a, newTop) = [a EXCEPT !.registers = used, !.firstFree = first, !.stackTop = Max(ends)]
      BY <1>2, <3>1, Zenon DEF PopTo
    <3> HIDE DEF used, first, ends
    <3> QED BY <1>1, <3>2
  <2> HIDE DEF first
  <2>4. \A i \in used : i \in Nat /\ i + 1 \in 0 .. newTop
    BY <1>3
  <2>5. ends \in SUBSET (0 .. newTop) /\ ends # {}
    BY <2>2, <2>4
  <2>6. Max(ends) \in ends /\ \A y \in ends : y <= Max(ends)
    BY <2>5, MaxIs
  <2>7. PICK top \in 0 .. newTop : top = Max(ends)
    BY <2>5, <2>6
  <2>8. (\A i \in Nat : i < first => i \in used) /\ first \notin used
    BY <1>3, <2>1, <2>2
  <2>9. first <= top /\ \A i \in used : i >= first => i + 1 <= top
    BY <2>6, <2>7
  <2>10. \A i \in used : i < top
    <3>1. \A i \in used : i >= first => i < top
      BY <2>4, <2>7, <2>9
    <3>2. \A i \in used : i < first => i < top
      BY <2>2, <2>4, <2>7, <2>9
    <3> QED BY <2>2, <2>4, <3>1, <3>2
  <2>11. top > 0 => top - 1 \in used
    <3>1. CASE top = first
      BY <2>2, <2>8, <3>1
    <3>2. CASE top # first
      <4>1. PICK i \in used : top = i + 1
        BY <2>6, <2>7, <3>2
      <4> QED BY <2>4, <4>1
    <3> QED BY <3>1, <3>2
  <2>12. used \subseteq Register
    BY <1>1 DEF Agree
  <2> HIDE DEF used, ends
  <2>13. Agree(used, first, top, z)
    <3>1. used \in SUBSET Register /\ first \in 0 .. Byte /\ top \in 0 .. Byte /\ z \in 0 .. Byte
      BY <1>3, <2>2, <2>7, <2>12
    <3>2. \A i \in Register : i < first => i \in used
      BY <1>3, <2>8 DEF Register
    <3>3. top <= z
      BY <1>3, <1>5, <2>7
    <3> QED BY <3>1, <3>2, <3>3, <2>8, <2>10, <2>11 DEF Agree
  <2>14. Well(n)
    BY <2>7, <2>13 DEF Well
  <2>15. n.registers = used /\ n.stackTop = top /\ n.stackSize = z /\ top <= newTop
    BY <2>7
  <2> HIDE DEF n
  <2> QED BY <1>2, <2>3, <2>14, <2>15 DEF used
<1> QED BY <1>3, <1>4, <1>5

(* free frees the register that is given and no other. *)
THEOREM FreeCorrect ==
  ASSUME NEW a, Well(a), NEW r \in a.registers
  PROVE  LET n == Free(a, r) IN
         Well(n) /\ n.registers = a.registers \ {r} /\ n.stackSize = a.stackSize
<1>1. PICK s, f, t, z : /\ Agree(s, f, t, z)
                        /\ a = [registers |-> s, firstFree |-> f, stackTop |-> t, stackSize |-> z]
  BY DEF Well
<1>2. a.registers = s /\ a.firstFree = f /\ a.stackTop = t /\ a.stackSize = z
  BY <1>1
<1>3. /\ Byte \in Nat /\ f \in Nat /\ t \in Nat /\ z \in Nat
      /\ f <= t /\ t <= z /\ z <= Byte /\ f \notin s
      /\ \A i \in s : i \in Nat /\ i < t
      /\ \A i \in Nat : i < f => i \in s
      /\ t > 0 => t - 1 \in s
  BY <1>1, AgreeFacts
<1>4. r \in s /\ r \in Nat /\ r < t
  BY <1>2, <1>3
<1>5. CASE r + 1 = t
  <2>1. Free(a, r) = PopTo(a, r)
    BY <1>2, <1>5 DEF Free
  <2>2. {i \in s : i < r} = s \ {r}
    <3>1. \A i \in s : i < r <=> i # r
      BY <1>3, <1>4, <1>5
    <3> QED BY <3>1
  <2> QED BY <1>2, <1>4, <2>1, <2>2, PopToCorrect
<1>6. CASE r + 1 # t
  <2> DEFINE first == Min({f, r})
             used == s \ {r}
             n == [registers |-> used, firstFree |-> first, stackTop |-> t, stackSize |-> z]
  <2>1. Free(a, r) = n
    <3>1. Free(a, r) = [a EXCEPT !.registers = @ \ {r}, !.firstFree = Min({@, r})]
      BY <1>2, <1>6 DEF Free
    <3> QED BY <1>1, <3>1, Zenon
  <2>2. first = IF f <= r THEN f ELSE r
    BY <1>3, <1>4, OfTwo
  <2> HIDE DEF first
  <2>3. first \in 0 .. Byte /\ first <= f /\ first <= r
    BY <1>3, <1>4, <2>2
  <2>4. (\A i \in Nat : i < first => i \in used) /\ first \notin used
    BY <1>3, <1>4, <2>2, <2>3
  <2>5. (\A i \in used : i < t) /\ (t > 0 => t - 1 \in used)
    BY <1>3, <1>4, <1>6
  <2>6. used \subseteq Register
    BY <1>1 DEF Agree
  <2>7. Agree(used, first, t, z)
    <3> HIDE DEF used
    <3>1. used \in SUBSET Register /\ t \in 0 .. Byte /\ z \in 0 .. Byte
      BY <1>3, <2>6
    <3>2. \A i \in Register : i < first => i \in used
      BY <1>3, <2>4 DEF Register
    <3> QED BY <1>3, <2>3, <2>4, <2>5, <3>1, <3>2 DEF Agree
  <2>8. Well(n)
    BY <2>7 DEF Well
  <2>9. n.registers = used /\ n.stackSize = z
    OBVIOUS
  <2> QED BY <1>2, <2>1, <2>8, <2>9
<1> QED BY <1>5, <1>6

-----------------------------------------------------------------------------
(* Captured registers *)

\* The open list and the upvalues are what they should be, and go together.
Captured(open, ups) ==
    /\ open \in Seq(Nat) /\ \E S : ups \in Seq(S)
    /\ \A u \in DOMAIN ups : ups[u].open => ups[u].i \in Nat
    /\ Listed(open, ups)

LEMMA CapturedFacts ==
  ASSUME NEW open, NEW ups, Captured(open, ups)
  PROVE  /\ Len(open) \in Nat /\ DOMAIN open = 1 .. Len(open)
         /\ Len(ups) \in Nat /\ DOMAIN ups = 1 .. Len(ups)
         /\ \A i \in 1 .. Len(open) : /\ open[i] \in DOMAIN ups /\ ups[open[i]].open
                                      /\ ups[open[i]].i \in Nat
         /\ \A u \in DOMAIN ups : ups[u].open => \E i \in 1 .. Len(open) : open[i] = u
         /\ \A i, j \in 1 .. Len(open) : i < j => ups[open[i]].i < ups[open[j]].i
<1>1. /\ Len(open) \in Nat /\ DOMAIN open = 1 .. Len(open)
      /\ Len(ups) \in Nat /\ DOMAIN ups = 1 .. Len(ups)
  BY DEF Captured
<1>2. {open[i] : i \in DOMAIN open} = {u \in DOMAIN ups : ups[u].open}
  BY DEF Captured, Listed
<1>3. \A i \in DOMAIN open : open[i] \in {u \in DOMAIN ups : ups[u].open}
  BY <1>2
<1>4. \A u \in DOMAIN ups : ups[u].open => \E i \in DOMAIN open : open[i] = u
  BY <1>2
<1>5. \A i, j \in DOMAIN open : i < j => ups[open[i]].i < ups[open[j]].i
  BY DEF Captured, Listed
<1>6. \A u \in DOMAIN ups : ups[u].open => ups[u].i \in Nat
  BY DEF Captured
<1> QED BY <1>1, <1>3, <1>4, <1>5, <1>6

(* An element inserted into a sequence *)
LEMMA InsertAtIs ==
  ASSUME NEW s \in Seq(Nat), NEW p \in 1 .. Len(s) + 1, NEW e \in Nat
  PROVE  LET r == InsertAt(s, p, e)
         IN  /\ r \in Seq(Nat) /\ Len(r) = Len(s) + 1 /\ DOMAIN r = 1 .. Len(s) + 1
             /\ \A i \in 1 .. Len(s) + 1 : r[i] = IF i < p THEN s[i] ELSE IF i = p THEN e ELSE s[i - 1]
<1> DEFINE l == SubSeq(s, 1, p - 1)
           h == SubSeq(s, p, Len(s))
           r == l \o <<e>> \o h
<1>1. Len(s) \in Nat /\ p \in Nat /\ p >= 1 /\ p <= Len(s) + 1
  OBVIOUS
<1>2. l \in Seq(Nat) /\ Len(l) = p - 1 /\ \A i \in 1 .. p - 1 : l[i] = s[i]
  BY <1>1
<1>3. h \in Seq(Nat) /\ Len(h) = Len(s) - p + 1 /\ \A i \in 1 .. Len(s) - p + 1 : h[i] = s[p + i - 1]
  BY <1>1
<1>4. InsertAt(s, p, e) = r
  BY DEF InsertAt
<1> DEFINE m == l \o <<e>>
<1>5. r = m \o h
  OBVIOUS
<1> HIDE DEF l, h, r
<1>6. m \in Seq(Nat) /\ Len(m) = p /\ m[p] = e /\ \A i \in 1 .. p - 1 : m[i] = l[i]
  <2> DEFINE x == <<e>>
  <2>1. x \in Seq(Nat) /\ Len(x) = 1 /\ x[1] = e
    OBVIOUS
  <2>2. m = l \o x
    OBVIOUS
  <2> HIDE DEF x, m
  <2>3. /\ m \in Seq(Nat) /\ Len(m) = Len(l) + Len(x)
        /\ \A i \in 1 .. Len(l) + Len(x) : m[i] = IF i <= Len(l) THEN l[i] ELSE x[i - Len(l)]
    BY ONLY <1>2, <2>1, <2>2, ConcatProperties
  <2>len. Len(l) = p - 1 /\ Len(x) = 1 /\ p \in Nat /\ p >= 1
    BY <1>1, <1>2, <2>1
  <2>4. /\ Len(l) + Len(x) = p /\ p \in 1 .. Len(l) + Len(x) /\ ~ (p <= Len(l)) /\ p - Len(l) = 1
        /\ \A i \in 1 .. p - 1 : i \in 1 .. Len(l) + Len(x) /\ i <= Len(l)
    BY ONLY <2>len
  <2> QED BY ONLY <2>1, <2>3, <2>4
<1> HIDE DEF m
<1>7. /\ r \in Seq(Nat) /\ Len(r) = p + (Len(s) - p + 1)
      /\ \A i \in 1 .. p + (Len(s) - p + 1) : r[i] = IF i <= p THEN m[i] ELSE h[i - p]
  <2>1. /\ r \in Seq(Nat) /\ Len(r) = Len(m) + Len(h)
        /\ \A i \in 1 .. Len(m) + Len(h) : r[i] = IF i <= Len(m) THEN m[i] ELSE h[i - Len(m)]
    BY ONLY <1>3, <1>5, <1>6, ConcatProperties
  <2> QED BY <1>3, <1>6, <2>1
<1>8. Len(r) = Len(s) + 1 /\ DOMAIN r = 1 .. Len(s) + 1
  BY <1>1, <1>7
<1>9. ASSUME NEW i \in 1 .. Len(s) + 1
      PROVE  r[i] = IF i < p THEN s[i] ELSE IF i = p THEN e ELSE s[i - 1]
  <2>1. CASE i <= p
    <3>1. r[i] = m[i]
      BY <1>1, <1>7, <2>1
    <3> QED BY <1>1, <1>2, <1>6, <2>1, <3>1
  <2>2. CASE i > p
    <3> DEFINE j == i - p
    <3>1. j \in 1 .. Len(s) - p + 1 /\ p + j = i /\ p + j - 1 = i - 1
      BY <1>1, <2>2
    <3>2. r[p + j] = h[j]
      BY <1>1, <1>7, <2>2
    <3> HIDE DEF j
    <3>3. h[j] = s[p + j - 1]
      BY <1>3, <3>1
    <3>4. ~ (i < p) /\ i # p
      BY <1>1, <2>2
    <3> QED BY <3>1, <3>2, <3>3, <3>4
  <2>3. i <= p \/ i > p
    BY <1>1
  <2> QED BY <2>1, <2>2, <2>3
<1> QED BY <1>4, <1>7, <1>8, <1>9

(* In a sorted list, the entries below an index are the first ones, as many as *)
(* they are. *)
LEMMA PointIs ==
  ASSUME NEW open, NEW ups, Captured(open, ups), NEW index \in Nat
  PROVE  LET S == {i \in DOMAIN open : ups[open[i]].i < index}
         IN  Cardinality(S) \in 0 .. Len(open) /\ S = 1 .. Cardinality(S)
<1> DEFINE S == {i \in DOMAIN open : ups[open[i]].i < index}
<1>1. /\ Len(open) \in Nat /\ DOMAIN open = 1 .. Len(open)
      /\ \A i \in 1 .. Len(open) : ups[open[i]].i \in Nat
      /\ \A i, j \in 1 .. Len(open) : i < j => ups[open[i]].i < ups[open[j]].i
  BY CapturedFacts
<1>2. \E n \in 0 .. Len(open) : S = 1 .. n
  <2>1. CASE S = {}
    <3>1. S = 1 .. 0
      BY <2>1
    <3> QED BY <1>1, <3>1
  <2>2. CASE S # {}
    <3>1. S \in SUBSET (0 .. Len(open))
      BY <1>1
    <3> DEFINE n == Max(S)
    <3>2. n \in S /\ \A y \in S : y <= n
      <4> HIDE DEF S
      <4> QED BY <1>1, <2>2, <3>1, MaxIs
    <3> HIDE DEF n
    <3>3. n \in 1 .. Len(open)
      BY <1>1, <3>2
    <3>4. \A i \in 1 .. n : i \in S
      <4> SUFFICES ASSUME NEW i \in 1 .. n, i # n PROVE i \in S
        BY <3>2
      <4>1. i \in 1 .. Len(open) /\ i < n
        BY <1>1, <3>3
      <4>2. ups[open[i]].i < ups[open[n]].i /\ ups[open[n]].i < index
        BY <1>1, <3>2, <3>3, <4>1
      <4>3. ups[open[i]].i \in Nat /\ ups[open[n]].i \in Nat
        BY <1>1, <3>3, <4>1
      <4> QED BY <1>1, <4>1, <4>2, <4>3
    <3>5. \A i \in S : i \in 1 .. n
      BY <1>1, <3>2, <3>3
    <3>6. S = 1 .. n
      <4> HIDE DEF S
      <4> QED BY <3>4, <3>5
    <3> QED BY <1>1, <3>3, <3>6
  <2> QED BY <2>1, <2>2
<1> HIDE DEF S
<1>3. PICK n \in 0 .. Len(open) : S = 1 .. n
  BY <1>2
<1>4. n \in Nat /\ Cardinality(1 .. n) = n
  BY <1>1, <1>3, FS_Interval
<1>5. Cardinality(S) \in 0 .. Len(open) /\ S = 1 .. Cardinality(S)
  BY <1>3, <1>4
<1> QED BY <1>5 DEF S

(* LuaRegisters::open_upvalue: the register has one open upvalue afterwards, *)
(* the one it had before or a new one, which the closure gets; no upvalue    *)
(* changes, and the list is still sorted and complete.                       *)
THEOREM OpenUpvalueCorrect ==
  ASSUME NEW open, NEW ups, Captured(open, ups), NEW ids \in Seq(Nat), NEW index \in Nat
  PROVE  LET r == OpenUpvalue([open |-> open, ups |-> ups, ids |-> ids], index)
         IN  /\ Captured(r.open, r.ups)
             /\ \A u \in DOMAIN ups : u \in DOMAIN r.ups /\ r.ups[u] = ups[u]
             /\ \E id \in DOMAIN r.ups :
                   /\ r.ids = Append(ids, id) /\ r.ups[id].open /\ r.ups[id].i = index
                   /\ \A u \in DOMAIN r.ups : r.ups[u].open /\ r.ups[u].i = index => u = id
<1> DEFINE s == [open |-> open, ups |-> ups, ids |-> ids]
           r == OpenUpvalue(s, index)
           at == {i \in DOMAIN open : ups[open[i]].i = index}
           new == Len(ups) + 1
<1>1. s.open = open /\ s.ups = ups /\ s.ids = ids
  OBVIOUS
<1> HIDE DEF s
<1>2. r = IF at # {} THEN [open |-> open, ups |-> ups, ids |-> Append(ids, open[CHOOSE i \in at : TRUE])]
          ELSE [open |-> InsertAt(open, InsertionPoint(s, index), new),
                ups  |-> Append(ups, [open |-> TRUE, i |-> index]),
                ids  |-> Append(ids, new)]
  BY <1>1 DEF OpenUpvalue
<1> HIDE DEF r
<1>3. /\ Len(open) \in Nat /\ DOMAIN open = 1 .. Len(open)
      /\ Len(ups) \in Nat /\ DOMAIN ups = 1 .. Len(ups)
      /\ \A i \in 1 .. Len(open) : open[i] \in DOMAIN ups /\ ups[open[i]].open /\ ups[open[i]].i \in Nat
      /\ \A u \in DOMAIN ups : ups[u].open => \E i \in 1 .. Len(open) : open[i] = u
      /\ \A i, j \in 1 .. Len(open) : i < j => ups[open[i]].i < ups[open[j]].i
  BY CapturedFacts
<1>4. CASE at # {}
  <2> DEFINE k == CHOOSE i \in at : TRUE
  <2>1. k \in DOMAIN open /\ ups[open[k]].i = index
    BY <1>4
  <2>2. r = [open |-> open, ups |-> ups, ids |-> Append(ids, open[k])]
    BY <1>2, <1>4
  <2> HIDE DEF k, at
  <2>3. r.open = open /\ r.ups = ups /\ r.ids = Append(ids, open[k])
    BY <2>2
  <2>4. \A u \in DOMAIN ups : ups[u].open /\ ups[u].i = index => u = open[k]
    <3> SUFFICES ASSUME NEW u \in DOMAIN ups, ups[u].open, ups[u].i = index PROVE u = open[k]
      OBVIOUS
    <3>1. PICK i \in 1 .. Len(open) : open[i] = u
      BY <1>3
    <3>2. i \in Nat /\ k \in Nat /\ k \in 1 .. Len(open)
      BY <1>3, <2>1
    <3>3. ~ (i < k) /\ ~ (k < i)
      BY <1>3, <2>1, <3>1, <3>2
    <3>4. i = k
      BY <3>2, <3>3
    <3> QED BY <3>1, <3>4
  <2>5. open[k] \in DOMAIN ups /\ ups[open[k]].open
    BY <1>3, <2>1
  <2> QED BY <2>1, <2>3, <2>4, <2>5 DEF s, r
<1>5. CASE at = {}
  <2> DEFINE p == InsertionPoint(s, index)
             e == [open |-> TRUE, i |-> index]
             lst == InsertAt(open, p, new)
             all == Append(ups, e)
             S == {i \in DOMAIN open : ups[open[i]].i < index}
  <2>1. r = [open |-> lst, ups |-> all, ids |-> Append(ids, new)]
    BY <1>2, <1>5
  <2>2. e.open /\ e.i = index
    OBVIOUS
  <2>3. p = Cardinality(S) + 1
    BY <1>1 DEF InsertionPoint
  <2>4. Cardinality(S) \in 0 .. Len(open) /\ S = 1 .. Cardinality(S)
    BY PointIs
  <2>5. p \in 1 .. Len(open) + 1 /\ S = 1 .. p - 1
    <3> HIDE DEF S, p
    <3> QED BY <1>3, <2>3, <2>4
  <2>6. new \in Nat /\ new \notin DOMAIN ups
    BY <1>3
  <2>7. ASSUME NEW i \in 1 .. Len(open)
        PROVE  IF i < p THEN ups[open[i]].i < index ELSE ups[open[i]].i > index
    <3>1. i \in S <=> i < p
      <4> HIDE DEF S, p
      <4> QED BY <1>3, <2>5
    <3>2. ups[open[i]].i \in Nat /\ ups[open[i]].i # index
      BY <1>3, <1>5
    <3>3. i \in S <=> ups[open[i]].i < index
      BY <1>3
    <3> HIDE DEF S, p, at
    <3> QED BY <3>1, <3>2, <3>3
  <2> HIDE DEF S, p, e, at
  <2>8. /\ lst \in Seq(Nat) /\ Len(lst) = Len(open) + 1 /\ DOMAIN lst = 1 .. Len(open) + 1
        /\ \A i \in 1 .. Len(open) + 1 :
              lst[i] = IF i < p THEN open[i] ELSE IF i = p THEN new ELSE open[i - 1]
    <3>1. open \in Seq(Nat)
      BY DEF Captured
    <3> HIDE DEF new
    <3> QED BY ONLY <2>5, <2>6, <3>1, InsertAtIs
  <2>9. PICK T : ups \in Seq(T)
    BY DEF Captured
  <2>10. all \in Seq(T \cup {e}) /\ Len(all) = Len(ups) + 1
    BY <2>9
  <2>11. /\ DOMAIN all = DOMAIN ups \cup {new} /\ all[new] = e
         /\ \A u \in DOMAIN ups : all[u] = ups[u]
    BY <1>3, <2>9
  <2> HIDE DEF lst, all, new
  <2>12. \A u \in DOMAIN all : all[u].open => all[u].i \in Nat
    <3>1. \A u \in DOMAIN ups : ups[u].open => ups[u].i \in Nat
      BY DEF Captured
    <3> QED BY <2>2, <2>11, <3>1
  <2>13. \A i \in 1 .. Len(open) + 1 :
            all[lst[i]].i = IF i < p THEN ups[open[i]].i ELSE IF i = p THEN index ELSE ups[open[i - 1]].i
    <3> TAKE i \in 1 .. Len(open) + 1
    <3>1. CASE i < p
      <4>1. i \in 1 .. Len(open)
        BY <1>3, <2>5, <3>1
      <4> QED BY <1>3, <2>8, <2>11, <3>1, <4>1
    <3>2. CASE i = p
      <4>1. lst[i] = new /\ ~ (i < p)
        BY <1>3, <2>5, <2>8, <3>2
      <4> QED BY <2>2, <2>11, <3>2, <4>1
    <3>3. CASE ~ (i < p) /\ i # p
      <4>1. i - 1 \in 1 .. Len(open)
        BY <1>3, <2>5, <3>3
      <4>2. lst[i] = open[i - 1]
        BY <2>8, <3>3
      <4> QED BY <1>3, <2>11, <3>3, <4>1, <4>2
    <3> QED BY <3>1, <3>2, <3>3
  <2>14. \A i, j \in DOMAIN lst : i < j => all[lst[i]].i < all[lst[j]].i
    <3> SUFFICES ASSUME NEW i \in 1 .. Len(open) + 1, NEW j \in 1 .. Len(open) + 1, i < j
                 PROVE  all[lst[i]].i < all[lst[j]].i
      BY <2>8
    <3>1. i \in Nat /\ j \in Nat /\ p \in Nat /\ i >= 1 /\ j <= Len(open) + 1
      BY <1>3, <2>5
    <3>2. CASE j < p
      <4>1. i < p /\ i \in 1 .. Len(open) /\ j \in 1 .. Len(open)
        BY <1>3, <2>5, <3>1, <3>2
      <4> QED BY <1>3, <2>13, <3>2, <4>1
    <3>3. CASE j = p
      <4>1. i < p /\ i \in 1 .. Len(open) /\ ~ (j < p)
        BY <1>3, <2>5, <3>1, <3>3
      <4>2. all[lst[j]].i = index /\ all[lst[i]].i = ups[open[i]].i
        BY <2>13, <3>3, <4>1
      <4> QED BY <2>7, <4>1, <4>2
    <3>4. CASE j > p
      <4>1. j - 1 \in 1 .. Len(open) /\ ~ (j < p) /\ j # p /\ ~ (j - 1 < p)
        BY <1>3, <2>5, <3>1, <3>4
      <4>2. all[lst[j]].i = ups[open[j - 1]].i
        BY <2>13, <4>1
      <4>3. ups[open[j - 1]].i \in Nat /\ ups[open[j - 1]].i > index
        BY <1>3, <2>7, <4>1
      <4>4. CASE i < p
        <5>1. i \in 1 .. Len(open) /\ i < j - 1
          BY <1>3, <2>5, <3>1, <3>4, <4>4
        <5>2. all[lst[i]].i = ups[open[i]].i
          BY <2>13, <4>4
        <5> QED BY <1>3, <4>1, <4>2, <5>1, <5>2
      <4>5. CASE i = p
        <5>1. all[lst[i]].i = index
          BY <2>13, <3>1, <4>5
        <5> QED BY <4>2, <4>3, <5>1
      <4>6. CASE i > p
        <5>1. i - 1 \in 1 .. Len(open) /\ i - 1 < j - 1 /\ ~ (i < p) /\ i # p
          BY <1>3, <2>5, <3>1, <4>6
        <5>2. all[lst[i]].i = ups[open[i - 1]].i
          BY <2>13, <5>1
        <5> QED BY <1>3, <4>1, <4>2, <5>1, <5>2
      <4> QED BY <3>1, <4>4, <4>5, <4>6
    <3> QED BY <3>1, <3>2, <3>3, <3>4
  <2>15. {lst[i] : i \in DOMAIN lst} = {u \in DOMAIN all : all[u].open}
    <3>1. ASSUME NEW i \in DOMAIN lst PROVE lst[i] \in DOMAIN all /\ all[lst[i]].open
      <4>1. i \in 1 .. Len(open) + 1
        BY <2>8
      <4>2. CASE i < p
        <5>1. i \in 1 .. Len(open) /\ lst[i] = open[i]
          BY <1>3, <2>5, <2>8, <4>1, <4>2
        <5> QED BY <1>3, <2>11, <5>1
      <4>3. CASE i = p
        <5>1. lst[i] = new
          BY <1>3, <2>5, <2>8, <4>1, <4>3
        <5> QED BY <2>2, <2>11, <5>1
      <4>4. CASE ~ (i < p) /\ i # p
        <5>1. i - 1 \in 1 .. Len(open)
          BY <1>3, <2>5, <4>1, <4>4
        <5>2. lst[i] = open[i - 1]
          BY <2>8, <4>1, <4>4
        <5> QED BY <1>3, <2>11, <5>1, <5>2
      <4> QED BY <4>2, <4>3, <4>4
    <3>2. ASSUME NEW u \in DOMAIN all, all[u].open PROVE \E i \in DOMAIN lst : lst[i] = u
      <4>1. CASE u = new
        <5>1. p \in DOMAIN lst /\ lst[p] = new
          BY <1>3, <2>5, <2>8
        <5> QED BY <4>1, <5>1
      <4>2. CASE u # new
        <5>1. u \in DOMAIN ups /\ ups[u].open
          BY <2>11, <3>2, <4>2
        <5>2. PICK i \in 1 .. Len(open) : open[i] = u
          BY <1>3, <5>1
        <5>3. CASE i < p
          <6>1. i \in DOMAIN lst /\ lst[i] = open[i]
            BY <1>3, <2>8, <5>3
          <6> QED BY <5>2, <6>1
        <5>4. CASE ~ (i < p)
          <6>1. i + 1 \in 1 .. Len(open) + 1 /\ ~ (i + 1 < p) /\ i + 1 # p /\ (i + 1) - 1 = i
            BY <1>3, <2>5, <5>4
          <6>2. lst[i + 1] = open[i]
            BY <2>8, <6>1
          <6> QED BY <2>8, <5>2, <6>1, <6>2
        <5> QED BY <5>3, <5>4
      <4> QED BY <4>1, <4>2
    <3> QED BY <3>1, <3>2
  <2>16. Captured(lst, all)
    BY <2>8, <2>10, <2>12, <2>14, <2>15, Zenon DEF Captured, Listed
  <2>17. \A u \in DOMAIN all : all[u].open /\ all[u].i = index => u = new
    <3> SUFFICES ASSUME NEW u \in DOMAIN ups, ups[u].open, ups[u].i = index PROVE FALSE
      BY <2>11
    <3>1. PICK i \in 1 .. Len(open) : open[i] = u
      BY <1>3
    <3> QED BY <2>7, <3>1
  <2>18. r.open = lst /\ r.ups = all /\ r.ids = Append(ids, new)
    BY <2>1
  <2> QED BY <2>2, <2>11, <2>16, <2>17, <2>18 DEF s, r
<1> QED BY <1>4, <1>5

(* ThreadState::close_upvalues: exactly the open upvalues at or above `from` *)
(* are closed, each with the value of its stack slot; the others stay as     *)
(* they are, and the list is still sorted and complete.  Truncating the list *)
(* at one position is right only because the list is sorted.                 *)
THEOREM CloseUpvaluesCorrect ==
  ASSUME NEW open, NEW ups, Captured(open, ups), NEW st, NEW from \in Nat
  PROVE  LET r == CloseFrom(open, ups, st, from)
         IN  /\ Captured(r.open, r.ups) /\ DOMAIN r.ups = DOMAIN ups
             /\ \A u \in DOMAIN ups :
                   r.ups[u] = IF ups[u].open /\ ups[u].i >= from
                              THEN [open |-> FALSE, v |-> st[ups[u].i + 1]] ELSE ups[u]
<1> DEFINE start == FirstOpen(open, ups, from)
           n == start - 1
           lst == SubSeq(open, 1, n)
           Gone(u) == \E i \in start .. Len(open) : open[i] = u
           Shut(u) == [open |-> FALSE, v |-> st[ups[u].i + 1]]
           all == [u \in DOMAIN ups |-> IF Gone(u) THEN Shut(u) ELSE ups[u]]
           r == CloseFrom(open, ups, st, from)
<1>1. r = [open |-> lst, ups |-> all]
  BY DEF CloseFrom
<1> HIDE DEF r
<1>2. /\ Len(open) \in Nat /\ DOMAIN open = 1 .. Len(open)
      /\ Len(ups) \in Nat /\ DOMAIN ups = 1 .. Len(ups)
      /\ \A i \in 1 .. Len(open) : open[i] \in DOMAIN ups /\ ups[open[i]].open /\ ups[open[i]].i \in Nat
      /\ \A u \in DOMAIN ups : ups[u].open => \E i \in 1 .. Len(open) : open[i] = u
      /\ \A i, j \in 1 .. Len(open) : i < j => ups[open[i]].i < ups[open[j]].i
  BY CapturedFacts
<1>3. open \in Seq(Nat)
  BY DEF Captured
<1>4. /\ start \in 1 .. Len(open) + 1
      /\ \A i \in 1 .. Len(open) : i >= start <=> ups[open[i]].i >= from
  <2> DEFINE A == {i \in DOMAIN open : ups[open[i]].i >= from}
             B == A \cup {Len(open) + 1}
  <2>1. start = Min(B)
    BY DEF FirstOpen
  <2>2. B \in SUBSET Nat /\ B # {} /\ \A y \in B : y \in 1 .. Len(open) + 1
    BY <1>2
  <2> HIDE DEF start
  <2>3. start \in B /\ \A y \in B : start <= y
    <3> HIDE DEF B
    <3> QED BY <2>1, <2>2, MinIs
  <2>4. start \in 1 .. Len(open) + 1
    <3> HIDE DEF B
    <3> QED BY <2>2, <2>3
  <2>5. ASSUME NEW i \in 1 .. Len(open), ups[open[i]].i >= from PROVE i >= start
    BY <1>2, <2>3, <2>4, <2>5
  <2>6. ASSUME NEW i \in 1 .. Len(open), i >= start PROVE ups[open[i]].i >= from
    <3>1. start \in 1 .. Len(open) /\ start # Len(open) + 1
      BY <1>2, <2>4, <2>6
    <3>2. ups[open[start]].i >= from
      BY <2>3, <3>1
    <3>3. ups[open[start]].i \in Nat /\ ups[open[i]].i \in Nat
      BY <1>2, <3>1
    <3>4. i = start \/ ups[open[start]].i < ups[open[i]].i
      BY <1>2, <2>6, <3>1
    <3> QED BY <3>2, <3>3, <3>4
  <2> QED BY <2>4, <2>5, <2>6
<1> HIDE DEF start
<1>5. ASSUME NEW u \in DOMAIN ups PROVE Gone(u) <=> ups[u].open /\ ups[u].i >= from
  <2>1. ASSUME Gone(u) PROVE ups[u].open /\ ups[u].i >= from
    <3>1. PICK i \in start .. Len(open) : open[i] = u
      BY <2>1
    <3>2. i \in 1 .. Len(open) /\ i >= start
      BY <1>2, <1>4
    <3> QED BY <1>2, <1>4, <3>1, <3>2
  <2>2. ASSUME ups[u].open, ups[u].i >= from PROVE Gone(u)
    <3>1. PICK i \in 1 .. Len(open) : open[i] = u
      BY <1>2, <2>2
    <3>2. i >= start
      BY <1>4, <2>2, <3>1
    <3>3. i \in start .. Len(open)
      BY <1>2, <1>4, <3>2
    <3> QED BY <3>1, <3>3
  <2> QED BY <2>1, <2>2
<1> HIDE DEF Gone
<1>6. DOMAIN all = DOMAIN ups /\ \A u \in DOMAIN ups : all[u] = IF Gone(u) THEN Shut(u) ELSE ups[u]
  OBVIOUS
<1>7. \A u : ~ Shut(u).open
  OBVIOUS
<1>8. \E T : all \in Seq(T)
  <2>1. all \in [1 .. Len(ups) -> {all[u] : u \in 1 .. Len(ups)}]
    BY <1>2
  <2> HIDE DEF all
  <2>2. all \in Seq({all[u] : u \in 1 .. Len(ups)})
    BY <1>2, <2>1
  <2> QED BY <2>2, Zenon
<1> HIDE DEF all, Shut
<1>9. /\ n \in 0 .. Len(open) /\ lst \in Seq(Nat) /\ Len(lst) = n /\ DOMAIN lst = 1 .. n
      /\ \A i \in 1 .. n : lst[i] = open[i] /\ i \in 1 .. Len(open) /\ i < start
  <2>1. n \in 0 .. Len(open) /\ \A i \in 1 .. n : i \in 1 .. Len(open) /\ i < start
    BY <1>2, <1>4
  <2> HIDE DEF n
  <2>2. lst \in Seq(Nat) /\ Len(lst) = n /\ \A i \in 1 .. n : lst[i] = open[i]
    BY <1>2, <1>3, <2>1
  <2> HIDE DEF lst
  <2> QED BY <2>1, <2>2
<1> HIDE DEF lst, n
<1>10. \A i \in 1 .. n : /\ lst[i] = open[i] /\ open[i] \in DOMAIN ups
                         /\ ups[open[i]].open /\ ~ Gone(open[i]) /\ all[lst[i]] = ups[open[i]]
  <2> TAKE i \in 1 .. n
  <2>1. lst[i] = open[i] /\ i \in 1 .. Len(open) /\ ~ (i >= start)
    BY <1>4, <1>9
  <2>2. open[i] \in DOMAIN ups /\ ups[open[i]].open /\ ~ (ups[open[i]].i >= from)
    BY <1>2, <1>4, <2>1
  <2> QED BY <1>5, <1>6, <2>1, <2>2
<1>11. \A i, j \in DOMAIN lst : i < j => all[lst[i]].i < all[lst[j]].i
  BY <1>2, <1>9, <1>10
<1>12. {lst[i] : i \in DOMAIN lst} = {u \in DOMAIN all : all[u].open}
  <2>1. ASSUME NEW i \in DOMAIN lst PROVE lst[i] \in DOMAIN all /\ all[lst[i]].open
    BY <1>6, <1>9, <1>10
  <2>2. ASSUME NEW u \in DOMAIN all, all[u].open PROVE \E i \in DOMAIN lst : lst[i] = u
    <3>1. u \in DOMAIN ups /\ ~ Gone(u) /\ ups[u].open
      BY <1>6, <1>7, <2>2
    <3>2. PICK i \in 1 .. Len(open) : open[i] = u
      BY <1>2, <3>1
    <3>3. ~ (i >= start)
      BY <1>4, <1>5, <3>1, <3>2
    <3>4. i \in 1 .. n
      BY <1>2, <1>4, <3>3 DEF n
    <3> QED BY <1>9, <1>10, <3>2, <3>4
  <2> QED BY <2>1, <2>2
<1>13. \A u \in DOMAIN all : all[u].open => all[u].i \in Nat
  <2>1. \A u \in DOMAIN ups : ups[u].open => ups[u].i \in Nat
    BY DEF Captured
  <2> QED BY <1>6, <1>7, <2>1
<1>14. Captured(lst, all)
  BY <1>8, <1>9, <1>11, <1>12, <1>13, Zenon DEF Captured, Listed
<1>15. r.open = lst /\ r.ups = all
  BY <1>1
<1>16. \A u \in DOMAIN ups :
          r.ups[u] = IF ups[u].open /\ ups[u].i >= from
                     THEN [open |-> FALSE, v |-> st[ups[u].i + 1]] ELSE ups[u]
  BY <1>5, <1>6, <1>15, Zenon DEF Shut
<1> QED BY <1>6, <1>14, <1>15, <1>16 DEF r

-----------------------------------------------------------------------------
(* Registers of a call *)

IsStack(st) == \E T : st \in Seq(T)

LEMMA StackFacts ==
  ASSUME NEW st, IsStack(st)
  PROVE  Len(st) \in Nat /\ DOMAIN st = 1 .. Len(st)
BY DEF IsStack

(* Resize is a sequence of the given length. *)
LEMMA ResizeIs ==
  ASSUME NEW st, NEW n \in Nat
  PROVE  /\ IsStack(Resize(st, n)) /\ Len(Resize(st, n)) = n
         /\ \A i \in 1 .. n : Resize(st, n)[i] = Argument(st, i)
<1> DEFINE z == Resize(st, n)
<1>1. z = [i \in 1 .. n |-> Argument(st, i)]
  BY DEF Resize
<1>2. DOMAIN z = 1 .. n /\ z = [i \in 1 .. n |-> z[i]] /\ \A i \in 1 .. n : z[i] = Argument(st, i)
  BY <1>1
<1> HIDE DEF z
<1>3. z \in Seq({z[i] : i \in 1 .. n}) /\ Len(z) = n
  BY <1>2
<1>4. IsStack(z)
  BY <1>3, Zenon DEF IsStack
<1> QED BY <1>2, <1>3, <1>4 DEF z

(* A cut out of a stack *)
LEMMA CutIs ==
  ASSUME NEW T, NEW st \in Seq(T), NEW lo \in 0 .. Len(st), NEW hi \in lo .. Len(st)
  PROVE  /\ SubSeq(st, lo + 1, hi) \in Seq(T) /\ Len(SubSeq(st, lo + 1, hi)) = hi - lo
         /\ \A i \in 1 .. hi - lo : SubSeq(st, lo + 1, hi)[i] = st[lo + i]
OBVIOUS

(* push_call of a closure (thread.rs 403-431), whatever the number of the      *)
(* arguments: the first ones are in the registers of the fixed parameters, the *)
(* others lie in order between bottom and base for `...`, every other register *)
(* is nil, what lies below bottom is untouched, and the frames lie on the      *)
(* stack as they should.                                                       *)
THEOREM PushCallCorrect ==
  ASSUME NEW S, NEW fs \in Seq(S), Nested(fs), NEW st, IsStack(st), NEW bottom \in 0 .. Len(st),
         Len(fs) > 0 /\ fs[Len(fs)].k = "Lua" => bottom >= fs[Len(fs)].base,
         NEW closure, NEW p, p.fixedParams \in Nat, p.stackSize \in Nat, p.fixedParams <= p.stackSize
  PROVE  LET r     == PushClosure(fs, st, bottom, closure, p)
             given == Len(st) - bottom
             extra == IF given > p.fixedParams THEN given - p.fixedParams ELSE 0
             base  == bottom + extra
         IN  /\ Placed(r.frames, r.stack) /\ Len(r.stack) = base + p.stackSize
             /\ r.frames = Append(fs, LuaFrame(bottom, closure, base, FALSE, 0, p.stackSize, NoReturn))
             /\ \A i \in 1 .. bottom : r.stack[i] = st[i]
             /\ \A i \in 1 .. extra : r.stack[bottom + i] = st[bottom + p.fixedParams + i]
             /\ \A i \in 1 .. p.stackSize :
                  r.stack[base + i] = IF i <= p.fixedParams /\ i <= given THEN st[bottom + i] ELSE Nil
<1> DEFINE r     == PushClosure(fs, st, bottom, closure, p)
           given == Len(st) - bottom
           extra == IF given > p.fixedParams THEN given - p.fixedParams ELSE 0
           base  == bottom + extra
           last  == bottom + given - extra
           f     == LuaFrame(bottom, closure, base, FALSE, 0, p.stackSize, NoReturn)
           one   == Truncate(st, bottom)
           two   == SubSeq(st, last + 1, Len(st))
           three == SubSeq(st, bottom + 1, last)
           whole == one \o two \o three
<1>1. PICK T : st \in Seq(T)
  BY DEF IsStack
<1>2. /\ Len(st) \in Nat /\ bottom \in Nat /\ given \in Nat /\ extra \in Nat /\ base \in Nat
      /\ given = Len(st) - bottom /\ base = bottom + extra /\ extra <= given
  BY <1>1
<1>3. last \in bottom .. Len(st) /\ Len(st) - last = extra /\ last - bottom = given - extra
  BY <1>2
<1>4. given - extra <= p.fixedParams /\ (extra > 0 => given - extra = p.fixedParams)
  BY <1>2
<1>5. r = [frames |-> Append(fs, f), stack |-> Resize(whole, base + p.stackSize)]
  BY DEF PushClosure
<1> HIDE DEF given, extra, base, last
<1>6. /\ one \in Seq(T) /\ Len(one) = bottom
      /\ \A i \in 1 .. bottom : one[i] = st[i]
  <2>1. one = SubSeq(st, 0 + 1, bottom) /\ 0 \in 0 .. Len(st) /\ bottom \in 0 .. Len(st)
    BY <1>2 DEF Truncate
  <2> HIDE DEF one
  <2>2. /\ one \in Seq(T) /\ Len(one) = bottom - 0
        /\ \A i \in 1 .. bottom - 0 : one[i] = st[0 + i]
    BY <1>1, <2>1, CutIs
  <2> QED BY <1>2, <2>2
<1>7. /\ two \in Seq(T) /\ Len(two) = extra
      /\ \A i \in 1 .. extra : two[i] = st[last + i]
  <2>1. last \in 0 .. Len(st) /\ Len(st) \in last .. Len(st)
    BY <1>2, <1>3
  <2>2. /\ two \in Seq(T) /\ Len(two) = Len(st) - last
        /\ \A i \in 1 .. Len(st) - last : two[i] = st[last + i]
    BY <1>1, <2>1, CutIs
  <2> HIDE DEF two
  <2> QED BY <1>3, <2>2
<1>8. /\ three \in Seq(T) /\ Len(three) = given - extra
      /\ \A i \in 1 .. given - extra : three[i] = st[bottom + i]
  <2>1. bottom \in 0 .. Len(st) /\ last \in bottom .. Len(st)
    BY <1>2, <1>3
  <2>2. /\ three \in Seq(T) /\ Len(three) = last - bottom
        /\ \A i \in 1 .. last - bottom : three[i] = st[bottom + i]
    BY <1>1, <2>1, CutIs
  <2> HIDE DEF three
  <2> QED BY <1>3, <2>2
<1> HIDE DEF one, two, three, f
<1>9. /\ whole \in Seq(T) /\ Len(whole) = bottom + given
      /\ \A i \in 1 .. bottom : whole[i] = st[i]
      /\ \A i \in 1 .. extra : whole[bottom + i] = st[last + i]
      /\ \A i \in 1 .. given - extra : whole[base + i] = st[bottom + i]
  <2> DEFINE front == one \o two
  <2>1. whole = front \o three
    OBVIOUS
  <2>2. /\ front \in Seq(T) /\ Len(front) = Len(one) + Len(two)
        /\ \A i \in 1 .. Len(one) + Len(two) : front[i] = IF i <= Len(one) THEN one[i] ELSE two[i - Len(one)]
    BY <1>6, <1>7, ConcatProperties
  <2> HIDE DEF front, whole
  <2>3. /\ whole \in Seq(T) /\ Len(whole) = Len(front) + Len(three)
        /\ \A i \in 1 .. Len(front) + Len(three) :
             whole[i] = IF i <= Len(front) THEN front[i] ELSE three[i - Len(front)]
    <3>1. front \in Seq(T) /\ three \in Seq(T)
      BY <1>8, <2>2
    <3> QED BY ONLY <2>1, <3>1, ConcatProperties
  <2>4. Len(front) = base /\ Len(whole) = bottom + given /\ Len(front) + Len(three) = bottom + given
    BY <1>2, <1>6, <1>7, <1>8, <2>2, <2>3
  <2>len. Len(one) = bottom /\ Len(two) = extra
    BY <1>6, <1>7
  <2>5. ASSUME NEW i \in 1 .. bottom
        PROVE  whole[i] = st[i]
    <3>1. i \in 1 .. Len(one) + Len(two) /\ i <= Len(one) /\ i \in 1 .. bottom + given /\ i <= base
      BY <1>2, <2>len
    <3> QED BY <1>6, <2>2, <2>3, <2>4, <3>1
  <2>6. ASSUME NEW i \in 1 .. extra
        PROVE  whole[bottom + i] = st[last + i]
    <3> DEFINE j == bottom + i
    <3>1. /\ j \in 1 .. Len(one) + Len(two) /\ ~ (j <= Len(one))
          /\ j \in 1 .. bottom + given /\ j <= base /\ j - Len(one) = i
      BY <1>2, <1>3, <2>len
    <3> HIDE DEF j
    <3>2. whole[j] = front[j]
      BY <2>3, <2>4, <3>1
    <3>3. front[j] = two[i]
      BY ONLY <2>2, <3>1
    <3>4. two[i] = st[last + i]
      BY <1>7
    <3> QED BY <3>2, <3>3, <3>4 DEF j
  <2>7. ASSUME NEW i \in 1 .. given - extra
        PROVE  whole[base + i] = st[bottom + i]
    <3> DEFINE j == base + i
    <3>1. j \in 1 .. bottom + given /\ ~ (j <= base) /\ j - base = i
      BY <1>2
    <3> HIDE DEF j
    <3>2. whole[j] = three[i]
      BY <2>3, <2>4, <3>1
    <3>3. three[i] = st[bottom + i]
      BY <1>8
    <3> QED BY <3>2, <3>3 DEF j
  <2> QED BY <2>3, <2>4, <2>5, <2>6, <2>7
<1> HIDE DEF whole
<1>10. base + p.stackSize \in Nat
  BY <1>2
<1>11. /\ Len(r.stack) = base + p.stackSize
       /\ \A i \in 1 .. base + p.stackSize : r.stack[i] = Argument(whole, i)
  BY <1>5, <1>10, ResizeIs
<1>12. r.frames = Append(fs, f)
  BY <1>5
<1>13. Placed(r.frames, r.stack)
  <2>1. Len(fs) \in Nat /\ Len(r.frames) = Len(fs) + 1 /\ r.frames[Len(fs) + 1] = f
    BY <1>12
  <2>2. \A i \in 1 .. Len(fs) : r.frames[i] = fs[i]
    BY <1>12
  <2>3. f.bottom = bottom /\ f.base = base /\ f.size = p.stackSize /\ f.var = FALSE
    BY DEF f, LuaFrame
  <2>4. ASSUME NEW i \in 1 .. Len(fs), r.frames[i].k = "Lua", r.frames[i + 1].k # "Error"
        PROVE  r.frames[i + 1].bottom >= r.frames[i].base
    <3>1. CASE i = Len(fs)
      BY <2>1, <2>2, <2>3, <2>4, <3>1
    <3>2. CASE i # Len(fs)
      <4>1. i \in 1 .. Len(fs) - 1 /\ i + 1 \in 1 .. Len(fs)
        BY <2>1, <3>2
      <4> QED BY <2>2, <2>4, <4>1 DEF Nested
    <3> QED BY <3>1, <3>2
  <2>5. Nested(r.frames)
    BY <2>1, <2>4 DEF Nested
  <2>6. HasRegisters(f, r.stack)
    BY <1>11, <2>3 DEF HasRegisters
  <2> QED BY <2>1, <2>5, <2>6 DEF Placed
<1>14. \A i \in 1 .. bottom : r.stack[i] = st[i]
  <2> SUFFICES ASSUME NEW i \in 1 .. bottom PROVE r.stack[i] = st[i]
    OBVIOUS
  <2>1. i \in 1 .. base + p.stackSize /\ i <= Len(whole)
    BY <1>2, <1>9
  <2> HIDE DEF r
  <2> QED BY <1>9, <1>11, <2>1 DEF Argument
<1>15. \A i \in 1 .. extra : r.stack[bottom + i] = st[bottom + p.fixedParams + i]
  <2> SUFFICES ASSUME NEW i \in 1 .. extra PROVE r.stack[bottom + i] = st[bottom + p.fixedParams + i]
    OBVIOUS
  <2>1. bottom + i \in 1 .. base + p.stackSize /\ bottom + i <= Len(whole)
    BY <1>2, <1>9
  <2>2. last + i = bottom + p.fixedParams + i
    <3>1. extra > 0 /\ given - extra = p.fixedParams
      BY <1>2, <1>4
    <3>2. last \in Nat /\ last - bottom = p.fixedParams
      BY <1>2, <1>3, <3>1
    <3> QED BY <1>2, <3>2
  <2> HIDE DEF r
  <2> QED BY <1>9, <1>11, <2>1, <2>2 DEF Argument
<1>16. ASSUME NEW i \in 1 .. p.stackSize
       PROVE  r.stack[base + i] = IF i <= p.fixedParams /\ i <= given THEN st[bottom + i] ELSE Nil
  <2>1. base + i \in 1 .. base + p.stackSize
    BY <1>2
  <2>2. base + i <= Len(whole) <=> i <= given - extra
    BY <1>2, <1>9
  <2>3. i <= given - extra <=> i <= p.fixedParams /\ i <= given
    BY <1>2, <1>4
  <2>4. i <= given - extra => i \in 1 .. given - extra
    BY <1>2
  <2> HIDE DEF r
  <2> QED BY <1>9, <1>11, <2>1, <2>2, <2>3, <2>4 DEF Argument
<1> QED BY <1>11, <1>12, <1>13, <1>14, <1>15, <1>16 DEF f, given, extra, base

-----------------------------------------------------------------------------
(* Registers after a call *)

\* What a Lua frame with a pending call may wait for
IsReturn(ret, size) ==
    \/ ret.k = "normal" /\ (ret.n = Variable \/ ret.n \in Nat)
    \/ ret.k \in {"discard", "skip"}
    \/ ret.k = "register" /\ ret.r \in 0 .. size - 1

(* The frame below is the old one but for its program counter, its pending *)
(* return and whether values of variable number lie on top.                *)
LEMMA ResumedIs ==
  ASSUME NEW S, NEW fs \in Seq(S), Len(fs) > 0, fs[Len(fs)].k = "Lua", Nested(fs), NEW pass
  PROVE  LET n == Len(fs)
             f == fs[n]
             r == [fs EXCEPT ![n] = Resumed(f, pass)]
         IN  /\ Len(r) = n /\ r[n] = Resumed(f, pass) /\ \A i \in 1 .. n - 1 : r[i] = fs[i]
             /\ Nested(r)
             /\ r[n].k = "Lua" /\ r[n].base = f.base /\ r[n].size = f.size
             /\ r[n].var = (f.ret.k = "normal" /\ f.ret.n = Variable)
<1> DEFINE n == Len(fs)
           f == fs[n]
           g == Resumed(f, pass)
           r == [fs EXCEPT ![n] = g]
<1>1. n \in Nat /\ n > 0 /\ DOMAIN fs = 1 .. n
  OBVIOUS
<1>2. /\ g.k = "Lua" /\ g.base = f.base /\ g.size = f.size /\ g.bottom = f.bottom
      /\ g.var = (f.ret.k = "normal" /\ f.ret.n = Variable)
  BY DEF Resumed, LuaFrame
<1> HIDE DEF g
<1>3. DOMAIN r = 1 .. n /\ r[n] = g /\ \A i \in 1 .. n - 1 : r[i] = fs[i]
  BY <1>1
<1>4. r = [i \in 1 .. n |-> r[i]]
  BY <1>1
<1> HIDE DEF r
<1>5. Len(r) = n
  BY <1>1, <1>4
<1>6. ASSUME NEW i \in 1 .. n - 1, r[i].k = "Lua", r[i + 1].k # "Error"
      PROVE  r[i + 1].bottom >= r[i].base
  <2>1. r[i] = fs[i]
    BY <1>3
  <2>2. r[i + 1].bottom = fs[i + 1].bottom /\ fs[i + 1].k # "Error"
    <3>1. CASE i + 1 = n
      BY <1>2, <1>3, <3>1
    <3>2. CASE i + 1 # n
      <4>1. i + 1 \in 1 .. n - 1
        BY <1>1, <3>2
      <4>2. r[i + 1] = fs[i + 1]
        BY <1>3, <4>1
      <4> QED BY <1>6, <4>2
    <3> QED BY <3>1, <3>2
  <2> QED BY <1>6, <2>1, <2>2 DEF Nested
<1>7. Nested(r)
  BY <1>5, <1>6 DEF Nested
<1> QED BY <1>2, <1>3, <1>5, <1>7 DEF r, g

(* What a stack has when it was cut at m, or filled up to it. *)
LEMMA ArgumentIs ==
  ASSUME NEW st, IsStack(st), NEW i \in Nat \ {0}
  PROVE  /\ \A m \in Nat : Argument(Resize(st, m), i) = IF i <= m THEN Argument(st, i) ELSE Nil
         /\ \A m \in 0 .. Len(st) : Argument(Truncate(st, m), i) = IF i <= m THEN Argument(st, i) ELSE Nil
<1>1. ASSUME NEW m \in Nat
      PROVE  Argument(Resize(st, m), i) = IF i <= m THEN Argument(st, i) ELSE Nil
  <2>1. Len(Resize(st, m)) = m /\ \A j \in 1 .. m : Resize(st, m)[j] = Argument(st, j)
    BY ResizeIs
  <2>2. i <= m => i \in 1 .. m
    OBVIOUS
  <2>3. Argument(Resize(st, m), i) = IF i <= Len(Resize(st, m)) THEN Resize(st, m)[i] ELSE Nil
    BY DEF Argument
  <2> QED BY <2>1, <2>2, <2>3
<1>2. ASSUME NEW m \in 0 .. Len(st)
      PROVE  Argument(Truncate(st, m), i) = IF i <= m THEN Argument(st, i) ELSE Nil
  <2>1. PICK T : st \in Seq(T)
    BY DEF IsStack
  <2>2. Len(st) \in Nat /\ Truncate(st, m) = SubSeq(st, 0 + 1, m) /\ 0 \in 0 .. Len(st)
    BY <2>1 DEF Truncate
  <2>3. /\ Len(Truncate(st, m)) = m - 0
        /\ \A j \in 1 .. m - 0 : Truncate(st, m)[j] = st[0 + j]
    BY <2>1, <2>2, CutIs
  <2>4. Argument(Truncate(st, m), i) = IF i <= Len(Truncate(st, m)) THEN Truncate(st, m)[i] ELSE Nil
    BY DEF Argument
  <2>5. Argument(st, i) = IF i <= Len(st) THEN st[i] ELSE Nil
    BY DEF Argument
  <2>6. CASE i <= m
    <3>1. i \in 1 .. m - 0 /\ i <= Len(st) /\ 0 + i = i
      BY <2>2, <2>6
    <3> QED BY <2>2, <2>3, <2>4, <2>5, <2>6, <3>1
  <2>7. CASE ~ (i <= m)
    BY <2>2, <2>3, <2>4, <2>7
  <2> QED BY <2>6, <2>7
<1> QED BY <1>1, <1>2

(* The registers of a frame, from a stack that was cut or filled *)
LEMMA RefillIs ==
  ASSUME NEW st, IsStack(st), NEW f, f.base \in Nat, f.size \in Nat, NEW x, NEW m \in Nat,
         x = Resize(st, m) \/ (x = Truncate(st, m) /\ m <= Len(st))
  PROVE  LET end == f.base + f.size
         IN  /\ Refill(f, x) = [i \in 1 .. end |-> IF i <= m THEN Argument(st, i) ELSE Nil]
             /\ Len(Refill(f, x)) = end
<1> DEFINE end == f.base + f.size
<1>1. end \in Nat /\ Len(st) \in Nat
  BY StackFacts
<1>2. \A i \in 1 .. end : Argument(x, i) = IF i <= m THEN Argument(st, i) ELSE Nil
  <2> SUFFICES ASSUME NEW i \in 1 .. end
               PROVE  Argument(x, i) = IF i <= m THEN Argument(st, i) ELSE Nil
    OBVIOUS
  <2>1. i \in Nat \ {0}
    BY <1>1
  <2>2. m <= Len(st) => m \in 0 .. Len(st)
    BY <1>1
  <2> QED BY <2>1, <2>2, ArgumentIs
<1>3. Refill(f, x) = Resize(x, end)
  BY DEF Refill
<1>4. Resize(x, end) = [i \in 1 .. end |-> Argument(x, i)] /\ Len(Resize(x, end)) = end
  BY <1>1, ResizeIs DEF Resize
<1> HIDE DEF end
<1>5. Refill(f, x) = [i \in 1 .. end |-> IF i <= m THEN Argument(st, i) ELSE Nil]
  BY <1>2, <1>3, <1>4
<1> QED BY <1>3, <1>4, <1>5 DEF end

LEMMA RefillResized ==
  ASSUME NEW st, IsStack(st), NEW f, f.base \in Nat, f.size \in Nat, NEW m \in Nat
  PROVE  LET s   == Refill(f, Resize(st, m))
             end == f.base + f.size
         IN  Len(s) = end /\ \A i \in 1 .. end : s[i] = IF i <= m THEN Argument(st, i) ELSE Nil
<1> DEFINE x == Resize(st, m)
<1>1. x = Resize(st, m)
  OBVIOUS
<1> HIDE DEF x
<1>2. LET end == f.base + f.size
      IN  Refill(f, x) = [i \in 1 .. end |-> IF i <= m THEN Argument(st, i) ELSE Nil] /\ Len(Refill(f, x)) = end
  BY <1>1, RefillIs
<1>3. LET s   == Refill(f, x)
          end == f.base + f.size
      IN  Len(s) = end /\ \A i \in 1 .. end : s[i] = IF i <= m THEN Argument(st, i) ELSE Nil
  BY <1>2
<1> QED BY <1>3 DEF x

(* A frame that goes on with the stack s lies where it should. *)
LEMMA ResumedPlaced ==
  ASSUME NEW S, NEW fs \in Seq(S), Nested(fs), Len(fs) > 0, NEW f, f = fs[Len(fs)], f.k = "Lua",
         NEW s, NEW p
  PROVE  LET g    == [fs EXCEPT ![Len(fs)] = Resumed(f, p)]
             open == f.ret.k = "normal" /\ f.ret.n = Variable
         IN  /\ open /\ Len(s) >= f.base => Placed(g, s)
             /\ ~ open /\ Len(s) = f.base + f.size => Placed(g, s)
<1> DEFINE open == f.ret.k = "normal" /\ f.ret.n = Variable
           g    == [fs EXCEPT ![Len(fs)] = Resumed(f, p)]
<1>1. /\ Len(g) = Len(fs) /\ Nested(g) /\ g[Len(fs)] = Resumed(f, p)
      /\ g[Len(fs)].base = f.base /\ g[Len(fs)].size = f.size /\ g[Len(fs)].var = open
  BY ResumedIs
<1> HIDE DEF g
<1>2. ASSUME open, Len(s) >= f.base PROVE Placed(g, s)
  <2>1. g[Len(fs)].var = TRUE
    BY <1>1, <1>2
  <2> QED BY <1>1, <1>2, <2>1 DEF HasRegisters, Placed
<1>3. ASSUME ~ open, Len(s) = f.base + f.size PROVE Placed(g, s)
  <2>1. g[Len(fs)].var = FALSE
    BY <1>1, <1>3
  <2> QED BY <1>1, <1>3, <2>1 DEF HasRegisters, Placed
<1> QED BY <1>2, <1>3 DEF g

(* return_to a Lua frame (thread.rs 439-495), for every expected return: the  *)
(* frames lie on the stack as they should, the frame has all its registers    *)
(* again, those below bottom as they were when it made the call, and the      *)
(* values of the call are where the instruction wants them: in place and      *)
(* filled up with nil, in one register, or in the program counter.  Only a    *)
(* call with a variable number of results leaves the stack as it is.          *)
THEOREM ReturnToCorrect ==
  ASSUME NEW S, NEW fs \in Seq(S), Nested(fs), Len(fs) > 0, NEW f, f = fs[Len(fs)],
         f.k = "Lua", f.base \in Nat, f.size \in Nat, IsReturn(f.ret, f.size),
         NEW st, IsStack(st), NEW bottom \in f.base .. Len(st)
  PROVE  LET r    == ReturnTo(fs, st, bottom)
             v    == Argument(st, bottom + 1)
             kept == IF f.ret.k = "normal" THEN bottom + f.ret.n ELSE bottom
             end  == f.base + f.size
             pass == f.ret.k = "skip" /\ ToBool(v) = f.ret.b
         IN  /\ Placed(r.frames, r.stack)
             /\ r.frames = [fs EXCEPT ![Len(fs)] = Resumed(f, pass)]
             /\ IF f.ret.k = "normal" /\ f.ret.n = Variable THEN r.stack = st
                ELSE /\ Len(r.stack) = end
                     /\ \A i \in 1 .. end :
                          r.stack[i] = IF f.ret.k = "register" /\ i = f.base + f.ret.r + 1 THEN v
                                       ELSE IF i <= kept THEN Argument(st, i) ELSE Nil
<1> DEFINE r    == ReturnTo(fs, st, bottom)
           v    == Argument(st, bottom + 1)
           kept == IF f.ret.k = "normal" THEN bottom + f.ret.n ELSE bottom
           end  == f.base + f.size
           To(s, p) == [frames |-> [fs EXCEPT ![Len(fs)] = Resumed(f, p)], stack |-> s]
           rest == Refill(f, Truncate(st, bottom))
<1>1. bottom \in Nat /\ Len(st) \in Nat /\ bottom <= Len(st) /\ bottom >= f.base /\ end \in Nat
  BY StackFacts
<1>2. r = CASE f.ret.k = "normal"   -> To(IF f.ret.n = Variable THEN st
                                          ELSE Refill(f, Resize(st, bottom + f.ret.n)), FALSE)
            [] f.ret.k = "discard"  -> To(rest, FALSE)
            [] f.ret.k = "register" -> To([rest EXCEPT ![f.base + f.ret.r + 1] = v], FALSE)
            [] f.ret.k = "skip"     -> To(rest, ToBool(v) = f.ret.b)
  <2>1. Len(fs) # 0 /\ f.k # "Sequence" /\ f.ret.k # "none" /\ fs[Len(fs)] = f
    BY DEF IsReturn
  <2> QED BY <2>1 DEF ReturnTo
<1>3. rest = [i \in 1 .. end |-> IF i <= bottom THEN Argument(st, i) ELSE Nil] /\ Len(rest) = end
  BY <1>1, RefillIs
<1> HIDE DEF rest
<1> DEFINE pass == f.ret.k = "skip" /\ ToBool(v) = f.ret.b
<1>4. CASE f.ret.k = "normal" /\ f.ret.n = Variable
  <2>1. r = To(st, FALSE)
    BY <1>2, <1>4
  <2>2. Resumed(f, pass) = Resumed(f, FALSE)
    BY <1>4 DEF Resumed
  <2> HIDE DEF pass
  <2>3. r.frames = [fs EXCEPT ![Len(fs)] = Resumed(f, pass)] /\ r.stack = st
    BY <2>1, <2>2
  <2>4. Placed(r.frames, r.stack)
    <3>1. Len(st) >= f.base
      BY <1>1
    <3>2. Placed([fs EXCEPT ![Len(fs)] = Resumed(f, pass)], st)
      BY <1>4, <3>1, ResumedPlaced
    <3> QED BY <2>3, <3>2
  <2> QED BY <1>4, <2>3, <2>4 DEF pass
<1>5. CASE f.ret.k = "normal" /\ f.ret.n # Variable
  <2> DEFINE s == Refill(f, Resize(st, kept))
  <2>1. f.ret.n \in Nat /\ kept = bottom + f.ret.n /\ kept \in Nat
    BY <1>1, <1>5 DEF IsReturn
  <2>2. r = To(s, FALSE)
    BY <1>2, <1>5, <2>1
  <2>3. Resumed(f, pass) = Resumed(f, FALSE)
    BY <1>5 DEF Resumed
  <2> HIDE DEF pass, kept
  <2>4. r.frames = [fs EXCEPT ![Len(fs)] = Resumed(f, pass)] /\ r.stack = s
    BY <2>2, <2>3
  <2>5. Len(s) = end /\ \A i \in 1 .. end : s[i] = IF i <= kept THEN Argument(st, i) ELSE Nil
    BY <2>1, RefillResized
  <2> HIDE DEF s
  <2>6. Placed(r.frames, r.stack)
    <3>1. Placed([fs EXCEPT ![Len(fs)] = Resumed(f, pass)], s)
      BY <1>5, <2>5, ResumedPlaced
    <3> QED BY <2>4, <3>1
  <2> HIDE DEF end
  <2>7. Len(r.stack) = end /\ \A i \in 1 .. end : r.stack[i] = IF i <= kept THEN Argument(st, i) ELSE Nil
    BY <2>4, <2>5
  <2> QED BY <1>5, <2>4, <2>6, <2>7 DEF pass, end, kept
<1>6. CASE f.ret.k = "discard" \/ f.ret.k = "skip"
  <2>1. r = To(rest, pass) /\ kept = bottom
    BY <1>2, <1>6
  <2>2. r.frames = [fs EXCEPT ![Len(fs)] = Resumed(f, pass)] /\ r.stack = rest
    BY <2>1
  <2> HIDE DEF kept, pass
  <2>3. Placed(r.frames, r.stack)
    <3>1. Placed([fs EXCEPT ![Len(fs)] = Resumed(f, pass)], rest)
      BY <1>3, <1>6, ResumedPlaced
    <3> QED BY <2>2, <3>1
  <2> HIDE DEF end
  <2>4. Len(r.stack) = end /\ \A i \in 1 .. end : r.stack[i] = IF i <= kept THEN Argument(st, i) ELSE Nil
    BY <1>3, <2>1, <2>2
  <2> QED BY <1>6, <2>2, <2>3, <2>4 DEF pass, end, kept
<1>7. CASE f.ret.k = "register"
  <2> DEFINE at == f.base + f.ret.r + 1
             s  == [rest EXCEPT ![at] = v]
  <2>1. r = To(s, FALSE) /\ kept = bottom
    BY <1>2, <1>7
  <2>2. Resumed(f, pass) = Resumed(f, FALSE)
    BY <1>7 DEF Resumed
  <2> HIDE DEF kept, pass
  <2>3. r.frames = [fs EXCEPT ![Len(fs)] = Resumed(f, pass)] /\ r.stack = s
    BY <2>1, <2>2
  <2>4. at \in 1 .. end
    <3>1. f.ret.r \in 0 .. f.size - 1
      BY <1>7 DEF IsReturn
    <3> QED BY <3>1
  <2>5. DOMAIN rest = 1 .. end /\ \A i \in 1 .. end : rest[i] = IF i <= bottom THEN Argument(st, i) ELSE Nil
    BY <1>3
  <2>6. \A i \in 1 .. end : s[i] = IF i = at THEN v ELSE rest[i]
    BY <2>4, <2>5
  <2>7. s = [i \in 1 .. end |-> s[i]]
    BY <2>5
  <2> HIDE DEF s
  <2>8. Len(s) = end
    BY <1>1, <2>7
  <2>9. Placed(r.frames, r.stack)
    <3>1. Placed([fs EXCEPT ![Len(fs)] = Resumed(f, pass)], s)
      BY <1>7, <2>8, ResumedPlaced
    <3> QED BY <2>3, <3>1
  <2> HIDE DEF end, v, at
  <2>10. /\ Len(r.stack) = end
         /\ \A i \in 1 .. end :
              r.stack[i] = IF i = at THEN v ELSE IF i <= kept THEN Argument(st, i) ELSE Nil
    BY <2>1, <2>3, <2>5, <2>6, <2>8
  <2> QED BY <1>7, <2>3, <2>9, <2>10 DEF pass, end, kept, at, v
<1> QED BY <1>4, <1>5, <1>6, <1>7 DEF IsReturn

=============================================================================
