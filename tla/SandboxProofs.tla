--------------------------- MODULE SandboxProofs ---------------------------
(***************************************************************************)
(* Safety of the fuel budget and of the memory quota, for any budgets,     *)
(* slice length, cost of an iteration and quota.                           *)
(*                                                                         *)
(* BudgetIsTotal speaks of the slice boundaries only.  What makes it       *)
(* inductive is the same account inside of a slice, where the fuel counter *)
(* holds what remaining does not show yet (Account), and that step is only *)
(* called, and only goes on, with fuel left (FuelLeft).                    *)
(***************************************************************************)
EXTENDS Sandbox, TLAPS

\* What is left of the budget and what was charged make up the budget, at the
\* boundary of a slice and within it.
Account ==
    /\ pc \in {"host", "slice"} => remaining = initial - spent
    /\ pc \notin {"host", "slice"} => Charged = initial - spent

\* A slice begins with budget left or is the first one, and step only goes on
\* with fuel that the slice was given.
FuelLeft ==
    /\ pc \in {"slice", "step"} => remaining > 0 \/ spent = 0
    /\ pc = "step" => fuel \in 1 .. slice /\ slice = Clamped(remaining)

\* TypeOK in two parts: the call and the arena
CallType ==
    /\ pc \in {"host", "slice", "step", "boundary", "done"}
    /\ result \in {"none", "FuelExhausted", "OutOfMemory", "taken"}
    /\ initial \in Int /\ remaining \in Int /\ slice \in 0 .. FuelPerGc /\ fuel \in Int /\ spent \in Nat
HeapType ==
    /\ retained \in Nat /\ garbage \in Nat /\ cycle \in BOOLEAN
    /\ floating \in 0 .. garbage /\ (~cycle => floating = 0)
FlagType == interrupted \in BOOLEAN /\ top \in Top /\ quota_yielded \in BOOLEAN

\* A call has a result only once it has returned.
ResultIsReturned == result # "none" => pc = "host"

BudgetInv == Account /\ FuelLeft /\ ResultIsReturned /\ BudgetIsTotal /\ ExhaustedIsSpent

IInv == CallType /\ HeapType /\ FlagType /\ BudgetInv

-----------------------------------------------------------------------------
(* What the arena can look like at a slice boundary *)

\* What garbage, cycle and floating of a heap are
IsHeap(heap) ==
    /\ heap.garbage \in Nat /\ heap.cycle \in BOOLEAN
    /\ heap.floating \in Nat /\ (~heap.cycle => heap.floating = 0)

(* A collection that completes leaves no floating garbage. *)
LEMMA CompletedIsHeap ==
  ASSUME NEW g \in Nat, NEW heap \in [garbage : 0 .. g, cycle : {FALSE}, floating : {0}]
  PROVE  IsHeap(heap)
<1>1. heap.cycle \in BOOLEAN
  BY Zenon
<1>2. heap.garbage \in Nat /\ heap.floating \in Nat /\ heap.floating = 0
  OBVIOUS
<1> QED BY <1>1, <1>2, Zenon DEF IsHeap

(* One that does not may leave some. *)
LEMMA UnfinishedIsHeap ==
  ASSUME NEW g \in Nat, NEW f \in Nat, NEW heap \in [garbage : 0 .. g, cycle : {TRUE}, floating : 0 .. f]
  PROVE  IsHeap(heap)
<1>1. heap.cycle = TRUE
  BY Zenon
<1>2. heap.garbage \in Nat /\ heap.floating \in Nat
  OBVIOUS
<1> QED BY <1>1, <1>2 DEF IsHeap

(* Lua::enter leaves a heap that is well formed, whatever debt it pays. *)
LEMMA EnteredIsHeap == ASSUME HeapType, NEW heap \in Entered PROVE IsHeap(heap)
<1>1. garbage \in Nat /\ floating \in Nat
  BY DEF HeapType
<1>2. CASE ~cycle
  <2>1. heap \in [garbage : {garbage}, cycle : BOOLEAN, floating : {0}]
    BY <1>2 DEF Entered
  <2>2. heap.cycle \in BOOLEAN
    BY <2>1, Zenon
  <2>3. heap.garbage \in Nat /\ heap.floating = 0
    BY <1>1, <2>1
  <2> QED BY <2>2, <2>3 DEF IsHeap
<1>3. CASE cycle
  <2>1. CASE heap \in [garbage : 0 .. garbage, cycle : {TRUE}, floating : 0 .. floating]
    BY <1>1, <2>1, UnfinishedIsHeap, Zenon
  <2>2. CASE heap \in [garbage : 0 .. floating, cycle : {FALSE}, floating : {0}]
    BY <1>1, <2>2, CompletedIsHeap, Zenon
  <2> QED BY <1>3, <2>1, <2>2 DEF Entered
<1> QED BY <1>2, <1>3 DEF HeapType

(* So does a collection under quota pressure. *)
LEMMA BoundariesIsHeap == ASSUME HeapType, NEW limit, NEW heap \in Boundaries(limit) PROVE IsHeap(heap)
<1>1. PICK entered \in Entered : heap = entered \/ heap \in Collected(entered)
  BY DEF Boundaries
<1>2. IsHeap(entered)
  BY EnteredIsHeap
<1> QED BY <1>1, <1>2, CompletedIsHeap DEF Collected, IsHeap

(* The heap that the host leaves is typed. *)
LEMMA LeaveHeapType == ASSUME HeapType, NEW heap, IsHeap(heap), LeaveHeap(heap) PROVE HeapType'
  BY DEF HeapType, LeaveHeap, IsHeap

(* Bytes that are discarded keep the heap typed. *)
LEMMA DiscardType ==
  ASSUME HeapType, NEW bytes \in Nat, Discard(bytes), retained' \in Nat
  PROVE  HeapType'
  BY DEF HeapType, Discard

(* A slice has at least one unit of fuel, at most FUEL_PER_GC, and never more *)
(* than the budget that is left, if any is. *)
LEMMA ClampedBounds ==
  ASSUME NEW n \in Int
  PROVE  /\ Clamped(n) \in 1 .. FuelPerGc
         /\ n > 0 => Clamped(n) <= n
  BY ConstantsAssumption DEF Clamped

-----------------------------------------------------------------------------
(* The budget *)

(* A call begins with its whole budget. *)
LEMMA ExecuteBudget ==
  ASSUME CallType, NEW budget \in Budget, execute_with_fuel(budget)
  PROVE  (CallType /\ BudgetInv)'
<1>1. budget \in Int
  BY ConstantsAssumption
<1>2. (Account /\ FuelLeft /\ ResultIsReturned)'
  BY <1>1 DEF execute_with_fuel, Account, FuelLeft, ResultIsReturned
<1>3. (BudgetIsTotal /\ ExhaustedIsSpent)'
  BY <1>1, ConstantsAssumption DEF execute_with_fuel, BudgetIsTotal, ExhaustedIsSpent
<1>4. CallType'
  BY <1>1, ConstantsAssumption DEF execute_with_fuel, CallType
<1> QED BY <1>2, <1>3, <1>4 DEF BudgetInv

(* A slice takes nothing from the budget before it is charged. *)
LEMMA BeginSliceBudget == ASSUME CallType, BudgetInv, BeginSlice PROVE (CallType /\ BudgetInv)'
<1> USE DEF BudgetInv, BeginSlice
<1>1. remaining \in Int /\ initial \in Int /\ spent \in Nat
  BY DEF CallType
<1>2. Clamped(remaining) \in 1 .. FuelPerGc
  BY <1>1, ClampedBounds
<1>3. (Account /\ FuelLeft /\ ResultIsReturned)'
  BY <1>1, <1>2, ConstantsAssumption DEF Account, FuelLeft, ResultIsReturned, Charged
<1>4. (BudgetIsTotal /\ ExhaustedIsSpent)'
  BY <1>1 DEF BudgetIsTotal, ExhaustedIsSpent, Account
<1>5. CallType'
  BY <1>1, <1>2, ConstantsAssumption DEF CallType
<1> QED BY <1>3, <1>4, <1>5

(* An iteration of step that charges cost and, if fuel is left, goes on: the *)
(* part of the invariant that is about the budget. *)
LEMMA ChargePreserves ==
  ASSUME CallType, BudgetInv, pc = "step", NEW cost \in 1 .. MaxCost,
         fuel' = fuel - cost, spent' = spent + cost, UNCHANGED <<result, initial, remaining, slice>>,
         pc' \in {"step", "boundary"}, pc' = "step" => fuel - cost > 0
  PROVE  (CallType /\ BudgetInv)'
<1> USE DEF BudgetInv
<1>1. /\ remaining \in Int /\ initial \in Int /\ spent \in Nat /\ fuel \in Int /\ slice \in Int
      /\ cost \in Int /\ cost >= 1 /\ cost <= MaxCost /\ MaxCost \in Int
  BY ConstantsAssumption DEF CallType
<1>2. /\ remaining - (slice - fuel) = initial - spent
      /\ fuel > 0 /\ fuel <= slice /\ slice = Clamped(remaining)
  BY <1>1 DEF Account, FuelLeft, Charged
<1>3. (Account /\ ResultIsReturned /\ ExhaustedIsSpent)'
  BY <1>1, <1>2 DEF Account, ResultIsReturned, ExhaustedIsSpent, Charged
<1>4. spent' < (IF initial > 0 THEN initial ELSE 1) + MaxCost
  <2>1. CASE remaining > 0
    <3>1. slice <= remaining
      BY <1>1, <1>2, <2>1, ClampedBounds
    <3>2. spent < initial
      BY <1>1, <1>2, <3>1
    <3> QED BY <1>1, <3>2
  <2>2. CASE spent = 0
    BY <1>1, <2>2
  <2> QED BY <1>1, <2>1, <2>2 DEF FuelLeft
<1>5. FuelLeft'
  <2>1. CASE pc' # "step"
    BY <2>1 DEF FuelLeft
  <2>2. CASE pc' = "step"
    <3>1. fuel' \in 1 .. slice' /\ slice' = Clamped(remaining')
      BY <1>1, <1>2, <2>2
    <3>2. remaining' > 0
      <4>1. CASE remaining > 0
        BY <4>1
      <4>2. CASE ~(remaining > 0)
        <5>1. slice = 1
          BY <1>1, <1>2, <4>2 DEF Clamped
        <5> QED BY <1>1, <1>2, <2>2, <5>1
      <4> QED BY <4>1, <4>2
    <3> QED BY <2>2, <3>1, <3>2 DEF FuelLeft
  <2> QED BY <2>1, <2>2
<1>6. CallType'
  BY <1>1 DEF CallType
<1> QED BY <1>1, <1>3, <1>4, <1>5, <1>6 DEF BudgetIsTotal

(* At the boundary the whole slice is charged, and the call goes on only with *)
(* budget left. *)
LEMMA BoundaryBudget ==
  ASSUME CallType, BudgetInv, pc \in {"boundary", "done"},
         remaining' = Charged, UNCHANGED <<initial, slice, fuel, spent>>,
         \/ pc' = "slice" /\ Charged > 0 /\ result' = result
         \/ /\ pc' = "host" /\ result' \in {"FuelExhausted", "OutOfMemory", "taken"}
            /\ result' = "FuelExhausted" => Charged <= 0
  PROVE  (CallType /\ BudgetInv)'
<1> USE DEF BudgetInv
<1>1. /\ remaining \in Int /\ initial \in Int /\ spent \in Nat /\ fuel \in Int /\ slice \in Int
  BY ConstantsAssumption DEF CallType
<1>2. Charged = initial - spent /\ Charged \in Int /\ result = "none"
  BY <1>1 DEF Account, Charged, ResultIsReturned
<1>3. (Account /\ FuelLeft /\ ResultIsReturned)'
  BY <1>1, <1>2 DEF Account, FuelLeft, ResultIsReturned
<1>4. (BudgetIsTotal /\ ExhaustedIsSpent)'
  BY <1>1, <1>2 DEF BudgetIsTotal, ExhaustedIsSpent
<1>5. CallType'
  BY <1>1, <1>2 DEF CallType
<1> QED BY <1>3, <1>4, <1>5

-----------------------------------------------------------------------------
(* Each action preserves IInv. *)

(* An iteration of step ends with a step or a boundary, and goes on only with *)
(* fuel: the quota test may end the slice early but never extends it. *)
LEMMA QuotaCheckType ==
  ASSUME FlagType, NEW after \in Top, NEW now, NEW stop \in BOOLEAN, QuotaCheck(after, now, stop)
  PROVE  /\ pc' \in {"step", "boundary"} /\ (pc' = "step" => ~stop)
         /\ top' \in Top /\ quota_yielded' \in BOOLEAN
<1>1. CASE after # "injectable"
  BY <1>1 DEF QuotaCheck, FlagType
<1>2. CASE after = "injectable" /\ now <= MaxBytes
  BY <1>2 DEF QuotaCheck, FlagType
<1>3. CASE after = "injectable" /\ ~(now <= MaxBytes)
  BY <1>3 DEF QuotaCheck, FlagType, Top
<1> QED BY <1>1, <1>2, <1>3

LEMMA IteratePreserves ==
  ASSUME IInv, NEW cost \in 1 .. MaxCost, NEW more \in Nat, NEW freed \in Nat, NEW waste \in Nat,
         NEW after \in Top, NEW interrupt \in BOOLEAN,
         Iterate(cost, more, freed, waste, after, interrupt)
  PROVE  IInv'
<1> USE DEF IInv
<1> DEFINE now == total_allocation + more + waste
           stop == ~should_continue(cost, interrupt)
<1>1. QuotaCheck(after, now, stop) /\ stop \in BOOLEAN
  BY DEF Iterate, should_continue
<1>2. /\ pc' \in {"step", "boundary"} /\ (pc' = "step" => ~stop)
      /\ top' \in Top /\ quota_yielded' \in BOOLEAN
  <2> HIDE DEF now, stop
  <2> QED BY <1>1, QuotaCheckType
<1>3. /\ pc = "step" /\ fuel' = fuel - cost /\ spent' = spent + cost /\ interrupted' = interrupt
      /\ UNCHANGED <<result, initial, remaining, slice>>
  BY DEF Iterate
<1>4. (CallType /\ BudgetInv)'
  BY <1>2, <1>3, ChargePreserves DEF should_continue
<1>5. FlagType'
  BY <1>2, <1>3 DEF FlagType
<1>6. HeapType'
  <2>1. retained' \in Nat /\ freed + waste \in Nat /\ Discard(freed + waste)
    BY DEF Iterate, HeapType
  <2> QED BY <2>1, DiscardType
<1> QED BY <1>4, <1>5, <1>6

LEMMA RefusePreserves ==
  ASSUME IInv, NEW cost \in 1 .. MaxCost, NEW additional, Refuse(cost, additional)
  PROVE  IInv'
<1> USE DEF IInv
<1>1. /\ pc = "step" /\ fuel' = fuel - cost /\ spent' = spent + cost
      /\ UNCHANGED <<result, initial, remaining, slice>>
      /\ pc' \in {"step", "boundary"} /\ (pc' = "step" => fuel - cost > 0)
  BY DEF Refuse, should_continue
<1>2. (CallType /\ BudgetInv)'
  BY <1>1, ChargePreserves
<1>3. HeapType'
  BY DEF Refuse, heapVars, HeapType
<1>4. FlagType'
  BY DEF Refuse, FlagType, Top
<1> QED BY <1>2, <1>3, <1>4

(* A boundary, or the end, of the call. *)
LEMMA BoundaryPreserves ==
  ASSUME IInv, NEW heap, IsHeap(heap),
         BoundaryExhausted(heap) \/ BoundaryContinues(heap) \/ Finish(heap)
  PROVE  IInv'
<1> USE DEF IInv
<1>1. LeaveHeap(heap)
  BY DEF BoundaryExhausted, BoundaryContinues, Finish
<1>2. (CallType /\ BudgetInv)'
  BY BoundaryBudget DEF BoundaryExhausted, BoundaryContinues, Finish
<1>3. HeapType'
  BY <1>1, LeaveHeapType
<1>4. FlagType'
  BY DEF BoundaryExhausted, BoundaryContinues, Finish, FlagType, Top
<1> QED BY <1>2, <1>3, <1>4

LEMMA ExecutePreserves ==
  ASSUME IInv, NEW budget \in Budget, execute_with_fuel(budget) PROVE IInv'
<1> USE DEF IInv, execute_with_fuel
<1>1. (CallType /\ BudgetInv)'
  BY ExecuteBudget
<1>2. HeapType'
  BY DEF HeapType, memoryVars, heapVars
<1>3. FlagType'
  BY DEF FlagType, memoryVars
<1> QED BY <1>1, <1>2, <1>3

LEMMA BeginSlicePreserves == ASSUME IInv, BeginSlice PROVE IInv'
<1> USE DEF IInv
<1>1. (CallType /\ BudgetInv)'
  BY BeginSliceBudget
<1>2. HeapType'
  BY DEF BeginSlice, HeapType, memoryVars, heapVars
<1>3. FlagType'
  BY DEF BeginSlice, FlagType, memoryVars
<1> QED BY <1>1, <1>2, <1>3

LEMMA StepReturnsTruePreserves == ASSUME IInv, StepReturnsTrue PROVE IInv'
<1> USE DEF IInv, StepReturnsTrue, callVars, memoryVars, heapVars
<1>1. CallType'
  BY DEF CallType
<1>2. BudgetInv'
  BY DEF BudgetInv, Account, FuelLeft, ResultIsReturned, BudgetIsTotal, ExhaustedIsSpent, Charged
<1>3. HeapType'
  BY DEF HeapType
<1>4. FlagType'
  BY DEF FlagType
<1> QED BY <1>1, <1>2, <1>3, <1>4

LEMMA HostFreesPreserves == ASSUME IInv, NEW freed \in Nat, HostFrees(freed) PROVE IInv'
<1> USE DEF IInv, HostFrees, callVars
<1>1. CallType'
  BY DEF CallType
<1>2. BudgetInv'
  BY DEF BudgetInv, Account, FuelLeft, ResultIsReturned, BudgetIsTotal, ExhaustedIsSpent, Charged
<1>3. retained' \in Nat /\ retained' = retained - freed
  BY DEF HeapType
<1>4. HeapType'
  BY <1>3, DiscardType
<1>5. FlagType'
  BY DEF FlagType, Top
<1> QED BY <1>1, <1>2, <1>4, <1>5

(* IInv is an invariant of the whole sandbox loop. *)
THEOREM Inductive == Spec => []IInv
<1>1. Init => IInv
  <2> SUFFICES ASSUME Init PROVE IInv
    OBVIOUS
  <2> USE DEF Init
  <2>1. CallType /\ BudgetInv
    BY ConstantsAssumption DEF CallType, BudgetInv, Account, FuelLeft, ResultIsReturned,
       BudgetIsTotal, ExhaustedIsSpent
  <2>2. HeapType
    <3>1. cycle \in BOOLEAN
      OBVIOUS
    <3>2. retained \in Nat /\ garbage \in Nat /\ floating \in 0 .. garbage /\ floating = 0
      OBVIOUS
    <3> QED BY <3>1, <3>2, Zenon DEF HeapType
  <2>3. FlagType
    BY DEF FlagType, Top
  <2> QED BY <2>1, <2>2, <2>3 DEF IInv
<1>2. IInv /\ [Next]_vars => IInv'
  <2> SUFFICES ASSUME IInv, [Next]_vars PROVE IInv'
    OBVIOUS
  <2>1. CASE UNCHANGED vars
    <3> USE <2>1 DEF vars, callVars, memoryVars, heapVars, IInv
    <3>1. CallType' /\ BudgetInv'
      BY DEF CallType, BudgetInv, Account, FuelLeft, ResultIsReturned, BudgetIsTotal,
         ExhaustedIsSpent, Charged
    <3>2. HeapType'
      BY DEF HeapType
    <3>3. FlagType'
      BY DEF FlagType
    <3> QED BY <3>1, <3>2, <3>3
  <2>2. ASSUME NEW budget \in Budget, execute_with_fuel(budget) PROVE IInv'
    BY <2>2, ExecutePreserves
  <2>3. ASSUME NEW freed \in 1 .. MaxTotal, HostFrees(freed) PROVE IInv'
    BY <2>3, HostFreesPreserves, ConstantsAssumption
  <2>4. CASE ScriptStep
    <3>1. 0 .. MaxAlloc \subseteq Nat
      BY ConstantsAssumption
    <3> QED BY <2>4, <3>1, IteratePreserves, RefusePreserves, StepReturnsTruePreserves DEF ScriptStep
  <2>5. ASSUME NEW heap \in Entered, BoundaryExhausted(heap) PROVE IInv'
    BY <2>5, EnteredIsHeap, BoundaryPreserves DEF IInv
  <2>6. ASSUME NEW heap \in Boundaries(MaxBytes), BoundaryContinues(heap) PROVE IInv'
    BY <2>6, BoundariesIsHeap, BoundaryPreserves DEF IInv
  <2>7. ASSUME NEW heap \in Boundaries(MaxBytes + 1), Finish(heap) PROVE IInv'
    BY <2>7, BoundariesIsHeap, BoundaryPreserves DEF IInv
  <2> QED BY <2>1, <2>2, <2>3, <2>4, <2>5, <2>6, <2>7, BeginSlicePreserves DEF Next, CallStep
<1> QED BY <1>1, <1>2, PTL DEF Spec

-----------------------------------------------------------------------------
(* Every variable has its type. *)
THEOREM TypeCorrect == Spec => []TypeOK
<1>1. IInv => TypeOK
  BY DEF IInv, CallType, HeapType, FlagType, TypeOK
<1> QED BY Inductive, <1>1, PTL

(* No fuel that was charged is lost at a slice boundary, and a call is charged *)
(* less than one iteration over its budget, however it is cut into slices. *)
THEOREM BudgetIsTotalAlways == Spec => []BudgetIsTotal
<1>1. IInv => BudgetIsTotal
  BY DEF IInv, BudgetInv
<1> QED BY Inductive, <1>1, PTL

(* FuelExhausted is returned only for a budget that is spent. *)
THEOREM ExhaustedIsSpentAlways == Spec => []ExhaustedIsSpent
<1>1. IInv => ExhaustedIsSpent
  BY DEF IInv, BudgetInv
<1> QED BY Inductive, <1>1, PTL

(* What floats at the return of enter was floating before: enter may begin a *)
(* cycle or end one, but it makes no garbage. *)
LEMMA EnteredFloating == ASSUME HeapType, NEW heap \in Entered PROVE heap.floating <= floating
<1>1. garbage \in Nat /\ floating \in Nat
  BY DEF HeapType
<1>2. CASE ~cycle
  <2>1. heap \in [garbage : {garbage}, cycle : BOOLEAN, floating : {0}]
    BY <1>2 DEF Entered
  <2> QED BY <1>1, <2>1
<1>3. CASE cycle
  <2>1. CASE heap \in [garbage : 0 .. garbage, cycle : {TRUE}, floating : 0 .. floating]
    BY <1>1, <2>1
  <2>2. CASE heap \in [garbage : 0 .. floating, cycle : {FALSE}, floating : {0}]
    BY <1>1, <2>2
  <2> QED BY <1>3, <2>1, <2>2 DEF Entered
<1> QED BY <1>2, <1>3 DEF HeapType

(* What enforce_memory_limit refuses is retained, or has died since the cycle *)
(* that it completes began: of the garbage no more than what floats through   *)
(* that cycle is left when the total is read again.                           *)
THEOREM HostRefusalIsRetainedAlways == Spec => HostRefusalIsRetained
<1> DEFINE Refusal == result' = "OutOfMemory" /\ result # "OutOfMemory" => retained + floating > MaxBytes
<1>1. IInv /\ [Next]_vars => [Refusal]_vars
  <2> SUFFICES ASSUME IInv, Next, result' = "OutOfMemory", result # "OutOfMemory"
               PROVE  retained + floating > MaxBytes
    OBVIOUS
  <2>1. PICK heap \in Boundaries(MaxBytes + 1) : Finish(heap)
    BY DEF Next, CallStep, ScriptStep, execute_with_fuel, HostFrees, BeginSlice, Iterate, Refuse,
       StepReturnsTrue, BoundaryExhausted, BoundaryContinues
  <2>2. retained + heap.garbage > MaxBytes
    BY <2>1 DEF Finish
  <2>3. PICK entered \in Entered :
           IF retained + entered.garbage >= MaxBytes + 1 THEN heap \in Collected(entered) ELSE heap = entered
    BY DEF Boundaries
  <2>4. HeapType
    BY DEF IInv
  <2>5. /\ retained \in Nat /\ floating \in Nat /\ MaxBytes \in Nat
        /\ entered.garbage \in Nat /\ entered.floating \in Nat
    <3>1. IsHeap(entered)
      BY <2>4, EnteredIsHeap
    <3> QED BY <2>4, <3>1, ConstantsAssumption DEF HeapType, IsHeap
  <2>6. entered.floating <= floating
    BY <2>4, EnteredFloating
  <2>7. heap \in Collected(entered)
    <3>1. retained + entered.garbage >= MaxBytes + 1
      <4> SUFFICES ASSUME ~(retained + entered.garbage >= MaxBytes + 1) PROVE FALSE
        OBVIOUS
      <4>1. heap.garbage = entered.garbage
        BY <2>3
      <4> QED BY <2>2, <2>5, <4>1
    <3> QED BY <2>3, <3>1
  <2>8. heap.garbage \in 0 .. entered.floating
    BY <2>7 DEF Collected
  <2> QED BY <2>2, <2>5, <2>6, <2>8
<1> QED BY Inductive, <1>1, PTL DEF Spec, HostRefusalIsRetained

-----------------------------------------------------------------------------
(***************************************************************************)
(* Why execute_with_fuel returns.  CallReturns itself is temporal and      *)
(* stays with TLC; what is proved is the variant it rests on: every step   *)
(* of a call either returns to the host or lowers a natural number, three  *)
(* for each unit of fuel that may still be charged and one for each point  *)
(* of the loop that is passed without a charge.                            *)
(***************************************************************************)
PointsLeft ==
    CASE pc = "boundary" -> 3
      [] pc = "slice"    -> 2
      [] pc = "step"     -> 1
      [] OTHER           -> 0
Chargeable == (IF initial > 0 THEN initial ELSE 1) + MaxCost - spent
StepsLeft == 3 * Chargeable + PointsLeft
StepsLeftIsNat == StepsLeft \in Nat

(* The variant is a natural number, since no call is charged more than *)
(* BudgetIsTotal says. *)
LEMMA StepsLeftBound == IInv => StepsLeftIsNat
<1> SUFFICES ASSUME IInv PROVE StepsLeft \in Nat
  BY DEF StepsLeftIsNat
<1>1. initial \in Int /\ spent \in Nat /\ MaxCost \in Nat
  BY ConstantsAssumption DEF IInv, CallType
<1>2. Chargeable \in Nat
  BY <1>1 DEF IInv, BudgetInv, BudgetIsTotal, Chargeable
<1>3. PointsLeft \in 0 .. 3
  BY DEF PointsLeft
<1> QED BY <1>2, <1>3 DEF StepsLeft

(* The arithmetic of the variant *)
LEMMA VariantLess ==
  ASSUME NEW c \in Int, NEW d \in Int, NEW p \in 0 .. 3, NEW q \in 0 .. 3,
         (d < c /\ p = 1) \/ (d = c /\ q < p)
  PROVE  3 * d + q < 3 * c + p
  OBVIOUS

(* An iteration that is charged for lowers the variant, wherever it leads. *)
LEMMA ChargedDecreases ==
  ASSUME IInv, NEW cost \in 1 .. MaxCost,
         pc = "step", spent' = spent + cost, initial' = initial
  PROVE  StepsLeft' < StepsLeft
<1>1. initial \in Int /\ spent \in Nat /\ MaxCost \in Nat
  BY ConstantsAssumption DEF IInv, CallType
<1>2. Chargeable \in Int /\ Chargeable' \in Int /\ Chargeable' < Chargeable
  BY <1>1 DEF Chargeable
<1>3. PointsLeft = 1 /\ PointsLeft \in 0 .. 3 /\ PointsLeft' \in 0 .. 3
  BY DEF PointsLeft
<1>4. StepsLeft = 3 * Chargeable + PointsLeft /\ StepsLeft' = 3 * Chargeable' + PointsLeft'
  BY DEF StepsLeft
<1>5. 3 * Chargeable' + PointsLeft' < 3 * Chargeable + PointsLeft
  BY <1>1, <1>2, <1>3, VariantLess
<1> QED BY <1>4, <1>5

(* A step without a charge lowers the variant by the point it passes. *)
LEMMA PassedDecreases ==
  ASSUME IInv, UNCHANGED <<spent, initial>>, PointsLeft' < PointsLeft
  PROVE  StepsLeft' < StepsLeft
<1>1. initial \in Int /\ spent \in Nat /\ MaxCost \in Nat
  BY ConstantsAssumption DEF IInv, CallType
<1>2. Chargeable \in Int /\ Chargeable' = Chargeable
  BY <1>1 DEF Chargeable
<1>3. PointsLeft \in 0 .. 3 /\ PointsLeft' \in 0 .. 3
  BY DEF PointsLeft
<1>4. StepsLeft = 3 * Chargeable + PointsLeft /\ StepsLeft' = 3 * Chargeable' + PointsLeft'
  BY DEF StepsLeft
<1>5. 3 * Chargeable' + PointsLeft' < 3 * Chargeable + PointsLeft
  BY <1>1, <1>2, <1>3, VariantLess
<1> QED BY <1>4, <1>5

(* While a call runs, every step returns to the host or lowers StepsLeft, a *)
(* natural number: no slicing, quota yield, refusal or collection keeps     *)
(* execute_with_fuel in its loop for more steps than that (lua.rs 516-560). *)
THEOREM CallStepDecreases ==
  Spec => [][pc # "host" => pc' = "host" \/ (StepsLeft' \in Nat /\ StepsLeft' < StepsLeft)]_vars
<1> DEFINE Decreases == pc # "host" => pc' = "host" \/ (StepsLeft' \in Nat /\ StepsLeft' < StepsLeft)
<1>1. IInv /\ StepsLeftIsNat' /\ [Next]_vars => [Decreases]_vars
  <2> SUFFICES ASSUME IInv, StepsLeftIsNat', Next, pc # "host", pc' # "host"
               PROVE  StepsLeft' \in Nat /\ StepsLeft' < StepsLeft
    OBVIOUS
  <2>1. StepsLeft' \in Nat
    BY DEF StepsLeftIsNat
  <2>2. CallStep
    BY DEF Next, execute_with_fuel, HostFrees
  <2>3. CASE BeginSlice
    <3>1. PointsLeft' < PointsLeft /\ UNCHANGED <<spent, initial>>
      BY <2>3 DEF BeginSlice, PointsLeft
    <3> QED BY <2>1, <3>1, PassedDecreases
  <2>4. ASSUME NEW cost \in 1 .. MaxCost, NEW more, NEW freed, NEW waste, NEW after, NEW interrupt,
               Iterate(cost, more, freed, waste, after, interrupt)
        PROVE  StepsLeft' < StepsLeft
    <3>1. pc = "step" /\ spent' = spent + cost /\ initial' = initial
      BY <2>4 DEF Iterate
    <3> QED BY <3>1, ChargedDecreases
  <2>5. ASSUME NEW cost \in 1 .. MaxCost, NEW additional, Refuse(cost, additional)
        PROVE  StepsLeft' < StepsLeft
    <3>1. pc = "step" /\ spent' = spent + cost /\ initial' = initial
      BY <2>5 DEF Refuse
    <3> QED BY <3>1, ChargedDecreases
  <2>6. CASE StepReturnsTrue
    <3>1. PointsLeft' < PointsLeft /\ UNCHANGED <<spent, initial>>
      BY <2>6 DEF StepReturnsTrue, PointsLeft, callVars
    <3> QED BY <2>1, <3>1, PassedDecreases
  <2>7. ASSUME NEW heap, BoundaryContinues(heap)
        PROVE  StepsLeft' < StepsLeft
    <3>1. PointsLeft' < PointsLeft /\ UNCHANGED <<spent, initial>>
      BY <2>7 DEF BoundaryContinues, PointsLeft
    <3> QED BY <3>1, PassedDecreases
  <2>8. ASSUME NEW heap, BoundaryExhausted(heap) \/ Finish(heap)
        PROVE  FALSE
    BY <2>8 DEF BoundaryExhausted, Finish
  <2> QED BY <2>1, <2>2, <2>3, <2>4, <2>5, <2>6, <2>7, <2>8 DEF CallStep, ScriptStep
<1> QED BY Inductive, StepsLeftBound, <1>1, PTL DEF Spec

=============================================================================
