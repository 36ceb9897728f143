------------------------------ MODULE Sandbox ------------------------------
(***************************************************************************)
(* The fuel budget and the memory quota: Lua::execute_with_fuel and the    *)
(* quota functions of phodopus/lua.rs, fuel.rs, memory.rs, and the fuel    *)
(* and quota tests of the loop of Executor::step (thread/executor.rs).     *)
(*                                                                         *)
(* The script is abstracted to what each iteration costs, how much memory  *)
(* it allocates and lets go of, and what kind of frame it leaves on top.   *)
(* Memory that nothing reaches is garbage, the rest retained, and          *)
(* Metrics::total_allocation is their sum.  A collection finishes the      *)
(* cycle that is under way, and what died since that cycle began may       *)
(* float through it (GcArena: a marked value is kept by its sweep).        *)
(***************************************************************************)
EXTENDS Naturals, Integers

CONSTANTS
    FuelPerGc,   \* FUEL_PER_GC of execute_with_fuel
    MaxCost,     \* bound: the fuel one iteration may consume
    Budget,      \* the total budgets the host calls execute_with_fuel with
    MaxBytes,    \* MemoryLimit.max_bytes
    MaxAlloc,    \* bound: the bytes one iteration may allocate
    MaxTotal     \* bound: the bytes the arena may hold

ASSUME ConstantsAssumption ==
    /\ FuelPerGc \in Nat \ {0} /\ MaxCost \in Nat \ {0}
    /\ Budget \subseteq Int
    /\ MaxBytes \in Nat /\ MaxAlloc \in Nat /\ MaxTotal \in Nat

VARIABLES
    pc,             \* where execute_with_fuel is, "host" when it is not running
    result,         \* what the last call returned
    initial,        \* the budget of the call
    remaining,      \* what is left of it, as of the last slice boundary
    slice,          \* the fuel the slice began with
    fuel,           \* slice_fuel.fuel
    interrupted,    \* slice_fuel.interrupted
    spent,          \* all the fuel the script was charged in the call
    top,            \* the frame the last iteration left on top
    retained,       \* the bytes that are reached
    garbage,        \* the bytes that are not, but were not reclaimed yet
    cycle,          \* is a collection cycle under way (the phase is not Sleep)?
    floating,       \* the garbage that was made since it began
    quota_yielded   \* MemoryLimit.quota_yielded

callVars == <<initial, remaining, slice, fuel, interrupted, spent>>
heapVars == <<retained, garbage, cycle, floating>>
memoryVars == <<heapVars, quota_yielded>>
vars == <<pc, result, callVars, top, memoryVars>>

\* frames.last() of the thread that was run: a frame an error can be injected
\* on, one it can not, an error that unwinds, or no more work to do
Top == {"injectable", "other", "error", "finished"}

total_allocation == retained + garbage

Init ==
    /\ pc = "host" /\ result = "none"
    /\ initial = 0 /\ remaining = 0 /\ slice = 0 /\ fuel = 0 /\ interrupted = FALSE /\ spent = 0
    /\ top = "injectable"
    /\ retained = 0 /\ garbage = 0 /\ cycle = FALSE /\ floating = 0
    /\ quota_yielded = FALSE

-----------------------------------------------------------------------------
(* The host calls execute_with_fuel, also again after it ran out of fuel   *)
(* or memory; a finished executor is restarted first.                      *)

execute_with_fuel(budget) ==
    /\ pc = "host"
    /\ pc' = "slice"
    /\ result' = "none"
    /\ initial' = budget /\ remaining' = budget /\ spent' = 0
    /\ slice' = 0 /\ fuel' = 0 /\ interrupted' = FALSE
    /\ UNCHANGED <<top, memoryVars>>

\* Mutant: the slice is not bounded by the rest of the budget.
ClampedAbove(n) == FuelPerGc

\* i32::clamp(1, FUEL_PER_GC)
Clamped(n) == IF n < 1 THEN 1 ELSE IF n > FuelPerGc THEN FuelPerGc ELSE n

\* Mutant: step does not tell the host that nothing is left to do.
BeginSliceFinished ==
    /\ pc = "slice"
    /\ slice' = Clamped(remaining) /\ fuel' = Clamped(remaining) /\ interrupted' = FALSE
    /\ pc' = IF top = "finished" THEN "boundary" ELSE "step"
    /\ UNCHANGED <<result, initial, remaining, spent, top, memoryVars>>

\* A slice of the budget, with which step is called
BeginSlice ==
    /\ pc = "slice"
    /\ slice' = Clamped(remaining) /\ fuel' = Clamped(remaining) /\ interrupted' = FALSE
    /\ pc' = IF top = "finished" THEN "done" ELSE "step"
    /\ UNCHANGED <<result, initial, remaining, spent, top, memoryVars>>

-----------------------------------------------------------------------------
(* One iteration of Executor::step                                         *)

\* Fuel::should_continue, once cost was consumed
should_continue(cost, interrupt) == fuel - cost > 0 /\ ~interrupt

\* MemoryLimit::check_current and the quota test at the end of the iteration,
\* which leaves the frame after on top and now bytes in the arena: it clears
\* the flag, yields to the host boundary, or pushes an error.
QuotaCheck(after, now, stop) ==
    IF after # "injectable"
    THEN /\ top' = after
         /\ pc' = IF stop THEN "boundary" ELSE "step"
         /\ UNCHANGED quota_yielded
    ELSE IF now <= MaxBytes
    THEN /\ top' = after
         /\ quota_yielded' = FALSE
         /\ pc' = IF stop THEN "boundary" ELSE "step"
    ELSE /\ quota_yielded' = ~quota_yielded
         /\ top' = IF quota_yielded THEN "error" ELSE after
         /\ pc' = IF stop \/ ~quota_yielded THEN "boundary" ELSE "step"

\* Bytes become garbage.
Discard(bytes) ==
    /\ garbage' = garbage + bytes
    /\ floating' = IF cycle THEN floating + bytes ELSE 0
    /\ cycle' = cycle

\* An iteration keeps more bytes, drops freed of the retained ones and makes
\* waste; once the script is finished, step returns at the next iteration.
Iterate(cost, more, freed, waste, after, interrupt) ==
    LET now == total_allocation + more + waste IN
    /\ pc = "step" /\ top # "finished"
    /\ freed <= retained /\ now <= MaxTotal
    /\ retained' = retained + more - freed
    /\ Discard(freed + waste)
    /\ fuel' = fuel - cost /\ spent' = spent + cost
    /\ interrupted' = interrupt
    /\ QuotaCheck(after, now, ~should_continue(cost, interrupt))
    /\ UNCHANGED <<result, initial, remaining, slice>>

\* An iteration in which a pre-allocation check (Context::check_memory) refuses
\* a request for additional bytes: MemoryLimit::check
Refuse(cost, additional) ==
    /\ pc = "step" /\ top \in {"injectable", "other"}
    /\ total_allocation + additional > MaxBytes
    /\ top' = "error"
    /\ fuel' = fuel - cost /\ spent' = spent + cost
    /\ pc' = IF should_continue(cost, interrupted) THEN "step" ELSE "boundary"
    /\ UNCHANGED <<result, initial, remaining, slice, interrupted, heapVars, quota_yielded>>

StepReturnsTrue ==
    /\ pc = "step" /\ top = "finished"
    /\ pc' = "done"
    /\ UNCHANGED <<result, callVars, top, memoryVars>>

-----------------------------------------------------------------------------
(* Outside of the arena                                                    *)

\* Lua::enter pays its allocation debt before it returns: it may begin a cycle,
\* take one further or complete it, but not both end one and begin the next.
Entered ==
    IF ~cycle THEN [garbage : {garbage}, cycle : BOOLEAN, floating : {0}]
    ELSE [garbage : 0 .. garbage, cycle : {TRUE}, floating : 0 .. floating]
         \cup [garbage : 0 .. floating, cycle : {FALSE}, floating : {0}]

\* collect_all_preserving_finalizers, which leaves the phase Sleep
Collected(heap) == [garbage : 0 .. heap.floating, cycle : {FALSE}, floating : {0}]

\* Mutant: the heap is not collected at the limit.
BoundariesUncollected(limit) == Entered

\* The heap is left as it was when enter returned, or is collected if it holds
\* as much as the limit.
Boundaries(limit) ==
    UNION {IF retained + heap.garbage >= limit THEN Collected(heap) ELSE {heap} : heap \in Entered}

LeaveHeap(heap) ==
    /\ heap.floating <= heap.garbage
    /\ garbage' = heap.garbage /\ cycle' = heap.cycle /\ floating' = heap.floating
    /\ UNCHANGED retained

Charged == remaining - (slice - fuel)

\* Mutant: a slice that ends early is taken for a budget that is spent.
BoundaryExhaustedEarly(heap) ==
    /\ pc = "boundary"
    /\ remaining' = Charged
    /\ pc' = "host" /\ result' = "FuelExhausted"
    /\ LeaveHeap(heap)
    /\ UNCHANGED <<initial, slice, fuel, interrupted, spent, top, quota_yielded>>

\* step has returned false and the budget is spent.
BoundaryExhausted(heap) ==
    /\ pc = "boundary" /\ Charged <= 0
    /\ remaining' = Charged
    /\ pc' = "host" /\ result' = "FuelExhausted"
    /\ LeaveHeap(heap)
    /\ UNCHANGED <<initial, slice, fuel, interrupted, spent, top, quota_yielded>>

\* step has returned false and the call goes on, after collect_on_quota_pressure.
BoundaryContinues(heap) ==
    /\ pc = "boundary" /\ Charged > 0
    /\ remaining' = Charged
    /\ pc' = "slice"
    /\ LeaveHeap(heap)
    /\ UNCHANGED <<result, initial, slice, fuel, interrupted, spent, top, quota_yielded>>

\* step has returned true: enforce_memory_limit, then take_result, after which
\* the host may restart the executor.
Finish(heap) ==
    /\ pc = "done"
    /\ remaining' = Charged
    /\ LeaveHeap(heap)
    /\ IF retained + heap.garbage > MaxBytes
       THEN result' = "OutOfMemory" /\ top' = top
       ELSE result' = "taken" /\ top' = "injectable"
    /\ pc' = "host"
    /\ UNCHANGED <<initial, slice, fuel, interrupted, spent, quota_yielded>>

\* The host lets go of what it holds, or gives the executor something else to run.
HostFrees(freed) ==
    /\ pc = "host" /\ freed \in 1 .. retained
    /\ retained' = retained - freed
    /\ Discard(freed)
    /\ top' = "injectable"
    /\ UNCHANGED <<pc, result, callVars, quota_yielded>>

-----------------------------------------------------------------------------
ScriptStep ==
    \/ \E cost \in 1 .. MaxCost, more, freed, waste \in 0 .. MaxAlloc, after \in Top,
          interrupt \in BOOLEAN : Iterate(cost, more, freed, waste, after, interrupt)
    \/ \E cost \in 1 .. MaxCost, additional \in 1 .. MaxAlloc : Refuse(cost, additional)
    \/ StepReturnsTrue

CallStep ==
    \/ BeginSlice \/ ScriptStep
    \/ \E heap \in Entered : BoundaryExhausted(heap)
    \/ \E heap \in Boundaries(MaxBytes) : BoundaryContinues(heap)
    \/ \E heap \in Boundaries(MaxBytes + 1) : Finish(heap)

Next ==
    \/ \E budget \in Budget : execute_with_fuel(budget)
    \/ \E freed \in 1 .. MaxTotal : HostFrees(freed)
    \/ CallStep

Spec == Init /\ [][Next]_vars

\* execute_with_fuel is a plain loop: it goes on until it returns.
FairSpec == Spec /\ WF_vars(CallStep)

-----------------------------------------------------------------------------
(* Properties                                                              *)

TypeOK ==
    /\ pc \in {"host", "slice", "step", "boundary", "done"}
    /\ result \in {"none", "FuelExhausted", "OutOfMemory", "taken"}
    /\ initial \in Int /\ remaining \in Int /\ slice \in 0 .. FuelPerGc /\ fuel \in Int
    /\ interrupted \in BOOLEAN /\ spent \in Nat
    /\ top \in Top
    /\ retained \in Nat /\ garbage \in Nat
    /\ cycle \in BOOLEAN /\ floating \in 0 .. garbage /\ (~cycle => floating = 0)
    /\ quota_yielded \in BOOLEAN

\* The budget is a total over all slices: nothing the script was charged is
\* lost at a slice boundary, and the call ends with less than one iteration
\* charged over the budget (lua.rs 516-560, "its remaining amount keeps
\* decreasing").
BudgetIsTotal ==
    /\ pc \in {"host", "slice"} => remaining = initial - spent
    /\ spent < (IF initial > 0 THEN initial ELSE 1) + MaxCost

\* FuelExhausted is only returned when the budget is really spent, however the
\* slices were cut short by interrupts and quota yields (lua.rs 549-554).
ExhaustedIsSpent == result = "FuelExhausted" => spent >= initial

\* Lua::enforce_memory_limit refuses only what its collection can not reclaim
\* (lua.rs 294-323): what it counts over the limit is retained or, when it is
\* called in the middle of a collection cycle, has died since that cycle began.
\* Older garbage is never a reason to refuse, nor is any when no cycle is under
\* way.
HostRefusalIsRetained ==
    [][result' = "OutOfMemory" /\ result # "OutOfMemory" => retained + floating > MaxBytes]_vars

\* A script that never ends does not keep execute_with_fuel from returning
\* (sandbox-and-fuel.md: infinite loops "are constrained by the Fuel and Quota
\* bounds").
CallReturns == pc # "host" ~> pc = "host"

=============================================================================
