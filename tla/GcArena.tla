------------------------------ MODULE GcArena ------------------------------
(***************************************************************************)
(* The incremental mark-and-sweep collector of phodopus-gc-arena: the      *)
(* Context (context.rs), the Arena operations that drive it (arena.rs) and *)
(* the Gc / GcWeak operations a callback may use (gc.rs, gc_weak.rs).      *)
(*                                                                         *)
(* One owner holds the arena, so at any time it executes at most one of:   *)
(* a callback (mutate, mutate_root, finalize) that reads and rewrites the  *)
(* object graph, or a collection call that advances the collector.  The    *)
(* variable op says which.  A callback may take any number of steps and    *)
(* end, or panic, after any of them; a collection call may return early    *)
(* when its debt is paid and may be cut short by a panicking trace.        *)
(*                                                                         *)
(* The linked list of boxes is abstracted to the set all and its unswept   *)
(* suffix to the set sweep; GcSweepList refines both to the list itself.   *)
(***************************************************************************)
EXTENDS Naturals, FiniteSets

CONSTANTS
    Obj,        \* the addresses a GcBox may be allocated at
    MaxStrong,  \* bound: strong pointers in one value
    MaxWeak     \* bound: weak pointers in one value

ASSUME BoundsAssumption == MaxStrong \in Nat /\ MaxWeak \in Nat

VARIABLES
    phase,             \* Context.phase
    root_needs_trace,  \* Context.root_needs_trace
    all,               \* the boxes on the list Context.all
    sweep,             \* the boxes on the list from Context.sweep on
    gray,              \* Context.gray, in any order
    gray_again,        \* Context.gray_again, in any order
    color,             \* GcBoxHeader color
    is_live,           \* GcBoxHeader is_live: the value was not dropped
    needs_trace,       \* GcBoxHeader needs_trace: the type can hold pointers
    strong,            \* the Gc pointers inside each value
    weak,              \* the GcWeak pointers inside each value
    rootStrong,        \* the Gc pointers inside the root
    rootWeak,          \* the GcWeak pointers inside the root
    op,                \* what the owner of the arena is executing
    held,              \* the Gc pointers the running callback may hold
    heldWeak,          \* the GcWeak pointers the running callback may hold
    writable           \* the values the running callback has a &Write of

collectorVars == <<phase, root_needs_trace, all, sweep, gray, gray_again, color, is_live>>
graphVars == <<needs_trace, strong, weak, rootStrong, rootWeak>>
callbackVars == <<held, heldWeak, writable>>
vars == <<collectorVars, graphVars, op, callbackVars>>

Phase == {"Mark", "Sweep", "Sleep"}
GcColor == {"White", "WhiteWeak", "Gray", "Black"}
Unmarked == {"White", "WhiteWeak"}
Callback == {"mutate", "mutate_root", "finalize"}
DebtCall == {"collect_debt", "mark_debt"}
MarkCall == {"mark_debt", "mark_all"}
CollectCall == DebtCall \cup MarkCall \cup {"collect_all", "start_sweeping"}
Op == {"idle", "marked"} \cup Callback \cup CollectCall

Live == {o \in all : is_live[o]}

(***************************************************************************)
(* try_new runs the constructor callback on an empty, sleeping context and *)
(* the root is what the callback returns: a mutate_root on an empty root.  *)
(***************************************************************************)
Init ==
    /\ phase = "Sleep" /\ root_needs_trace = TRUE
    /\ all = {} /\ sweep = {} /\ gray = {} /\ gray_again = {}
    /\ color = [o \in Obj |-> "White"]
    /\ is_live = [o \in Obj |-> FALSE]
    /\ needs_trace = [o \in Obj |-> FALSE]
    /\ strong = [o \in Obj |-> {}] /\ weak = [o \in Obj |-> {}]
    /\ rootStrong = {} /\ rootWeak = {}
    /\ op = "mutate_root"
    /\ held = {} /\ heldWeak = {} /\ writable = {}

-----------------------------------------------------------------------------
(* Context operations the callbacks and the collector share.               *)

gray_remaining == gray # {} \/ gray_again # {} \/ root_needs_trace

\* Mutant: trace_weak does nothing.
TracedColorStrongOnly(S, W) ==
    [o \in Obj |->
        IF o \in S /\ color[o] \in Unmarked
        THEN IF needs_trace[o] THEN "Gray" ELSE "Black"
        ELSE color[o]]

\* Mutant: trace_weak does not test for White and takes marks away.
TracedColorUnmarks(S, W) ==
    [o \in Obj |->
        IF o \in S /\ color[o] \in Unmarked
        THEN IF needs_trace[o] THEN "Gray" ELSE "Black"
        ELSE IF o \in W THEN "WhiteWeak" ELSE color[o]]

\* Context::trace and Context::trace_weak of every pointer in S and W.
TracedColor(S, W) ==
    [o \in Obj |->
        IF o \in S /\ color[o] \in Unmarked
        THEN IF needs_trace[o] THEN "Gray" ELSE "Black"
        ELSE IF o \in W /\ color[o] = "White" THEN "WhiteWeak" ELSE color[o]]

TracedGray(S) == {o \in S : color[o] \in Unmarked /\ needs_trace[o]}

\* Mutant: upgrade takes whatever is not marked while sweeping for dead, also
\* what was allocated since the sweep began.
UpgradeOnlyMarked(o) == is_live[o] /\ ~(phase = "Sweep" /\ color[o] \in Unmarked)

\* Context::upgrade: may a weak pointer to o be made strong?
upgrade(o) == is_live[o] /\ ~(phase = "Sweep" /\ color[o] = "WhiteWeak")

\* Does a backward barrier for parent p, before adopting the pointers in C, fire?
BarrierFires(p, anyChildUnmarked) ==
    phase = "Mark" /\ color[p] = "Black" /\ anyChildUnmarked

\* Mutant: the barrier is missing.
NoBackwardBarrier(p, anyChildUnmarked) == UNCHANGED <<color, gray_again>>

\* Context::backward_barrier
backward_barrier(p, anyChildUnmarked) ==
    IF BarrierFires(p, anyChildUnmarked)
    THEN /\ color' = [color EXCEPT ![p] = "Gray"]
         /\ gray_again' = gray_again \cup {p}
    ELSE UNCHANGED <<color, gray_again>>

\* Mutant: the barrier is missing.
NoForwardBarrier(anyParent, p, c) == UNCHANGED <<color, gray>>

\* Context::forward_barrier; anyParent when no parent is given
forward_barrier(anyParent, p, c) ==
    IF phase = "Mark" /\ (anyParent \/ color[p] = "Black")
    THEN /\ color' = TracedColor({c}, {})
         /\ gray' = gray \cup TracedGray({c})
    ELSE UNCHANGED <<color, gray>>

\* Mutant: the barrier is missing.
NoRootBarrier == root_needs_trace' = root_needs_trace

\* Context::root_barrier
root_barrier == root_needs_trace' = IF phase = "Mark" THEN TRUE ELSE root_needs_trace

-----------------------------------------------------------------------------
(* Callbacks                                                               *)

\* A callback starts with what it reads from the root.
EnterCallback(callback) ==
    /\ op' = callback
    /\ held' = rootStrong /\ heldWeak' = rootWeak /\ writable' = {}

\* Arena::mutate
Mutate ==
    /\ op = "idle"
    /\ EnterCallback("mutate")
    /\ UNCHANGED <<collectorVars, graphVars>>

\* Arena::mutate_root and map_root: the barrier first, then the callback
MutateRoot ==
    /\ op = "idle"
    /\ root_barrier
    /\ EnterCallback("mutate_root")
    /\ UNCHANGED <<phase, all, sweep, gray, gray_again, color, is_live, graphVars>>

\* MarkedArena::finalize
Finalize ==
    /\ op = "marked"
    /\ EnterCallback("finalize")
    /\ UNCHANGED <<collectorVars, graphVars>>

\* Mutant: what the callback could write stays writable after it.
EndCallbackWritable ==
    /\ op \in Callback
    /\ op' = "idle"
    /\ held' = {} /\ heldWeak' = {} /\ writable' = writable
    /\ UNCHANGED <<collectorVars, graphVars>>

\* The callback returns or unwinds: the 'gc brand lets no pointer escape it.
EndCallback ==
    /\ op \in Callback
    /\ op' = "idle"
    /\ held' = {} /\ heldWeak' = {} /\ writable' = {}
    /\ UNCHANGED <<collectorVars, graphVars>>

\* Gc::new of a value holding the pointers S and W (Context::allocate); traced
\* is T::needs_trace(), false only for types that hold no pointer.
allocate(o, traced, S, W) ==
    /\ op \in Callback
    /\ o \notin all
    /\ traced \/ (S = {} /\ W = {})
    /\ all' = all \cup {o}
    /\ color' = [color EXCEPT ![o] = "White"]
    /\ is_live' = [is_live EXCEPT ![o] = TRUE]
    /\ needs_trace' = [needs_trace EXCEPT ![o] = traced]
    /\ strong' = [strong EXCEPT ![o] = S]
    /\ weak' = [weak EXCEPT ![o] = W]
    /\ held' = held \cup {o}
    /\ UNCHANGED <<phase, root_needs_trace, sweep, gray, gray_again,
                   rootStrong, rootWeak, op, heldWeak, writable>>

\* Gc::as_ref: the callback reads the pointers inside a value.
Read(o) ==
    /\ op \in Callback /\ o \in held
    /\ held' = held \cup strong[o]
    /\ heldWeak' = heldWeak \cup weak[o]
    /\ UNCHANGED <<collectorVars, graphVars, op, writable>>

\* Gc::downgrade
Downgrade(o) ==
    /\ op \in Callback /\ o \in held
    /\ heldWeak' = heldWeak \cup {o}
    /\ UNCHANGED <<collectorVars, graphVars, op, held, writable>>

\* GcWeak::upgrade, when it returns Some
Upgrade(o) ==
    /\ op \in Callback /\ o \in heldWeak
    /\ upgrade(o)
    /\ held' = held \cup {o}
    /\ UNCHANGED <<collectorVars, graphVars, op, heldWeak, writable>>

\* Gc::write (and Gc::unlock, Lock::set, RefLock::borrow_mut, which begin with
\* it): the &Write it returns stays usable until the callback ends.
Write(p) ==
    /\ op \in Callback /\ p \in held
    /\ backward_barrier(p, TRUE)
    /\ writable' = writable \cup {p}
    /\ UNCHANGED <<phase, root_needs_trace, all, sweep, gray, is_live,
                   graphVars, op, held, heldWeak>>

\* A store through a &Write: the value's pointers become S and W.
Store(p, S, W) ==
    /\ op \in Callback /\ p \in writable /\ needs_trace[p]
    /\ strong' = [strong EXCEPT ![p] = S]
    /\ weak' = [weak EXCEPT ![p] = W]
    /\ UNCHANGED <<collectorVars, needs_trace, rootStrong, rootWeak, op, callbackVars>>

\* Lock::take and RefLock::take: the pointers leave the value, with no barrier.
Take(p) ==
    /\ op \in Callback /\ p \in held
    /\ held' = held \cup strong[p]
    /\ heldWeak' = heldWeak \cup weak[p]
    /\ strong' = [strong EXCEPT ![p] = {}]
    /\ weak' = [weak EXCEPT ![p] = {}]
    /\ UNCHANGED <<collectorVars, needs_trace, rootStrong, rootWeak, op, writable>>

\* Mutation::backward_barrier(p, Some(c)), then p adopts c
AdoptBackward(p, c) ==
    /\ op \in Callback /\ p \in held /\ c \in held /\ needs_trace[p]
    /\ backward_barrier(p, color[c] \in Unmarked)
    /\ strong' = [strong EXCEPT ![p] = @ \cup {c}]
    /\ UNCHANGED <<phase, root_needs_trace, all, sweep, gray, is_live, needs_trace,
                   weak, rootStrong, rootWeak, op, callbackVars>>

\* Mutation::forward_barrier(Some(p) or None, c), then p adopts c
AdoptForward(anyParent, p, c) ==
    /\ op \in Callback /\ p \in held /\ c \in held /\ needs_trace[p]
    /\ forward_barrier(anyParent, p, c)
    /\ strong' = [strong EXCEPT ![p] = @ \cup {c}]
    /\ UNCHANGED <<phase, root_needs_trace, all, sweep, gray_again, is_live, needs_trace,
                   weak, rootStrong, rootWeak, op, callbackVars>>

\* The callback of mutate_root rewrites the root.
StoreRoot(S, W) ==
    /\ op = "mutate_root"
    /\ rootStrong' = S /\ rootWeak' = W
    /\ UNCHANGED <<collectorVars, needs_trace, strong, weak, op, callbackVars>>

\* Mutant: a box that is marked already is queued too.
ResurrectMarked(o) ==
    /\ op = "finalize"
    /\ o \in held \/ (o \in heldWeak /\ is_live[o])
    /\ held' = held \cup {o}
    /\ gray' = gray \cup {o}
    /\ color' = [color EXCEPT ![o] = IF @ \in Unmarked THEN "Gray" ELSE @]
    /\ UNCHANGED <<phase, root_needs_trace, all, sweep, gray_again, is_live,
                   graphVars, op, heldWeak, writable>>

\* Context::resurrect, from Gc::resurrect or from GcWeak::resurrect when the
\* box is live: both need the Finalization that only finalize hands out.
Resurrect(o) ==
    /\ op = "finalize"
    /\ o \in held \/ (o \in heldWeak /\ is_live[o])
    /\ held' = held \cup {o}
    /\ IF color[o] \in Unmarked
       THEN color' = [color EXCEPT ![o] = "Gray"] /\ gray' = gray \cup {o}
       ELSE UNCHANGED <<color, gray>>
    /\ UNCHANGED <<phase, root_needs_trace, all, sweep, gray_again, is_live,
                   graphVars, op, heldWeak, writable>>

SmallSubset(T, n) == {S \in SUBSET T : Cardinality(S) <= n}

CallbackStep ==
    \/ Mutate \/ MutateRoot \/ Finalize \/ EndCallback
    \/ \E S \in SmallSubset(held, MaxStrong), W \in SmallSubset(heldWeak, MaxWeak) :
          \/ \E o \in Obj, traced \in BOOLEAN : allocate(o, traced, S, W)
          \/ \E p \in writable : Store(p, S, W)
          \/ StoreRoot(S, W)
    \/ \E o \in Obj :
          \/ Read(o) \/ Upgrade(o)
          \/ MaxWeak > 0 /\ Downgrade(o)
          \/ Write(o) \/ Take(o) \/ Resurrect(o)
    \/ \E p, c \in Obj :
          /\ p \in held /\ Cardinality(strong[p] \cup {c}) <= MaxStrong
          /\ \/ AdoptBackward(p, c)
             \/ \E anyParent \in BOOLEAN : AdoptForward(anyParent, p, c)

-----------------------------------------------------------------------------
(* Collection calls: Arena::{collect_debt, mark_debt, collect_all,         *)
(* mark_all} and MarkedArena::start_sweeping, all of which run             *)
(* Context::do_collection_inner.                                           *)

\* What the call leaves its caller with when it returns: mark_debt and
\* mark_all hand out a MarkedArena if marking is complete.
Returned ==
    IF op \in MarkCall /\ phase' = "Mark" /\ ~gray_remaining' THEN "marked" ELSE "idle"

\* The debt test at the end of the loop: a call with a debt target may stop
\* after any unit of work, one whose target is -infinity never does.
AfterWork == op' = op \/ (op \in DebtCall /\ op' = Returned)

\* A collection call begins.  mark_debt and mark_all do nothing while
\* sweeping; the debt calls also do nothing when there is no debt, which is a
\* stuttering step here unless mark_debt finds marking already complete.
BeginCollect(call) ==
    /\ \/ op = "idle" /\ call \in CollectCall \ {"start_sweeping"}
       \/ op = "marked" /\ call = "start_sweeping"
    /\ call \in MarkCall => phase # "Sweep"
    /\ \/ op' = call
       \/ call = "mark_debt" /\ phase = "Mark" /\ ~gray_remaining /\ op' = "marked"
    /\ UNCHANGED <<collectorVars, graphVars, callbackVars>>

\* The MarkedArena is dropped unused.
DropMarked ==
    /\ op = "marked" /\ op' = "idle"
    /\ UNCHANGED <<collectorVars, graphVars, callbackVars>>

\* Phase::Sleep
WakeUp ==
    /\ op \in CollectCall /\ phase = "Sleep"
    /\ phase' = "Mark"
    /\ UNCHANGED <<root_needs_trace, all, sweep, gray, gray_again, color, is_live,
                   graphVars, op, callbackVars>>

\* The gray queue first, then gray_again.
NextGray == IF gray # {} THEN gray ELSE gray_again

\* Phase::Mark: trace one gray box and turn it black
TraceGray(o) ==
    /\ op \in CollectCall /\ phase = "Mark" /\ o \in NextGray
    /\ color' = [TracedColor(strong[o], weak[o]) EXCEPT ![o] = "Black"]
    /\ gray' = (gray \ {o}) \cup TracedGray(strong[o])
    /\ gray_again' = IF o \in gray THEN gray_again ELSE gray_again \ {o}
    /\ UNCHANGED <<phase, root_needs_trace, all, sweep, is_live, graphVars, callbackVars>>
    /\ AfterWork

\* The value's trace panics after tracing S and W: the DropGuard puts the box,
\* still gray, on gray_again and the panic leaves the collection call.
TraceGrayPanics(o, S, W) ==
    /\ op \in CollectCall /\ phase = "Mark" /\ o \in NextGray
    /\ S \subseteq strong[o] /\ W \subseteq weak[o] /\ needs_trace[o]
    /\ color' = TracedColor(S, W)
    /\ gray' = (gray \ {o}) \cup TracedGray(S)
    /\ gray_again' = gray_again \cup {o}
    /\ op' = "idle"
    /\ UNCHANGED <<phase, root_needs_trace, all, sweep, is_live, graphVars, callbackVars>>

\* Phase::Mark with both queues empty: trace the root
TraceRoot ==
    /\ op \in CollectCall /\ phase = "Mark" /\ NextGray = {} /\ root_needs_trace
    /\ color' = TracedColor(rootStrong, rootWeak)
    /\ gray' = TracedGray(rootStrong)
    /\ root_needs_trace' = FALSE
    /\ UNCHANGED <<phase, all, sweep, gray_again, is_live, graphVars, callbackVars>>
    /\ AfterWork

\* The root's trace panics: root_needs_trace stays set.
TraceRootPanics(S, W) ==
    /\ op \in CollectCall /\ phase = "Mark" /\ NextGray = {} /\ root_needs_trace
    /\ S \subseteq rootStrong /\ W \subseteq rootWeak
    /\ color' = TracedColor(S, W)
    /\ gray' = TracedGray(S)
    /\ op' = "idle"
    /\ UNCHANGED <<phase, root_needs_trace, all, sweep, gray_again, is_live,
                   graphVars, callbackVars>>

\* Phase::Mark with nothing left to trace: mark_debt and mark_all stop
\* (EarlyStop::BeforeSweep) and hand out the MarkedArena ...
StopBeforeSweep ==
    /\ op \in MarkCall /\ phase = "Mark" /\ ~gray_remaining
    /\ op' = "marked"
    /\ UNCHANGED <<collectorVars, graphVars, callbackVars>>

\* Mutant: the sweep begins at the end of the list.
StartSweepNowhere ==
    /\ op \in CollectCall \ MarkCall /\ phase = "Mark" /\ ~gray_remaining
    /\ phase' = "Sweep"
    /\ sweep' = {}
    /\ UNCHANGED <<root_needs_trace, all, gray, gray_again, color, is_live,
                   graphVars, op, callbackVars>>

\* ... every other call enters Phase::Sweep with the whole list unswept.
StartSweep ==
    /\ op \in CollectCall \ MarkCall /\ phase = "Mark" /\ ~gray_remaining
    /\ phase' = "Sweep"
    /\ sweep' = all
    /\ UNCHANGED <<root_needs_trace, all, gray, gray_again, color, is_live,
                   graphVars, op, callbackVars>>

\* start_sweeping stops as soon as it is sweeping (EarlyStop::AfterSweep).
StopAfterSweep ==
    /\ op = "start_sweeping" /\ phase = "Sweep"
    /\ op' = "idle"
    /\ UNCHANGED <<collectorVars, graphVars, callbackVars>>

\* Mutant: a box that is kept keeps its colour.
SweepBoxKeepsWhiteWeak(o) ==
    /\ op \in CollectCall \ {"start_sweeping"} /\ phase = "Sweep" /\ o \in sweep
    /\ sweep' = sweep \ {o}
    /\ color' = [color EXCEPT ![o] = IF @ = "WhiteWeak" THEN @ ELSE "White"]
    /\ all' = IF color[o] = "White" THEN all \ {o} ELSE all
    /\ needs_trace' = [needs_trace EXCEPT ![o] = @ /\ color[o] # "White"]
    /\ is_live' = [is_live EXCEPT ![o] = @ /\ color[o] \notin Unmarked]
    /\ strong' = [strong EXCEPT ![o] = IF color[o] \in Unmarked THEN {} ELSE @]
    /\ weak' = [weak EXCEPT ![o] = IF color[o] \in Unmarked THEN {} ELSE @]
    /\ UNCHANGED <<phase, root_needs_trace, gray, gray_again,
                   rootStrong, rootWeak, callbackVars>>
    /\ AfterWork \/ (color[o] \in Unmarked /\ is_live[o] /\ op' = "idle")

\* Phase::Sweep reaches the box o.  A destructor that panics cuts the call
\* short after the same state changes, as a call with a debt target may be.
SweepBox(o) ==
    /\ op \in CollectCall \ {"start_sweeping"} /\ phase = "Sweep" /\ o \in sweep
    /\ sweep' = sweep \ {o}
    /\ color' = [color EXCEPT ![o] = "White"]
    /\ CASE color[o] = "White" -> /\ all' = all \ {o}
                                  /\ is_live' = [is_live EXCEPT ![o] = FALSE]
                                  /\ needs_trace' = [needs_trace EXCEPT ![o] = FALSE]
                                  /\ strong' = [strong EXCEPT ![o] = {}]
                                  /\ weak' = [weak EXCEPT ![o] = {}]
         [] color[o] = "WhiteWeak" -> /\ is_live' = [is_live EXCEPT ![o] = FALSE]
                                      /\ strong' = [strong EXCEPT ![o] = {}]
                                      /\ weak' = [weak EXCEPT ![o] = {}]
                                      /\ UNCHANGED <<all, needs_trace>>
         [] OTHER -> UNCHANGED <<all, is_live, needs_trace, strong, weak>>
    /\ UNCHANGED <<phase, root_needs_trace, gray, gray_again,
                   rootStrong, rootWeak, callbackVars>>
    /\ AfterWork \/ (color[o] \in Unmarked /\ is_live[o] /\ op' = "idle")

\* Mutant: the loop goes on after the end of a cycle.
EndSweepGoesOn ==
    /\ op \in CollectCall \ {"start_sweeping"} /\ phase = "Sweep" /\ sweep = {}
    /\ phase' = "Sleep"
    /\ root_needs_trace' = TRUE
    /\ UNCHANGED <<all, sweep, gray, gray_again, color, is_live, graphVars, op, callbackVars>>

\* Phase::Sweep at the end of the list: the cycle is over
EndSweep ==
    /\ op \in CollectCall \ {"start_sweeping"} /\ phase = "Sweep" /\ sweep = {}
    /\ phase' = "Sleep"
    /\ root_needs_trace' = TRUE
    /\ op' = "idle"
    /\ UNCHANGED <<all, sweep, gray, gray_again, color, is_live, graphVars, callbackVars>>

\* The steps that advance the collection call under way
CollectWork ==
    \/ WakeUp \/ TraceRoot \/ StopBeforeSweep \/ StartSweep \/ StopAfterSweep \/ EndSweep
    \/ \E o \in Obj : TraceGray(o) \/ SweepBox(o)

CollectStep ==
    \/ CollectWork
    \/ DropMarked
    \/ \E call \in CollectCall : BeginCollect(call)
    \/ \E o \in Obj : \E S \in SUBSET strong[o], W \in SUBSET weak[o] : TraceGrayPanics(o, S, W)
    \/ \E S \in SUBSET rootStrong, W \in SUBSET rootWeak : TraceRootPanics(S, W)

Next == CallbackStep \/ CollectStep

Spec == Init /\ [][Next]_vars

\* A collection call is a plain function call: once begun, its loop keeps going.
FairSpec == Spec /\ WF_vars(CollectWork)

-----------------------------------------------------------------------------
(* Properties                                                              *)

TypeOK ==
    /\ phase \in Phase
    /\ root_needs_trace \in BOOLEAN
    /\ all \subseteq Obj /\ sweep \subseteq all
    /\ gray \subseteq all /\ gray_again \subseteq all
    /\ color \in [Obj -> GcColor]
    /\ is_live \in [Obj -> BOOLEAN]
    /\ needs_trace \in [Obj -> BOOLEAN]
    /\ strong \in [Obj -> SUBSET Obj] /\ weak \in [Obj -> SUBSET Obj]
    /\ rootStrong \subseteq Obj /\ rootWeak \subseteq Obj
    /\ op \in Op
    /\ held \subseteq Obj /\ heldWeak \subseteq Obj /\ writable \subseteq held

\* What can be reached by strong pointers from the root or from the running
\* callback: the least set that holds both and is closed under strong.
Reachable ==
    {o \in Obj : \A S \in SUBSET Obj :
        (rootStrong \cup held \subseteq S /\ \A p \in S : strong[p] \subseteq S) => o \in S}

\* The boxes a weak pointer that can still be read refers to.
WeakTargets == rootWeak \cup heldWeak \cup UNION {weak[o] : o \in Reachable}

\* No value that can be reached is ever dropped, and its box is never freed:
\* the reason Gc is a safe Copy pointer (context.rs 362-427, gc.rs as_ref).
ReachableIsLive == Reachable \subseteq Live

\* The box behind a weak pointer that can be read is never freed, so upgrade,
\* is_dead and resurrect always read a valid header (context.rs 394-404).
WeakTargetsAllocated == WeakTargets \subseteq all

\* A weak pointer to a value that is strongly reachable always upgrades, in
\* every phase: upgrade never refuses a value it did not have to
\* (context.rs 537-580).
ReachableUpgrades == \A o \in Reachable : upgrade(o)

\* When a MarkedArena is handed out, every value that is_dead reports to the
\* finalization callback is really unreachable (arena.rs 288-301, gc.rs is_dead).
MarkedIsComplete == op = "marked" => \A o \in Reachable : color[o] = "Black"

\* The debug_asserts of the collector: a gray box holds a value that was not
\* dropped, is queued exactly once, and is never met while sweeping
\* (context.rs 335, 416, 515).
GrayBoxesQueuedOnce ==
    /\ {o \in all : color[o] = "Gray"} = gray \cup gray_again
    /\ gray \cap gray_again = {}
    /\ gray \cup gray_again \subseteq Live
    /\ phase # "Mark" => gray \cup gray_again = {}

\* A marked value keeps its mark until it is swept, and the sweep keeps it.
KeepsMarks ==
    \A o \in Live : color[o] \in {"Gray", "Black"} =>
        o \in Live' /\ (color'[o] \in Unmarked => phase = "Sweep" /\ o \in sweep \ sweep')

\* No step takes the mark of a live value but its own sweep, which does not
\* drop it: what finalize resurrects survives the cycle (context.rs 583-591).
MarkedSurvives == [][KeepsMarks]_vars

\* Every collection call returns (context.rs do_collection_inner).
CollectionReturns == op \in CollectCall ~> op \notin CollectCall

\* Garbage does not stay: if collection cycles keep being run to their end, an
\* unreachable value is dropped, unless a weak pointer made it reachable again
\* (context.rs 362-427).
GarbageIsDropped ==
    ([]<>(phase = "Sweep") /\ []<>(phase = "Sleep")) =>
        \A o \in Obj : o \in Live \ Reachable ~> o \notin Live \ Reachable

\* Nor does the box of a dropped value once no weak pointer to it can be read
\* (context.rs 374-404).
EmptyBoxesAreFreed ==
    ([]<>(phase = "Sweep") /\ []<>(phase = "Sleep")) =>
        \A o \in Obj : o \in all \ (Reachable \cup WeakTargets) ~>
                          o \notin all \ (Reachable \cup WeakTargets)

-----------------------------------------------------------------------------
(***************************************************************************)
(* The inductive invariant behind the safety properties.  The sweep will   *)
(* drop the Doomed values and free the DoomedBoxes; no other value, nor    *)
(* the root or the running callback, points to one of them.                *)
(***************************************************************************)
Doomed == {o \in sweep : phase = "Sweep" /\ color[o] \in Unmarked}
DoomedBoxes == {o \in sweep : phase = "Sweep" /\ color[o] = "White"}

\* Colours agree with the phase: only marking has gray boxes, everything the
\* sweep has passed or that was allocated since is white.
PhaseInv ==
    /\ GrayBoxesQueuedOnce
    /\ \A o \in all : color[o] = "Black" => is_live[o]
    /\ phase = "Sleep" => root_needs_trace /\ \A o \in all : color[o] = "White"
    /\ phase = "Sweep" => \A o \in all \ sweep : color[o] = "White"
    /\ phase # "Sweep" => sweep = {}

\* What survives the current sweep points only to what survives it.
ClosedInv ==
    /\ \A o \in all \ Doomed : /\ strong[o] \subseteq Live \ Doomed
                               /\ weak[o] \subseteq all \ DoomedBoxes
    /\ rootStrong \cup held \subseteq Live \ Doomed
    /\ rootWeak \cup heldWeak \subseteq all \ DoomedBoxes
    /\ \A o \in all : ~needs_trace[o] => strong[o] = {} /\ weak[o] = {}

\* The tri-colour invariant: a black value, or a traced root, has no white child.
MarkInv ==
    phase = "Mark" =>
        /\ \A o \in all : color[o] = "Black" =>
               /\ \A c \in strong[o] : color[c] \notin Unmarked
               /\ \A c \in weak[o] : color[c] # "White"
        /\ ~root_needs_trace => /\ \A c \in rootStrong : color[c] \notin Unmarked
                                /\ \A c \in rootWeak : color[c] # "White"

\* A callback leaves no pointer behind, and what it may write is not black.
CallbackInv ==
    /\ op \notin Callback => held = {} /\ heldWeak = {} /\ writable = {}
    /\ phase = "Mark" => /\ op = "mutate_root" => root_needs_trace
                         /\ \A p \in writable : needs_trace[p] => color[p] # "Black"
    /\ op = "marked" => phase = "Mark" /\ ~gray_remaining
    /\ op = "finalize" => phase = "Mark"

IInv == TypeOK /\ PhaseInv /\ ClosedInv /\ MarkInv /\ CallbackInv

=============================================================================
