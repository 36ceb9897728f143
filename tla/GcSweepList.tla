---------------------------- MODULE GcSweepList ----------------------------
(***************************************************************************)
(* The intrusive list the collector keeps its boxes on (context.rs):       *)
(* every box is linked through header.next from Context.all, a sweep walks *)
(* the list with the sweep pointer and unlinks the boxes it frees through  *)
(* sweep_prev, and allocations push new boxes in front of the list while a *)
(* sweep is under way.  Marking is abstracted to the colours it leaves.    *)
(*                                                                         *)
(* GcArena describes the same boxes as the sets all and sweep; GcBoxes is  *)
(* the part of it that the list must implement.                            *)
(***************************************************************************)
EXTENDS Naturals

CONSTANTS
    Obj,   \* the addresses a GcBox may be allocated at
    None   \* Option::None

ASSUME NoneAssumption == None \notin Obj

VARIABLES
    phase,       \* Context.phase, "Sleep" standing for marking too
    all,         \* Context.all: the head of the list
    sweep,       \* Context.sweep: the next box to sweep
    sweep_prev,  \* Context.sweep_prev: the last box the sweep kept
    next,        \* GcBoxHeader.next
    color,       \* GcBoxHeader color
    is_live,     \* GcBoxHeader is_live
    heap         \* the boxes allocated and not yet deallocated

vars == <<phase, all, sweep, sweep_prev, next, color, is_live, heap>>

Init ==
    /\ phase = "Sleep"
    /\ all = None /\ sweep = None /\ sweep_prev = None
    /\ next = [o \in Obj |-> None]
    /\ color = [o \in Obj |-> "White"]
    /\ is_live = [o \in Obj |-> FALSE]
    /\ heap = {}

\* Mutant: sweep_prev is not set to a box pushed in front of the sweep pointer.
AllocateUnlinked(o) ==
    /\ phase # "Drop" /\ o \notin heap
    /\ heap' = heap \cup {o}
    /\ next' = [next EXCEPT ![o] = all]
    /\ color' = [color EXCEPT ![o] = "White"]
    /\ is_live' = [is_live EXCEPT ![o] = TRUE]
    /\ all' = o
    /\ UNCHANGED <<phase, sweep, sweep_prev>>

\* Context::allocate
allocate(o) ==
    /\ phase # "Drop" /\ o \notin heap
    /\ heap' = heap \cup {o}
    /\ next' = [next EXCEPT ![o] = all]
    /\ color' = [color EXCEPT ![o] = "White"]
    /\ is_live' = [is_live EXCEPT ![o] = TRUE]
    /\ all' = o
    /\ sweep_prev' = IF phase = "Sweep" /\ sweep_prev = None THEN o ELSE sweep_prev
    /\ UNCHANGED <<phase, sweep>>

\* The end of Phase::Mark: every box has the colour marking gave it (a box
\* whose value was dropped can only be kept by weak pointers).
StartSweep(marks) ==
    /\ phase = "Sleep"
    /\ phase' = "Sweep"
    /\ sweep' = all
    /\ color' = [o \in Obj |-> IF o \in heap THEN marks[o] ELSE color[o]]
    /\ UNCHANGED <<all, sweep_prev, next, is_live, heap>>

\* Mutant: the head of the list is not moved past a freed first box.
SweepWhiteKeepsHead ==
    /\ phase = "Sweep" /\ sweep # None /\ color[sweep] = "White"
    /\ next' = [next EXCEPT ![sweep] = None,
                            ![IF sweep_prev # None THEN sweep_prev ELSE sweep] = next[sweep]]
    /\ sweep' = next[sweep]
    /\ heap' = heap \ {sweep}
    /\ is_live' = [is_live EXCEPT ![sweep] = FALSE]
    /\ UNCHANGED <<phase, all, sweep_prev, color>>

\* Phase::Sweep, GcColor::White: unlink and free the box (free_gc_box)
SweepWhite ==
    /\ phase = "Sweep" /\ sweep # None /\ color[sweep] = "White"
    /\ IF sweep_prev # None
       THEN next' = [next EXCEPT ![sweep_prev] = next[sweep], ![sweep] = None] /\ UNCHANGED all
       ELSE next' = [next EXCEPT ![sweep] = None] /\ all' = next[sweep]
    /\ sweep' = next[sweep]
    /\ heap' = heap \ {sweep}
    /\ is_live' = [is_live EXCEPT ![sweep] = FALSE]
    /\ UNCHANGED <<phase, sweep_prev, color>>

\* Mutant: a box that is kept keeps its colour, and with it its mark.
SweepKeptMarked ==
    /\ phase = "Sweep" /\ sweep # None /\ color[sweep] # "White"
    /\ sweep' = next[sweep]
    /\ sweep_prev' = sweep
    /\ is_live' = [is_live EXCEPT ![sweep] = @ /\ color[sweep] = "Black"]
    /\ UNCHANGED <<phase, all, next, color, heap>>

\* Phase::Sweep, GcColor::WhiteWeak and GcColor::Black: keep the box
SweepKept ==
    /\ phase = "Sweep" /\ sweep # None /\ color[sweep] # "White"
    /\ sweep' = next[sweep]
    /\ sweep_prev' = sweep
    /\ is_live' = [is_live EXCEPT ![sweep] = @ /\ color[sweep] = "Black"]
    /\ color' = [color EXCEPT ![sweep] = "White"]
    /\ UNCHANGED <<phase, all, next, heap>>

\* Phase::Sweep at the end of the list
EndSweep ==
    /\ phase = "Sweep" /\ sweep = None
    /\ sweep_prev' = None
    /\ phase' = "Sleep"
    /\ UNCHANGED <<all, sweep, next, color, is_live, heap>>

\* Drop for Context: DropAll walks the list from its head, freeing every box;
\* all plays the cursor here, which nothing else reads any more.
DropStep ==
    /\ all # None
    /\ phase' = "Drop"
    /\ all' = next[all]
    /\ next' = [next EXCEPT ![all] = None]
    /\ heap' = heap \ {all}
    /\ is_live' = [is_live EXCEPT ![all] = FALSE]
    /\ sweep' = None /\ sweep_prev' = None
    /\ UNCHANGED color

DropEnd ==
    /\ phase # "Drop" /\ all = None
    /\ phase' = "Drop"
    /\ sweep' = None /\ sweep_prev' = None
    /\ UNCHANGED <<all, next, color, is_live, heap>>

Marks ==
    {m \in [Obj -> {"White", "WhiteWeak", "Black"}] :
        \A o \in Obj : m[o] = "Black" => is_live[o]}

Next ==
    \/ SweepWhite \/ SweepKept \/ EndSweep \/ DropStep \/ DropEnd
    \/ \E o \in Obj : allocate(o)
    \/ \E m \in Marks : StartSweep(m)

\* A sweep goes on while the program keeps calling the collector.
Spec == Init /\ [][Next]_vars

-----------------------------------------------------------------------------
(* Properties                                                              *)

\* The boxes on the list from h on: the least set that holds h and is closed
\* under next.
ListFrom(h) ==
    {o \in Obj : \A S \in SUBSET Obj :
        /\ h # None => h \in S
        /\ \A p \in S : next[p] # None => next[p] \in S
        => o \in S}

TypeOK ==
    /\ phase \in {"Sleep", "Sweep", "Drop"}
    /\ all \in Obj \cup {None} /\ sweep \in Obj \cup {None} /\ sweep_prev \in Obj \cup {None}
    /\ next \in [Obj -> Obj \cup {None}]
    /\ color \in [Obj -> {"White", "WhiteWeak", "Black"}]
    /\ is_live \in [Obj -> BOOLEAN]
    /\ heap \subseteq Obj

\* The list holds exactly the allocated boxes: unlinking through sweep_prev
\* loses none and leaves no freed box linked, whatever was allocated while
\* the sweep was under way (context.rs 374-389, 457-460).
ListIsHeap == ListFrom(all) = heap

\* sweep_prev is the box in front of the sweep pointer, and there is none only
\* while the sweep pointer is the head of the list, as the debug_assert at
\* context.rs 380 has it.
SweepPrevLinked ==
    phase = "Sweep" =>
        IF sweep_prev = None THEN all = sweep
        ELSE sweep_prev \in ListFrom(all) /\ next[sweep_prev] = sweep

\* The list implements the abstract collection of boxes: a sweep visits what
\* was allocated when it began and nothing else, and frees what it must.
Boxes == INSTANCE GcBoxes WITH boxes <- heap, unswept <- ListFrom(sweep)
ImplementsBoxes == Boxes!Spec

=============================================================================
