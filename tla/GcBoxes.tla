------------------------------ MODULE GcBoxes ------------------------------
(***************************************************************************)
(* What the collector promises about its boxes, with no list in sight:     *)
(* a sweep visits exactly the boxes that were allocated when it began, in  *)
(* some order; it frees the ones left white, empties the ones only weak    *)
(* pointers refer to and keeps the others; boxes allocated meanwhile are   *)
(* not visited; dropping the context frees every box.                      *)
(***************************************************************************)
CONSTANT Obj

VARIABLES
    phase,    \* "Sleep" (marking included), "Sweep" or "Drop"
    boxes,    \* the allocated boxes
    unswept,  \* the boxes the running sweep has yet to visit
    color,    \* the colour of each box
    is_live   \* whether its value was not dropped yet

vars == <<phase, boxes, unswept, color, is_live>>

Init ==
    /\ phase = "Sleep"
    /\ boxes = {} /\ unswept = {}
    /\ color = [o \in Obj |-> "White"]
    /\ is_live = [o \in Obj |-> FALSE]

Allocate(o) ==
    /\ phase # "Drop" /\ o \notin boxes
    /\ boxes' = boxes \cup {o}
    /\ color' = [color EXCEPT ![o] = "White"]
    /\ is_live' = [is_live EXCEPT ![o] = TRUE]
    /\ UNCHANGED <<phase, unswept>>

\* Marking has given every live box its colour.
StartSweep ==
    /\ phase = "Sleep"
    /\ phase' = "Sweep"
    /\ unswept' = boxes
    /\ color' \in [Obj -> {"White", "WhiteWeak", "Black"}]
    /\ UNCHANGED <<boxes, is_live>>

SweepBox(o) ==
    /\ phase = "Sweep" /\ o \in unswept
    /\ unswept' = unswept \ {o}
    /\ boxes' = IF color[o] = "White" THEN boxes \ {o} ELSE boxes
    /\ is_live' = [is_live EXCEPT ![o] = @ /\ color[o] = "Black"]
    /\ color' = [color EXCEPT ![o] = "White"]
    /\ UNCHANGED phase

EndSweep ==
    /\ phase = "Sweep" /\ unswept = {}
    /\ phase' = "Sleep"
    /\ UNCHANGED <<boxes, unswept, color, is_live>>

DropBox(o) ==
    /\ o \in boxes
    /\ phase' = "Drop"
    /\ boxes' = boxes \ {o}
    /\ is_live' = [is_live EXCEPT ![o] = FALSE]
    /\ unswept' = {}
    /\ UNCHANGED color

DropEmpty ==
    /\ boxes = {} /\ phase # "Drop"
    /\ phase' = "Drop"
    /\ unswept' = {}
    /\ UNCHANGED <<boxes, color, is_live>>

Next ==
    \/ StartSweep \/ EndSweep \/ DropEmpty
    \/ \E o \in Obj : Allocate(o) \/ SweepBox(o) \/ DropBox(o)

Spec == Init /\ [][Next]_vars

=============================================================================
