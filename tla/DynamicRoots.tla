---------------------------- MODULE DynamicRoots ----------------------------
(***************************************************************************)
(* DynamicRootSet (gc-arena/dynamic_roots.rs): the slots that keep stashed *)
(* values alive, and the DynamicRoot handles the host holds outside of the *)
(* arena and may clone, drop or fetch in any order, also after the set     *)
(* itself was collected.  The Stashed* types of stash.rs are such handles. *)
(*                                                                         *)
(* A set is identified by the address of its Rc allocation, which may be   *)
(* used again by a later set once neither the set nor a Weak in a handle   *)
(* refers to it.  A slot that is occupied is traced as a strong pointer.   *)
(***************************************************************************)
EXTENDS Naturals, FiniteSets

CONSTANTS
    Set,       \* the addresses of Rc<RefCell<Slots>>
    Handle,    \* the DynamicRoot handles the host may hold
    Value,     \* the values that are stashed
    Null,      \* NULL_INDEX, and the contents of what does not exist
    MaxSlots   \* bound: the length of the slots Vec

ASSUME SlotsAssumption == MaxSlots \in Nat
ASSUME NullAssumption == Null \notin Nat /\ Null \notin Set /\ Null \notin Value
ASSUME HandleAssumption == IsFiniteSet(Handle)

Index == 0 .. MaxSlots - 1

VARIABLES
    alive,      \* the sets that exist: their Inner was not dropped
    len,        \* Slots.slots.len()
    root,       \* Slot::Occupied.root, Null in a vacant slot
    ref_count,  \* Slot::Occupied.ref_count
    link,       \* Slot::Vacant.next_free
    next_free,  \* Slots.next_free
    slots,      \* DynamicRoot.slots of each handle, Null for one that does not exist
    index,      \* DynamicRoot.index
    ptr         \* DynamicRoot.ptr

slotVars == <<len, root, ref_count, link, next_free>>
handleVars == <<slots, index, ptr>>
vars == <<alive, slotVars, handleVars>>

Init ==
    /\ alive = {}
    /\ len = [s \in Set |-> 0]
    /\ root = [s \in Set |-> [i \in Index |-> Null]]
    /\ ref_count = [s \in Set |-> [i \in Index |-> 0]]
    /\ link = [s \in Set |-> [i \in Index |-> Null]]
    /\ next_free = [s \in Set |-> Null]
    /\ slots = [h \in Handle |-> Null]
    /\ index = [h \in Handle |-> Null]
    /\ ptr = [h \in Handle |-> Null]

\* The handles whose Weak refers to the allocation s
Weaks(s) == {h \in Handle : slots[h] = s}

\* Mutant: a handle keeps a plain address, so that the allocation may be used
\* again while the handle exists.
NewSetReused(s) ==
    /\ s \notin alive
    /\ alive' = alive \cup {s}
    /\ UNCHANGED <<slotVars, handleVars>>

\* DynamicRootSet::new: the allocator hands out an address nothing refers to.
NewSet(s) ==
    /\ s \notin alive /\ Weaks(s) = {}
    /\ alive' = alive \cup {s}
    /\ UNCHANGED <<slotVars, handleVars>>

\* The arena collects the set, or is dropped: the Rc goes, Weaks may remain.
DropSet(s) ==
    /\ s \in alive
    /\ alive' = alive \ {s}
    /\ len' = [len EXCEPT ![s] = 0]
    /\ root' = [root EXCEPT ![s] = [i \in Index |-> Null]]
    /\ ref_count' = [ref_count EXCEPT ![s] = [i \in Index |-> 0]]
    /\ link' = [link EXCEPT ![s] = [i \in Index |-> Null]]
    /\ next_free' = [next_free EXCEPT ![s] = Null]
    /\ UNCHANGED handleVars

\* The slot Slots::add takes: the head of the free list, or a new one
FreeSlot(s) == IF next_free[s] # Null THEN next_free[s] ELSE len[s]

\* Mutant: the slot that is taken stays on the free list.
AddKeepsFree(s, v) ==
    /\ FreeSlot(s) \in Index
    /\ len' = [len EXCEPT ![s] = IF next_free[s] # Null THEN @ ELSE @ + 1]
    /\ root' = [root EXCEPT ![s][FreeSlot(s)] = v]
    /\ ref_count' = [ref_count EXCEPT ![s][FreeSlot(s)] = 0]
    /\ UNCHANGED <<link, next_free>>

\* Slots::add
add(s, v) ==
    /\ FreeSlot(s) \in Index
    /\ next_free' = [next_free EXCEPT ![s] = IF @ # Null THEN link[s][FreeSlot(s)] ELSE @]
    /\ len' = [len EXCEPT ![s] = IF next_free[s] # Null THEN @ ELSE @ + 1]
    /\ root' = [root EXCEPT ![s][FreeSlot(s)] = v]
    /\ ref_count' = [ref_count EXCEPT ![s][FreeSlot(s)] = 0]
    /\ link' = [link EXCEPT ![s][FreeSlot(s)] = Null]

\* Mutant: a clone is not counted.
IncSkipped(s, i) == UNCHANGED slotVars

\* Slots::inc
inc(s, i) ==
    /\ ref_count' = [ref_count EXCEPT ![s][i] = @ + 1]
    /\ UNCHANGED <<len, root, link, next_free>>

\* Mutant: a vacated slot forgets the rest of the free list.
DecUnlinked(s, i) ==
    /\ IF ref_count[s][i] = 0
       THEN /\ root' = [root EXCEPT ![s][i] = Null]
            /\ next_free' = [next_free EXCEPT ![s] = i]
            /\ UNCHANGED <<link, ref_count>>
       ELSE /\ ref_count' = [ref_count EXCEPT ![s][i] = @ - 1]
            /\ UNCHANGED <<root, link, next_free>>
    /\ UNCHANGED len

\* Slots::dec
dec(s, i) ==
    /\ IF ref_count[s][i] = 0
       THEN /\ root' = [root EXCEPT ![s][i] = Null]
            /\ link' = [link EXCEPT ![s][i] = next_free[s]]
            /\ next_free' = [next_free EXCEPT ![s] = i]
            /\ UNCHANGED ref_count
       ELSE /\ ref_count' = [ref_count EXCEPT ![s][i] = @ - 1]
            /\ UNCHANGED <<root, link, next_free>>
    /\ UNCHANGED len

\* A new handle h
NewHandle(h, s, i, v) ==
    /\ slots[h] = Null
    /\ slots' = [slots EXCEPT ![h] = s]
    /\ index' = [index EXCEPT ![h] = i]
    /\ ptr' = [ptr EXCEPT ![h] = v]

\* DynamicRootSet::stash (its barrier is GcArena!AdoptBackward)
Stash(s, v, h) ==
    /\ s \in alive
    /\ add(s, v)
    /\ NewHandle(h, s, FreeSlot(s), v)
    /\ UNCHANGED alive

\* Clone for DynamicRoot
Clone(h, copy) ==
    /\ slots[h] # Null
    /\ IF slots[h] \in alive THEN inc(slots[h], index[h]) ELSE UNCHANGED slotVars
    /\ NewHandle(copy, slots[h], index[h], ptr[h])
    /\ UNCHANGED alive

\* Drop for DynamicRoot
DropHandle(h) ==
    /\ slots[h] # Null
    /\ IF slots[h] \in alive THEN dec(slots[h], index[h]) ELSE UNCHANGED slotVars
    /\ slots' = [slots EXCEPT ![h] = Null]
    /\ index' = [index EXCEPT ![h] = Null]
    /\ ptr' = [ptr EXCEPT ![h] = Null]
    /\ UNCHANGED alive

\* DynamicRootSet::contains: the addresses agree
contains(s, h) == slots[h] = s

Next ==
    \/ \E s \in Set : NewSet(s) \/ DropSet(s)
    \/ \E s \in Set, v \in Value, h \in Handle : Stash(s, v, h)
    \/ \E h, copy \in Handle : Clone(h, copy)
    \/ \E h \in Handle : DropHandle(h)

Spec == Init /\ [][Next]_vars

-----------------------------------------------------------------------------
(* Properties                                                              *)

TypeOK ==
    /\ alive \subseteq Set
    /\ len \in [Set -> 0 .. MaxSlots]
    /\ root \in [Set -> [Index -> Value \cup {Null}]]
    /\ ref_count \in [Set -> [Index -> Nat]]
    /\ link \in [Set -> [Index -> Index \cup {Null}]]
    /\ next_free \in [Set -> Index \cup {Null}]
    /\ slots \in [Handle -> Set \cup {Null}]
    /\ index \in [Handle -> Index \cup {Null}]
    /\ ptr \in [Handle -> Value \cup {Null}]

\* A handle that a live set recognises as its own finds its slot occupied by
\* the very value it was stashed with: fetch never returns a pointer the set
\* does not keep alive, though slots, handles and addresses are all used
\* again (dynamic_roots.rs 78-119), and inc and dec never meet a vacant slot.
FetchIsRooted ==
    \A s \in alive, h \in Handle :
        contains(s, h) => index[h] \in Index /\ ptr[h] # Null /\ root[s][index[h]] = ptr[h]

Owners(s, i) == {h \in Handle : slots[h] = s /\ index[h] = i}

\* A slot is occupied exactly as long as handles to it exist, a count of 0
\* standing for one of them: no value leaks and none is unrooted early
\* (dynamic_roots.rs 249-314).
RefCountExact ==
    \A s \in alive, i \in Index :
        Cardinality(Owners(s, i)) = IF root[s][i] = Null THEN 0 ELSE ref_count[s][i] + 1

Vacant(s) == {i \in Index : i < len[s] /\ root[s][i] = Null}

\* The free list only holds vacant slots of the Vec, each at most once, so add
\* never panics with "free slot linked list corrupted" (dynamic_roots.rs 249-262).
FreeListVacant ==
    \A s \in alive :
        /\ \A i \in Index : root[s][i] # Null => i < len[s]
        /\ next_free[s] \in Vacant(s) \cup {Null}
        /\ \A i \in Vacant(s) : /\ link[s][i] \in Vacant(s) \cup {Null}
                                /\ link[s][i] # Null => link[s][i] # next_free[s]
        /\ \A i, j \in Vacant(s) : link[s][i] = link[s][j] => i = j \/ link[s][i] = Null

\* Every vacant slot will be used again: it is on the free list, and there is
\* none when the list is empty (dynamic_roots.rs 299-314).
VacantIsReusable ==
    \A s \in alive : \A i \in Vacant(s) : \A S \in SUBSET Index :
        /\ next_free[s] # Null => next_free[s] \in S
        /\ \A j \in S \cap Vacant(s) : link[s][j] # Null => link[s][j] \in S
        => i \in S

-----------------------------------------------------------------------------
(***************************************************************************)
(* The inductive invariant behind FetchIsRooted: it also needs that a      *)
(* handle that exists has all its fields and that a dropped set is empty.  *)
(***************************************************************************)
HandlesComplete ==
    \A h \in Handle : slots[h] # Null => index[h] \in Index /\ ptr[h] \in Value

DroppedIsEmpty ==
    \A s \in Set \ alive : len[s] = 0 /\ next_free[s] = Null /\ \A i \in Index : root[s][i] = Null

IInv ==
    TypeOK /\ HandlesComplete /\ DroppedIsEmpty /\ FetchIsRooted /\ RefCountExact /\ FreeListVacant

=============================================================================
