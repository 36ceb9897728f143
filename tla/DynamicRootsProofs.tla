------------------------- MODULE DynamicRootsProofs -------------------------
(***************************************************************************)
(* Safety of DynamicRootSet for any number of sets, handles and slots.     *)
(*                                                                         *)
(* FetchIsRooted is not inductive by itself: that a slot is not vacated    *)
(* under a handle needs the exact reference counts, and that a slot is not *)
(* handed out twice needs the shape of the free list.                      *)
(***************************************************************************)
EXTENDS DynamicRoots, FiniteSetTheorems, TLAPS

(* The handles of a slot are finitely many, and none exists without its fields. *)
LEMMA OwnersFinite ==
  ASSUME NEW s, NEW i
  PROVE  IsFiniteSet(Owners(s, i)) /\ Cardinality(Owners(s, i)) \in Nat
<1>1. Owners(s, i) \subseteq Handle
  BY DEF Owners
<1>2. IsFiniteSet(Owners(s, i))
  BY <1>1, HandleAssumption, FS_Subset
<1> QED BY <1>2, FS_CardinalityType

(* A new handle adds itself to the owners of its slot and to no others. *)
LEMMA OwnersNew ==
  ASSUME TypeOK, NEW h \in Handle, NEW t \in Set, NEW k \in Index, NEW v,
         NewHandle(h, t, k, v), NEW s \in Set, NEW i \in Index
  PROVE  Cardinality(Owners(s, i)') =
            IF s = t /\ i = k THEN Cardinality(Owners(s, i)) + 1 ELSE Cardinality(Owners(s, i))
<1>1. h \notin Owners(s, i)
  BY NullAssumption DEF Owners, NewHandle
<1>2. CASE s = t /\ i = k
  <2>1. Owners(s, i)' = Owners(s, i) \cup {h}
    BY <1>2 DEF Owners, NewHandle, TypeOK
  <2> QED BY <1>1, <1>2, <2>1, OwnersFinite, FS_AddElement
<1>3. CASE ~(s = t /\ i = k)
  <2>1. Owners(s, i)' = Owners(s, i)
    BY <1>1, <1>3 DEF Owners, NewHandle, TypeOK
  <2> QED BY <1>3, <2>1
<1> QED BY <1>2, <1>3

(* A handle that is dropped leaves the owners of its slot and no others. *)
LEMMA OwnersDrop ==
  ASSUME TypeOK, NEW h \in Handle, slots[h] # Null, slots' = [slots EXCEPT ![h] = Null],
         index' = [index EXCEPT ![h] = Null], NEW s \in Set, NEW i \in Index
  PROVE  Cardinality(Owners(s, i)') =
            IF s = slots[h] /\ i = index[h] THEN Cardinality(Owners(s, i)) - 1
            ELSE Cardinality(Owners(s, i))
<1>1. Owners(s, i)' = Owners(s, i) \ {h}
  BY NullAssumption DEF Owners, TypeOK
<1>2. h \in Owners(s, i) <=> s = slots[h] /\ i = index[h]
  BY DEF Owners
<1> QED BY <1>1, <1>2, OwnersFinite, FS_RemoveElement

(* Handles that keep their set and index keep the owners of every slot. *)
LEMMA OwnersSame ==
  ASSUME NEW s, NEW i, UNCHANGED <<slots, index>>
  PROVE  Owners(s, i)' = Owners(s, i)
  BY DEF Owners

-----------------------------------------------------------------------------
(* Each action preserves IInv. *)

(* A new set starts empty and no handle refers to it. *)
LEMMA NewSetInv == ASSUME IInv, NEW s \in Set, NewSet(s) PROVE IInv'
<1> USE DEF IInv, NewSet, slotVars, handleVars
<1>1. TypeOK' /\ HandlesComplete' /\ DroppedIsEmpty'
  BY DEF TypeOK, HandlesComplete, DroppedIsEmpty
<1>2. FetchIsRooted'
  BY DEF FetchIsRooted, contains, Weaks
<1>3. RefCountExact'
  <2>1. \A i \in Index : Owners(s, i) = {} /\ root[s][i] = Null
    BY DEF Weaks, Owners, DroppedIsEmpty
  <2> QED BY <2>1, OwnersSame, FS_EmptySet DEF RefCountExact
<1>4. FreeListVacant'
  BY NullAssumption DEF FreeListVacant, Vacant, DroppedIsEmpty, Index, TypeOK
<1> QED BY <1>1, <1>2, <1>3, <1>4

(* Dropping a set leaves its handles behind, and no live set recognises them. *)
LEMMA DropSetInv == ASSUME IInv, NEW s \in Set, DropSet(s) PROVE IInv'
<1> USE DEF IInv, DropSet, handleVars
<1>1. TypeOK' /\ HandlesComplete' /\ DroppedIsEmpty'
  BY SlotsAssumption DEF TypeOK, HandlesComplete, DroppedIsEmpty
<1>2. \A t \in alive' : /\ t \in alive /\ len'[t] = len[t] /\ root'[t] = root[t]
                        /\ ref_count'[t] = ref_count[t] /\ link'[t] = link[t]
                        /\ next_free'[t] = next_free[t]
  BY DEF TypeOK
<1>3. FetchIsRooted'
  BY <1>2 DEF FetchIsRooted, contains
<1>4. RefCountExact'
  BY <1>2, OwnersSame DEF RefCountExact
<1>5. FreeListVacant'
  BY <1>2 DEF FreeListVacant, Vacant
<1> QED BY <1>1, <1>3, <1>4, <1>5

(* Stashing takes a slot that is vacant and gives it its first handle. *)
LEMMA StashInv ==
  ASSUME IInv, NEW s \in Set, NEW v \in Value, NEW h \in Handle, Stash(s, v, h)
  PROVE  IInv'
<1> DEFINE k == FreeSlot(s)
<1> USE DEF IInv
<1>1. /\ s \in alive /\ alive' = alive /\ k \in Index /\ root[s][k] = Null
      /\ next_free' = [next_free EXCEPT ![s] = IF @ # Null THEN link[s][k] ELSE @]
      /\ len' = [len EXCEPT ![s] = IF next_free[s] # Null THEN @ ELSE @ + 1]
      /\ root' = [root EXCEPT ![s][k] = v]
      /\ ref_count' = [ref_count EXCEPT ![s][k] = 0]
      /\ link' = [link EXCEPT ![s][k] = Null]
      /\ NewHandle(h, s, k, v)
      /\ next_free[s] # Null => k = next_free[s]
      /\ next_free[s] = Null => k = len[s]
  BY DEF Stash, add, FreeSlot, FreeListVacant, Vacant, TypeOK
<1> HIDE DEF k
<1>2. TypeOK'
  BY <1>1, SlotsAssumption, NullAssumption DEF TypeOK, NewHandle, Index
<1>3. HandlesComplete' /\ DroppedIsEmpty'
  BY <1>1 DEF HandlesComplete, DroppedIsEmpty, TypeOK, NewHandle
<1>4. Owners(s, k) = {}
  BY <1>1, OwnersFinite, FS_EmptySet DEF RefCountExact
<1>5. FetchIsRooted'
  BY <1>1, <1>4, NullAssumption DEF FetchIsRooted, contains, TypeOK, NewHandle, Owners
<1>6. RefCountExact'
  <2> SUFFICES ASSUME NEW t \in alive, NEW i \in Index
               PROVE  Cardinality(Owners(t, i)') =
                         IF root'[t][i] = Null THEN 0 ELSE ref_count'[t][i] + 1
    BY <1>1 DEF RefCountExact
  <2>1. t \in Set
    BY DEF TypeOK
  <2>2. Cardinality(Owners(t, i)') =
          IF t = s /\ i = k THEN Cardinality(Owners(t, i)) + 1 ELSE Cardinality(Owners(t, i))
    BY <1>1, <2>1, OwnersNew
  <2>3. CASE t = s /\ i = k
    BY <1>1, <1>4, <2>2, <2>3, FS_EmptySet, NullAssumption DEF TypeOK
  <2>4. CASE ~(t = s /\ i = k)
    BY <1>1, <2>1, <2>2, <2>4 DEF TypeOK, RefCountExact
  <2> QED BY <2>3, <2>4
<1>7. FreeListVacant'
  <2>1. \A t \in alive : t # s => /\ len'[t] = len[t] /\ root'[t] = root[t] /\ link'[t] = link[t]
                                  /\ next_free'[t] = next_free[t]
    BY <1>1 DEF TypeOK
  <2>2. \A i \in Index : i # k => root'[s][i] = root[s][i] /\ link'[s][i] = link[s][i]
    BY <1>1 DEF TypeOK
  <2>3. root'[s][k] # Null
    BY <1>1, NullAssumption DEF TypeOK
  <2>4. CASE next_free[s] # Null
    <3>1. len'[s] = len[s] /\ next_free'[s] = link[s][k] /\ k \in Vacant(s)
      BY <1>1, <2>4 DEF TypeOK, FreeListVacant
    <3>2. Vacant(s)' = Vacant(s) \ {k}
      BY <2>2, <2>3, <3>1 DEF Vacant
    <3> QED BY <1>1, <2>1, <2>2, <3>1, <3>2, <2>4 DEF FreeListVacant, Vacant, TypeOK
  <2>5. CASE next_free[s] = Null
    <3>1. len'[s] = len[s] + 1 /\ next_free'[s] = Null /\ k = len[s]
      BY <1>1, <2>5 DEF TypeOK
    <3>2. Vacant(s)' = Vacant(s)
      <4>1. \A i \in Index : i < len[s] + 1 /\ i # k <=> i < len[s]
        BY <3>1 DEF Index, TypeOK
      <4> QED BY <2>2, <2>3, <3>1, <4>1 DEF Vacant
    <3> QED BY <1>1, <2>1, <2>2, <3>1, <3>2, <2>5 DEF FreeListVacant, Vacant, TypeOK, Index
  <2> QED BY <2>4, <2>5
<1> QED BY <1>2, <1>3, <1>5, <1>6, <1>7

(* A clone counts itself in, if its set still exists. *)
LEMMA CloneInv ==
  ASSUME IInv, NEW h \in Handle, NEW copy \in Handle, Clone(h, copy)
  PROVE  IInv'
<1> USE DEF IInv
<1>1. /\ slots[h] \in Set /\ index[h] \in Index /\ ptr[h] \in Value /\ alive' = alive
      /\ NewHandle(copy, slots[h], index[h], ptr[h])
      /\ UNCHANGED <<len, root, link, next_free>>
      /\ ref_count' = IF slots[h] \in alive THEN [ref_count EXCEPT ![slots[h]][index[h]] = @ + 1]
                      ELSE ref_count
  BY DEF Clone, inc, slotVars, HandlesComplete, TypeOK
<1>2. TypeOK'
  BY <1>1 DEF TypeOK, NewHandle
<1>3. HandlesComplete' /\ DroppedIsEmpty'
  BY <1>1 DEF HandlesComplete, DroppedIsEmpty, TypeOK, NewHandle
<1>4. FetchIsRooted'
  BY <1>1 DEF FetchIsRooted, contains, TypeOK, NewHandle
<1>5. RefCountExact'
  <2> SUFFICES ASSUME NEW t \in alive, NEW i \in Index
               PROVE  Cardinality(Owners(t, i)') =
                         IF root'[t][i] = Null THEN 0 ELSE ref_count'[t][i] + 1
    BY <1>1 DEF RefCountExact
  <2>1. t \in Set
    BY DEF TypeOK
  <2>2. Cardinality(Owners(t, i)') =
          IF t = slots[h] /\ i = index[h] THEN Cardinality(Owners(t, i)) + 1
          ELSE Cardinality(Owners(t, i))
    BY <1>1, <2>1, OwnersNew
  <2>3. CASE t = slots[h] /\ i = index[h]
    <3>1. root[t][i] # Null
      BY <2>3 DEF FetchIsRooted, contains
    <3>2. ref_count'[t][i] = ref_count[t][i] + 1
      BY <1>1, <2>3 DEF TypeOK
    <3> QED BY <1>1, <2>1, <2>2, <2>3, <3>1, <3>2 DEF TypeOK, RefCountExact
  <2>4. CASE ~(t = slots[h] /\ i = index[h])
    <3>1. ref_count'[t][i] = ref_count[t][i]
      BY <1>1, <2>1, <2>4 DEF TypeOK
    <3> QED BY <1>1, <2>2, <2>4, <3>1 DEF RefCountExact
  <2> QED BY <2>3, <2>4
<1>6. FreeListVacant'
  BY <1>1 DEF FreeListVacant, Vacant
<1> QED BY <1>2, <1>3, <1>4, <1>5, <1>6

(* The last handle of a slot vacates it, and every other one only counts down. *)
LEMMA DropHandleInv == ASSUME IInv, NEW h \in Handle, DropHandle(h) PROVE IInv'
<1> USE DEF IInv
<1>0. slots[h] # Null /\ slots[h] \in Set /\ index[h] \in Index /\ alive' = alive
  BY DEF DropHandle, HandlesComplete, TypeOK
<1>1. PICK s \in Set, k \in Index : s = slots[h] /\ k = index[h]
  BY <1>0
<1> USE <1>0, <1>1
<1>2. /\ slots' = [slots EXCEPT ![h] = Null] /\ index' = [index EXCEPT ![h] = Null]
      /\ ptr' = [ptr EXCEPT ![h] = Null] /\ len' = len
  BY DEF DropHandle, dec, slotVars
<1>3. HandlesComplete'
  BY <1>2 DEF HandlesComplete, TypeOK
<1>4. ASSUME NEW t \in Set, NEW i \in Index
      PROVE  Cardinality(Owners(t, i)') = IF t = s /\ i = k THEN Cardinality(Owners(t, i)) - 1
                                          ELSE Cardinality(Owners(t, i))
  BY <1>2, OwnersDrop
<1>5. CASE s \notin alive
  <2>1. UNCHANGED slotVars
    BY <1>5 DEF DropHandle
  <2>2. TypeOK' /\ DroppedIsEmpty' /\ FreeListVacant'
    BY <1>2, <2>1 DEF TypeOK, DroppedIsEmpty, FreeListVacant, Vacant, slotVars
  <2>3. FetchIsRooted'
    BY <1>2, <2>1, NullAssumption DEF FetchIsRooted, contains, TypeOK, slotVars
  <2>4. RefCountExact'
    BY <1>4, <1>5, <2>1 DEF RefCountExact, TypeOK, slotVars
  <2> QED BY <1>3, <2>2, <2>3, <2>4
<1>6. CASE s \in alive /\ ref_count[s][k] # 0
  <2>1. /\ ref_count' = [ref_count EXCEPT ![s][k] = @ - 1]
        /\ UNCHANGED <<root, link, next_free>>
    BY <1>6 DEF DropHandle, dec
  <2>2. TypeOK'
    <3>1. ref_count[s][k] - 1 \in Nat
      BY <1>6 DEF TypeOK
    <3>2. ref_count' \in [Set -> [Index -> Nat]]
      BY <2>1, <3>1 DEF TypeOK
    <3> QED BY <1>2, <2>1, <3>2 DEF TypeOK
  <2>3. DroppedIsEmpty' /\ FreeListVacant'
    BY <1>2, <2>1 DEF DroppedIsEmpty, FreeListVacant, Vacant
  <2>4. FetchIsRooted'
    BY <1>2, <2>1, NullAssumption DEF FetchIsRooted, contains, TypeOK
  <2>5. root[s][k] # Null
    BY <1>6 DEF FetchIsRooted, contains
  <2>6. RefCountExact'
    <3> SUFFICES ASSUME NEW t \in alive, NEW i \in Index
                 PROVE  Cardinality(Owners(t, i)') =
                           IF root'[t][i] = Null THEN 0 ELSE ref_count'[t][i] + 1
      BY DEF RefCountExact
    <3>1. t \in Set
      BY DEF TypeOK
    <3>2. ref_count'[t][i] = IF t = s /\ i = k THEN ref_count[t][i] - 1 ELSE ref_count[t][i]
      BY <2>1, <3>1 DEF TypeOK
    <3>3. ref_count[t][i] \in Nat
      BY <3>1 DEF TypeOK
    <3>4. Cardinality(Owners(t, i)') = IF t = s /\ i = k THEN Cardinality(Owners(t, i)) - 1
                                       ELSE Cardinality(Owners(t, i))
      BY <1>4, <3>1
    <3> QED BY <2>1, <2>5, <3>1, <3>2, <3>3, <3>4 DEF RefCountExact
  <2> QED BY <1>3, <2>2, <2>3, <2>4, <2>6
<1>7. CASE s \in alive /\ ref_count[s][k] = 0
  <2>1. /\ root' = [root EXCEPT ![s][k] = Null]
        /\ link' = [link EXCEPT ![s][k] = next_free[s]]
        /\ next_free' = [next_free EXCEPT ![s] = k]
        /\ ref_count' = ref_count
    BY <1>7 DEF DropHandle, dec
  <2>2. TypeOK'
    BY <1>2, <2>1 DEF TypeOK
  <2>3. DroppedIsEmpty'
    BY <1>2, <1>7, <2>1 DEF DroppedIsEmpty, TypeOK
  <2>4. root[s][k] # Null /\ k < len[s]
    BY <1>7 DEF FetchIsRooted, contains, FreeListVacant
  <2>5. Owners(s, k) = {h}
    <3>1. Cardinality(Owners(s, k)) = 1
      BY <1>7, <2>4 DEF RefCountExact
    <3>2. h \in Owners(s, k)
      BY DEF Owners
    <3>3. Cardinality(Owners(s, k) \ {h}) = 0 /\ IsFiniteSet(Owners(s, k) \ {h})
      <4>1. IsFiniteSet(Owners(s, k))
        BY OwnersFinite
      <4>2. Cardinality(Owners(s, k) \ {h}) = 1 - 1 /\ IsFiniteSet(Owners(s, k) \ {h})
        BY <3>1, <3>2, <4>1, FS_RemoveElement
      <4> QED BY <4>2
    <3>4. Owners(s, k) \ {h} = {}
      BY <3>3, FS_EmptySet
    <3> QED BY <3>2, <3>4
  <2>6. FetchIsRooted'
    <3> SUFFICES ASSUME NEW t \in alive, NEW g \in Handle, slots'[g] = t
                 PROVE  index'[g] \in Index /\ ptr'[g] # Null /\ root'[t][index'[g]] = ptr'[g]
      BY DEF FetchIsRooted, contains
    <3>1. t \in Set /\ g # h /\ slots[g] = t /\ index'[g] = index[g] /\ ptr'[g] = ptr[g]
      BY <1>2, NullAssumption DEF TypeOK
    <3>2. ~(t = s /\ index[g] = k)
      BY <2>5, <3>1 DEF Owners
    <3>3. index[g] \in Index /\ ptr[g] # Null /\ root[t][index[g]] = ptr[g]
      BY <3>1 DEF FetchIsRooted, contains
    <3>4. root'[t][index[g]] = root[t][index[g]]
      BY <2>1, <3>1, <3>2, <3>3 DEF TypeOK
    <3> QED BY <3>1, <3>3, <3>4
  <2>7. RefCountExact'
    <3> SUFFICES ASSUME NEW t \in alive, NEW i \in Index
                 PROVE  Cardinality(Owners(t, i)') =
                           IF root'[t][i] = Null THEN 0 ELSE ref_count'[t][i] + 1
      BY DEF RefCountExact
    <3>1. t \in Set
      BY DEF TypeOK
    <3>2. root'[t][i] = IF t = s /\ i = k THEN Null ELSE root[t][i]
      BY <2>1, <3>1 DEF TypeOK
    <3>3. Cardinality(Owners(t, i)') = IF t = s /\ i = k THEN Cardinality(Owners(t, i)) - 1
                                       ELSE Cardinality(Owners(t, i))
      BY <1>4, <3>1
    <3> QED BY <1>7, <2>1, <2>4, <3>1, <3>2, <3>3 DEF RefCountExact
  <2>8. FreeListVacant'
    <3>1. \A t \in alive : t # s => /\ root'[t] = root[t] /\ link'[t] = link[t]
                                    /\ next_free'[t] = next_free[t]
      BY <2>1 DEF TypeOK
    <3>2. \A i \in Index : i # k => root'[s][i] = root[s][i] /\ link'[s][i] = link[s][i]
      BY <2>1 DEF TypeOK
    <3>3. root'[s][k] = Null /\ link'[s][k] = next_free[s] /\ next_free'[s] = k /\ k # Null
      <4>1. k # Null
        BY NullAssumption DEF Index
      <4> QED BY <2>1, <4>1 DEF TypeOK
    <3>4. Vacant(s)' = Vacant(s) \cup {k} /\ k \notin Vacant(s)
      BY <1>2, <2>4, <3>2, <3>3 DEF Vacant
    <3> QED BY <1>2, <1>7, <3>1, <3>2, <3>3, <3>4 DEF FreeListVacant, Vacant
  <2> QED BY <1>3, <2>2, <2>3, <2>6, <2>7, <2>8
<1> QED BY <1>5, <1>6, <1>7

-----------------------------------------------------------------------------
(* No set and no handle exists at first. *)
LEMMA InitIInv == Init => IInv
<1> SUFFICES ASSUME Init PROVE IInv
  OBVIOUS
<1>1. TypeOK
  BY SlotsAssumption DEF Init, TypeOK
<1> QED BY <1>1 DEF Init, IInv, HandlesComplete, DroppedIsEmpty, FetchIsRooted, RefCountExact,
                    FreeListVacant

(* IInv holds in every reachable state. *)
THEOREM Inductive == Spec => []IInv
<1>1. IInv /\ [Next]_vars => IInv'
  <2> SUFFICES ASSUME IInv, [Next]_vars PROVE IInv'
    OBVIOUS
  <2>1. CASE Next
    BY <2>1, NewSetInv, DropSetInv, StashInv, CloneInv, DropHandleInv DEF Next
  <2>2. CASE UNCHANGED vars
    <3>1. UNCHANGED <<slots, index>>
      BY <2>2 DEF vars, handleVars
    <3>2. RefCountExact'
      BY <2>2, <3>1, OwnersSame DEF IInv, RefCountExact, vars, slotVars
    <3> QED BY <2>2, <3>2 DEF IInv, TypeOK, HandlesComplete, DroppedIsEmpty, FetchIsRooted,
                  contains, FreeListVacant, Vacant, vars, slotVars, handleVars
  <2> QED BY <2>1, <2>2
<1> QED BY InitIInv, <1>1, PTL DEF Spec

(* Whatever is fetched is rooted: what a live set takes for its own handle finds its value. *)
THEOREM FetchIsRootedAlways == Spec => []FetchIsRooted
<1>1. IInv => FetchIsRooted
  BY DEF IInv
<1> QED BY Inductive, <1>1, PTL

(* A slot is occupied exactly as long as it has handles. *)
THEOREM RefCountExactAlways == Spec => []RefCountExact
<1>1. IInv => RefCountExact
  BY DEF IInv
<1> QED BY Inductive, <1>1, PTL

(* The free list is never corrupted. *)
THEOREM FreeListVacantAlways == Spec => []FreeListVacant
<1>1. IInv => FreeListVacant
  BY DEF IInv
<1> QED BY Inductive, <1>1, PTL

-----------------------------------------------------------------------------
(* Every vacant slot is on the free list. *)

\* A set of slots that holds what follows its members on the free list of s
FollowsLinks(s, S) == \A j \in S \cap Vacant(s) : link[s][j] # Null => link[s][j] \in S

\* VacantIsReusable of one set
Reusable(s) ==
    \A S \in SUBSET Index :
        (next_free[s] # Null => next_free[s] \in S) /\ FollowsLinks(s, S) => Vacant(s) \subseteq S

LEMMA ReusableIs == VacantIsReusable <=> \A s \in alive : Reusable(s)
<1>1. \A s : Reusable(s) <=>
        \A i \in Vacant(s) : \A S \in SUBSET Index :
            /\ next_free[s] # Null => next_free[s] \in S
            /\ \A j \in S \cap Vacant(s) : link[s][j] # Null => link[s][j] \in S
            => i \in S
  BY DEF Reusable, FollowsLinks
<1> QED BY <1>1 DEF VacantIsReusable

(* A set whose slots do not change keeps them reusable. *)
LEMMA ReusableSame ==
  ASSUME NEW s, Reusable(s), len'[s] = len[s], link'[s] = link[s], next_free'[s] = next_free[s],
         \A i \in Index : root'[s][i] = Null <=> root[s][i] = Null
  PROVE  Reusable(s)'
<1>1. Vacant(s)' = Vacant(s)
  BY DEF Vacant
<1> QED BY <1>1 DEF Reusable, FollowsLinks

(* add takes the head off the list: what follows it is reached from the next head. *)
LEMMA StashReusable ==
  ASSUME IInv, NEW s \in Set, NEW v \in Value, NEW h \in Handle, Stash(s, v, h), Reusable(s)
  PROVE  Reusable(s)'
<1> DEFINE k == FreeSlot(s)
<1>1. /\ s \in alive /\ k \in Index /\ v # Null
      /\ next_free' = [next_free EXCEPT ![s] = IF @ # Null THEN link[s][k] ELSE @]
      /\ len' = [len EXCEPT ![s] = IF next_free[s] # Null THEN @ ELSE @ + 1]
      /\ root' = [root EXCEPT ![s][k] = v]
      /\ link' = [link EXCEPT ![s][k] = Null]
      /\ next_free[s] # Null => k = next_free[s]
      /\ next_free[s] = Null => k = len[s]
  BY NullAssumption DEF Stash, add, FreeSlot
<1> HIDE DEF k
<1>2. \A i \in Index : i # k => root'[s][i] = root[s][i] /\ link'[s][i] = link[s][i]
  BY <1>1 DEF IInv, TypeOK
<1>3. root'[s][k] # Null
  BY <1>1 DEF IInv, TypeOK
<1>4. CASE next_free[s] # Null
  <2>1. len'[s] = len[s] /\ next_free'[s] = link[s][k] /\ k = next_free[s]
    BY <1>1, <1>4 DEF IInv, TypeOK
  <2>2. Vacant(s)' = Vacant(s) \ {k}
    BY <1>2, <1>3, <2>1 DEF Vacant
  <2> SUFFICES ASSUME NEW S \in SUBSET Index, next_free'[s] # Null => next_free'[s] \in S,
                      FollowsLinks(s, S)'
               PROVE  Vacant(s)' \subseteq S
    BY DEF Reusable
  <2> DEFINE T == S \cup {k}
  <2>3. T \in SUBSET Index /\ next_free[s] \in T
    BY <1>1, <2>1
  <2>4. ASSUME NEW j \in T \cap Vacant(s), link[s][j] # Null PROVE link[s][j] \in T
    <3>1. CASE j = k
      BY <2>1, <2>4, <3>1
    <3>2. CASE j # k
      BY <1>2, <2>2, <2>4, <3>2 DEF FollowsLinks, Vacant
    <3> QED BY <3>1, <3>2
  <2>5. Vacant(s) \subseteq T
    BY <2>3, <2>4 DEF Reusable, FollowsLinks
  <2> QED BY <2>2, <2>5
<1>5. CASE next_free[s] = Null
  <2>1. len'[s] = len[s] + 1 /\ k = len[s] /\ len[s] \in Nat
    BY <1>1, <1>5 DEF IInv, TypeOK
  <2>2. Vacant(s) = {}
    <3>1. {} \in SUBSET Index /\ FollowsLinks(s, {})
      BY DEF FollowsLinks
    <3> QED BY <1>5, <3>1 DEF Reusable
  <2>3. Vacant(s)' = {}
    <3>1. \A i \in Index : i < len[s] + 1 /\ i # k => i < len[s]
      BY <2>1 DEF Index
    <3> QED BY <1>2, <1>3, <2>1, <2>2, <3>1 DEF Vacant
  <2> QED BY <2>3 DEF Reusable
<1> QED BY <1>4, <1>5

(* dec puts the vacated slot in front of the list. *)
LEMMA DropHandleReusable ==
  ASSUME IInv, NEW h \in Handle, DropHandle(h), NEW s \in alive, Reusable(s)
  PROVE  Reusable(s)'
<1>1. s \in Set /\ (slots[h] \in alive => index[h] \in Index /\ slots[h] \in Set)
  BY DEF IInv, TypeOK, FetchIsRooted, contains
<1>2. CASE slots[h] = s /\ ref_count[s][index[h]] = 0
  <2>1. PICK k \in Index : k = index[h]
    BY <1>1, <1>2
  <2>2. /\ root' = [root EXCEPT ![s][k] = Null] /\ link' = [link EXCEPT ![s][k] = next_free[s]]
        /\ next_free' = [next_free EXCEPT ![s] = k] /\ len' = len
    BY <1>2, <2>1 DEF DropHandle, dec
  <2>3. root[s][k] # Null /\ k < len[s] /\ k # Null
    BY <1>2, <2>1, NullAssumption DEF IInv, FetchIsRooted, contains, FreeListVacant, Index
  <2>4. /\ \A i \in Index : i # k => root'[s][i] = root[s][i] /\ link'[s][i] = link[s][i]
        /\ root'[s][k] = Null /\ link'[s][k] = next_free[s] /\ next_free'[s] = k
    BY <1>1, <2>2 DEF IInv, TypeOK
  <2>5. Vacant(s)' = Vacant(s) \cup {k} /\ k \notin Vacant(s)
    BY <2>2, <2>3, <2>4 DEF Vacant
  <2> SUFFICES ASSUME NEW S \in SUBSET Index, k \in S, FollowsLinks(s, S)'
               PROVE  Vacant(s)' \subseteq S
    BY <2>3, <2>4 DEF Reusable
  <2>6. next_free[s] # Null => next_free[s] \in S
    BY <2>4, <2>5 DEF FollowsLinks
  <2>7. FollowsLinks(s, S)
    BY <2>4, <2>5 DEF FollowsLinks, Vacant
  <2> QED BY <2>5, <2>6, <2>7 DEF Reusable
<1>3. CASE ~(slots[h] = s /\ ref_count[s][index[h]] = 0)
  <2>1. CASE slots[h] \in alive /\ ref_count[slots[h]][index[h]] = 0
    <3>1. slots[h] # s
      BY <1>3, <2>1
    <3>2. /\ root' = [root EXCEPT ![slots[h]][index[h]] = Null]
          /\ link' = [link EXCEPT ![slots[h]][index[h]] = next_free[slots[h]]]
          /\ next_free' = [next_free EXCEPT ![slots[h]] = index[h]] /\ len' = len
      BY <2>1 DEF DropHandle, dec
    <3>3. root'[s] = root[s] /\ link'[s] = link[s] /\ next_free'[s] = next_free[s] /\ len'[s] = len[s]
      BY <1>1, <3>1, <3>2 DEF IInv, TypeOK
    <3> QED BY <3>3, ReusableSame
  <2>2. CASE ~(slots[h] \in alive /\ ref_count[slots[h]][index[h]] = 0)
    <3>1. UNCHANGED <<len, root, link, next_free>>
      BY <2>2 DEF DropHandle, dec, slotVars
    <3> QED BY <3>1, ReusableSame
  <2> QED BY <2>1, <2>2
<1> QED BY <1>2, <1>3

(* No vacant slot is ever lost: the free list reaches all of them. *)
THEOREM VacantIsReusableAlways == Spec => []VacantIsReusable
<1> DEFINE R == \A s \in alive : Reusable(s)
<1>1. Init => R
  BY DEF Init
<1>2. IInv /\ R /\ [Next]_vars => R'
  <2> SUFFICES ASSUME IInv, R, [Next]_vars, NEW s \in alive' PROVE Reusable(s)'
    OBVIOUS
  <2>1. alive \subseteq Set
    BY DEF IInv, TypeOK
  <2>2. ASSUME NEW t \in Set, NewSet(t) PROVE Reusable(s)'
    <3>1. CASE s = t
      <4>1. len'[s] = 0
        BY <2>2, <3>1 DEF NewSet, slotVars, IInv, DroppedIsEmpty
      <4>2. Vacant(s)' = {}
        BY <4>1 DEF Vacant, Index
      <4> QED BY <4>2 DEF Reusable
    <3>2. CASE s # t
      <4>1. s \in alive /\ UNCHANGED slotVars
        BY <2>2, <3>2 DEF NewSet
      <4> QED BY <4>1, ReusableSame DEF slotVars
    <3> QED BY <3>1, <3>2
  <2>3. ASSUME NEW t \in Set, DropSet(t) PROVE Reusable(s)'
    <3>1. s \in alive /\ s # t
      BY <2>3 DEF DropSet
    <3>2. root'[s] = root[s] /\ link'[s] = link[s] /\ next_free'[s] = next_free[s] /\ len'[s] = len[s]
      BY <2>1, <2>3, <3>1 DEF DropSet, IInv, TypeOK
    <3> QED BY <3>1, <3>2, ReusableSame
  <2>4. ASSUME NEW t \in Set, NEW v \in Value, NEW h \in Handle, Stash(t, v, h) PROVE Reusable(s)'
    <3>1. s \in alive
      BY <2>4 DEF Stash
    <3>2. CASE s = t
      BY <2>4, <3>1, <3>2, StashReusable
    <3>3. CASE s # t
      <4>1. root'[s] = root[s] /\ link'[s] = link[s] /\ next_free'[s] = next_free[s] /\ len'[s] = len[s]
        BY <2>1, <2>4, <3>1, <3>3 DEF Stash, add, IInv, TypeOK
      <4> QED BY <3>1, <4>1, ReusableSame
    <3> QED BY <3>2, <3>3
  <2>5. ASSUME NEW h \in Handle, NEW copy \in Handle, Clone(h, copy) PROVE Reusable(s)'
    <3>1. s \in alive /\ UNCHANGED <<len, root, link, next_free>>
      BY <2>5 DEF Clone, inc, slotVars
    <3> QED BY <3>1, ReusableSame
  <2>6. ASSUME NEW h \in Handle, DropHandle(h) PROVE Reusable(s)'
    <3>1. s \in alive
      BY <2>6 DEF DropHandle
    <3> QED BY <2>6, <3>1, DropHandleReusable
  <2>7. CASE UNCHANGED vars
    <3>1. s \in alive /\ UNCHANGED <<len, root, link, next_free>>
      BY <2>7 DEF vars, slotVars
    <3> QED BY <3>1, ReusableSame
  <2> QED BY <2>2, <2>3, <2>4, <2>5, <2>6, <2>7 DEF Next
<1>3. R => VacantIsReusable
  BY ReusableIs
<1> HIDE DEF R
<1> QED BY <1>1, <1>2, <1>3, Inductive, PTL DEF Spec


=============================================================================
