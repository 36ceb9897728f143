------------------------- MODULE GcSweepListProofs -------------------------
(***************************************************************************)
(* The intrusive list of boxes implements the set of boxes, for any number *)
(* of addresses.                                                           *)
(*                                                                         *)
(* That the list holds the allocated boxes is not inductive: to unlink the *)
(* box after sweep_prev must lose no other box, and to step to next must   *)
(* leave the visited box behind.  Both need that the list has no cycle and *)
(* that no two boxes share their next (List).                              *)
(***************************************************************************)
EXTENDS GcSweepList, TLAPS

Ptr == Obj \cup {None}

\* ListFrom for any next pointers n
Reach(n, h) ==
    {o \in Obj : \A S \in SUBSET Obj :
        /\ h # None => h \in S
        /\ \A p \in S : n[p] # None => n[p] \in S
        => o \in S}

\* The next pointers n link the boxes H from head on, without cycle or sharing.
List(n, head, H) ==
    /\ Reach(n, head) = H
    /\ \A o \in H : o \notin Reach(n, n[o])
    /\ \A o, p \in H : n[o] = n[p] /\ n[o] # None => o = p

\* Where a sweep is
SweepInv ==
    IF phase = "Sweep"
    THEN IF sweep_prev = None THEN sweep = all
         ELSE sweep_prev \in heap /\ next[sweep_prev] = sweep
    ELSE sweep = None /\ sweep_prev = None

IInv == TypeOK /\ List(next, all, heap) /\ SweepInv

-----------------------------------------------------------------------------
(* Lists *)

LEMMA ListFromIsReach == \A h : ListFrom(h) = Reach(next, h)
  BY DEF ListFrom, Reach

(* What is reached holds its head and is closed under next. *)
LEMMA ReachClosed ==
  ASSUME NEW n \in [Obj -> Ptr], NEW h \in Ptr
  PROVE  /\ Reach(n, h) \subseteq Obj
         /\ h # None => h \in Reach(n, h)
         /\ \A p \in Reach(n, h) : n[p] # None => n[p] \in Reach(n, h)
<1>1. Reach(n, h) \subseteq Obj
  BY DEF Reach
<1>2. h # None => h \in Reach(n, h)
  BY DEF Reach, Ptr
<1>3. ASSUME NEW p \in Reach(n, h), n[p] # None PROVE n[p] \in Reach(n, h)
  <2>1. n[p] \in Obj
    BY <1>1, <1>3 DEF Ptr
  <2> SUFFICES ASSUME NEW S \in SUBSET Obj, h # None => h \in S,
                      \A q \in S : n[q] # None => n[q] \in S
               PROVE  n[p] \in S
    BY <2>1 DEF Reach
  <2>2. p \in S
    BY DEF Reach
  <2> QED BY <1>3, <2>2
<1> QED BY <1>1, <1>2, <1>3

(* It is the least such set. *)
LEMMA ReachLeast ==
  ASSUME NEW n, NEW h, NEW S \in SUBSET Obj, h # None => h \in S,
         \A p \in S : n[p] # None => n[p] \in S
  PROVE  Reach(n, h) \subseteq S
  BY DEF Reach

(* An empty list reaches nothing. *)
LEMMA ReachNone == ASSUME NEW n PROVE Reach(n, None) = {}
<1>1. {} \in SUBSET Obj /\ \A p \in {} : n[p] # None => n[p] \in {}
  OBVIOUS
<1>2. Reach(n, None) \subseteq {}
  BY <1>1, ReachLeast
<1> QED BY <1>2

(* A list is its head and the rest. *)
LEMMA ReachUnfold ==
  ASSUME NEW n \in [Obj -> Ptr], NEW h \in Obj
  PROVE  Reach(n, h) = {h} \cup Reach(n, n[h])
<1>1. h \in Ptr /\ n[h] \in Ptr /\ h # None
  BY NoneAssumption DEF Ptr
<1>2. Reach(n, h) \subseteq {h} \cup Reach(n, n[h])
  <2> DEFINE S == {h} \cup Reach(n, n[h])
  <2>1. S \in SUBSET Obj
    BY <1>1, ReachClosed
  <2>2. \A p \in S : n[p] # None => n[p] \in S
    BY <1>1, ReachClosed
  <2>3. h \in S
    OBVIOUS
  <2> HIDE DEF S
  <2>4. Reach(n, h) \subseteq S
    BY <2>1, <2>2, <2>3, ReachLeast
  <2> QED BY <2>4 DEF S
<1>3. Reach(n, n[h]) \subseteq Reach(n, h)
  <2> DEFINE S == Reach(n, h)
  <2>1. S \in SUBSET Obj /\ h \in S
    BY <1>1, ReachClosed
  <2>2. \A p \in S : n[p] # None => n[p] \in S
    BY <1>1, ReachClosed
  <2>3. n[h] # None => n[h] \in S
    BY <2>1, <2>2
  <2> HIDE DEF S
  <2>4. Reach(n, n[h]) \subseteq S
    BY <2>1, <2>2, <2>3, ReachLeast
  <2> QED BY <2>4 DEF S
<1>4. h \in Reach(n, h)
  BY <1>1, ReachClosed
<1> QED BY <1>2, <1>3, <1>4

(* What the pointers elsewhere are does not matter. *)
LEMMA ReachFrame ==
  ASSUME NEW n \in [Obj -> Ptr], NEW m \in [Obj -> Ptr], NEW h \in Ptr,
         \A p \in Reach(n, h) : m[p] = n[p]
  PROVE  Reach(m, h) = Reach(n, h)
<1> DEFINE N == Reach(n, h)
           M == Reach(m, h)
<1>1. /\ N \in SUBSET Obj /\ (h # None => h \in N)
      /\ \A p \in N : n[p] # None => n[p] \in N
  BY ReachClosed
<1>2. /\ M \in SUBSET Obj /\ (h # None => h \in M)
      /\ \A p \in M : m[p] # None => m[p] \in M
  BY ReachClosed
<1>3. \A p \in N : m[p] = n[p]
  OBVIOUS
<1>4. M \subseteq N
  <2>1. \A p \in N : m[p] # None => m[p] \in N
    BY <1>1, <1>3
  <2> HIDE DEF N
  <2> QED BY <1>1, <2>1, ReachLeast
<1>5. N \subseteq N \cap M
  <2>1. \A p \in N \cap M : n[p] # None => n[p] \in N \cap M
    BY <1>1, <1>2, <1>3
  <2>2. N \cap M \in SUBSET Obj /\ (h # None => h \in N \cap M)
    BY <1>1, <1>2
  <2> HIDE DEF M
  <2> DEFINE S == N \cap M
  <2> HIDE DEF S
  <2>3. Reach(n, h) \subseteq S
    BY <2>1, <2>2, ReachLeast DEF S
  <2> QED BY <2>3 DEF S
<1> QED BY <1>4, <1>5

(* The rest of a list: its boxes and, without cycles, not the box before it. *)
LEMMA ListRest ==
  ASSUME NEW n \in [Obj -> Ptr], NEW head \in Ptr, NEW H, List(n, head, H), NEW o \in H
  PROVE  /\ H \subseteq Obj /\ n[o] \in Ptr /\ (n[o] # None => n[o] \in H)
         /\ Reach(n, n[o]) \subseteq H
         /\ Reach(n, n[o]) = Reach(n, o) \ {o}
         /\ n[o] # None => n[o] # head /\ n[o] # o
<1>1. H \subseteq Obj /\ (\A p \in H : n[p] # None => n[p] \in H)
  BY ReachClosed DEF List
<1>2. n[o] \in Ptr /\ o \in Obj
  BY <1>1
<1>3. Reach(n, n[o]) \subseteq H
  BY <1>1, ReachLeast
<1>4. Reach(n, n[o]) = Reach(n, o) \ {o}
  BY <1>2, ReachUnfold DEF List
<1>5. n[o] # None => n[o] # head
  BY DEF List
<1>6. n[o] # None => n[o] # o
  BY <1>2, ReachClosed DEF List
<1> QED BY <1>1, <1>2, <1>3, <1>4, <1>5, <1>6

(* A box pushed in front of a list: Context::allocate. *)
LEMMA ListPush ==
  ASSUME NEW n \in [Obj -> Ptr], NEW head \in Ptr, NEW H, List(n, head, H), NEW o \in Obj \ H
  PROVE  List([n EXCEPT ![o] = head], o, H \cup {o})
<1> DEFINE m == [n EXCEPT ![o] = head]
<1>1. m \in [Obj -> Ptr] /\ m[o] = head /\ (\A p \in Obj : p # o => m[p] = n[p])
  OBVIOUS
<1>2. H \subseteq Obj /\ Reach(n, head) = H
  BY ReachClosed DEF List
<1>3. \A p \in H : m[p] = n[p]
  BY <1>1, <1>2
<1> HIDE DEF m
<1>4. Reach(m, head) = H
  BY <1>1, <1>2, <1>3, ReachFrame
<1>5. Reach(m, o) = H \cup {o}
  BY <1>1, <1>4, ReachUnfold
<1>6. ASSUME NEW p \in H \cup {o} PROVE p \notin Reach(m, m[p])
  <2>1. CASE p = o
    BY <1>1, <1>4, <2>1
  <2>2. CASE p \in H
    <3>1. n[p] \in Ptr /\ Reach(n, n[p]) \subseteq H
      BY <2>2, ListRest
    <3>2. Reach(m, n[p]) = Reach(n, n[p])
      BY <1>1, <1>3, <3>1, ReachFrame
    <3> QED BY <1>3, <2>2, <3>2 DEF List
  <2> QED BY <2>1, <2>2
<1>7. ASSUME NEW p \in H \cup {o}, NEW q \in H \cup {o}, m[p] = m[q], m[p] # None PROVE p = q
  <2>1. \A r \in H : m[r] # None => m[r] # m[o]
    BY <1>1, <1>3, ListRest
  <2> QED BY <1>3, <1>7, <2>1 DEF List
<1>8. List(m, o, H \cup {o})
  BY <1>5, <1>6, <1>7 DEF List
<1> QED BY <1>8 DEF m

(* The first box taken off: DropAll, and a sweep that frees the head. *)
LEMMA ListPop ==
  ASSUME NEW n \in [Obj -> Ptr], NEW head \in Obj, NEW H, List(n, head, H)
  PROVE  /\ List([n EXCEPT ![head] = None], n[head], H \ {head})
         /\ Reach([n EXCEPT ![head] = None], n[head]) = Reach(n, head) \ {head}
<1> DEFINE m == [n EXCEPT ![head] = None]
           R == H \ {head}
<1>1. m \in [Obj -> Ptr] /\ m[head] = None /\ (\A p \in Obj : p # head => m[p] = n[p])
  BY DEF Ptr
<1>2. head \in Ptr /\ head # None /\ head \in H /\ H \subseteq Obj /\ Reach(n, head) = H
  BY NoneAssumption, ReachClosed DEF List, Ptr
<1>3. n[head] \in Ptr /\ Reach(n, n[head]) = R
  BY <1>2, ListRest
<1>4. \A p \in R : m[p] = n[p]
  BY <1>1, <1>2
<1> HIDE DEF m
<1>5. Reach(m, n[head]) = R
  BY <1>1, <1>3, <1>4, ReachFrame
<1>6. ASSUME NEW p \in R PROVE p \notin Reach(m, m[p])
  <2>1. n[p] \in Ptr /\ Reach(n, n[p]) \subseteq H /\ (n[p] # None => n[p] \in R)
    BY <1>2, ListRest
  <2>2. \A q \in R : n[q] # None => n[q] \in R
    BY <1>2, ListRest
  <2>3. Reach(n, n[p]) \subseteq R
    <3>1. R \in SUBSET Obj
      BY <1>2
    <3> HIDE DEF R
    <3> QED BY <2>1, <2>2, <3>1, ReachLeast
  <2>4. Reach(m, n[p]) = Reach(n, n[p])
    BY <1>1, <1>4, <2>1, <2>3, ReachFrame
  <2> QED BY <1>4, <2>4 DEF List
<1>7. ASSUME NEW p \in R, NEW q \in R, m[p] = m[q], m[p] # None PROVE p = q
  BY <1>4, <1>7 DEF List
<1>8. List(m, n[head], R)
  BY <1>5, <1>6, <1>7 DEF List
<1> QED BY <1>2, <1>5, <1>8 DEF m

(* The box after prev taken out: a sweep that frees a box after one it kept. *)
LEMMA ListUnlink ==
  ASSUME NEW n \in [Obj -> Ptr], NEW head \in Ptr, NEW H, List(n, head, H),
         NEW prev \in H, NEW x \in Obj, n[prev] = x,
         NEW m \in [Obj -> Ptr], m[prev] = n[x], m[x] = None,
         \A p \in Obj : p # x /\ p # prev => m[p] = n[p]
  PROVE  /\ List(m, head, H \ {x})
         /\ Reach(m, n[x]) = Reach(n, x) \ {x}
<1> DEFINE R == H \ {x}
<1>1. /\ x # None /\ x \in H /\ H \subseteq Obj /\ x # head /\ x # prev /\ prev \in Obj
      /\ n[x] \in Ptr
  BY NoneAssumption, ListRest
<1>2. n[x] # None => n[x] \in R
  BY <1>1, ListRest
<1>3. /\ m \in [Obj -> Ptr] /\ m[x] = None /\ m[prev] = n[x]
      /\ \A p \in Obj : p # x /\ p # prev => m[p] = n[p]
  OBVIOUS
<1>4. \A p \in R : p # prev /\ n[p] # None => n[p] \in R
  BY <1>1, ListRest DEF List
<1>5. head # None => head \in H
  BY ReachClosed DEF List
<1>6. Reach(m, head) \subseteq R
  <2>1. R \in SUBSET Obj /\ (head # None => head \in R)
    BY <1>1, <1>5
  <2>2. \A p \in R : m[p] # None => m[p] \in R
    BY <1>1, <1>2, <1>3, <1>4
  <2> HIDE DEF R
  <2> QED BY <2>1, <2>2, ReachLeast
<1>7. R \subseteq Reach(m, head)
  <2> DEFINE S == Reach(m, head)
             T == S \cup (IF prev \in S THEN {x} ELSE {})
  <2>1. S \subseteq Obj /\ (head # None => head \in S) /\ (\A p \in S : m[p] # None => m[p] \in S)
    BY <1>3, ReachClosed
  <2>2. x \notin S
    BY <1>6
  <2> HIDE DEF S
  <2>3. T \in SUBSET Obj /\ (head # None => head \in T)
    BY <2>1
  <2>4. ASSUME NEW p \in T, n[p] # None PROVE n[p] \in T
    <3>1. CASE p = x
      BY <1>3, <2>1, <2>2, <2>4, <3>1
    <3>2. CASE p = prev
      BY <1>1, <2>1, <2>4, <3>2
    <3>3. CASE p # x /\ p # prev
      BY <1>3, <2>1, <2>3, <2>4, <3>3
    <3> QED BY <3>1, <3>2, <3>3
  <2>5. H \subseteq T
    <3> HIDE DEF T
    <3>1. Reach(n, head) \subseteq T
      BY <2>3, <2>4, ReachLeast
    <3> QED BY <3>1 DEF List
  <2>6. R \subseteq S
    BY <2>5
  <2> QED BY <2>6 DEF S
<1>8. ASSUME NEW p \in R PROVE p \notin Reach(m, m[p])
  <2> DEFINE Q == Reach(n, n[p])
  <2>1. p \notin Q
    BY DEF List
  <2>2. n[p] \in Ptr /\ p \in Obj
    BY <1>1
  <2>3. Q \in SUBSET Obj /\ (n[p] # None => n[p] \in Q) /\ (\A q \in Q : n[q] # None => n[q] \in Q)
    BY <2>2, ReachClosed
  <2> HIDE DEF Q
  <2>4. m[p] # None => m[p] \in Q
    BY <1>1, <1>3, <2>2, <2>3
  <2>5. \A q \in Q : m[q] # None => m[q] \in Q
    BY <1>1, <1>3, <2>3
  <2>6. Reach(m, m[p]) \subseteq Q
    BY <2>3, <2>4, <2>5, ReachLeast
  <2> QED BY <2>1, <2>6
<1>9. ASSUME NEW p \in R, NEW q \in R, m[p] = m[q], m[p] # None PROVE p = q
  BY <1>1, <1>3, <1>9 DEF List
<1>10. List(m, head, R)
  BY <1>6, <1>7, <1>8, <1>9 DEF List
<1>11. Reach(m, n[x]) = Reach(n, x) \ {x}
  <2>1. Reach(n, n[x]) = Reach(n, x) \ {x}
    BY <1>1, ListRest
  <2>2. prev \notin Reach(n, n[x]) /\ x \notin Reach(n, n[x])
    BY <2>1 DEF List
  <2>3. Reach(n, n[x]) \subseteq Obj
    BY <1>1, ListRest
  <2>4. Reach(m, n[x]) = Reach(n, n[x])
    BY <1>1, <1>3, <2>2, <2>3, ReachFrame
  <2> QED BY <2>1, <2>4
<1> QED BY <1>10, <1>11

-----------------------------------------------------------------------------
(* Each action preserves IInv, and what it does to the boxes that are yet to be *)
(* swept. *)

(* The boxes yet to be swept are allocated. *)
LEMMA SweepInHeap ==
  ASSUME IInv
  PROVE  /\ sweep \in Ptr /\ all \in Ptr /\ next \in [Obj -> Ptr]
         /\ sweep # None => sweep \in heap
         /\ Reach(next, sweep) \subseteq heap
<1>1. sweep \in Ptr /\ all \in Ptr /\ next \in [Obj -> Ptr]
  BY DEF IInv, TypeOK, Ptr
<1>2. all # None => all \in heap
  BY <1>1, ReachClosed DEF IInv, List
<1>3. sweep # None => sweep \in heap
  <2>1. CASE sweep_prev = None \/ phase # "Sweep"
    BY <1>2, <2>1 DEF IInv, SweepInv
  <2>2. CASE sweep_prev # None /\ phase = "Sweep"
    <3>1. sweep_prev \in heap /\ next[sweep_prev] = sweep
      BY <2>2 DEF IInv, SweepInv
    <3> QED BY <1>1, <3>1, ListRest DEF IInv
  <2> QED BY <2>1, <2>2
<1>4. heap \in SUBSET Obj /\ \A p \in heap : next[p] # None => next[p] \in heap
  BY <1>1, ReachClosed DEF IInv, List
<1>5. Reach(next, sweep) \subseteq heap
  BY <1>3, <1>4, ReachLeast
<1> QED BY <1>1, <1>3, <1>5

LEMMA AllocatePreserves ==
  ASSUME IInv, NEW o \in Obj, allocate(o)
  PROVE  IInv' /\ Reach(next', sweep') = Reach(next, sweep)
<1> USE DEF allocate
<1>1. o \in Obj \ heap /\ next' = [next EXCEPT ![o] = all] /\ o # None
  BY NoneAssumption
<1>2. next \in [Obj -> Ptr] /\ all \in Ptr /\ sweep \in Ptr /\ heap \subseteq Obj
  BY DEF IInv, TypeOK, Ptr
<1>3. TypeOK'
  <2>1. (next \in [Obj -> Obj \cup {None}] /\ color \in [Obj -> {"White", "WhiteWeak", "Black"}])'
    BY DEF IInv, TypeOK
  <2>2. (is_live \in [Obj -> BOOLEAN])'
    BY DEF IInv, TypeOK
  <2>3. /\ phase' \in {"Sleep", "Sweep", "Drop"} /\ heap' \subseteq Obj
        /\ all' \in Obj \cup {None} /\ sweep' \in Obj \cup {None} /\ sweep_prev' \in Obj \cup {None}
    BY DEF IInv, TypeOK
  <2> QED BY <2>1, <2>2, <2>3 DEF TypeOK
<1>4. List(next, all, heap)'
  <2>1. List([next EXCEPT ![o] = all], o, heap \cup {o})
    BY <1>1, <1>2, ListPush DEF IInv
  <2>2. all' = o /\ heap' = heap \cup {o}
    OBVIOUS
  <2> QED BY <1>1, <2>1, <2>2, Zenon
<1>5. SweepInv'
  BY <1>1, <1>2 DEF IInv, SweepInv
<1>6. Reach(next', sweep') = Reach(next, sweep)
  <2>1. \A p \in Reach(next, sweep) : next'[p] = next[p]
    BY <1>1, <1>2, SweepInHeap
  <2>2. next' \in [Obj -> Ptr]
    BY <1>1, <1>2
  <2> QED BY <1>2, <2>1, <2>2, ReachFrame
<1> QED BY <1>3, <1>4, <1>5, <1>6 DEF IInv

LEMMA StartSweepPreserves == ASSUME IInv, NEW m \in Marks, StartSweep(m) PROVE IInv'
<1> USE DEF StartSweep, IInv
<1>1. color' \in [Obj -> {"White", "WhiteWeak", "Black"}]
  BY DEF Marks, TypeOK
<1>2. TypeOK'
  BY <1>1 DEF TypeOK
<1>3. SweepInv' /\ List(next, all, heap)'
  BY DEF SweepInv
<1> QED BY <1>2, <1>3

(* SweepWhite takes the box at the sweep pointer, and no other, off the list. *)
LEMMA SweepWhitePreserves ==
  ASSUME IInv, SweepWhite
  PROVE  IInv' /\ Reach(next', sweep') = Reach(next, sweep) \ {sweep}
<1> USE DEF SweepWhite
<1>1. /\ next \in [Obj -> Ptr] /\ all \in Ptr /\ sweep \in Obj /\ sweep \in heap
      /\ heap \subseteq Obj /\ next[sweep] \in Ptr
  BY SweepInHeap DEF IInv, TypeOK, Ptr
<1>2. /\ List(next', all', heap') /\ Reach(next', sweep') = Reach(next, sweep) \ {sweep}
      /\ SweepInv' /\ next' \in [Obj -> Ptr] /\ all' \in Ptr
  <2>1. CASE sweep_prev = None
    <3>1. sweep = all /\ next' = [next EXCEPT ![sweep] = None] /\ all' = next[sweep]
      BY <2>1 DEF IInv, SweepInv
    <3>2. List(next', all', heap') /\ Reach(next', sweep') = Reach(next, sweep) \ {sweep}
      BY <1>1, <3>1, ListPop DEF IInv
    <3>3. SweepInv'
      BY <2>1, <3>1 DEF SweepInv
    <3> QED BY <1>1, <3>1, <3>2, <3>3 DEF Ptr
  <2>2. CASE sweep_prev # None
    <3>1. /\ sweep_prev \in heap /\ next[sweep_prev] = sweep /\ all' = all
          /\ next' = [next EXCEPT ![sweep_prev] = next[sweep], ![sweep] = None]
      BY <2>2 DEF IInv, SweepInv
    <3>2. sweep_prev # sweep
      BY <1>1, <3>1, ListRest, NoneAssumption DEF IInv
    <3>3. List(next', all', heap') /\ Reach(next', sweep') = Reach(next, sweep) \ {sweep}
      <4>1. /\ next' \in [Obj -> Ptr] /\ next'[sweep_prev] = next[sweep] /\ next'[sweep] = None
            /\ \A p \in Obj : p # sweep /\ p # sweep_prev => next'[p] = next[p]
        BY <1>1, <3>1, <3>2 DEF Ptr
      <4>2. List(next, all, heap)
        BY DEF IInv
      <4>3. List(next', all, heap \ {sweep}) /\ Reach(next', next[sweep]) = Reach(next, sweep) \ {sweep}
        <5>1. next \in [Obj -> Ptr] /\ all \in Ptr /\ sweep_prev \in heap /\ sweep \in Obj /\ next[sweep_prev] = sweep
          BY <1>1, <3>1
        <5> HIDE DEF SweepWhite
        <5> QED BY <4>1, <4>2, <5>1, ListUnlink
      <4>4. sweep' = next[sweep] /\ heap' = heap \ {sweep}
        OBVIOUS
      <4> QED BY <3>1, <4>3, <4>4, Zenon
    <3>4. SweepInv'
      BY <1>1, <2>2, <3>1, <3>2 DEF SweepInv
    <3> QED BY <1>1, <3>1, <3>3, <3>4 DEF Ptr
  <2> QED BY <2>1, <2>2
<1>3. TypeOK'
  <2>1. is_live' \in [Obj -> BOOLEAN]
    BY DEF IInv, TypeOK
  <2>2. /\ phase' \in {"Sleep", "Sweep", "Drop"} /\ heap' \subseteq Obj
        /\ color' \in [Obj -> {"White", "WhiteWeak", "Black"}] /\ sweep_prev' \in Obj \cup {None}
    BY DEF IInv, TypeOK
  <2> QED BY <1>1, <1>2, <2>1, <2>2 DEF TypeOK, Ptr
<1> QED BY <1>2, <1>3 DEF IInv

LEMMA SweepKeptPreserves ==
  ASSUME IInv, SweepKept
  PROVE  IInv' /\ Reach(next', sweep') = Reach(next, sweep) \ {sweep}
<1> USE DEF SweepKept
<1>1. /\ next \in [Obj -> Ptr] /\ all \in Ptr /\ sweep \in Obj /\ sweep \in heap
      /\ next[sweep] \in Ptr
  BY SweepInHeap DEF IInv, TypeOK, Ptr
<1>2. Reach(next', sweep') = Reach(next, sweep) \ {sweep}
  BY <1>1, ListRest DEF IInv
<1>3. SweepInv' /\ List(next, all, heap)'
  BY <1>1, NoneAssumption DEF IInv, SweepInv
<1>4. TypeOK'
  <2>1. is_live' \in [Obj -> BOOLEAN]
    BY DEF IInv, TypeOK
  <2>2. color' \in [Obj -> {"White", "WhiteWeak", "Black"}]
    BY DEF IInv, TypeOK
  <2>3. /\ phase' \in {"Sleep", "Sweep", "Drop"} /\ heap' \subseteq Obj
        /\ next' \in [Obj -> Obj \cup {None}] /\ all' \in Obj \cup {None}
        /\ sweep' \in Obj \cup {None} /\ sweep_prev' \in Obj \cup {None}
    BY <1>1 DEF IInv, TypeOK, Ptr
  <2> QED BY <2>1, <2>2, <2>3 DEF TypeOK
<1> QED BY <1>2, <1>3, <1>4 DEF IInv

LEMMA EndSweepPreserves == ASSUME IInv, EndSweep PROVE IInv'
  BY DEF IInv, EndSweep, TypeOK, SweepInv

LEMMA DropStepPreserves == ASSUME IInv, DropStep PROVE IInv' /\ all \in heap
<1> USE DEF DropStep
<1>1. next \in [Obj -> Ptr] /\ all \in Obj /\ heap \subseteq Obj /\ next[all] \in Ptr
  BY DEF IInv, TypeOK, Ptr
<1>2. List(next, all, heap)'
  BY <1>1, ListPop DEF IInv
<1>3. SweepInv'
  BY DEF SweepInv
<1>4. TypeOK'
  <2>1. is_live' \in [Obj -> BOOLEAN]
    BY DEF IInv, TypeOK
  <2>2. /\ phase' \in {"Sleep", "Sweep", "Drop"} /\ heap' \subseteq Obj
        /\ next' \in [Obj -> Obj \cup {None}] /\ all' \in Obj \cup {None}
        /\ color' \in [Obj -> {"White", "WhiteWeak", "Black"}]
        /\ sweep' \in Obj \cup {None} /\ sweep_prev' \in Obj \cup {None}
    BY <1>1 DEF IInv, TypeOK, Ptr
  <2> QED BY <2>1, <2>2 DEF TypeOK
<1>5. all \in heap
  BY <1>1, ReachClosed DEF IInv, List, Ptr
<1> QED BY <1>2, <1>3, <1>4, <1>5 DEF IInv

LEMMA DropEndPreserves == ASSUME IInv, DropEnd PROVE IInv'
  BY DEF IInv, DropEnd, TypeOK, SweepInv

LEMMA InitIInv == Init => IInv
<1> SUFFICES ASSUME Init PROVE IInv
  OBVIOUS
<1>1. List(next, all, heap)
  BY ReachNone DEF Init, List
<1>2. is_live \in [Obj -> BOOLEAN]
  BY DEF Init
<1> QED BY <1>1, <1>2 DEF Init, IInv, TypeOK, SweepInv

(* The list is well formed in every reachable state, for every set of addresses. *)
THEOREM Inductive == Spec => []IInv
<1>1. ASSUME IInv, UNCHANGED vars PROVE IInv'
  BY <1>1 DEF vars, IInv, TypeOK, SweepInv
<1>2. IInv /\ [Next]_vars => IInv'
  BY <1>1, AllocatePreserves, StartSweepPreserves, SweepWhitePreserves, SweepKeptPreserves,
     EndSweepPreserves, DropStepPreserves, DropEndPreserves DEF Next
<1> QED BY InitIInv, <1>2, PTL DEF Spec

-----------------------------------------------------------------------------
(* Every variable has its type. *)
THEOREM TypeCorrect == Spec => []TypeOK
<1>1. IInv => TypeOK
  BY DEF IInv
<1> QED BY Inductive, <1>1, PTL

(* The list from Context.all holds exactly the allocated boxes: no box leaks *)
(* by being unlinked, and none is freed that is still linked. *)
THEOREM ListIsHeapAlways == Spec => []ListIsHeap
<1>1. IInv => ListIsHeap
  BY ListFromIsReach DEF IInv, List, ListIsHeap
<1> QED BY Inductive, <1>1, PTL

(* sweep_prev is the box in front of the sweep pointer, however many boxes *)
(* were allocated since the sweep began. *)
THEOREM SweepPrevLinkedAlways == Spec => []SweepPrevLinked
<1>1. IInv => SweepPrevLinked
  BY ListFromIsReach DEF IInv, List, SweepInv, SweepPrevLinked
<1> QED BY Inductive, <1>1, PTL

-----------------------------------------------------------------------------
(* Every step of the list is a step of the abstract collection, or none. *)
LEMMA StepRefines == ASSUME IInv, IInv', [Next]_vars PROVE [Boxes!Next]_Boxes!vars
<1> USE ListFromIsReach
<1>1. ListFrom(sweep) = Reach(next, sweep) /\ ListFrom(sweep)' = Reach(next', sweep')
  BY DEF ListFrom, Reach
<1>2. CASE UNCHANGED vars
  BY <1>1, <1>2 DEF vars, Boxes!vars
<1>3. ASSUME NEW o \in Obj, allocate(o) PROVE Boxes!Allocate(o)
  BY <1>1, <1>3, AllocatePreserves DEF allocate, Boxes!Allocate
<1>4. ASSUME NEW m \in Marks, StartSweep(m) PROVE Boxes!StartSweep
  <2>1. color' \in [Obj -> {"White", "WhiteWeak", "Black"}]
    BY DEF IInv, TypeOK
  <2>2. ListFrom(sweep)' = heap
    BY <1>1, <1>4 DEF StartSweep, IInv, List
  <2> QED BY <1>4, <2>1, <2>2 DEF StartSweep, Boxes!StartSweep
<1>5. CASE SweepWhite
  <2>1. sweep \in Obj /\ sweep \in ListFrom(sweep)
    BY <1>1, <1>5, SweepInHeap, ReachClosed DEF SweepWhite, Ptr
  <2>2. ListFrom(sweep)' = ListFrom(sweep) \ {sweep}
    BY <1>1, <1>5, SweepWhitePreserves
  <2>3. color' = [color EXCEPT ![sweep] = "White"]
    BY <1>5, <2>1 DEF SweepWhite, IInv, TypeOK
  <2>4. is_live' = [is_live EXCEPT ![sweep] = @ /\ color[sweep] = "Black"]
    BY <1>5 DEF SweepWhite
  <2>5. Boxes!SweepBox(sweep)
    BY <1>5, <2>1, <2>2, <2>3, <2>4 DEF SweepWhite, Boxes!SweepBox
  <2> QED BY <2>1, <2>5 DEF Boxes!Next
<1>6. CASE SweepKept
  <2>1. sweep \in Obj /\ sweep \in ListFrom(sweep)
    BY <1>1, <1>6, SweepInHeap, ReachClosed DEF SweepKept, Ptr
  <2>2. ListFrom(sweep)' = ListFrom(sweep) \ {sweep}
    BY <1>1, <1>6, SweepKeptPreserves
  <2>3. Boxes!SweepBox(sweep)
    BY <1>6, <2>1, <2>2 DEF SweepKept, Boxes!SweepBox
  <2> QED BY <2>1, <2>3 DEF Boxes!Next
<1>7. ASSUME EndSweep PROVE Boxes!EndSweep
  BY <1>1, <1>7, ReachNone DEF EndSweep, Boxes!EndSweep
<1>8. CASE DropStep
  <2>1. all \in heap /\ all \in Obj /\ ListFrom(sweep)' = {}
    BY <1>1, <1>8, DropStepPreserves, ReachNone DEF DropStep, IInv, TypeOK
  <2>2. Boxes!DropBox(all)
    BY <1>8, <2>1 DEF DropStep, Boxes!DropBox
  <2> QED BY <2>1, <2>2 DEF Boxes!Next
<1>9. ASSUME DropEnd PROVE Boxes!DropEmpty
  <2>1. heap = {} /\ ListFrom(sweep)' = {}
    BY <1>1, <1>9, ReachNone DEF DropEnd, IInv, List
  <2> QED BY <1>9, <2>1 DEF DropEnd, Boxes!DropEmpty
<1> QED BY <1>2, <1>3, <1>4, <1>5, <1>6, <1>7, <1>8, <1>9 DEF Next, Boxes!Next

(* The intrusive list implements the abstract collection of boxes: a sweep *)
(* visits exactly the boxes that were allocated when it began, each once, and *)
(* frees exactly the white ones. *)
THEOREM Refinement == Spec => ImplementsBoxes
<1>1. Init => Boxes!Init
  <2> SUFFICES ASSUME Init PROVE Boxes!Init
    OBVIOUS
  <2>1. ListFrom(sweep) = {}
    BY ListFromIsReach, ReachNone DEF Init
  <2> QED BY <2>1 DEF Init, Boxes!Init
<1>2. IInv /\ IInv' /\ [Next]_vars => [Boxes!Next]_Boxes!vars
  BY StepRefines
<1> QED BY Inductive, <1>1, <1>2, PTL DEF Spec, ImplementsBoxes, Boxes!Spec

=============================================================================
