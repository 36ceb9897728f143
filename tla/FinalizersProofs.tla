-------------------------- MODULE FinalizersProofs --------------------------
(***************************************************************************)
(* Safety of the finalization of threads, for any number of threads,       *)
(* closures and upvalues.                                                  *)
(*                                                                         *)
(* None of the three properties is inductive.  What survives a sweep is    *)
(* what marking reaches along the traced pointers, while Lua code also     *)
(* goes from an open upvalue to the stack of its thread.  The invariant    *)
(* says why this is enough: an upvalue is open only on a registered        *)
(* thread, and when the sweep begins the registered threads are the marked *)
(* ones, whose stacks are traced.                                          *)
(***************************************************************************)
EXTENDS Finalizers, TLAPS

\* Nothing that was not dropped points to what was.
ClosedInv ==
    /\ globals \subseteq boxes
    /\ \A c \in Closure \cap boxes : upvalues[c] \subseteq boxes
    /\ \A u \in UpValue \cap boxes : Held(u) \subseteq boxes

\* Threads are registered until they are reset, and upvalues are open on
\* registered threads only.
ThreadInv ==
    /\ threads \subseteq boxes
    /\ boxes \cap Thread \subseteq threads \cup reset
    /\ \A u \in UpValue : on[u] # Nil => u \in boxes /\ on[u] \in threads

\* What marking found is there, and what finalize leaves registered was marked.
MarkedInv ==
    /\ marked \subseteq boxes
    /\ stage # "mutate" => globals \subseteq marked
    /\ stage = "finalized" => threads \subseteq marked

IInv == TypeOK /\ ClosedInv /\ ThreadInv /\ MarkedInv

-----------------------------------------------------------------------------
(* Pointers *)

(* What is traced from each type of box *)
LEMMA Traced ==
  /\ \A t \in Thread : Strong(t) = OpenOn(t) \cup UNION {Held(u) : u \in OpenOn(t)}
  /\ \A c \in Closure : Strong(c) = upvalues[c]
  /\ \A u \in UpValue : Strong(u) = IF on[u] = Nil THEN Held(u) ELSE {}
  BY TypesAssumption DEF Strong

(* What Lua code reaches from each type of box *)
LEMMA Used ==
  /\ \A t \in Thread : Usable(t) = OpenOn(t) \cup UNION {Held(u) : u \in OpenOn(t)}
  /\ \A c \in Closure : Usable(c) = upvalues[c]
  /\ \A u \in UpValue : Usable(u) = Held(u)
<1>1. \A t \in Thread : Usable(t) = Strong(t)
  BY TypesAssumption DEF Usable
<1>2. \A c \in Closure : Usable(c) = Strong(c)
  BY TypesAssumption DEF Usable
<1>3. \A u \in UpValue : Usable(u) = Held(u)
  BY DEF Usable
<1> QED BY <1>1, <1>2, <1>3, Traced

(* Boxes that were not dropped are closed under both. *)
LEMMA BoxesClosed ==
  ASSUME IInv, NEW b \in boxes
  PROVE  Strong(b) \subseteq boxes /\ Usable(b) \subseteq boxes
<1>1. boxes \subseteq Thread \cup Closure \cup UpValue
  BY DEF IInv, TypeOK, Box, Value
<1>2. CASE b \in Thread
  <2>1. OpenOn(b) \subseteq boxes
    BY <1>2, NilAssumption DEF IInv, ThreadInv, OpenOn
  <2>2. \A u \in OpenOn(b) : Held(u) \subseteq boxes
    BY <2>1 DEF IInv, ClosedInv, OpenOn
  <2> QED BY <1>2, <2>1, <2>2, Traced, Used
<1>3. CASE b \in Closure
  BY <1>3, Traced, Used DEF IInv, ClosedInv
<1>4. CASE b \in UpValue
  BY <1>4, Traced, Used DEF IInv, ClosedInv
<1> QED BY <1>1, <1>2, <1>3, <1>4

(* Marking is the least closed set ... *)
LEMMA MarkLeast ==
  ASSUME NEW S, NEW R \in SUBSET Box, S \subseteq R, \A b \in R : Strong(b) \subseteq R
  PROVE  Trace(S) \subseteq R
  BY DEF Trace, ReachedFrom

(* ... and closed. *)
LEMMA MarkClosed ==
  ASSUME NEW S \in SUBSET Box, \A b \in Box : Strong(b) \subseteq Box
  PROVE  /\ S \subseteq Trace(S) /\ Trace(S) \subseteq Box
         /\ \A b \in Trace(S) : Strong(b) \subseteq Trace(S)
<1>1. S \subseteq Trace(S) /\ Trace(S) \subseteq Box
  BY DEF Trace, ReachedFrom
<1>2. ASSUME NEW b \in Trace(S), NEW d \in Strong(b)
      PROVE  d \in Trace(S)
  <2>1. b \in Box /\ d \in Box
    BY <1>1, <1>2
  <2>2. ASSUME NEW R \in SUBSET Box, S \subseteq R, \A x \in R : Strong(x) \subseteq R
        PROVE  d \in R
    <3>1. b \in R
      BY <1>2, <2>2 DEF Trace, ReachedFrom
    <3> QED BY <1>2, <2>2, <3>1
  <2> QED BY <2>1, <2>2 DEF Trace, ReachedFrom
<1> QED BY <1>1, <1>2

LEMMA BoxPointers == ASSUME TypeOK, NEW b \in Box PROVE Strong(b) \subseteq Box
<1>1. \A u \in UpValue : Held(u) \subseteq Box
  BY DEF TypeOK, Held, Box
<1>2. CASE b \in Thread
  BY <1>1, <1>2, Traced DEF OpenOn, Box
<1>3. CASE b \in Closure
  BY <1>3, Traced DEF TypeOK, Box
<1>4. CASE b \in UpValue
  BY <1>1, <1>4, Traced
<1> QED BY <1>2, <1>3, <1>4 DEF Box, Value

(* What marking reaches from boxes that were not dropped *)
LEMMA Marks ==
  ASSUME IInv, NEW S \in SUBSET boxes
  PROVE  /\ S \subseteq Trace(S) /\ Trace(S) \subseteq boxes
         /\ \A b \in Trace(S) : Strong(b) \subseteq Trace(S)
<1>1. S \in SUBSET Box /\ boxes \in SUBSET Box
  BY DEF IInv, TypeOK
<1>2. \A b \in Box : Strong(b) \subseteq Box
  BY BoxPointers DEF IInv
<1>3. Trace(S) \subseteq boxes
  BY <1>1, BoxesClosed, MarkLeast
<1> QED BY <1>1, <1>2, <1>3, MarkClosed

(* Lua code reaches nothing that was dropped. *)
LEMMA AccessibleBoxes == ASSUME IInv PROVE Accessible \subseteq boxes
<1>1. boxes \in SUBSET Box /\ globals \subseteq boxes /\ \A b \in boxes : Usable(b) \subseteq boxes
  BY BoxesClosed DEF IInv, TypeOK, ClosedInv
<1> QED BY <1>1 DEF Accessible, ReachedFrom

-----------------------------------------------------------------------------
(* Lua code *)

LEMMA NewThreadPreserves == ASSUME IInv, NEW t \in Thread, NewThread(t) PROVE IInv'
<1> USE DEF NewThread
<1>1. TypeOK'
  BY DEF IInv, TypeOK, Box, Value
<1>2. ClosedInv'
  <2>1. t \notin Closure /\ t \notin UpValue
    BY TypesAssumption
  <2> QED BY <2>1 DEF IInv, ClosedInv, Held
<1>3. ThreadInv'
  BY DEF IInv, ThreadInv
<1>4. MarkedInv'
  BY DEF IInv, MarkedInv
<1> QED BY <1>1, <1>2, <1>3, <1>4 DEF IInv

LEMMA NewClosurePreserves ==
  ASSUME IInv, NEW c \in Closure, NEW u \in UpValue, NEW t \in Thread,
         NEW v \in (Accessible \cap Value) \cup {Nil}, NewClosure(c, u, t, v)
  PROVE  IInv'
<1>1. t \in threads /\ ({v} \ {Nil}) \subseteq boxes /\ v \in Value \cup {Nil}
  <2>1. Accessible \subseteq boxes
    BY AccessibleBoxes
  <2> QED BY <2>1 DEF NewClosure, IInv, ThreadInv
<1>2. /\ boxes' = boxes \cup {c, u} /\ globals' = globals \cup {c} /\ stage = "mutate"
      /\ upvalues' = [upvalues EXCEPT ![c] = {u}] /\ on' = [on EXCEPT ![u] = t]
      /\ value' = [value EXCEPT ![u] = v] /\ c \notin boxes /\ u \notin boxes
      /\ threads' = threads /\ reset' = reset /\ marked' = marked /\ stage' = stage
  BY DEF NewClosure
<1>3. /\ upvalues \in [Closure -> SUBSET UpValue] /\ on \in [UpValue -> Thread \cup {Nil}]
      /\ value \in [UpValue -> Value \cup {Nil}]
  BY DEF IInv, TypeOK
<1>4. c \notin UpValue /\ c \notin Thread /\ u \notin Closure /\ u \notin Thread
  BY TypesAssumption
<1>5. TypeOK'
  BY <1>1, <1>2, <1>3 DEF IInv, TypeOK, Box, Value
<1>6. ClosedInv'
  <2>1. ASSUME NEW d \in Closure \cap boxes' PROVE upvalues'[d] \subseteq boxes'
    BY <1>2, <1>3, <1>4 DEF IInv, ClosedInv
  <2>2. ASSUME NEW w \in UpValue \cap boxes' PROVE Held(w)' \subseteq boxes'
    <3>1. CASE w = u
      <4>1. value'[w] = v
        BY <1>2, <1>3, <3>1
      <4> QED BY <1>1, <1>2, <4>1 DEF Held
    <3>2. CASE w # u
      <4>1. value'[w] = value[w] /\ w \in boxes
        BY <1>2, <1>3, <1>4, <3>2
      <4> QED BY <1>2, <4>1 DEF Held, IInv, ClosedInv
    <3> QED BY <3>1, <3>2
  <2>3. globals' \subseteq boxes'
    BY <1>2 DEF IInv, ClosedInv
  <2> QED BY <2>1, <2>2, <2>3 DEF ClosedInv
<1>7. ThreadInv'
  BY <1>1, <1>2, <1>3, <1>4 DEF IInv, ThreadInv
<1>8. MarkedInv'
  BY <1>2 DEF IInv, MarkedInv
<1> QED BY <1>5, <1>6, <1>7, <1>8 DEF IInv

LEMMA SetUpvaluePreserves ==
  ASSUME IInv, NEW u \in UpValue, NEW v \in (Accessible \cap Value) \cup {Nil}, SetUpvalue(u, v)
  PROVE  IInv'
<1>1. ({v} \ {Nil}) \subseteq boxes /\ v \in Value \cup {Nil}
  BY AccessibleBoxes
<1>2. /\ value' = [value EXCEPT ![u] = v] /\ stage = "mutate"
      /\ UNCHANGED <<boxes, globals, upvalues, on, threads, reset, marked, stage>>
  BY DEF SetUpvalue
<1>3. value \in [UpValue -> Value \cup {Nil}]
  BY DEF IInv, TypeOK
<1>4. TypeOK'
  BY <1>1, <1>2, <1>3 DEF IInv, TypeOK
<1>5. \A w \in UpValue \cap boxes : Held(w)' \subseteq boxes
  BY <1>1, <1>2, <1>3 DEF Held, IInv, ClosedInv
<1>6. ClosedInv'
  BY <1>2, <1>5 DEF IInv, ClosedInv
<1>7. ThreadInv' /\ MarkedInv'
  BY <1>2 DEF IInv, ThreadInv, MarkedInv
<1> QED BY <1>4, <1>6, <1>7 DEF IInv

LEMMA GlobalPreserves ==
  ASSUME IInv, NEW v \in Value, (v \in Accessible /\ SetGlobal(v)) \/ ClearGlobal(v)
  PROVE  IInv'
<1>1. /\ globals' \subseteq globals \cup {v} /\ stage = "mutate" /\ globals' \subseteq boxes
      /\ UNCHANGED <<boxes, upvalues, on, value, threads, reset, marked, stage>>
  BY AccessibleBoxes DEF SetGlobal, ClearGlobal, IInv, ClosedInv
<1>2. TypeOK'
  BY <1>1 DEF IInv, TypeOK
<1>3. ClosedInv'
  BY <1>1 DEF IInv, ClosedInv, Held
<1>4. ThreadInv' /\ MarkedInv'
  BY <1>1 DEF IInv, ThreadInv, MarkedInv
<1> QED BY <1>2, <1>3, <1>4 DEF IInv

(* Closing upvalues takes no pointer away that Lua code can follow. *)
LEMMA ReturnPreserves == ASSUME IInv, NEW t \in Thread, Return(t) PROVE IInv'
<1>1. /\ on' = ClosedOn(OpenOn(t)) /\ stage = "mutate"
      /\ UNCHANGED <<boxes, globals, upvalues, value, threads, reset, marked, stage>>
  BY DEF Return
<1>2. on' \in [UpValue -> Thread \cup {Nil}] /\ \A u \in UpValue : on'[u] \in {on[u], Nil}
  BY <1>1 DEF ClosedOn, IInv, TypeOK
<1>3. TypeOK'
  BY <1>1, <1>2 DEF IInv, TypeOK
<1>4. ClosedInv' /\ MarkedInv'
  BY <1>1 DEF IInv, ClosedInv, MarkedInv, Held
<1>5. ThreadInv'
  BY <1>1, <1>2 DEF IInv, ThreadInv
<1> QED BY <1>3, <1>4, <1>5 DEF IInv

-----------------------------------------------------------------------------
(* The collection *)

(* Marking and remarking leave the graph alone. *)
LEMMA MarkPreserves ==
  ASSUME IInv, UNCHANGED <<graphVars, threads, reset>>, marked' \subseteq boxes,
         globals \subseteq marked', stage' \in {"marked", "prepared", "remarked"}
  PROVE  IInv'
<1>1. TypeOK'
  BY DEF IInv, TypeOK, graphVars
<1>2. ClosedInv' /\ ThreadInv'
  BY DEF IInv, ClosedInv, ThreadInv, Held, graphVars
<1>3. MarkedInv'
  BY DEF IInv, MarkedInv, graphVars
<1> QED BY <1>1, <1>2, <1>3 DEF IInv

LEMMA FinishMarkPreserves ==
  ASSUME IInv, NEW floating \in {{}} \cup {{b} : b \in boxes}, FinishMark(floating)
  PROVE  IInv'
<1>1. globals \cup floating \in SUBSET boxes
  BY DEF IInv, ClosedInv
<1>2. globals \subseteq Trace(globals \cup floating) /\ Trace(globals \cup floating) \subseteq boxes
  BY <1>1, Marks
<1> QED BY <1>2, MarkPreserves DEF FinishMark

LEMMA PreparePreserves == ASSUME IInv, prepare PROVE IInv'
<1> DEFINE live == {w \in UpValue : on[w] \in threads /\ IsDead(on[w]) /\ ~IsDead(w)}
<1>1. \A u \in live : u \in UpValue \cap boxes
  BY DEF IsDead, IInv, MarkedInv
<1>2. UNION {Held(u) : u \in live} \subseteq boxes
  BY <1>1 DEF IInv, ClosedInv
<1>3. marked' = marked \cup UNION {Held(u) : u \in live} /\ stage = "marked" /\ stage' = "prepared"
      /\ UNCHANGED <<graphVars, threads, reset>>
  BY DEF prepare
<1> HIDE DEF live
<1> QED BY <1>2, <1>3, MarkPreserves DEF IInv, MarkedInv

LEMMA RemarkPreserves == ASSUME IInv, Remark PROVE IInv'
<1>1. marked \in SUBSET boxes /\ globals \subseteq marked
  BY DEF Remark, IInv, MarkedInv
<1>2. marked \subseteq Trace(marked) /\ Trace(marked) \subseteq boxes
  BY <1>1, Marks
<1> QED BY <1>1, <1>2, MarkPreserves DEF Remark

LEMMA FinalizePreserves == ASSUME IInv, finalize PROVE IInv'
<1> DEFINE dead == {t \in threads : IsDead(t)}
           closed == UNION {OpenOn(t) : t \in dead}
<1>1. /\ on' = ClosedOn(closed) /\ threads' = threads \ dead /\ reset' = reset \cup dead
      /\ stage = "remarked" /\ stage' = "finalized"
      /\ UNCHANGED <<boxes, globals, upvalues, value, marked>>
  BY DEF finalize
<1>2. on' \in [UpValue -> Thread \cup {Nil}] /\ \A u \in UpValue : on'[u] = IF u \in closed THEN Nil ELSE on[u]
  BY <1>1 DEF ClosedOn, IInv, TypeOK
<1>3. ASSUME NEW u \in UpValue, on'[u] # Nil PROVE u \in boxes /\ on'[u] \in threads'
  <2>1. u \notin closed /\ on'[u] = on[u]
    BY <1>2, <1>3
  <2>2. on[u] \notin dead
    BY <2>1 DEF OpenOn
  <2>3. u \in boxes /\ on[u] \in threads
    BY <1>3, <2>1 DEF IInv, ThreadInv
  <2> HIDE DEF dead
  <2> QED BY <1>1, <2>1, <2>2, <2>3
<1>4. TypeOK'
  <2>1. dead \subseteq Thread
    BY DEF IInv, TypeOK
  <2> HIDE DEF dead, closed
  <2> QED BY <1>1, <1>2, <2>1 DEF IInv, TypeOK
<1>5. ClosedInv'
  BY <1>1 DEF IInv, ClosedInv, Held
<1>6. ThreadInv'
  <2>1. threads' \subseteq boxes' /\ boxes' \cap Thread \subseteq threads' \cup reset'
    BY <1>1 DEF IInv, ThreadInv
  <2> QED BY <1>1, <1>3, <2>1 DEF ThreadInv
<1>7. MarkedInv'
  <2>1. threads' \subseteq marked
    BY <1>1 DEF IsDead
  <2> QED BY <1>1, <2>1 DEF IInv, MarkedInv
<1> QED BY <1>4, <1>5, <1>6, <1>7 DEF IInv

(* The sweep keeps what Lua code can use: an upvalue that is still open is open on a *)
(* marked thread, whose stack was traced. *)
LEMMA SweepPreserves == ASSUME IInv, Sweep PROVE IInv'
<1> DEFINE kept == Trace(marked)
<1>1. /\ marked' = {} /\ stage' = "mutate" /\ stage = "finalized" /\ globals' = globals /\ threads' = threads
      /\ boxes' = boxes \cap kept /\ reset' = reset \cap kept
      /\ upvalues' = [c \in Closure |-> IF c \in kept THEN upvalues[c] ELSE {}]
      /\ on' = [u \in UpValue |-> IF u \in kept THEN on[u] ELSE Nil]
      /\ value' = [u \in UpValue |-> IF u \in kept THEN value[u] ELSE Nil]
  BY DEF Sweep
<1>2. marked \in SUBSET boxes /\ globals \subseteq marked /\ threads \subseteq marked
  BY <1>1 DEF IInv, MarkedInv
<1>3. marked \subseteq kept /\ kept \subseteq boxes /\ \A b \in kept : Strong(b) \subseteq kept
  BY <1>2, Marks
<1> HIDE DEF kept
<1>4. \A c \in Closure \cap kept : upvalues[c] \subseteq kept
  BY <1>3, Traced
<1>5. ASSUME NEW u \in UpValue \cap kept PROVE Held(u) \subseteq kept
  <2>1. CASE on[u] = Nil
    BY <1>3, <2>1, Traced
  <2>2. CASE on[u] # Nil
    <3>1. on[u] \in threads /\ on[u] \in Thread
      BY <2>2 DEF IInv, ThreadInv, TypeOK
    <3>2. u \in OpenOn(on[u])
      BY DEF OpenOn
    <3>3. Held(u) \subseteq Strong(on[u])
      BY <3>1, <3>2, Traced
    <3> QED BY <1>2, <1>3, <3>1, <3>3
  <2> QED BY <2>1, <2>2
<1>6. TypeOK'
  <2>1. /\ upvalues \in [Closure -> SUBSET UpValue] /\ on \in [UpValue -> Thread \cup {Nil}]
        /\ value \in [UpValue -> Value \cup {Nil}]
    BY DEF IInv, TypeOK
  <2>2. upvalues' \in [Closure -> SUBSET UpValue]
    BY <1>1, <2>1
  <2>3. on' \in [UpValue -> Thread \cup {Nil}] /\ value' \in [UpValue -> Value \cup {Nil}]
    BY <1>1, <2>1
  <2> QED BY <1>1, <2>2, <2>3 DEF IInv, TypeOK
<1>7. ClosedInv'
  <2>1. ASSUME NEW u \in UpValue \cap boxes' PROVE Held(u)' \subseteq boxes'
    <3>1. u \in kept /\ value'[u] = value[u]
      BY <1>1
    <3> QED BY <1>1, <1>3, <1>5, <3>1 DEF Held
  <2>2. ASSUME NEW c \in Closure \cap boxes' PROVE upvalues'[c] \subseteq boxes'
    BY <1>1, <1>3, <1>4
  <2>3. globals' \subseteq boxes'
    BY <1>1, <1>2, <1>3
  <2> QED BY <2>1, <2>2, <2>3 DEF ClosedInv
<1>8. ThreadInv'
  <2>1. threads' \subseteq boxes'
    BY <1>1, <1>2, <1>3
  <2>2. boxes' \cap Thread \subseteq threads' \cup reset'
    BY <1>1 DEF IInv, ThreadInv
  <2>3. ASSUME NEW u \in UpValue, on'[u] # Nil PROVE u \in boxes' /\ on'[u] \in threads'
    BY <1>1, <2>3 DEF IInv, ThreadInv
  <2> QED BY <2>1, <2>2, <2>3 DEF ThreadInv
<1>9. MarkedInv'
  BY <1>1 DEF MarkedInv
<1> QED BY <1>6, <1>7, <1>8, <1>9 DEF IInv

-----------------------------------------------------------------------------
(* The theorems *)

(* The invariant above holds in every reachable state of the finalizers. *)
THEOREM Inductive == Spec => []IInv
<1>1. Init => IInv
  BY DEF Init, IInv, TypeOK, ClosedInv, ThreadInv, MarkedInv
<1>2. IInv /\ [Next]_vars => IInv'
  <2>1. ASSUME IInv, Mutate PROVE IInv'
    <3>1. ASSUME NEW t \in Thread, NewThread(t) \/ Return(t) PROVE IInv'
      BY <2>1, <3>1, NewThreadPreserves, ReturnPreserves
    <3>2. ASSUME NEW v \in Accessible \cap Value, SetGlobal(v) PROVE IInv'
      BY <2>1, <3>2, GlobalPreserves
    <3>3. ASSUME NEW v \in Value, ClearGlobal(v) PROVE IInv'
      BY <2>1, <3>3, GlobalPreserves
    <3> QED BY <2>1, <3>1, <3>2, <3>3, NewClosurePreserves, SetUpvaluePreserves DEF Mutate
  <2>2. ASSUME IInv, Collect PROVE IInv'
    BY <2>2, FinishMarkPreserves, PreparePreserves, RemarkPreserves, FinalizePreserves, SweepPreserves
    DEF Collect
  <2>3. ASSUME IInv, UNCHANGED vars PROVE IInv'
    BY <2>3 DEF vars, IInv, TypeOK, ClosedInv, ThreadInv, MarkedInv, Held
  <2> QED BY <2>1, <2>2, <2>3 DEF Next
<1> QED BY <1>1, <1>2, PTL DEF Spec

(* Every variable keeps its type. *)
THEOREM TypeCorrect == Spec => []TypeOK
<1>1. IInv => TypeOK
  BY DEF IInv
<1> QED BY <1>1, Inductive, PTL

(* No registered thread is dropped before it is finalized: finalize takes the dead *)
(* ones off the list, and the sweep keeps every marked one. *)
THEOREM NoFinalizationMissedAlways == Spec => []NoFinalizationMissed
<1>1. IInv => NoFinalizationMissed
  BY DEF IInv, ThreadInv, NoFinalizationMissed
<1> QED BY <1>1, Inductive, PTL

(* The thread of an open upvalue that Lua code can use was not dropped. *)
THEOREM OpenUpvaluesHaveThreadsAlways == Spec => []OpenUpvaluesHaveThreads
<1>1. IInv => OpenUpvaluesHaveThreads
  BY DEF IInv, ThreadInv, OpenUpvaluesHaveThreads
<1> QED BY <1>1, Inductive, PTL

(* All that Lua code can get at survives every collection, whatever closures and *)
(* unreachable threads it is reached through. *)
THEOREM UsableSurvivesAlways == Spec => []UsableSurvives
<1>1. IInv => UsableSurvives
  BY AccessibleBoxes DEF UsableSurvives
<1> QED BY <1>1, Inductive, PTL


=============================================================================
