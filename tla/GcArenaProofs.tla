--------------------------- MODULE GcArenaProofs ---------------------------
(***************************************************************************)
(* Safety of the collector, for any set of addresses and any graph.        *)
(*                                                                         *)
(* IInv (GcArena) is inductive: the initial state satisfies it and each    *)
(* action preserves it, shown action by action below.  Reachability is the *)
(* least closed set, so IInv implies the safety properties by exhibiting a *)
(* closed set: Live \ Doomed holds the root and the callback's pointers    *)
(* and, by ClosedInv, every strong pointer out of it.                      *)
(***************************************************************************)
EXTENDS GcArena, FiniteSetTheorems, TLAPS

USE DEF vars, collectorVars, graphVars, callbackVars, Phase, GcColor, Unmarked,
        Callback, DebtCall, MarkCall, CollectCall, Op

(* The constructor callback starts on an empty, sleeping arena. *)
LEMMA InitIInv == Init => IInv
  BY DEF Init, IInv, TypeOK, PhaseInv, GrayBoxesQueuedOnce, ClosedInv, MarkInv, CallbackInv,
         Live, Doomed, DoomedBoxes, gray_remaining

-----------------------------------------------------------------------------
(* Each action preserves IInv. *)

(* Arena::mutate hands the callback what the root holds, and changes nothing. *)
LEMMA MutateInv ==
  ASSUME IInv, Mutate
  PROVE  IInv'
<1>1. TypeOK'
  BY DEF IInv, TypeOK, Mutate, EnterCallback
<1>2. PhaseInv'
  BY DEF IInv, PhaseInv, GrayBoxesQueuedOnce, Live, Mutate, EnterCallback
<1>3. ClosedInv'
  BY DEF IInv, ClosedInv, Doomed, DoomedBoxes, Live, Mutate, EnterCallback
<1>4. MarkInv'
  BY DEF IInv, MarkInv, Mutate, EnterCallback
<1>5. CallbackInv'
  BY DEF IInv, CallbackInv, gray_remaining, Mutate, EnterCallback
<1> QED BY <1>1, <1>2, <1>3, <1>4, <1>5 DEF IInv

(* Arena::mutate_root marks the root for tracing before the callback can rewrite it. *)
LEMMA MutateRootInv ==
  ASSUME IInv, MutateRoot
  PROVE  IInv'
<1>1. TypeOK'
  <2>1. root_needs_trace' \in BOOLEAN
    BY Zenon DEF IInv, TypeOK, MutateRoot, root_barrier
  <2> QED BY <2>1 DEF IInv, TypeOK, ClosedInv, MutateRoot, EnterCallback, root_barrier
<1>2. PhaseInv'
  BY DEF IInv, PhaseInv, GrayBoxesQueuedOnce, Live, MutateRoot, EnterCallback, root_barrier
<1>3. ClosedInv'
  BY DEF IInv, ClosedInv, Doomed, DoomedBoxes, Live, MutateRoot, EnterCallback, root_barrier
<1>4. MarkInv'
  BY DEF IInv, MarkInv, MutateRoot, EnterCallback, root_barrier
<1>5. CallbackInv'
  BY DEF IInv, CallbackInv, gray_remaining, MutateRoot, EnterCallback, root_barrier
<1> QED BY <1>1, <1>2, <1>3, <1>4, <1>5 DEF IInv

(* MarkedArena::finalize starts a callback on a fully marked arena. *)
LEMMA FinalizeInv ==
  ASSUME IInv, Finalize
  PROVE  IInv'
<1>1. TypeOK'
  BY DEF IInv, TypeOK, Finalize, EnterCallback
<1>2. PhaseInv'
  BY DEF IInv, PhaseInv, GrayBoxesQueuedOnce, Live, Finalize, EnterCallback
<1>3. ClosedInv'
  BY DEF IInv, ClosedInv, Doomed, DoomedBoxes, Live, Finalize, EnterCallback
<1>4. MarkInv'
  BY DEF IInv, MarkInv, Finalize, EnterCallback
<1>5. CallbackInv'
  BY DEF IInv, CallbackInv, gray_remaining, Finalize, EnterCallback
<1> QED BY <1>1, <1>2, <1>3, <1>4, <1>5 DEF IInv

(* A callback that ends takes its pointers and its write permissions with it. *)
LEMMA EndCallbackInv ==
  ASSUME IInv, EndCallback
  PROVE  IInv'
<1>1. TypeOK'
  BY DEF IInv, TypeOK, EndCallback
<1>2. PhaseInv'
  BY DEF IInv, PhaseInv, GrayBoxesQueuedOnce, Live, EndCallback
<1>3. ClosedInv'
  BY DEF IInv, ClosedInv, Doomed, DoomedBoxes, Live, EndCallback
<1>4. MarkInv'
  BY DEF IInv, MarkInv, EndCallback
<1>5. CallbackInv'
  BY DEF IInv, CallbackInv, gray_remaining, EndCallback
<1> QED BY <1>1, <1>2, <1>3, <1>4, <1>5 DEF IInv

(* A new box is white, live, outside the unswept list, and holds pointers the
   callback holds. *)
LEMMA AllocateInv ==
  ASSUME IInv, NEW o \in Obj, NEW traced \in BOOLEAN, NEW S \in SUBSET held, NEW W \in
         SUBSET heldWeak, allocate(o, traced, S, W)
  PROVE  IInv'
<1>1. TypeOK'
  BY DEF IInv, TypeOK, allocate
<1>2. PhaseInv'
  BY DEF IInv, TypeOK, PhaseInv, GrayBoxesQueuedOnce, Live, allocate
<1>3. ClosedInv'
  <2>1. o \notin all /\ sweep \subseteq all BY DEF IInv, TypeOK, allocate
  <2>2. Doomed' = Doomed /\ DoomedBoxes' = DoomedBoxes
    BY <2>1 DEF IInv, TypeOK, allocate, Doomed, DoomedBoxes
  <2>3. Live' = Live \cup {o} BY <2>1 DEF IInv, TypeOK, allocate, Live
  <2>4. o \notin Doomed /\ o \notin DoomedBoxes BY <2>1 DEF Doomed, DoomedBoxes
  <2>5. ~needs_trace'[o] => S = {} /\ W = {}
    <3>1. CASE traced = TRUE
      <4>1. needs_trace'[o] = TRUE BY <3>1, Zenon DEF IInv, TypeOK, allocate
      <4> QED BY <4>1
    <3>2. CASE traced = FALSE
      <4>1. S = {} /\ W = {} BY <3>2, Zenon DEF allocate
      <4> QED BY <4>1
    <3> QED BY <3>1, <3>2
  <2>6. \A x \in all : needs_trace'[x] = needs_trace[x] /\ strong'[x] = strong[x] /\ weak'[x] = weak[x]
   BY <2>1 DEF IInv, TypeOK, allocate
  <2>7. strong'[o] = S /\ weak'[o] = W BY DEF IInv, TypeOK, allocate
  <2> QED BY <2>2, <2>3, <2>4, <2>5, <2>6, <2>7 DEF IInv, ClosedInv, allocate
<1>4. MarkInv'
  BY DEF IInv, TypeOK, ClosedInv, Doomed, DoomedBoxes, Live, MarkInv, allocate
<1>5. CallbackInv'
  BY DEF IInv, TypeOK, CallbackInv, gray_remaining, allocate
<1> QED BY <1>1, <1>2, <1>3, <1>4, <1>5 DEF IInv

(* Reading a held value yields pointers that are as safe as the value itself. *)
LEMMA ReadInv ==
  ASSUME IInv, NEW o \in Obj, Read(o)
  PROVE  IInv'
<1>1. TypeOK'
  BY DEF IInv, TypeOK, Read
<1>2. PhaseInv'
  BY DEF IInv, PhaseInv, GrayBoxesQueuedOnce, Live, Read
<1>3. ClosedInv'
  BY DEF IInv, ClosedInv, Doomed, DoomedBoxes, Live, Read
<1>4. MarkInv'
  BY DEF IInv, MarkInv, Read
<1>5. CallbackInv'
  BY DEF IInv, CallbackInv, gray_remaining, Read
<1> QED BY <1>1, <1>2, <1>3, <1>4, <1>5 DEF IInv

(* A weak pointer made from a held value refers to a box that stays allocated. *)
LEMMA DowngradeInv ==
  ASSUME IInv, NEW o \in Obj, Downgrade(o)
  PROVE  IInv'
<1>1. TypeOK'
  BY DEF IInv, TypeOK, Downgrade
<1>2. PhaseInv'
  BY DEF IInv, PhaseInv, GrayBoxesQueuedOnce, Live, Downgrade
<1>3. ClosedInv'
  BY DEF IInv, ClosedInv, Doomed, DoomedBoxes, Live, Downgrade
<1>4. MarkInv'
  BY DEF IInv, MarkInv, Downgrade
<1>5. CallbackInv'
  BY DEF IInv, CallbackInv, gray_remaining, Downgrade
<1> QED BY <1>1, <1>2, <1>3, <1>4, <1>5 DEF IInv

(* A weak pointer that upgrades refers to a live value the sweep will keep: during
   the sweep its box is not doomed, being neither WhiteWeak nor a doomed box. *)
LEMMA UpgradeInv ==
  ASSUME IInv, NEW o \in Obj, Upgrade(o)
  PROVE  IInv'
<1>1. TypeOK'
  BY DEF IInv, TypeOK, Upgrade, upgrade
<1>2. PhaseInv'
  BY DEF IInv, PhaseInv, GrayBoxesQueuedOnce, Live, Upgrade, upgrade
<1>3. ClosedInv'
  BY DEF IInv, ClosedInv, Doomed, DoomedBoxes, Live, Upgrade, upgrade
<1>4. MarkInv'
  BY DEF IInv, MarkInv, Upgrade, upgrade
<1>5. CallbackInv'
  BY DEF IInv, CallbackInv, gray_remaining, Upgrade, upgrade
<1> QED BY <1>1, <1>2, <1>3, <1>4, <1>5 DEF IInv

(* The write barrier turns a black parent gray, so what is writable is not black. *)
LEMMA WriteInv ==
  ASSUME IInv, NEW p \in Obj, Write(p)
  PROVE  IInv'
<1>1. TypeOK'
  BY DEF IInv, TypeOK, ClosedInv, Doomed, DoomedBoxes, Live, Write, backward_barrier,
         BarrierFires
<1>2. PhaseInv'
  BY DEF IInv, TypeOK, ClosedInv, Doomed, DoomedBoxes, Live, PhaseInv, GrayBoxesQueuedOnce,
         Write, backward_barrier, BarrierFires
<1>3. ClosedInv'
  BY DEF IInv, ClosedInv, Doomed, DoomedBoxes, Live, Write, backward_barrier, BarrierFires
<1>4. MarkInv'
  BY DEF IInv, TypeOK, MarkInv, Write, backward_barrier, BarrierFires
<1>5. CallbackInv'
  BY DEF IInv, TypeOK, CallbackInv, gray_remaining, Write, backward_barrier, BarrierFires
<1> QED BY <1>1, <1>2, <1>3, <1>4, <1>5 DEF IInv

(* A store through a Write cannot give a black value a white child. *)
LEMMA StoreInv ==
  ASSUME IInv, NEW p \in Obj, NEW S \in SUBSET held, NEW W \in SUBSET heldWeak, Store(p,
         S, W)
  PROVE  IInv'
<1>1. TypeOK'
  BY DEF IInv, TypeOK, Store
<1>2. PhaseInv'
  BY DEF IInv, PhaseInv, GrayBoxesQueuedOnce, Live, Store
<1>3. ClosedInv'
  BY DEF IInv, ClosedInv, Doomed, DoomedBoxes, Live, Store
<1>4. MarkInv'
  <2>1. phase = "Mark" => color[p] # "Black" BY DEF IInv, CallbackInv, Store
  <2> QED BY <2>1 DEF IInv, TypeOK, MarkInv, Store
<1>5. CallbackInv'
  BY DEF IInv, CallbackInv, gray_remaining, Store
<1> QED BY <1>1, <1>2, <1>3, <1>4, <1>5 DEF IInv

(* Moving the pointers out of a value needs no barrier. *)
LEMMA TakeInv ==
  ASSUME IInv, NEW p \in Obj, Take(p)
  PROVE  IInv'
<1>1. TypeOK'
  BY DEF IInv, TypeOK, Take
<1>2. PhaseInv'
  BY DEF IInv, PhaseInv, GrayBoxesQueuedOnce, Live, Take
<1>3. ClosedInv'
  BY DEF IInv, ClosedInv, Doomed, DoomedBoxes, Live, Take
<1>4. MarkInv'
  BY DEF IInv, MarkInv, Take
<1>5. CallbackInv'
  BY DEF IInv, CallbackInv, gray_remaining, Take
<1> QED BY <1>1, <1>2, <1>3, <1>4, <1>5 DEF IInv

(* After the backward barrier, the parent is gray or the child is marked. *)
LEMMA AdoptBackwardInv ==
  ASSUME IInv, NEW p \in Obj, NEW c \in Obj, AdoptBackward(p, c)
  PROVE  IInv'
<1>1. TypeOK'
  BY DEF IInv, TypeOK, ClosedInv, Doomed, DoomedBoxes, Live, AdoptBackward,
         backward_barrier, BarrierFires
<1>2. PhaseInv'
  BY DEF IInv, TypeOK, ClosedInv, Doomed, DoomedBoxes, Live, PhaseInv, GrayBoxesQueuedOnce,
         AdoptBackward, backward_barrier, BarrierFires
<1>3. ClosedInv'
  BY DEF IInv, ClosedInv, Doomed, DoomedBoxes, Live, AdoptBackward, backward_barrier,
         BarrierFires
<1>4. MarkInv'
  BY DEF IInv, TypeOK, MarkInv, AdoptBackward, backward_barrier, BarrierFires
<1>5. CallbackInv'
  BY DEF IInv, TypeOK, CallbackInv, gray_remaining, AdoptBackward, backward_barrier,
         BarrierFires
<1> QED BY <1>1, <1>2, <1>3, <1>4, <1>5 DEF IInv

(* After the forward barrier, the parent is not black or the child is marked. *)
LEMMA AdoptForwardInv ==
  ASSUME IInv, NEW anyParent \in BOOLEAN, NEW p \in Obj, NEW c \in Obj,
         AdoptForward(anyParent, p, c)
  PROVE  IInv'
<1>1. TypeOK'
  BY DEF IInv, TypeOK, ClosedInv, Doomed, DoomedBoxes, Live, AdoptForward, forward_barrier,
         TracedColor, TracedGray
<1>2. PhaseInv'
  BY DEF IInv, TypeOK, ClosedInv, Doomed, DoomedBoxes, Live, PhaseInv, GrayBoxesQueuedOnce,
         AdoptForward, forward_barrier, TracedColor, TracedGray
<1>3. ClosedInv'
  BY DEF IInv, ClosedInv, Doomed, DoomedBoxes, Live, AdoptForward, forward_barrier,
         TracedColor, TracedGray
<1>4. MarkInv'
  BY DEF IInv, TypeOK, ClosedInv, Doomed, DoomedBoxes, Live, MarkInv, AdoptForward,
         forward_barrier, TracedColor, TracedGray
<1>5. CallbackInv'
  BY DEF IInv, TypeOK, CallbackInv, gray_remaining, AdoptForward, forward_barrier,
         TracedColor, TracedGray
<1> QED BY <1>1, <1>2, <1>3, <1>4, <1>5 DEF IInv

(* While its callback rewrites the root, the root is waiting to be traced. *)
LEMMA StoreRootInv ==
  ASSUME IInv, NEW S \in SUBSET held, NEW W \in SUBSET heldWeak, StoreRoot(S, W)
  PROVE  IInv'
<1>1. TypeOK'
  BY DEF IInv, TypeOK, StoreRoot
<1>2. PhaseInv'
  BY DEF IInv, PhaseInv, GrayBoxesQueuedOnce, Live, StoreRoot
<1>3. ClosedInv'
  BY DEF IInv, ClosedInv, Doomed, DoomedBoxes, Live, StoreRoot
<1>4. MarkInv'
  <2>1. phase = "Mark" => root_needs_trace BY DEF IInv, CallbackInv, StoreRoot
  <2> QED BY <2>1 DEF IInv, TypeOK, MarkInv, StoreRoot
<1>5. CallbackInv'
  BY DEF IInv, CallbackInv, gray_remaining, StoreRoot
<1> QED BY <1>1, <1>2, <1>3, <1>4, <1>5 DEF IInv

(* Resurrection marks a value that is live, in the marking phase only. *)
LEMMA ResurrectInv ==
  ASSUME IInv, NEW o \in Obj, Resurrect(o)
  PROVE  IInv'
<1>1. TypeOK'
  BY DEF IInv, TypeOK, ClosedInv, Doomed, DoomedBoxes, Live, Resurrect
<1>2. PhaseInv'
  <2>1. phase = "Mark" /\ sweep = {} BY DEF IInv, CallbackInv, PhaseInv, Resurrect
  <2>2. o \in Live BY <2>1 DEF IInv, ClosedInv, Resurrect, Live, Doomed, DoomedBoxes
  <2> QED BY <2>1, <2>2 DEF IInv, TypeOK, PhaseInv, GrayBoxesQueuedOnce, Resurrect, Live
<1>3. ClosedInv'
  <2>1. phase = "Mark" /\ sweep = {} BY DEF IInv, CallbackInv, PhaseInv, Resurrect
  <2>2. o \in Live BY <2>1 DEF IInv, ClosedInv, Resurrect, Live, Doomed, DoomedBoxes
  <2>3. Doomed = {} /\ DoomedBoxes = {} /\ Doomed' = {} /\ DoomedBoxes' = {} /\ Live' = Live
    BY <2>1 DEF Doomed, DoomedBoxes, Resurrect, Live
  <2> QED BY <2>2, <2>3 DEF IInv, ClosedInv, Resurrect
<1>4. MarkInv'
  BY DEF IInv, TypeOK, MarkInv, Resurrect
<1>5. CallbackInv'
  BY DEF IInv, TypeOK, CallbackInv, gray_remaining, Resurrect
<1> QED BY <1>1, <1>2, <1>3, <1>4, <1>5 DEF IInv

(* Beginning a collection call changes nothing but what the owner executes. *)
LEMMA BeginCollectInv ==
  ASSUME IInv, NEW call \in CollectCall, BeginCollect(call)
  PROVE  IInv'
<1>1. TypeOK'
  BY DEF IInv, TypeOK, BeginCollect, gray_remaining
<1>2. PhaseInv'
  BY DEF IInv, PhaseInv, GrayBoxesQueuedOnce, Live, BeginCollect, gray_remaining
<1>3. ClosedInv'
  BY DEF IInv, ClosedInv, Doomed, DoomedBoxes, Live, BeginCollect, gray_remaining
<1>4. MarkInv'
  BY DEF IInv, MarkInv, BeginCollect, gray_remaining
<1>5. CallbackInv'
  BY DEF IInv, CallbackInv, gray_remaining, BeginCollect
<1> QED BY <1>1, <1>2, <1>3, <1>4, <1>5 DEF IInv

(* Dropping a MarkedArena changes nothing. *)
LEMMA DropMarkedInv ==
  ASSUME IInv, DropMarked
  PROVE  IInv'
<1>1. TypeOK'
  BY DEF IInv, TypeOK, DropMarked
<1>2. PhaseInv'
  BY DEF IInv, PhaseInv, GrayBoxesQueuedOnce, Live, DropMarked
<1>3. ClosedInv'
  BY DEF IInv, ClosedInv, Doomed, DoomedBoxes, Live, DropMarked
<1>4. MarkInv'
  BY DEF IInv, MarkInv, DropMarked
<1>5. CallbackInv'
  BY DEF IInv, CallbackInv, gray_remaining, DropMarked
<1> QED BY <1>1, <1>2, <1>3, <1>4, <1>5 DEF IInv

(* Marking begins with every box white and the root still to be traced. *)
LEMMA WakeUpInv ==
  ASSUME IInv, WakeUp
  PROVE  IInv'
<1>1. TypeOK'
  BY DEF IInv, TypeOK, WakeUp
<1>2. PhaseInv'
  BY DEF IInv, PhaseInv, GrayBoxesQueuedOnce, Live, WakeUp
<1>3. ClosedInv'
  BY DEF IInv, ClosedInv, Doomed, DoomedBoxes, Live, WakeUp
<1>4. MarkInv'
  BY DEF IInv, TypeOK, PhaseInv, GrayBoxesQueuedOnce, Live, MarkInv, WakeUp
<1>5. CallbackInv'
  BY DEF IInv, CallbackInv, gray_remaining, WakeUp
<1> QED BY <1>1, <1>2, <1>3, <1>4, <1>5 DEF IInv

(* Tracing a gray value marks its children and then turns it black. *)
LEMMA TraceGrayInv ==
  ASSUME IInv, NEW o \in Obj, TraceGray(o)
  PROVE  IInv'
<1>1. TypeOK'
  BY DEF IInv, TypeOK, ClosedInv, Doomed, DoomedBoxes, Live, TraceGray, NextGray,
         TracedColor, TracedGray, AfterWork, Returned
<1>2. PhaseInv'
  BY DEF IInv, TypeOK, ClosedInv, Doomed, DoomedBoxes, Live, PhaseInv, GrayBoxesQueuedOnce,
         TraceGray, NextGray, TracedColor, TracedGray, AfterWork, Returned
<1>3. ClosedInv'
  BY DEF IInv, ClosedInv, Doomed, DoomedBoxes, Live, TraceGray, NextGray, TracedColor,
         TracedGray, AfterWork, Returned
<1>4. MarkInv'
  BY DEF IInv, TypeOK, ClosedInv, Doomed, DoomedBoxes, Live, MarkInv, TraceGray, NextGray,
         TracedColor, TracedGray, AfterWork, Returned
<1>5. CallbackInv'
  BY DEF IInv, CallbackInv, gray_remaining, TraceGray, NextGray, TracedColor, TracedGray,
         AfterWork, Returned
<1> QED BY <1>1, <1>2, <1>3, <1>4, <1>5 DEF IInv

(* A trace that panics leaves its value gray and queued. *)
LEMMA TraceGrayPanicsInv ==
  ASSUME IInv, NEW o \in Obj, NEW S \in SUBSET strong[o], NEW W \in SUBSET weak[o],
         TraceGrayPanics(o, S, W)
  PROVE  IInv'
<1>1. TypeOK'
  BY DEF IInv, TypeOK, ClosedInv, Doomed, DoomedBoxes, Live, TraceGrayPanics, NextGray,
         TracedColor, TracedGray
<1>2. PhaseInv'
  BY DEF IInv, TypeOK, ClosedInv, Doomed, DoomedBoxes, Live, PhaseInv, GrayBoxesQueuedOnce,
         TraceGrayPanics, NextGray, TracedColor, TracedGray
<1>3. ClosedInv'
  BY DEF IInv, ClosedInv, Doomed, DoomedBoxes, Live, TraceGrayPanics, NextGray, TracedColor,
         TracedGray
<1>4. MarkInv'
  BY DEF IInv, TypeOK, ClosedInv, Doomed, DoomedBoxes, Live, MarkInv, TraceGrayPanics,
         NextGray, TracedColor, TracedGray
<1>5. CallbackInv'
  BY DEF IInv, CallbackInv, gray_remaining, TraceGrayPanics, NextGray, TracedColor,
         TracedGray
<1> QED BY <1>1, <1>2, <1>3, <1>4, <1>5 DEF IInv

(* Tracing the root marks its children. *)
LEMMA TraceRootInv ==
  ASSUME IInv, TraceRoot
  PROVE  IInv'
<1>1. TypeOK'
  <2>1. op' \in {op, "idle", "marked"} BY DEF TraceRoot, AfterWork, Returned
  <2>2. rootStrong \subseteq all BY DEF IInv, ClosedInv, Live
  <2>3. TracedGray(rootStrong) \subseteq all BY <2>2 DEF TracedGray
  <2>4. color' \in [Obj -> GcColor] BY DEF IInv, TypeOK, TraceRoot, TracedColor
  <2> QED BY <2>1, <2>3, <2>4 DEF IInv, TypeOK, TraceRoot
<1>2. PhaseInv'
  BY DEF IInv, TypeOK, ClosedInv, Doomed, DoomedBoxes, Live, PhaseInv, GrayBoxesQueuedOnce,
         TraceRoot, NextGray, TracedColor, TracedGray, AfterWork, Returned
<1>3. ClosedInv'
  BY DEF IInv, ClosedInv, Doomed, DoomedBoxes, Live, TraceRoot, NextGray, TracedColor,
         TracedGray, AfterWork, Returned
<1>4. MarkInv'
  BY DEF IInv, TypeOK, ClosedInv, Doomed, DoomedBoxes, Live, MarkInv, TraceRoot, NextGray,
         TracedColor, TracedGray, AfterWork, Returned
<1>5. CallbackInv'
  BY DEF IInv, CallbackInv, gray_remaining, TraceRoot, NextGray, TracedColor, TracedGray,
         AfterWork, Returned
<1> QED BY <1>1, <1>2, <1>3, <1>4, <1>5 DEF IInv

(* A root trace that panics leaves the root waiting to be traced. *)
LEMMA TraceRootPanicsInv ==
  ASSUME IInv, NEW S \in SUBSET rootStrong, NEW W \in SUBSET rootWeak, TraceRootPanics(S,
         W)
  PROVE  IInv'
<1>1. TypeOK'
  BY DEF IInv, TypeOK, ClosedInv, Doomed, DoomedBoxes, Live, TraceRootPanics, NextGray,
         TracedColor, TracedGray
<1>2. PhaseInv'
  BY DEF IInv, TypeOK, ClosedInv, Doomed, DoomedBoxes, Live, PhaseInv, GrayBoxesQueuedOnce,
         TraceRootPanics, NextGray, TracedColor, TracedGray
<1>3. ClosedInv'
  BY DEF IInv, ClosedInv, Doomed, DoomedBoxes, Live, TraceRootPanics, NextGray, TracedColor,
         TracedGray
<1>4. MarkInv'
  BY DEF IInv, TypeOK, ClosedInv, Doomed, DoomedBoxes, Live, MarkInv, TraceRootPanics,
         NextGray, TracedColor, TracedGray
<1>5. CallbackInv'
  BY DEF IInv, CallbackInv, gray_remaining, TraceRootPanics, NextGray, TracedColor,
         TracedGray
<1> QED BY <1>1, <1>2, <1>3, <1>4, <1>5 DEF IInv

(* A mark call that stops before the sweep leaves a fully marked arena. *)
LEMMA StopBeforeSweepInv ==
  ASSUME IInv, StopBeforeSweep
  PROVE  IInv'
<1>1. TypeOK'
  BY DEF IInv, TypeOK, StopBeforeSweep, gray_remaining
<1>2. PhaseInv'
  BY DEF IInv, PhaseInv, GrayBoxesQueuedOnce, Live, StopBeforeSweep, gray_remaining
<1>3. ClosedInv'
  BY DEF IInv, ClosedInv, Doomed, DoomedBoxes, Live, StopBeforeSweep, gray_remaining
<1>4. MarkInv'
  BY DEF IInv, MarkInv, StopBeforeSweep, gray_remaining
<1>5. CallbackInv'
  BY DEF IInv, CallbackInv, gray_remaining, StopBeforeSweep
<1> QED BY <1>1, <1>2, <1>3, <1>4, <1>5 DEF IInv

(* When marking is complete, black values point only to black values, so what
   is doomed is pointed to by nothing that is not. *)
LEMMA StartSweepInv ==
  ASSUME IInv, StartSweep
  PROVE  IInv'
<1>1. TypeOK'
  BY DEF IInv, TypeOK, StartSweep, gray_remaining
<1>2. PhaseInv'
  BY DEF IInv, PhaseInv, GrayBoxesQueuedOnce, Live, StartSweep, gray_remaining
<1>3. ClosedInv'
  <2>1. \A o \in all : color[o] = "Black" \/ color[o] \in Unmarked
    BY DEF IInv, TypeOK, PhaseInv, GrayBoxesQueuedOnce, StartSweep, gray_remaining
  <2>2. Doomed = {} /\ DoomedBoxes = {} /\ Live' = Live BY DEF Doomed, DoomedBoxes, StartSweep, Live
  <2>3. Doomed' = {o \in all : color[o] \in Unmarked} /\ DoomedBoxes' = {o \in all : color[o] = "White"}
    BY DEF Doomed, DoomedBoxes, StartSweep
  <2>4. \A o \in all : color[o] = "Black" =>
                 /\ \A c \in strong[o] : color[c] \notin Unmarked
                 /\ \A c \in weak[o] : color[c] # "White"
    BY DEF IInv, MarkInv, StartSweep
  <2>5. /\ \A c \in rootStrong : color[c] \notin Unmarked
        /\ \A c \in rootWeak : color[c] # "White"
    BY DEF IInv, MarkInv, StartSweep, gray_remaining
  <2>6. held = {} /\ heldWeak = {} BY DEF IInv, CallbackInv, StartSweep
  <2>7. \A o \in all \ Doomed' : strong[o] \subseteq Live \ Doomed' /\ weak[o] \subseteq all \ DoomedBoxes'
    BY <2>1, <2>2, <2>3, <2>4 DEF IInv, ClosedInv, Live
  <2>8. (rootStrong \cup held \subseteq Live \ Doomed') /\ (rootWeak \cup heldWeak \subseteq all \ DoomedBoxes')
    BY <2>2, <2>3, <2>5, <2>6 DEF IInv, ClosedInv, Live
  <2> QED BY <2>2, <2>7, <2>8 DEF IInv, ClosedInv, StartSweep
<1>4. MarkInv'
  BY DEF IInv, MarkInv, StartSweep, gray_remaining
<1>5. CallbackInv'
  BY DEF IInv, CallbackInv, gray_remaining, StartSweep
<1> QED BY <1>1, <1>2, <1>3, <1>4, <1>5 DEF IInv

(* start_sweeping returns without sweeping a box. *)
LEMMA StopAfterSweepInv ==
  ASSUME IInv, StopAfterSweep
  PROVE  IInv'
<1>1. TypeOK'
  BY DEF IInv, TypeOK, StopAfterSweep
<1>2. PhaseInv'
  BY DEF IInv, PhaseInv, GrayBoxesQueuedOnce, Live, StopAfterSweep
<1>3. ClosedInv'
  BY DEF IInv, ClosedInv, Doomed, DoomedBoxes, Live, StopAfterSweep
<1>4. MarkInv'
  BY DEF IInv, MarkInv, StopAfterSweep
<1>5. CallbackInv'
  BY DEF IInv, CallbackInv, gray_remaining, StopAfterSweep
<1> QED BY <1>1, <1>2, <1>3, <1>4, <1>5 DEF IInv

(* Sweeping one box drops or frees only what is doomed. *)
LEMMA SweepBoxInv ==
  ASSUME IInv, NEW o \in Obj, SweepBox(o)
  PROVE  IInv'
<1>1. TypeOK'
  <2>1. op' \in {op, "idle"} BY DEF SweepBox, AfterWork, Returned, CallbackInv, IInv
  <2>2. o \notin gray \cup gray_again BY DEF IInv, PhaseInv, GrayBoxesQueuedOnce, SweepBox
  <2>3. CASE color[o] = "White" BY <2>1, <2>2, <2>3 DEF IInv, TypeOK, SweepBox
  <2>4. CASE color[o] = "WhiteWeak" BY <2>1, <2>4 DEF IInv, TypeOK, SweepBox
  <2>5. CASE color[o] \notin Unmarked BY <2>1, <2>5 DEF IInv, TypeOK, SweepBox
  <2> QED BY <2>3, <2>4, <2>5
<1>2. PhaseInv'
  BY DEF IInv, TypeOK, PhaseInv, GrayBoxesQueuedOnce, Live, SweepBox, AfterWork, Returned
<1>3. ClosedInv'
  BY DEF IInv, TypeOK, ClosedInv, Doomed, DoomedBoxes, Live, SweepBox, AfterWork, Returned
<1>4. MarkInv'
  BY DEF IInv, MarkInv, SweepBox, AfterWork, Returned
<1>5. CallbackInv'
  BY DEF IInv, CallbackInv, gray_remaining, SweepBox, AfterWork, Returned
<1> QED BY <1>1, <1>2, <1>3, <1>4, <1>5 DEF IInv

(* After the last box every box is white and the root must be traced again. *)
LEMMA EndSweepInv ==
  ASSUME IInv, EndSweep
  PROVE  IInv'
<1>1. TypeOK'
  BY DEF IInv, TypeOK, EndSweep
<1>2. PhaseInv'
  BY DEF IInv, PhaseInv, GrayBoxesQueuedOnce, Live, EndSweep
<1>3. ClosedInv'
  BY DEF IInv, ClosedInv, Doomed, DoomedBoxes, Live, EndSweep
<1>4. MarkInv'
  BY DEF IInv, MarkInv, EndSweep
<1>5. CallbackInv'
  BY DEF IInv, CallbackInv, gray_remaining, EndSweep
<1> QED BY <1>1, <1>2, <1>3, <1>4, <1>5 DEF IInv
-----------------------------------------------------------------------------
(* A step that changes no variable preserves IInv. *)
LEMMA StutterInv == ASSUME IInv, UNCHANGED vars PROVE IInv'
  BY DEF IInv, TypeOK, PhaseInv, GrayBoxesQueuedOnce, ClosedInv, MarkInv, CallbackInv,
         Live, Doomed, DoomedBoxes, gray_remaining

(* Every step of a callback preserves IInv. *)
LEMMA CallbackStepInv == ASSUME IInv, CallbackStep PROVE IInv'
<1>1. CASE Mutate \/ MutateRoot \/ Finalize \/ EndCallback
  BY <1>1, MutateInv, MutateRootInv, FinalizeInv, EndCallbackInv
<1>2. CASE \E S \in SmallSubset(held, MaxStrong), W \in SmallSubset(heldWeak, MaxWeak) :
              \/ \E o \in Obj, traced \in BOOLEAN : allocate(o, traced, S, W)
              \/ \E p \in writable : Store(p, S, W)
              \/ StoreRoot(S, W)
  <2>1. PICK S \in SUBSET held, W \in SUBSET heldWeak :
              \/ \E o \in Obj, traced \in BOOLEAN : allocate(o, traced, S, W)
              \/ \E p \in writable : Store(p, S, W)
              \/ StoreRoot(S, W)
    BY <1>2 DEF SmallSubset
  <2>2. writable \subseteq Obj
    BY DEF IInv, TypeOK
  <2> QED BY <2>1, <2>2, AllocateInv, StoreInv, StoreRootInv
<1>3. CASE \E o \in Obj : \/ Read(o) \/ Upgrade(o)
                          \/ MaxWeak > 0 /\ Downgrade(o)
                          \/ Write(o) \/ Take(o) \/ Resurrect(o)
  BY <1>3, ReadInv, DowngradeInv, UpgradeInv, WriteInv, TakeInv, ResurrectInv
<1>4. CASE \E p, c \in Obj : \/ AdoptBackward(p, c)
                             \/ \E anyParent \in BOOLEAN : AdoptForward(anyParent, p, c)
  BY <1>4, AdoptBackwardInv, AdoptForwardInv
<1> QED BY <1>1, <1>2, <1>3, <1>4 DEF CallbackStep

(* Every step of a collection call preserves IInv. *)
LEMMA CollectStepInv == ASSUME IInv, CollectStep PROVE IInv'
<1>1. CASE CollectWork
  BY <1>1, WakeUpInv, TraceRootInv, StopBeforeSweepInv, StartSweepInv, StopAfterSweepInv,
     EndSweepInv, TraceGrayInv, SweepBoxInv DEF CollectWork
<1>2. CASE DropMarked
  BY <1>2, DropMarkedInv
<1>3. CASE \E call \in CollectCall : BeginCollect(call)
  BY <1>3, BeginCollectInv
<1>4. CASE \E o \in Obj : \E S \in SUBSET strong[o], W \in SUBSET weak[o] : TraceGrayPanics(o, S, W)
  BY <1>4, TraceGrayPanicsInv
<1>5. CASE \E S \in SUBSET rootStrong, W \in SUBSET rootWeak : TraceRootPanics(S, W)
  BY <1>5, TraceRootPanicsInv
<1> QED BY <1>1, <1>2, <1>3, <1>4, <1>5 DEF CollectStep

(* IInv holds in every reachable state, for every set of addresses. *)
THEOREM Inductive == Spec => []IInv
<1>1. IInv /\ [Next]_vars => IInv'
  BY StutterInv, CallbackStepInv, CollectStepInv DEF Next
<1> QED BY InitIInv, <1>1, PTL DEF Spec

(* The variables keep their types. *)
THEOREM TypeCorrect == Spec => []TypeOK
<1>1. IInv => TypeOK
  BY DEF IInv
<1> QED BY Inductive, <1>1, PTL

-----------------------------------------------------------------------------
(* Every gray value is in exactly one of the gray queues, and what is queued is *)
(* allocated and gray: no barrier queues a value twice and none is lost. *)
THEOREM GrayBoxesQueuedOnceAlways == Spec => []GrayBoxesQueuedOnce
<1>1. IInv => GrayBoxesQueuedOnce
  BY DEF IInv, PhaseInv
<1> QED BY Inductive, <1>1, PTL

(* A set that holds the roots and is closed under strong holds all that is reachable. *)
LEMMA ReachableLeast ==
  ASSUME NEW S \in SUBSET Obj, rootStrong \cup held \subseteq S, \A p \in S : strong[p] \subseteq S
  PROVE  Reachable \subseteq S
  BY DEF Reachable

(* What is reachable is live and will survive the sweep under way. *)
LEMMA ReachableNotDoomed == IInv => Reachable \subseteq Live \ Doomed
<1> SUFFICES ASSUME IInv PROVE Reachable \subseteq Live \ Doomed
  OBVIOUS
<1>1. Live \ Doomed \in SUBSET Obj
  BY DEF IInv, TypeOK, Live
<1>2. rootStrong \cup held \subseteq Live \ Doomed
  BY DEF IInv, ClosedInv
<1>3. \A p \in Live \ Doomed : strong[p] \subseteq Live \ Doomed
  BY DEF IInv, ClosedInv, Live
<1> QED BY <1>1, <1>2, <1>3, ReachableLeast

(* No value reachable by strong pointers is ever dropped or freed. *)
THEOREM ReachableIsLiveAlways == Spec => []ReachableIsLive
<1>1. IInv => ReachableIsLive
  BY ReachableNotDoomed DEF ReachableIsLive
<1> QED BY Inductive, <1>1, PTL

(* The box behind every weak pointer that can be read is allocated. *)
THEOREM WeakTargetsAllocatedAlways == Spec => []WeakTargetsAllocated
<1>1. IInv => WeakTargetsAllocated
  <2> SUFFICES ASSUME IInv PROVE WeakTargets \subseteq all
    BY DEF WeakTargetsAllocated
  <2>1. \A o \in Reachable : weak[o] \subseteq all
    BY ReachableNotDoomed DEF IInv, ClosedInv, Live
  <2>2. rootWeak \cup heldWeak \subseteq all
    BY DEF IInv, ClosedInv
  <2> QED BY <2>1, <2>2 DEF WeakTargets
<1> QED BY Inductive, <1>1, PTL

(* A weak pointer to a reachable value upgrades in every phase. *)
THEOREM ReachableUpgradesAlways == Spec => []ReachableUpgrades
<1>1. IInv => ReachableUpgrades
  <2> SUFFICES ASSUME IInv, NEW o \in Reachable PROVE upgrade(o)
    BY DEF ReachableUpgrades
  <2>1. o \in all /\ is_live[o] /\ o \notin Doomed
    BY ReachableNotDoomed DEF Live
  <2>2. ~(phase = "Sweep" /\ color[o] = "WhiteWeak")
    BY <2>1 DEF IInv, PhaseInv, Doomed
  <2> QED BY <2>1, <2>2 DEF upgrade
<1> QED BY Inductive, <1>1, PTL

(* In a marked arena, what is_dead reports is unreachable. *)
THEOREM MarkedIsCompleteAlways == Spec => []MarkedIsComplete
<1>1. IInv => MarkedIsComplete
  <2> SUFFICES ASSUME IInv, op = "marked", NEW o \in Reachable PROVE color[o] = "Black"
    BY DEF MarkedIsComplete
  <2> DEFINE Black == {x \in all : color[x] = "Black"}
  <2>1. phase = "Mark" /\ gray = {} /\ gray_again = {} /\ ~root_needs_trace /\ held = {}
    BY DEF IInv, CallbackInv, gray_remaining
  <2>2. \A x \in Live : color[x] \notin Unmarked => x \in Black
    BY <2>1 DEF IInv, TypeOK, PhaseInv, GrayBoxesQueuedOnce, Live
  <2>3. rootStrong \cup held \subseteq Black
    BY <2>1, <2>2 DEF IInv, ClosedInv, MarkInv
  <2>4. \A p \in Black : strong[p] \subseteq Black
    <3> SUFFICES ASSUME NEW p \in Black, NEW c \in strong[p] PROVE c \in Black
      OBVIOUS
    <3>1. p \notin Doomed
      BY <2>1 DEF Doomed
    <3>2. c \in Live
      BY <3>1 DEF IInv, ClosedInv
    <3>3. color[c] \notin Unmarked
      BY <2>1 DEF IInv, MarkInv
    <3> QED BY <2>2, <3>2, <3>3
  <2>5. Black \in SUBSET Obj
    BY DEF IInv, TypeOK
  <2>6. Reachable \subseteq Black
    <3> HIDE DEF Black
    <3> QED BY <2>3, <2>4, <2>5, ReachableLeast
  <2> QED BY <2>6
<1> QED BY Inductive, <1>1, PTL


(* Every step keeps the marks of the values it does not sweep. *)
LEMMA StepKeepsMarks == ASSUME IInv, [Next]_vars PROVE KeepsMarks
<1> USE DEF KeepsMarks, IInv, TypeOK, Live
<1>1. CASE UNCHANGED vars
  BY <1>1
<1>2. CASE CallbackStep
  <2>1. CASE Mutate \/ MutateRoot \/ Finalize \/ EndCallback
    BY <2>1 DEF Mutate, MutateRoot, Finalize, EndCallback
  <2>2. ASSUME NEW o \in Obj, NEW traced \in BOOLEAN, NEW S, NEW W, allocate(o, traced, S, W)
        PROVE  KeepsMarks
    BY <2>2 DEF allocate
  <2>3. ASSUME NEW p, NEW S, NEW W, Store(p, S, W) \/ StoreRoot(S, W)
        PROVE  KeepsMarks
    BY <2>3 DEF Store, StoreRoot
  <2>4. ASSUME NEW o \in Obj, Read(o) \/ Upgrade(o) \/ Downgrade(o) \/ Take(o)
        PROVE  KeepsMarks
    BY <2>4 DEF Read, Upgrade, Downgrade, Take
  <2>5. ASSUME NEW o \in Obj, Write(o)
        PROVE  KeepsMarks
    BY <2>5 DEF Write, backward_barrier
  <2>6. ASSUME NEW o \in Obj, Resurrect(o)
        PROVE  KeepsMarks
    BY <2>6 DEF Resurrect
  <2>7. ASSUME NEW p \in Obj, NEW c \in Obj, AdoptBackward(p, c)
        PROVE  KeepsMarks
    BY <2>7 DEF AdoptBackward, backward_barrier
  <2>8. ASSUME NEW p \in Obj, NEW c \in Obj, NEW anyParent, AdoptForward(anyParent, p, c)
        PROVE  KeepsMarks
    BY <2>8 DEF AdoptForward, forward_barrier, TracedColor
  <2> QED BY <1>2, <2>1, <2>2, <2>3, <2>4, <2>5, <2>6, <2>7, <2>8 DEF CallbackStep
<1>3. CASE CollectStep
  <2>1. CASE WakeUp \/ StopBeforeSweep \/ StartSweep \/ StopAfterSweep \/ EndSweep \/ DropMarked
    BY <2>1 DEF WakeUp, StopBeforeSweep, StartSweep, StopAfterSweep, EndSweep, DropMarked
  <2>2. ASSUME NEW call, BeginCollect(call)
        PROVE  KeepsMarks
    BY <2>2 DEF BeginCollect
  <2>3. ASSUME NEW o \in Obj, TraceGray(o)
        PROVE  KeepsMarks
    BY <2>3 DEF TraceGray, TracedColor
  <2>4. ASSUME NEW o \in Obj, NEW S, NEW W, TraceGrayPanics(o, S, W)
        PROVE  KeepsMarks
    BY <2>4 DEF TraceGrayPanics, TracedColor
  <2>5. CASE TraceRoot
    BY <2>5 DEF TraceRoot, TracedColor
  <2>6. ASSUME NEW S, NEW W, TraceRootPanics(S, W)
        PROVE  KeepsMarks
    BY <2>6 DEF TraceRootPanics, TracedColor
  <2>7. ASSUME NEW o \in Obj, SweepBox(o)
        PROVE  KeepsMarks
    BY <2>7 DEF SweepBox
  <2> QED BY <1>3, <2>1, <2>2, <2>3, <2>4, <2>5, <2>6, <2>7 DEF CollectStep, CollectWork
<1> QED BY <1>1, <1>2, <1>3 DEF Next

(* What is marked, resurrected values included, is not dropped in that cycle. *)
THEOREM MarkedSurvivesAlways == Spec => MarkedSurvives
<1>1. IInv /\ [Next]_vars => [KeepsMarks]_vars
  BY StepKeepsMarks
<1> QED BY Inductive, <1>1, PTL DEF Spec, MarkedSurvives

-----------------------------------------------------------------------------
(***************************************************************************)
(* Why a collection call returns.  CollectionReturns itself is temporal    *)
(* and stays with TLC; what is proved is the variant it rests on.  A step  *)
(* of a call that does not return takes the phase on, or traces the root,  *)
(* or adds to the black boxes, or takes from the unswept ones, and nothing *)
(* is given back meanwhile.  There are finitely many boxes, and no call    *)
(* goes on from the end of the sweep.                                      *)
(***************************************************************************)
BlackBoxes == {o \in all : color[o] = "Black"}
Advances ==
    \/ /\ phase = "Sleep" /\ phase' = "Mark" /\ all' = all
    \/ /\ phase = "Mark" /\ phase' = "Sweep" /\ all' = all
    \/ /\ phase = "Mark" /\ phase' = "Mark" /\ all' = all
       /\ BlackBoxes \subseteq BlackBoxes'
       /\ \/ root_needs_trace /\ root_needs_trace' = FALSE
          \/ root_needs_trace' = root_needs_trace /\ BlackBoxes # BlackBoxes'
    \/ /\ phase = "Sweep" /\ phase' = "Sweep" /\ all' \subseteq all
       /\ sweep' \subseteq sweep /\ sweep' # sweep
FiniteBoxes == IsFiniteSet(all)
CollectAdvances == op \in CollectCall /\ op' \in CollectCall => Advances

(* Tracing a gray box, which is not black, makes it so, and takes no mark away. *)
LEMMA TraceGrayAdvances == ASSUME IInv, NEW o \in Obj, TraceGray(o) PROVE Advances
<1>1. o \in all /\ color[o] = "Gray"
  BY DEF IInv, PhaseInv, GrayBoxesQueuedOnce, TraceGray, NextGray
<1>2. \A x \in all : color[x] = "Black" => color'[x] = "Black"
  BY DEF IInv, TypeOK, TraceGray, TracedColor
<1>3. color'[o] = "Black"
  BY DEF IInv, TypeOK, TraceGray, TracedColor
<1>4. phase = "Mark" /\ phase' = "Mark" /\ all' = all /\ root_needs_trace' = root_needs_trace
  BY DEF TraceGray
<1>5. BlackBoxes \subseteq BlackBoxes' /\ o \in BlackBoxes' /\ o \notin BlackBoxes
  BY <1>1, <1>2, <1>3, <1>4 DEF BlackBoxes
<1> QED BY <1>4, <1>5 DEF Advances

(* The root is traced once, and takes no mark away. *)
LEMMA TraceRootAdvances == ASSUME IInv, TraceRoot PROVE Advances
<1>1. \A x \in all : color[x] = "Black" => color'[x] = "Black"
  BY DEF IInv, TypeOK, TraceRoot, TracedColor
<1>2. phase = "Mark" /\ phase' = "Mark" /\ all' = all /\ root_needs_trace /\ root_needs_trace' = FALSE
  BY DEF TraceRoot
<1>3. BlackBoxes \subseteq BlackBoxes'
  BY <1>1, <1>2 DEF BlackBoxes
<1> QED BY <1>2, <1>3 DEF Advances

(* A box that the sweep has passed is not met again. *)
LEMMA SweepBoxAdvances == ASSUME IInv, NEW o \in Obj, SweepBox(o) PROVE Advances
<1>1. phase = "Sweep" /\ phase' = "Sweep" /\ o \in sweep /\ sweep' = sweep \ {o}
  BY DEF SweepBox
<1>2. all' \subseteq all
  BY DEF SweepBox
<1> QED BY <1>1, <1>2 DEF Advances

(* Every step that leaves a collection call under way brings it nearer to its *)
(* end (context.rs do_collection_inner). *)
THEOREM CollectAdvancesAlways == Spec => [][CollectAdvances]_vars
<1>1. IInv /\ [Next]_vars => [CollectAdvances]_vars
  <2> SUFFICES ASSUME IInv, Next, op \in CollectCall, op' \in CollectCall
               PROVE  Advances
    BY DEF CollectAdvances
  <2>1. CASE CallbackStep
    <3>1. ASSUME Mutate \/ MutateRoot \/ Finalize \/ EndCallback
          PROVE  FALSE
      BY <3>1 DEF Mutate, MutateRoot, Finalize, EndCallback
    <3>2. ASSUME NEW S, NEW W, NEW p, NEW traced, allocate(p, traced, S, W) \/ Store(p, S, W) \/ StoreRoot(S, W)
          PROVE  FALSE
      BY <3>2 DEF allocate, Store, StoreRoot
    <3>3. ASSUME NEW o, Read(o) \/ Upgrade(o) \/ Downgrade(o) \/ Write(o) \/ Take(o) \/ Resurrect(o)
          PROVE  FALSE
      BY <3>3 DEF Read, Upgrade, Downgrade, Write, Take, Resurrect
    <3>4. ASSUME NEW p, NEW c, NEW anyParent, AdoptBackward(p, c) \/ AdoptForward(anyParent, p, c)
          PROVE  FALSE
      BY <3>4 DEF AdoptBackward, AdoptForward
    <3> QED BY <2>1, <3>1, <3>2, <3>3, <3>4 DEF CallbackStep
  <2>2. CASE CollectStep
    <3>1. ASSUME StopBeforeSweep \/ StopAfterSweep \/ EndSweep \/ DropMarked
          PROVE  FALSE
      BY <3>1 DEF StopBeforeSweep, StopAfterSweep, EndSweep, DropMarked
    <3>2. ASSUME NEW call, BeginCollect(call)
          PROVE  FALSE
      BY <3>2 DEF BeginCollect
    <3>3. ASSUME NEW o, NEW S, NEW W, TraceGrayPanics(o, S, W)
          PROVE  FALSE
      BY <3>3 DEF TraceGrayPanics
    <3>4. ASSUME NEW S, NEW W, TraceRootPanics(S, W)
          PROVE  FALSE
      BY <3>4 DEF TraceRootPanics
    <3>5. CASE WakeUp \/ StartSweep
      BY <3>5 DEF WakeUp, StartSweep, Advances
    <3> QED BY <2>2, <3>1, <3>2, <3>3, <3>4, <3>5, TraceGrayAdvances, TraceRootAdvances, SweepBoxAdvances
         DEF CollectStep, CollectWork
  <2> QED BY <2>1, <2>2 DEF Next
<1> QED BY Inductive, <1>1, PTL DEF Spec

(* There are finitely many boxes at any time, so that a call can only advance *)
(* so often: the premise of the argument above. *)
THEOREM BoxesAreFinite == Spec => []FiniteBoxes
<1>1. Init => FiniteBoxes
  BY FS_EmptySet DEF Init, FiniteBoxes
<1>2. FiniteBoxes /\ [Next]_vars => FiniteBoxes'
  <2> SUFFICES ASSUME IsFiniteSet(all), [Next]_vars PROVE IsFiniteSet(all')
    BY DEF FiniteBoxes
  <2>1. all' \subseteq all \/ \E o \in Obj : all' = all \cup {o}
    <3>1. CASE UNCHANGED vars
      BY <3>1
    <3>2. CASE CallbackStep
      BY <3>2 DEF CallbackStep, Mutate, MutateRoot, Finalize, EndCallback, allocate, Store,
         StoreRoot, Read, Upgrade, Downgrade, Write, Take, Resurrect, AdoptBackward, AdoptForward
    <3>3. CASE CollectStep
      BY <3>3 DEF CollectStep, CollectWork, WakeUp, TraceRoot, StopBeforeSweep, StartSweep, StopAfterSweep,
         EndSweep, TraceGray, SweepBox, DropMarked, BeginCollect, TraceGrayPanics, TraceRootPanics
    <3> QED BY <3>1, <3>2, <3>3 DEF Next
  <2> QED BY <2>1, FS_Subset, FS_AddElement
<1> QED BY <1>1, <1>2, PTL DEF Spec

=============================================================================
