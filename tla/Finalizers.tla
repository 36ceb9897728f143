----------------------------- MODULE Finalizers -----------------------------
(***************************************************************************)
(* Two-stage finalization of threads (phodopus/finalizers.rs, thread.rs)   *)
(* and the order in which Lua::enter, gc_collect and the quota collection  *)
(* run it (lua.rs).                                                        *)
(*                                                                         *)
(* An upvalue that is open names a stack slot of its thread and holds the  *)
(* thread only weakly, so a closure can outlive the thread whose stack its *)
(* variables are on.  Before such a thread is swept its open upvalues must *)
(* be closed, and the values they take over must survive the sweep.        *)
(*                                                                         *)
(* The collector is GcArena's, at the grain of whole calls.  When marking  *)
(* is complete the marked boxes hold all that is reachable and are closed  *)
(* under strong pointers (GcArena!MarkedIsComplete); they may also hold    *)
(* what died since marking began.  A box that is left unmarked can not be  *)
(* upgraded once the sweep begins, so the whole sweep is one step here.    *)
(***************************************************************************)
CONSTANTS
    Thread, Closure, UpValue,  \* the boxes of each type
    Nil                        \* no value, no thread

ASSUME NilAssumption == Nil \notin Thread \cup Closure \cup UpValue
ASSUME TypesAssumption ==
    Thread \cap Closure = {} /\ Thread \cap UpValue = {} /\ Closure \cap UpValue = {}

Value == Thread \cup Closure
Box == Value \cup UpValue

VARIABLES
    boxes,     \* the boxes whose value was not dropped
    globals,   \* the values the globals table holds
    upvalues,  \* the upvalues of each closure
    on,        \* the thread an open upvalue is open on, Nil for a closed one
    value,     \* the stack slot an open upvalue names, or the value of a closed one
    threads,   \* FinalizersState.threads
    reset,     \* the threads finalize has reset; Lua code can not start them again
    marked,    \* the boxes that are not white
    stage      \* how far the collection under way has come

vars == <<boxes, globals, upvalues, on, value, threads, reset, marked, stage>>
graphVars == <<boxes, globals, upvalues, on, value>>

Init ==
    /\ boxes = {} /\ globals = {}
    /\ upvalues = [c \in Closure |-> {}]
    /\ on = [u \in UpValue |-> Nil]
    /\ value = [u \in UpValue |-> Nil]
    /\ threads = {} /\ reset = {} /\ marked = {}
    /\ stage = "mutate"

-----------------------------------------------------------------------------
(* The object graph                                                        *)

OpenOn(t) == {u \in UpValue : on[u] = t}
Held(u) == {value[u]} \ {Nil}

\* What Collect traces: of a thread its stack and its open upvalues, of a
\* closure its upvalues, of an upvalue its value only if it is closed.
Strong(b) ==
    CASE b \in Thread -> OpenOn(b) \cup UNION {Held(u) : u \in OpenOn(b)}
      [] b \in Closure -> upvalues[b]
      [] b \in UpValue -> IF on[b] = Nil THEN Held(b) ELSE {}

\* What Lua code can get at: also the slot an open upvalue names, for
\* OpenUpValue::get upgrades its weak pointer to the thread.
Usable(b) == IF b \in UpValue THEN Held(b) ELSE Strong(b)

\* Everything that is reached from S along Edge: the least set of boxes that
\* holds S and is closed under Edge
ReachedFrom(Edge(_), S) ==
    LET Closed == {R \in SUBSET Box : S \subseteq R /\ \A b \in R : Edge(b) \subseteq R}
    IN  {b \in Box : \A R \in Closed : b \in R}

\* What marking, begun with S gray, leaves marked
Trace(S) == ReachedFrom(Strong, S)

Accessible == ReachedFrom(Usable, globals)

-----------------------------------------------------------------------------
(* What Lua code does between two collections                              *)

\* Thread::new, which registers the thread with the finalizers
NewThread(t) ==
    /\ stage = "mutate" /\ t \notin boxes
    /\ boxes' = boxes \cup {t}
    /\ globals' = globals \cup {t}
    /\ threads' = threads \cup {t}
    /\ UNCHANGED <<upvalues, on, value, reset, marked, stage>>

\* A thread runs, puts v in a local variable and makes a closure that captures
\* it: LuaRegisters::open_upvalue
NewClosure(c, u, t, v) ==
    /\ stage = "mutate" /\ t \in Accessible \ reset
    /\ {c, u} \cap boxes = {}
    /\ boxes' = boxes \cup {c, u}
    /\ upvalues' = [upvalues EXCEPT ![c] = {u}]
    /\ on' = [on EXCEPT ![u] = t]
    /\ value' = [value EXCEPT ![u] = v]
    /\ globals' = globals \cup {c}
    /\ UNCHANGED <<threads, reset, marked, stage>>

\* A closure assigns its variable: LuaRegisters::set_upvalue, OpenUpValue::set
SetUpvalue(u, v) ==
    /\ stage = "mutate" /\ u \in Accessible
    /\ value' = [value EXCEPT ![u] = v]
    /\ UNCHANGED <<boxes, globals, upvalues, on, threads, reset, marked, stage>>

SetGlobal(v) ==
    /\ stage = "mutate"
    /\ globals' = globals \cup {v}
    /\ UNCHANGED <<boxes, upvalues, on, value, threads, reset, marked, stage>>

ClearGlobal(v) ==
    /\ stage = "mutate" /\ v \in globals
    /\ globals' = globals \ {v}
    /\ UNCHANGED <<boxes, upvalues, on, value, threads, reset, marked, stage>>

\* ThreadState::close_upvalues: the upvalues in U take their values over
ClosedOn(U) == [u \in UpValue |-> IF u \in U THEN Nil ELSE on[u]]

\* A thread leaves the scope of its locals, or returns.
Return(t) ==
    /\ stage = "mutate" /\ t \in Accessible \cap Thread /\ OpenOn(t) # {}
    /\ on' = ClosedOn(OpenOn(t))
    /\ UNCHANGED <<boxes, globals, upvalues, value, threads, reset, marked, stage>>

Mutate ==
    \/ \E t \in Thread : NewThread(t) \/ Return(t)
    \/ \E c \in Closure, u \in UpValue, t \in Thread, v \in (Accessible \cap Value) \cup {Nil} :
          NewClosure(c, u, t, v)
    \/ \E u \in UpValue, v \in (Accessible \cap Value) \cup {Nil} : SetUpvalue(u, v)
    \/ \E v \in Accessible \cap Value : SetGlobal(v)
    \/ \E v \in Value : ClearGlobal(v)

-----------------------------------------------------------------------------
(* The collection sequence of Lua::enter, Lua::gc_collect and               *)
(* Lua::collect_all_preserving_finalizers, none of which lets Lua code run  *)
(* between the end of marking and the sweep.                               *)

\* mark_debt or mark_all completes; floating died while marking was under way.
FinishMark(floating) ==
    /\ stage = "mutate"
    /\ marked' = Trace(globals \cup floating)
    /\ stage' = "marked"
    /\ UNCHANGED <<graphVars, threads, reset>>

IsDead(b) == b \notin marked

\* Finalizers::prepare: resurrect_live_upvalues of every registered thread
prepare ==
    /\ stage = "marked"
    /\ marked' = marked \cup
          UNION {Held(u) : u \in {w \in UpValue : /\ on[w] \in threads /\ IsDead(on[w])
                                                  /\ ~IsDead(w)}}
    /\ stage' = "prepared"
    /\ UNCHANGED <<graphVars, threads, reset>>

\* mark_all traces what prepare made gray.
Remark ==
    /\ stage = "prepared"
    /\ marked' = Trace(marked)
    /\ stage' = "remarked"
    /\ UNCHANGED <<graphVars, threads, reset>>

\* Mutant: dead threads stay registered.
FinalizeKeepsThreads ==
    LET dead == {t \in threads : IsDead(t)} IN
    /\ stage = "remarked"
    /\ on' = ClosedOn(UNION {OpenOn(t) : t \in dead})
    /\ reset' = reset \cup dead
    /\ stage' = "finalized"
    /\ UNCHANGED <<boxes, globals, upvalues, value, threads, marked>>

\* Mutant: dead threads are forgotten with their upvalues still open.
FinalizeLeavesOpen ==
    LET dead == {t \in threads : IsDead(t)} IN
    /\ stage = "remarked"
    /\ threads' = threads \ dead
    /\ reset' = reset \cup dead
    /\ stage' = "finalized"
    /\ UNCHANGED <<graphVars, marked>>

\* Finalizers::finalize: every dead thread is reset, which closes its
\* upvalues, and is no longer registered.
finalize ==
    LET dead == {t \in threads : IsDead(t)} IN
    /\ stage = "remarked"
    /\ on' = ClosedOn(UNION {OpenOn(t) : t \in dead})
    /\ threads' = threads \ dead
    /\ reset' = reset \cup dead
    /\ stage' = "finalized"
    /\ UNCHANGED <<boxes, globals, upvalues, value, marked>>

\* Mutant: the sweep begins with no marking after finalize.
SweepUnmarked ==
    /\ stage = "finalized"
    /\ marked' = {}
    /\ boxes' = boxes \cap marked
    /\ reset' = reset \cap marked
    /\ upvalues' = [c \in Closure |-> IF c \in marked THEN upvalues[c] ELSE {}]
    /\ on' = [u \in UpValue |-> IF u \in marked THEN on[u] ELSE Nil]
    /\ value' = [u \in UpValue |-> IF u \in marked THEN value[u] ELSE Nil]
    /\ stage' = "mutate"
    /\ UNCHANGED <<globals, threads>>

\* mark_all (or collect_all) traces again the upvalues that the write barrier
\* of UpValue::set made gray, and the sweep drops what is unmarked.
Sweep ==
    /\ stage = "finalized"
    /\ marked' = {}
    /\ LET kept == Trace(marked) IN
       /\ boxes' = boxes \cap kept
       /\ reset' = reset \cap kept
       /\ upvalues' = [c \in Closure |-> IF c \in kept THEN upvalues[c] ELSE {}]
       /\ on' = [u \in UpValue |-> IF u \in kept THEN on[u] ELSE Nil]
       /\ value' = [u \in UpValue |-> IF u \in kept THEN value[u] ELSE Nil]
    /\ stage' = "mutate"
    /\ UNCHANGED <<globals, threads>>

Collect ==
    \/ \E floating \in {{}} \cup {{b} : b \in boxes} : FinishMark(floating)
    \/ prepare \/ Remark \/ finalize \/ Sweep

Next == Mutate \/ Collect

Spec == Init /\ [][Next]_vars

-----------------------------------------------------------------------------
(* Properties                                                              *)

TypeOK ==
    /\ boxes \subseteq Box
    /\ globals \subseteq Value
    /\ upvalues \in [Closure -> SUBSET UpValue]
    /\ on \in [UpValue -> Thread \cup {Nil}]
    /\ value \in [UpValue -> Value \cup {Nil}]
    /\ threads \subseteq Thread /\ reset \subseteq Thread
    /\ marked \subseteq Box
    /\ stage \in {"mutate", "marked", "prepared", "remarked", "finalized"}

\* No registered thread is dropped before it is finalized: the upgrades of
\* prepare and finalize never panic with "thread finalization was missed"
\* (finalizers.rs 27, 42).
NoFinalizationMissed == threads \subseteq boxes

\* An open upvalue that Lua code can use is open on a thread that was not
\* dropped: OpenUpValue::get and set never panic with "thread not finalized:
\* upvalues not closed" (thread.rs 246-266).
OpenUpvaluesHaveThreads ==
    stage = "mutate" =>
        \A u \in Accessible \cap UpValue : on[u] # Nil => on[u] \in boxes

\* All that Lua code can still get at survives every collection, also what is
\* only to be reached through the stack of an unreachable thread, however
\* many closures and threads lie in between (weak_threads.rs).
UsableSurvives == stage = "mutate" => Accessible \subseteq boxes

\* finalizers.rs 34-35: "Assuming stage one was called and the arena fully
\* re-marked, this method will *not* cause any resurrection": a thread that
\* finalize resets as dead is then swept, and Lua code never meets it again.
FinalizeResurrectsNothing == stage = "mutate" => reset \cap Accessible = {}

=============================================================================
