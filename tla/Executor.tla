------------------------------ MODULE Executor ------------------------------
(***************************************************************************)
(* Executors, threads and host operations: phodopus/thread/executor.rs,    *)
(* thread/thread.rs and hostop.rs.                                         *)
(*                                                                         *)
(* A thread is a stack of frames; an executor is a stack of threads, each  *)
(* waiting for the one above it.  One iteration of the loop of             *)
(* Executor::step is one action: it may hand the result of a finished      *)
(* thread down, runs the top frame of the top thread once, and may refuse  *)
(* memory.  Fuel may run out after any iteration, so the host, and the     *)
(* other executors of the same Lua, act between any two of them.           *)
(*                                                                         *)
(* What Lua code, callbacks and sequences do is any of the things the      *)
(* executor lets them ask for, and they may ask for any thread.  The       *)
(* values on the stack are left out.  A panic is a frame of its own: the   *)
(* iteration that meets it is completed all the same, where the code       *)
(* unwinds out of step, and its thread is not run again.                   *)
(***************************************************************************)
EXTENDS Naturals, Sequences, SequencesExt

CONSTANTS
    Thread,         \* the threads of one Lua instance
    Executor,       \* its executors
    MaxHandle,      \* bound: handles minted by HostOpHandle::new
    MaxFrames,      \* bound: frames on one thread before a call
    MaxThreads,     \* bound: threads on the stack of one executor
    None            \* no thread

ASSUME ConstantsAssumption ==
    /\ MaxHandle \in Nat /\ MaxFrames \in Nat \ {0} /\ MaxThreads \in Nat \ {0}
    /\ None \notin Thread

Handle == 1 .. MaxHandle
Function == {"Lua", "Callback"}

VARIABLES
    frames,        \* ThreadState.frames
    thread_stack,  \* ExecutorState.thread_stack, empty when there is no executor
    next_handle,   \* HostOpHandle::new's NEXT
    pending,       \* HostOpTable.entries: the thread of each handle, if it has an entry
    dead,          \* the handles whose entry no longer upgrades
    answered,      \* how often the host was told of the end of each operation
    shared         \* history: the threads that were ever at two places on the stacks

vars == <<frames, thread_stack, next_handle, pending, dead, answered, shared>>
hostVars == <<next_handle, pending, dead, answered>>

-----------------------------------------------------------------------------
(* Frames                                                                  *)

\* Frame: a Lua frame with expected_return set is LuaCall, a Sequence with a
\* pending_error is SequenceErr; op is the handle of a HostSuspended frame, or
\* of the one that a panic met.
Kind == {"Lua", "LuaCall", "Sequence", "SequenceErr", "HostSuspended", "Start", "Callback",
         "Yielded", "WaitThread", "Result", "Error", "Panic"}
Frame(kind) == [kind |-> kind, op |-> 0]

HostSuspended(h) == [kind |-> "HostSuspended", op |-> h]

Push(fs, kind) == Append(fs, Frame(kind))
Top(fs) == IF fs = <<>> THEN "none" ELSE Last(fs).kind

\* ThreadState::mode
ModeOf(fs) ==
    CASE Top(fs) = "none" -> "Stopped"
      [] Top(fs) \in {"Lua", "LuaCall", "Callback", "Sequence", "SequenceErr"} -> "Normal"
      [] Top(fs) \in {"HostSuspended", "Start", "Yielded"} -> "Suspended"
      [] Top(fs) = "WaitThread" -> "Waiting"
      [] Top(fs) = "Result" -> "Result"
      [] Top(fs) = "Error" -> IF Len(fs) = 1 THEN "Result" ELSE "Normal"
      [] Top(fs) = "Panic" -> "Running"

mode(t) == ModeOf(frames[t])

\* Mutant: a Lua frame that gets the values it waits for goes on waiting.
ReturnToWaiting(fs) ==
    CASE Top(fs) = "none" -> Push(fs, "Result")
      [] Top(fs) \in {"Sequence", "SequenceErr", "LuaCall"} -> fs
      [] OTHER -> Push(fs, "Panic")

\* ThreadState::return_to
return_to(fs) ==
    CASE Top(fs) = "none" -> Push(fs, "Result")
      [] Top(fs) \in {"Sequence", "SequenceErr"} -> fs
      [] Top(fs) = "LuaCall" -> Push(Front(fs), "Lua")
      [] OTHER -> Push(fs, "Panic")

\* Thread::resume of a thread in the Suspended mode, which runs function if it
\* was not started yet
Resumed(fs, function) ==
    CASE Top(fs) = "Start" -> Push(Front(fs), function)
      [] Top(fs) = "Yielded" -> return_to(Front(fs))
      [] OTHER -> Append(Front(fs), [kind |-> "Panic", op |-> Last(fs).op])

\* The unwinding of an error through the frame below it
Unwound(fs) ==
    LET below == Front(fs) IN
    CASE Top(below) \in {"Lua", "LuaCall"} -> Push(Front(below), "Error")
      [] Top(below) = "Sequence" -> Push(Front(below), "SequenceErr")
      [] OTHER -> Push(below, "Panic")

\* ThreadState::take_result leaves what is under the Result or Error frame.
TookResult(fs) ==
    IF Top(fs) = "Error" /\ Len(fs) > 1 THEN Push(fs, "Panic") ELSE Front(fs)

-----------------------------------------------------------------------------
InStack(t, e) == \E i \in DOMAIN thread_stack[e] : thread_stack[e][i] = t
InSomeStack(t) == \E e \in Executor : InStack(t, e)

\* The threads that executors with the stacks ts have at two places
Doubled(ts) ==
    {t \in Thread : \E e, d \in Executor : \E i \in DOMAIN ts[e], j \in DOMAIN ts[d] :
        <<e, i>> # <<d, j>> /\ ts[e][i] = t /\ ts[d][j] = t}

\* ThreadState::suspended_host_op
Parked(t, h) == frames[t] # <<>> /\ Last(frames[t]) = HostSuspended(h)

\* Executor::mode
ExecutorMode(e) ==
    IF Len(thread_stack[e]) > 1 THEN "Normal"
    ELSE LET t == thread_stack[e][1] IN
         IF Top(frames[t]) = "HostSuspended" THEN "HostSuspended"
         ELSE IF mode(t) = "Waiting" THEN "Normal" ELSE mode(t)

Init ==
    /\ frames = [t \in Thread |-> <<>>]
    /\ thread_stack = [e \in Executor |-> <<>>]
    /\ next_handle = 1
    /\ pending = [h \in Handle |-> None]
    /\ dead = {}
    /\ answered = [h \in Handle |-> 0]
    /\ shared = {}

-----------------------------------------------------------------------------
(* One iteration of the loop of Executor::step                             *)

\* Mutant: an error is injected while one unwinds through a sequence.
CanInjectUnwinding(fs) == Top(fs) \in {"Lua", "LuaCall", "Sequence", "SequenceErr", "Error"}

\* The hard-quota check at the end of the iteration may push an error, but not
\* while one is unwinding and only onto a frame that can be unwound.
CanInject(fs) == Top(fs) \in {"Lua", "LuaCall", "Sequence"}
Settled(fs) == {fs} \cup (IF CanInject(fs) THEN {Push(fs, "Error")} ELSE {})

\* The iteration leaves executor e with the threads stack, of which t, run by
\* this iteration, has the frames fs.
Leave(e, stack, frs, t, fs) ==
    /\ thread_stack' = [thread_stack EXCEPT ![e] = stack]
    /\ \E settled \in Settled(fs) : frames' = [frs EXCEPT ![t] = settled]

\* Thread::resume fails unless the thread is Suspended; the running thread is
\* mutably borrowed, which counts as Running.
CanResume(frs, t, u) == u # t /\ ModeOf(frs[u]) = "Suspended"

\* do_yield of thread t, whose other frames are fs
do_yield(e, stack, frs, t, fs) ==
    \/ /\ Leave(e, stack, frs, t, Push(Push(fs, "Yielded"), "Result"))
    \/ \E u \in Thread, function \in Function :
          /\ CanResume(frs, t, u)
          /\ Leave(e, Append(Front(stack), u),
                   [frs EXCEPT ![u] = Resumed(frs[u], function)], t, Push(fs, "Yielded"))

\* Mutant: the thread does not wait for the one it resumes.
DoResumeNoWait(e, stack, frs, t, fs) ==
    \E u \in Thread, function \in Function :
        /\ CanResume(frs, t, u)
        /\ Len(stack) < MaxThreads
        /\ Leave(e, Append(stack, u), [frs EXCEPT ![u] = Resumed(frs[u], function)], t, fs)

\* do_resume: the wait for the resumed thread is left out in tail position.
do_resume(e, stack, frs, t, fs) ==
    \E u \in Thread, function \in Function :
        /\ CanResume(frs, t, u)
        /\ LET frs2 == [frs EXCEPT ![u] = Resumed(frs[u], function)] IN
           IF fs = <<>> THEN Leave(e, Append(Front(stack), u), frs2, t, fs)
           ELSE /\ Len(stack) < MaxThreads
                /\ Leave(e, Append(stack, u), frs2, t, Push(fs, "WaitThread"))

\* A callback or sequence that is no longer on the stack fs asks for a call, a
\* yield or a resume; then is whether a sequence stays below it, that waits.
AskFor(e, stack, frs, t, fs) ==
    \E then \in BOOLEAN :
        LET base == IF then THEN Push(fs, "Sequence") ELSE fs IN
        \/ \E function \in Function :
              Len(base) < MaxFrames /\ Leave(e, stack, frs, t, Push(base, function))
        \/ do_yield(e, stack, frs, t, base)
        \/ do_resume(e, stack, frs, t, base)
        \* the thread to be resumed or yielded to is not Suspended
        \/ Leave(e, stack, frs, t, Push(base, "Error"))

\* A callback (Callback) or the poll or error method of a sequence (Sequence,
\* SequenceErr) runs: it returns, starts or keeps polling a sequence, fails or
\* asks for something.
RunNative(e, stack, frs, t) ==
    LET fs == Front(frs[t]) IN
    /\ Top(frs[t]) \in {"Callback", "Sequence", "SequenceErr"}
    /\ \/ Leave(e, stack, frs, t, return_to(fs))
       \/ Len(fs) < MaxFrames /\ Leave(e, stack, frs, t, Push(fs, "Sequence"))
       \/ Leave(e, stack, frs, t, Push(fs, "Error"))
       \/ Len(fs) < MaxFrames /\ AskFor(e, stack, frs, t, fs)
    /\ UNCHANGED hostVars

\* coroutine.create: Thread::new and Thread::start_suspended, then return
RunCreate(e, stack, frs, t, u) ==
    /\ Top(frs[t]) = "Callback"
    /\ frs[u] = <<>> /\ ~InSomeStack(u) /\ u \notin {pending[h] : h \in Handle}
    /\ Leave(e, stack, [frs EXCEPT ![u] = Push(<<>>, "Start")], t, return_to(Front(frs[t])))
    /\ UNCHANGED hostVars

\* SequencePoll::Suspend: the sequence is parked under a fresh handle, and
\* HostOpRegistry::register records its thread.
RunSuspend(e, stack, frs, t) ==
    /\ Top(frs[t]) \in {"Sequence", "SequenceErr"}
    /\ next_handle \in Handle
    /\ Leave(e, stack, frs, t, Append(Front(frs[t]), HostSuspended(next_handle)))
    /\ pending' = [pending EXCEPT ![next_handle] = t]
    /\ next_handle' = next_handle + 1
    /\ UNCHANGED <<dead, answered>>

\* run_vm: a Lua frame goes on, calls, tail-calls, returns or fails.
RunLua(e, stack, frs, t) ==
    LET fs == Front(frs[t]) IN
    /\ Top(frs[t]) \in {"Lua", "LuaCall"}
    /\ \/ Leave(e, stack, frs, t, frs[t])
       \/ \E function \in Function :
             \/ /\ Len(frs[t]) < MaxFrames
                /\ Leave(e, stack, frs, t, Push(Push(fs, "LuaCall"), function))
             \/ Leave(e, stack, frs, t, Push(fs, function))
       \/ Leave(e, stack, frs, t, return_to(fs))
       \/ Leave(e, stack, frs, t, Push(frs[t], "Error"))
    /\ UNCHANGED hostVars

RunError(e, stack, frs, t) ==
    /\ Top(frs[t]) = "Error"
    /\ Leave(e, stack, frs, t, Unwound(frs[t]))
    /\ UNCHANGED hostVars

\* The top frame of the top thread of stack, which is in the Normal mode, runs.
RunTop(e, stack, frs) ==
    LET t == Last(stack) IN
    \/ RunNative(e, stack, frs, t) \/ RunSuspend(e, stack, frs, t)
    \/ RunLua(e, stack, frs, t) \/ RunError(e, stack, frs, t)
    \/ \E u \in Thread : RunCreate(e, stack, frs, t, u)

\* The thread below takes the result of the finished top thread.
HandedDown(stack) ==
    LET res == Last(stack)
        t == Last(Front(stack))
        waiting == Front(frames[t])
    IN  [frames EXCEPT
            ![res] = TookResult(@),
            ![t] = IF Top(frames[res]) = "Error" THEN Push(waiting, "Error")
                   ELSE return_to(waiting)]

\* step returns Err(BadThreadMode): a thread of e is not in the mode that the
\* executor left it in.
BadThreadMode(e) ==
    LET stack == thread_stack[e] IN
    /\ stack # <<>>
    /\ IF mode(Last(stack)) = "Result" /\ Len(stack) > 1
       THEN mode(Last(Front(stack))) # "Waiting"
       ELSE \/ mode(Last(stack)) = "Waiting"
            \/ Len(stack) > 1 /\ mode(Last(stack)) \in {"Stopped", "Suspended"}

\* An iteration that fails so has popped the finished thread; any other
\* failing iteration changes nothing.
StepFails(e) ==
    /\ BadThreadMode(e) /\ mode(Last(thread_stack[e])) = "Result"
    /\ thread_stack' = [thread_stack EXCEPT ![e] = Front(@)]
    /\ UNCHANGED <<frames, hostVars>>

StepRuns(e) ==
    /\ thread_stack[e] # <<>> /\ mode(Last(thread_stack[e])) = "Normal"
    /\ RunTop(e, thread_stack[e], frames)

StepHandsDown(e) ==
    LET stack == thread_stack[e]
        frs == HandedDown(stack)
        t == Last(Front(stack))
    IN
    /\ Len(stack) > 1 /\ mode(Last(stack)) = "Result" /\ ~BadThreadMode(e)
    /\ IF ModeOf(frs[t]) = "Normal" THEN RunTop(e, Front(stack), frs)
       ELSE Leave(e, Front(stack), frs, t, frs[t]) /\ UNCHANGED hostVars

step(e) == StepRuns(e) \/ StepHandsDown(e) \/ StepFails(e)

-----------------------------------------------------------------------------
(* The host between two steps                                              *)

\* Executor::start: a new thread that runs function, and an executor for it
start(e, t, function) ==
    /\ thread_stack[e] = <<>> /\ frames[t] = <<>> /\ ~InSomeStack(t)
    /\ t \notin {pending[h] : h \in Handle}
    /\ frames' = [frames EXCEPT ![t] = Push(<<>>, function)]
    /\ thread_stack' = [thread_stack EXCEPT ![e] = <<t>>]
    /\ UNCHANGED hostVars

\* Executor::reset, and Executor::run of a thread that no executor runs
reset(e, t) ==
    /\ ~InSomeStack(t) /\ frames[t] # <<>>
    /\ mode(t) \notin {"Waiting", "Running"}
    /\ thread_stack' = [thread_stack EXCEPT ![e] = <<t>>]
    /\ UNCHANGED <<frames, hostVars>>

OnMain(e, Change(_)) ==
    /\ frames' = [frames EXCEPT ![thread_stack[e][1]] = Change(@)]
    /\ UNCHANGED <<thread_stack, hostVars>>

take_result(e) == ExecutorMode(e) = "Result" /\ OnMain(e, TookResult)

resume(e, function) ==
    ExecutorMode(e) = "Suspended" /\ OnMain(e, LAMBDA fs : Resumed(fs, function))

resume_err(e) ==
    ExecutorMode(e) = "Suspended" /\ OnMain(e, LAMBDA fs : Push(Front(fs), "Error"))

\* Mutant: the entry of an answered operation stays.
RemoveNothing(h) == UNCHANGED pending

\* HostOpRegistry::remove
remove(h) == pending' = [pending EXCEPT ![h] = None]

\* Executor::resume_host_op and cancel_host_op with the handle h: both look for
\* the thread that is parked under h and leave its sequence as kind.
Resolve(e, h, kind) ==
    /\ ExecutorMode(e) = "HostSuspended"
    /\ \E t \in Thread :
          /\ InStack(t, e) /\ Parked(t, h)
          /\ frames' = [frames EXCEPT ![t] = Push(Front(@), kind)]
    /\ remove(h)
    /\ answered' = [answered EXCEPT ![h] = @ + 1]
    /\ UNCHANGED <<thread_stack, next_handle, dead>>

resume_host_op(e, h) == Resolve(e, h, "Sequence")
cancel_host_op(e, h) == Resolve(e, h, "SequenceErr")

\* Mutant: the coroutines above the main thread stay.
StopKeepsStack(e) ==
    /\ thread_stack[e] # <<>>
    /\ frames' = [frames EXCEPT ![thread_stack[e][1]] = <<>>]
    /\ UNCHANGED <<thread_stack, hostVars>>

\* Executor::stop: Thread::reset of the main thread alone
stop(e) ==
    /\ thread_stack[e] # <<>>
    /\ thread_stack' = [thread_stack EXCEPT ![e] = <<Head(@)>>]
    /\ frames' = [frames EXCEPT ![thread_stack[e][1]] = <<>>]
    /\ UNCHANGED hostVars

\* Executor::restart
restart(e, function) ==
    /\ thread_stack[e] # <<>>
    /\ thread_stack' = [thread_stack EXCEPT ![e] = <<Head(@)>>]
    /\ frames' = [frames EXCEPT ![thread_stack[e][1]] = Push(<<>>, function)]
    /\ UNCHANGED hostVars

\* The host drops its StashedExecutor.
DropExecutor(e) ==
    /\ thread_stack[e] # <<>>
    /\ thread_stack' = [thread_stack EXCEPT ![e] = <<>>]
    /\ UNCHANGED <<frames, hostVars>>

\* A thread that no executor runs is unreachable: it is finalized and collected.
CollectThread(t) ==
    /\ ~InSomeStack(t)
    /\ frames[t] # <<>> \/ \E h \in Handle \ dead : pending[h] = t
    /\ frames' = [frames EXCEPT ![t] = <<>>]
    /\ dead' = dead \cup {h \in Handle : pending[h] = t}
    /\ UNCHANGED <<thread_stack, next_handle, pending, answered>>

\* Mutant: the sweep takes every entry, also the ones that still upgrade.
AbandonAll ==
    /\ dead # {}
    /\ pending' = [h \in Handle |-> None]
    /\ answered' = [h \in Handle |-> IF h \in dead THEN answered[h] + 1 ELSE answered[h]]
    /\ dead' = {}
    /\ UNCHANGED <<frames, thread_stack, next_handle>>

\* HostOpRegistry::abandoned_handles
abandoned_handles ==
    /\ dead # {}
    /\ pending' = [h \in Handle |-> IF h \in dead THEN None ELSE pending[h]]
    /\ answered' = [h \in Handle |-> IF h \in dead THEN answered[h] + 1 ELSE answered[h]]
    /\ dead' = {}
    /\ UNCHANGED <<frames, thread_stack, next_handle>>

HostStep ==
    \/ \E e \in Executor, t \in Thread :
          reset(e, t) \/ \E function \in Function : start(e, t, function)
    \/ \E e \in Executor :
          /\ thread_stack[e] # <<>>
          /\ \/ take_result(e) \/ resume_err(e) \/ stop(e) \/ DropExecutor(e)
             \/ \E function \in Function : resume(e, function) \/ restart(e, function)
             \/ \E h \in Handle : resume_host_op(e, h) \/ cancel_host_op(e, h)
    \/ \E t \in Thread : CollectThread(t)
    \/ abandoned_handles

Next ==
    /\ HostStep \/ \E e \in Executor : step(e)
    /\ shared' = shared \cup Doubled(thread_stack')

Spec == Init /\ [][Next]_vars

-----------------------------------------------------------------------------
(* Properties                                                              *)

TypeOK ==
    /\ frames \in [Thread -> Seq([kind : Kind, op : 0 .. MaxHandle])]
    /\ thread_stack \in [Executor -> Seq(Thread)]
    /\ next_handle \in 1 .. MaxHandle + 1
    /\ pending \in [Handle -> Thread \cup {None}]
    /\ dead \subseteq Handle
    /\ answered \in [Handle -> Nat]
    /\ shared \subseteq Thread

\* Where each frame may be, as the comments on enum Frame say it
\* (thread.rs 290-341): all but Lua frames that wait for a call, sequences
\* without an error and a Yielded frame below a Result are on top, and a Start
\* frame is alone.
FrameShape ==
    \A t \in Thread : \A i \in DOMAIN frames[t] :
        /\ i < Len(frames[t]) =>
              \/ frames[t][i].kind \in {"LuaCall", "Sequence"}
              \/ frames[t][i].kind = "Lua" /\ i + 1 = Len(frames[t]) /\ Top(frames[t]) = "Error"
              \/ frames[t][i].kind = "Yielded" /\ i + 1 = Len(frames[t]) /\ Top(frames[t]) = "Result"
        /\ frames[t][i].kind = "LuaCall" => i < Len(frames[t])
        /\ frames[t][i].kind = "Start" => Len(frames[t]) = 1

\* threat-model.md 122-124: the panics "in the executor, thread, ... modules
\* document states that cannot be reached by valid Lua bytecode".  They are in
\* return_to, resume, resume_err, take_result, the unwinding of errors and step
\* (thread.rs 155-176, 444-510, executor.rs 521-581).
NoPanic == \A t \in Thread : Top(frames[t]) # "Panic"

\* Thread::resume of a thread that is parked on a host operation (thread.rs 163)
\* is the only panic or failing assertion about frames that is ever met.
OnlyParkedPanics ==
    \A t \in Thread : Top(frames[t]) = "Panic" => Last(frames[t]).op \in Handle

\* Of the threads of an executor all but the top one wait for the next, whatever
\* scripts, callbacks and the host do, unless another executor or another place
\* of the same stack got hold of the thread (executor.rs 208-215).
OneRunner ==
    \A e \in Executor : \A i \in DOMAIN thread_stack[e] :
        \/ i = Len(thread_stack[e])
        \/ thread_stack[e][i] \in shared
        \/ mode(thread_stack[e][i]) = "Waiting"

\* step returns BadThreadMode (executor.rs 204-218) for two reasons only: a
\* thread above the main one is parked on a host operation, or the top thread or
\* the one that waits for it was driven by two executors.
StepFindsModes ==
    \A e \in Executor : BadThreadMode(e) =>
        LET stack == thread_stack[e] IN
        \/ Len(stack) > 1 /\ Top(frames[Last(stack)]) = "HostSuspended"
        \/ Last(stack) \in shared
        \/ Len(stack) > 1 /\ Last(Front(stack)) \in shared

\* A parked operation that its executor can still run has its entry in the
\* registry and was not answered yet: no answer, cancellation or sweep of
\* abandoned operations ever takes the entry of another one (hostop.rs 225-276,
\* executor.rs 721-853).
ParkedIsPending ==
    \A t \in Thread, h \in Handle :
        Parked(t, h) => pending[h] = t /\ h \notin dead /\ answered[h] = 0

\* The host hears of the end of an operation at most once: a late or repeated
\* answer is refused, and what was answered is never reported as abandoned.
AnsweredOnce == \A h \in Handle : answered[h] <= 1

\* async-trampoline.md 78: while an executor's thread is parked, "`Executor::mode()`
\* reports `ExecutorMode::HostSuspended`", so that the host can answer.
ParkedIsReported ==
    \A e \in Executor : thread_stack[e] # <<>> =>
        (Top(frames[Last(thread_stack[e])]) = "HostSuspended" => ExecutorMode(e) = "HostSuspended")

=============================================================================
