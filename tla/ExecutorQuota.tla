--------------------------- MODULE ExecutorQuota ---------------------------
(***************************************************************************)
(* Which iterations of Executor::step look at the memory quota             *)
(* (thread/executor.rs, can_inject), for an executor that the host keeps   *)
(* stepping.                                                               *)
(***************************************************************************)
EXTENDS Executor

VARIABLE
    exempt   \* did the last iteration leave the quota unchecked with no error in flight?

quotaVars == <<vars, exempt>>

\* can_inject is false for the thread t that the iteration ran, although no
\* error unwinds and t still has something to do.
Exempt(t) ==
    /\ ~CanInject(frames'[t])
    /\ Top(frames'[t]) \notin {"Error", "SequenceErr", "none"}

\* The thread that the next iteration of e runs
Runs(e) ==
    LET stack == thread_stack[e] IN
    IF mode(Last(stack)) = "Result" /\ Len(stack) > 1 THEN Last(Front(stack)) ELSE Last(stack)

Steps(e) ==
    /\ step(e)
    /\ exempt' = Exempt(Runs(e))
    /\ shared' = shared \cup Doubled(thread_stack')

\* The host starts the executor and then only steps it.
Starts ==
    /\ \A e \in Executor : thread_stack[e] = <<>>
    /\ \E e \in Executor, t \in Thread, function \in Function : start(e, t, function)
    /\ UNCHANGED <<exempt, shared>>

QuotaSpec ==
    /\ Init /\ exempt = FALSE
    /\ [][Starts \/ \E e \in Executor : Steps(e)]_quotaVars
    /\ \A e \in Executor : WF_quotaVars(Steps(e))

\* memory.rs 40-41: "The executor step loop therefore checks the arena's tracked
\* allocation against the ceiling after every iteration": a script that runs
\* for ever is checked again and again.
QuotaIsChecked == []<>(~exempt \/ \A e \in Executor : thread_stack[e] # <<>> => ExecutorMode(e) # "Normal")

=============================================================================
