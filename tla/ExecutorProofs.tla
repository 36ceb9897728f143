--------------------------- MODULE ExecutorProofs ---------------------------
(***************************************************************************)
(* Safety of executors, threads and host operations, for any number of     *)
(* threads, executors, frames and handles.                                 *)
(*                                                                         *)
(* The properties of a run are not inductive.  FrameShape does not say     *)
(* what lies under an error or under yielded values, where unwinding and   *)
(* resuming go next: Good does, and every panic but the one of             *)
(* Thread::resume on a parked thread needs a stack that is not Good.       *)
(* AnsweredOnce needs that an operation with an entry was never answered   *)
(* and that handles are not used again (HandleInv).  OneRunner and         *)
(* StepFindsModes need the invariant Alone: a thread at two places of the  *)
(* stacks is in shared, and of the others all but the top of a stack wait. *)
(***************************************************************************)
EXTENDS Executor, SequenceTheorems, TLAPS

FrameRecord == [kind : Kind, op : 0 .. MaxHandle]

\* TypeOK but for the history of the stacks
Typed ==
    /\ frames \in [Thread -> Seq([kind : Kind, op : 0 .. MaxHandle])]
    /\ thread_stack \in [Executor -> Seq(Thread)]
    /\ next_handle \in 1 .. MaxHandle + 1
    /\ pending \in [Handle -> Thread \cup {None}]
    /\ dead \subseteq Handle
    /\ answered \in [Handle -> Nat]

\* The frames below the top of a thread, all of which wait
Below == Seq([kind : {"LuaCall", "Sequence"}, op : 0 .. MaxHandle])

\* A stack of frames as the executor leaves it: a frame over waiting ones, the
\* error of a Lua frame over that frame, or the values that were yielded over
\* the Yielded frame.
OnTop(b, f) ==
    /\ b \in Below /\ f \in FrameRecord
    /\ f.kind # "LuaCall" /\ (f.kind \in {"Start", "Result"} => b = <<>>)
    /\ f.kind \in {"HostSuspended", "Panic"} => f.op \in Handle
Good(fs) ==
    \/ fs = <<>>
    \/ \E b, f : OnTop(b, f) /\ fs = Append(b, f)
    \/ \E b \in Below, f \in FrameRecord :
          \/ f.kind = "Lua" /\ fs = Push(Append(b, f), "Error")
          \/ f.kind = "Yielded" /\ fs = Push(Append(b, f), "Result")

-----------------------------------------------------------------------------
(* Sequences *)

(* Front and Last take apart what Append put together. *)
LEMMA FrontLast ==
  ASSUME NEW S, NEW s \in Seq(S), NEW e \in S
  PROVE  /\ Append(s, e) \in Seq(S) /\ Append(s, e) # <<>> /\ Len(Append(s, e)) = Len(s) + 1
         /\ Front(Append(s, e)) = s /\ Last(Append(s, e)) = e
         /\ \A i \in 1 .. Len(s) : Append(s, e)[i] = s[i]
<1>1. Append(s, e) \in Seq(S) /\ Append(s, e) # <<>> /\ Len(Append(s, e)) = Len(s) + 1
  BY AppendProperties
<1>2. Front(Append(s, e)) = s
  BY DEF Front
<1>3. Last(Append(s, e)) = e
  BY DEF Last
<1>4. \A i \in 1 .. Len(s) : Append(s, e)[i] = s[i]
  OBVIOUS
<1> QED BY <1>1, <1>2, <1>3, <1>4

(* A sequence that is not empty is its Front and its Last. *)
LEMMA FrontAppend ==
  ASSUME NEW S, NEW s \in Seq(S), s # <<>>
  PROVE  /\ Front(s) \in Seq(S) /\ Last(s) \in S /\ s = Append(Front(s), Last(s))
         /\ Len(s) \in Nat /\ Len(s) > 0 /\ Len(Front(s)) = Len(s) - 1 /\ Last(s) = s[Len(s)]
         /\ \A i \in 1 .. Len(s) - 1 : Front(s)[i] = s[i]
<1>1. PICK r \in Seq(S), e \in S : s = Append(r, e)
  BY SequenceEmptyOrAppend
<1>2. Front(s) = r /\ Last(s) = e /\ Len(s) = Len(r) + 1 /\ \A i \in 1 .. Len(r) : s[i] = r[i]
  BY <1>1, FrontLast
<1>3. Len(r) \in Nat
  OBVIOUS
<1> QED BY <1>1, <1>2, <1>3 DEF Last

(* The frames that a thread waits in are frames. *)
LEMMA BelowFrames == Below \subseteq Seq(FrameRecord)
<1>1. [kind : {"LuaCall", "Sequence"}, op : 0 .. MaxHandle] \subseteq FrameRecord
  BY DEF FrameRecord, Kind
<1> QED BY <1>1, SeqMonotonic DEF Below

(* Every frame that the executor pushes but a HostSuspended one has no operation. *)
LEMMA FrameType == ASSUME NEW kind \in Kind PROVE Frame(kind) \in FrameRecord /\ Frame(kind).kind = kind
  BY ConstantsAssumption DEF Frame, FrameRecord

(* What a frame on top of waiting ones looks like. *)
LEMMA TopOf ==
  ASSUME NEW b \in Seq(FrameRecord), NEW f \in FrameRecord
  PROVE  /\ Append(b, f) \in Seq(FrameRecord) /\ Append(b, f) # <<>>
         /\ Top(Append(b, f)) = f.kind /\ Front(Append(b, f)) = b /\ Last(Append(b, f)) = f
         /\ Len(Append(b, f)) = Len(b) + 1
  BY FrontLast DEF Top

-----------------------------------------------------------------------------
(* Frames *)

LEMMA GoodTop ==
  ASSUME NEW fs, Good(fs)
  PROVE  /\ fs \in Seq(FrameRecord) /\ Top(fs) \in Kind \cup {"none"} /\ (Top(fs) = "none" <=> fs = <<>>)
         /\ Top(fs) # "LuaCall"
         /\ Top(fs) \notin {"none", "Error", "Result"} => Front(fs) \in Below
         /\ Top(fs) = "Start" => Front(fs) = <<>>
         /\ Top(fs) \in {"HostSuspended", "Panic"} => Last(fs).op \in Handle
         /\ Top(fs) = "Result" =>
              \/ Front(fs) = <<>>
              \/ \E b \in Below, f \in FrameRecord : f.kind = "Yielded" /\ Front(fs) = Append(b, f)
         /\ Top(fs) = "Error" =>
              \/ Front(fs) \in Below
              \/ \E b \in Below, f \in FrameRecord : f.kind = "Lua" /\ Front(fs) = Append(b, f)
<1>1. CASE fs = <<>>
  BY <1>1 DEF Top
<1>2. CASE \E b, f : OnTop(b, f) /\ fs = Append(b, f)
  <2>1. PICK b, f : OnTop(b, f) /\ fs = Append(b, f)
    BY <1>2
  <2>2. b \in Seq(FrameRecord) /\ b \in Below /\ f \in FrameRecord
    BY <2>1, BelowFrames DEF OnTop
  <2>3. /\ fs \in Seq(FrameRecord) /\ fs # <<>> /\ Top(fs) = f.kind /\ Front(fs) = b /\ Last(fs) = f
    BY <2>1, <2>2, TopOf
  <2>4. f.kind \in Kind /\ f.kind # "none"
    BY <2>2 DEF FrameRecord, Kind
  <2> QED BY <2>1, <2>2, <2>3, <2>4 DEF OnTop
<1>3. ASSUME NEW b \in Below, NEW f \in FrameRecord, NEW kind \in {"Error", "Result"},
             fs = Push(Append(b, f), kind)
      PROVE  fs \in Seq(FrameRecord) /\ fs # <<>> /\ Top(fs) = kind /\ Front(fs) = Append(b, f)
  <2>1. Append(b, f) \in Seq(FrameRecord)
    BY BelowFrames, TopOf
  <2>2. Frame(kind) \in FrameRecord /\ Frame(kind).kind = kind
    BY FrameType DEF Kind
  <2> QED BY <1>3, <2>1, <2>2, TopOf DEF Push
<1>4. CASE \E b \in Below, f \in FrameRecord :
               \/ f.kind = "Lua" /\ fs = Push(Append(b, f), "Error")
               \/ f.kind = "Yielded" /\ fs = Push(Append(b, f), "Result")
  <2>1. PICK b \in Below, f \in FrameRecord :
               \/ f.kind = "Lua" /\ fs = Push(Append(b, f), "Error")
               \/ f.kind = "Yielded" /\ fs = Push(Append(b, f), "Result")
    BY <1>4
  <2>2. CASE f.kind = "Lua" /\ fs = Push(Append(b, f), "Error")
    BY <1>3, <2>2 DEF Kind
  <2>3. CASE f.kind = "Yielded" /\ fs = Push(Append(b, f), "Result")
    BY <1>3, <2>3 DEF Kind
  <2> QED BY <2>1, <2>2, <2>3
<1> QED BY <1>1, <1>2, <1>4 DEF Good

(* The mode of a thread is given by its top frame. *)
LEMMA ModeTop ==
  ASSUME NEW fs, Good(fs)
  PROVE  /\ ModeOf(fs) = "Stopped" <=> Top(fs) = "none"
         /\ ModeOf(fs) = "Suspended" <=> Top(fs) \in {"HostSuspended", "Start", "Yielded"}
         /\ ModeOf(fs) = "Waiting" <=> Top(fs) = "WaitThread"
         /\ ModeOf(fs) = "Running" <=> Top(fs) = "Panic"
         /\ ModeOf(fs) = "Result" <=> Top(fs) = "Result" \/ (Top(fs) = "Error" /\ Len(fs) = 1)
         /\ ModeOf(fs) = "Normal" <=>
               \/ Top(fs) \in {"Lua", "Callback", "Sequence", "SequenceErr"}
               \/ Top(fs) = "Error" /\ Len(fs) # 1
<1>1. Top(fs) \in Kind \cup {"none"} /\ Top(fs) # "LuaCall"
  BY GoodTop
<1> QED BY <1>1 DEF ModeOf, Kind

(* A frame over waiting ones is good, and a waiting one keeps them waiting. *)
LEMMA GoodPush ==
  ASSUME NEW b \in Below, NEW kind \in Kind \ {"LuaCall", "Start", "Result", "HostSuspended", "Panic"}
  PROVE  Good(Push(b, kind)) /\ Top(Push(b, kind)) = kind
<1>1. Frame(kind) \in FrameRecord /\ Frame(kind).kind = kind
  BY FrameType
<1>2. OnTop(b, Frame(kind))
  BY <1>1 DEF OnTop
<1>3. Top(Push(b, kind)) = kind
  BY <1>1, BelowFrames, TopOf DEF Push
<1>4. Good(Append(b, Frame(kind)))
  BY <1>2 DEF Good
<1> QED BY <1>3, <1>4 DEF Push

LEMMA BelowPush ==
  ASSUME NEW b \in Below, NEW kind \in {"LuaCall", "Sequence"}
  PROVE  Push(b, kind) \in Below /\ Push(b, kind) # <<>>
<1>1. Frame(kind) \in [kind : {"LuaCall", "Sequence"}, op : 0 .. MaxHandle]
  BY ConstantsAssumption DEF Frame
<1> QED BY <1>1, FrontLast DEF Below, Push

(* A frame that waits is below the others, or the top of what waits. *)
LEMMA BelowEnds ==
  ASSUME NEW b \in Below, b # <<>>
  PROVE  /\ Front(b) \in Below /\ Top(b) \in {"LuaCall", "Sequence"}
         /\ Top(b) = "Sequence" => Good(b)
<1>1. /\ Front(b) \in Below /\ Last(b) \in [kind : {"LuaCall", "Sequence"}, op : 0 .. MaxHandle]
      /\ b = Append(Front(b), Last(b))
  BY FrontAppend DEF Below
<1>2. Top(b) = Last(b).kind /\ Last(b).kind \in {"LuaCall", "Sequence"}
  BY <1>1 DEF Top
<1>3. Last(b) \in FrameRecord
  BY <1>1 DEF FrameRecord, Kind
<1>4. ASSUME Top(b) = "Sequence" PROVE Good(b)
  BY <1>1, <1>2, <1>3, <1>4 DEF Good, OnTop
<1> QED BY <1>1, <1>2, <1>4

(* A thread with no frames, or one. *)
LEMMA Singles ==
  /\ <<>> \in Below /\ Good(<<>>) /\ Top(<<>>) = "none"
  /\ \A kind \in Kind \ {"LuaCall", "HostSuspended", "Panic"} : Good(Push(<<>>, kind)) /\ Top(Push(<<>>, kind)) = kind
<1>1. <<>> \in Below
  BY DEF Below
<1>2. ASSUME NEW kind \in Kind \ {"LuaCall", "HostSuspended", "Panic"}
      PROVE  Good(Push(<<>>, kind)) /\ Top(Push(<<>>, kind)) = kind
  <2>1. Frame(kind) \in FrameRecord /\ Frame(kind).kind = kind
    BY FrameType
  <2>2. OnTop(<<>>, Frame(kind))
    BY <1>1, <2>1 DEF OnTop
  <2>3. Top(Push(<<>>, kind)) = kind
    BY <1>1, <2>1, BelowFrames, TopOf DEF Push
  <2>4. Good(Append(<<>>, Frame(kind)))
    BY <2>2 DEF Good
  <2> QED BY <2>3, <2>4 DEF Push
<1> QED BY <1>1, <1>2 DEF Good, Top

-----------------------------------------------------------------------------
(* What the operations on a thread do to its frames *)

LEMMA ReturnTo ==
  ASSUME NEW b \in Below
  PROVE  Good(return_to(b)) /\ Top(return_to(b)) \in {"Result", "Sequence", "Lua"}
<1>1. CASE b = <<>>
  <2>1. return_to(b) = Push(<<>>, "Result")
    BY <1>1, Singles DEF return_to
  <2> QED BY <2>1, Singles DEF Kind
<1>2. CASE b # <<>> /\ Top(b) = "Sequence"
  <2>1. return_to(b) = b
    BY <1>2 DEF return_to
  <2> QED BY <1>2, <2>1, BelowEnds
<1>3. CASE b # <<>> /\ Top(b) = "LuaCall"
  <2>1. return_to(b) = Push(Front(b), "Lua") /\ Front(b) \in Below
    BY <1>3, BelowEnds DEF return_to
  <2> QED BY <2>1, GoodPush DEF Kind
<1> QED BY <1>1, <1>2, <1>3, BelowEnds

(* Thread::resume meets a panic only on a parked thread. *)
LEMMA ResumedGood ==
  ASSUME NEW fs, Good(fs), ModeOf(fs) = "Suspended", NEW function \in Function
  PROVE  /\ Good(Resumed(fs, function))
         /\ Top(Resumed(fs, function)) \in {"Result", "Sequence", "Lua", "Callback", "Panic"}
         /\ Top(fs) # "HostSuspended" => Top(Resumed(fs, function)) # "Panic"
<1>1. Top(fs) \in {"HostSuspended", "Start", "Yielded"}
  BY ModeTop
<1>2. Front(fs) \in Below /\ (Top(fs) = "Start" => Front(fs) = <<>>)
  BY <1>1, GoodTop
<1>3. CASE Top(fs) = "Start"
  <2>1. Resumed(fs, function) = Push(<<>>, function)
    BY <1>2, <1>3 DEF Resumed
  <2> QED BY <2>1, Singles DEF Function, Kind
<1>4. CASE Top(fs) = "Yielded"
  <2>1. Resumed(fs, function) = return_to(Front(fs))
    BY <1>4 DEF Resumed
  <2> QED BY <1>2, <2>1, ReturnTo
<1>5. CASE Top(fs) = "HostSuspended"
  <2> DEFINE f == [kind |-> "Panic", op |-> Last(fs).op]
  <2>1. Resumed(fs, function) = Append(Front(fs), f)
    BY <1>5 DEF Resumed
  <2>2. Last(fs).op \in Handle
    BY <1>5, GoodTop
  <2>3. f \in FrameRecord /\ f.kind = "Panic" /\ f.op \in Handle
    BY <2>2, ConstantsAssumption DEF FrameRecord, Kind, Handle
  <2> HIDE DEF f
  <2>4. OnTop(Front(fs), f)
    BY <1>2, <2>3 DEF OnTop
  <2>5. Good(Append(Front(fs), f))
    BY <2>4 DEF Good
  <2>6. Top(Append(Front(fs), f)) = "Panic"
    BY <1>2, <2>3, BelowFrames, TopOf
  <2> QED BY <1>5, <2>1, <2>5, <2>6
<1> QED BY <1>1, <1>3, <1>4, <1>5

(* An error that has a frame to unwind finds one that can be unwound. *)
LEMMA UnwoundGood ==
  ASSUME NEW fs, Good(fs), Top(fs) = "Error", Len(fs) # 1
  PROVE  Good(Unwound(fs)) /\ Top(Unwound(fs)) \in {"Error", "SequenceErr"}
<1>1. fs \in Seq(FrameRecord) /\ fs # <<>>
  BY GoodTop
<1>2. Front(fs) # <<>>
  <2>1. Len(fs) \in Nat /\ Len(Front(fs)) = Len(fs) - 1 /\ Len(fs) > 0
    BY <1>1, FrontAppend
  <2>2. Len(Front(fs)) # 0
    BY <2>1
  <2> QED BY <2>2
<1>3. CASE Front(fs) \in Below
  <2>1. Front(Front(fs)) \in Below /\ Top(Front(fs)) \in {"LuaCall", "Sequence"}
    BY <1>2, <1>3, BelowEnds
  <2>2. Unwound(fs) = Push(Front(Front(fs)), IF Top(Front(fs)) = "LuaCall" THEN "Error" ELSE "SequenceErr")
    BY <2>1 DEF Unwound
  <2> QED BY <2>1, <2>2, GoodPush DEF Kind
<1>4. CASE \E b \in Below, f \in FrameRecord : f.kind = "Lua" /\ Front(fs) = Append(b, f)
  <2>1. PICK b \in Below, f \in FrameRecord : f.kind = "Lua" /\ Front(fs) = Append(b, f)
    BY <1>4
  <2>2. Top(Front(fs)) = "Lua" /\ Front(Front(fs)) = b
    BY <2>1, BelowFrames, TopOf
  <2>3. Unwound(fs) = Push(b, "Error")
    BY <2>2 DEF Unwound
  <2> QED BY <2>3, GoodPush DEF Kind
<1> QED BY <1>3, <1>4, GoodTop

(* A result that is taken leaves a thread that is stopped or has yielded. *)
LEMMA TookResultGood ==
  ASSUME NEW fs, Good(fs), ModeOf(fs) = "Result"
  PROVE  Good(TookResult(fs)) /\ Top(TookResult(fs)) \in {"none", "Yielded"}
<1>1. fs \in Seq(FrameRecord) /\ fs # <<>>
  BY GoodTop, ModeTop
<1>2. TookResult(fs) = Front(fs)
  <2>1. ASSUME Top(fs) = "Error" PROVE ~(Len(fs) > 1)
    <3>1. Len(fs) = 1
      BY <2>1, ModeTop
    <3> QED BY <3>1
  <2>2. ~(Top(fs) = "Error" /\ Len(fs) > 1)
    BY <2>1, Zenon
  <2> QED BY <2>2 DEF TookResult
<1>3. CASE Front(fs) = <<>>
  BY <1>2, <1>3, Singles
<1>4. CASE \E b \in Below, f \in FrameRecord : f.kind = "Yielded" /\ Front(fs) = Append(b, f)
  <2>1. PICK b \in Below, f \in FrameRecord : f.kind = "Yielded" /\ Front(fs) = Append(b, f)
    BY <1>4
  <2>2. OnTop(b, f)
    BY <2>1 DEF OnTop
  <2>3. Good(Append(b, f))
    BY <2>2 DEF Good
  <2>4. Top(Append(b, f)) = "Yielded"
    BY <2>1, BelowFrames, TopOf
  <2> QED BY <1>2, <2>1, <2>3, <2>4
<1>5. CASE Top(fs) = "Error"
  <2>1. Front(fs) = <<>>
    <3>1. Len(fs) = 1
      BY <1>5, ModeTop
    <3>2. Front(fs) \in Seq(FrameRecord) /\ Len(Front(fs)) = 0
      BY <1>1, <3>1, FrontAppend
    <3> QED BY <3>2, EmptySeq
  <2> QED BY <1>3, <2>1
<1> QED BY <1>3, <1>4, <1>5, GoodTop, ModeTop

(* The quota test adds an error only over a Lua frame or a sequence. *)
LEMMA SettledGood ==
  ASSUME NEW fs, Good(fs), NEW settled \in Settled(fs)
  PROVE  /\ Good(settled)
         /\ settled = fs \/ (Top(fs) \in {"Lua", "Sequence"} /\ Top(settled) = "Error")
<1>1. CASE settled = fs
  BY <1>1
<1>2. CASE settled # fs
  <2>1. settled = Push(fs, "Error") /\ Top(fs) \in {"Lua", "Sequence"}
    BY <1>2, GoodTop DEF Settled, CanInject
  <2>2. fs \in Seq(FrameRecord) /\ fs # <<>> /\ Front(fs) \in Below
    BY <2>1, GoodTop
  <2>3. fs = Append(Front(fs), Last(fs)) /\ Last(fs) \in FrameRecord /\ Top(fs) = Last(fs).kind
    BY <2>2, FrontAppend DEF Top
  <2>4. Frame("Error") \in FrameRecord /\ Frame("Error").kind = "Error"
    BY FrameType DEF Kind
  <2>5. Top(settled) = "Error"
    BY <2>1, <2>2, <2>4, TopOf DEF Push
  <2>6. CASE Top(fs) = "Lua"
    BY <2>1, <2>2, <2>3, <2>5, <2>6 DEF Good
  <2>7. CASE Top(fs) = "Sequence"
    <3>1. Last(fs) \in [kind : {"LuaCall", "Sequence"}, op : 0 .. MaxHandle]
      <4>1. Last(fs).kind = "Sequence" /\ Last(fs) \in [kind : Kind, op : 0 .. MaxHandle]
        BY <2>3, <2>7 DEF FrameRecord
      <4> QED BY <4>1
    <3>2. Append(Front(fs), Last(fs)) \in Below
      BY <2>2, <3>1, AppendProperties DEF Below
    <3>3. fs \in Below
      BY <2>3, <3>2
    <3> QED BY <2>1, <2>5, <3>3, GoodPush DEF Kind
  <2> QED BY <2>1, <2>5, <2>6, <2>7
<1> QED BY <1>1, <1>2

-----------------------------------------------------------------------------
(* What one iteration of step does: thread t, the top of stack, stays there, *)
(* makes room for u, waits for u, creates u or parks. *)

\* What a thread may be left as when it has run, or is about to run
Ran(fs) ==
    /\ Good(fs)
    /\ Top(fs) \in {"Lua", "Callback", "Sequence", "SequenceErr", "Error", "Result", "Panic"}

SetStack(e, stack) == thread_stack' = [thread_stack EXCEPT ![e] = stack]

Stays(e, stack, frs, t) ==
    /\ SetStack(e, stack)
    /\ \E fs : Ran(fs) /\ frames' = [frs EXCEPT ![t] = fs]

Switches(e, stack, frs, t, u) ==
    /\ CanResume(frs, t, u)
    /\ SetStack(e, Append(Front(stack), u))
    /\ \E gs, fs : /\ Ran(gs) /\ Good(fs) /\ Top(fs) \in {"none", "Yielded"}
                   /\ frames' = [[frs EXCEPT ![u] = gs] EXCEPT ![t] = fs]

Waits(e, stack, frs, t, u) ==
    /\ CanResume(frs, t, u)
    /\ SetStack(e, Append(stack, u))
    /\ \E gs, fs : /\ Ran(gs) /\ Good(fs) /\ Top(fs) = "WaitThread"
                   /\ frames' = [[frs EXCEPT ![u] = gs] EXCEPT ![t] = fs]

Creates(e, stack, frs, t, u) ==
    /\ frs[u] = <<>> /\ ~InSomeStack(u) /\ u # t
    /\ SetStack(e, stack)
    /\ \E fs : Ran(fs) /\ frames' = [[frs EXCEPT ![u] = Push(<<>>, "Start")] EXCEPT ![t] = fs]

Parks(e, stack, frs, t) ==
    /\ next_handle \in Handle
    /\ SetStack(e, stack)
    /\ \E fs : /\ Good(fs) /\ fs # <<>> /\ Last(fs) = HostSuspended(next_handle)
              /\ frames' = [frs EXCEPT ![t] = fs]
    /\ pending' = [pending EXCEPT ![next_handle] = t]
    /\ next_handle' = next_handle + 1
    /\ UNCHANGED <<dead, answered>>

RunEffect(e, stack, frs, t) ==
    \/ /\ UNCHANGED hostVars
       /\ \/ Stays(e, stack, frs, t)
          \/ \E u \in Thread : \/ Switches(e, stack, frs, t, u) \/ Waits(e, stack, frs, t, u)
                               \/ Creates(e, stack, frs, t, u)
    \/ Parks(e, stack, frs, t)

(* Before an iteration every thread is well formed, the one to be run is in the *)
(* Normal mode, and a result that was handed down has parked nobody. *)
Ready(stack, frs, t) ==
    /\ \A u \in Thread : Good(frs[u]) /\ (Top(frs[u]) = "HostSuspended" => Top(frames[u]) = "HostSuspended")
    /\ t \in Thread /\ ModeOf(frs[t]) = "Normal"

LEMMA LeaveStays ==
  ASSUME NEW e, NEW stack, NEW frs, NEW t, NEW fs, Ran(fs), Leave(e, stack, frs, t, fs)
  PROVE  Stays(e, stack, frs, t)
<1>1. PICK settled \in Settled(fs) : frames' = [frs EXCEPT ![t] = settled]
  BY DEF Leave
<1>2. Ran(settled)
  BY SettledGood DEF Ran
<1> QED BY <1>1, <1>2 DEF Stays, SetStack, Leave

(* The quota test adds nothing to any other frame. *)
LEMMA SettledExact ==
  ASSUME NEW fs, Good(fs), Top(fs) \notin {"Lua", "Sequence"}
  PROVE  Settled(fs) = {fs}
<1>1. fs \in Settled(fs)
  BY DEF Settled
<1> QED BY <1>1, SettledGood

(* A thread that Lua code may resume is left ready to run. *)
LEMMA ResumedRan ==
  ASSUME NEW stack, NEW frs, NEW t, Ready(stack, frs, t), NEW u \in Thread, NEW function \in Function,
         CanResume(frs, t, u)
  PROVE  Ran(Resumed(frs[u], function))
<1>1. Good(frs[u]) /\ ModeOf(frs[u]) = "Suspended"
  BY DEF Ready, CanResume
<1> QED BY <1>1, ResumedGood DEF Ran

LEMMA YieldEffect ==
  ASSUME NEW e, NEW stack, NEW frs, NEW t, Ready(stack, frs, t), NEW b \in Below,
         do_yield(e, stack, frs, t, b)
  PROVE  Stays(e, stack, frs, t) \/ \E u \in Thread : Switches(e, stack, frs, t, u)
<1>1. CASE Leave(e, stack, frs, t, Push(Push(b, "Yielded"), "Result"))
  <2>1. Frame("Yielded") \in FrameRecord /\ Frame("Yielded").kind = "Yielded"
    BY FrameType DEF Kind
  <2>2. Frame("Result") \in FrameRecord /\ Frame("Result").kind = "Result"
    BY FrameType DEF Kind
  <2>3. Good(Push(Push(b, "Yielded"), "Result"))
    BY <2>1 DEF Good, Push
  <2>4. Push(b, "Yielded") \in Seq(FrameRecord)
    BY <2>1, BelowFrames, TopOf DEF Push
  <2>5. Top(Push(Push(b, "Yielded"), "Result")) = "Result"
    BY <2>2, <2>4, TopOf DEF Push
  <2>6. Ran(Push(Push(b, "Yielded"), "Result"))
    BY <2>3, <2>5 DEF Ran
  <2> QED BY <1>1, <2>6, LeaveStays
<1>2. ASSUME NEW u \in Thread, NEW function \in Function, CanResume(frs, t, u),
             Leave(e, Append(Front(stack), u), [frs EXCEPT ![u] = Resumed(frs[u], function)], t, Push(b, "Yielded"))
      PROVE  Switches(e, stack, frs, t, u)
  <2>1. Good(Push(b, "Yielded")) /\ Top(Push(b, "Yielded")) = "Yielded"
    BY GoodPush DEF Kind
  <2>2. /\ SetStack(e, Append(Front(stack), u))
        /\ frames' = [[frs EXCEPT ![u] = Resumed(frs[u], function)] EXCEPT ![t] = Push(b, "Yielded")]
    <3>1. Settled(Push(b, "Yielded")) = {Push(b, "Yielded")}
      BY <2>1, SettledExact
    <3> QED BY <1>2, <3>1 DEF Leave, SetStack
  <2>3. Ran(Resumed(frs[u], function))
    BY <1>2, ResumedRan
  <2> QED BY <1>2, <2>1, <2>2, <2>3 DEF Switches
<1> QED BY <1>1, <1>2 DEF do_yield

LEMMA ResumeEffect ==
  ASSUME NEW e, NEW stack, NEW frs, NEW t, Ready(stack, frs, t), NEW b \in Below,
         do_resume(e, stack, frs, t, b)
  PROVE  \E u \in Thread : Switches(e, stack, frs, t, u) \/ Waits(e, stack, frs, t, u)
<1>1. PICK u \in Thread, function \in Function :
        /\ CanResume(frs, t, u)
        /\ LET frs2 == [frs EXCEPT ![u] = Resumed(frs[u], function)] IN
           IF b = <<>> THEN Leave(e, Append(Front(stack), u), frs2, t, b)
           ELSE Leave(e, Append(stack, u), frs2, t, Push(b, "WaitThread"))
  BY DEF do_resume
<1>2. Ran(Resumed(frs[u], function))
  BY <1>1, ResumedRan
<1>3. CASE b = <<>>
  <2>1. Good(b) /\ Top(b) = "none"
    BY <1>3, Singles
  <2>2. /\ SetStack(e, Append(Front(stack), u))
        /\ frames' = [[frs EXCEPT ![u] = Resumed(frs[u], function)] EXCEPT ![t] = b]
    <3>1. Settled(b) = {b}
      BY <2>1, SettledExact
    <3> QED BY <1>1, <1>3, <3>1 DEF Leave, SetStack
  <2> QED BY <1>1, <1>2, <2>1, <2>2 DEF Switches
<1>4. CASE b # <<>>
  <2>1. Good(Push(b, "WaitThread")) /\ Top(Push(b, "WaitThread")) = "WaitThread"
    BY GoodPush DEF Kind
  <2>2. /\ SetStack(e, Append(stack, u))
        /\ frames' = [[frs EXCEPT ![u] = Resumed(frs[u], function)] EXCEPT ![t] = Push(b, "WaitThread")]
    <3>1. Settled(Push(b, "WaitThread")) = {Push(b, "WaitThread")}
      BY <2>1, SettledExact
    <3> QED BY <1>1, <1>4, <3>1 DEF Leave, SetStack
  <2> QED BY <1>1, <1>2, <2>1, <2>2 DEF Waits
<1> QED BY <1>3, <1>4

(* A callback or a sequence *)
LEMMA NativeEffect ==
  ASSUME NEW e, NEW stack, NEW frs, NEW t, Ready(stack, frs, t), RunNative(e, stack, frs, t)
  PROVE  RunEffect(e, stack, frs, t)
<1> DEFINE fs == Front(frs[t])
<1>1. fs \in Below /\ UNCHANGED hostVars
  BY GoodTop DEF RunNative, Ready
<1> HIDE DEF fs
<1>2. \A kind \in {"Sequence", "Error", "Lua", "Callback"}, b \in Below : Ran(Push(b, kind))
  BY GoodPush DEF Ran, Kind
<1>3. Ran(return_to(fs))
  BY <1>1, ReturnTo DEF Ran
<1>4. ASSUME AskFor(e, stack, frs, t, fs) PROVE RunEffect(e, stack, frs, t)
  <2>1. PICK then \in BOOLEAN :
          LET base == IF then THEN Push(fs, "Sequence") ELSE fs IN
          \/ \E function \in Function : Leave(e, stack, frs, t, Push(base, function))
          \/ do_yield(e, stack, frs, t, base)
          \/ do_resume(e, stack, frs, t, base)
          \/ Leave(e, stack, frs, t, Push(base, "Error"))
    BY <1>4 DEF AskFor
  <2> DEFINE base == IF then THEN Push(fs, "Sequence") ELSE fs
  <2>2. base \in Below
    BY <1>1, BelowPush
  <2>3. \/ \E function \in Function : Leave(e, stack, frs, t, Push(base, function))
        \/ do_yield(e, stack, frs, t, base)
        \/ do_resume(e, stack, frs, t, base)
        \/ Leave(e, stack, frs, t, Push(base, "Error"))
    BY <2>1
  <2> HIDE DEF base
  <2>4. CASE \E function \in Function : Leave(e, stack, frs, t, Push(base, function))
    BY <1>1, <1>2, <2>2, <2>4, LeaveStays DEF RunEffect, Function
  <2>5. CASE do_yield(e, stack, frs, t, base)
    BY <1>1, <2>2, <2>5, YieldEffect DEF RunEffect
  <2>6. CASE do_resume(e, stack, frs, t, base)
    BY <1>1, <2>2, <2>6, ResumeEffect DEF RunEffect
  <2>7. CASE Leave(e, stack, frs, t, Push(base, "Error"))
    BY <1>1, <1>2, <2>2, <2>7, LeaveStays DEF RunEffect
  <2> QED BY <2>3, <2>4, <2>5, <2>6, <2>7
<1>5. \/ Leave(e, stack, frs, t, return_to(fs)) \/ Leave(e, stack, frs, t, Push(fs, "Sequence"))
      \/ Leave(e, stack, frs, t, Push(fs, "Error")) \/ AskFor(e, stack, frs, t, fs)
  BY DEF RunNative, fs
<1> QED BY <1>1, <1>2, <1>3, <1>4, <1>5, LeaveStays DEF RunEffect

(* A Lua frame *)
LEMMA LuaEffect ==
  ASSUME NEW e, NEW stack, NEW frs, NEW t, Ready(stack, frs, t), RunLua(e, stack, frs, t)
  PROVE  RunEffect(e, stack, frs, t)
<1> DEFINE fs == Front(frs[t])
<1>1. /\ fs \in Below /\ UNCHANGED hostVars /\ Good(frs[t]) /\ Top(frs[t]) = "Lua"
  BY GoodTop DEF RunLua, Ready
<1>2. \/ Leave(e, stack, frs, t, frs[t])
      \/ \E function \in Function :
             \/ Leave(e, stack, frs, t, Push(Push(fs, "LuaCall"), function))
             \/ Leave(e, stack, frs, t, Push(fs, function))
      \/ Leave(e, stack, frs, t, return_to(fs))
      \/ Leave(e, stack, frs, t, Push(frs[t], "Error"))
  BY DEF RunLua
<1>3. Push(frs[t], "Error") \in Settled(frs[t])
  BY <1>1 DEF Settled, CanInject
<1>4. Good(Push(frs[t], "Error")) /\ Top(Push(frs[t], "Error")) = "Error"
  <2>1. frs[t] \in Seq(FrameRecord)
    BY <1>1, GoodTop
  <2>2. Frame("Error") \in FrameRecord /\ Frame("Error").kind = "Error"
    BY FrameType DEF Kind
  <2>3. Top(Push(frs[t], "Error")) = "Error"
    BY <2>1, <2>2, TopOf DEF Push
  <2> QED BY <1>1, <1>3, <2>3, SettledGood
<1> HIDE DEF fs
<1>5. Ran(frs[t]) /\ Ran(Push(frs[t], "Error")) /\ Ran(return_to(fs))
  BY <1>1, <1>4, ReturnTo DEF Ran
<1>6. \A function \in Function, b \in Below : Ran(Push(b, function))
  BY GoodPush DEF Ran, Kind, Function
<1>7. Push(fs, "LuaCall") \in Below
  BY <1>1, BelowPush
<1> QED BY <1>1, <1>2, <1>5, <1>6, <1>7, LeaveStays DEF RunEffect

(* The other iterations, and all of them *)
LEMMA RunTopEffect ==
  ASSUME NEW e, NEW stack, NEW frs, Ready(stack, frs, Last(stack)), RunTop(e, stack, frs)
  PROVE  RunEffect(e, stack, frs, Last(stack))
<1> DEFINE t == Last(stack)
<1>1. Good(frs[t]) /\ ModeOf(frs[t]) = "Normal" /\ Ready(stack, frs, t)
  BY DEF Ready
<1>2. \/ RunNative(e, stack, frs, t) \/ RunSuspend(e, stack, frs, t)
      \/ RunLua(e, stack, frs, t) \/ RunError(e, stack, frs, t)
      \/ \E u \in Thread : RunCreate(e, stack, frs, t, u)
  BY DEF RunTop
<1> HIDE DEF t
<1>3. CASE RunSuspend(e, stack, frs, t)
  <2> DEFINE b == Front(frs[t])
             fs == Append(b, HostSuspended(next_handle))
  <2>1. b \in Below /\ next_handle \in Handle /\ Leave(e, stack, frs, t, fs)
    BY <1>1, <1>3, GoodTop DEF RunSuspend
  <2>2. HostSuspended(next_handle) \in FrameRecord /\ HostSuspended(next_handle).kind = "HostSuspended"
    BY <2>1, ConstantsAssumption DEF HostSuspended, FrameRecord, Kind, Handle
  <2> HIDE DEF b
  <2>3. fs # <<>> /\ Last(fs) = HostSuspended(next_handle) /\ Top(fs) = "HostSuspended"
    BY <2>1, <2>2, BelowFrames, TopOf
  <2>4. Good(fs)
    <3>1. HostSuspended(next_handle).op = next_handle
      BY DEF HostSuspended
    <3>2. OnTop(b, HostSuspended(next_handle))
      BY <2>1, <2>2, <3>1 DEF OnTop
    <3> QED BY <3>2 DEF Good
  <2> HIDE DEF fs
  <2>5. SetStack(e, stack) /\ frames' = [frs EXCEPT ![t] = fs]
    BY <2>1, <2>3, <2>4, SettledExact DEF Leave, SetStack
  <2>6. Parks(e, stack, frs, t)
    BY <1>3, <2>1, <2>3, <2>4, <2>5 DEF Parks, RunSuspend
  <2> QED BY <2>6 DEF RunEffect, t
<1>4. CASE RunError(e, stack, frs, t)
  <2>1. Top(frs[t]) = "Error" /\ Len(frs[t]) # 1
    BY <1>1, <1>4, ModeTop DEF RunError
  <2>2. Ran(Unwound(frs[t]))
    BY <1>1, <2>1, UnwoundGood DEF Ran
  <2> QED BY <1>4, <2>2, LeaveStays DEF RunError, RunEffect, t
<1>5. ASSUME NEW u \in Thread, RunCreate(e, stack, frs, t, u) PROVE RunEffect(e, stack, frs, t)
  <2>1. frs[u] = <<>> /\ u # t /\ Front(frs[t]) \in Below
    BY <1>1, <1>5, GoodTop, Singles DEF RunCreate
  <2>2. Ran(return_to(Front(frs[t])))
    BY <2>1, ReturnTo DEF Ran
  <2>3. PICK settled \in Settled(return_to(Front(frs[t]))) :
          frames' = [[frs EXCEPT ![u] = Push(<<>>, "Start")] EXCEPT ![t] = settled]
    BY <1>5 DEF RunCreate, Leave
  <2>4. Ran(settled)
    BY <2>2, SettledGood DEF Ran
  <2>5. Creates(e, stack, frs, t, u)
    BY <1>5, <2>1, <2>3, <2>4 DEF Creates, RunCreate, Leave, SetStack
  <2> QED BY <1>5, <2>5 DEF RunEffect, RunCreate
<1> QED BY <1>1, <1>2, <1>3, <1>4, <1>5, NativeEffect, LuaEffect DEF t

-----------------------------------------------------------------------------
(* The invariant of frames and host operations, whoever resumes and parks what *)

\* Frames frs that are well formed and in which nobody parked since frames
Calm(frs) ==
    /\ frs \in [Thread -> Seq(FrameRecord)]
    /\ \A t \in Thread : Good(frs[t]) /\ (frs[t] = frames[t] \/ Top(frs[t]) # "HostSuspended")

\* Handles are handed out in order, an entry that no longer upgrades is still
\* there, and an operation with an entry was not answered.
HandleInv ==
    \A h \in Handle :
        /\ h >= next_handle => pending[h] = None /\ answered[h] = 0
        /\ h \in dead => pending[h] # None
        /\ pending[h] # None => answered[h] = 0
        /\ answered[h] <= 1

IInv ==
    /\ Typed /\ \A t \in Thread : Good(frames[t])
    /\ HandleInv /\ ParkedIsPending

(* Changes of frames that park nobody keep the operations as they are. *)
LEMMA CalmHandles ==
  ASSUME IInv, Calm(frames'), UNCHANGED hostVars
  PROVE  HandleInv' /\ ParkedIsPending'
<1>1. HandleInv'
  BY DEF IInv, HandleInv, hostVars
<1>2. ASSUME NEW t \in Thread, NEW h \in Handle, Parked(t, h)' PROVE Parked(t, h)
  <2>1. Top(frames'[t]) = "HostSuspended"
    BY <1>2 DEF Parked, Top, HostSuspended
  <2>2. frames'[t] = frames[t]
    BY <2>1 DEF Calm
  <2> QED BY <1>2, <2>2 DEF Parked
<1>3. ParkedIsPending'
  BY <1>2 DEF IInv, ParkedIsPending, hostVars
<1> QED BY <1>1, <1>3

(* They keep the whole invariant. *)
LEMMA CalmPreserves ==
  ASSUME IInv, Calm(frames'), UNCHANGED hostVars, thread_stack' \in [Executor -> Seq(Thread)]
  PROVE  IInv'
<1>1. Typed'
  BY DEF IInv, Typed, Calm, FrameRecord, hostVars
<1> QED BY <1>1, CalmHandles DEF IInv, Calm

(* The frames of one thread change. *)
LEMMA CalmExcept ==
  ASSUME NEW frs, Calm(frs), NEW t \in Thread, NEW fs, Good(fs), Top(fs) # "HostSuspended"
  PROVE  Calm([frs EXCEPT ![t] = fs])
<1>1. fs \in Seq(FrameRecord)
  BY GoodTop
<1> QED BY <1>1 DEF Calm

LEMMA CalmFrames == ASSUME IInv PROVE Calm(frames)
  BY DEF IInv, Typed, Calm, FrameRecord

LEMMA RanTop == ASSUME NEW fs, Ran(fs) PROVE Good(fs) /\ Top(fs) # "HostSuspended"
  BY DEF Ran

(* An iteration that parks nobody is calm. *)
LEMMA EffectCalm ==
  ASSUME NEW e, NEW stack, NEW frs, NEW t \in Thread, Calm(frs),
         \/ Stays(e, stack, frs, t)
         \/ \E u \in Thread : \/ Switches(e, stack, frs, t, u) \/ Waits(e, stack, frs, t, u)
                              \/ Creates(e, stack, frs, t, u)
  PROVE  Calm(frames')
<1>1. CASE Stays(e, stack, frs, t)
  <2>1. PICK fs : Ran(fs) /\ frames' = [frs EXCEPT ![t] = fs]
    BY <1>1 DEF Stays
  <2>2. Calm([frs EXCEPT ![t] = fs])
    BY <2>1, CalmExcept, RanTop
  <2> QED BY <2>1, <2>2, Zenon
<1>2. ASSUME NEW u \in Thread, NEW gs, NEW fs, Good(gs), Good(fs), Top(gs) # "HostSuspended",
             Top(fs) # "HostSuspended", frames' = [[frs EXCEPT ![u] = gs] EXCEPT ![t] = fs]
      PROVE  Calm(frames')
  <2>1. Calm([frs EXCEPT ![u] = gs])
    BY <1>2, CalmExcept
  <2> DEFINE frs2 == [frs EXCEPT ![u] = gs]
  <2>2. Calm(frs2) /\ frames' = [frs2 EXCEPT ![t] = fs]
    BY <1>2, <2>1
  <2> HIDE DEF frs2
  <2>3. Calm([frs2 EXCEPT ![t] = fs])
    BY <1>2, <2>2, CalmExcept
  <2> QED BY <2>2, <2>3, Zenon
<1>3. ASSUME NEW u \in Thread, Switches(e, stack, frs, t, u) \/ Waits(e, stack, frs, t, u)
      PROVE  Calm(frames')
  <2>1. PICK gs, fs : /\ Ran(gs) /\ Good(fs) /\ Top(fs) # "HostSuspended"
                      /\ frames' = [[frs EXCEPT ![u] = gs] EXCEPT ![t] = fs]
    BY <1>3 DEF Switches, Waits
  <2> QED BY <1>2, <2>1, RanTop
<1>4. ASSUME NEW u \in Thread, Creates(e, stack, frs, t, u) PROVE Calm(frames')
  <2>1. PICK fs : Ran(fs) /\ frames' = [[frs EXCEPT ![u] = Push(<<>>, "Start")] EXCEPT ![t] = fs]
    BY <1>4 DEF Creates
  <2>2. Good(Push(<<>>, "Start")) /\ Top(Push(<<>>, "Start")) # "HostSuspended"
    BY Singles DEF Kind
  <2> QED BY <1>2, <2>1, <2>2, RanTop
<1> QED BY <1>1, <1>3, <1>4

(* The stack of the executor after an iteration is a stack of threads. *)
LEMMA EffectStack ==
  ASSUME IInv, NEW e \in Executor, NEW stack \in Seq(Thread), stack # <<>>, NEW frs, NEW t,
         RunEffect(e, stack, frs, t)
  PROVE  thread_stack' \in [Executor -> Seq(Thread)]
<1>1. \A u \in Thread : Append(stack, u) \in Seq(Thread) /\ Append(Front(stack), u) \in Seq(Thread)
  BY FrontAppend, AppendProperties
<1>2. thread_stack \in [Executor -> Seq(Thread)]
  BY DEF IInv, Typed
<1> QED BY <1>1, <1>2 DEF RunEffect, Stays, Switches, Waits, Creates, Parks, SetStack

(* A sequence that parks gets a handle that nobody had. *)
LEMMA ParksPreserves ==
  ASSUME IInv, NEW e \in Executor, NEW stack \in Seq(Thread), stack # <<>>, NEW frs,
         NEW t \in Thread, Calm(frs), Parks(e, stack, frs, t)
  PROVE  IInv'
<1>1. PICK fs : /\ Good(fs) /\ fs # <<>> /\ Last(fs) = HostSuspended(next_handle)
                /\ frames' = [frs EXCEPT ![t] = fs]
  BY DEF Parks
<1>2. /\ next_handle \in Handle /\ pending' = [pending EXCEPT ![next_handle] = t]
      /\ next_handle' = next_handle + 1 /\ dead' = dead /\ answered' = answered
  BY DEF Parks
<1>3. /\ next_handle \in Nat /\ pending \in [Handle -> Thread \cup {None}] /\ Handle \subseteq Nat
      /\ dead \subseteq Handle /\ answered \in [Handle -> Nat] /\ t # None
  BY <1>2, ConstantsAssumption DEF IInv, Typed, Handle
<1>4. /\ frames' \in [Thread -> Seq(FrameRecord)]
      /\ \A u \in Thread : Good(frames'[u]) /\ (u # t => frames'[u] = frs[u]) /\ frames'[t] = fs
  BY <1>1, GoodTop DEF Calm
<1>5. Typed'
  <2>1. thread_stack' \in [Executor -> Seq(Thread)]
    BY EffectStack DEF RunEffect
  <2>2. next_handle' \in 1 .. MaxHandle + 1
    BY <1>2, ConstantsAssumption DEF Handle
  <2> QED BY <1>2, <1>3, <1>4, <2>1, <2>2 DEF Typed, FrameRecord
<1>6. pending[next_handle] = None /\ answered[next_handle] = 0 /\ next_handle \notin dead
  BY <1>2, <1>3 DEF IInv, HandleInv
<1>7. HandleInv'
  BY <1>2, <1>3, <1>6 DEF IInv, HandleInv
<1>8. ParkedIsPending'
  <2> SUFFICES ASSUME NEW u \in Thread, NEW h \in Handle, Parked(u, h)'
               PROVE  pending'[h] = u /\ h \notin dead /\ answered[h] = 0
    BY <1>2 DEF ParkedIsPending
  <2>1. CASE u = t
    <3>1. HostSuspended(h) = HostSuspended(next_handle)
      BY <1>1, <1>4, <2>1 DEF Parked
    <3>2. h = next_handle
      BY <3>1 DEF HostSuspended
    <3> QED BY <1>2, <1>3, <1>6, <2>1, <3>2
  <2>2. CASE u # t
    <3>1. Top(frs[u]) = "HostSuspended" /\ frames'[u] = frs[u]
      BY <1>4, <2>2 DEF Parked, Top, HostSuspended
    <3>2. Parked(u, h)
      BY <3>1 DEF Parked, Calm
    <3>3. pending[h] = u /\ h \notin dead /\ answered[h] = 0
      BY <3>2 DEF IInv, ParkedIsPending
    <3>4. u # None
      BY ConstantsAssumption
    <3> QED BY <1>2, <1>3, <1>6, <3>3, <3>4
  <2> QED BY <2>1, <2>2
<1> QED BY <1>4, <1>5, <1>7, <1>8 DEF IInv

-----------------------------------------------------------------------------
(* The iterations of step *)

(* The stack of an executor that runs *)
LEMMA StackType ==
  ASSUME IInv, NEW e \in Executor, thread_stack[e] # <<>>
  PROVE  /\ thread_stack[e] \in Seq(Thread) /\ Last(thread_stack[e]) \in Thread
         /\ thread_stack[e][1] \in Thread /\ Front(thread_stack[e]) \in Seq(Thread)
         /\ <<Head(thread_stack[e])>> \in Seq(Thread) /\ Head(thread_stack[e]) = thread_stack[e][1]
<1>1. thread_stack[e] \in Seq(Thread)
  BY DEF IInv, Typed
<1>2. Last(thread_stack[e]) \in Thread /\ Front(thread_stack[e]) \in Seq(Thread)
  BY <1>1, FrontAppend
<1>3. thread_stack[e][1] \in Thread /\ Head(thread_stack[e]) = thread_stack[e][1]
  BY <1>1
<1> QED BY <1>1, <1>2, <1>3

LEMMA StepRunsEffect ==
  ASSUME IInv, NEW e \in Executor, StepRuns(e)
  PROVE  RunEffect(e, thread_stack[e], frames, Last(thread_stack[e]))
<1>1. Ready(thread_stack[e], frames, Last(thread_stack[e]))
  BY StackType DEF StepRuns, Ready, IInv, mode
<1> QED BY <1>1, RunTopEffect DEF StepRuns

(* A thread that waits takes the result of the finished one above it. *)
LEMMA HandsDown ==
  ASSUME IInv, NEW stack \in Seq(Thread), Len(stack) > 1,
         mode(Last(stack)) = "Result", mode(Last(Front(stack))) = "Waiting"
  PROVE  /\ Front(stack) \in Seq(Thread) /\ Front(stack) # <<>>
         /\ Last(stack) \in Thread /\ Last(Front(stack)) \in Thread
         /\ Last(stack) # Last(Front(stack))
         /\ Calm(HandedDown(stack))
         /\ Ran(HandedDown(stack)[Last(Front(stack))])
         /\ Top(HandedDown(stack)[Last(stack)]) \in {"none", "Yielded"}
         /\ \A u \in Thread \ {Last(stack), Last(Front(stack))} : HandedDown(stack)[u] = frames[u]
<1> DEFINE res == Last(stack)
           t == Last(Front(stack))
           waiting == Front(frames[t])
           given == IF Top(frames[res]) = "Error" THEN Push(waiting, "Error") ELSE return_to(waiting)
<1>1. stack # <<>>
  OBVIOUS
<1>2. Front(stack) \in Seq(Thread) /\ res \in Thread /\ Len(Front(stack)) = Len(stack) - 1
  BY <1>1, FrontAppend
<1>3. Front(stack) # <<>>
  BY <1>2
<1>4. t \in Thread
  BY <1>2, <1>3, FrontAppend
<1>5. res # t
  BY DEF mode
<1>6. Good(frames[res]) /\ ModeOf(frames[res]) = "Result" /\ Good(frames[t]) /\ Top(frames[t]) = "WaitThread"
  BY <1>2, <1>4, ModeTop DEF IInv, mode
<1>7. waiting \in Below
  BY <1>6, GoodTop
<1>8. Ran(given)
  BY <1>7, GoodPush, ReturnTo DEF Ran, Kind
<1>9. Good(TookResult(frames[res])) /\ Top(TookResult(frames[res])) \in {"none", "Yielded"}
  BY <1>6, TookResultGood
<1>10. frames \in [Thread -> Seq(FrameRecord)]
  BY DEF IInv, Typed, FrameRecord
<1>11. HandedDown(stack) = [frames EXCEPT ![res] = TookResult(@), ![t] = given]
  BY DEF HandedDown
<1> HIDE DEF given, res, t
<1>12. /\ HandedDown(stack)[res] = TookResult(frames[res]) /\ HandedDown(stack)[t] = given
       /\ \A u \in Thread \ {res, t} : HandedDown(stack)[u] = frames[u]
       /\ DOMAIN HandedDown(stack) = Thread /\ HandedDown(stack) = [u \in Thread |-> HandedDown(stack)[u]]
  BY <1>2, <1>4, <1>5, <1>10, <1>11 DEF res, t
<1>13. \A u \in Thread : Good(HandedDown(stack)[u])
  BY <1>8, <1>9, <1>12, RanTop DEF IInv
<1>14. Calm(HandedDown(stack))
  <2>1. HandedDown(stack) \in [Thread -> Seq(FrameRecord)]
    BY <1>12, <1>13, GoodTop
  <2> QED BY <1>8, <1>9, <1>12, <1>13, <2>1, RanTop DEF Calm
<1> QED BY <1>2, <1>3, <1>4, <1>5, <1>8, <1>9, <1>12, <1>14 DEF res, t

LEMMA StepHandsDownEffect ==
  ASSUME IInv, NEW e \in Executor, StepHandsDown(e)
  PROVE  /\ RunEffect(e, Front(thread_stack[e]), HandedDown(thread_stack[e]), Last(Front(thread_stack[e])))
         /\ thread_stack[e] \in Seq(Thread) /\ Len(thread_stack[e]) > 1
         /\ mode(Last(thread_stack[e])) = "Result" /\ mode(Last(Front(thread_stack[e]))) = "Waiting"
<1> DEFINE stack == thread_stack[e]
           frs == HandedDown(stack)
           t == Last(Front(stack))
<1>1. stack \in Seq(Thread) /\ Len(stack) > 1
  BY DEF StepHandsDown, IInv, Typed
<1>2. stack # <<>>
  BY <1>1
<1>3. mode(Last(stack)) = "Result" /\ mode(t) = "Waiting"
  BY <1>1, <1>2 DEF StepHandsDown, BadThreadMode
<1>4. IF ModeOf(frs[t]) = "Normal" THEN RunTop(e, Front(stack), frs)
      ELSE Leave(e, Front(stack), frs, t, frs[t]) /\ UNCHANGED hostVars
  BY DEF StepHandsDown
<1> HIDE DEF stack
<1>5. t \in Thread /\ Calm(frs) /\ Ran(frs[t])
  BY <1>1, <1>3, HandsDown
<1> HIDE DEF frs, t
<1>6. CASE ModeOf(frs[t]) = "Normal"
  <2>1. Ready(Front(stack), frs, t)
    BY <1>5, <1>6 DEF Ready, Calm
  <2>2. RunEffect(e, Front(stack), frs, t)
    BY <1>4, <1>6, <2>1, RunTopEffect DEF t
  <2> QED BY <1>1, <1>3, <2>2 DEF stack, frs, t
<1>7. CASE ModeOf(frs[t]) # "Normal"
  <2>1. Stays(e, Front(stack), frs, t) /\ UNCHANGED hostVars
    BY <1>4, <1>5, <1>7, LeaveStays
  <2>2. RunEffect(e, Front(stack), frs, t)
    BY <2>1 DEF RunEffect
  <2> QED BY <1>1, <1>3, <2>2 DEF stack, frs, t
<1> QED BY <1>6, <1>7

(* What any iteration does preserves the invariant. *)
LEMMA EffectPreserves ==
  ASSUME IInv, NEW e \in Executor, NEW stack \in Seq(Thread), stack # <<>>, NEW frs, Calm(frs),
         RunEffect(e, stack, frs, Last(stack))
  PROVE  IInv'
<1>1. Last(stack) \in Thread
  BY FrontAppend
<1>2. CASE Parks(e, stack, frs, Last(stack))
  BY <1>1, <1>2, ParksPreserves
<1>3. CASE ~Parks(e, stack, frs, Last(stack))
  <2>1. Calm(frames') /\ UNCHANGED hostVars
    BY <1>1, <1>3, EffectCalm DEF RunEffect
  <2> QED BY <2>1, EffectStack, CalmPreserves
<1> QED BY <1>2, <1>3

LEMMA StepPreserves == ASSUME IInv, NEW e \in Executor, step(e) PROVE IInv'
<1>1. CASE StepRuns(e)
  BY <1>1, StepRunsEffect, StackType, CalmFrames, EffectPreserves DEF StepRuns
<1>2. CASE StepHandsDown(e)
  BY <1>2, StepHandsDownEffect, HandsDown, EffectPreserves
<1>3. CASE StepFails(e)
  <2>1. Front(thread_stack[e]) \in Seq(Thread)
    BY <1>3, StackType DEF StepFails, BadThreadMode
  <2>2. thread_stack' \in [Executor -> Seq(Thread)]
    BY <1>3, <2>1 DEF StepFails, IInv, Typed
  <2>3. Calm(frames') /\ UNCHANGED hostVars
    BY <1>3, CalmFrames DEF StepFails, Calm
  <2> QED BY <2>2, <2>3, CalmPreserves
<1> QED BY <1>1, <1>2, <1>3 DEF step

-----------------------------------------------------------------------------
(* The host *)

(* A change of the frames of one thread, which does not park it *)
LEMMA OnePreserves ==
  ASSUME IInv, NEW t \in Thread, NEW fs, Good(fs), Top(fs) # "HostSuspended",
         frames' = [frames EXCEPT ![t] = fs], UNCHANGED hostVars,
         thread_stack' \in [Executor -> Seq(Thread)]
  PROVE  IInv'
<1>1. Calm([frames EXCEPT ![t] = fs])
  BY CalmFrames, CalmExcept
<1>2. Calm(frames')
  BY <1>1, Zenon
<1> QED BY <1>2, CalmPreserves

(* No change of frames at all *)
LEMMA StacksPreserve ==
  ASSUME IInv, UNCHANGED <<frames, hostVars>>, thread_stack' \in [Executor -> Seq(Thread)]
  PROVE  IInv'
<1>1. Calm(frames')
  BY CalmFrames DEF Calm
<1> QED BY <1>1, CalmPreserves

(* Executor::take_result, resume and resume_err, on an executor that has ended or *)
(* is suspended, change the frames of its main thread. *)
LEMMA OnMainChange ==
  ASSUME IInv, NEW e \in Executor, thread_stack[e] # <<>>,
         \/ take_result(e) \/ resume_err(e) \/ \E function \in Function : resume(e, function)
  PROVE  /\ Len(thread_stack[e]) = 1 /\ UNCHANGED <<thread_stack, hostVars>>
         /\ \E fs : /\ Good(fs) /\ Top(fs) \in {"none", "Yielded", "Result", "Sequence", "Lua", "Callback", "Error"}
                   /\ frames' = [frames EXCEPT ![thread_stack[e][1]] = fs]
<1> DEFINE t == thread_stack[e][1]
<1>1. t \in Thread /\ Good(frames[t]) /\ thread_stack[e] \in Seq(Thread)
  BY StackType DEF IInv
<1>2. Len(thread_stack[e]) = 1
  <2>1. ExecutorMode(e) # "Normal"
    BY DEF take_result, resume_err, resume
  <2>2. Len(thread_stack[e]) \in Nat /\ Len(thread_stack[e]) # 0
    BY <1>1, LenProperties, EmptySeq
  <2>3. ASSUME Len(thread_stack[e]) > 1 PROVE FALSE
    BY <2>1, <2>3 DEF ExecutorMode
  <2> DEFINE n == Len(thread_stack[e])
  <2>4. n \in Nat /\ n # 0 /\ ~(n > 1)
    BY <2>2, <2>3
  <2> HIDE DEF n
  <2>5. n = 1
    BY <2>4
  <2> QED BY <2>5 DEF n
<1> HIDE DEF t
<1>3. CASE take_result(e)
  <2>1. mode(t) = "Result"
    BY <1>2, <1>3 DEF take_result, ExecutorMode, t
  <2>2. Good(TookResult(frames[t])) /\ Top(TookResult(frames[t])) \in {"none", "Yielded"}
    BY <1>1, <2>1, TookResultGood DEF mode
  <2> QED BY <1>2, <1>3, <2>2 DEF take_result, OnMain, t
<1>4. CASE resume_err(e)
  <2>1. mode(t) = "Suspended"
    BY <1>2, <1>4 DEF resume_err, ExecutorMode, t
  <2>2. Front(frames[t]) \in Below
    BY <1>1, <2>1, ModeTop, GoodTop DEF mode
  <2>3. Good(Push(Front(frames[t]), "Error")) /\ Top(Push(Front(frames[t]), "Error")) = "Error"
    BY <2>2, GoodPush DEF Kind
  <2> QED BY <1>2, <1>4, <2>3 DEF resume_err, OnMain, t
<1>5. ASSUME NEW function \in Function, resume(e, function)
      PROVE  \E fs : /\ Good(fs) /\ Top(fs) \in {"Result", "Sequence", "Lua", "Callback"}
                    /\ frames' = [frames EXCEPT ![t] = fs] /\ UNCHANGED <<thread_stack, hostVars>>
  <2>1. mode(t) = "Suspended" /\ Top(frames[t]) # "HostSuspended"
    BY <1>2, <1>5 DEF resume, ExecutorMode, t
  <2>2. /\ Good(Resumed(frames[t], function))
        /\ Top(Resumed(frames[t], function)) \in {"Result", "Sequence", "Lua", "Callback"}
    BY <1>1, <2>1, ResumedGood DEF mode
  <2> QED BY <1>5, <2>2 DEF resume, OnMain, t
<1> QED BY <1>2, <1>3, <1>4, <1>5 DEF t

LEMMA OnMainPreserves ==
  ASSUME IInv, NEW e \in Executor, thread_stack[e] # <<>>,
         \/ take_result(e) \/ resume_err(e) \/ \E function \in Function : resume(e, function)
  PROVE  IInv'
<1>1. PICK fs : /\ Good(fs) /\ Top(fs) # "HostSuspended"
                /\ frames' = [frames EXCEPT ![thread_stack[e][1]] = fs]
  BY OnMainChange
<1>2. thread_stack' \in [Executor -> Seq(Thread)] /\ UNCHANGED hostVars
  BY OnMainChange DEF IInv, Typed
<1> QED BY <1>1, <1>2, StackType, OnePreserves

(* stop and restart *)
LEMMA StopPreserves ==
  ASSUME IInv, NEW e \in Executor, stop(e) \/ \E function \in Function : restart(e, function)
  PROVE  IInv'
<1>1. thread_stack[e] # <<>> /\ UNCHANGED hostVars
      /\ thread_stack' = [thread_stack EXCEPT ![e] = <<Head(thread_stack[e])>>]
  BY DEF stop, restart
<1>2. thread_stack' \in [Executor -> Seq(Thread)]
  BY <1>1, StackType DEF IInv, Typed
<1>3. PICK fs : Good(fs) /\ Top(fs) # "HostSuspended" /\ frames' = [frames EXCEPT ![thread_stack[e][1]] = fs]
  <2>1. CASE stop(e)
    BY <2>1, Singles DEF stop
  <2>2. ASSUME NEW function \in Function, restart(e, function)
        PROVE  /\ Good(Push(<<>>, function)) /\ Top(Push(<<>>, function)) # "HostSuspended"
               /\ frames' = [frames EXCEPT ![thread_stack[e][1]] = Push(<<>>, function)]
    BY <2>2, Singles DEF restart, Function, Kind
  <2> QED BY <2>1, <2>2
<1> QED BY <1>1, <1>2, <1>3, StackType, OnePreserves

LEMMA StartPreserves ==
  ASSUME IInv, NEW e \in Executor, NEW t \in Thread, NEW function \in Function, start(e, t, function)
  PROVE  IInv'
<1>1. thread_stack' \in [Executor -> Seq(Thread)]
  BY DEF start, IInv, Typed
<1>2. Good(Push(<<>>, function)) /\ Top(Push(<<>>, function)) # "HostSuspended"
  BY Singles DEF Function, Kind
<1> QED BY <1>1, <1>2, OnePreserves DEF start

(* A thread that is parked under h, and only that one, is answered. *)
LEMMA ResolvePreserves ==
  ASSUME IInv, NEW e \in Executor, NEW h \in Handle, NEW kind \in {"Sequence", "SequenceErr"},
         Resolve(e, h, kind)
  PROVE  IInv'
<1>1. PICK t \in Thread : Parked(t, h) /\ frames' = [frames EXCEPT ![t] = Push(Front(@), kind)]
  BY DEF Resolve
<1>2. /\ pending' = [pending EXCEPT ![h] = None] /\ answered' = [answered EXCEPT ![h] = @ + 1]
      /\ thread_stack' = thread_stack /\ next_handle' = next_handle /\ dead' = dead
  BY DEF Resolve, remove
<1>3. pending[h] = t /\ h \notin dead /\ answered[h] = 0
  BY <1>1 DEF IInv, ParkedIsPending
<1>4. Front(frames[t]) \in Below
  BY <1>1, GoodTop DEF IInv, Parked, Top, HostSuspended
<1>5. Good(Push(Front(frames[t]), kind)) /\ Top(Push(Front(frames[t]), kind)) = kind
  BY <1>4, GoodPush DEF Kind
<1>6. Calm(frames')
  <2>1. Calm([frames EXCEPT ![t] = Push(Front(frames[t]), kind)])
    BY <1>5, CalmFrames, CalmExcept
  <2>2. frames' = [frames EXCEPT ![t] = Push(Front(frames[t]), kind)]
    BY <1>1
  <2> QED BY <2>1, <2>2, Zenon
<1>7. Typed'
  <2>1. frames' \in [Thread -> Seq(FrameRecord)]
    BY <1>6 DEF Calm
  <2>2. pending' \in [Handle -> Thread \cup {None}] /\ answered' \in [Handle -> Nat]
    BY <1>2 DEF IInv, Typed
  <2>3. thread_stack' \in [Executor -> Seq(Thread)] /\ next_handle' \in 1 .. MaxHandle + 1 /\ dead' \subseteq Handle
    BY <1>2 DEF IInv, Typed
  <2> QED BY <2>1, <2>2, <2>3 DEF Typed, FrameRecord
<1>8. Handle \subseteq Nat /\ next_handle \in Nat /\ t # None
  BY ConstantsAssumption DEF Handle, IInv, Typed
<1>9. HandleInv'
  BY <1>2, <1>3, <1>8 DEF IInv, HandleInv, Typed
<1>10. ParkedIsPending'
  <2> SUFFICES ASSUME NEW u \in Thread, NEW g \in Handle, Parked(u, g)'
               PROVE  pending'[g] = u /\ g \notin dead' /\ answered'[g] = 0
    BY DEF ParkedIsPending
  <2>1. u # t
    BY <1>1, <1>5, <1>6 DEF Parked, Top, HostSuspended, IInv, Typed
  <2>2. Parked(u, g)
    BY <1>1, <2>1 DEF Parked, IInv, Typed
  <2>3. pending[g] = u /\ g \notin dead /\ answered[g] = 0
    BY <2>2 DEF IInv, ParkedIsPending
  <2>4. g # h
    BY <1>3, <2>1, <2>3
  <2> QED BY <1>2, <2>3, <2>4 DEF IInv, Typed
<1> QED BY <1>6, <1>7, <1>9, <1>10 DEF IInv, Calm

(* The entries of a thread that is collected are the only ones that die. *)
LEMMA CollectPreserves == ASSUME IInv, NEW t \in Thread, CollectThread(t) PROVE IInv'
<1>1. /\ frames' = [frames EXCEPT ![t] = <<>>] /\ dead' = dead \cup {h \in Handle : pending[h] = t}
      /\ UNCHANGED <<thread_stack, next_handle, pending, answered>>
  BY DEF CollectThread
<1>2. Calm(frames')
  <2>1. Calm([frames EXCEPT ![t] = <<>>])
    BY CalmFrames, CalmExcept, Singles
  <2> QED BY <1>1, <2>1, Zenon
<1>3. Typed'
  BY <1>1, <1>2 DEF IInv, Typed, Calm, FrameRecord
<1>4. t # None
  BY ConstantsAssumption
<1>5. HandleInv'
  BY <1>1, <1>4 DEF IInv, HandleInv
<1>6. ParkedIsPending'
  <2> SUFFICES ASSUME NEW u \in Thread, NEW h \in Handle, Parked(u, h)'
               PROVE  pending[h] = u /\ h \notin dead' /\ answered[h] = 0
    BY <1>1 DEF ParkedIsPending
  <2>1. u # t /\ Parked(u, h)
    BY <1>1 DEF Parked, IInv, Typed
  <2>2. pending[h] = u /\ h \notin dead /\ answered[h] = 0
    BY <2>1 DEF IInv, ParkedIsPending
  <2> QED BY <1>1, <2>1, <2>2
<1> QED BY <1>2, <1>3, <1>5, <1>6 DEF IInv, Calm

LEMMA AbandonedPreserves == ASSUME IInv, abandoned_handles PROVE IInv'
<1> USE DEF abandoned_handles
<1>1. Typed'
  <2>1. pending' \in [Handle -> Thread \cup {None}] /\ answered' \in [Handle -> Nat]
    BY DEF IInv, Typed
  <2>2. /\ frames' = frames /\ thread_stack' = thread_stack /\ next_handle' = next_handle /\ dead' = {}
    OBVIOUS
  <2> QED BY <2>1, <2>2 DEF IInv, Typed
<1>2. HandleInv'
  <2> SUFFICES ASSUME NEW h \in Handle
               PROVE  /\ h >= next_handle' => pending'[h] = None /\ answered'[h] = 0
                      /\ h \in dead' => pending'[h] # None
                      /\ pending'[h] # None => answered'[h] = 0
                      /\ answered'[h] <= 1
    BY DEF HandleInv
  <2>1. /\ h >= next_handle => pending[h] = None /\ answered[h] = 0
        /\ h \in dead => pending[h] # None
        /\ pending[h] # None => answered[h] = 0
        /\ answered[h] <= 1 /\ answered[h] \in Nat
    BY DEF IInv, HandleInv, Typed
  <2> QED BY <2>1
<1>3. ParkedIsPending'
  BY DEF IInv, ParkedIsPending, Parked
<1> QED BY <1>1, <1>2, <1>3 DEF IInv

LEMMA HostPreserves == ASSUME IInv, HostStep PROVE IInv'
<1>1. ASSUME NEW e \in Executor, NEW t \in Thread, reset(e, t) PROVE IInv'
  <2>1. thread_stack' \in [Executor -> Seq(Thread)] /\ UNCHANGED <<frames, hostVars>>
    BY <1>1 DEF reset, IInv, Typed
  <2> QED BY <2>1, StacksPreserve
<1>2. ASSUME NEW e \in Executor, DropExecutor(e) PROVE IInv'
  <2>1. thread_stack' \in [Executor -> Seq(Thread)] /\ UNCHANGED <<frames, hostVars>>
    BY <1>2 DEF DropExecutor, IInv, Typed
  <2> QED BY <2>1, StacksPreserve
<1>3. ASSUME NEW e \in Executor, NEW h \in Handle, resume_host_op(e, h) \/ cancel_host_op(e, h) PROVE IInv'
  BY <1>3, ResolvePreserves DEF resume_host_op, cancel_host_op
<1> QED BY <1>1, <1>2, <1>3, StartPreserves, OnMainPreserves, StopPreserves, CollectPreserves,
           AbandonedPreserves DEF HostStep

(* The invariant holds in every reachable state, whatever Lua code resumes and *)
(* wherever sequences park. *)
THEOREM Inductive == Spec => []IInv
<1>1. Init => IInv
  <2> SUFFICES ASSUME Init PROVE IInv
    OBVIOUS
  <2>1. Typed
    BY ConstantsAssumption DEF Init, Typed, Handle
  <2>2. HandleInv
    BY DEF Init, HandleInv
  <2>3. ParkedIsPending
    BY DEF Init, ParkedIsPending, Parked
  <2>4. \A t \in Thread : Good(frames[t])
    BY Singles DEF Init
  <2> QED BY <2>1, <2>2, <2>3, <2>4 DEF IInv
<1>2. IInv /\ [Next]_vars => IInv'
  <2>1. ASSUME IInv, UNCHANGED vars PROVE IInv'
    <3>1. thread_stack' \in [Executor -> Seq(Thread)] /\ UNCHANGED <<frames, hostVars>>
      BY <2>1 DEF vars, hostVars, IInv, Typed
    <3> QED BY <2>1, <3>1, StacksPreserve
  <2> QED BY <2>1, HostPreserves, StepPreserves DEF Next
<1> QED BY <1>1, <1>2, PTL DEF Spec

(* Every variable has its type: no step makes a frame that the enum does not have. *)
THEOREM TypeCorrect == Spec => []TypeOK
<1> DEFINE SharedType == shared \subseteq Thread
<1>1. Init => SharedType
  BY DEF Init
<1>2. SharedType /\ [Next]_vars => SharedType'
  BY DEF Next, vars, Doubled
<1>3. IInv /\ SharedType => TypeOK
  BY DEF IInv, Typed, TypeOK
<1> QED BY <1>1, <1>2, <1>3, Inductive, PTL DEF Spec

(* A parked operation has its entry in the registry and was not answered: a handle is *)
(* fresh when a sequence parks under it, and the entry goes only with the frame. *)
THEOREM ParkedIsPendingAlways == Spec => []ParkedIsPending
<1>1. IInv => ParkedIsPending
  BY DEF IInv
<1> QED BY <1>1, Inductive, PTL

(* The host hears of the end of an operation at most once, because an operation that *)
(* has an entry was not answered and every answer removes the entry. *)
THEOREM AnsweredOnceAlways == Spec => []AnsweredOnce
<1>1. IInv => AnsweredOnce
  BY DEF IInv, HandleInv, AnsweredOnce
<1> QED BY <1>1, Inductive, PTL

(* The kinds of the frames that wait *)
LEMMA BelowKinds ==
  ASSUME NEW b \in Below, NEW i \in 1 .. Len(b)
  PROVE  b[i].kind \in {"LuaCall", "Sequence"}
<1> DEFINE S == [kind : {"LuaCall", "Sequence"}, op : 0 .. MaxHandle]
<1>1. b \in Seq(S)
  BY DEF Below
<1> HIDE DEF S
<1>2. b[i] \in S
  BY <1>1
<1> QED BY <1>2 DEF S

\* FrameShape of one thread
Shape(fs) ==
    \A i \in DOMAIN fs :
        /\ i < Len(fs) =>
              \/ fs[i].kind \in {"LuaCall", "Sequence"}
              \/ fs[i].kind = "Lua" /\ i + 1 = Len(fs) /\ Top(fs) = "Error"
              \/ fs[i].kind = "Yielded" /\ i + 1 = Len(fs) /\ Top(fs) = "Result"
        /\ fs[i].kind = "LuaCall" => i < Len(fs)
        /\ fs[i].kind = "Start" => Len(fs) = 1

LEMMA GoodShape == ASSUME NEW fs, Good(fs) PROVE Shape(fs)
<1>1. CASE fs = <<>>
  BY <1>1 DEF Shape
<1>2. CASE \E b, f : OnTop(b, f) /\ fs = Append(b, f)
  <2>1. PICK b, f : OnTop(b, f) /\ fs = Append(b, f)
    BY <1>2
  <2>2. b \in Seq(FrameRecord) /\ b \in Below /\ f \in FrameRecord
    BY <2>1, BelowFrames DEF OnTop
  <2>3. /\ Len(b) \in Nat /\ Len(fs) = Len(b) + 1 /\ DOMAIN fs = 1 .. Len(b) + 1
        /\ \A i \in 1 .. Len(b) : fs[i] = b[i]
        /\ fs[Len(b) + 1] = f
    BY <2>1, <2>2, AppendProperties
  <2>4. \A i \in 1 .. Len(b) : fs[i].kind \in {"LuaCall", "Sequence"}
    BY <2>2, <2>3, BelowKinds
  <2>5. f.kind # "LuaCall" /\ (f.kind = "Start" => Len(b) = 0)
    BY <2>1 DEF OnTop
  <2> QED BY <2>3, <2>4, <2>5 DEF Shape
<1>3. ASSUME NEW b \in Below, NEW f \in FrameRecord, NEW kind \in {"Error", "Result"},
             fs = Push(Append(b, f), kind)
      PROVE  /\ Len(b) \in Nat /\ Len(fs) = Len(b) + 2 /\ DOMAIN fs = 1 .. Len(b) + 2
             /\ \A i \in 1 .. Len(b) : fs[i].kind \in {"LuaCall", "Sequence"}
             /\ fs[Len(b) + 1] = f /\ fs[Len(b) + 2].kind = kind /\ Top(fs) = kind
  <2>1. Append(b, f) \in Seq(FrameRecord) /\ b \in Seq(FrameRecord)
    BY BelowFrames, TopOf
  <2>2. Frame(kind) \in FrameRecord /\ Frame(kind).kind = kind
    BY FrameType DEF Kind
  <2>3. Top(fs) = kind
    BY <1>3, <2>1, <2>2, TopOf DEF Push
  <2>4. /\ Len(b) \in Nat /\ Len(Append(b, f)) = Len(b) + 1
        /\ \A i \in 1 .. Len(b) : Append(b, f)[i] = b[i]
        /\ Append(b, f)[Len(b) + 1] = f
    BY <2>1, AppendProperties
  <2> DEFINE g == Append(b, f)
  <2>5. g \in Seq(FrameRecord) /\ Len(g) = Len(b) + 1 /\ fs = Append(g, Frame(kind))
    BY <1>3, <2>1, <2>4 DEF Push
  <2> HIDE DEF g
  <2>6. /\ Len(fs) = Len(g) + 1 /\ DOMAIN fs = 1 .. Len(g) + 1
        /\ \A i \in 1 .. Len(g) : fs[i] = g[i]
        /\ fs[Len(g) + 1] = Frame(kind)
    BY <2>2, <2>5, AppendProperties
  <2>7. /\ Len(fs) = Len(b) + 2 /\ DOMAIN fs = 1 .. Len(b) + 2 /\ fs[Len(b) + 2].kind = kind
        /\ fs[Len(b) + 1] = g[Len(b) + 1] /\ \A i \in 1 .. Len(b) : fs[i] = g[i]
    BY <2>2, <2>4, <2>5, <2>6
  <2>8. fs[Len(b) + 1] = f /\ \A i \in 1 .. Len(b) : fs[i] = b[i]
    BY <2>4, <2>7 DEF g
  <2> QED BY <2>3, <2>4, <2>7, <2>8, BelowKinds
<1>4. CASE \E b \in Below, f \in FrameRecord :
               \/ f.kind = "Lua" /\ fs = Push(Append(b, f), "Error")
               \/ f.kind = "Yielded" /\ fs = Push(Append(b, f), "Result")
  <2>1. PICK b \in Below, f \in FrameRecord :
               \/ f.kind = "Lua" /\ fs = Push(Append(b, f), "Error")
               \/ f.kind = "Yielded" /\ fs = Push(Append(b, f), "Result")
    BY <1>4
  <2>2. CASE f.kind = "Lua" /\ fs = Push(Append(b, f), "Error")
    BY <1>3, <2>2 DEF Shape
  <2>3. CASE f.kind = "Yielded" /\ fs = Push(Append(b, f), "Result")
    BY <1>3, <2>3 DEF Shape
  <2> QED BY <2>1, <2>2, <2>3
<1> QED BY <1>1, <1>2, <1>4 DEF Good

(* The frames of every thread have the order that the comments on enum Frame state. *)
THEOREM FrameShapeAlways == Spec => []FrameShape
<1>1. IInv => FrameShape
  BY GoodShape DEF IInv, FrameShape, Shape
<1> QED BY <1>1, Inductive, PTL

(* Thread::resume of a parked thread is the only panic that is met: every other one is *)
(* on a frame that the stacks the executor leaves do not have where it is looked for. *)
THEOREM OnlyParkedPanicsAlways == Spec => []OnlyParkedPanics
<1>1. IInv => OnlyParkedPanics
  BY GoodTop DEF IInv, OnlyParkedPanics
<1> QED BY <1>1, Inductive, PTL

-----------------------------------------------------------------------------
(* Who runs whom *)

\* How an iteration leaves the top thread of a stack that is not the main one
Active == {"Lua", "Callback", "Sequence", "SequenceErr", "Error", "Result", "Panic", "HostSuspended"}

\* No thread but the ones of S is on two stacks or twice on one.
Apart(S, ts) ==
    \A e, d \in Executor : \A i \in 1 .. Len(ts[e]), j \in 1 .. Len(ts[d]) :
        ts[e][i] = ts[d][j] => ts[e][i] \in S \/ (e = d /\ i = j)

\* All but the top thread of a stack wait; a thread that another waits for runs, has
\* ended or is parked.  Nothing is said of the threads of S.
Waited(S, s, frs) ==
    \A i \in 1 .. Len(s) :
        \/ s[i] \in S
        \/ i < Len(s) /\ Top(frs[s[i]]) = "WaitThread"
        \/ i = Len(s) /\ Top(frs[s[i]]) # "WaitThread" /\ (i > 1 => Top(frs[s[i]]) \in Active)

Alone(S, ts, frs) ==
    /\ ts \in [Executor -> Seq(Thread)] /\ Apart(S, ts)
    /\ \A e \in Executor : Waited(S, ts[e], frs)

\* No stack has thread u.
Off(ts, u) == \A e \in Executor : \A i \in 1 .. Len(ts[e]) : ts[e][i] # u

(* A stack is replaced; the threads of the others that are not shared stay as they are. *)
LEMMA Replaced ==
  ASSUME NEW S, NEW S2, S \subseteq S2, NEW ts, NEW frs, Alone(S, ts, frs), NEW e \in Executor,
         NEW s \in Seq(Thread), NEW frs2, Apart(S2, [ts EXCEPT ![e] = s]),
         \A d \in Executor \ {e} : \A i \in 1 .. Len(ts[d]) :
             ts[d][i] \in S2 \/ Top(frs2[ts[d][i]]) = Top(frs[ts[d][i]]),
         Waited(S2, s, frs2)
  PROVE  Alone(S2, [ts EXCEPT ![e] = s], frs2)
<1> DEFINE new == [ts EXCEPT ![e] = s]
<1>1. new \in [Executor -> Seq(Thread)] /\ new[e] = s /\ \A d \in Executor \ {e} : new[d] = ts[d]
  BY DEF Alone
<1>2. Apart(S2, new)
  OBVIOUS
<1> HIDE DEF new
<1>3. ASSUME NEW d \in Executor PROVE Waited(S2, new[d], frs2)
  <2>1. CASE d = e
    BY <1>1, <2>1
  <2>2. CASE d # e
    <3>1. \A i \in 1 .. Len(ts[d]) : ts[d][i] \in S2 \/ Top(frs2[ts[d][i]]) = Top(frs[ts[d][i]])
      BY <2>2
    <3>2. Waited(S, ts[d], frs)
      BY DEF Alone
    <3>3. Waited(S2, ts[d], frs2)
      BY <3>1, <3>2 DEF Waited
    <3> QED BY <1>1, <2>2, <3>3
  <2> QED BY <2>1, <2>2
<1>4. Alone(S2, new, frs2)
  BY <1>1, <1>2, <1>3 DEF Alone
<1> QED BY <1>4 DEF new

(* The top of a stack, and the threads below and elsewhere *)
LEMMA OwnTop ==
  ASSUME NEW S, NEW ts, NEW frs, Alone(S, ts, frs), NEW e \in Executor, ts[e] # <<>>
  PROVE  /\ ts[e] \in Seq(Thread) /\ Len(ts[e]) \in Nat /\ Len(ts[e]) > 0
         /\ Last(ts[e]) = ts[e][Len(ts[e])] /\ Last(ts[e]) \in Thread
         /\ \A i \in 1 .. Len(ts[e]) :
                ts[e][i] \in Thread /\ (i < Len(ts[e]) /\ ts[e][i] = Last(ts[e]) => ts[e][i] \in S)
         /\ \A d \in Executor \ {e} : \A i \in 1 .. Len(ts[d]) :
                ts[d][i] \in Thread /\ (ts[d][i] = Last(ts[e]) => ts[d][i] \in S)
<1>1. ts \in [Executor -> Seq(Thread)] /\ Apart(S, ts)
  BY DEF Alone
<1>2. /\ ts[e] \in Seq(Thread) /\ Len(ts[e]) \in Nat /\ Len(ts[e]) > 0
      /\ Last(ts[e]) = ts[e][Len(ts[e])] /\ Last(ts[e]) \in Thread
  BY <1>1, FrontAppend
<1>3. ASSUME NEW i \in 1 .. Len(ts[e])
      PROVE  ts[e][i] \in Thread /\ (i < Len(ts[e]) /\ ts[e][i] = Last(ts[e]) => ts[e][i] \in S)
  BY <1>1, <1>2 DEF Apart
<1>4. ASSUME NEW d \in Executor \ {e}, NEW i \in 1 .. Len(ts[d])
      PROVE  ts[d][i] \in Thread /\ (ts[d][i] = Last(ts[e]) => ts[d][i] \in S)
  <2>1. ts[d] \in Seq(Thread)
    BY <1>1
  <2> QED BY <1>1, <1>2, <2>1 DEF Apart
<1> QED BY <1>2, <1>3, <1>4


(* What an iteration finds: the stacks ts, of which e's is about to run its top thread *)
Turn(S, e, ts, frs) ==
    /\ Alone(S, ts, frs) /\ Calm(frs) /\ ts[e] # <<>>
    /\ \A s : [thread_stack EXCEPT ![e] = s] = [ts EXCEPT ![e] = s]
    /\ \A u \in Thread : InSomeStack(u) \/ Off(ts, u)

(* The thread that ran stays on top: it runs on, has ended or is parked. *)
LEMMA StaysAlone ==
  ASSUME NEW S, NEW S2, S \subseteq S2, NEW e \in Executor, NEW ts, NEW frs, Turn(S, e, ts, frs),
         SetStack(e, ts[e]), Apart(S2, thread_stack'), NEW fs, frames'[Last(ts[e])] = fs,
         Top(fs) \in Active,
         \A p \in Thread \ {Last(ts[e])} : frames'[p] = frs[p] \/ Off(ts, p)
  PROVE  Alone(S2, thread_stack', frames')
<1> DEFINE s == ts[e]
<1>1. Alone(S, ts, frs) /\ ts[e] # <<>>
  BY DEF Turn
<1>2. /\ s \in Seq(Thread) /\ Len(s) \in Nat /\ Len(s) > 0 /\ Last(s) = s[Len(s)]
      /\ \A i \in 1 .. Len(s) : s[i] \in Thread /\ (i < Len(s) /\ s[i] = Last(s) => s[i] \in S)
      /\ \A d \in Executor \ {e} : \A i \in 1 .. Len(ts[d]) :
             ts[d][i] \in Thread /\ (ts[d][i] = Last(s) => ts[d][i] \in S)
  BY <1>1, OwnTop
<1>3. \A d \in Executor : \A i \in 1 .. Len(ts[d]) :
        ts[d][i] \in Thread \ {Last(s)} => frames'[ts[d][i]] = frs[ts[d][i]]
  BY DEF Off
<1>4. \A d \in Executor \ {e} : \A i \in 1 .. Len(ts[d]) :
        ts[d][i] \in S2 \/ Top(frames'[ts[d][i]]) = Top(frs[ts[d][i]])
  BY <1>2, <1>3
<1>5. Waited(S2, s, frames')
  <2> SUFFICES ASSUME NEW i \in 1 .. Len(s), s[i] \notin S2
               PROVE  \/ i < Len(s) /\ Top(frames'[s[i]]) = "WaitThread"
                      \/ i = Len(s) /\ Top(frames'[s[i]]) # "WaitThread" /\ Top(frames'[s[i]]) \in Active
    BY DEF Waited
  <2>1. CASE i < Len(s)
    <3>1. Top(frs[s[i]]) = "WaitThread"
      BY <1>1, <1>2, <2>1 DEF Alone, Waited
    <3>2. frames'[s[i]] = frs[s[i]]
      BY <1>2, <1>3, <2>1
    <3> QED BY <2>1, <3>1, <3>2
  <2>2. CASE i = Len(s)
    <3>1. frames'[s[i]] = fs
      BY <1>2, <2>2
    <3> QED BY <2>2, <3>1 DEF Active
  <2> QED BY <1>2, <2>1, <2>2
<1>6. thread_stack' = [ts EXCEPT ![e] = s]
  BY DEF Turn, SetStack
<1> HIDE DEF s
<1>7. Apart(S2, [ts EXCEPT ![e] = s])
  BY <1>6, Zenon
<1>8. Alone(S2, [ts EXCEPT ![e] = s], frames')
  <2>1. S \subseteq S2 /\ Alone(S, ts, frs) /\ e \in Executor /\ s \in Seq(Thread)
    BY <1>1, <1>2
  <2> QED BY ONLY <1>4, <1>5, <1>7, <2>1, Replaced
<1> QED BY <1>6, <1>8, Zenon

(* The thread that ran makes room for u, or waits for it.  If u is on a stack already, *)
(* it is shared from now on. *)
LEMMA ResumesAlone ==
  ASSUME NEW S, NEW S2, S \subseteq S2, NEW e \in Executor, NEW ts, NEW frs, Turn(S, e, ts, frs),
         NEW u \in Thread, Apart(S2, thread_stack'),
         Switches(e, ts[e], frs, Last(ts[e]), u) \/ Waits(e, ts[e], frs, Last(ts[e]), u)
  PROVE  Alone(S2, thread_stack', frames')
<1> DEFINE t == Last(ts[e])
           s == ts[e]
<1>1. /\ Alone(S, ts, frs) /\ ts[e] # <<>> /\ DOMAIN frs = Thread /\ frs = [p \in Thread |-> frs[p]]
      /\ ts \in [Executor -> Seq(Thread)]
  BY DEF Turn, Calm, Alone
<1>2. /\ s \in Seq(Thread) /\ Len(s) \in Nat /\ Len(s) > 0 /\ t = s[Len(s)] /\ t \in Thread
      /\ \A i \in 1 .. Len(s) : s[i] \in Thread /\ (i < Len(s) /\ s[i] = t => s[i] \in S)
      /\ \A d \in Executor \ {e} : \A i \in 1 .. Len(ts[d]) :
             ts[d][i] \in Thread /\ (ts[d][i] = t => ts[d][i] \in S)
  BY <1>1, OwnTop
<1>3. u # t
  BY DEF Switches, Waits, CanResume
<1>4. PICK gs, fs :
        /\ Ran(gs) /\ frames' = [[frs EXCEPT ![u] = gs] EXCEPT ![t] = fs]
        /\ \/ Switches(e, s, frs, t, u)
           \/ Waits(e, s, frs, t, u) /\ Top(fs) = "WaitThread"
  BY DEF Switches, Waits
<1>5. frames'[u] = gs /\ frames'[t] = fs /\ \A p \in Thread \ {u, t} : frames'[p] = frs[p]
  BY <1>1, <1>2, <1>3, <1>4
<1>6. Top(gs) # "WaitThread" /\ Top(gs) \in Active
  BY <1>4 DEF Ran, Active
<1>7. ASSUME NEW r \in Seq(Thread), Len(r) \in Nat, Len(r) <= Len(s),
             \A i \in 1 .. Len(r) : r[i] = s[i] /\ (s[i] = t => s[i] \in S \/ Top(fs) = "WaitThread"),
             SetStack(e, Append(r, u))
      PROVE  Alone(S2, thread_stack', frames')
  <2> DEFINE q == Append(r, u)
  <2>1. /\ q \in Seq(Thread) /\ Len(q) = Len(r) + 1 /\ q[Len(r) + 1] = u
        /\ \A i \in 1 .. Len(r) : q[i] = r[i]
    BY <1>7, AppendProperties
  <2>2. thread_stack' = [ts EXCEPT ![e] = q]
    BY <1>7 DEF Turn, SetStack
  <2> HIDE DEF q
  <2>3. thread_stack'[e] = q /\ \A d \in Executor \ {e} : thread_stack'[d] = ts[d]
    BY <1>1, <2>2
  <2>4. Len(q) \in 1 .. Len(q) /\ q[Len(q)] = u
    BY <1>7, <2>1
  <2>5. ASSUME NEW d \in Executor \ {e}, NEW i \in 1 .. Len(ts[d]), ts[d][i] \notin S2
        PROVE  Top(frames'[ts[d][i]]) = Top(frs[ts[d][i]])
    <3>1. ts[d][i] # u
      BY <2>3, <2>4, <2>5 DEF Apart
    <3>2. ts[d][i] \in Thread \ {u, t}
      BY <1>2, <2>5, <3>1
    <3> QED BY <1>5, <3>2
  <2>6. ASSUME NEW i \in 1 .. Len(r), q[i] \notin S2 PROVE Top(frames'[q[i]]) = "WaitThread"
    <3>1. q[i] = s[i] /\ i \in 1 .. Len(s) /\ i \in 1 .. Len(q) /\ i # Len(q)
      BY <1>2, <1>7, <2>1
    <3>2. q[i] # u
      BY <2>3, <2>4, <2>6, <3>1 DEF Apart
    <3>3. CASE q[i] = t
      <4>1. Top(fs) = "WaitThread"
        BY <1>7, <2>6, <3>1, <3>3
      <4> QED BY <1>5, <3>3, <4>1
    <3>4. CASE q[i] # t
      <4>1. i < Len(s)
        BY <1>2, <3>1, <3>4
      <4>2. Top(frs[s[i]]) = "WaitThread"
        <5>1. s[i] \notin S /\ Waited(S, s, frs)
          BY <1>1, <2>6, <3>1 DEF Alone
        <5> QED BY <1>2, <3>1, <4>1, <5>1 DEF Waited
      <4>3. s[i] \in Thread \ {u, t}
        BY <1>2, <3>1, <3>2, <3>4
      <4> QED BY <1>5, <3>1, <4>2, <4>3
    <3> QED BY <3>3, <3>4
  <2>7. Waited(S2, q, frames')
    <3> SUFFICES ASSUME NEW i \in 1 .. Len(q), q[i] \notin S2
                 PROVE  \/ i < Len(q) /\ Top(frames'[q[i]]) = "WaitThread"
                        \/ i = Len(q) /\ Top(frames'[q[i]]) # "WaitThread" /\ Top(frames'[q[i]]) \in Active
      BY DEF Waited
    <3>1. CASE i \in 1 .. Len(r)
      <4>1. i < Len(q)
        BY <1>7, <2>1, <3>1
      <4> QED BY <2>6, <3>1, <4>1
    <3>2. CASE i = Len(r) + 1
      <4>1. q[i] = u /\ i = Len(q)
        BY <1>7, <2>1, <3>2
      <4> QED BY <1>5, <1>6, <4>1
    <3> QED BY <1>7, <2>1, <3>1, <3>2
  <2>8. Alone(S, ts, frs) /\ q \in Seq(Thread)
    BY <1>1, <2>1
  <2>9. Apart(S2, [ts EXCEPT ![e] = q])
    BY <2>2, Zenon
  <2>10. Alone(S2, [ts EXCEPT ![e] = q], frames')
    BY <2>5, <2>7, <2>8, <2>9, Replaced
  <2> QED BY <2>2, <2>10, Zenon
<1>8. CASE Switches(e, s, frs, t, u)
  <2>1. SetStack(e, Append(Front(s), u))
    BY <1>8 DEF Switches
  <2>2. /\ Front(s) \in Seq(Thread) /\ Len(Front(s)) = Len(s) - 1
        /\ \A i \in 1 .. Len(s) - 1 : Front(s)[i] = s[i]
    BY <1>1, <1>2, FrontAppend
  <2>3. /\ Len(Front(s)) \in Nat /\ Len(Front(s)) <= Len(s)
        /\ \A i \in 1 .. Len(Front(s)) : i \in 1 .. Len(s) /\ i < Len(s) /\ Front(s)[i] = s[i]
    BY <1>2, <2>2
  <2>4. \A i \in 1 .. Len(Front(s)) : s[i] = t => s[i] \in S
    BY <1>2, <2>3
  <2> HIDE DEF s, t
  <2> QED BY <1>7, <2>1, <2>2, <2>3, <2>4
<1>9. CASE Waits(e, s, frs, t, u) /\ Top(fs) = "WaitThread"
  <2>1. SetStack(e, Append(s, u))
    BY <1>9 DEF Waits
  <2>2. Len(s) <= Len(s)
    BY <1>2
  <2> HIDE DEF s, t
  <2> QED BY <1>2, <1>7, <1>9, <2>1, <2>2
<1> QED BY <1>4, <1>8, <1>9


LEMMA EffectAlone ==
  ASSUME NEW S, NEW S2, S \subseteq S2, NEW e \in Executor, NEW ts, NEW frs, Turn(S, e, ts, frs),
         RunEffect(e, ts[e], frs, Last(ts[e])), Apart(S2, thread_stack')
  PROVE  Alone(S2, thread_stack', frames')
<1> DEFINE t == Last(ts[e])
<1>1. DOMAIN frs = Thread /\ frs = [p \in Thread |-> frs[p]] /\ t \in Thread
  BY OwnTop DEF Turn, Calm
<1> HIDE DEF t
<1>2. ASSUME NEW fs, frames' = [frs EXCEPT ![t] = fs]
      PROVE  frames'[t] = fs /\ \A p \in Thread \ {t} : frames'[p] = frs[p]
  BY <1>1, <1>2
<1>3. \A fs : Ran(fs) => Top(fs) \in Active
  BY DEF Ran, Active
<1>4. CASE Stays(e, ts[e], frs, t)
  <2>1. PICK fs : Ran(fs) /\ frames' = [frs EXCEPT ![t] = fs]
    BY <1>4 DEF Stays
  <2>2. frames'[Last(ts[e])] = fs /\ \A p \in Thread \ {Last(ts[e])} : frames'[p] = frs[p] \/ Off(ts, p)
    BY <1>2, <2>1 DEF t
  <2>3. SetStack(e, ts[e])
    BY <1>4 DEF Stays
  <2>4. /\ S \subseteq S2 /\ e \in Executor /\ Turn(S, e, ts, frs) /\ Apart(S2, thread_stack')
        /\ Top(fs) \in Active
    BY <1>3, <2>1
  <2> QED BY ONLY <2>2, <2>3, <2>4, StaysAlone
<1>5. ASSUME NEW u \in Thread, Creates(e, ts[e], frs, t, u) PROVE Alone(S2, thread_stack', frames')
  <2>1. PICK fs : Ran(fs) /\ frames' = [[frs EXCEPT ![u] = Push(<<>>, "Start")] EXCEPT ![t] = fs]
    BY <1>5 DEF Creates
  <2>2. Off(ts, u) /\ SetStack(e, ts[e])
    BY <1>5 DEF Creates, Turn
  <2>3. frames'[t] = fs /\ \A p \in Thread \ {t, u} : frames'[p] = frs[p]
    BY <1>1, <2>1
  <2>4. frames'[Last(ts[e])] = fs /\ \A p \in Thread \ {Last(ts[e])} : frames'[p] = frs[p] \/ Off(ts, p)
    BY <2>2, <2>3 DEF t
  <2>5. /\ S \subseteq S2 /\ e \in Executor /\ Turn(S, e, ts, frs) /\ Apart(S2, thread_stack')
        /\ Top(fs) \in Active
    BY <1>3, <2>1
  <2> QED BY ONLY <2>2, <2>4, <2>5, StaysAlone
<1>6. CASE Parks(e, ts[e], frs, t)
  <2>1. PICK fs : fs # <<>> /\ Last(fs) = HostSuspended(next_handle) /\ frames' = [frs EXCEPT ![t] = fs]
    BY <1>6 DEF Parks
  <2>2. Top(fs) \in Active /\ SetStack(e, ts[e])
    BY <1>6, <2>1 DEF Parks, Top, HostSuspended, Active
  <2>3. frames'[Last(ts[e])] = fs /\ \A p \in Thread \ {Last(ts[e])} : frames'[p] = frs[p] \/ Off(ts, p)
    BY <1>2, <2>1 DEF t
  <2>4. S \subseteq S2 /\ e \in Executor /\ Turn(S, e, ts, frs) /\ Apart(S2, thread_stack')
    OBVIOUS
  <2> QED BY ONLY <2>2, <2>3, <2>4, StaysAlone
<1>7. ASSUME NEW u \in Thread, Switches(e, ts[e], frs, t, u) \/ Waits(e, ts[e], frs, t, u)
      PROVE  Alone(S2, thread_stack', frames')
  BY <1>7, ResumesAlone DEF t
<1> QED BY <1>4, <1>5, <1>6, <1>7 DEF RunEffect, t

(* The threads of no stack, as the model and as the proof say it *)
LEMMA OffStacks ==
  ASSUME IInv, NEW u
  PROVE  ~InSomeStack(u) <=> Off(thread_stack, u)
<1>1. \A e \in Executor : DOMAIN thread_stack[e] = 1 .. Len(thread_stack[e])
  BY DEF IInv, Typed
<1> QED BY <1>1 DEF InSomeStack, InStack, Off

(* Before any iteration that runs the top thread of e as it is *)
LEMMA OwnTurn ==
  ASSUME IInv, NEW S, Alone(S, thread_stack, frames), NEW e \in Executor, thread_stack[e] # <<>>
  PROVE  Turn(S, e, thread_stack, frames)
<1>1. \A u \in Thread : InSomeStack(u) \/ Off(thread_stack, u)
  BY OffStacks
<1> QED BY <1>1, CalmFrames DEF Turn

(* The threads of a stack but the top one *)
LEMMA PoppedApart ==
  ASSUME NEW S, NEW ts \in [Executor -> Seq(Thread)], Apart(S, ts), NEW e \in Executor, ts[e] # <<>>
  PROVE  /\ Apart(S, [ts EXCEPT ![e] = Front(ts[e])])
         /\ \A u : Off(ts, u) => Off([ts EXCEPT ![e] = Front(ts[e])], u)
<1> DEFINE s == Front(ts[e])
           new == [ts EXCEPT ![e] = s]
<1>1. /\ s \in Seq(Thread) /\ Len(s) = Len(ts[e]) - 1 /\ Len(ts[e]) \in Nat /\ Len(ts[e]) > 0
      /\ \A i \in 1 .. Len(ts[e]) - 1 : s[i] = ts[e][i]
  BY FrontAppend
<1>2. \A i \in 1 .. Len(s) : i \in 1 .. Len(ts[e]) /\ s[i] = ts[e][i]
  BY <1>1
<1>3. new[e] = s /\ \A d \in Executor \ {e} : new[d] = ts[d]
  OBVIOUS
<1> HIDE DEF s, new
<1>4. \A d \in Executor : \A i \in 1 .. Len(new[d]) : i \in 1 .. Len(ts[d]) /\ new[d][i] = ts[d][i]
  BY <1>2, <1>3
<1>5. Apart(S, new)
  <2> SUFFICES ASSUME NEW c \in Executor, NEW d \in Executor, NEW i \in 1 .. Len(new[c]),
                      NEW j \in 1 .. Len(new[d]), new[c][i] = new[d][j]
               PROVE  new[c][i] \in S \/ (c = d /\ i = j)
    BY DEF Apart
  <2>1. i \in 1 .. Len(ts[c]) /\ j \in 1 .. Len(ts[d]) /\ new[c][i] = ts[c][i] /\ new[d][j] = ts[d][j]
    BY <1>4
  <2>2. ts[c][i] = ts[d][j] /\ Apart(S, ts)
    BY <2>1
  <2>3. ts[c][i] \in S \/ (c = d /\ i = j)
    BY ONLY <2>1, <2>2, c \in Executor, d \in Executor DEF Apart
  <2> QED BY <2>1, <2>3
<1>6. \A u : Off(ts, u) => Off(new, u)
  BY <1>4 DEF Off
<1> QED BY <1>5, <1>6 DEF new, s

(* and when the result of the thread above was handed down *)
LEMMA HandedTurn ==
  ASSUME IInv, NEW S, Alone(S, thread_stack, frames), NEW e \in Executor,
         Len(thread_stack[e]) > 1, mode(Last(thread_stack[e])) = "Result",
         mode(Last(Front(thread_stack[e]))) = "Waiting"
  PROVE  Turn(S, e, [thread_stack EXCEPT ![e] = Front(thread_stack[e])], HandedDown(thread_stack[e]))
<1> DEFINE stack == thread_stack[e]
           s == Front(stack)
           frs == HandedDown(stack)
           ts == [thread_stack EXCEPT ![e] = s]
<1>1. stack \in Seq(Thread) /\ stack # <<>> /\ Len(stack) \in Nat /\ Len(stack) > 1
      /\ thread_stack \in [Executor -> Seq(Thread)]
  BY DEF IInv, Typed
<1>2. /\ s \in Seq(Thread) /\ s # <<>> /\ Last(stack) \in Thread /\ Last(s) \in Thread
      /\ Calm(frs) /\ Ran(frs[Last(s)])
      /\ \A u \in Thread \ {Last(stack), Last(s)} : frs[u] = frames[u]
  BY <1>1, HandsDown
<1>3. /\ Len(s) = Len(stack) - 1 /\ Last(stack) = stack[Len(stack)]
      /\ \A i \in 1 .. Len(stack) - 1 : s[i] = stack[i]
  BY <1>1, FrontAppend
<1>4. Last(s) = s[Len(s)] /\ Len(s) \in Nat /\ Len(s) > 0
  BY <1>2, FrontAppend
<1>5. Last(s) = stack[Len(stack) - 1]
  BY <1>1, <1>3, <1>4
<1>6. Apart(S, thread_stack) /\ \A d \in Executor : Waited(S, thread_stack[d], frames)
  BY DEF Alone
<1>7. ts[e] = s /\ \A d \in Executor \ {e} : ts[d] = thread_stack[d]
  BY <1>1
<1>8. Apart(S, ts) /\ \A u : Off(thread_stack, u) => Off(ts, u)
  BY <1>1, <1>6, PoppedApart
<1> HIDE DEF frs
<1>9. \A d \in Executor \ {e} : \A i \in 1 .. Len(thread_stack[d]) :
        thread_stack[d][i] \in S \/ Top(frs[thread_stack[d][i]]) = Top(frames[thread_stack[d][i]])
  <2> SUFFICES ASSUME NEW d \in Executor \ {e}, NEW i \in 1 .. Len(thread_stack[d]),
                      thread_stack[d][i] \notin S
               PROVE  frs[thread_stack[d][i]] = frames[thread_stack[d][i]]
    OBVIOUS
  <2>1. thread_stack[d][i] \in Thread
    <3>1. thread_stack[d] \in Seq(Thread)
      BY <1>1
    <3> QED BY <3>1
  <2>2. Len(stack) \in 1 .. Len(stack) /\ Len(stack) - 1 \in 1 .. Len(stack)
    BY <1>1
  <2>3. thread_stack[d][i] # stack[Len(stack)] /\ thread_stack[d][i] # stack[Len(stack) - 1]
    BY <1>6, <2>2 DEF Apart
  <2> QED BY <1>2, <1>3, <1>5, <2>1, <2>3
<1>10. Waited(S, s, frs)
  <2> SUFFICES ASSUME NEW i \in 1 .. Len(s), s[i] \notin S
               PROVE  \/ i < Len(s) /\ Top(frs[s[i]]) = "WaitThread"
                      \/ i = Len(s) /\ Top(frs[s[i]]) # "WaitThread" /\ Top(frs[s[i]]) \in Active
    BY DEF Waited
  <2>1. CASE i < Len(s)
    <3>1. i \in 1 .. Len(stack) /\ i < Len(stack) - 1 /\ s[i] = stack[i] /\ i < Len(stack)
      BY <1>1, <1>3, <1>4, <2>1
    <3>2. Top(frames[stack[i]]) = "WaitThread"
      BY <1>1, <1>6, <3>1 DEF Waited
    <3>3. stack[i] \in Thread
      BY <1>1, <3>1
    <3>4. Len(stack) \in 1 .. Len(stack) /\ Len(stack) - 1 \in 1 .. Len(stack)
      BY <1>1
    <3>5. stack[i] # stack[Len(stack)] /\ stack[i] # stack[Len(stack) - 1]
      <4>1. i # Len(stack) /\ i # Len(stack) - 1
        BY <1>1, <3>1
      <4> QED BY <1>6, <3>1, <3>4, <4>1 DEF Apart
    <3>6. frs[s[i]] = frames[stack[i]]
      BY <1>2, <1>3, <1>5, <3>1, <3>3, <3>5
    <3> QED BY <2>1, <3>2, <3>6
  <2>2. CASE i = Len(s)
    <3>1. s[i] = Last(s)
      BY <1>4, <2>2
    <3>2. Top(frs[Last(s)]) # "WaitThread" /\ Top(frs[Last(s)]) \in Active
      BY <1>2 DEF Ran, Active
    <3> QED BY <2>2, <3>1, <3>2
  <2> QED BY <1>4, <2>1, <2>2
<1> HIDE DEF s
<1>11. Alone(S, [thread_stack EXCEPT ![e] = s], frs)
  <2>1. /\ S \subseteq S /\ Alone(S, thread_stack, frames) /\ e \in Executor /\ s \in Seq(Thread)
        /\ Apart(S, [thread_stack EXCEPT ![e] = s])
    BY <1>2, <1>8
  <2> QED BY ONLY <1>9, <1>10, <2>1, Replaced
<1>12. \A r : [thread_stack EXCEPT ![e] = r] = [ts EXCEPT ![e] = r]
  BY <1>1
<1>13. \A u \in Thread : InSomeStack(u) \/ Off(ts, u)
  BY <1>8, OffStacks
<1>14. Turn(S, e, ts, frs)
  BY <1>2, <1>7, <1>11, <1>12, <1>13 DEF Turn
<1> QED BY <1>14 DEF s, frs


(* The modes that step expects, of threads that are not shared *)
LEMMA AloneModes ==
  ASSUME IInv, NEW S, Alone(S, thread_stack, frames), NEW e \in Executor, thread_stack[e] # <<>>
  PROVE  /\ \/ Last(thread_stack[e]) \in S
            \/ /\ mode(Last(thread_stack[e])) # "Waiting"
               /\ \/ Len(thread_stack[e]) = 1 \/ mode(Last(thread_stack[e])) \notin {"Stopped", "Suspended"}
                  \/ Top(frames[Last(thread_stack[e])]) = "HostSuspended"
         /\ Len(thread_stack[e]) > 1 =>
              \/ Last(Front(thread_stack[e])) \in S \/ mode(Last(Front(thread_stack[e]))) = "Waiting"
<1> DEFINE s == thread_stack[e]
<1>1. /\ s \in Seq(Thread) /\ Len(s) \in Nat /\ Len(s) > 0 /\ Last(s) = s[Len(s)] /\ Last(s) \in Thread
      /\ Waited(S, s, frames) /\ Good(frames[Last(s)])
  BY OwnTop DEF Alone, IInv
<1>2. ASSUME Last(s) \notin S
      PROVE  Top(frames[Last(s)]) # "WaitThread" /\ (Len(s) > 1 => Top(frames[Last(s)]) \in Active)
  BY <1>1, <1>2 DEF Waited
<1>3. ASSUME Last(s) \notin S
      PROVE  /\ mode(Last(s)) # "Waiting"
             /\ Len(s) > 1 => \/ mode(Last(s)) \notin {"Stopped", "Suspended"}
                              \/ Top(frames[Last(s)]) = "HostSuspended"
  BY <1>1, <1>2, <1>3, ModeTop DEF mode, Active
<1>4. Len(s) > 1 \/ Len(s) = 1
  <2> DEFINE n == Len(s)
  <2>1. n \in Nat /\ n > 0
    BY <1>1
  <2> HIDE DEF n
  <2>2. n > 1 \/ n = 1
    BY <2>1
  <2> QED BY <2>2 DEF n
<1>5. ASSUME Len(s) > 1, Last(Front(s)) \notin S PROVE mode(Last(Front(s))) = "Waiting"
  <2>1. /\ Front(s) \in Seq(Thread) /\ Len(Front(s)) = Len(s) - 1
        /\ \A i \in 1 .. Len(s) - 1 : Front(s)[i] = s[i]
    BY <1>1, FrontAppend
  <2>2. Front(s) # <<>>
    BY <1>1, <1>5, <2>1
  <2>3. Last(Front(s)) = Front(s)[Len(Front(s))] /\ Last(Front(s)) \in Thread
    BY <2>1, <2>2, FrontAppend
  <2>4. Len(s) - 1 \in 1 .. Len(s) - 1 /\ Len(s) - 1 \in 1 .. Len(s) /\ Len(s) - 1 < Len(s)
    BY <1>1, <1>5
  <2>5. Last(Front(s)) = s[Len(s) - 1]
    BY <2>1, <2>3, <2>4
  <2>6. Top(frames[s[Len(s) - 1]]) = "WaitThread"
    BY <1>1, <1>5, <2>4, <2>5 DEF Waited
  <2> QED BY <2>3, <2>5, <2>6, ModeTop DEF IInv, mode
<1> HIDE DEF s
<1>6. /\ Last(s) \in S \/ (mode(Last(s)) # "Waiting" /\ (\/ Len(s) = 1 \/ mode(Last(s)) \notin {"Stopped", "Suspended"}
                                                         \/ Top(frames[Last(s)]) = "HostSuspended"))
      /\ Len(s) > 1 => Last(Front(s)) \in S \/ mode(Last(Front(s))) = "Waiting"
  BY <1>3, <1>4, <1>5
<1> QED BY <1>6 DEF s

(* An iteration that fails pops the finished thread above one that does not wait for it. *)
LEMMA FailsAlone ==
  ASSUME IInv, NEW S, NEW S2, S \subseteq S2, Alone(S, thread_stack, frames), NEW e \in Executor,
         StepFails(e), Apart(S2, thread_stack')
  PROVE  Alone(S2, thread_stack', frames')
<1> DEFINE stack == thread_stack[e]
           s == Front(stack)
<1>1. /\ stack # <<>> /\ thread_stack' = [thread_stack EXCEPT ![e] = s] /\ frames' = frames
      /\ mode(Last(stack)) = "Result" /\ BadThreadMode(e)
  BY DEF StepFails, BadThreadMode
<1>2. /\ stack \in Seq(Thread) /\ Len(stack) \in Nat /\ Len(stack) > 0
      /\ s \in Seq(Thread) /\ Len(s) = Len(stack) - 1 /\ \A i \in 1 .. Len(stack) - 1 : s[i] = stack[i]
  BY <1>1, StackType, FrontAppend
<1>3. Waited(S2, s, frames')
  <2> SUFFICES ASSUME NEW i \in 1 .. Len(s), s[i] \notin S2
               PROVE  i < Len(s) /\ Top(frames'[s[i]]) = "WaitThread"
    BY DEF Waited
  <2>1. i \in 1 .. Len(stack) /\ i < Len(stack) /\ s[i] = stack[i]
    BY <1>2
  <2>2. Waited(S, stack, frames) /\ s[i] \notin S
    BY DEF Alone
  <2>3. Top(frames[stack[i]]) = "WaitThread"
    BY <1>2, <2>1, <2>2 DEF Waited
  <2>4. i # Len(s)
    <3> SUFFICES ASSUME i = Len(s) PROVE FALSE
      OBVIOUS
    <3>1. s # <<>> /\ Len(stack) > 1
      BY <1>2
    <3>2. Last(s) = s[i] /\ s[i] \in Thread
      <4>1. s \in Seq(Thread) /\ s # <<>>
        BY <1>2, <3>1
      <4> HIDE DEF s
      <4>2. Last(s) = s[Len(s)] /\ Last(s) \in Thread
        BY <4>1, FrontAppend
      <4> QED BY <4>2
    <3>3. mode(Last(s)) = "Waiting"
      BY <2>1, <2>3, <3>2, ModeTop DEF IInv, mode
    <3>4. mode(Last(s)) # "Waiting"
      BY <1>1, <3>1 DEF BadThreadMode
    <3> QED BY <3>3, <3>4
  <2>5. i < Len(s)
    BY <1>2, <2>4
  <2> QED BY <1>1, <2>1, <2>3, <2>5
<1> HIDE DEF s
<1>4. Apart(S2, [thread_stack EXCEPT ![e] = s])
  BY <1>1, Zenon
<1>5. Alone(S2, [thread_stack EXCEPT ![e] = s], frames')
  BY <1>1, <1>2, <1>3, <1>4, Replaced
<1> QED BY <1>1, <1>5, Zenon

LEMMA StepAlone ==
  ASSUME IInv, NEW S, NEW S2, S \subseteq S2, Alone(S, thread_stack, frames),
         NEW e \in Executor, step(e), Apart(S2, thread_stack')
  PROVE  Alone(S2, thread_stack', frames')
<1>1. CASE StepRuns(e)
  BY <1>1, StepRunsEffect, OwnTurn, EffectAlone DEF StepRuns
<1>2. CASE StepHandsDown(e)
  <2> DEFINE ts == [thread_stack EXCEPT ![e] = Front(thread_stack[e])]
  <2>1. /\ RunEffect(e, Front(thread_stack[e]), HandedDown(thread_stack[e]), Last(Front(thread_stack[e])))
        /\ thread_stack[e] \in Seq(Thread) /\ Len(thread_stack[e]) > 1
        /\ mode(Last(thread_stack[e])) = "Result" /\ mode(Last(Front(thread_stack[e]))) = "Waiting"
    BY <1>2, StepHandsDownEffect
  <2>2. Turn(S, e, ts, HandedDown(thread_stack[e]))
    BY <2>1, HandedTurn
  <2>3. ts[e] = Front(thread_stack[e])
    BY DEF IInv, Typed
  <2> HIDE DEF ts
  <2>4. RunEffect(e, ts[e], HandedDown(thread_stack[e]), Last(ts[e]))
    BY <2>1, <2>3
  <2> QED BY <2>2, <2>4, EffectAlone
<1>3. CASE StepFails(e)
  BY <1>3, FailsAlone
<1> QED BY <1>1, <1>2, <1>3 DEF step

(* The host leaves executor e with the one thread t, its own or one of no stack. *)
LEMMA SingleAlone ==
  ASSUME NEW S, NEW S2, S \subseteq S2, Alone(S, thread_stack, frames), NEW e \in Executor, NEW t \in Thread,
         Off(thread_stack, t) \/ (thread_stack[e] # <<>> /\ t = thread_stack[e][1]),
         thread_stack' = [thread_stack EXCEPT ![e] = <<t>>], Apart(S2, thread_stack'),
         Top(frames'[t]) # "WaitThread",
         \A p \in Thread \ {t} : frames'[p] = frames[p]
  PROVE  Alone(S2, thread_stack', frames')
<1>1. thread_stack \in [Executor -> Seq(Thread)] /\ Apart(S, thread_stack)
  BY DEF Alone
<1> DEFINE s == <<t>>
<1>2. s \in Seq(Thread) /\ Len(s) = 1 /\ s[1] = t
  OBVIOUS
<1>3. thread_stack' = [thread_stack EXCEPT ![e] = s]
  OBVIOUS
<1> HIDE DEF s
<1>4. Waited(S2, s, frames')
  BY <1>2 DEF Waited
<1>5. thread_stack[e] # <<>> => 1 \in 1 .. Len(thread_stack[e])
  <2>1. thread_stack[e] \in Seq(Thread)
    BY <1>1
  <2> QED BY <2>1, FrontAppend
<1>6. ASSUME NEW d \in Executor \ {e}, NEW i \in 1 .. Len(thread_stack[d]), thread_stack[d][i] \notin S2
      PROVE  Top(frames'[thread_stack[d][i]]) = Top(frames[thread_stack[d][i]])
  <2>1. thread_stack[d] \in Seq(Thread)
    BY <1>1
  <2>2. thread_stack[d][i] \in Thread
    BY <2>1
  <2>3. thread_stack[d][i] # t
    BY <1>1, <1>5, <1>6 DEF Off, Apart
  <2> QED BY <2>2, <2>3
<1>7. \A d \in Executor \ {e} : \A i \in 1 .. Len(thread_stack[d]) :
        thread_stack[d][i] \in S2 \/ Top(frames'[thread_stack[d][i]]) = Top(frames[thread_stack[d][i]])
  BY <1>6
<1>8. s \in Seq(Thread) /\ e \in Executor /\ Alone(S, thread_stack, frames) /\ S \subseteq S2
  BY <1>2
<1>9. Apart(S2, [thread_stack EXCEPT ![e] = s])
  BY <1>3, Zenon
<1>10. Alone(S2, [thread_stack EXCEPT ![e] = s], frames')
  BY ONLY <1>4, <1>7, <1>8, <1>9, Replaced
<1> QED BY <1>3, <1>10, Zenon

(* The main thread of an executor with no other gets the frames fs. *)
LEMMA MainAlone ==
  ASSUME IInv, NEW S, NEW S2, S \subseteq S2, Alone(S, thread_stack, frames), NEW e \in Executor,
         thread_stack[e] # <<>>, Len(thread_stack[e]) = 1, NEW fs, Top(fs) # "WaitThread",
         thread_stack' = thread_stack, frames' = [frames EXCEPT ![thread_stack[e][1]] = fs],
         Apart(S2, thread_stack')
  PROVE  Alone(S2, thread_stack', frames')
<1> DEFINE t == thread_stack[e][1]
<1>1. t \in Thread /\ thread_stack[e] \in Seq(Thread) /\ thread_stack \in [Executor -> Seq(Thread)]
  BY StackType DEF IInv, Typed
<1>2. thread_stack[e] = <<t>>
  BY <1>1
<1>3. thread_stack' = [thread_stack EXCEPT ![e] = <<t>>]
  BY <1>1, <1>2
<1>4. frames'[t] = fs /\ \A p \in Thread \ {t} : frames'[p] = frames[p]
  <2>1. DOMAIN frames = Thread /\ frames' = [frames EXCEPT ![t] = fs]
    BY DEF IInv, Typed
  <2> HIDE DEF t
  <2> QED BY <1>1, <2>1
<1>5. /\ S \subseteq S2 /\ Alone(S, thread_stack, frames) /\ e \in Executor /\ t \in Thread
      /\ thread_stack[e] # <<>> /\ t = thread_stack[e][1] /\ Top(frames'[t]) # "WaitThread"
      /\ Apart(S2, thread_stack')
  BY <1>1, <1>4
<1> HIDE DEF t
<1> QED BY ONLY <1>3, <1>4, <1>5, SingleAlone

LEMMA HostAlone ==
  ASSUME IInv, NEW S, NEW S2, S \subseteq S2, Alone(S, thread_stack, frames), HostStep,
         Apart(S2, thread_stack')
  PROVE  Alone(S2, thread_stack', frames')
<1>1. /\ frames \in [Thread -> Seq(FrameRecord)] /\ thread_stack \in [Executor -> Seq(Thread)]
      /\ \A t \in Thread : Good(frames[t])
  BY DEF IInv, Typed, FrameRecord
<1>2. \A function \in Function : Top(Push(<<>>, function)) # "WaitThread"
  BY Singles DEF Function, Kind
<1>3. ASSUME NEW e \in Executor, NEW t \in Thread, reset(e, t) PROVE Alone(S2, thread_stack', frames')
  <2>1. Off(thread_stack, t) /\ Top(frames[t]) # "WaitThread" /\ frames' = frames
    BY <1>1, <1>3, OffStacks, ModeTop DEF reset, mode
  <2> QED BY <1>3, <2>1, SingleAlone DEF reset
<1>4. ASSUME NEW e \in Executor, NEW t \in Thread, NEW function \in Function, start(e, t, function)
      PROVE  Alone(S2, thread_stack', frames')
  <2>1. Off(thread_stack, t) /\ thread_stack' = [thread_stack EXCEPT ![e] = <<t>>]
    BY <1>4, OffStacks DEF start
  <2>2. Top(frames'[t]) # "WaitThread" /\ \A p \in Thread \ {t} : frames'[p] = frames[p]
    BY <1>1, <1>2, <1>4 DEF start
  <2> QED BY <2>1, <2>2, SingleAlone
<1>5. ASSUME NEW e \in Executor, thread_stack[e] # <<>>,
             \/ take_result(e) \/ resume_err(e) \/ \E function \in Function : resume(e, function)
      PROVE  Alone(S2, thread_stack', frames')
  <2>1. /\ Len(thread_stack[e]) = 1 /\ thread_stack' = thread_stack
        /\ \E fs : Top(fs) # "WaitThread" /\ frames' = [frames EXCEPT ![thread_stack[e][1]] = fs]
    BY <1>5, OnMainChange
  <2> QED BY <1>5, <2>1, MainAlone
<1>6. ASSUME NEW e \in Executor, thread_stack[e] # <<>>,
             stop(e) \/ \E function \in Function : restart(e, function)
      PROVE  Alone(S2, thread_stack', frames')
  <2> DEFINE t == thread_stack[e][1]
  <2>1. t \in Thread /\ Head(thread_stack[e]) = t
    BY <1>6, StackType
  <2>2. thread_stack' = [thread_stack EXCEPT ![e] = <<t>>]
    BY <1>6, <2>1 DEF stop, restart
  <2>3. PICK fs : Top(fs) # "WaitThread" /\ frames' = [frames EXCEPT ![t] = fs]
    BY <1>2, <1>6, Singles DEF stop, restart
  <2>4. frames'[t] = fs /\ \A p \in Thread \ {t} : frames'[p] = frames[p]
    BY <1>1, <2>1, <2>3
  <2> QED BY <1>6, <2>1, <2>2, <2>3, <2>4, SingleAlone
<1>7. ASSUME NEW e \in Executor, DropExecutor(e) PROVE Alone(S2, thread_stack', frames')
  <2> DEFINE s == <<>>
  <2>1. s \in Seq(Thread) /\ Len(s) = 0 /\ frames' = frames /\ thread_stack' = [thread_stack EXCEPT ![e] = s]
    BY <1>7 DEF DropExecutor
  <2> HIDE DEF s
  <2>2. Waited(S2, s, frames')
    BY <2>1 DEF Waited
  <2>3. Apart(S2, [thread_stack EXCEPT ![e] = s])
    BY <2>1, Zenon
  <2>4. Alone(S2, [thread_stack EXCEPT ![e] = s], frames')
    BY <2>1, <2>2, <2>3, Replaced
  <2> QED BY <2>1, <2>4, Zenon
<1>8. ASSUME NEW e \in Executor, thread_stack[e] # <<>>, NEW h \in Handle,
             resume_host_op(e, h) \/ cancel_host_op(e, h)
      PROVE  Alone(S2, thread_stack', frames')
  <2>1. PICK kind \in {"Sequence", "SequenceErr"} : Resolve(e, h, kind)
    BY <1>8 DEF resume_host_op, cancel_host_op
  <2>2. PICK t \in Thread : /\ InStack(t, e) /\ Parked(t, h)
                            /\ frames' = [frames EXCEPT ![t] = Push(Front(@), kind)]
    BY <2>1 DEF Resolve
  <2>3. Front(frames[t]) \in Below
    BY <1>1, <2>2, GoodTop DEF Parked, Top, HostSuspended
  <2>4. Top(Push(Front(frames[t]), kind)) = kind
    BY <2>3, GoodPush DEF Kind
  <2>5. thread_stack[e] \in Seq(Thread) /\ Len(thread_stack[e]) \in Nat /\ Len(thread_stack[e]) > 0
    BY <1>1, <1>8, FrontAppend
  <2>6. ExecutorMode(e) = "HostSuspended" /\ thread_stack' = thread_stack
    BY <2>1 DEF Resolve
  <2> DEFINE n == Len(thread_stack[e])
  <2>7. ~(n > 1)
    BY <2>6 DEF ExecutorMode
  <2>8. n \in Nat /\ n > 0
    BY <2>5
  <2> HIDE DEF n
  <2>9. n = 1
    BY <2>7, <2>8
  <2>10. Len(thread_stack[e]) = 1
    BY <2>9 DEF n
  <2>11. t = thread_stack[e][1]
    BY <2>2, <2>5, <2>10 DEF InStack
  <2> QED BY <1>8, <2>2, <2>4, <2>6, <2>10, <2>11, MainAlone
<1>9. ASSUME thread_stack' = thread_stack,
             \A e \in Executor : \A i \in 1 .. Len(thread_stack[e]) :
                 frames'[thread_stack[e][i]] = frames[thread_stack[e][i]]
      PROVE  Alone(S2, thread_stack', frames')
  <2>1. \A e \in Executor : Waited(S2, thread_stack[e], frames')
    BY <1>9 DEF Alone, Waited
  <2> QED BY <1>1, <1>9, <2>1 DEF Alone
<1>10. ASSUME NEW t \in Thread, CollectThread(t) PROVE Alone(S2, thread_stack', frames')
  <2>1. Off(thread_stack, t) /\ thread_stack' = thread_stack /\ frames' = [frames EXCEPT ![t] = <<>>]
    BY <1>10, OffStacks DEF CollectThread
  <2>2. \A e \in Executor : \A i \in 1 .. Len(thread_stack[e]) :
          frames'[thread_stack[e][i]] = frames[thread_stack[e][i]]
    BY <1>1, <2>1 DEF Off
  <2> QED BY <1>9, <2>1, <2>2
<1>11. ASSUME abandoned_handles PROVE Alone(S2, thread_stack', frames')
  BY <1>9, <1>11 DEF abandoned_handles
<1> QED BY <1>3, <1>4, <1>5, <1>6, <1>7, <1>8, <1>10, <1>11 DEF HostStep

\* The stacks as they are, with the threads that were shared
OthersWait == Alone(shared, thread_stack, frames)

(* Whatever scripts, callbacks and the host do, each thread that was never shared waits *)
(* for the one above it on its stack. *)
LEMMA OthersWaitAlways == Spec => [](IInv /\ OthersWait)
<1>1. Init => OthersWait
  BY DEF Init, OthersWait, Alone, Apart, Waited
<1>2. ASSUME IInv, OthersWait, Next PROVE OthersWait'
  <2>1. shared' = shared \cup Doubled(thread_stack') /\ (HostStep \/ \E e \in Executor : step(e))
    BY <1>2 DEF Next
  <2>2. thread_stack' \in [Executor -> Seq(Thread)]
    <3>1. IInv'
      BY <1>2, <2>1, HostPreserves, StepPreserves
    <3> QED BY <3>1 DEF IInv, Typed
  <2>3. \A e \in Executor : DOMAIN thread_stack'[e] = 1 .. Len(thread_stack'[e])
    BY <2>2
  <2>4. ASSUME NEW e \in Executor, NEW d \in Executor, NEW i \in 1 .. Len(thread_stack'[e]),
               NEW j \in 1 .. Len(thread_stack'[d]), thread_stack'[e][i] = thread_stack'[d][j],
               ~(e = d /\ i = j)
        PROVE  thread_stack'[e][i] \in shared'
    <3>1. thread_stack'[e] \in Seq(Thread)
      BY <2>2
    <3>2. thread_stack'[e][i] \in Thread
      BY <3>1
    <3>3. <<e, i>> # <<d, j>>
      BY <2>4
    <3>4. thread_stack'[e][i] \in Doubled(thread_stack')
      BY <2>3, <2>4, <3>2, <3>3 DEF Doubled
    <3> QED BY <2>1, <3>4
  <2>5. Apart(shared', thread_stack')
    BY <2>4 DEF Apart
  <2>6. shared \subseteq shared'
    BY <2>1
  <2>7. Alone(shared', thread_stack', frames')
    BY <1>2, <2>1, <2>5, <2>6, HostAlone, StepAlone DEF OthersWait
  <2> QED BY <2>7 DEF OthersWait
<1>3. OthersWait /\ UNCHANGED vars => OthersWait'
  BY DEF vars, OthersWait
<1>4. IInv /\ OthersWait /\ [Next]_vars => OthersWait'
  BY <1>2, <1>3
<1> QED BY <1>1, <1>4, Inductive, PTL DEF Spec

(* All but the top thread of a stack wait, but for threads that were once at two places *)
(* of the stacks: nobody else ever changes the frames of a thread that waits. *)
THEOREM OneRunnerAlways == Spec => []OneRunner
<1>1. IInv /\ OthersWait => OneRunner
  <2> SUFFICES ASSUME IInv, OthersWait PROVE OneRunner
    OBVIOUS
  <2>1. /\ thread_stack \in [Executor -> Seq(Thread)]
        /\ \A e \in Executor : Waited(shared, thread_stack[e], frames)
    BY DEF OthersWait, Alone
  <2>2. \A e \in Executor : DOMAIN thread_stack[e] = 1 .. Len(thread_stack[e])
    BY <2>1
  <2>3. ASSUME NEW e \in Executor, NEW i \in 1 .. Len(thread_stack[e]), i # Len(thread_stack[e]),
               thread_stack[e][i] \notin shared
        PROVE  mode(thread_stack[e][i]) = "Waiting"
    <3>1. thread_stack[e] \in Seq(Thread)
      BY <2>1
    <3>2. thread_stack[e][i] \in Thread /\ Top(frames[thread_stack[e][i]]) = "WaitThread"
      BY <2>1, <2>3, <3>1 DEF Waited
    <3> QED BY <3>2, ModeTop DEF IInv, mode
  <2> QED BY <2>2, <2>3 DEF OneRunner
<1> QED BY <1>1, OthersWaitAlways, PTL

(* step returns BadThreadMode only over a coroutine that is parked or a thread that was *)
(* once at two places of the stacks. *)
THEOREM StepFindsModesAlways == Spec => []StepFindsModes
<1>1. IInv /\ OthersWait => StepFindsModes
  <2> SUFFICES ASSUME IInv, OthersWait, NEW e \in Executor, BadThreadMode(e)
               PROVE  LET stack == thread_stack[e] IN
                      \/ Len(stack) > 1 /\ Top(frames[Last(stack)]) = "HostSuspended"
                      \/ Last(stack) \in shared
                      \/ Len(stack) > 1 /\ Last(Front(stack)) \in shared
    BY DEF StepFindsModes
  <2> DEFINE stack == thread_stack[e]
  <2>1. stack # <<>> /\ stack \in Seq(Thread) /\ Len(stack) \in Nat /\ Len(stack) > 0
    BY StackType, FrontAppend DEF BadThreadMode
  <2>2. /\ \/ Last(stack) \in shared
           \/ /\ mode(Last(stack)) # "Waiting"
              /\ \/ Len(stack) = 1 \/ mode(Last(stack)) \notin {"Stopped", "Suspended"}
                 \/ Top(frames[Last(stack)]) = "HostSuspended"
        /\ Len(stack) > 1 => Last(Front(stack)) \in shared \/ mode(Last(Front(stack))) = "Waiting"
    BY <2>1, AloneModes DEF OthersWait
  <2>3. IF mode(Last(stack)) = "Result" /\ Len(stack) > 1
        THEN mode(Last(Front(stack))) # "Waiting"
        ELSE \/ mode(Last(stack)) = "Waiting"
             \/ Len(stack) > 1 /\ mode(Last(stack)) \in {"Stopped", "Suspended"}
    BY DEF BadThreadMode
  <2> HIDE DEF stack
  <2>4. \/ Len(stack) > 1 /\ Top(frames[Last(stack)]) = "HostSuspended"
        \/ Last(stack) \in shared
        \/ Len(stack) > 1 /\ Last(Front(stack)) \in shared
    <3>1. CASE mode(Last(stack)) = "Result" /\ Len(stack) > 1
      BY <2>2, <2>3, <3>1
    <3>2. CASE ~(mode(Last(stack)) = "Result" /\ Len(stack) > 1)
      <4>1. ~(Len(stack) > 1 /\ Len(stack) = 1)
        <5> DEFINE n == Len(stack)
        <5>1. n \in Nat
          BY <2>1
        <5> HIDE DEF n
        <5>2. ~(n > 1 /\ n = 1)
          BY <5>1
        <5> QED BY <5>2 DEF n
      <4> QED BY <2>2, <2>3, <3>2, <4>1
    <3> QED BY <3>1, <3>2
  <2> QED BY <2>4 DEF stack
<1> QED BY <1>1, OthersWaitAlways, PTL

=============================================================================
