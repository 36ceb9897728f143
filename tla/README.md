# TLA+ models of phodopus

phodopus is a sandboxed, stackless Lua VM in Rust. This directory holds TLA+
models of its core, the TLC configurations that check them on small instances,
and proofs that TLAPS checks. Paths are relative to the root of the repository;
`gc-arena` stands for `crates/phodopus-gc-arena/src`, `phodopus` for
`crates/phodopus/src`. `PROJECT.json` maps every definition to the lines it models.

To check: `tlc -config MCExecutor.cfg MCExecutor`, and so on for the runs of
`PROJECT.json`; `tlapm GcArenaProofs.tla`, and so on for the modules `*Proofs.tla`.

## 1. The system

| Part | State it keeps | Operations | What makes it correct |
|---|---|---|---|
| Collector (`gc-arena/context.rs`, `arena.rs`, `gc.rs`, `gc_weak.rs`, `lock.rs`, `barrier.rs`) | phase, colours, gray queues, list of boxes, sweep cursor | allocate, barriers, upgrade, resurrect, collect_debt, mark_debt, mark_all, start_sweeping, collect_all | nothing reachable is dropped, no weak pointer reads a freed header, garbage goes |
| Metrics (`gc-arena/metrics.rs`) | byte and object counters | mark_* updates, allocation_debt | counters never underflow, debt is paid |
| Dynamic roots (`gc-arena/dynamic_roots.rs`, `stash.rs`, `registry.rs`) | slots, reference counts, free list, handles outside of the arena | stash, clone, drop, fetch | a handle roots exactly its value for exactly its life |
| Thread finalization (`finalizers.rs`, `lua.rs`) | registered threads | prepare, finalize, between the collection calls | open upvalues are closed before their thread goes |
| Executor (`thread/executor.rs`) | stack of threads | step, resume, stop, restart, take_result, host operations | one runner per thread, no panic, every result or error finds its frame |
| Thread (`thread/thread.rs`) | frames, value stack, open upvalues | call, return_to, resume, unwind | frames nest as documented; bottoms, registers and upvalues agree |
| Host operations (`hostop.rs`) | registry of parked operations | park, resume, cancel, abandoned_handles | one answer per operation |
| Fuel and quota (`fuel.rs`, `memory.rs`, `lua.rs`) | budget, slice, flag of a quota yield | execute_with_fuel, enforce_memory_limit, check | the budget is a total, the quota holds, the call returns |
| Async callbacks (`async_callback.rs`) | future, locals, operation under exchange | poll, call, resume, yield from a future | every operation is answered in order |
| Interpreter (`thread/vm.rs`, `meta_ops.rs`, `opcode.rs`) | program counter, registers | one arm per operation | a program does what its source means; no check of the VM fires |
| Tables (`table/`) | array part, hash part | get, set, next, length, resize | an entry has one place; next visits every key once while visited keys are assigned; length is a border |
| Strings (`string.rs`) | set of interned strings, weak | intern | equal strings are one pointer, dead entries go |
| Modules (`stdlib/module.rs`) | loaded and loading modules | require | cycles are refused, a failed load leaves nothing behind |
| Compiler (`compiler/`) | scopes, registers, pending jumps, upvalues | lexer, parser, code generation | well-formed programs are accepted, others refused; the bytecode means the source |
| Patterns (`stdlib/string/`) | matcher state, cursors of gmatch and gsub | find, match, gmatch, gsub | the first match in the order of the manual, with its captures |
| Standard library (`stdlib/`), `phodopus-util` | none, or a sequence each | callbacks and sequences | as Lua's manual says |

**How they interact.** The host owns a `Lua`, which owns the arena. Everything in
the arena is touched either by a callback of the host (`enter`, `mutate`) or by a
collection call, never by both at once; `Lua::enter` pays the collector's debt
after each callback. A callback of the host steps an `Executor`, which runs
frames of `Thread`s until the fuel is used, work is parked, or all is done. Lua
frames, callbacks and sequences ask the executor for calls, resumes, yields
and host operations by the frames they push. The host keeps values across
callbacks as stashed handles and answers host operations by handle.

**What is hard.** Nothing runs in parallel, but nearly everything interleaves:
increments of the collector with rewrites of the object graph; iterations of several executors over
threads that scripts can pass around; host answers, cancellations and restarts
with parked operations; slices of fuel with collections and quota yields; the
three collection calls of a finalization; handles dropped long after the set they belong to.
Panics are caught by the host and leave the arena in use. `PROJECT.json` lists
the hazards at their lines.

## 2. Modules

| Module | Models | Extends / refines |
|---|---|---|
| `GcArena` | the collector and the operations of a callback | |
| `GcBoxes` | what the box list promises to `GcArena`: a set of boxes and its unswept rest | |
| `GcSweepList` | the intrusive list with `sweep` and `sweep_prev` | refines `GcBoxes` |
| `DynamicRoots` | slots, free list, handles | |
| `Finalizers` | the two stages over threads, closures, upvalues | takes complete marking from `GcArena` |
| `Executor` | executors, threads, frames, host operations | |
| `ExecutorQuota` | which iterations of `Executor` reach the quota test | EXTENDS `Executor` |
| `Sandbox` | execute_with_fuel, the quota | takes floating garbage from `GcArena` |
| `LuaValues`, `Constants` | values; conversions, arithmetic of constants, constant folding | |
| `RegisterAllocator`, `Opcodes` | registers of a function; instructions and their encoding | |
| `Parser` | tokens to syntax trees | EXTENDS `Constants` |
| `CompilerState`, `Compiler` | scopes, upvalues, labels and jumps; code of every statement and expression | EXTENDS the four above |
| `Tables` | array part, map, growth, `next`, `length` | EXTENDS `LuaValues` |
| `MetaOps` | metatables and the dispatch of metamethods | EXTENDS `Tables` |
| `BaseLibrary`, `TableLibrary` | functions of `base.rs`, `table.rs` | EXTENDS `MetaOps` |
| `PatternEngine`, `PatternLibrary` | patterns; `find`, `match`, `gmatch`, `gsub` | EXTENDS `TableLibrary` |
| `UpValues` | the list of open upvalues of a thread | |
| `Frames` | the frames of a thread and their part of the stack: calls and returns | EXTENDS `LuaValues`, `Opcodes` |
| `Vm` | a thread that executes bytecode: frames, stack, upvalues, callbacks, sequences, errors | EXTENDS `PatternLibrary`, `UpValues`, `Frames` |
| `LuaReference`, `PatternReference` | what programs and patterns mean, from the manual; models no code | |
| `GcArenaProofs`, `GcSweepListProofs`, `DynamicRootsProofs`, `FinalizersProofs`, `ExecutorProofs`, `SandboxProofs`, `RegisterProofs`, `TablesProofs` | theorems, section 4 | each EXTENDS the module it is named after; `RegisterProofs` EXTENDS `RegisterAllocator`, `UpValues` and `Frames` |
| `MC*` | symmetry sets for TLC; `MCLua` holds the programs | |

**GcArena.** Variables keep the names of the fields of `Context` and of the box
header. `op` is what the owner of the arena executes: a callback, a collection
call, a `MarkedArena` it holds, or nothing. A callback may hold any pointer it
read, allocated or upgraded (`held`, `heldWeak`), and writes a value only after
the barrier that gives a `&Write`, or through `forward_barrier`. Each
iteration of `do_collection_inner` is one action; a debt call may stop after any
of them, which covers every debt computation of `Metrics`. A `trace` that panics half way
leaves the subset of children it has visited; a panicking destructor ends the
call after the same state changes. Drop order inside of one value and the
contents of values without pointers are left out.

**GcBoxes / GcSweepList.** `GcArena` uses a set of boxes; the code uses a singly
linked list that is unlinked while new boxes are put in front of it.
`GcSweepList` has the pointers `all`, `next`, `sweep` and `sweep_prev` and its
property `ImplementsBoxes` is the abstract specification under the mapping
"boxes reached from `all`, boxes reached from `sweep`".

**DynamicRoots.** One action per operation on a handle or a set; the address of a set is used
again once neither the set nor a `Weak` is left, as an allocator may.

**Finalizers.** Marking is a single step here: the marked boxes are closed under
strong pointers and hold all that is reachable, and may hold one more thing that
died since marking began with all it reaches (`floating`). What is reached is the least
set that holds the start and is closed under the pointers. Mutation happens only between collections
(`stage = "mutate"`), as `lua.rs` runs all stages without giving control back.

**Executor.** One iteration of the loop of `Executor::step` is one action, with
everything the iteration does: the hand-over of a finished thread's result, one
run of the top frame, and the quota error at its end. What Lua code, callbacks
and sequences do is any of the things the executor lets them ask for: they may resume and
yield to any thread, of any executor, and park on a host operation in any of them. A panic is
a frame `Panic`, which keeps the handle of the operation that its thread was
parked on, if it was. `shared` is a history variable: the threads that were ever at two places on the
stacks of the executors. The code keeps no such record; the properties use it to say what holds of all others.

**Sandbox.** An iteration is what it costs, allocates, frees and leaves on top.
A collection finishes the cycle under way and may keep what died since
that cycle began.

**The Lua pipeline.** `MCLua` composes the parser, the compiler and the VM: an
initial state is a program as a sequence of tokens, compiled by `CompileSource`
into encoded instructions, and a step of `Vm` is one instruction, one call of a
callback, one poll of a sequence or one frame of unwinding, with all that the arm of the
code does. `Vm` models one thread; what several threads do is `Executor`'s
subject, where a Lua frame may ask for anything. The outcome is compared with
`LuaReference`, an evaluator of syntax trees with cells instead of
registers and signals instead of jumps. What is abstract:

- Integers have `IntBits` bits and registers and counts are below `Byte`, with
  the overflow rules of the code at these widths. Floats are what arithmetic makes of small integers; there is no NaN.
- Strings are sequences of bytes from a small alphabet, compared by content (the
  code interns them). Error messages and line numbers are left out; an error is its kind or value.
- The map of a table is a function from the numbers of its full buckets; a new entry gets the bucket behind the last. Capacities are those of
  hashbrown 0.14 and of `Vec`, external code. No growth is refused by the quota.
- A key that was killed compares by its identity, as the pointer comparison of the code does.
- An `async_sequence` of the table library is the list of table accesses it awaits,
  polled one at a time: metamethods run between any two of them. `concat` of
  many values is polled in the same way.
- The fields of a table constructor are flushed after `FieldsPerFlush` fields
  (the code's constant is larger) and jumps reach `JumpLimit` instructions.
- The cursor that a `gmatch` iterator owns is kept in a table that no program can reach.
- `Literal`, `Any`, `Class` and `Set` of a pattern are sets of bytes. `match_greedy`
  and `match_non_greedy` are the order in which the states after 0, 1, 2... repetitions are tried.
- Fuel and the output ceilings are left out: a sequence that the fuel interrupts
  goes on where it stood, which is why each turn of a loop is a step of its own.

The reference for patterns covers what the manual defines and the code does too: repetition of
single bytes, `^` at the start (not in `gsub` and `gmatch`), `$` at the end,
captures, `%b`, `%f` with sets that exclude the ends of the text, `gmatch` with patterns that match no empty text.
Where the engine departs from the manual is listed in section 6.

## 3. Runs

| Run | Shows | Bounds, and why they are enough |
|---|---|---|
| `gc_core` | all safety properties and the inductive invariant of the collector | 2 boxes, 1 strong and 1 weak pointer each, and the root: a black parent, a white child, and a weak pointer in every phase. The theorems remove the bounds |
| `gc_live` | collection calls return, garbage is dropped, empty boxes are freed | 2 boxes; the constraint `FewPointers` allows one pointer per value and one stored weak pointer at a time. Only callbacks store pointers, so that it cuts off no step of a collection call |
| `sweep_list` | the list implements the set | 4 boxes: head, two neighbours, and one allocated during the sweep |
| `dynamic_roots` | slots, counts and free list | 2 sets, 4 handles, 2 values, 3 slots: a free list of two with a slot in use |
| `finalizers` | nothing usable is lost | 2 threads, 2 closures, 2 upvalues: threads that hold each other through closures |
| `executor` | the only panic, who runs a thread, unexpected modes, shape of frames, one answer per operation | 2 threads that 2 executors may share, stacks of 2, 2 handles, 2 frames below a call: a coroutine above a main thread, two executors with one thread, an operation on each thread, an old and a new operation on one. The theorems remove the bounds |
| `sandbox` | budget, quota, return | slices of 3, costs to 2, budgets below, at and above a slice; quota 2 of 4 bytes |
| `lua` | programs mean what the reference says, end, and are accepted when well formed; the representations hold in every state | 4,032 programs: 5 kinds of loop with 3 captures and 4 exits; 12^3 blocks of scopes, labels, gotos and closures; tables with 6 kinds of keys in every order of 4 writes; lists with variable ends, methods, operators with and without metamethods, protected calls, shifts through metamethods, 913 calls of the pattern functions. `Byte` = 16 registers and `IntBits` = 6 so that blocks end, lists are flushed (`FieldsPerFlush` = 2) and integers overflow in small programs; `JumpLimit`, `MaxRecursion` and `MaxRecursionDepth` are above what the programs need |
| `finalizers_resurrection`, `executor_panic`, `executor_reported`, `executor_quota` | disagreements, section 6 | the smallest instance that shows them |

Symmetry is used for sets whose members nothing tells apart, and never with
liveness. `sweep_list` does not check deadlock, for the drop of the whole context is its end; neither do
`lua`, where a finished thread stops, and `executor_quota`, whose host only starts one executor and steps it.

**Fairness.** `GcArena!FairSpec` has weak fairness of `CollectWork`: a collection
call is a plain function and its loop runs until it returns. Nothing is assumed
of callbacks or of how often collections are called; `GarbageIsDropped` and
`EmptyBoxesAreFreed` have the completion of cycles as their premise.
`Sandbox!FairSpec` has weak fairness of `CallStep`: `execute_with_fuel` is a
plain loop, and every iteration of a step consumes fuel (`FUEL_PER_STEP` at least).
`ExecutorQuota!QuotaSpec` has weak fairness of the steps of an executor: the
host keeps stepping while it can. `Vm!Spec` has weak fairness of its steps: a host that steps a runnable thread gets them.

Every property has a mutant in the module it is about, a definition under a
comment "Mutant:", which is a plausible mistake in the code the
original models. TLC finds the property violated when the mutant takes its place.

## 4. Proofs

TLAPS proves the following for every number of boxes, pointers, sets, handles,
slots, threads, executors and frames, and for every budget and quota. Except for
what is said below, the assumptions are that sentinels are not members of the
sets they stand beside and that bounds are natural numbers.
Every safety property of `GcArena`, `GcSweepList`, `DynamicRoots`, `Finalizers`,
`Executor` and `Sandbox` that a passing run checks is a theorem. Of the Lua
pipeline, the operators that keep its data structures are proved correct:
registers, the list of open upvalues, the frames of a thread at a call and at a return, and tables.

**GcArenaProofs.** `Spec => []IInv`, and from it `TypeOK`, `ReachableIsLive`,
`WeakTargetsAllocated`, `ReachableUpgrades`, `MarkedIsComplete`,
`GrayBoxesQueuedOnce` and the action property `MarkedSurvives`.
`ReachableIsLive` alone is not inductive: it says nothing of what the sweep will
drop next. `IInv` adds

- `PhaseInv`: colours agree with the phase, and the gray queues hold exactly the gray boxes;
- `ClosedInv`: what the sweep will keep, the root and the callback point only to what it keeps. This is the reachability argument without reachability: a set closed under pointers that holds the roots holds all that is reachable;
- `MarkInv`: the tri-colour invariant, for weak pointers with `WhiteWeak` as second-best mark;
- `CallbackInv`: callbacks leave no pointers behind, a `&Write` is of a value that is not black while marking, and `mutate_root` implies that the root will be traced again.

One lemma for each group of actions shows that it preserves `IInv`; the step
from `MarkInv` to `ClosedInv` at `StartSweep`, when no gray box is left, is the
heart of it.

**GcSweepListProofs.** `ListIsHeap`, `SweepPrevLinked`, and the refinement
`Spec => ImplementsBoxes`. That the list holds the allocated boxes is not
inductive: unlinking the box behind `sweep_prev` must lose no other, and a step to
`next` must leave one box behind. `IInv` adds that the list has no cycle and that
no two boxes share a `next` (`List`), and where the two sweep pointers stand (`SweepInv`).
The boxes of a list are the least set closed under `next`, so that its
lemmas (what is reached after a box is put in front, unlinked or passed) are
proved with a closed set as witness and need no induction. `Obj` may be infinite.

**DynamicRootsProofs.** `Spec => []IInv`, from which `FetchIsRooted`,
`RefCountExact` and `FreeListVacant`, and with it `VacantIsReusable`.
`RefCountExact` counts handles with `Cardinality`, for which `Handle` is assumed
finite; the lemmas say how the set of owners of a slot grows and shrinks by one
handle. `VacantIsReusable` says that every set that holds the head of the free
list and follows its links holds all vacant slots; `add` takes the head off and
`dec` puts one on, and each adds or removes one member of such a set.

**FinalizersProofs.** `NoFinalizationMissed`, `OpenUpvaluesHaveThreads` and
`UsableSurvives`; a box is assumed to be a thread, a closure or an upvalue and only one of them
(`TypesAssumption`). A sweep keeps what the traced pointers reach, while Lua
code also goes from an open upvalue to the stack of a thread that nothing
traced points to. `IInv` says why the first is enough: pointers of what was not dropped
lead to what was not dropped (`ClosedInv`), upvalues are open on
registered threads only (`ThreadInv`), and once `finalize` ran the registered
threads are marked ones (`MarkedInv`), whose open upvalues and stacks are traced.

**ExecutorProofs.** Nothing is assumed of what scripts and hosts do with threads.

- `FrameShape`, `ParkedIsPending`, `AnsweredOnce` and `OnlyParkedPanics`. `IInv`
  describes each stack of frames completely (`Good`: one frame over waiting ones, an error
  over a Lua frame, or yielded values over `Yielded`), because unwinding and
  resuming uncover what lies under the top; and `HandleInv` says that a handle is not used again
  and that an operation with a registry entry was not answered. A stack that is `Good` meets no `panic!`
  and no failing `assert!` but the one of `Thread::resume` on a parked thread.
- `OneRunner` and `StepFindsModes`, from the additional invariant `Alone`: a thread that is at two
  places of the stacks is in `shared`; of the threads that are not, all but the top of a stack wait,
  and the top of a stack with more than one thread has something to run or is parked.

That there is no panic at all, and that no thread is ever shared, is what the documentation says and is not
true: section 6, `executor_panic`.

**SandboxProofs.** `BudgetIsTotal`, `ExhaustedIsSpent`
and the action property `HostRefusalIsRetained`. Properties of slice
boundaries are not inductive: within a slice the fuel counter holds what `remaining` does not show yet
(`Account`), and `step` is called and goes on only with fuel left (`FuelLeft`).
`HostRefusalIsRetained` follows what `enter` and the collection leave of the garbage: whatever stage
the cycle is in, no more than what floated through it.

`CallStepDecreases` is the variant behind `CallReturns`: every step of a call
returns to the host or lowers the natural number `StepsLeft`, three for each unit
of fuel that can still be charged and one for each point of the loop that is
passed without a charge. It is a natural number because of `BudgetIsTotal`.
Likewise `CollectAdvancesAlways` (in `GcArenaProofs`) is the variant behind
`CollectionReturns`: a step that leaves a collection call under way takes the
phase on, traces the root, blackens a box or passes an unswept one, and takes
nothing of this back; `BoxesAreFinite` says that this can not go on for ever. What
the prover can not do is the last step from a variant and fairness to `~>`.

**RegisterProofs.** `DefaultCorrect`, `AllocateCorrect`, `PushCorrect`,
`PopToCorrect` and `FreeCorrect`, for a register file of any size: what each
operation returns, that it takes or frees exactly the registers it should, that
the stack size covers all that was ever in use, and that it keeps `Well`, the agreement of
`first_free`, `stack_top` and `stack_size` with the registers that are marked.
The loops of the code are `Min` and `Max` of sets, whose
existence comes from the well-foundedness of `<`. `PushCorrect` excludes a block that ends with
the last register: there the `u8` sum overflows and the block is not
marked (section 6). `FreeCorrect` has the assertion of the code as its hypothesis.

`OpenUpvalueCorrect` and `CloseUpvaluesCorrect` are about the registers that
closures capture: `Captured`, the list sorted by stack index and naming every
open upvalue once (the run's `OpenUpvaluesSorted`, with the types of what it names), is kept by
both operations; `open_upvalue` never makes a second upvalue for an index, and
`close_upvalues`, which cuts the list at one place, closes exactly those at or
above the index. That the list is sorted is what makes one cut enough.
They are the only operations of `Vm` that change the list: `MakeClosure` folds
`OpenUpvalue` over the captures of a prototype, and every return, jump out of a block and
unwinding goes through `CloseFrom`.

`PushCallCorrect` and `ReturnToCorrect` are the two sides of a call, for any number of
arguments and results. Both end with `Placed`, which is what the run's `FramesOnStack`
says of a thread. After `push_call` the extra arguments lie in order between bottom
and base, the registers hold the arguments that have a parameter and nil
otherwise, and nothing below bottom has moved; its hypothesis is that a prototype has a
register for each fixed parameter. After `return_to` a Lua frame has exactly its registers, those
below the bottom of the call as they were, with the results in place,
in one register or in the program counter as the pending return says; its hypotheses are
`Nested` frames (the bottom of the call is at or above the base), and a pending
return that names a register of the frame. A return without a pending one is the panic of the code
and not part of the theorem; the run checks that it does not happen.

**TablesProofs.** What a table promises, for every content and every width of
integers. `WellFormed` says that a key has one place (the array part if it has
room for it, else one bucket), that a dead key has no value, and that the map
holds no more than its capacity; it implies `ReliedOn`, which the run `lua`
checks of every table in every state (`WellFormedIsReliedOn`).

- `NewTableCorrect` and `SetCorrect`: new tables are well formed and empty, and `set` keeps `WellFormed` and changes what `get` returns for its key
  only. The work is in the growth: `GrowArrayCorrect`, `ReserveThroughCorrect` and `ReserveMapCorrect` show that moving entries
  from the map to the array and dropping removed ones changes no read, and that
  the room that `set` then inserts into is there. `Room` is hypothesis of `SetCorrect`: the sizes of
  hashbrown's tables that the model lists go far enough for one more doubling.
- `ArrayMutCorrect`: the comment of `array_mut`, that writing to the array part in place has "no invariants that
  you must uphold", is true; the fast paths of `table.insert` and `table.remove` rest on it.
- `LengthCorrect`: the doubling and the binary search of `length` end at a border. The
  searches are recursive functions on bounded domains; what they return is shown by taking
  a counterexample of the least distance, which the well-foundedness of `<` gives.
- `EveryKeyHasPosition`, `NextCorrect`, `TraversalStable`: every entry has a
  position, `next` goes to the first later one with a value, and neither assigning
  to an entry that has a position nor removing any moves a position. Together: a
  traversal that only does these visits every entry that stays exactly once.

`LengthCorrect` and what follows from it assume that the array part is shorter
than the largest integer. `WidthAssumption` of `LuaValues` says that the width is
positive and, since the provers know nothing of `^`, that the powers of two up to it are too.

The inductive invariant of `GcArena` is an invariant of its run; those
of the other five were checked with TLC on the instances of the runs too, but are not kept in the configurations.

**Only model-checked**: liveness (`CollectionReturns`, `GarbageIsDropped`,
`EmptyBoxesAreFreed`, `CallReturns`, `Terminates`), which the prover does not do,
and the properties of the Lua pipeline as a whole (`TablesWellFormed`, `OpenUpvaluesSorted`,
`NoBytecodeError`, `FramesOnStack`, `ResultIsReference`, `AcceptsWellFormed`): `Vm` extends the
evaluators, parsers and matchers, which are recursive over data, and the bitwise operators, and
the prover supports no module that reaches either. For the first two the theorems about `Tables` and
`UpValues` cover every operation that touches the state they speak of; that a step of `Vm`
changes tables and upvalues only through these operators is read off its definitions and not proved.
Of `FramesOnStack` the two hard operations are proved, the call and the return; the other instructions
that move the top of the stack (varargs, generic loops, tail calls, unwinding) are only model-checked.

## 5. Not modelled

Components with status `not_modelled` or `partly` in `PROJECT.json`, with the reason. In
short:

- the pacing of the collector (floating-point; every pacing is covered by a free choice), the
  `Collect` implementations and the derive macro, stashing of typed handles;
- the lexer, string escapes, line numbers, backtraces and messages: formatting
  that no property tells apart;
- `string.pack`, `unpack` and `format`, `math`, `utf8`, `io`, `load`, `debug`,
  `table.concat`, `sort` and `move`: conversions, arithmetic or I/O. `sort` with a comparison that yields is the
  one of them that keeps state between polls, and would be the next to model;
- `require`: its searchers belong to the host; what it does to `package.loaded` is in section 6;
- interning of strings, the exchange of pointers inside of async callbacks, `Freeze` and serde.

## 6. Where code and documentation disagree

- `finalizers_resurrection`: `finalizers.rs` 34-35 says that `finalize` does not
  cause any resurrection. Re-marking may itself mark an upvalue that is open on
  a dead thread; `finalize` closes it over a value that was unmarked, possibly a thread that the
  same call resets. Lua code then finds a coroutine that has lost its frames.
- `executor_panic`: `threat-model.md` 122-124 says that the panics of the executor and thread modules
  "document states that cannot be reached by valid Lua bytecode", and `executor.rs` 209-212 that no script
  can make two executors drive one thread. `coroutine.running` hands out the main thread of an
  executor and nothing keeps a script of another executor from resuming or yielding to it. If it
  is parked on a host operation, `Thread::resume` takes it for suspended and panics (`thread.rs` 163).
- `executor_reported`: `async-trampoline.md` 78 says that a parked executor reports
  `HostSuspended`. Parked inside of a coroutine it stays `Normal`, and `step` returns `BadThreadMode`.
- `executor_quota`: `memory.rs` 40-41 says that the quota is checked after every iteration.
  It is not checked after an iteration that leaves a callback, a waiting, yielded
  or finished thread, and a script can arrange to have no others.

Observations that no run states as a property:

- A non-positive budget runs one slice, clamped to one unit of fuel, and may even finish the script;
  `lua.rs` 639-640 says that it "causes any execution to interrupt immediately". `BudgetIsTotal`
  is an upper bound and allows for that slice.
- `Executor::stop` and `restart` leave the registry entry of the operation their
  main thread was parked on: the thread still lives, so `abandoned_handles`
  does not report it and `pending_count` keeps counting it (`hostop.rs` 249).
- A pre-allocation check (`memory.rs` 203) compares the total, garbage included,
  and refuses at once. The executor refuses an excess that it sees twice
  (`quota_yielded`), also if it is new garbage, or if the call returned
  `FuelExhausted` in between and nothing was collected. `enforce_memory_limit` in
  the middle of a cycle also refuses what died since that cycle began;
  `HostRefusalIsRetained` says that it refuses nothing older.

Of the Lua pipeline, outside of the programs of the run `lua`:

- Registers at the limit: `RegisterAllocator::push` and `LoadNil` add two `u8`s
  whose sum is 256 when a block ends with the last register; `return_statement` converts a stack top of 256 to
  `u8` and unwraps; a concatenation whose first operand takes the last register is compiled for ever.
- A multiple assignment evaluates its targets after the values and the last one first (`compiler.rs` 1064). `LuaReference`
  has the same order, so that `t[i], i = 7, i + 1` would not be told apart from the manual; no program of the run has
  a target that depends on another.
- `SetList` refuses a base that is no table (`BadSetList`, `thread.rs` 808-810). The compiler emits none, and the check is not modelled.
- A captured `<const>` local can be assigned through the second reference a function makes to it.
- A backward `goto` closes the upvalues that were known when it was compiled
  (`compiler.rs` 1489); a label of an outer block that was seen already wins over one of the same name further down in the inner block.
- `for i = math.mininteger, n` never runs, as `NumericForPrep` wraps; a step of 0 never ends.
- `GenericForLoop` ends at any false value, `opcode.rs` 165 says "~= nil".
- `Constant::modulo` overflows for large operands and panics for the smallest integer and -1, where the instruction `Mod` does neither.
- `table.remove` of an empty table with metamethods raises; the comment at `stdlib/table.rs` 271 says that index and length zero are accepted, as the fast path does.
- `next` returns two nils at the end of a table.
- The float 2^63 as a key finds the entry of `math.maxinteger`: the conversion in `f64_to_i64` saturates, and the float of
  its result compares equal (`table/raw.rs` 780). In Lua they are two keys. `SetCorrect` treats them as one, as the code does.
- Patterns: the depth counter grows along the text, so that a repetition over more than
  about 250 bytes stops short; `gsub` with `^` anchors at every search; `gmatch` drops an empty match at the end of
  the text; `%1` in a pattern never matches; `()` captures an empty string; a bracket or parenthesis inside of a set is counted by the lexer;
  `(a)*` repeats the capture; `%f` sees no byte where the manual has `\0`; a function as replacement is refused.
- `require`: a loader that yields in a coroutine that is then given up leaves the `true` sentinel in `package.loaded`.

## 7. Plan

1. Done: the collector with its list, dynamic roots, finalizers, executor, sandbox,
   and the Lua pipeline from tokens to results with tables, metamethods and patterns.
2. Done: theorems for every safety property of these without the pipeline, the refinement of `GcBoxes`,
   the variants behind the liveness of collection calls and of `execute_with_fuel`.
3. Done: of the pipeline, the register allocator, the open upvalues, calls and returns, and the representation of tables.
4. Next: the instructions that move the top of the stack without a call, for `FramesOnStack` and `NoBytecodeError`, split from the
   evaluators as `Frames` was; `GarbageIsDropped` step by step, as the variants were.
5. Later: `table.sort`, `require`, an abstract specification of coroutines that `Executor` implements without sharing.
