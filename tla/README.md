# A TLA+ model of L3

L3 is a small dynamically typed language. Its implementation is a single-threaded
pipeline: lexer and LALR parser, a compiler from syntax trees to bytecode, an optional
optimizer, and a stack VM over a mark-and-sweep heap. This directory holds a formal model
of the stages that carry its logic (compiler, optimizer, VM, heap), a reference semantics of the
language they are checked against, the model-checking runs, and proofs: about the garbage
collector for heaps of every size, about the VM for all bytecode that is well-formed, and about the VM's stack
and upvalues for all bytecode whose stack heights can be reckoned, and about constant propagation for all
programs and all tables that are a fixpoint.

## 1. Inventory

| Component | Source | State it keeps | Operations | Who uses it |
|---|---|---|---|---|
| Heap | `l3_runtime/src/heap.rs` | `cells` (slotmap of `HeapCell`: data, mark bit), `added_since_last_sweep`, `next_gc_threshold` | `alloc`, `mark`, `sweep`, `should_collect` | VM, builtins, operators |
| Values, operators | `stack_value.rs`, `primitive.rs`, `heap_data.rs`, `conv.rs`, `function.rs` | none; they read and allocate in the heap | arithmetic, comparison, truthiness, indexing, formatting | VM, builtins, compiler's folding |
| VM | `l3_vm/src/lib.rs`, `stack.rs` | value stack, call frames, globals, upvalue cells, materialized constants, builtin values | one arm of `execute_loop` per instruction, `call_function`, `maybe_gc`, `gc_mark_roots` | driver |
| Builtins | `l3_vm/src/builtins.rs` | none; output and input streams in the heap's environment | 19 functions, two of which call other builtins (`map`, `count`) | VM |
| Compiler | `l3_compiler/src/{lib,compile,context,alias,fold}.rs` | chunks and constants emitted so far, stack of function contexts (locals, upvalues, scope depth), stack of loops | `compile_*`, scopes, name resolution, alias tracking, constant folding | driver |
| Optimizer | `l3_compiler/src/optimizer.rs` | bytecode, abstract stacks per block | dead code, constant propagation, folding, up to four rounds | driver, with `-O` |
| Bytecode | `l3_bytecode/src` | none | instruction set, indices, printer | compiler, optimizer, VM |
| Syntax tree | `l3_ast/src` | none | tree types, printers | parser, compiler |
| Parser | `l3_parser/src` | none beyond the generated tables | text to syntax tree | driver |
| Driver | `l3/src` | none | reads, chains the stages, prints | user |

How they interact: the parser gives the compiler a tree, the compiler gives the VM (through
the optimizer, when asked) a constant pool and chunks whose slots, offsets, constant and
upvalue indices the VM trusts without checking. The VM owns the heap. The collector runs
inside an instruction, at the safe points of `maybe_gc`; it knows of the values in the
stack, the frames, the globals, the builtins and the constants, and of nothing a Rust local
of the running instruction holds. A closure shares a captured variable with the frame that
declared it through an upvalue cell (`Rc<RefCell<..>>`), while the frame's stack slot keeps a
copy.

There is no concurrency, no persistence and no network, so there is nothing to lose,
reorder or recover. What is hard here:

* when the collector runs: at any safe point, with the object graph in any shape, cycles and
  freed keys included;
* the agreement between the compiler's idea of the stack and the stack at run time, on every
  path: branches, early returns, `break` and `continue`, chained comparisons, failed calls;
* two copies of one variable (stack slot and upvalue cell), and facts decided once at compile
  time (who shares a vector) about code that runs many times;
* what the optimizer takes for known about the stack: over joins of paths, rounds of loops, and
  calls that change captured locals; jumps that must follow code that moves, up to four times;
* error paths that leave an instruction half way;
* the end of the integers, the empty and the self-containing vector.

The properties that make each component correct: the collector frees what cannot be reached
and nothing else, always ends, and is invisible to the program; the VM never touches the
stack of a caller, keeps its references live, reports an error where it happened; the
compiler's bytecode never leaves the stack's range, leaves the stack empty at the end, and
comes to what the program means; the optimizer changes nothing of that, and what it takes for a
constant is one. `PROJECT.json` lists the hazards line by line, each with the
properties that would catch it.

## 2. Modules

| Module | What it is |
|---|---|
| `ObjectGraph` | closed sets and reachability of an object graph in which edges may lead nowhere |
| `Heap` | the heap, the collector one call of `mark` at a time, and every program a VM can run on it |
| `IdealHeap` | the abstract specification: a memory without a collector |
| `HeapProofs` | theorems about `Heap`, proved |
| `HeapRefinement` | the proof that `Heap` implements `IdealHeap` |
| `MCHeap` | instances of `Heap` for TLC |
| `Values` | values, arithmetic, comparison, indexing |
| `Builtins` | the builtin functions |
| `Bytecode` | instructions, constants, and what the VM takes for granted of them: targets and constants (`WellFormed`), heights of the stack and numbers of upvalues (`Verified`) |
| `VM` | the virtual machine, one action per instruction |
| `Compiler` | syntax trees to bytecode |
| `Propagation` | what the optimizer takes for known, one instruction at a time |
| `Optimizer` | bytecode to bytecode |
| `Pipeline` | compiler, optimizer and VM in a row |
| `KnownConstants` | what the optimizer takes for known, compared with the VM's stack; the VM on propagated programs, compared with the VM |
| `Semantics` | the abstract specification: what a syntax tree means |
| `Sources` | abbreviations for syntax trees |
| `MCVM` | chosen programs, each plain and optimized, and what each must come to |
| `MCSmall` | all programs of a small grammar, each plain and optimized, against `Semantics` |
| `ValuesProofs` | what operators and builtins make of values, proved |
| `CollectorProofs` | what a collection of the VM leaves, proved |
| `VMTurns` | one step of the VM, whatever the instruction, proved |
| `VMProofs` | types and references of `VM`, proved |
| `StackProofs` | the stack and the upvalues of `VM`, proved |
| `KnownProofs` | what the optimizer takes for known, and that propagation is invisible, proved |

`VM` extends `Builtins` and `Bytecode`, which extend `Values`; the proof modules extend one
another in the order of the table; `Optimizer` extends `Compiler` and `Propagation`; `Pipeline`
composes `VM` and `Optimizer`. `MCVM` and `MCSmall` run what `Pipeline` builds.

### Heap

Variables follow the code: `cells` with what each cell refers to, `marked`, `added`,
`threshold`; `slots` stands for every root that is one value (stack, globals, a frame's
`closure_info`), `held` for the upvalue cells that frames hold and `cellval` for what is in
them. `hand` is what the running instruction holds in a Rust local and no root does; `pending`
is the set of calls of `HeapCell::mark` still to be made, so that the recursive marking is a
sequence of steps and the order in which a graph is visited is arbitrary. `used` keeps keys
from being handed out twice: a slotmap key carries a version.

The mutator is not a program but every program: an action may allocate a cell that refers to
anything readable, store anything readable into a slot or a vector, capture a variable, enter
and leave calls. The collection starts at a safe point: when `added` has reached the threshold
and nothing is in hand, with the exception the code makes. `call_function` collects
after a builtin called through a value has returned, and after a partial application has made
its function, while the result is in a local. `IndirectCalls` says whether the program does
such calls. A cell freed that way is recorded in `lost`.

Vectors and functions are sets of references: the collector does not see order or
multiplicity. Mutation never reaches a pinned cell: those are functions and strings.

### VM, Values, Builtins, Bytecode

A heap is a function from live keys to objects, a value is tagged as in `StackValue` and
`Primitive`; integers wrap at `MaxInt`. `ip` is the variable of `execute_loop`, apart from the
`ip` in the frame, because the code writes it back only at calls and on its error path: an
error recorded by `Fault` keeps both the instruction it happened at and the one it is reported
at. Collections happen inside the instruction that has a safe point, in one step; `Heap` has
looked inside that step. Where an index is out of range, an operand is missing or a debug
build panics, `status` becomes `"invalid"`. Overflow of a counter is that or the wrapped value, as the build decides:
`ForLoop` goes on with it, and `range` (`WrappedRange`) makes the vector that the wrapped counter comes past the end
with, or, if it never does, the call does not come back (`Hangs`, status `"endless"`).

`saved` is history: the caller's stack under every frame.

`Bytecode` types the instructions as the enums of `l3_bytecode` do. `WellFormed` is what the code relies on
where it says `compiler invariant` or "within bounds by construction": every jump stays in its chunk, no path
runs off the end of one, and the constants, chunks and builtins an instruction names are there. The indices of slots and
upvalues are not part of it; they depend on the frame.

`Verified` is the compiler's bookkeeping of stack and upvalues. Nothing in the code checks it: the compiler keeps a list of locals, the VM
trusts what comes of it. `Pops`, `Pushes`, `Reads` and `SlotsNamed` say what the arm of each instruction
in `execute_loop` does to the stack, `Exits` where it leads and at which height. A chunk begins at its
function's arity (main at none), `HeightsFrom` follows all paths from there, and `StacksMatch` asks that all of them come to an
instruction at one height which is enough for what the instruction takes, reads and names; that a function has a result when it returns and the
main program nothing left. `Heights` is a recursive function, not a recursive operator, so that it can be proved about.
`UpvaluesMatch` asks that a `Closure` instruction captures as many cells as the chunk of its function names, and that main and a function pushed as a plain constant name none:
`compile_function_body` hands the list it counted to the one instruction that makes the closure, and the indices in the chunk are trusted from then on.

### Compiler

The compiler state is a record, each `compile_` function an operator on it; expressions,
statements and blocks go through one recursive operator, `CompileNode`. Mutability, scopes,
upvalue resolution (one level, first binding), alias flags, folding, the shared constants, jump
patching and the locals a loop hides are as in the code, defects included: `elif` branches
are not compiled, a block that returns does not end its scope. Source locations are left
out; that an error is reported at the right instruction is checked on instruction offsets.

### Propagation, Optimizer, KnownConstants

Per chunk and per round, as `Optimizer::optimize` has it: `RemoveDeadCode`, `PropagateConstants`,
`FoldConstants`. An abstract stack is a sequence of constant indices, or `Unknown`;
`Transfer` is the effect of a basic block with the stacks it hands on, `Fixpoint` the work list. The queue is kept in its order, though the result
does not depend on it. `Fold` is one pass over the windows, and `Remapped` moves the jumps. A
constant that folding makes is appended to the constants, as in the code; the tables of source locations
that move along with the instructions are left out.

`Propagation` holds what constant propagation does with one instruction: `TransferInstruction` its effect on an abstract stack, `Handed` what
`transfer` hands on at the end of a block, `Propagated` what becomes of the instruction. It is apart from `Optimizer`, whose passes are
recursive operators, so that it can be proved about.

`KnownConstants` ties optimizer and VM together. It takes the optimizer's tables as a parameter (`StacksKnown`; the runs give it `TablesOf`, the
tables that `propagate_constants` ends with; chunks with dead code, which goes first, have none). `AbstractStackSound` reads the abstract stack in
front of the instruction the VM is at, and compares height and constants with the frame. It covers entries that
`GetLocal` reads, through the cell of a captured local where there is one. `TablesStable` says that the tables are a fixpoint, looking at
instructions only: what the table says before an instruction is no more than any instruction that leads there hands on, or than the arity says where a chunk
begins. `Optimized` is an instance of `VM` for the programs in which every known local is replaced by its constant, and `PropagationInvisible` is
its specification: the refinement mapping is the identity, but for the bytecode.

### Semantics

An evaluator over syntax trees: lexical scopes that map names to places, closures that
share places, objects that are never collected, and control that goes on, breaks, continues, returns
or fails. It knows nothing of slots, upvalues, in-place appends, jumps or constants,
which makes it the specification the three stages together are held to (`MeansItsSource`). Where the implementation
deviates from it, section 5 says so.

## 3. Runs

| Run | Checks | What it shows |
|---|---|---|
| `HeapRooted` | `EveryReferenceLive`, `Tricolor`, `PinnedLive`, `HeapBounded`, `SweepExact`, `ImplementsIdealHeap` | direct calls only: no freed cell is ever met, builtins and constants stay, the heap is bounded, a sweep frees exactly the garbage, marking keeps its invariant; refinement: seen through what the program can reach, the heap is `IdealHeap` |
| `HeapIndirect` | `TypeOK`, `NoDangling`, `HeapBounded`, `CollectionEnds` | with indirect calls too: nothing but a result lost in `call_function` is ever freed early; the number of cells is bounded by threshold and allocations, and the threshold by the cells; marking ends on every graph, cycles included |
| `HeapLostResult` | `EveryReferenceLive` | violated: see section 5 |
| `VMEveryday` | `TypeOK`, `ProgramWellFormed`, `CallerStackIntact`, `EveryReferenceLive`, `BalancedAtEnd`, `ExpectedOutcome`, `KnownConstantsHold`, `ProgramVerified`, `WithinFrame`, `UpvaluesInRange`, `TablesStable`, `CapturedSlotsRest`, `ResultsHandedBack`, `PropagationInvisible`, `Terminates` | thirty-one programs, many after the repository's snapshot tests and eleven of them failing at run time, end and print what their source means, or fail as they should, plain and optimized alike, from every distance to the next collection; the optimizer's stacks are a fixpoint and agree with the VM's, and with its constants propagated each program behaves the same, step by step; what compiler and optimizer hand over is well-formed and has one stack height per instruction, no instruction reaches below its frame or past the upvalues of its function, no call loses its result, and no captured slot is given away |
| `VMEdges` | `DeviatesAsRecorded` | twenty programs that meet a defect of the code, plain and optimized: each goes wrong as recorded, in either build, and in no other way. What is recorded is what the code does, not what it should do (section 5) |
| `VMMisread` | `ExpectedOutcome` | violated: five defects in one program, see section 5 |
| `SmallPrograms` | `MeansItsSource`, `ProgramWellFormed`, `ProgramVerified` | every pair of nineteen fragments, in four contexts, plain and optimized, comes to what its source means, through well-formed bytecode with one stack height per instruction |
| `VMLeakedLocal`, `VMCapturedCounter`, `VMHandedOn`, `VMErrorLocation`, `OptimizerStack` | one each | violated: see section 5 |

Every property has a mutant in `PROJECT.json`: a plausible bug in a definition of the model
(`ForgettingFrames`, `MarkShallow`, `EndScopeShort`, `LoopControlKeeping`, ...; they stand next
to the definition they replace) that makes TLC find the property violated.

### Bounds, and why they are enough

* Heap runs: one pinned key and two more; in `HeapIndirect` three, none of them pinned, and no
  upvalue cell where the others have one; one slot (two in `HeapLostResult`), a threshold of one
  instead of 1024. `HeapIndirect` needs the third key: a result is
  lost to a first collection, its key is stored, and a second collection then meets it as a
  root whose cell is gone. With none pinned a first collection may leave one cell, and a second one none, after two more
  allocations: the threshold falls. Three cells make chains, cycles, sharing, a cell
  that is garbage next to one that is not, and a key that is dangling; the threshold of one
  makes every safe point after an allocation a possible collection, and makes the threshold move
  with the survivors. Keys are never reused, so each behaviour has a bounded number of
  allocations and ends: deadlock is not checked here. `HeapIndirect` has no symmetry, which is
  unsound for liveness. What these runs check for small heaps section 4 proves for all of them.
* VM runs: integers of 8 bits (`MaxInt = 127`), so that the overflow at the end of the range can
  be met; thresholds of 2 or 4, and `Prior`, the allocations made before the program
  begins, ranging over all values up to the threshold: the first collection falls at every
  safe point in turn. Everything else in a
  VM run is determined by the program, but for the outcomes an undefined read may have and for what
  the build decides when a counter overflows.
  Deadlock is checked: a running program always has a next instruction.
* The programs of `MCVM` are small; each is there for one hazard, and many restate a program of
  `l3/tests/snapshot`. A builtin that a program does not use by name is
  compiled to a direct call and needs no cell, so `BuiltinIds` lists only those that are used as values.
* `SmallPrograms`: each fragment is one construct (assignments, shadowing, closures, partial
  application, recursion, early returns, nested loops with `break` and `continue`, element stores,
  in-place appends, aliases, comparison chains), and they share the variables `x`, `v` and `f`, so that what one leaves
  behind the other meets. The contexts are top level, a function body, a loop of two rounds and a branch.
  The threshold of 8 is reached by the longer programs. `Regular` leaves out only pairs that meet a
  defect whose outcome `VMEdges` pins down: a shadowed variable captured, a captured local's slot
  used again, a partial application a collection may take, and, optimized, a stored element or a
  jump into a window. Everything else of the 19 x 19 x 4 x 2 is in: 2444 programs.

### Fairness

The VM is one thread. `run_gc` runs to its end before anything else happens, which is weak
fairness of the collector (`WF_vars(Collector)`), and `execute_loop` executes the next
instruction as long as the program runs, which is weak fairness of `Next` in `VM`. There it is
written with its enabling condition spelled out: `status = "run"`. The loops of programs get no
fairness of their own. `Terminates` is a property of the programs of `VMEveryday`; in `VMEdges` two loops end
only in one build or in none: a `for` loop to the greatest integer, which wraps and goes on in a release build, and a call of `range` there.

## 4. Proofs

`HeapProofs` proves, for any sets of keys, cells and slots, any pinned keys and any threshold
greater than zero:

| Theorem | Statement |
|---|---|
| `TypeCorrect` | `Spec => []TypeOK` |
| `NoUseAfterFree` | `Spec => []NoDangling` |
| `RootedProgramsSafe` | `Spec => []EveryReferenceLive`, for programs without indirect calls |
| `PinnedSurvive` | `Spec => []PinnedLive` |
| `MarkingSound` | `Spec => []Tricolor` |
| `CollectionExact` | `Spec => SweepExact` |

The assumptions are those of `HeapAssumption`: the pinned keys are keys, there are finitely
many of them, and `Inline` is not a key.

The argument. `NoDangling` is not inductive: that a sweep frees no cell in use needs that marking
has reached it. The inductive invariant `IInv` adds `Tricolor` (between the steps of a marking, a
marked cell refers to marked or pending ones, the roots are marked or pending, and nothing is
marked that the roots do not reach), `PinnedLive`, and `OnlyResultsLost`, which says that without indirect
calls nothing is lost, because a collection then starts with empty hands. Between collections the
step that matters is that an action reads only what is `Readable`, and readable
cells are live or lost. During marking the graph does not change, so reachability is
fixed and each call of `mark` moves a key from pending to marked. When `pending` is empty, the
marked cells are closed and hold the roots: they contain what is reachable, and by the other half
of the invariant are contained in it. That is `SweepExact`, and what keeps `NoDangling` over the sweep.
Reachability is defined as the intersection of closed sets, which needs no recursion, so that the two
halves are two lemmas about sets.

`MemoryBounded` has an invariant of its own, in two halves: the threshold is at least twice what survived
the last sweep, and each cell since then has added one; and where it is not at its base, it is at most that, so that it falls with the survivors. That the number of cells is a number at all
is why `TypeInv` says that finitely many keys were handed out.

`CollectorInvisible` is a refinement. The objects of `IdealHeap` are the cells that the roots and
the hand reach. Three facts carry it. What an instruction reads is reachable
(`ReadableReachable`), so each action of `Heap` maps to the action of `IdealHeap` with the same
arguments. A part of a graph that holds the roots and that no edge leaves reaches as far as
the whole (`ReachInPart`), so it does not matter that `Heap` keeps garbage and `IdealHeap` does not.
And a sweep leaves what the roots reach (`SweepFrees`), so it is a stuttering step. Without
indirect calls the hand is empty then; with them the theorem is false, which is the defect
`HeapLostResult` shows.

### The VM

`VMProofs` and the modules it extends prove, for any programs, builtins, integer width, threshold and number of
earlier allocations:

| Theorem | Statement |
|---|---|
| `VMTyped` | `Spec => []TypeOK` |
| `EveryReferenceStaysLive` | `Spec /\ ResultsHandedBack => []EveryReferenceLive` |
| `NextTurns` (`VMTurns`) | what one step leaves, whatever the instruction |
| `CallsOver` (`ValuesProofs`) | what a builtin makes of its arguments |
| `ReachedFromIsClosed` (`CollectorProofs`) | what a collection leaves |

Assumed are `VMAssumption`, which every run evaluates, and `ProgramsWellFormed`: the bytecode of every program is
`WellFormed`. The runs `VMEveryday` and `SmallPrograms` check that of all that compiler and optimizer hand over there
(`ProgramWellFormed`); for all source programs it stays an assumption, as it does in the code.

`EveryReferenceStaysLive` has a second hypothesis, `ResultsHandedBack`: no `Call` of a builtin or of a partial
application pushes a reference that its own collection has just freed. That is the defect `HeapLostResult` shows, seen
from the VM, and the theorem says that there is no other: all that allocates and collects in the middle of an
instruction (vectors, strings, closures, frames, the builtins that call builtins) leaves every reference live if the results of those
calls are.

The argument. Neither property is inductive. A step is not looked at twice, once for types and once for references:
`NextTurns` says of every action of `Next` that what it leaves on the stack, in frames, globals, upvalue cells and
memory is made of what it found, of the program's constants and of the cells it allocated. Made of means: over a set of keys
`K` and a set of upvalue cells `U`. For types, `K` is every number and `U` every cell there is (`VMInv`); for liveness `K` is
the live keys and `U` some set of cells (`LiveInv`). Both add `Basics`: the cells of builtins and constants are there and are
what they were at first (`Pinned`; no write reaches them, since they are no vectors), and the instruction pointer of every frame is
in its chunk (`Ready`), which the `Onward` lemmas carry through jumps, calls and returns.

`LiveInv` says "some set" because a cell that no frame and no live closure holds keeps its value after that value's
object is freed: it is an `Rc` in the code, dropped by then, and a number in the model. After a collection `U` shrinks to the cells whose value the collection
left (`Kept`), and `CollectionKeeps` shows that everything that is left still fits: with the roots and what they lead to
kept, a frame or a closure that is kept holds kept cells only. `ReachedFromIsClosed` supplies the rest, by counting: each round of `ReachedFrom`
adds a cell or adds none for good, and there are as many rounds as cells.

Recursive functions (`ReachedFrom`, `CaptureAll`, the folds in the builtins) are reached by induction over sets: the
library's induction theorems take a predicate, which the provers cannot instantiate, so that `ValuesProofs` begins with restating them
for sets (`SetInduction`, `BoundedInduction`), together with the existence of a function defined by recursion up to a bound
(`Recursion`).

### The stack and the upvalues

`StackProofs` proves, again for any builtins, integer width, threshold and number of earlier allocations:

| Theorem | Statement |
|---|---|
| `CallersStayIntact` | `Spec => []CallerStackIntact` |
| `EndsBalanced` | `Spec => []BalancedAtEnd` |
| `StaysWithinFrame` | `Spec => []WithinFrame` |
| `StackAlwaysSuffices` | `Spec => []StackSuffices /\ [][~Underflow]_vars` |
| `UpvaluesAlwaysInRange` | `Spec => []UpvaluesInRange` |
| `VerifiedNeverBreaks` | `Spec => [][~(Underflow \/ Broken)]_vars` and `Spec => [][TurnsInvalid => ForLoop \/ CallValueBuiltin \/ CallBuiltin]_vars` |

Assumed are `ProgramsWellFormed` and `ProgramsVerified`: the bytecode of every program is `Verified`. `VMEveryday` and
`SmallPrograms` check that of everything compiler and optimizer hand over there (`ProgramVerified`). It is not
true of everything: of the programs of `VMEdges` it rejects `earlyreturn`, `leakedattop` and `leakedlocal`, and `intowindow` once it is
optimized. These are the programs of the defects that derange the stack (section 5): the first three have a block with locals that returns on one path, in a loop, at top
level and in a function, after which the compiler counts locals that are not there; the last folds a window that a jump leads into.

The argument. `Verified` speaks of a chunk at a time and of heights above the frame; the theorems speak of one stack that all frames
share. What ties them is the inductive invariant `StackInv`, whose part for a running program is `Fits`: every frame begins above the
one before it (`Rising`); the running frame executes its instruction at the height reckoned for it (`RunsAt`); every
frame that waits is at a height reckoned for the instruction after its call, once what it called has left its
result or none (`Waiting`); and what was below a frame when it was entered is still there (`Preserved`). `Waiting` is what
`CallerStackIntact` and `WithinFrame` lack to be inductive: a return goes back to a height that was
promised when the call was made.

Most instructions stay in their frame, and one lemma does for all of them: an instruction that changes the stack only above
what it takes, by what `Exits` says, leaves `Fits` (`InFrameFits`). `CallFits`, `ReturnFits` and `MainReturns` are the rest. A call is
entered at the callee's arity, and that this is an entry of its chunk is no property of the bytecode alone: the function is an object on the
heap, which a partial application has copied and closures have bound. `Signed` in `VMTurns` says that each
function on the heap has chunk and arity of one of the constants; it is carried through every step with the types. That a chunk other than main's has only entries of its functions, and main's only its own, is why
no call can re-enter main (`FirstIsMain`) and a return with no frame below it is the end of the program.

`StackSuffices` is what the code checks before it acts (`Pop`, `Duplicate`) and what it takes for granted
(`pop`, `top`, `slice_get`): `StackAlwaysSuffices` says that the former never fails and the latter is in range.

The upvalues need more than the stack. A frame gets its upvalues from the function it was entered through, and that function may have been made in a frame
long gone, copied by a partial application, stored and collected around; so the invariant (`UpvaluesInv`) says of every function on the heap and of every frame that
it carries each upvalue its chunk names (`Complete`). Of every function but some: the constants that closures are made of are on the heap too, without upvalues (`Templates`), and
a call of one would break. What excludes that is an invariant about references. No instruction puts a template on the stack (`PushedComplete`: a `Closure` copies
it, and a `Constant` that pushes a function pushes one that names no upvalue), and by `NextTurns` a step makes its references of what it finds, so the VM's state stays over the keys
that are no templates: `Held(Nat \ Templates, ...)`, the same predicate that carries types and liveness, over a third set of keys. `ClosureComplete`
counts the cells that a closure captures (`CaptureAllCounts`, over any list of descriptors), the lemmas named `Complete` go through what else allocates, and `NextCallsComplete` through the frames.

With the stack, that leaves nothing for an instruction to find missing: `VerifiedNeverBreaks` says that verified bytecode reaches the status `"invalid"` only through a builtin that panics or a counter that
overflows. The third way in the code, an index out of range, is closed for all programs that pass `Verified`, which the compiler's defects of section 5 do not.

### Constant propagation

`KnownProofs` proves, for any programs, any tables, and any builtins, integer width, threshold and number of earlier allocations:

| Theorem | Statement |
|---|---|
| `KnownConstantsAlwaysHold` | `Spec /\ []CapturedSlotsRest => []KnownConstantsHold` |
| `PropagationStaysInvisible` | `Spec /\ []CapturedSlotsRest => PropagationInvisible` |

The first says that whatever the tables take for known is so, on every path; the second is the refinement: every behaviour of a program is, with the same
states, a behaviour of the VM that executes the program after constant propagation. Assumed are, besides `ProgramsWellFormed` and
`ProgramsVerified`, `TablesAreStable`: the tables are a fixpoint. `VMEveryday` checks that of what the work list of `propagate_constants` ends with
(`TablesStable`); how the fixpoint is reached, in which order and from where, is irrelevant. So the two halves of the
optimizer's argument are apart: that the result is a fixpoint is about the algorithm and is checked, that a fixpoint is enough is about the VM and is
proved. Both theorems speak of bytecode without `SetIndex`, whose abstract effect is wrong (`OptimizerStack`).

`CapturedSlotsRest` is a hypothesis because the code has a flaw there: `captured_locals` keeps a slot after its local has gone, and a local that is
later put in the slot is read from the cell of the one before. Of the programs of `VMEdges`, the two that show that (a slot used again, a captured loop local) violate it. The theorem
says that this is the only way to a wrong constant.

The argument. The inductive invariant `KnownInv` is `StackInv` and, for the running program, `KnownFits`, which has three parts. The table of the running frame agrees with it (`Agree`): an
entry that is known is that constant in the stack and, if the slot is captured, in its cell too. `KnownConstantsHold` asks only for what `GetLocal` reads, and is not inductive: a
`SetLocal` to one slot must not change another one through a shared cell. So each captured local of a frame has a cell of its own, and none of its function's (`Apart`). And a
frame that waits for a call knows nothing (`Forgetful`): the table behind a `Call` has only unknown entries, as `AfterCall` has it,
which is what makes a return safe whatever the callee did through captured cells. For a step in the frame, the lemmas named `Hands` show, instruction by instruction, that what the instruction hands
on (`Handed`) agrees with what it leaves, and stability brings that to the table of the next instruction. `CallKnown` and `ReturnKnown` are the rest.

For the refinement, the operators that do not look at the bytecode are shown equal in both instances of `VM` (the lemmas named `Same`), constants and roots
too, since propagation appends nothing; then each action at an instruction that stays is the same action of the propagated program (`Alike`), and a `GetLocal` that is replaced is a `Constant`
with the same effect, by `KnownInv` (`ReplacedAlike`).

### Only model-checked

That a collection ends and that a program ends: liveness under fairness is out of the prover's reach.
`ExpectedOutcome`, `MeansItsSource`, that compiler and optimizer hand over bytecode that is well-formed and
verified (`ProgramWellFormed`, `ProgramVerified`), and that the work list ends in a fixpoint (`TablesStable`): the operators of compiler, optimizer and semantics are
recursive operators, which the provers cannot take. `CapturedSlotsRest` and `ResultsHandedBack`, the hypotheses of theorems, are false of some programs and checked of those of `VMEveryday`.
That dead code and folding change nothing is checked through outcomes.

## 5. Where the code and its comments disagree

Each of these is a run that TLC ends with a counterexample.

* `HeapLostResult`: `call_function` (`l3_vm/src/lib.rs:832` and `:849`) collects before its result is on the
  stack. `builtins.rs:30` takes invalid references for impossible.
* `VMLeakedLocal`: after a block that ends in `return`, the compiler's slots are off
  (`compile.rs:27`); `stack.rs:156` takes the compiler's indices for infallible.
* `VMCapturedCounter`: `ForLoop` does not write the counter's cell (`l3_vm/src/lib.rs:414`), which the comment at
  `:363` calls the authoritative value.
* `VMHandedOn`: in a loop, in-place append reaches a vector that is shared
  (`compile.rs:478`); `instructions.rs:109` says it is only emitted for exclusive ownership.
* `VMErrorLocation`: an arithmetic error is reported at a stale instruction
  (`l3_vm/src/lib.rs:247`); the comment at `:141` says `frame.ip` is kept in sync.

* `OptimizerStack`: the abstract effect of `SetIndex` pops three entries (`optimizer.rs:524`), the
  instruction two (`l3_vm/src/lib.rs:571`), and constants move one slot down; `optimizer.rs:163` calls them
  provably known.

* `VMMisread`: one program, optimized, whose five lines of output are all wrong.
  * `elif` branches are not compiled (`compile.rs:180`): it prints 3 for 2. `examples/rle.l3:20` and
    `examples/black_jack.l3:164` use them.
  * A window is folded although a jump leads into it (`optimizer.rs:639`): 3 for the 7 of the plain program.
    `l3/tests/snapshot_tests.rs:230` asks that optimized programs print what plain ones do.
  * A function compared with itself is unequal once optimized (`optimizer.rs:725`): `compare_data` answers for data that,
    by `:719`, is not foldable.
  * A closure captures the first of two locals of a name (`context.rs:187`), and assigns to it although it is
    immutable: `3 2` for `3 3`. `context.rs:231` says such an assignment is rejected.
  * A captured slot keeps its cell when its local has gone (`l3_vm/src/lib.rs:676`): the second round of a loop reads the first round's
    variable, `0` for `1`. The comment at `:363` calls the cell authoritative.

`VMEdges` records what these and the other programs with a defect come to, so that a change in any of them is noticed. Its
`reusedslot` (a later local in a captured slot) is a second form of the last of these, and the comment at `lib.rs:363` is against it, too; `storedelement`
and `holdsitself` show `OptimizerStack` in what is printed, against `snapshot_tests.rs:230`. Others deviate from what a
reader of the language's grammar would expect, but no line of the repository was found that says otherwise: a `return` at top level that leaves a
value behind on one path, a `return` in a branch of a loop body with locals, after which the function
computes with the wrong slots (6 instead of 1), a descending range that runs no
round, a `for` loop to the greatest integer, `range` past it, printing a vector that holds itself. One is documented as a limit: a variable two functions out, which is
looked for among the globals (`context.rs:197`). `optimizer.rs:12` speaks of a fixpoint where `:27` stops after four rounds:
what a fifth round would fold stays as it is.

`KnownConstantsHold` does not speak of bytecode with `SetIndex`, for which `OptimizerStack` shows it
false.

## 6. Not modelled, and why

* Lexer, parser, printers, command line: text in, text out. Of the driver only the order of the stages
  is modelled (`Pipeline`).
* The error of `^` for an exponent of more than 32 bits (`primitive.rs:199`): no integer of the checked width is that large, and
  no property depends on it.
* `int` and `str` of text, `random`, `input`, `sleep`; the arithmetic and order of doubles; the text of
  messages and values; source locations and stack traces.
* The native stack: `mark`, comparison and formatting recurse, and can exhaust it.
* A second `execute` on one VM: the driver makes a VM for each program.

## 7. Plan

Done: the heap with its abstract specification, its proofs and the proof of the refinement; values, builtins, VM,
compiler and optimizer with the everyday and the edge programs; the reference semantics and the
small programs; type correctness and liveness of references of the VM, for all well-formed bytecode; the reckoning of stack heights,
checked on what the compiler emits, and the discipline of the stack and the range of upvalues for all bytecode that passes it; constant propagation, sound and invisible
wherever its tables are a fixpoint.

1. A refinement for folding and dead code, whose mapping moves the instruction pointers.
2. `ResultsHandedBack` for programs that call no builtin through a value and apply none partially, which makes
   `EveryReferenceStaysLive` unconditional for them, as `RootedProgramsSafe` is for the heap.
