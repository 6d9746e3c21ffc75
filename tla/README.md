# A TLA+ model of the pylang runtime

pylang compiles Python ahead of time to LLVM IR and links the result with a
runtime written in C++; the same runtime also backs a register-based bytecode
interpreter.  This directory models the parts of the runtime whose correctness
depends on the order of events: caches that must notice that classes and
instances changed, a table of modules that several threads fill, frames and
handlers that are left in many ways, registers that are given out again,
integers that leave the machine word; and, of the heap mode that the default
build leaves out, a collector that must not free what is still used.

Paths below are relative to the repository's `src/`.

## Inventory

| part | state | operations | what is hard |
|---|---|---|---|
| attributes (`runtime/PyObject.cpp`, `PyType.cpp`, `shape/`) | class dictionaries, a global type version, per instance a shape, a slot vector and perhaps a dictionary | `__getattribute__`, `__setattribute__`, `__dict__` | two representations of one namespace, offsets used without a check |
| attribute caches (`runtime/export/cache/rt_attr_cache.cpp`) | one entry per occurrence of `o.n` or `o.n = v` | `rt_getattr_ic`, `rt_setattr_ic` | an entry is used long after it was made |
| method caches (`rt_method_cache.cpp`, `rt_func.cpp`) | four entries per call, an eviction index | `rt_call_method_ic_ptrs`, `rt_call_method_raw_ptrs` | the same, and eviction |
| heap and collector (`memory/`), compiled out by default | cells, colours, the mark stack, the pause flag, `m_weakrefs` | `Heap::allocate`, `MarkSweepGC::run`, `ScopedGCPause` | any object graph, cycles, conservative roots, reused addresses |
| weak references (`runtime/modules/weakref/`) | referent, callback | `ref()`, proxy access | a referent that dies, an address that is used again |
| modules (`runtime/ModuleRegistry.cpp`, `Import.cpp`) | the registry, `sys.modules` | `get_or_register`, `register_module`, `InitGuard`, the import functions | several threads, failing initialisers |
| virtual machine and bytecode (`vm/`, `interpreter/`, `executable/bytecode/`) | frames on a value stack, the chain of Python frames, cleanup handlers, the exception stack | push and pop of frames, the evaluation loop, the instructions that raise, return and handle | many ways out of a block, assertions |
| generators (`runtime/GeneratorInterface.cpp`, `PyFrame.cpp`) | a suspended frame, two flags | create, send, iterate, yield | re-entry, exceptions at a yield, where the frame lies on the stack |
| lowering to bytecode (`executable/mlir/Dialect`, `Conversion`) | | what `try`, `with`, loops and jumps become | `finally` on every way out |
| register allocation (`executable/mlir/Target/PythonBytecode`) | live points, active and inactive intervals, free registers | linear scan, saving register 0 around calls | interference, loops, values with two definitions |
| integers (`runtime/taggered_pointer/`, `export/rt_op.cpp`, `PyNumber.cpp`, `PyInteger.cpp`) | none: a word or an object | arithmetic, equality, hash | two representations of one number, overflow |
| subscripts, slices, ranges (`PySlice.cpp`, `PyRange.cpp`, `__getitem__` of the sequences) | none | index, slice, reverse | bounds from the end, either direction, unchecked accesses |
| arenas (`memory/Arena*.hpp`, `ScopedRegion.hpp`) | blocks, a cursor, destructors | allocate, save, restore, reset | compiled out by this build |
| locks (`runtime/modules/thread/`) | a timed mutex and a flag | acquire, release | a failed acquire, nesting |
| globals (`PyModule.cpp`, `KeyVersionTracker.hpp`) | versions per key | load, store, delete | nothing reads the versions |
| compiler to LLVM IR, lexer, parser, built-in types and modules | | | see *Not modelled* |

`start_new_thread` runs its function to the end before it returns, so compiled
Python code is single-threaded and the caches are modelled that way.  The
registry is entered by C++ threads and is modelled with several.

How the parts touch: compiled code calls the caches; the caches read classes
and instances and fall back on `PyObject`; in the heap mode everything allocates
on the heap and any allocation may collect, and weak references are entries in a
table of the heap that sweeping prunes; imports write the registry and read
`sys.modules`.  The
bytecode path is separate from compiled code: the lowering decides where
handlers and copies of `finally` blocks stand, the allocator which registers
the operations use, and the interpreter runs both on the frames of the virtual
machine.

## Modules

| module | models |
|---|---|
| `AttrValues` | vocabulary: classes, instances, bindings, MRO lookup, the precedence rule of `__getattribute__` |
| `AttrSpec` | what attribute access promises: a dictionary per class, a namespace per instance, nothing else |
| `ObjectModel` | classes with the global version; instances with shape, slots and dictionary |
| `AttrIC` | `rt_getattr_ic` and `rt_setattr_ic` on top of `ObjectModel`; implements `AttrSpec` |
| `MethodIC` | `rt_call_method_ic_ptrs` and `rt_call_method_raw_ptrs` on top of `ObjectModel` |
| `ModuleRegistry` | the registry, its callers and `sys.modules` |
| `MarkSweepGC` | slab allocation, `MarkSweepGC::run` step by step, pauses, weak references |
| `Interpreter` | the frames of the virtual machine, handlers, exceptions, generators, and what the lowering makes of `try`, `with` and loops |
| `RegisterAllocation` | live intervals and linear scan over a well-formed program, then the run of the emitted code |
| `TaggedInt` | the integers of compiled code as operators, for any width |
| `Slicing` | positions, slices and ranges as operators, on the machine integers of `TaggedInt` |
| `ObjectModelProofs` | lemmas about classes and instances that the proofs about both kinds of cache share |
| `AttrICProofs`, `MethodICProofs`, `MarkSweepGCProofs`, `ModuleRegistryProofs`, `InterpreterProofs`, `RegisterAllocationProofs` | theorems about the module of that name |
| `IntegerProofs` | theorems about `TaggedInt` and `Slicing` |
| `MCAttrIC`, `MCMethodIC`, `MCRegisterAllocation` | instances for TLC; the last one makes the small programs |

A definition that precedes X with its parameters and is introduced as a mutant
of it, or named `M...`, is a plausible bug in X.  No specification uses one;
replacing X by it makes TLC report the property that the mutant is listed with
in `PROJECT.json`.

### Attributes

*State.*  `cdict[c]` is `TypePrototype::__dict__`; `gver` is
`PyType::global_version`.  For an instance, `shape[o]` is the sequence of names
on the path of `m_shape` from the root of its type (transitions are memoised,
so path and type identify the `Shape`), `slots[o]` is `m_slots` and `idict[o]`
is `m_instance_dict`.  `result` is what the last operation handed to the
program.

*Values* are functions (types with `__get__`), properties (`__get__` and
`__set__`) and plain values; no attribute operation tells more apart.
`descriptor_is_data` is called with the type of an attribute, never with the
attribute, and answers true for every type; the model follows the code, so a
function of the class wins over an instance attribute on `o.n`.

*Actions.*  Setting a class attribute advances the version first.  A store goes
to the dictionary if there is one, to an existing slot, or to a new slot at the
end of a longer shape.  `o.__dict__` copies the slots into a dictionary, once;
the program may keep that dictionary and write to it, or assign another.
Assignment of `__dict__` goes through `PyObject::__setattribute__` (`setattr()`,
the interpreter); what user code in a Python `__setattr__` or
`__getattribute__` does is not part of the operation that calls it.  The
runtime has no deletion of instance or class attributes and no assignment to
`__class__`.

*Caches.*  A read entry records type, version, shape and offset, a write entry
the shape afterwards as well.  The compiler emits them zeroed.  The table
`py::AttrCache`, consulted on a miss, has no variable: its lookup and update
functions each declare their own thread-local table, so a lookup never finds
anything.

*Abstraction.*  `ImplementsAttrSpec` maps a class to its dictionary and an
instance to `InstanceBinding`, the name space one sees through dictionary or
shape.  Every outcome the program sees must be one `AttrSpec` allows in that
state.

### Method calls

An entry records type, version, shape and function; the four slots are filled
in turn.  `next_evict_slot` is an 8-bit counter used modulo 4; 4 divides 256,
so the model keeps it modulo `PicSlots`.  Only functions are cached: the branch
for callables without `__get__` needs `descriptor_is_data` to deny, which it
does for static methods alone, and those have `__get__`.

### Module registry

Every method of `ModuleRegistry` holds its mutex throughout and is one step.
The variable `call` says how far the import of each thread is: looking
(`find`, `import_get_module`), in `get_or_register`, in the body of the
initialiser, with its module filled, between `register_module` and `commit`,
about to register, or running a module's code.  `Import` chooses between
calling an initialiser as `posix_module` does, calling it through
`create_builtin`/`register_all_builtins`, and the look-up of
`import_module_level_object`; `RunModule` is `import_frozen_module` or the
`PyInit_` function of a compiled program, both of which call
`import_add_module` first and run the module's code then.  An initialiser may
fail before its module is filled, which runs `~InitGuard`; an exception in a
frozen or compiled module ends the process and has no step.  Python code may
write `sys.modules` at any time.  `filled` is history: the module objects that
have got all their names.

An initialiser fills its module first and registers it then, so what `find`
answers for a built-in module is complete.  A frozen or compiled module is
registered first, marked as initialised, and filled by its code, although
`ModuleRegistry.hpp:43` says that `register_module` is for modules that are
initialised: `find` does hand it out before it is complete. But then a thread
is running its code, and none is left incomplete: both together are
`FoundIsFilled`.  `register_module` replaces the module of an entry that has
one, so two importers may end up with different objects for one name; the test
`RegisterDoesNotOverwrite` (`ModuleRegistry_tests.cpp:41`) asks only that
something is found.

### Heap, collector, weak references

All of this is the heap mode of the source, under `#ifndef PYLANG_USE_ARENA`.
It is not the memory manager of the built program: `CMakeLists.txt:281` and
`:284` turn the arena mode and the Boehm collector on, allocation and weak
references go through `runtime/compat.hpp:75-92`, and pauses are empty there.
Nor does the heap mode compile any more: `forward.hpp:34` makes `Value` an
`RtValue`, which `GarbageCollector.cpp:113` takes for a variant.  The model is
of the algorithm as it stands in the source; what its run and theorems show is
about that code and says nothing of a program that the default build makes.

Cells are the slots of one slab, so an address is an index, and a freed index
is handed out again (lowest first, as the chunk's bitmap does).  The program
may hold any set of cells and store any cell it holds into any other.
`Heap::allocate` is `CollectGarbage` (count, decide), the phases of
`MarkSweepGC::run` and then the allocation itself.  The stack is scanned
conservatively: `CollectRoots` adds an arbitrary set of occupied cells.
Destructors of cells run no Python code and have no step.  `stamp` and
`refStamp` are history variables that number objects, to tell an object from a
later one at the same address.  `has_weakref_object` does not tell them apart
(`Heap.hpp:427`): once a new object with a weak reference of its own has taken
the cell of a dead referent, an old weak reference is alive again and answers
with the new object.  `ReferentAliveIfNotFreed` is about the other direction.

Left out: the size classes of the slab (a cell never changes its block), static
memory (no cell of the slab), constructors that allocate (a cell is built in
the step that allocates it), `reset()`.

### Interpreter

*State.*  `vm` is `m_stack_frames`; a record is the stack frame of the virtual
machine and the Python frame of one activation together: `base` and `sp` are its
base and stack pointers, `pushed` what the running instruction will pop,
`cleanup` its handlers, `back` its `m_f_back`.
`current` is `Interpreter::m_current_frame`, kept apart from `vm` because the
code keeps it apart; `exc` the exception stack, which all Python frames share;
`gens` the generators with `m_is_running` and `m_invalid_return`; `pending` the
error an instruction has returned; `abort` the assertion that ended the
process.  The rest is history: `maker`, the frame that made a generator;
`leaked`, whether values of a frame stay on the stack behind an exception;
`due`, `jumped` and `escaped`, the `finally` blocks entered and not yet run, and
whether a frame has left a block in a way that a property excludes.

*The value stack.*  The code pushes the arguments of a call, and register 0 where
the allocator saves it, and pops them behind the instruction.  `Pushes` gives the
numbers of values that may be pushed around one instruction; `LocalCounts` and
`GenLocals` the slots a new frame takes for itself.  What the slots hold is not
modelled, only which belong to whom.

*Programs.*  An address is the path of compound statements around it, each with
the region of it that runs (body, conditions, handler, else, a copy of the
`finally` for the normal way, for an exception or for a return, the calls of
`__exit__`).  A statement is chosen freely: call, make, resume or iterate a
generator, yield, raise, bare raise, enter a `try`, `with` or loop, jump,
return.  So the behaviours are those of every structured program within the
bounds.  Regions and the instructions at their ends are those that
`MLIRGenerator.cpp` and `PythonToPythonBytecode.cpp` emit.

*What the code does that one would not expect*, all of it in the model:

- One handler is installed per `try`.  While its conditions, a handler or the
  `else` run, nothing leads to its `finally`; `break` and `continue` are plain
  branches.  The run `interp_finally` shows it.
- `ClearExceptionState` pops every item of the running frame.  A `try` inside a
  handler therefore leaves a bare `raise` of the outer handler, or the re-raise
  behind a `finally`, with an empty stack, and the assertion in `ReRaise.cpp:11`
  ends the process (`abort` = "bare raise", "reraise").
- A generator keeps the stack position at which it was made.  Resumed from a
  callee, its frame would begin below the caller's: the assertion at
  `VM.cpp:286` ends the process ("resume").  A generator function without locals
  meets the same assertion in the function that made it, when the call that
  resumes it pushes more than the call that made it, or when an exception has
  left values of its maker on the stack.
- The pops behind an instruction (`TranslateToPythonBytecode.cpp:1794`) are not
  reached when it raises.  What was pushed stays on the stack as long as the
  frame does.
- A register saved across a `yield` is pushed in front of it and popped when the
  generator goes on, which may by then lie just above another caller.  Its
  stack pointer is then below the caller's, and `pop_frame` asserts that it is
  not (`VM.cpp:330`; "pop").
- `push` does not test the end of the stack.  A program that pushes beyond it is
  followed up to that point only ("beyond").
- With the last frame the interpreter's current frame stays as it is
  (`BytecodeProgram.cpp:136` takes the exception from it).
- A return out of a `finally` that runs for an exception leaves the item on the
  exception stack, and `VM.cpp:129` asserts that there is none ("return").
- A return in a generator raises `StopIteration` in its own frame
  (`ReturnValue.cpp:21-25`), where handlers still installed may run.

`yield from` (unfinished, `YieldFrom.cpp:46`), `close` (does nothing) and
`throw` (does not exist) are left out.

### Register allocation

`Allocate` is one round of the linear scan for the value whose interval starts
next: expired and sleeping intervals are moved, an interval that already has a
register is woken, a register is chosen, and the saves around calls are noted.
A value is alive from its first to its last timestep, in the order of the
blocks.  Then `Execute` and `ForIter` run the code: a call writes register 0, a
saved one is pushed before and popped behind it, and a register holds the name
of the value last written to it.

A program is its operations in the order of the blocks, where control may go
from each (`flow`), the values that every way to an operation has defined
(`defined`, which dominance gives) and the values that are needed there
(`live`).  `WellFormed` says what the verifier of the dialect ensures of them:
operands are defined on every way to them; a definition comes first in the
order of the blocks, which are sorted by dominance; `live` solves the equations
of liveness, in which a `ForIter` defines its item on the way into the body and
nothing on the way out.  `Programs` is any set of such programs.
`MCRegisterAllocation` makes one from four shapes of control flow (an
expression, a conditional expression, a for loop, a while loop inside a for
loop) in which the kinds and the operands of the operations are free, and TLC
finds all of them well-formed.  `Covered` says that the order of the blocks
covers the lifetime of a value as the control flow gives it; `OperandsIntact`
assumes it, and `regalloc_iter` shows the case where it fails.  Two more cases
are excluded there and are in the model: a value that two calls may define is
saved around the first only (the `break` at `:715`), and a register saved
across a `yield` is popped from a stack that the yield has replaced.  The
branch at `:632-637` wakes an inactive interval without taking it from the
inactive ones and would end in its own assertion; `NeverWokenTwice` says that
it is not entered.  An operation has at most one result here: those that unpack
have several, none of them the result of a call, and differ only in that these
begin together.  `Push` does not test the end of the stack (`VM.hpp:196`).

### Integers

An odd word is an integer, shifted by one; an even one points to an int or bool
object.  `H` is 2^62 and `P` is 2^61 - 1 in the build.  `Fast` is what
`fast_*_i64` answer and what `IREmitter::emit_tagged_binary_op` emits inline,
`Slow` the big integers of the objects, `rt_binary` the way from one to the
other.  The module has operators only.  It has no run: its theorems speak of
every width and every number.

### Subscripts, slices, ranges

The sequences compute the position of an index in four ways, which `GetItem`,
`StringGetItem`, `AddFirst` and `DeleteItem` keep apart.  A slice is unpacked
(an omitted bound becomes the largest or smallest integer), adjusted to the
length and visited by a loop that accesses the elements without a test.
Overflow is part of it: the absolute value and the opposite of the smallest
integer wrap.  The numbers of a range have any size; a step of zero, which the
constructor accepts, is left out.  Operators only, no run.


## Runs

| run | result | bounds |
|---|---|---|
| `attr_classes` | all hold | base and derived class, the base with its own `__getattribute__` and `__setattr__`, one instance of each, one name, a function, a property and a plain value, three class mutations |
| `attr_shapes` | all hold | two instances of one class, two names, so both orders of adding them, three shared cache entries, one class mutation; the instances are symmetric |
| `method_pic` | all hold | two classes, the base with its own `__getattribute__`, two slots, two shapes, all kinds of binding, one class mutation |
| `method_shadow` | violated | a cached method is called although the instance has an attribute of that name |
| `registry` | all hold | two threads, a built-in module and one that is frozen or compiled |
| `registry_owner` | violated | two threads initialise one module |
| `gc` | all hold | three cells, four allocations, a collection at every one of them, pauses nested twice |
| `interp` | all hold | three frames on the stack, four frame numbers, one generator, a value stack of two slots and nothing pushed on it, two compound statements, three items on the exception stack |
| `interp_stack` | all hold | three frames on the stack, four frame numbers, a generator without locals, functions with one local or none, one value pushed or none, four slots, one compound statement, two items on the exception stack |
| `interp_finally` | violated | a `finally` that is never reached |
| `regalloc` | all hold | four registers, four shapes, plain operations, calls and yields, up to two operands |
| `regalloc_iter` | violated | the body of an inner while loop overwrites the iterator of a for loop |

Why the bounds are enough.  A cache entry goes wrong through one change
between filling and use; three class mutations allow fill, change, refill,
change.  Shapes confuse offsets when two orders of two names exist.  Three
cells give chains, shared cells and cycles of two with something outside; four
allocations with a collection at each let a cell survive a collection and meet
the next one, and force reuse of an address.  (A full slab ends a behaviour:
the code would add a chunk.)  Two
threads give every conflict over one entry.  Two compound statements give every
block nested in every region of another, and three frames a caller, a callee
and a generator resumed by either; a stack of two slots lets frames meet its end,
and one of four lets maker, callee and generator each push a value and leave one
behind.
Four registers let three values be alive beside register 0, and every shape fits:
the allocator's abort for want of a register is reachable too.  The heap,
interpreter and allocator runs do not check for deadlock: a program whose
allocations are spent may have nothing to do, and a program that is interpreted
or compiled ends, or an assertion ends it.

*Properties worth naming.* `HitAgreesWithGetattribute` and
`HitAgreesWithSetattribute` are the claim of the comment at
`rt_attr_cache.cpp:104`.  `ImplementsAttrSpec` is the whole of attribute
access. `PicEntriesValid` and `PicHitAgreesWithRaw` are its counterpart for
methods, with the one case excluded that `method_shadow` shows. `FoundIsFilled`
is what the three phases of the registry are for.  `TriColour` contains the
assertion in `mark_all_live_objects`, `RootsNotBlack` the one in `add_root`.
`FrameChainInSync` relates two lists that different functions push and pop.
`CalleesAbove` is the assertion of `pop_frame` for function calls, at every
moment and whatever was left on the stack; for generators it fails, as said
above.  `MakerMayResume` is what remains true of them: the maker may always
iterate over its generator with a `for` loop, as long as no exception has left
values of the maker on the stack.  `HandlersMatchNesting` compares the handlers
of a frame with the program text; it excludes frames that left a block by a
jump, whose handlers the code does not remove.  `FinallyRunsOnceUnlessLeft` is
what remains true of `finally`, `FinallyAlwaysReached` what a test says of it.
`OperandsIntact` is the purpose of the allocator; `RegistersNotShared` the
reason for it.

*Fairness.*  `ModuleRegistry`: each thread in an import takes its next step
eventually, which a preemptive scheduler grants; starting an import and writing
`sys.modules` are not fair.  `MarkSweepGC`: once `allocate` is called, the
thread runs it to the end; the program itself owes nothing.  The cache modules,
the interpreter and the allocator have no liveness properties and no fairness: an
interpreted program may run for ever.

## Proofs

The theorems hold for every value of the constants that the modules' named
assumptions allow: any finite or infinite set of classes, instances, names and
occurrences, any heap size and frequency.

`AttrICProofs` (theorems `TypeCorrect`, `SlotsFollowShape`, `CachesStayValid`,
`ReadHitSound`, `WriteHitSound`, `Refinement`, `ShapesGrow`).  The inductive
invariant is `TypeOK`, `SlotsMatchShape` and `CachesValid` together.  That a hit
is right is not inductive: it says nothing of entries no instance matches now
but one will match later.  `CachesValid` speaks of every entry with the current
version instead.  A class mutation makes all of them old at once, and the other
steps change neither classes nor version; what remains is that an offset in an
entry names the right slot of the entry's own shape, which follows from shapes
being sequences without repetition.  Refinement is by cases on the actions:
each is a step of `AttrSpec` under the mapping, or leaves it alone.

`MethodICProofs` (theorems `TypeCorrect`, `EntriesStayValid`,
`SlotsStayDistinct`, `HitSound`), for any number of slots.  The invariant is
`TypeOK`, `SlotsMatchShape`, `PicEntriesValid` and `PicSlotsDistinct`.  It has
the same heart as the one above: `TypeOK` says that no entry is newer than the
version, so a class mutation leaves none current.  A miss fills a slot only
when no slot matched, which is why two current slots never agree in class and
shape.  `SlotsMatchShape` is needed for the uncached path, which reads a slot
at an offset.  What instances and classes do in either module is proved once,
in `ObjectModelProofs`.

`MarkSweepGCProofs` (theorems `NoReachableCellFreed`, `TriColourHolds`,
`SweepIsPrecise`, `AddRootAssertion`, `WeakrefTableSound`, `LiveReferentsAnswer`,
`NoCollectionInScope`, `GCTypeCorrect`).  `ReachableFrom` is the least closed
set; two lemmas say that it is closed and least, which is all the proof uses,
so no induction over paths is needed.  The invariant `IInv` says what each
phase hands on: outside of sweep the occupied cells are closed under
references; while marking the coloured cells are occupied and reachable from
the roots found and no black cell refers to a white one; during sweep nothing
is grey, so the coloured cells are closed, contain the roots and are never
freed, and everything occupied behind the cursor is coloured; when the cursor
has passed the last cell the occupied cells are the coloured ones, hence closed
again.  Freeing a white cell changes references, but not those of coloured
cells, so what is reachable stays reachable.  The pauses need to know that of
the open scopes exactly the outermost will resume, and weak references that no
stamp is ahead of the count of allocations.

`IntegerProofs`, for `H` of at least 2 and `P` of at least 1.  `RoundTrip` and
`FitsIsNecessary`: exactly the numbers that `fits_tagged_int` accepts survive
the encoding.  `ArithmeticExact`: + - * are exact for every mixture of words and
objects, because the fast path answers only with a number that fits and
`flatten` keeps the number.  `FloorDivision`: the correction by one of the fast
path is floor division; `DivisionFits`: its results fit, so that the missing
range test of `fast_mod_i64` is sound.  `DivisionExact` and
`BigDivisionTruncates` say together when `//` and `%` are those of Python: the
big integers round towards zero, so a number beyond the word and different
signs give a wrong answer whenever there is a remainder.  `EqualKeysHashAlike`:
a dictionary finds an int under either representation.  Division is reduced to
that of natural numbers (`NatDivision`), where the provers know quotient and
remainder, and extended by the signs.

Its theorems about `Slicing` have no hypothesis but a width of at least 2, and
none for ranges.  Bounds and positions are linear and follow from the
definitions.  `SliceVisitsExactly` needs the number of steps: `Multiples` says
that the multiples of `s` up to `x` are `x \div s + 1`, by monotony of
products.  A backward slice is the same with the step negated; the smallest
integer, which cannot be negated, divides every distance to zero with either
sign.  Ranges are reduced to their distance and the size of their steps
(`RangeSteps`), from which `RangeCount`, `ReversedExact` and `LastItemLost`
follow.  A slice of a range is right where Python would cut neither bound
(`RangeSliceExact`) and has foreign numbers where a position before its stop
lies beyond the range (`RangeSliceNotCut`).

`ModuleRegistryProofs`, for any number of threads and modules, from the
assumptions that `Null` is no module object and that the two sentinels are
neither an entry nor a frame (`FoundFilledOrRunning`, `CommitFindsModule`,
`ModulesStay`, `RegistryTypeCorrect`, `WaitNeverEntered`).  None of them is
inductive alone.  `create_builtin` registers once more what the initialiser
gave it, so that module must have been filled and must still be; `commit` marks
an entry without looking, so its module must still be there.  `FrameOK` says
what a thread relies on at each place of an import, and `ModuleIffInitialized`
that an entry has a module exactly when it is marked.  Each operation is shown
once to leave a table that is proper and loses no module, and to empty no
module that can be found; a step of one thread then disturbs no other, since
the others rely on nothing but that (`StepByFrame`).  The part of
`FoundIsFilled` about modules that are not built in needs in addition who is
where: an initialiser's steps are for built-in modules only, and what
`import_module_level_object` registers comes from `sys.modules`, so that
whoever registers an unfilled module goes on to run its code (`CallersOK`).
`WaitNeverEntered`: `get_or_register` would wait only at an entry that has a
module and is not initialised, which the invariant excludes.

`InterpreterProofs` (theorems `TypeCorrect`, `ChainInSync`, `RunsOnce`,
`CalleesStacked`, `MakersResume`, `HandlersNest`, `FinallyOnce`), for any
number of frames, generators and nested blocks and any size of the stack, from
the assumptions that frames are numbered, that the bounds are positive and that
`NoGen` is no generator.  None of the properties is inductive alone.  `FrameOK`
says of every frame, running, waiting or kept in a generator, that its handlers
are the bodies around its address, by their places in the path, and how many
`finally` blocks are due; the count is kept inside handlers and conditions too,
where `FinallyRunsOnceUnlessLeft` says nothing, because it is needed again
behind them.  `Balanced` says that a stack pointer is the base pointer and what
the running instruction has pushed, and no less than that behind an exception.
`Chain` adds that frames have different numbers, link to one another, that a
function's base lies above all that its caller has on the stack, and that a
frame that waits for an iterator or an `__exit__` is at the place in its path
where the answer will find it.  `Owns` says that a generator that waits has a
frame nobody else has, and that one runs exactly when its frame is on the
stack.  Its part `AboveMakers` says that a generator's base is not below its
maker's, for frames on the stack and in generators alike: a maker may itself be
a generator that waits, and the number of a maker is given to no other frame
while its generator has one.  The actions share lemmas for what can happen to
the stack (`ChainTop`, `ChainPush`, `ChainPop` and those named `Owns...`: the
running frame is changed, a frame is pushed, popped, kept in a generator or
taken from it); what is left of an action is a change of path, handlers and
counts, and the lemmas about the bodies and the open blocks of a path
(`AppendMarks`, `FrontMarks`, `InMarks`) say what entering and leaving a block
does to those.

`RegisterAllocationProofs` (theorems `TypeCorrect`, `NeverReactivated`,
`NotShared`, `OperandsKept`), for two registers or more and any set of
well-formed programs.  The invariant has a part for the allocator and one for
the running code.  `Scan`: intervals are visited in the order of their starts,
and a value that was visited is still active or over before any interval to
come begins, so that an inactive one that is alive would have to begin together
with the one visited, and two definitions are never at one timestep
(`StartsDiffer`).  `Placed`: active values hold different registers that are
not free, visited values whose intervals meet do too, and a value that a call
defines is in register 0 unless a move stands behind that call.  This is where
the order matters: an interval that starts now meets a visited one only if that
one is active.  `Intact`: while the code runs, every value that is defined on
all ways here and still needed is in its register.  `OperandsIntact` speaks of
the operands of one operation and is not inductive; with `Intact` a step is the
argument that what is needed next was needed before or was just written, and
that an interval which covers the step meets the interval of whatever the step
writes (`StepIntact`).  `AfterOK` shows that a call leaves every other register
alone, register 0 included, when it is pushed and popped around it.

Model-checked only: `ImportsTerminate` and `AllocationReturns`, as liveness is
out of the prover's reach.

## Findings

The four violated runs, with the lines that say otherwise, are listed under
`findings` in `PROJECT.json`.  More disagreements need no run to be seen:

- `rt_func.cpp:334`: an uncached method call looks into the slots of an instance
  and not into its dictionary, against the comment above it.
- `compat.hpp:84`: in the arena mode, which is the one that is built, creating a
  weak reference does not call `WeakRefRegistry::register_ref`; only tests do.
  `is_alive` therefore answers no at once, against `WeakRefRegistry.hpp:10`,
  by which a referent dies when `invalidate` is called, which nothing does.
- `PyInteger.cpp:261`: a negative shift is taken by its absolute value
  (`get_ui`), while the comment at `RtValue.cpp:232` leaves it to this code to
  raise `ValueError`.
- `PyRange.cpp:127`: "n is the number of integers in the range" is untrue unless
  the step divides the distance (`LastItemLost`).
- `PyRange.cpp:144`, `:162`: an index too far below zero is not refused
  (`NegativeIndexUnchecked`), `range(10)[2:]` is empty
  (`RangeSliceWithoutStop`), and a bound beyond the range is not cut to its
  length, so that `range(5)[0:10]` has ten numbers (`RangeSliceNotCut`).
- `PyList.cpp:479`: `del l[len(l)]` passes the range test and erases the element
  behind the last one (`DeletionAccess`).
- `PyString.cpp:1519`: the smallest machine integer as an index of a string ends
  the process (`StringAccess`).

## Plan

1. Done: attributes, attribute caches, method caches, registry, heap and
   collector with weak references, the interpreter with generators, register
   allocation, integers, slices and ranges; every invariant, action property and
   refinement of the runs is proved.
2. Prove: what a method call promises as an abstract specification, with the
   shadowed instance attribute excluded; that an instance's attributes survive
   a call, as the refinement of `AttrSpec` by the method cache.
3. Extend: import of packages; the intrinsics for methods of
   built-in types in the method cache; `o.__dict__ = d` in compiled code.

## Not modelled

- *Arenas and the weak reference registry*, the memory of the built program.
  `CMakeLists.txt:284` turns `ENABLE_BOEHM_GC` on, which compiles the bump
  allocation out; what is left forwards to the Boehm collector.  Nothing enters
  a weak reference into the registry (see *Findings*).
- *Locks.*  `start_new_thread` runs its function before it returns, so no two
  threads ever meet at one.
- *Versions of globals.*  Nothing but unit tests reads them.
- *Compiled `try` and `with`.*  `PylangCodegen.cpp` resumes an exception after
  `catch_end` has released it (3245-3250), so what happens is decided by the
  C++ unwinder.  From the code alone: `emit_finally_dispatch` (2647-2691) sends
  a return, break or continue past outer `finally` blocks, and a return in the
  body of a `with` skips `__exit__` (3192).
- *Shifts, bit operations, comparisons and floats.*  Shifts need powers of two
  and with them induction, which the prover does not do; floats are those of
  the machine.
- *Lexer and parser*, which restate a grammar; *built-in types and modules*,
  data structures and I/O without a protocol between parts; vendored and
  generated code (the frozen `importlib` headers among it); `back/`, an older
  copy of parts of the tree.  Together these are most of the repository's lines.
