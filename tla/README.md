# A TLA+ model of b-jvm

b-jvm is a Java virtual machine in C, compiled to WebAssembly for browsers and
natively for tests. All Java threads are green threads multiplexed on one OS
thread: the interpreter suspends (every blocking operation is a state machine
in C, `vm/async.h`) and a round-robin scheduler decides who runs next, called
step by step from the JavaScript event loop. This directory models that
runtime in TLA+, checks it with TLC on small instances, and proves the core
invariants with TLAPS for all instances.

## Inventory

| Component | Source | State | Operations | Hard behaviour |
|---|---|---|---|---|
| Round-robin scheduler | `vm/roundrobin_scheduler.c` | run queue of `thread_info`, call queues, wakeup records, execution records | `rr_scheduler_run`, `_step`, `_execute_immediately`, `_may_sleep_us`, notify and exit handlers | rotation of the queue, who is asleep, records owned by other code, clock read twice |
| Monitors | `vm/monitors.c`, `Object.c`, `monitorenter`/`monitorexit`/synchronized methods in `interpreter2.c` | `monitor_data` (owner tid, hold count), created lazily | acquire, release, reacquire, wait0, notify, notifyAll | hand-over of a released monitor, barging, wait with nested holds, interrupts |
| Thread natives | `Thread.c`, `Unsafe.c` (park), `Finalizer.c` | `eetop`, `interrupted`, unpark permit, reference pending list | start0, interrupt0, sleepNanos0, yield0, park, unpark, waitForReferencePendingList | timeouts racing interrupts and notifications, death of a thread |
| Interpreter | `interpreter2.c` | frames, the register caching the top of the stack, inline caches, continuation stack, fuel, pending exception | bytecodes, resolution and rewriting, invocation, unwinding, async resume | stale slots when the collector runs, one handler table per cached kind, call sites that change their kind |
| Class file parser | `classfile.c`, `classfile.h` | reader, constant pool, members, attributes, arena | `parse_classfile` in two passes, descriptors, Code attributes | forward references, wide constants, errors by `longjmp` |
| Stack maps and code analysis | `stackmaptable.c`, `analysis.c` | frame iterator, abstract stack and locals, summaries, basic blocks | frame decoding, `analyze_method_code`, dominators, reducibility | merges, rewriting of wide instructions, what the collector is told |
| Class linkage | `linkage.c`, `vtable.c`, `arrays.c`, parts of `bjvm.c` | class states, hierarchy, field layout, v-tables, i-tables | `link_class`, `setup_function_tables`, array classes, `instanceof`, method lookup | recursion, failure half-way, arrays made at any time, defaults through several paths |
| Class initialization | `bjvm.c` | class state, initializing thread | `initialize_class` | recursive and concurrent initialization, failure half-way |
| Garbage collector | `gc.c` | heap, roots, mark bits, pending references | `major_gc` (mark, sort, slide, relocate) | moving objects whose headers live in moved monitors, weak references |
| Class loading | `bjvm.c`, `classloader.c`, `ClassLoader.c` | loaded and initiated classes per loader, inchoate names, resolved references | `lookup_class`, `define_class`, `resolve_class_impl`, natives | circularity, delegation to Java loaders, suspension inside them |
| Tables and allocators | `adt.c`, `objects.c`, `jit_allocator.c` | hash tables, strings, arenas | insert, delete, rehash | load factor, chains in the inline table |
| JIT and wasm encoder | `dumb_jit.c`, `wasm/` | compiled modules | compile a method, encode a module | agreement with the interpreter |
| JavaScript side | `js/bjvm2.ts`, `vm/bin/main.c` | event-loop timer, pending promises, handles | scheduleMethod, scheduleTimeout, drop handles | lost or doubled timers |
| Class path, natives, reflection, debugger, profiler, pretty printer | `classpath.c`, `natives/`, ... | mostly none | I/O and field access | little state of their own |

How they interact. The parser hands class descriptors to the linker; the
linker runs the code analysis on every method and builds the tables the
interpreter's call sites use; the analysis rewrites the instructions and leaves
the summaries by which the collector finds references in frames. The
interpreter allocates, which may collect; it resolves, which may load, link and
initialize classes; and it suspends into the scheduler, which resumes it later.

Properties that make the parts correct: the run queue holds every thread with
pending calls exactly once; a runnable thread runs; no wakeup without a cause
and none missed; monitors exclude, are handed over and survive `wait`; class
initializers run once, in order, by one thread; a collection keeps exactly the
reachable objects, unchanged up to renaming; a well-formed class file is
accepted and understood as written; rewritten code does what the bytes say;
the register and the slots are the operand stack, and every reference is known
to the collector; a call runs the method the declarations select; a name denotes
one class per loader, the one its files give, and loading ends; an execution
record is completed exactly once.

## The green-thread runtime

| Module | Models |
|---|---|
| `VMThreads` | constants, variables, the initial state, what suspending and resuming mean |
| `RoundRobin` | `roundrobin_scheduler.c`, preemption (`refuel_check`) |
| `Monitors` | `monitors.c`, `monitorenter`, `monitorexit`, `wait0`, `notify`, `notifyAll` |
| `ThreadNatives` | thread start, sleep, yield, park, interrupt, reference list, `Thread.join` |
| `GreenThreads` | the composition: `Next`, fairness, properties, the refinement mapping |
| `JavaMonitors` | the abstract specification: what Java monitors promise |
| `MCGreenThreads` | the instance for TLC |
| `RoundRobinProofs`, `GreenThreadsProofs`, `JavaMonitorsProofs` | the theorems |

*State.* `rr` is `impl.round_robin`; `calls` the length of each
`call_queue`; `ctx[t]` the context thread `t` is suspended in, with the
`rr_wakeup_info` the scheduler looks at (`kind`, `until`, `obj`, `ready`) and
the hold count `wait0` must restore (`holds`); `running` the thread on the C
stack; `owner` and `hold` the `monitor_data`; `eetop`, `interrupted`,
`permit`, `refs` the flags of the natives; `joining` the local state of the
JDK's `Thread.join` between its `isAlive()` and its `wait(0)`.

*Actions.* A handler that runs without suspending is one action. A handler
that suspends is split there and only there: the part up to the suspension,
and a `Resume...` action for the part after it. `rr_scheduler_step` is split
at `call_interpreter`: dispatching a thread, then the thread's own actions,
the last of which (`Return`, or one that suspends) ends the step. Since the
interpreter may be preempted at every backward branch, `refuel_check` is
enabled whenever a thread executes.

*Programs.* The Java program is arbitrary: the running thread does any
operation of the groups in `Ops`. One discipline is assumed, because Java
compilers emit balanced monitor bytecodes: a call that returns holds no
monitor.

*Undefined behaviour.* `monitorenter` and synchronized methods leave the
scheduler a pointer to a wakeup record in a C frame that has returned. With
`RecordsSurvive = FALSE` the model lets the scheduler read anything there;
with `TRUE`, what the frame last held.

## The heap

| Module | Models |
|---|---|
| `Collector` | `bump_allocate`, monitor inflation, hash codes, the whole of `major_gc`, and the program that uses the heap |
| `JavaHeap` | the abstract specification: a graph of objects with identities and no addresses |
| `HeapHistory` | `Collector` with a history variable (the graph the program last saw) and the refinement |
| `MCCollector`, `MCJavaHeap` | class layouts and symmetry for TLC |
| `CollectorProofs` | the theorems |

*State.* `mem` is the heap as an array of cells: an object is a header
followed by one cell per reference field, in `instance_references` order. The
mark word of an object (reachable flag, hash code) lies in its header until
the object is locked; then it is copied to a `monitor_data`, which is
allocated in the same heap and moves like an object. `roots` are the
locations `major_gc_enumerate_gc_roots` finds, plus the arguments of calls
that wait in the scheduler (`Args`) and the list the JDK's ReferenceHandler
works on. `objs`, `moved`, `worklist` and `write_ptr` are the fields of
`gc_ctx` and the locals of `major_gc`. Payloads (`id`) tell objects apart for
the refinement; the program never sees them.

*Actions.* A collection runs inside the allocation that did not fit. It is
split into the iterations of its loops: `MarkRoots`, `Mark`, `StartCopy` (the
sort), `Copy`, `RelocateRoots`, `RelocateFields`, `FinishGC`, then `Retry`.
The mark loop takes objects from the work list in any order. In between,
`mem` is in the intermediate states the C code goes through, in the build
that compacts in place (`NEW_HEAP_EACH_GC = 0`); the other build copies to a
fresh block and is simpler. Sizes are in cells, so the alignment to 8 bytes
does not appear. Arrays behave like objects whose slots are all ordinary.

*Undefined behaviour.* `rr_scheduler_enumerate_gc_roots` receives the root
vector by value. If an append moves the vector, the collector continues with
the freed one. `RootsFit = FALSE` models the outcome in which that block still
holds the roots it held, without the arguments of pending calls.

## Class initialization

| Module | Models |
|---|---|
| `ClassInit` | `initialize_class`, `link_class`, and the bytecodes that call them |
| `MCClassInit` | the hierarchy for TLC |
| `ClassInitProofs` | the theorems |

*State.* `state` and `by` are `classdesc.state` and `initializing_thread`.
`stack` holds, by thread, the nested activations of `initialize_class` and
`link_class`: those for parents (`recursive_call_space`, the recursion of
`link_class`) and those a `<clinit>` causes by resolving other classes. `result`
is what the last one returned, `exc` the thread's `current_exception`, reduced
to what `initialize_class` tells apart. That a class is not its own ancestor is
an assumption (`HierarchyAssumption`): `define_class` sees to it, and `Loading`
checks that it does.

*Actions.* One per stretch of the two functions between calls: of
`initialize_class`, `Link`, `Linked`, `ReturnAtOnce`, `StartWaiting`,
`EndWaiting`, `Begin`, `InitParent`, `GiveUp`, `RunClinit`, `EndClinit`; of
`link_class`, `LinkReturnAtOnce`, `LinkParent`, `LinkGiveUp`, `LinkMethods`; the
bytecodes of the program and of initializers (`Use`, which initializes or only
links a class, `Throw`, `Catch`); and `Switch`, which is possible only where the
code can suspend: at a bytecode or in the busy wait.

*What the code does that a reader may not expect.* A class whose `<clinit>`
throws an Error becomes INITIALIZED. If it throws another exception, the
outcome is read from a C local that was assigned before the await: as long as
no suspension has unwound the C stack (`kept`) it is 0, afterwards it is
arbitrary, so the model takes both. A parent in LINKAGE_ERROR counts as linked
and as initialized. After a parent's `<clinit>` has failed with an Error, the
subclass's `<clinit>` is entered with the exception pending ("inherited"); a
build with tail calls executes bytecodes under it, the others do not.

## Class files

| Module | Models |
|---|---|
| `Descriptors` | field and method descriptors |
| `ClassFile` | `parse_classfile`: the two passes over the constant pool, members, attributes, bootstrap methods, the error path |
| `MCClassFile` | the files |

*State.* A file is what its bytes say, item by item; `left` is the reader's
remaining length in items, so a truncated file ends between any two of them.
`pool` is the constant pool (a wide constant takes two indices), `cls` the
class so far, `arena` and `temp` what has been allocated and not freed.
*Actions.* One per constant and pass, per member, per attribute of the class;
`format_error` is the `longjmp` with what it leaves allocated, `FormatError`
its landing. The reference definitions (`WellFormed` and below) are written
from the numbering of the file, not from the parser's index. A file may have
Code attributes inside one another, twice in a method, or on a field or the
class, as well as where one belongs.

## Code analysis

| Module | Models |
|---|---|
| `MethodCode` | the instructions of a Code attribute, their lengths, their canonical forms, branch targets |
| `StackMaps` | the StackMapTable iterator |
| `ControlFlow` | basic blocks, their edges, dominators, reducibility |
| `CodeAnalysis` | a method's life: read, analysed, rewritten, run beside the machine of the JVM specification |
| `MCCodeAnalysis` | methods compiled from short programs, with their stack maps in every encoding, and with one defect each |

*State.* `code` is the parsed method, `ctx` the `method_analysis_ctx`, `iter`
the frame iterator, `analysis` the summaries, `blocks` the control-flow graph.
`vm` is the frame of the interpreter on the rewritten code; `jvm` the frame of
the specification on the bytes of the file, in words. A value is its type and
the instruction that made it, so two frames agree only if every value came
from the same place. *Actions.* One per instruction read and analysed, then
one per instruction run, thrown out of or returned from. `InvalidFree` is the
`free` of an edge list that `free` did not allocate, after which anything may
happen; the model lets the method end there or go on.
*Abstractions.* The text of `NullPointerException` messages and the sources
they are made from are left out.

## The operand stack

| Module | Models |
|---|---|
| `Opcodes` | the instructions' effects and the four handler tables |
| `StackAnalysis` | `analyze_instruction` for the stack; the dup and pop family, with the word stack of the JVM specification as reference |
| `Interpreter2` | one frame: register cache, spills, reloads, resolution and rewriting, suspension, exceptions, collections |
| `MCInterpreter2` | all instructions, fields of every kind, a few descriptors |
| `Interpreter2Proofs` | four theorems, for every code |

*State.* `m` is what the machine has (`sp`, the slots, the register and the
table it was dispatched through), `words` what the JVM specification says,
`types` what the analysis says. A collection gives every reference a new
address (`gc` of a value) in the slots it knows of and nowhere else, so a
register not reloaded or a slot not scanned shows. Where a macro of the source
makes many handlers, one instruction stands for all of them. While
`invokevirtual` and `invokeinterface` resolve their method they hold the
receiver they had read (`ResolveHolding`), which no collection updates.
`NullHandler` is the call of a handler that the table does not have, where the
thread ends. `lost` is set when `dup2` passes a float on as an int: what the
handlers do from there on is no longer a matter of the operand stack, and the
properties of the passing run end there.

## Linkage and call sites

| Module | Models |
|---|---|
| `FunctionTables` | method lookup, overriding, v-tables, i-tables |
| `Linkage` | `link_class` and its recursion, field layout, array classes, `instanceof`, the invoke handlers with their inline caches |
| `MCLinkage` | the hierarchies |
| `LinkageProofs` | the theorem about failures, for every hierarchy |

*State.* `todo` is the C stack of `link_class`; `state`, `hier`, `tables`,
`layout` are the fields of the class descriptors; `site` is one call site
(`insn->kind`, `methodref.resolved`, `ic`, `ic2`) that any receivers reach in
any order. The reference definitions (`Selected`, `SpecialSelected`,
`IsSubtype`) are stated over the declarations alone, by quantifiers.
*Worlds.* `Dispatch`: two interfaces, two classes, one method absent, abstract,
default or concrete in each, a call site of each kind. `Others`: methods of
Object, final methods, constructors. `Packages`: package-private methods in two
packages. `Objects`: field layouts in 32- and 64-bit builds. `Failures`:
classes that fail the analysis, arrays made before, during and after.
`TwoFail`: two interfaces that fail, under one class. `SeveralSlots`: a method
that overrides two package-private ones and so has two v-table slots.
`HierarchyAssumption` says
what every world is: no class is above itself (`define_class` sees to it, and
`Loading` checks that it does), arrays have one or two dimensions, and what
they extend was linked when the VM started, when it made the first of them.
`Redeclared`: an interface that declares a default of the one it extends again,
and a class that names both. `Selected` is one method or none: the one of the
JVM specification unless the code counts the key as ambiguous
(`CountedAmbiguous`), and `CalledAs` says which method a polymorphic site goes on
to call. Both are stated over the declarations, and in the worlds of the run they
differ from the specification where "Known deviations" says so.

## Class loading

| Module | Models |
|---|---|
| `Loading` | `lookup_class`, `define_class`, `resolve_class_impl`, the natives of `java.lang.ClassLoader`, and the Java `loadClass` that calls them |
| `MCLoading` | the chain of loaders and the class files |
| `LoadingProofs` | three theorems, for every tree of loaders |

*State.* `loaded` and `initiating` are the tables of the class loaders,
`inchoate` is `vm->inchoate_classes`, `info` what symbolic references were
resolved to. `stack[t]` holds the activations of a thread, C functions and
`loadClass` alike, since they call each other; `answer` and `exc` are what the
last one returned. A frame knows whether its caller forbids suspension (`sync`)
and whether the C stack has been unwound since it was entered (`kept`): after
that its C locals are undefined, which is a choice of `dims` in `LookupDone` and
the action `LookupWild`.

*Actions.* A C function is split where it calls a function that loads classes
again. `Switch` is preemption or waiting for a lock, possible only in `loadClass`
and only if nobody below it called synchronously. `loadClass` is external: it is
the parent-first algorithm of the JDK, under a lock for the name.

*Worlds.* A class file has supertypes, may be malformed or sealed. `InTwo`: each
of two classes in the bootstrap loader's path, the application's, both or
neither, with every choice of supertypes. `InThree`: a third loader, and sealed
and malformed supertypes. Requests: a symbolic reference, a field descriptor of
an array type, `Class.forName`, `defineClass`. The reference is `Loadable`, the
least set of classes that parse and whose supertypes are in it and permit them;
like `Leads` (one class above another) it is stated as a least closed set, not
by recursion, so that it can be reasoned about. `LoadersAssumption`: the loaders
are a finite tree. `WorldsAssumption`, without which the tables do not agree: a
class file that another loader's hides has all its supertypes (see "Known
deviations" for what a missing supertype does), and a program that calls
`defineClass` defines no class that the parents of its loader have.

## Runs

| Run | Question | Bounds |
|---|---|---|
| `liveness` | monitors and hand-over stay consistent; no runnable thread starves; a free monitor is taken | 3 threads, one a daemon, 1 monitor |
| `behaviours` | the run queue is consistent; no wakeup without a cause; `JavaMonitors` is implemented | 2 threads, the Thread object of one of them as the monitor, every operation, nesting 2, clock 0..2, dead wakeup records |
| `deadlines` | a deadline is met when everybody sleeps | 2 threads, sleep and park, clock 0..3 |
| `operand_stack` | register, slots and analysis agree with the JVM specification; operands and receivers are right; every handler but one exists; roots are current | stacks of up to 4 values, any 2 instructions, 1 collection |
| `code_analysis` | verdict, rewritten code, summaries and blocks are right, or wrong exactly as stated | methods of up to 3 statements and some longer ones, 14 instructions run; loops entered at their condition, dead code, handlers behind a jump, merges of different types, crossing branches |
| `class_files` | exactly well-formed files are loaded, as written; each invokedynamic that can run is listed once; nothing is left behind otherwise | one file with every constant, each reference to every index; all short descriptors; every attribute; Code attributes in each place |
| `linkage` | selection, tables, `instanceof`, layout, reported failures | the worlds above |
| `loading` | the loaders' tables agree; a request gets the right class or fails for a reason; a reported circularity is one; every request ends | 3 loaders in a chain, 2 names, 2 threads, 2 requests, 8 activations on a stack; the worlds above |
| `collections` | no dangling reference or garbage; safe slide; `JavaHeap` is implemented | 5 cells, 2 variables, 1 pending argument, nodes and References, locks and hash codes |
| `initialization` | one activation initializes a class, after its parents; states only advance; every call ends | 2 threads; a class with superclass and an interface that does not verify, and a class that both use |
| `constructor_call` | violated: `new A()` runs A's constructor | 3 classes |
| `argument_roots` | violated: arguments of pending calls are roots | 4 cells |

Why the bounds are enough to be interesting. Three threads are the least with
which a third one can barge between the release of a monitor and the thread
that was told about it, and with which rotation of the run queue differs from
swapping; the safety invariants of the green threads are proved for every
number of threads, so the runs need only be large enough to find mistakes in
the formulas. Nesting 2 makes `wait` give up and restore more than one hold.
Three clock values allow a deadline to lie in the past, at the present and in
the future of the two readings in one step. An instruction of the interpreter
depends on the stack and on what the one before left in the register: two
instructions from every small stack meet every pair. Three statements make a
loop with a merge inside it and a branch into a range covered by a handler;
the longer methods nest loops. Two interfaces, one extending the other, and two
classes are the least in which a default is inherited twice and redeclared.
Five cells hold a node below a locked node, so that an object and its monitor
slide together over freed space. Three loaders are the least with one between the
loader that is asked and the one that defines the class; a stack of 8
activations lets a cycle of two classes come round through a Java loader before
it overflows. Symmetry is used for the variables of the heap
only, never in a run with fairness.

*Fairness.* `WF(rr_scheduler_step)`: the JavaScript event loop sets another
timer as long as a step does not answer that everything is done
(`js/bjvm2.ts`, `scheduleTimeout`). `WF` of resumption and preemption: a
context the scheduler dispatched is run on the C stack at once, and a thread
that executes uses up its fuel (`refuel_check`). `WF(Tick)`: time passes.
Nothing is assumed about the Java program: it need not ever leave a monitor.
In `Loading`, `SF` of `Switch` and of the steps of the thread on the C stack: a
thread that was preempted or waits for a lock is scheduled again and then
executes. In `ClassInit`, `WF(initialize_class \/ link_class)`: their stretches are straight C code.
`SF(Switch)`: a waiting thread yields with RR_WAKEUP_YIELDING and a busy one is
preempted, so each is scheduled again (its wakeup record taken to survive, as
with `RecordsSurvive`). `SF(EndClinit)`: every `<clinit>` ends; one that does
not is the program's doing. The initializers of the instance do not wait for
each other in a cycle, in which Java deadlocks too, and `calloc` succeeds: when
it fails, the class stays INITIALIZING for ever (`CallocFails = TRUE` shows it).

## Findings

Two runs are violated by what the code does: each states what a comment of the
repository says, and `PROJECT.json` quotes the line.

- `constructor_call`: `invokespecial` asks whether the *calling* method is a
  constructor; in an ordinary method of C extends B extends A, `new A()` runs
  B's constructor on the new A.
- `argument_roots`: the root vector is passed by value to the function that adds
  the arguments of pending calls; when it grows, they are lost.

## Known deviations

Where the code differs from its comments, from the JVM specification or from what
a reader would expect. The models do what the code does. The cases of the first
list occur in the passing runs, and the property named states exactly when the
code goes wrong and what it does then, so that it would fail if the code were
wrong in any other case (and, where it says "exactly", if it were right). Those of
the second list are modelled, or left out as said, and no property speaks of
them. Lines are in `src/vm/` unless said otherwise.

- *A null handler* (`HandlerExists`, exactly). A `putstatic` whose resolution was
  suspended goes on through `jmp_table_void`, which has no handler for it
  (`interpreter2.c:2872`, 3145); line 190 says of the jump "This does NOT imply
  that sp = 0, only that all stack values are in memory".
- *dup2 of two floats* goes on with the table for ints (`interpreter2.c:2455`);
  line 292 says of the other one "Used when the TOS is float". `lost` is set there
  and nowhere else, and the properties of `operand_stack` end there.
- *A stale receiver* (`OperandsRight`: the object, not its address).
  `invokevirtual` and `invokeinterface` read the receiver before they resolve the
  method and use the pointer afterwards (`interpreter2.c:1820`, 1963), although a
  collection in between moves the object; line 340 has macros to "Reload the top
  of stack type -- used after an instruction which may have instigated a GC".
- *Legal methods refused* (`VerdictRight`, `EntryFrameMisread`). An empty
  StackMapTable, or a frame for instruction 0 that is not a `same_frame`, makes a
  legal method fail (`stackmaptable.c:76`, 83).
- *Legal methods that abort the VM* (`VerdictRight`, `UnknownBehindJump`,
  exactly). Without stack maps, code behind a `goto` that nothing before it
  branches to fails a CHECK (`analysis.c:1064`): loops entered at their condition,
  dead code, a handler that covers only the first instruction. The comment above
  says "should be able to recover", and `src/test/analysis-tests.cc:9` is called
  "Analysis passes on valid bytecode".
- *Merges without stack maps* (`SummaryHolds`, `MergeForgotten`). "Intersect the
  current stack state with the known state" (`analysis.c:1069`) stores the
  intersection, but the analysis goes on with the locals it had, so that a summary
  may call a number a reference, which the collector follows. The property
  excepts the locals in which the two states at such a merge of the method differ.
- *Edges lost* (`StepsFollowEdges`). Handlers and the code behind a `goto` start
  no block, and a block has the edges of its last instruction only
  (`analysis.c:1177`, 1209): the target of a `goto` out of the middle of a block
  may be deleted, although only "code that is not accessible without throwing an
  exception" should be (1163). The property holds up to such a jump.
- *Too many dominators* (`GraphSound`, one direction). The walk to the
  semidominator compares the wrong number (`analysis.c:1353`) against its comment
  (1351), and `query_dominance`, which "returns true iff dominator dominates
  dominated" (`analysis.h:112`), claims too much in a graph with the edges 0-1,
  0-3, 1-2, 1-4, 2-3, 3-4. What does dominate is found, what is claimed lies on a
  path from the entry, and the loops of a reducible graph have their headers.
- *Empty call sites* (`CallSitesListed`, `StrayCalls`, exactly). Invokedynamic
  instructions are counted in every Code attribute (`classfile.c:1206`), also
  inside another one or where none belongs, and listed for methods only (1742);
  the rest of the array is null, and the collector takes roots from it
  (`gc.c:94`).
- *Defaults called ambiguous* (`SelectionRight`, `CountedAmbiguous`, exactly). A
  default inherited from I and, declared again, from J extends I counts as
  ambiguous although J's is the only maximally specific one, and so does a default
  beside an abstract method (`vtable.c:142`); `vtable.h:34` says "there are
  multiple methods with the same name and signature which would be selected by an
  invokevirtual instruction".
- *Slots of the callee* (`SelectionRight`, `CalledAs`, exactly). A polymorphic
  site uses the v-table slot of the method it has cached, not of the one it names
  (`interpreter2.c:2016`); with a method in two slots it goes on to call another
  one, against the "constant offset" of `vtable.h:20`. In a debug build the
  assertion at `vtable.c:205` fails if a class below overrides that method again.
- *Overriding across packages* (`SelectionRight`, `OverridesDirectly`, exactly).
  `method_overrides` tests the flags of the overriding method (`vtable.c:26`), so
  a public method overrides a package-private one of another package.
- *Linked over a failure* (`FailureReported`). A superclass or interface in
  LINKAGE_ERROR is taken for linked (`linkage.c:141`), and the subclass goes on
  with null tables, although `vtable.h:61` assumes that they "have already been
  linked". Within one call it also happens: when K extends I and J, A implements K
  and B extends A and implements J, with I and J failing, linking K blames I, A is
  then linked over K, and B fails because of J with A linked over J. The property
  excepts classes over another failure.
- *Arrays of arrays* (`InstanceofRight`, exactly). `A[][]` made before A is linked
  is marked LINKED without a hierarchy (`linkage.c:91`, against "Link all higher
  dimensional components" in the line above), so it is no `instanceof Object`.

The second list:

*Threads.* `free_thread_info` notifies a dead thread's joiners without the
monitor: one preempted between `isAlive()` and `wait(0)` waits for ever
(`roundrobin_scheduler.c:66`). A further call on a thread whose queue was empty
runs with `eetop = 0`, where `unpark` cannot reach it (`Unsafe.c:241`). Blocked
`monitorenter`s leave the scheduler a record in a dead C frame
(`interpreter2.c:1567`): read as something else, the thread may seem asleep for
ever. Two `notify()` before the first waiter runs mark the same waiter
(`roundrobin_scheduler.c:25`).

*Interpreter.* `ishr` leaves a zero-extended int in the 64-bit register
(`interpreter2.c:1174`; line 289 says "In the int case, the result is
sign-extended"), and `i2l`, `i2f`, `i2d` read all of it; the model leaves the upper
half of the register out. After SPILL_VOID with a reference in the register the slot is
stale while the exception is made; the comment at `interpreter2.c:331` knows it.

*Class files.* The error path of a method descriptor frees an `stb_ds` array
with `free` (`classfile.c:1580`). Characters after a method descriptor, `V` as a
field's type, a wide constant at the last index are accepted. Of two Code
attributes of a method the last is kept. The bootstrap index of a dynamic
constant is never linked.

*Analysis.* Instruction 0 always uses the entry frame. A frame at a program
counter that is no instruction is ignored. The stack limit is `max_stack + 1`
(`analysis.c:1002`). Blocks that end in a return or `athrow` get a fall-through
edge. The edges of a deleted block, an `stb_ds` array, are given to `free`
(`analysis.c:1239`; `InvalidFree`). The default target of a switch comes first,
and `analysis.h` says last. A failed analysis leaves `method->code_analysis` set.

*Linkage.* Array types stay LINKED when their component fails. `identify`
truncates later identifiers to its buffer (`vtable.c:63`). `method_lookup` takes
the first interface method that matches. Private methods occupy v-table slots. A
v-table slot with an abstract method is invoked without a check.

*Class initialization.* The outcome of a `<clinit>` that threw is read from a C
local across an await (`bjvm.c:1729`).

*Class loading.* The set of inchoate names is global: a class whose supertype
another thread is loading is reported as circular (`bjvm.c:1373`), and the mark
stays when memory runs out (`bjvm.c:1547`), so that every later subclass is.
Conversely `findBootstrapClass` removes the mark of the lookup that delegated to
it: a cycle in the classes of a Java class loader ends in a StackOverflowError.
A supertype that is missing is reported as a ClassNotFoundException (the TODO at
`bjvm.c:1380`), which a loader below takes for the class itself and defines its
own. `dimensions` and `class` are C locals, undefined after `loadClass` has been
suspended (`async.h` says not to use such): an array may get other dimensions,
and after an exception a wild pointer is recorded (`LookupWild`). A reference
that is resolved while a suspended thread holds the lock for the name aborts the
VM (`bjvm.c:1921`, `LoadMustWait`). `Proxy.defineClass0` and
`Unsafe.defineClass` pass the null of a failed `define_class` to
`initialize_class`; the model ends the request instead.

## Proofs

`RoundRobinProofs` proves what the sequence operations of the scheduler do
(rotation, moving to the tail, removal, the search for the earliest deadline)
for every run queue. `GreenThreadsProofs` proves, for all sets of threads and
objects, all bounds and all programs, from `ThreadsAssumption` and
`BoundsAssumption` only:

| Theorem | Statement |
|---|---|
| `InvHolds` | `Spec => []Inv` |
| `TypeCorrect`, `RunQueueCorrect`, `MonitorsCorrect`, `HandOffCorrect` | its parts |
| `NoSpuriousWakeup` | `Spec => WakesForACause` |

The inductive invariant is `TypeOK /\ RunQueueSound /\ MonitorsSound /\
HandOff`. None of the last three is inductive by itself: that the owner of a
monitor is in the run queue needs that a running thread is; that a thread
resuming from `wait0` finds the monitor not its own needs that blocked threads
own nothing they wait for; and hand-over needs both, because the thread that
consumes a ready mark must be the one that takes the monitor or waits again
while somebody owns it. Each operation is reduced to one of a few shapes (a
context without a monitor, taking a monitor, blocking on one, releasing,
marking) with a lemma for each, `SoundPlainContext`, `SoundTake`,
`SoundBlock`, `SoundRelease`, `SoundMarked`; `TypeStep` and `SoundStep` have one
step per action.

`JavaMonitorsProofs` proves `MonitorsImplemented`, `Spec =>
ImplementsJavaMonitors`: the abstract variables are read off the concrete ones
(`JM` in `GreenThreads`), and every action is either invisible or the abstract
action it should be. The work is in the shapes again: a context that
names no object and one of a thread entering a monitor are invisible
(`PlainIsInvisible`, `EntrantIsInvisible`); taking, releasing and giving up a
monitor are `Enter`, `Exit`, `StartWait`, `EndWait` and `GiveUp` (`TakeEnters`,
`ReleaseExits`, `ReleaseStartsWait`, `TakeEndsWait`, `BlockGivesUp`); marking
waiters ready is `Wake` (`MarkingWakes`, `ReturnWakes`). The inductive invariant is needed for what a
thread may own while it is suspended.

`ClassInitProofs` proves, for every hierarchy without cycles, every set of
threads and every program:

| Theorem | Statement |
|---|---|
| `NeverInitializedTwice` | `Spec => []OneInitializer`, whether or not `calloc` fails |
| `ParentsInitializedFirst` | `Spec => []ParentsFirst` |
| `StatesAdvance` | `Spec => Advances` |
| `InitializingIsOwned` | `~CallocFails` implies `Spec => []Owned` |

The inductive invariant `IInv` describes a stack of activations. Each is
*counted* (how many parents it has started), *backed* by the state of classes
(an initializing one by INITIALIZING in its thread's name, one of `link_class`
that has begun by LOADED), and *calls* the one above it for the parent it is at;
two activations are *apart*: `link_class` only goes down in depth and no class
is initialized twice; and what the last call returned is what its caller
relies on (`Returned`). `Suspended` says where a thread can lose the
interpreter; it is what makes the steps of one thread harmless to the others,
because a suspended thread is never inside `link_class`. The same step lemmas
give `Evolution`, how the state and the name of a class may change, from which
`Advances` follows and which `AsGoodAsStays` needs. `InitializingIsOwned` adds
`Claimed`, which fails exactly where `calloc` does.

`CollectorProofs` proves, for every heap size, every set of classes with any
number of slots, every number of roots and every program:

| Theorem | Statement |
|---|---|
| `Invariance` | `RootsFit` implies `Spec => []IInv` |
| `SlidesSafely` | `RootsFit` implies `Spec => []SlideIsSafe` |
| `NothingDangles` | `RootsFit` implies `Spec => []NoDangling` |
| `NothingFloats` | `RootsFit` implies `Spec => []NoFloatingGarbage` |

`RootsFit` is needed: without it the run `argument_roots` shows a counterexample.
None of the properties is inductive, because each depends on every phase of the
collection before it. `IInv` describes the heap in each phase:

- between collections and while marking, `Sound`: slots follow their headers,
  references are Null or the address of an object, `discovered` links only
  References, a monitor lies above its object and belongs to no other;
- while marking, `MarkSound`: every mark in the heap is that of an entry of the
  work list or of `objs`, and everything `objs` refers to strongly is in one of
  the two. That a target found marked need not be pushed again rests on
  `MarkWordUnique`: no two objects share a mark word;
- while copying, `Layout` (old order, no overlap, what was copied below
  `write_ptr`, the rest above), `Contents` (references are *old* addresses of
  entries of `objs`, only a `referent` may have been left out) and `FlagsSound`
  (no mark survives below `write_ptr`). `Copy` keeps `Contents` because every
  object is moved with all its cells (`ContentsSame`), and clears the last mark
  in the block it moves because a monitor is always moved after its object;
- while fields are relocated, each object is as `BeforeFixing` or as
  `AfterFixing` says, and the monitor it has or will have (`NewMon`) does not change.

When all are relocated, the headers below `write_ptr` are exactly those of
`objs`, and `Sound` holds again with the lower `heap_used` (`FinishGCKeeps`).
`IInv` was model-checked with the constants of `Collections.cfg` before it was proved. `NoDangling` speaks of what is
*reachable*, by a recursive function; that the function exists and that each of its rounds
contains objects only is shown with a least counterexample (`RoundsExist`,
`VisibleObjects`).

`NoFloatingGarbage` needs the converse: all that is kept is strongly reachable,
that is, in every set that has what the roots refer to and is closed under
strong slots (`Live`). `GInv` says so of the entries of the work list and of
`objs` in each phase: `OnlyReachable` with references that are old addresses,
`OnlyReachableNow` while some have been relocated and some have not. A list of
pending references stays reachable when a Reference is put at its head because
the list goes into that Reference's `discovered` (`RelocateFieldsFinds`). `Owned`
gives every monitor in `objs` its object, and `Tiles` says that the copies leave no
gap below `write_ptr`. The lemmas about `IInv` say what an iteration does
(`Slid`, `Relocated`), and those about `GInv` use no more than that. `GInv` too was
model-checked with the constants of `Collections.cfg` first.

`LoadingProofs` proves, for every tree of loaders, every class path and program
of `WorldsAssumption`, every number of threads and all bounds:

| Theorem | Statement |
|---|---|
| `TablesAgree` | `Spec => []RecordsSound` |
| `RequestsAnswered` | `Spec => LookupRight` |
| `CircularitiesReal` | `Spec => CircularityJustified` |

That a record leads to the class the files name is not inductive: the record is
made with what a call returned, the call with what its caller passed down. So
`IInv` says of each activation what it knows of the class it looks for
(`FrameSound`), that it calls the one above it (`CallSound`), towards the
bootstrap loader or upwards in the hierarchy (`CallsGoUp`, `Chained`), and that
the last result is right for the activation on top (`TopSound`); a supertype
that was reported missing is missing still (`StillMissing`). Only the running
thread is inside a synchronous call, which makes the steps of one thread
harmless to the activations of the others. `MarksSound` finds for every
inchoate name the lookup that has yet to remove it, or that it was abandoned;
`CircularityJustified` follows for the thread's own marks because its
activations above the mark lead from one supertype to the next. Induction over
the tree of loaders and over hierarchies is replaced by a least counterexample
(`LoaderInduction`) and by the closed sets themselves.

`Interpreter2Proofs` proves, for any set of instructions, any limit of the
stack, and any number of instructions, collections, suspensions and exceptions,
from `BoundsAssumption` and `CodeAssumption` (only instructions that name a
field or a method have a descriptor, a field has one type, the initial stacks
fit the limit):

| Theorem | Statement |
|---|---|
| `StackKept` | `Spec => []StackAgrees` |
| `HandlersFound` | `Spec => []HandlerExists` |
| `RootsKept` | `Spec => []RootsCurrent` |
| `OperandsKept` | `Spec => []OperandsRight` |

No code is excluded. `HandlersFound` says exactly when a table lacks the handler
of the next instruction: for a `putstatic` that goes on through `jmp_table_void`,
and never else until a `dup2` passes a float on as an int (`lost`), after which
none of the four properties says anything. The properties compare a stack of words, a
stack of kinds and the slots with the register. None is inductive: the next
instruction reads what the others say. `IInv` therefore takes one sequence of
values, `Values`, and says that the words and the kinds are those of these
values; that while an instruction runs, slots and register hold them
(`Holds`) and the table of the cached kind has the instruction (`Running`); and
that while the VM is away (allocation, calls, resolution, suspension,
exceptions) they are held as the way back expects (`Away`, `InHand`,
`KindFits`): which slots are current depends on the place (`UpToDate`; the
`anewarray` handlers do not spill), and so does which registers are still read.
`OperandsKept` adds `ReceiverHeld` to it (`HInv`): the receiver in hand during a
resolution is the object the call is made on, whatever is collected meanwhile. Each opcode is one of a few shapes (`Done`, `Enter`,
`Again`, `Consume`) with a lemma each. Induction over the length of a stack uses
a least counterexample in a set (`SeqIn`). The run executes two instructions;
the theorems say that nothing new happens later.

`LinkageProofs` proves `FailuresReported`, `Spec => []FailureReported`, for every
set of hierarchies that satisfies `HierarchyAssumption`, every choice of classes
that fail the analysis, and every order in which classes are linked and arrays
made. What a call of `link_class` returns depends on every call below it, so
`IInv` describes the whole C stack (`StackSound`): each frame waits for the class
of the frame above it (`Callee`), what it has called before has been linked or
has failed (`Passed`), its class lies under the class of the outermost call
(`Reached`), and no class on the stack is over one further in, so that a class
is never entered twice. While the status is not 0, `Outcome` names a class that
failed the analysis with nothing linked over it (`Blamed`), and keeps it while
the frames are popped one by one; `LinkedSound` says that whatever is directly
above a LINKED class has been tried, which is why a class can become linked
over the one that is blamed only across another failure. The actions are three
shapes of stack, `ChangeTop`, `PushCall` and `PopFrame`. `Supertypes` is a
recursive function; that it exists and is the least closed set is proved from
`HierarchyAssumption` by induction from the top of a hierarchy (`UpExists`,
`SupertypesAre`, `FromTheTop`), and the tables the VM starts with by counting
(`HierarchyExists`, `LayoutExists`). An earlier form of the property, which
had no exception, could not be proved: `TwoFail` is the case that was missing.

These three `IInv` were model-checked too before they were proved, with the constants
of `Loading.cfg`, of `OperandStack.cfg`, and of `Linkage.cfg` with the worlds
`Others`, `Packages`, `Objects`, `Failures` and `TwoFail`.

Checked by TLC only: liveness (out of the prover's reach, `LookupsEnd` of
`Loading` included), the refinement of `JavaHeap`, everything about class files
and code analysis, and of linkage the tables, `instanceof`, layouts and
selection: they are what folds over data compute, for which the provers have no
induction. `ControlFlow` uses RECURSIVE operators (depth-first search), so
nothing that extends it can be proved about.

## Not modelled

The list in `PROJECT.json` names every part. Left out for good: the JIT
(unfinished, and its correctness is equivalence with the interpreter, which
needs a semantics of WebAssembly) and the WebAssembly encoder's code selection,
class-path I/O, tools for developers, build-time generators, vendored code.
Within the modelled parts: allocation failure while a monitor is inflated
inside `monitorenter`, the width of times, results of arithmetic (values are
identities), access checks, signature-polymorphic methods, pushing and popping
of frames.

## Plan

1. Done: green threads with proofs; the heap; class initialization; class
   files; code analysis; the operand stack; linkage and call sites; class
   loading.
2. `Executions`: call queues with their records, `execute_immediately`, JS
   handles, the event loop's timer. Properties: each record completed once, a
   handle denotes one object until dropped, a pending call always has a timer.
3. `Frames`: frames, the continuation stack, synchronized methods, unwinding;
   the scan of frames for roots (no location twice), which refines `Roots` of
   `Collector`.
4. Algorithms checked against reference definitions: the sort and the search of
   the collector, the hash table of `adt.c`, LEB128, timeouts with their widths.
5. More theorems: `NothingLeft` of `ClassFile`, the refinement of `JavaHeap`.

The order follows the risk: what several threads or a moving collector can
break comes first, sequential algorithms last.
