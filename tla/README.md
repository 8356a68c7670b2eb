# Call Stack Logger: specifications and proofs

The call stack logger is a library that a C++ program is linked with and
compiled against with `-finstrument-functions`. The compiler then calls
`__cyg_profile_func_enter` and `__cyg_profile_func_exit` around every function;
from these two hooks, and from interposed exception functions, the library
writes one trace file per thread in which every call is a line, indented by its
depth, whose duration is filled in when the call returns.

Nothing the hooks are told says which frames are alive. A frame left by
`longjmp` or (with Clang) by an exception runs no exit hook, an inlined
function shares its caller's frame address, and a tail-called hook runs after
its frame is gone. The hooks must reconstruct the call stack from addresses and
names, keep a byte-exact account of a file other code may fail to write, share
caches between threads that are loading and unloading plugins, and survive
process exit while other threads are tracing. That is what is specified here.

Paths below are relative to the repository root. Line numbers of the mapped
definitions are in `PROJECT.json`.

## Inventory

| Part | Where | State it keeps | Operations |
|---|---|---|---|
| Frame stack | `src/trace.cpp`, `include/frameReconcile.h` | `t_state.frames` (records: callee, call site, level, logged, base name, exceptions in flight), `current_stack_depth`, `frame_overflow_count` | enter hook, exit hook, `on_catch`; three reclaims on enter, two on catch |
| Trace lines | `src/trace.cpp`, `include/format.h`, `include/eventFormat.h` | the file's bytes, `cursor`, `cursor_valid`, `patch_fd`, each record's line offset and depth | append a call or event line, patch its duration field, patch its tree glyph, open and seed the cursor |
| Trace file lifecycle | `src/trace.cpp` | `trace_ready`, `shutdown_started`, `shutdown_complete`, `open_files` under its mutex; per thread `fp`, `open_attempted`, `registered`, the guard | `trace_begin`, lazy open, thread exit, `trace_shutdown`, cancellation handling |
| Resolver | `src/callStack.cpp`, `include/callStack.h`, `include/frontCache.h`, `include/tracerScope.h` | four memo maps, `objects()`, `object_load_failed()` under `s_resolver_mutex`; two direct-mapped caches per thread | `resolve`, one frame of `get_call_stack`, event sites, inline chains |
| Frame levels | `src/trace.cpp` | `level_rules` (a rule per hook site) and `level_cache`, per thread | `frame_level`, `measured_frame_level`, `measure_level_rule` |
| Exception interposers | `src/exceptions.cpp`, `src/trace.cpp` | `t_terminating`, `t_last_caught_label`, the guard, all per thread | `__cxa_throw`, `__cxa_rethrow`, `std::rethrow_exception`, `__cxa_begin_catch`, `std::terminate`; `on_throw`, `on_catch`, `on_terminate`; the startup check |
| Texts | `include/durationFormat.h`, `prettyTime.h`, `traceFilePath.h`, `eventFormat.h`, `stdSymbolFilter.h` | none | pure functions |
| libbacktrace extension | `src/backtraceExtension.c` | `cslg_last_open` (directory and symbols of the file opened last), the state's lookup functions | create a state, register one object file; the checks every file opened on the way has to pass |

They interact by calls on the traced thread: a hook asks the frame levels for
its level, the frame stack for what to reclaim, the resolver for the names, the
lifecycle for the file and the trace lines for the write. Threads interact
through `open_files`, the four memo maps, the FILE locks of libc (shutdown
flushes other threads' files) and the lock of the dynamic loader.

The hard behaviours are control that skips the hooks (jumps, exceptions, inlining,
tail calls, signal handlers on another stack), failure of one step of several
(allocation, open, write), the order of thread exit, process exit and
cancellation, and two locks taken in both orders by code that calls back into
the hooks. The `hazards` of `PROJECT.json` list them one by one with the
properties that cover them.

## Modules

| Module | Models | Used by |
|---|---|---|
| `FrameReconcile` | the pure rules of `include/frameReconcile.h` | `FrameStack` |
| `FrameStack` | one thread: the real call stack, and the hooks' frame records beside it | `MCFrameStack`, the proofs |
| `MCFrameStack` | small traced programs | runs `calls`, `gcc`, `namesake` |
| `FrameLevels`, `MCFrameLevels` | one thread: frames of every layout, and the levels the hooks compute for them | run `levels` |
| `Interposers` | one thread: the exceptions of the program, the C++ runtime and the interposers between them | run `events` |
| `TraceLines` | the bytes of one thread's trace file | runs `restarts`, `deep_tree` |
| `TraceFiles` | files, registry and shutdown over all threads | run `shutdown` |
| `AddressLookup` | what one address resolves to, as operators | `Resolver` |
| `MemoTable` | what the resolver promises: one table of answers | refined by `Resolver` |
| `Resolver`, `MCResolver` | caches, mutex and loader over all threads | run `resolver` |
| `ObjectFiles` | `src/backtraceExtension.c`: files opened, checked and registered | `MCSequentialParts` |
| `DurationField` | `include/durationFormat.h` as operators | `MCSequentialParts` |
| `FunctionNames` | `matching_bracket` and `function_base_name` as operators | `MCSequentialParts` |
| `MCSequentialParts` | the three above over their inputs | runs `inputs`, `local_names`, `null_names` |
| `FrameStackProofs` | lemmas about the rules, type correctness, the depth, that no live record is ever popped, and where depths, exits and marks are exact | |
| `FrameLevelsProofs` | levels order like frames, and are exact | |
| `TraceLinesProofs` | the cursor, the patches and the pending lines | |
| `TraceFilesProofs` | files, registry and shutdown, for any number of threads | |
| `ResolverProofs` | the guard, and the refinement of `MemoTable` | |
| `InterposersProofs` | the terminate line, and silence of `what()` | `ExceptionLinesProofs` |
| `ExceptionLinesProofs` | what the lines name, and that raises and catches alternate | |
| `ObjectFilesProofs` | reads inside the file, and the directory of alt links | |

### FrameStack

The traced program is a parameter: bodies, call sites between them, which
bodies are inlined into which, which exits are tail-called, who calls `setjmp`,
and what the debug information says. `real` is the call stack as it is; the
tracer's actions read only what the hooks receive (callee, call site, level,
inline chain, exceptions in flight). `real[j].rec` and a record's `fate` are
history used by the properties alone.

| Action | Code |
|---|---|
| `EnterRecorded` | `__cyg_profile_func_enter`, the three reclaims and the push included; `outcome` says whether a line was written and whether the inline chain could be read |
| `EnterOverflowed`, `EnterWithoutSlot` | the same hook when a frame is only counted |
| `Return` | `__cyg_profile_func_exit` |
| `UnwindFrame` | an exception leaves a frame: GCC runs the exit hook, Clang does not |
| `Catch`, `CatchInTerminateStub` | `on_catch` from a handler, and from Clang's `__clang_call_terminate` |
| `Longjmp`, `Throw` | the program; no frame record changes except its `fate` |

Levels are inputs: a call lowers the level by `Drop[site]`, an inlined function
keeps it. That the computed levels really order like frames is what
`FrameLevels` checks; names are atoms here, and `FunctionNames` models how they
are cut out of demangled text. A build without `LOG_EXCEPTIONS` is one in which
unwinding leaves the records as `Longjmp` does.

### FrameLevels

Addresses are counted in words on a downward stack. `Layout` says what the
unwinder and the frame pointer register tell of a function's frames: `fixed`,
`frame_pointer` (any size, `alloca` included), `realigned` and `undescribed` (the
unwinder reports nothing or nonsense). `Enter`, `Exit` and `TailExit` call
`frame_level`: front cache, map, or a measurement whose insertion may fail for
want of memory. No stack overflows (`Fits`). `Catch` measures afresh, as `on_catch` does. `Signal` runs a
function on another stack, whose sites then keep the minimum rule. The two
properties say what `FrameStack` and the proofs assume of a level: a deeper frame has a lower
one, and it is the same at enter and exit.

### Interposers

The runtime is external and modelled as far as the interposers depend on it: the
stack of handled exceptions with handler counts (negative while rethrown),
its refusal to stack a foreign exception, and who calls `__cxa_begin_catch` and
`std::terminate`. A context is a handler, a destructor run by the unwinder, a
`what()` called by an interposer, or the terminate handler; in each the
program may throw, rethrow, catch and terminate again. An interposer is split where it
runs program code: `CxaThrow` and `BeginCatch` end at the `what()` they call, `CxaThrowGoesOn` and
`BeginCatchGoesOn` do the rest. `VerifyInterposers` chooses which of the five definitions
won the link. Left out: the `what()` that `on_terminate` reads for a
`std::terminate` call (it runs under the guard like the others), and a destructor
that rethrows an exception whose own rethrow is still unwinding, which the runtime's
counts do not survive.

### TraceLines

A byte of the file is a cell that knows which line and part it was written as,
and which line and part it was last patched as. Widths are constants, so that a
buffer of 8 bytes keeps the arithmetic of one of 2048. `Enter`, `Exit` and `Event`
take the file, write and patch as the hooks do; *which* records they pop is any number
from the top, which includes whatever `FrameStack` would pop. `NextRun` ends the
process at any point and starts another one on the same file, so what a crash
leaves behind is what the next run appends to. `Written` gives the prefixes a
failing write may leave. The patches of one reclaim are one map from bytes to the
patch that reaches them last: `reclaim_dead_records` goes from the top record down, so
where two would write one byte the lower record wins. `restarts` has
`MayRunOut = FALSE`: an allocation that throws half-way through opening a file
makes the properties false (see the smaller observations).

### TraceFiles

Each thread has a program counter through its hook, its exit and, on the thread
that called `exit()`, the exit handlers. Between two operations other threads
can observe there is one action. A FILE's own lock is `locked`. Program code
may enter a hook at any time, also from destructors of other thread-locals and
from exit handlers that run before or after `trace_shutdown`. A request for
cancellation may be pending on any thread. In a hook and in `~PerThreadTraceFile`
it waits; in the program's code it ends the thread (`ActOnCancel`), and on the
thread that called `exit()` it also unwinds out of an exit handler,
`trace_shutdown` inside `fflush` included (`UnwindExit`).

### AddressLookup and Resolver

`AddressLookup` holds the naming and location rules of `callStack.cpp` over a
constant table of what libbacktrace and `dladdr` say. Names are atoms;
demangling and base names are constant functions on them (string processing),
`StdNames` stands for the compile-time filter. `lost` is what a lookup lost to
failed allocations inside libbacktrace's callbacks; the code turns such a
failure into "no information" and memoizes it.

`Resolver` runs calls over threads: front caches, `Find` under the mutex,
`Query` (`dladdr`) without it, `Fill` under it again. A pointer to a map node is
the node's address key, which is what it identifies because nodes are never
erased. `Dlopen` and `Dlclose` hold the loader lock while constructors and
destructors run, which may call hooks. Simplifications, each harmless to the
properties: the `dladdr` queries of one call are one action, because the images asked for
stay mapped during the call; lookups that are skipped for want of a symbol
table or of DWARF give the same empty result as lookups that find nothing; that
an object is registered or refused is a nondeterministic choice; a hook that
never reaches the resolver is not a step; a reload at the very same base is
excluded, see the observations below.

`MemoTable` is the abstract specification: a question (a cache and an address)
is answered at most once, by an answer admissible for it, and every call that asks it is
given that answer. `Resolver` implements it under the mapping in its `Memo`
instance: the table is the union of the four maps, a call's questions are what it wants, and its
answers are what its node pointers point to. An admissible answer is one computed from the file of an object
covering the address, by either location rule, with whatever a lookup may lose, or from no file.

### ObjectFiles, DurationField, FunctionNames

`ObjectFiles` follows `cslg_backtrace_add_file` through `elf_add` (external) and
back into `cslg_open_checked`. What a file states (offsets, sizes, counts, indexes, notes) is
chosen where the code reads it, as a word that wraps at `Word`. `read` is the
range read last, the limit it should lie below, and the type of the section it is of:
the range of a name table typed `SHT_NULL` is whatever its header states. `held` are the files being
registered: the object, a debug file inside it, an alt file inside that.

`DurationField` formats a number of nanoseconds character by character, because
the property is about characters; `ReadBack` is the reference definition and
reads a field without knowing how it was written. `FunctionNames` works on
tokens (brackets, `::`, blanks, `operator`, words), which is all the code
distinguishes; the reference is the component the name was put together from.

## Runs

| Run | Configuration | Distinct states | What it shows | Properties |
|---|---|---|---|---|
| `calls` | `FrameStack_calls.cfg` | 9 900 | Whatever longjmp and Clang's unwinding leave behind in a program with recursion, tail-called exits and functions inlined into each other, the next call or catch line lands at its true depth, live hosts survive and every exit finds its own record. | `TypeOK`, `DepthCountsLoggedRecords`, `LiveRecordsKept`, `CallLinesAtTrueDepth`, `CatchLinesUnderTheCatcher`, `ExitsPopTheirOwnRecord` |
| `gcc` | `FrameStack_gcc.cfg` | 3 714 | Under GCC, with nested exceptions, handlers on an alternate signal stack and memory running out, pairing stays exact and the marks tell how each frame ended. | `LiveRecordsKept`, `MarksTellHowFramesEnded`, `ExitsPopTheirOwnRecord` |
| `restarts` | `TraceLines_restarts.cfg` | 201 527 | Over short writes, missing patch descriptors, crashes and reruns on the same file, a patch only ever rewrites the placeholder of its own line. | `TypeOK`, `CursorIsEndOfFile`, `PatchesHitTheirOwnLine`, `PendingWhileOnStack` |
| `shutdown` | `TraceFiles_shutdown.cfg` | 48 578 | trace_shutdown, on whichever thread calls exit(), against a thread that opens, writes, exits or is cancelled at any moment: files are flushed and closed in the right order, and no hook and no shutdown waits for ever on the registry mutex or on a FILE's lock. | `TypeOK`, `NoUseAfterClose`, `RegistryNotDangling`, `NoHookAfterDestruction`, `ShutdownFlushesWhatItLeavesOpen`, `EndedThreadsClosedTheirFile`, `CancellationSparesTheHooks`, `HooksReturn`, `ShutdownEnds` |
| `resolver` | `Resolver_resolver.cfg` | 350 299 | Two threads resolve colliding addresses while plugins come and go and lookups lose information or throw: the caches implement one table of answers, no address is answered from an unloaded object, and no call waits for ever between the mutex and the loader lock. | `TypeOK`, `GuardTellsWhereTheThreadIs`, `ImplementsMemoTable`, `UnloadedObjectsNeverAnswer`, `ResolvesReturn` |
| `events` | `Interposers_events.cfg` | 2 138 151 | Throws, rethrows, catches and every road to std::terminate, nested in handlers, destructors, what() overrides and the terminate handler: each line about an exception names that one, a rethrow without a type gets the name of the exception caught last, and one terminate line ends them. | `TypeOK`, `TerminateLineIsLast`, `EveryRoadIsLogged`, `LinesNameTheirException`, `RaisesAndCatchesAlternate`, `WhatIsSilent` |
| `levels` | `FrameLevels_levels.cfg` | 567 684 | Rules measured once per hook site and cached for ever keep the levels of live frames in order, and exact where the unwinder describes the frame, over alloca, jumps, tail-called exits, an alternate stack and failing insertions. | `TypeOK`, `LevelsOrderLikeFrames`, `DescribedLevelsAreExact` |
| `inputs` | `SequentialParts_inputs.cfg` | 321 598 | The sequential parts over their inputs: durations around every power of ten, names of nested scopes and operators, and object files that state any section types, offsets and sizes, with the debug and alt files they lead to. | `DurationFieldsReadBack`, `BaseNamesAreLastComponents`, `ReadsStayInside`, `AltLinksAreReadBesideTheirFile` |
| `namesake` | `FrameStack_namesake.cfg` | violated | A filtered inlined function with its host's base name is taken for the host, and its live record is popped. | `LiveRecordsKept` |
| `deep_tree` | `TraceLines_deep_tree.cfg` | violated | A line deeper than the buffer's tree is clamped when written but not when its glyph is patched. | `PatchesHitTheirOwnLine` |
| `local_names` | `SequentialParts_local_names.cfg` | violated | A function local to a const member function gets the member function's base name. | `BaseNamesAreLastComponents` |
| `null_names` | `SequentialParts_null_names.cfg` | violated | A section-name table typed SHT_NULL passes the layout check unlooked at and is read beyond the end of the file. | `EveryReadStaysInside` |

Properties, and why they are not obvious:

* `LiveRecordsKept`: reclaiming is guesswork on levels, call sites and names; a
  wrong guess pops a frame that is still running, whose exit then pops another.
* `CallLinesAtTrueDepth`, `CatchLinesUnderTheCatcher`: what was left behind is
  reclaimed before a line is indented.
* `ExitsPopTheirOwnRecord`: an exit finds its record among dead ones.
* `DepthCountsLoggedRecords`: five places change the depth and the records.
* `MarksTellHowFramesEnded`: the mark is derived from numbers of exceptions in
  flight, and must agree with how the frame really ended.
* `CursorIsEndOfFile`, `PatchesHitTheirOwnLine`, `PendingWhileOnStack`: offsets
  are computed, never read back, over short writes and reruns.
* `NoUseAfterClose`, `RegistryNotDangling`, `NoHookAfterDestruction`,
  `ShutdownFlushesWhatItLeavesOpen`, `EndedThreadsClosedTheirFile`,
  `CancellationSparesTheHooks`: shutdown, thread exit and cancellation in every order.
  The last is about hooks and `~PerThreadTraceFile`, which no forced unwind may leave;
  `trace_shutdown` has no such protection (smaller observations).
* `ImplementsMemoTable`: what allows nodes to be read without the mutex. Entries
  never change, and each call gets the answers to its own question, over racing fillers, colliding slots and
  lookups that come out poorer the second time.
* `UnloadedObjectsNeverAnswer`, `GuardTellsWhereTheThreadIs`.
* `TerminateLineIsLast`, `EveryRoadIsLogged`: several roads to `std::terminate`
  meet in one flag, which one of them sets only after its line is written. Once an event is
  lost to memory only the first still says anything: that `std::terminate` then writes the
  line Clang's stub lost is in the model, and in no property.
* `LinesNameTheirException`: the name comes from whatever the runtime calls
  current at that moment, or from a label kept since an earlier catch. A line about an exception
  never shows another's name. A rethrow for which the runtime has no type shows what the
  label says of the exception caught last, which is not always the one rethrown: a
  foreign exception may come out as `<unknown type>`, a `throw;` of nothing with the label of
  one swallowed before (smaller observations).
* `RaisesAndCatchesAlternate`, `WhatIsSilent`: the interposers call program code that throws.
* `LevelsOrderLikeFrames`, `DescribedLevelsAreExact`: a rule measured once is applied to frames of other sizes.
* `DurationFieldsReadBack`, `BaseNamesAreLastComponents`: checked against a reference.
* `ReadsStayInside`, `AltLinksAreReadBesideTheirFile`: sums that wrap, and a static shared by nested opens.
  The first leaves out the name table typed `SHT_NULL`, which `null_names` is about.
* `HooksReturn`, `ShutdownEnds`, `ResolvesReturn`: liveness.

### Bounds

* `calls`: eleven bodies in one program with two entry points: a recursive and
  intermittently logged function, two tail-called exits, a filtered function
  with an uninstrumented frame below it, a `noexcept` function, and functions
  inlined two deep and into two hosts; up to 7 live frames, 10 records and 2
  exceptions in flight. `gcc` goes to 8 and 10, so that the capacity doubles twice
  (2, 4, 8) with an overflow at each.
* `restarts`: two runs, three lines, three records; tearing a write needs one line before
  it and one after. A buffer of 8 bytes holds at most two tree segments, so the
  clamping of the text happens; the clamping of the tree is what `deep_tree` shows
  (`MaxLines = 4`).
* `shutdown`: main and one worker, either of which may call `exit()` while the other opens, writes,
  closes or is cancelled; each may have a cancellation request pending (`MaxCancels = 2`). One run
  checks safety and liveness, so there is no symmetry, and a third thread would be too much for it; that the
  safety properties hold for any number of threads is proved.
* `resolver`: two threads, two calls and two loads of plugins whose mappings overlap at
  different bases, so that the second goes where the first was. A race needs two
  fillers; a later reader is the slower of them. Five addresses share three slots. A lookup
  loses nothing or everything.
* `events`: two exceptions (each may be rethrown), two types, one with a `what()` that throws, three nested
  contexts and four lines before the program stops raising: a second exception in a handler or
  destructor of the first, and the terminate handler in it. At most one event is lost to memory.
* `levels`: five functions, three live frames, four hooks; two slots for fifteen sites. `MaxDistance` is
  8 words, so that one function's frames exceed it.
* `inputs`: `Digits = 2` (units a factor 100 apart) because TLC's integers have 32
  bits and 10^12 does not fit; the boundaries are the same. `Word` is 256; the values a file may state
  lie below, at and above the file's size and next to the wrap, and a name (`NameSize`) fits a table of 32
  bytes at 0 but not at 8. `MaxOpens = 3` is a debug file, its refused
  and its accepted alt file. Names have up to two enclosing scopes.

### Fairness

* `TraceFiles`: weak fairness of each thread's tracer steps: a runnable thread runs, and
  the registry mutex, which a thread takes at most twice, is not withheld
  for ever. Strong fairness of `Flush`: a thread may take and release its
  FILE's lock over and over; that `fflush` obtains it in the end is an
  assumption on libc, stated as such. Nothing is assumed of the program: it may stay
  in its own code for ever. `ShutdownEnds` counts a forced unwind out of `trace_shutdown` as an
  end: the mutex is given back, though the flag is never set.
* `Resolver`: weak fairness of each phase of a call. `FillingStep` is what
  `Fill` and `FillThrows` do to the thread's own state; one of the two is
  always possible there, so its fairness is that of their disjunction. Weak
  fairness of leaving a hook and of `DlReturns`: constructors end.
* The other modules make no liveness claim and have no fairness: they are about
  one thread, whose program may stop at any point.

`CHECK_DEADLOCK FALSE` stands where the system may stop: the process has exited
(`TraceFiles`, `Interposers`), the program has terminated in Clang's stub
(`calls`), a text is done (`inputs`), or the bound on calls or hooks is used up (`Resolver`,
`FrameLevels`). In the other runs deadlock is checked.

## Proofs

All are checked by TLAPS, for every value of the constants that meets the module's named
assumption. Those type the constants, and beyond that say: in `FrameStack`
(`BoundsAssumption`, `ProgramAssumption`) a caller's level is above its callee's, inlined functions have no
tail-called exit, and an alternate signal stack lies outside the known stack bounds; in
`FrameLevels` (`LevelsAssumption`) the alternate stack lies above the thread's and a function
of fixed layout has one frame size; in `TraceLines` (`LayoutAssumption`) widths are positive and the
buffer holds the prefix of a line; in `Interposers` (`InterposersAssumption`) no type is called "none", which
stands for no label; in `ObjectFiles` (its assumption types the words a file may state) they are naturals; in `Resolver` (`ResolverAssumption`) no code is at
address 0, a base is inside its mapping, and every address the hooks resolve has a front cache slot.

* `FrameStackProofs!TypeCorrect`: `Spec => []TypeOK`. The overflow count never
  goes below zero and every index a rule returns is in range.
* `FrameStackProofs!DepthIsExact`: `Spec => []DepthCountsLoggedRecords`. Inductive
  together with `TypeOK`; it rests on a lemma about the cardinality of the
  logged positions of a truncated stack.
* `FrameStackProofs!LiveRecordsSafe`: `Spec => []LiveRecordsKept` under two
  hypotheses on the program, `NamesTellFramesApart` and `ExitsAndCatchesAreSafe` (below).
* `MarksAreTrue`, `ExitsAreExact`, `CallLinesAreExact` and `CatchLinesAreExact`: under these and
  `EveryFrameRunsItsExit`, the run properties `MarksTellHowFramesEnded`,
  `ExitsPopTheirOwnRecord`, `CallLinesAtTrueDepth` and `CatchLinesUnderTheCatcher`.
* The same four where exits are skipped, for plain programs (`PlainProgram`, below):

  | Theorem | Property | Besides `PlainProgram` |
  |---|---|---|
  | `PlainCallLinesAreExact` | `CallLinesAtTrueDepth` | |
  | `PlainCatchLinesAreExact` | `CatchLinesUnderTheCatcher` | `LogExceptions`, `StubsAreCalls` |
  | `PlainExitsAreExact` | `ExitsPopTheirOwnRecord` | `CallsAreOrdered` |
  | `UnwoundExitsAreExact` | `ExitsPopTheirOwnRecord` | Clang, `LogExceptions`, `StubsAreCalls`, no jumps |
  | `UnwoundMarksAreTrue` | `MarksTellHowFramesEnded` | Clang, `LogExceptions`, `StubsAreCalls`, no jumps |
  | `JumpedMarksAreTrue` | `MarksTellHowFramesEnded` | no exceptions, `CallsAreOrdered` |

`LiveRecordsKept` is not inductive: a rule decides by the levels and names of *all* records,
dead ones included. `LiveInv` adds what makes the rules right:
live frames go down in level and share a level only within one physical frame
(`LiveFramesGoDown`); a live frame without a record is paid for by the overflow
count (`UntrackedFramesCounted`); dead and live records together go down in
level in the same way (`RecordsGoDown`), and those above a live frame's record
are at its level or deeper (`RecordsAboveLiveGoDown`); a record's name is that
of a function of the physical frame its call site enters that may be logged
(`NamesComeFromCallers`), and where a record below a live frame's in its physical frame has its base
name, the live frame's own record has it too (`OwnNamesFirst`); live frames at one level are inlined into one
another, each deeper than the one before (`SharedLevelsAreInlined`); and whatever encloses a frame with a tail-called
exit is at its caller's level or above (`TailCallersAbove`). One lemma per action, one step per
conjunct it can disturb.

The marks rest on `ExceptionsInv`, which holds of every program that keeps its live records: exceptions in flight are
each at a frame inside the one the exception before reached (`ExceptionsNest`), and the number in flight a live frame's
record keeps from its enter tells exactly which of them reached that frame or one inside it (`UncaughtTells`). That is why comparing
it with the number at the exit tells a return from an unwinding, although cleanups run traced code that throws and
catches on its own.

Where every frame runs its exit hook, `ExactInv` holds as well: every record is a live frame's (`EveryRecordIsLive`),
the overflow count counts exactly the innermost frames (`CountedFramesOnTop`), and the marks are true. What a rule reclaims
is never live, so with nothing dead it reclaims nothing; the frame stack mirrors the call stack.

Where frames leave without it, records of the dead stay until an enter, exit or catch finds them. In a plain program
`ChainInv` says how they lie: the live frames' records are the lowest, in order (`LiveRecordsFirst`), and
each record, dead or live, is of a frame called by that of the record below it (`RecordsChain`), so levels
go strictly down (`RecordsDescend`). The lowest dead record is then at the level a new frame from the same caller
has, and an enter or catch reclaims all there are; every call line and catch line is written with none left. An exit finds its own record below the dead ones when records
of one call site are contiguous, which they are where calls can be ordered (`SitesAscend`).
With Clang and without jumps a dead record never outlives the unwinding that left it, nothing can exit meanwhile, and
whoever reclaims it sees an exception in flight (`UnwoundInv`). Without exceptions all that is dead was jumped
over, and none is in flight when it is reclaimed (`JumpedInv`).

The other modules, where each theorem is `Spec => []Inv` of the property named unless said otherwise:

* `FrameLevelsProofs`: `TypeCorrect`, `LevelsOrder` (`LevelsOrderLikeFrames`), `LevelsExact`
  (`DescribedLevelsAreExact`). A level is right because the *rule* it came from was, which may have been
  measured on another activation long ago. So the invariant speaks of every rule kept in
  the map or in a slot (`RuleFits`): it is the minimum, or exactly the distance of its function's layout, and it
  must be the latter when the unwinder describes the function and no hook ran there off the thread's stack. Beside it,
  frames nest (`Nested`, whether or not they are on one stack) and a recorded level lies
  inside its frame (`Leveled`). The lemma `Register` says what the frame pointer register holds in a hook,
  and that for a function without a frame pointer it is never mistaken for the function's own.
* `TraceLinesProofs`: `TypeCorrect`, `CursorIsExact` (`CursorIsEndOfFile`), `PatchesStayOnTheirLine`
  (`PatchesHitTheirOwnLine`), `PendingIsTheCallChain` (`PendingWhileOnStack`). The three are inductive only
  together, in `Good`: every record with an offset points at a line of its own whose cells are
  as `format_into` laid them out (`OwnLine`), no two records share a line, lines in the file are numbered
  below the counter (`LinesBelow`), each cell is unpatched or patched as itself (`Clean`), and the cursor
  is the end. Where a patch lands then follows from the layout lemmas `FieldPlace` and `GlyphPlace`.
* `TraceFilesProofs`: `TypeCorrect`, `UseBeforeClose` (`NoUseAfterClose`), `RegistryAlive`
  (`RegistryNotDangling`), `HooksBeforeDestruction` (`NoHookAfterDestruction`), `NothingUnflushed`
  (`ShutdownFlushesWhatItLeavesOpen`), `NoFileOutlivesItsThread` (`EndedThreadsClosedTheirFile`) and
  `NoCancellationInHooks` (`CancellationSparesTheHooks`), for any number of threads. None is
  inductive alone: the registry is right because of what each thread's own state says at each place of its
  code (`FileInv`, `GuardInv`, `RegisteredInv`), who holds the mutex there (`MutexInv`), and what is left
  to flush while it is held (`FlushInv`). Most steps touch only their own thread, which `OwnStepInv` covers once.
* `ResolverProofs`: `TypeCorrect`, `GuardIsExact` (`GuardTellsWhereTheThreadIs`),
  `AnswersComeFromTheirObject` (`UnloadedObjectsNeverAnswer`, an action property) and
  `ResolverIsAMemoTable` (`ImplementsMemoTable`, the refinement). The invariant: the node a thread or a front
  cache holds is the entry of the very address asked for, and is in the shared map (`NodesOK`, `FrontInv`); a
  thread holds the mutex exactly in its critical sections (`LockInv`); `dladdr` named an
  image that covers the address (`ImagesOK`); a registered base is answered by its own
  file (`OwnStates`). Then `Begin` maps to `Ask`, `Find` to `Look`, `Fill` to `Settle` or `Look`, `Return` to
  `Reply`, and the remaining steps to stuttering.
* `InterposersProofs`: `TypeCorrect`, `OneTerminateLine` (`TerminateLineIsLast`), `NoSilentRoad`
  (`EveryRoadIsLogged`) and `WhatLeavesNoLine` (`WhatIsSilent`, an action property). The strengthening: the guard
  is up exactly while one `what()` runs for an interposer, and `t_terminating` is clear
  then (`GuardInv`); a terminate line implies `t_terminating` and, no event being lost, conversely
  (`TerminatingInv`); a terminate handler runs after a line or inside a guarded `what()` (`RoadInv`).
* `ExceptionLinesProofs`: `LinesTellOfTheirException` (`LinesNameTheirException`) and `ExceptionLinesAlternate`
  (`RaisesAndCatchesAlternate`), in three layers.
  * `HandlerInv`: the runtime's stack of handled exceptions follows the contexts of the program. A native exception
    is in it exactly while its handler count is not zero, and that count covers every context that holds it
    (`CountsCover`); the stack is ordered like the contexts (`StackOrder`); what was left from below a
    terminate handler is at the bottom (`BaseBelow`); only contexts inside a foreign exception's handler are above
    it (`ForeignBelow`), and only contexts inside a destructor above the exception it interrupts
    (`CleanupBelow`). What is being unwound is in no handler of its own (`UnwindInv`), and the
    exception a throw's `what()` describes is not yet raised (`ThrowInv`).
  * `NamesInv`: the label is that of the foreign exception being handled, unless the tracer looked away when that
    one was caught: `t_terminating` was set, or it was caught inside a `what()`, or on the way to `std::terminate`
    there (`LabelInv`). A line written later by then cannot be about it. `CaughtInv` ties the label to the
    log: while no event is lost, and outside a catch that waits for `what()`, it tells of the last catch line with no
    rethrow line after it.
  * `TellInv`: an exception's last line tells where it is. Outside `what()`, one being unwound was last raised and
    one being handled was last caught (`OpenInv`); while a `what()` runs, the same of all but those
    raised inside, which are gone when the interposer goes on (`HushedInv`). So each new line is of the other kind.
* `ObjectFilesProofs`: `ChecksReadInside` (`ReadsStayInside`) and `AltLinksBesideTheirFile`
  (`AltLinksAreReadBesideTheirFile`), for every word size. A bound is compared before the sum it
  guards is used, so no wrapped sum is ever read at; section header 0 is read where the ELF header's check found it
  to be inside the file (`LayoutInv`); a name table, unless typed `SHT_NULL`, was found inside it too
  (`NamesInv`). For the second: at most one debug file is nested in an object and
  one alt file in either (`NestingInv`), what is asked for belongs to the file being registered
  (`AskingInv`), and until the alt file of a debug file is looked for, `cslg_last_open` still tells
  that debug file's directory, a refused candidate having put it back (`DirectoryInv`).

### What the proofs need

`NamesTellFramesApart(outer, nesting)`: equal addresses have equal names where one is inlined into the other, the parent
name of a call site, when known, is that of the function around it, and whatever shares a base name within one physical
function with a body that may be logged is itself always logged. A body with no namesake there may be
logged now and then if every frame runs its exit, or if it is alone in its physical frame and its
inline chain can always be read. Without this the theorem is false: the
run `namesake` is a counterexample, and so is a body that is logged
intermittently beside a namesake, because the search by name skips the unlogged record.

`ExitsAndCatchesAreSafe`: no exit hook is tail-called in a program with handlers on an
alternate stack, and catches are not logged in a build where the frame stack may
fail to grow, unless no inlined function has debug information. A tail-called exit searches by level within a run of its call
site, and levels on two stacks compare with nothing. `on_catch` reclaims by level without looking at
`frame_overflow_count` (`src/trace.cpp` 1395-1420): when the catching frame is
itself only counted, records of its level and name may be those of other frames.

`EveryFrameRunsItsExit`: the program never calls `setjmp`, and it does not throw or is built with GCC, whose unwinder
runs the exit hook of each frame. The run `gcc` (signal handlers on their own stack, failing memory, logged catches) is an
instance of this and the two hypotheses before it. The run `calls` meets the other two except for `step`, which is inlined,
logged now and then, and may be jumped over.

`PlainProgram`: no inlining, no signal handlers on another stack, memory does not run out, parent names are right or unknown,
every function has debug information that can be read, and all the calls a function makes leave it at one level (none
pushes arguments, see the smaller observations). Functions may be filtered or logged now and then, exits may be tail-called,
recursion is free. The part of the program of `calls` made of `main`, `walk`, `leaf` and `sort` is one.

`StubsAreCalls`: calling Clang's terminate stub lowers the level no further than the other calls of a `noexcept` function.

`CallsAreOrdered(order)`: call sites can be ranked along the calls, so a function calls itself from one place at most and
never through another; and the caller of a function that starts a thread, if that function's exit is tail-called, is on the
thread's stack. Without the first, `ExitsPopTheirOwnRecord` fails (the observation on "a contiguous run").

`NonsenseShows` (`LevelsOrder`, `LevelsExact`): the bounds of the stack are known, or no
distance the rule can hold is as large as the stack's address. `measure_level_rule` has no other way to
tell that the CFA it was given is wrong; with 32-bit distances and a stack beyond 2 GiB the second holds.

`TreesFit` and `~MayRunOut` (`CursorIsExact`, `PatchesStayOnTheirLine`, `PendingIsTheCallChain`): the tree of
every line fits the line buffer, and opening a file does not run out of memory half-way. Without the
first the run `deep_tree` is a counterexample, without the second see the smaller observations.

`BasesDiffer` (`AnswersComeFromTheirObject`, `ResolverIsAMemoTable`): no two files are ever
mapped at one base. `objects()` is keyed by the base; `include/callStack.h:363-365` states the caveat.

### Only model-checked

* `CallLinesAtTrueDepth`, `ExitsPopTheirOwnRecord`, `CatchLinesUnderTheCatcher` and
  `MarksTellHowFramesEnded` outside the hypotheses above: programs that inline functions, or call from several
  levels, *and* jump or unwind with Clang. There they hold for the programs of the runs that check them, not for all: the observations
  below on mutual recursion, retried calls, counted frames and marks are exceptions.
* `DurationFieldsReadBack` and `BaseNamesAreLastComponents` say what recursive definitions compute, which
  the prover cannot reason about.
* `HooksReturn`, `ShutdownEnds` and `ResolvesReturn` are liveness under fairness, out of the prover's reach like `ENABLED`.

Where a proof needs induction on a number (`TraceLinesProofs`, `FrameLevelsProofs`) it is
done on a set of naturals, by its least element (`LeastNatural`).

## Findings

Four runs are expected to be violated; each states something the repository
says of the code.

* `namesake`: "nothing touched, when the parent's record is not found"
  (`src/trace.cpp:667-668`). A filtered inlined function with its host's base name
  (`std::swap` in a user's `swap`) is taken for the host.
* `deep_tree`: "pfd only rewrites EXISTING placeholder bytes"
  (`src/trace.cpp:851-852`). A line whose tree did not fit the buffer is written clamped, but
  its glyph is patched at the unclamped offset.
* `local_names`: "the parameter list of the function enclosing a local entity"
  (`include/frameReconcile.h:262-265`) opens a scope only when `::` follows at once. In
  `A::host(int) const::{lambda(int)#1}::operator()(int) const` it does not, and
  the lambda gets its host's base name, the one case in which the two must be told apart.
* `null_names`: "every file elf.c opens is checked", so that reading what lies beyond the end of a
  file does not end in "a crash in the hook" (`src/backtraceExtension.c:182-196`). A name table typed `SHT_NULL` skips
  the comparison of its range (`268`); `cslg_has_section_named` (`166-176`) stops at `SHT_NOBITS` only, and maps and reads it.

Smaller observations, not runs:

* When an allocation in `write_run_separator_header` (`src/trace.cpp:785-788`) throws, `fp` and `patch_fd` are
  stored already (875-877) but the cursor is still 0 and counts as valid ("True while
  `cursor` provably matches the file's real end position", `src/trace.cpp:299`). The next hooks write their
  lines at the end of the file and patch them at offsets counted from 0, over the header or lines of an earlier
  run. `TraceLines` with `MayRunOut = TRUE` and `MayFail = FALSE` violates `CursorIsEndOfFile` and `PatchesHitTheirOwnLine`.
* A `longjmp` over frames that were only counted leaves `frame_overflow_count`
  behind, and later exits of recorded frames drain it instead of popping their
  records; `src/trace.cpp:264-267` says it "pairs enters and exits exactly".
* "Recursion produces a contiguous run" (`include/frameReconcile.h:163-165`) is not
  so for mutual recursion, nor for a function that calls itself from two places: after a `longjmp` out of it an exit may take a dead
  record of the same call site for its own.
* A frame left by `longjmp` is marked `!`, not `~`, when an enter or a catch reclaims its record while an exception is in flight, such as
  one made by a cleanup; `README.md:697-699` gives `!` to frames an exception left.
  `MarksTellHowFramesEnded` is therefore proved with jumps or with Clang's unwinding, not with both.
* A hook in a frame whose stack pointer is realigned uses the per-site rule, on which
  the comment at `src/trace.cpp:602-606` says "a cached rule would be wrong": only the catch measures
  afresh. `LevelsOrderLikeFrames` leaves such frames out, `DescribedLevelsAreExact` includes them at a catch.
* A hook site first seen while running on an alternate stack keeps the minimum
  rule for ever, also on the thread's own stack.
* The label of a foreign exception is lost when its handler catches a native one before
  `throw;`: the line then reads `<unknown type>` (`README.md:602-606` promises the
  label; `src/exceptions.cpp:203-207` says "caught last"). A label is left behind when the
  foreign exception is swallowed, and a later `throw;` with nothing handled shows
  it. `std::terminate` called in the handler of a foreign exception reads `(no active exception)`.
* Base names: an instantiation of a function template keeps its return type
  (`int foo<int>`), a lambda inside an operator function gets the operator's base name.
* The `fflush` of `trace_shutdown` (`src/trace.cpp:1004`) is a cancellation point that no `ScopedCancelDisable`
  surrounds, against `src/trace.cpp:132-133` ("Used by every tracer scope that contains a POSIX cancellation point")
  and 145-147 ("the tracer adds no cancellation points of its own"; `README.md:839-845` says the same). A thread that calls
  `exit()` with a request pending may be unwound there. The mutex is given back; but `shutdown_started` stays set,
  so shutdown never completes, the registry is not cleared, and what was not flushed yet is left to libc.
* A function retried from the same call site after a jump is reclaimed on
  re-entry only when its level and chain say so; `README.md:783-786` is a little
  broader than the code. Arguments pushed on the stack change the level of a
  call and leave a dead record until the next shallower line.
* The comments at `src/trace.cpp:404-405`, `797-799` and `906-909` still say shutdown
  "can close" a thread's file; it only flushes other threads' files.
* `include/callStack.h:59-63` says a reloaded library can never be answered with
  the unloaded one's names. That holds when it has another base; `objects()` is
  keyed by `dli_fbase` and never invalidated (the caveat is at 363-365).
* A lookup poorer for a failed allocation is memoized for the life of the process.
* `location_cache` is shared by call sites and event sites, whose location rules
  differ: whoever asks first decides for both.

## Not modelled, and the plan

Not modelled: `sanitize_what_into`, timestamps and the wording of lines (pure
formatting, no property depends on it), the prefix matcher of the std library filter (a constant set in
`AddressLookup`), trace file names (pure string functions; each thread's file is its
own in `TraceFiles`), the capture of `get_call_stack` (`backtrace` into a buffer
that doubles until it suffices; each frame it resolves is a call in `Resolver`),
`main.cpp`, the benchmarks, the demo generator, the tests and the vendored libbacktrace.

The state machines of the library are all modelled, and the theorems cover most of what the runs
check. What would come next, in this order:

1. The frame-stack theorems for programs that inline functions and also jump or unwind with Clang: `ChainInv` would have
   to say which of the records at one level are dead, which only the names tell.
2. `TraceLines` with `MayRunOut = TRUE`: what still holds of a file whose header failed half-way (the first of the
   smaller observations).

## Running

    tlc -workers 2 -config FrameStack_calls.cfg MCFrameStack
    tlapm FrameStackProofs.tla
