------------------------------ MODULE FrameStack ------------------------------
(***************************************************************************)
(* One traced thread: the program's real call stack and the frame stack    *)
(* the instrumentation hooks of src/trace.cpp keep beside it.              *)
(*                                                                         *)
(* The program is a parameter: a set of compiled function bodies and of    *)
(* call sites between them.  A function inlined into a host is a body of   *)
(* its own, entered at an "inline" site: its hooks fire like any other's,  *)
(* but it shares the host's level and the host's return address.           *)
(*                                                                         *)
(* `real' is what is really alive.  The tracer never sees it: it only gets *)
(* what the hooks are passed.  `real[j].rec' and the records' `fate' are   *)
(* history, used by the properties and never by the tracer's actions.      *)
(***************************************************************************)
EXTENDS FrameReconcile, FiniteSets

CONSTANTS
    \* The traced program, as compiled.
    Bodies,         \* compiled bodies, one per inlined copy
    Fn,             \* body -> function address (the hooks' `callee')
    BaseName,       \* body -> function_base_name of its name
    TailExit,       \* bodies whose exit hook is tail-called (a jmp)
    Dwarf,          \* bodies with a DWARF inline chain
    Noexcept,       \* bodies that are noexcept (Clang's terminate stub)
    LogOutcomes,    \* body -> possible outcomes of tracing its enter
    Sites,          \* places a body is entered from
    Kind,           \* site -> "entry" | "call" | "inline" | "signal"
    Host,           \* site -> the body containing it ("call", "inline")
    Target,         \* site -> the body it enters
    Drop,           \* site -> level of the host's frame minus the callee's
    Up,             \* site -> level of the direct caller minus the callee's
    Cleanup,        \* sites in landing pads, run while unwinding
    Parent,         \* site -> base name of the function containing it
    EntryLevel,     \* level of a frame called by uninstrumented start code
    SignalLevel,    \* level of a handler on the alternate signal stack
    StubDrop,       \* Drop of the call to Clang's terminate stub
    \* The build.
    Compiler,       \* "gcc" | "clang"
    LogExceptions,  \* LOG_EXCEPTIONS
    InitialCapacity,\* INITIAL_FRAME_CAPACITY
    \* What may happen, and the bounds of the model.
    JumpTargets,    \* bodies that call setjmp
    Throws,         \* the program throws
    MayRunOut,      \* growing `frames' may throw bad_alloc
    MaxDepth,       \* live frames
    MaxRecords,     \* records on the frame stack
    MaxInFlight     \* exceptions in flight

Outcomes == {"logged", "unlogged", "chain_failed"}
Kinds == {"entry", "call", "inline", "signal"}

ASSUME ProgramAssumption ==
    /\ Fn \in [Bodies -> STRING] /\ BaseName \in [Bodies -> STRING]
    /\ TailExit \subseteq Bodies /\ Dwarf \subseteq Bodies
    /\ Noexcept \subseteq Bodies
    /\ LogOutcomes \in [Bodies -> SUBSET Outcomes]
    /\ Kind \in [Sites -> Kinds] /\ Target \in [Sites -> Bodies]
    /\ Host \in [Sites -> Bodies] /\ Cleanup \subseteq Sites
    /\ Drop \in [Sites -> Nat] /\ Up \in [Sites -> Nat]
    /\ Parent \in [Sites -> STRING] /\ NoName \in STRING
    /\ \A s \in Sites : /\ Kind[s] = "call" => Up[s] \in 1..Drop[s]
                        /\ Kind[s] = "inline" => Target[s] \notin TailExit
    /\ EntryLevel \in Int /\ SignalLevel \in Int /\ StubDrop \in Nat \ {0}
    /\ OnThreadStack(EntryLevel)
    \* With unknown bounds the code assumes a single stack.
    /\ \A s \in Sites : Kind[s] = "signal" => ~OnThreadStack(SignalLevel)
    /\ InitialCapacity \in Nat \ {0}
    /\ MaxDepth \in Nat /\ MaxRecords \in Nat /\ MaxInFlight \in Nat
    /\ {LogExceptions, Throws, MayRunOut} \subseteq BOOLEAN
    /\ JumpTargets \subseteq Bodies

VARIABLES
    real,       \* the live frames, outermost first
    inflight,   \* per exception in flight, the frame its unwinding has reached
    running,    \* FALSE once the program is terminating
    frames,     \* t_state.frames
    capacity,   \* t_state.frames.capacity()
    depth,      \* t_state.current_stack_depth
    overflow,   \* t_state.frame_overflow_count
    ended       \* how the latest hook ended lines: [fate, how] per record

progVars == <<real, inflight, running>>
vars == <<real, inflight, running, frames, capacity, depth, overflow, ended>>

Activation == [body : Bodies, caller : Sites, level : Int, rec : Nat]
FrameRecord == [callee : STRING, caller : Sites, level : Int, logged : BOOLEAN,
                name : STRING, uncaught : Nat,
                fate : {"live", "jumped", "unwound"}]
LineEnd == [fate : {"live", "jumped", "unwound", "returned"},
            how : {"|", "!", "~"}]

TypeOK ==
    /\ real \in Seq(Activation)
    /\ inflight \in Seq(Nat)
    /\ running \in BOOLEAN
    /\ frames \in Seq(FrameRecord)
    /\ capacity \in Nat
    /\ depth \in Int
    /\ overflow \in Nat
    /\ ended \subseteq LineEnd

Init ==
    /\ real = <<>> /\ inflight = <<>> /\ running = TRUE
    /\ frames = <<>> /\ capacity = 0 /\ depth = -1 /\ overflow = 0
    /\ ended = {}
-------------------------------------------------------------------------------
Top == real[Len(real)]
Uncaught == Len(inflight)                 \* std::uncaught_exceptions()
Floor == IF inflight = <<>> THEN 0 ELSE inflight[Len(inflight)]
UnwindingTop == inflight # <<>> /\ Floor = Len(real)

(***************************************************************************)
(* The frame that entering at site s creates.                              *)
(***************************************************************************)
CanEnter(s) ==
    /\ running
    /\ Len(real) < MaxDepth
    /\ \/ Kind[s] = "entry" /\ real = <<>>
       \/ /\ Kind[s] = "signal" /\ real # <<>>
          /\ \A j \in DOMAIN real : OnThreadStack(real[j].level)
       \/ /\ Kind[s] \in {"call", "inline"} /\ real # <<>>
          /\ Top.body = Host[s]
          /\ UnwindingTop <=> s \in Cleanup
    \* A call stays on the stack of its caller.
    /\ Kind[s] = "call" =>
         (OnThreadStack(Top.level) <=> OnThreadStack(Top.level - Drop[s]))

EnteredLevel(s) ==
    IF Kind[s] = "entry" THEN EntryLevel
    ELSE IF Kind[s] = "signal" THEN SignalLevel
    ELSE IF Kind[s] = "inline" THEN Top.level
    ELSE Top.level - Drop[s]

EnteredCaller(s) == IF Kind[s] = "inline" THEN Top.caller ELSE s

Entered(s, rec) == [body   |-> Target[s], caller |-> EnteredCaller(s),
                    level  |-> EnteredLevel(s), rec |-> rec]

KeyAt(a, level) == [callee |-> Fn[a.body], caller |-> a.caller, level |-> level]
KeyOf(a) == KeyAt(a, a.level)
-------------------------------------------------------------------------------
(***************************************************************************)
(* reclaim_dead_records: the records above `kept' are popped, the depth    *)
(* comes down once per logged one, and with LOG_EXCEPTIONS each of their   *)
(* lines is marked `how'.                                                  *)
(***************************************************************************)
LoggedAbove(kept) == {i \in kept + 1 .. Len(frames) : frames[i].logged}

DepthAtAllRecords(kept) == depth - (Len(frames) - kept)
DepthAt(kept) == depth - Cardinality(LoggedAbove(kept))

MarkLines(kept, how) ==
    IF LogExceptions
    THEN {[fate |-> frames[i].fate, how |-> how] : i \in LoggedAbove(kept)}
    ELSE {}

(***************************************************************************)
(* The three reclaims of an enter, each as the number of records it keeps  *)
(* of the first `count'.                                                   *)
(***************************************************************************)
KeptByLevel(key) ==
    Len(frames) - DeadRecordsOnEnter(frames, Len(frames), key)

\* reclaim_dead_inlined_records_on_enter.  The inline chain at the hook site
\* names the entered function and, for an inlined one, its host next.
KeptByChain(count, key, s) ==
    LET host == BaseName[Host[s]]
        recursiveInline == Kind[s] = "inline" /\ BaseName[Target[s]] = host
        again == {i \in 1..count : /\ SameActivationSite(frames[i], key)
                                   /\ frames[i].level = key.level}
        retried == IF recursiveInline THEN count
                   ELSE count - TopRun(count, again)
    IN  IF \/ count = 0
           \/ frames[count].level # key.level
           \/ ~OnThreadStack(key.level)
           \/ Target[s] \notin Dwarf
        THEN count
        ELSE IF Kind[s] = "inline"
             THEN retried - DeadRecordsAboveMatch(frames, retried, key.level, host)
             ELSE retried

\* reclaim_dead_inlined_records_above_parent.
KeptByParentAlways(count, key) == count
KeptByParent(count, key) ==
    LET parent == Parent[key.caller]
    IN  IF \/ parent = NoName
           \/ count = 0
           \/ ~(frames[count].level > key.level)
           \/ ~OnThreadStack(frames[count].level)
           \/ ~OnThreadStack(key.level)
        THEN count
        ELSE count - DeadRecordsAboveMatch(frames, count, frames[count].level, parent)

KeptOnEnter(key, s, outcome) ==
    LET byLevel == KeptByLevel(key)
    IN  IF outcome = "chain_failed"
        THEN byLevel
        ELSE LET byChain == KeptByChain(byLevel, key, s)
             IN  IF outcome = "logged" THEN KeptByParent(byChain, key) ELSE byChain
-------------------------------------------------------------------------------
(***************************************************************************)
(* __cyg_profile_func_enter.                                               *)
(***************************************************************************)
\* Growing a full frame stack: INITIAL_FRAME_CAPACITY first, then doubling.
GrownCapacity ==
    IF Len(frames) < capacity THEN capacity
    ELSE IF frames = <<>> THEN InitialCapacity ELSE 2 * capacity

\* An enclosing frame overflowed, so this one is only counted.
EnterOverflowed(s) ==
    /\ CanEnter(s)
    /\ overflow > 0
    /\ overflow' = overflow + 1
    /\ real' = Append(real, Entered(s, 0))
    /\ ended' = {}
    /\ UNCHANGED <<inflight, running, frames, capacity, depth>>

\* Growing `frames' throws: nothing is reclaimed, the frame is counted.
EnterWithoutSlot(s) ==
    /\ CanEnter(s)
    /\ overflow = 0
    /\ MayRunOut /\ Len(frames) = capacity
    /\ overflow' = 1
    /\ real' = Append(real, Entered(s, 0))
    /\ ended' = {}
    /\ UNCHANGED <<inflight, running, frames, capacity, depth>>

EnterMark == IF Uncaught > 0 THEN "!" ELSE "~"

NewRecord(a, outcome) ==
    [callee |-> Fn[a.body], caller |-> a.caller, level |-> a.level,
     logged |-> outcome = "logged",
     name |-> IF outcome = "logged" THEN BaseName[a.body] ELSE NoName,
     uncaught |-> Uncaught, fate |-> "live"]

\* The usual enter.  `outcome' tells how far the exception barrier got: to the
\* end with a line written, to the end without one (no file, filtered by the
\* resolver, or resolution threw), or only to a failed inline chain lookup.
EnterRecorded(s, outcome) ==
    LET new  == Entered(s, 0)
        kept == KeptOnEnter(KeyOf(new), s, outcome)
    IN  /\ CanEnter(s)
        /\ overflow = 0
        /\ outcome \in LogOutcomes[Target[s]]
        /\ kept < MaxRecords
        /\ capacity' = GrownCapacity
        /\ frames' = Append(SubSeq(frames, 1, kept), NewRecord(new, outcome))
        /\ depth' = DepthAt(kept) + (IF outcome = "logged" THEN 1 ELSE 0)
        /\ ended' = MarkLines(kept, EnterMark)
        /\ real' = Append(real, Entered(s, kept + 1))
        /\ UNCHANGED <<inflight, running, overflow>>

Enter ==
    \E s \in Sites : \/ EnterOverflowed(s)
                     \/ EnterWithoutSlot(s)
                     \/ \E o \in Outcomes : EnterRecorded(s, o)
-------------------------------------------------------------------------------
\* The pending overflow after one more exit.
DrainedUnguarded == overflow - 1
DrainedAtOnce == 0
Drained == IF overflow > 0 THEN overflow - 1 ELSE overflow

\* The record's frame saw fewer exceptions in flight when it was entered.
WheneverOneIsInFlight(index) == Uncaught > 0
LeftByException(index) == Uncaught > frames[index].uncaught

(***************************************************************************)
(* __cyg_profile_func_exit of the innermost live frame.  A tail-called     *)
(* hook runs after the frame was popped and resolves to the caller's level.*)
(* `why' is what really ends the frame: "returned" or "unwound" (GCC runs  *)
(* the exit hook on the unwind path too).                                  *)
(***************************************************************************)
ExitHook(tailCalled, why) ==
    LET own   == Top
        key   == KeyAt(own, IF tailCalled THEN own.level + Up[own.caller]
                            ELSE own.level)
        index == ExitingRecordIndex(frames, Len(frames), key, tailCalled)
    IN  /\ overflow' = Drained
        /\ IF overflow > 0 \/ frames = <<>>
           THEN /\ ended' = {}
                /\ UNCHANGED <<frames, depth>>
           ELSE /\ frames' = SubSeq(frames, 1, index - 1)
                /\ depth' = DepthAt(index - 1)
                /\ ended' = MarkLines(index, "~") \cup
                     IF LogExceptions /\ frames[index].logged
                     THEN {[fate |-> IF index = own.rec THEN why
                                     ELSE frames[index].fate,
                            how  |-> IF LeftByException(index) THEN "!" ELSE "|"]}
                     ELSE {}

RealWithoutTop == SubSeq(real, 1, Len(real) - 1)

\* The innermost frame returns.
Return ==
    /\ running
    /\ real # <<>>
    /\ Len(real) > Floor
    /\ ExitHook(Top.body \in TailExit, "returned")
    /\ real' = RealWithoutTop
    /\ UNCHANGED <<inflight, running, capacity>>
-------------------------------------------------------------------------------
(***************************************************************************)
(* Frames that leave without their exit hook.                              *)
(***************************************************************************)
WithFate(record, how) == [record EXCEPT !.fate = how]

Buried(k, how) ==
    LET gone == {real[j].rec : j \in k + 1 .. Len(real)}
    IN  [i \in DOMAIN frames |->
           IF i \in gone THEN WithFate(frames[i], how) ELSE frames[i]]

\* longjmp back into the k-th live frame, inside any running cleanup.
Longjmp(k) ==
    /\ running
    /\ k < Len(real) /\ k > Floor
    /\ real[k].body \in JumpTargets
    /\ real' = SubSeq(real, 1, k)
    /\ frames' = Buried(k, "jumped")
    /\ ended' = {}
    /\ UNCHANGED <<inflight, running, capacity, depth, overflow>>

\* A throw in the innermost frame; some live frame will catch it.
Throw ==
    /\ running /\ Throws
    /\ Len(real) > Floor
    /\ Uncaught < MaxInFlight
    /\ inflight' = Append(inflight, Len(real))
    /\ ended' = {}
    /\ UNCHANGED <<real, running, frames, capacity, depth, overflow>>

\* The unwinder removes the innermost frame: GCC runs its exit hook on the
\* way (an ordinary call), Clang emits none there.
UnwindFrame ==
    /\ running
    /\ UnwindingTop
    /\ Len(real) > 1
    /\ Uncaught > 1 => Len(real) - 1 > inflight[Uncaught - 1]
    /\ inflight' = [inflight EXCEPT ![Uncaught] = Len(real) - 1]
    /\ real' = RealWithoutTop
    /\ \/ Compiler = "gcc" /\ ExitHook(FALSE, "unwound")
       \/ /\ Compiler = "clang"
          /\ frames' = Buried(Len(real) - 1, "unwound")
          /\ ended' = {}
          /\ UNCHANGED <<depth, overflow>>
    /\ UNCHANGED <<running, capacity>>
-------------------------------------------------------------------------------
(***************************************************************************)
(* A catch in the innermost frame.  With LOG_EXCEPTIONS __cxa_begin_catch  *)
(* is interposed and on_catch reclaims what the exception unwound.  Memory *)
(* can run out before either reclaim (resolving the site, reading the      *)
(* inline chain); the exception barrier then leaves the rest undone.       *)
(***************************************************************************)
KeptOnCatch(level) == Len(frames) - DeadRecordsOnCatch(frames, Len(frames), level)

\* reclaim_dead_inlined_records_on_catch: the chain's first name caught.
KeptOnCatchAlways(count, level) == count
KeptOnCatchByChain(count, level) ==
    IF \/ count = 0
       \/ frames[count].level # level
       \/ ~OnThreadStack(level)
       \/ Top.body \notin Dwarf
    THEN count
    ELSE count - DeadRecordsAboveMatch(frames, count, level, BaseName[Top.body])

InflightWithoutTop == SubSeq(inflight, 1, Uncaught - 1)

PopTo(kept, how) ==
    /\ frames' = SubSeq(frames, 1, kept)
    /\ depth' = DepthAt(kept)
    /\ ended' = MarkLines(kept, how)
    /\ UNCHANGED <<capacity, overflow>>

\* How many records an on_catch at `level' may leave.
OnCatchKeeps(level) ==
    LET byLevel == KeptOnCatch(level)
    IN  {KeptOnCatchByChain(byLevel, level)} \cup
          (IF MayRunOut THEN {byLevel, Len(frames)} ELSE {})

Catch ==
    /\ running
    /\ UnwindingTop
    /\ inflight' = InflightWithoutTop
    /\ \/ /\ LogExceptions
          /\ \E kept \in OnCatchKeeps(Top.level) : PopTo(kept, "!")
       \/ /\ ~LogExceptions
          /\ ended' = {}
          /\ UNCHANGED <<frames, capacity, depth, overflow>>
    /\ UNCHANGED <<real, running>>

\* Clang's noexcept landing pad: __clang_call_terminate, called from the
\* noexcept frame, calls __cxa_begin_catch.  Every record at or below the
\* stub's level is reclaimed and the program terminates.
CatchInTerminateStub ==
    /\ running
    /\ UnwindingTop
    /\ Compiler = "clang" /\ LogExceptions
    /\ Top.body \in Noexcept
    \* The stub runs on the stack of its caller.
    /\ OnThreadStack(Top.level) <=> OnThreadStack(Top.level - StubDrop + 1)
    /\ \E kept \in {KeptOnCatch(Top.level - StubDrop + 1)} \cup
                   (IF MayRunOut THEN {Len(frames)} ELSE {}) : PopTo(kept, "!")
    /\ inflight' = InflightWithoutTop
    /\ running' = FALSE
    /\ UNCHANGED real
-------------------------------------------------------------------------------
Next ==
    \/ Enter
    \/ Return
    \/ \E k \in 1..MaxDepth : Longjmp(k)
    \/ Throw
    \/ UnwindFrame
    \/ Catch
    \/ CatchInTerminateStub

Spec == Init /\ [][Next]_vars
-------------------------------------------------------------------------------
(***************************************************************************)
(* Properties.                                                             *)
(***************************************************************************)
\* The depth the next line is indented by is, after every hook, one less than
\* the number of logged records: only a logged frame raised it, and whoever
\* pops its record (its exit, a later enter, a catch) lowers it exactly once.
DepthCountsLoggedRecords ==
    depth = Cardinality({i \in DOMAIN frames : frames[i].logged}) - 1

\* No hook pops the record of a frame that is still alive: every live frame
\* that was recorded still has its own record, in the order of the call stack.
\* The level rules, the inline chains and the exit rule may leave a dead
\* record behind, but must never take a live one.
LiveRecordsKept ==
    \A j \in DOMAIN real :
      real[j].rec # 0 =>
        /\ real[j].rec \in DOMAIN frames
        /\ SameActivationSite(frames[real[j].rec], KeyOf(real[j]))
        /\ frames[real[j].rec].level = real[j].level
        /\ frames[real[j].rec].fate = "live"
        /\ \A i \in 1 .. j - 1 : real[i].rec < real[j].rec

LiveLogged ==
    {j \in DOMAIN real :
       real[j].rec \in DOMAIN frames /\ frames[real[j].rec].logged}

WritesCallLine ==
    /\ Len(real') > Len(real)
    /\ real'[Len(real')].rec \in DOMAIN frames'
    /\ frames'[real'[Len(real')].rec].logged

\* A call line is written at the depth of the frames that are really alive,
\* however many frames left without an exit hook before it (README, "so the
\* line lands at its true depth").
CallLinesAtTrueDepth ==
    [][WritesCallLine => depth' = Cardinality(LiveLogged') - 1]_vars

\* The exit hook of a recorded frame pops that very record with everything
\* above it (trace.cpp: "Find THIS frame's record"), so the duration and the
\* depth it settles are its own; the exit of an overflow frame pops nothing.
ExitsPopTheirOwnRecord ==
    [][Return \/ (UnwindFrame /\ Compiler = "gcc") =>
         Len(frames') = IF Top.rec = 0 THEN Len(frames) ELSE Top.rec - 1]_vars

\* With LOG_EXCEPTIONS, the catch and terminate lines are written under the
\* frame that caught: whatever the exception unwound was reclaimed first.
CatchLinesUnderTheCatcher ==
    [][Catch \/ CatchInTerminateStub => depth' = Cardinality(LiveLogged') - 1]_vars

\* The mark a line ends with tells how its frame really ended: "|" returned,
\* "!" left by an exception, "~" skipped by longjmp (README, "Marking the
\* frames that did not return").
MarksTellHowFramesEnded ==
    \A m \in ended :
      m \in {[fate |-> "returned", how |-> "|"],
             [fate |-> "unwound",  how |-> "!"],
             [fate |-> "jumped",   how |-> "~"]}
===============================================================================
