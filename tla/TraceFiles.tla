------------------------------ MODULE TraceFiles ------------------------------
(***************************************************************************)
(* The life of the per-thread trace files of src/trace.cpp: trace_begin,   *)
(* the lazy open on a thread's first traced call, the writes and patches   *)
(* of the hooks, the thread-exit destructor, and trace_shutdown running on *)
(* whichever thread called exit() while the others are still tracing.      *)
(*                                                                         *)
(* What a thread does between two operations other threads can observe is  *)
(* one action.  A pthread_cancel request can strike at every cancellation  *)
(* point: the program's own, those of the hooks and of the thread-exit     *)
(* destructor, where the tracer has disabled cancellation, and fflush in   *)
(* trace_shutdown, where it has not.                                       *)
(***************************************************************************)
EXTENDS Naturals, FiniteSets

CONSTANTS
    Threads,
    Main,           \* the thread that runs trace_begin
    NoThread,
    MaxCancels      \* bound: cancellation requests

ASSUME ThreadsAssumption ==
    Main \in Threads /\ NoThread \notin Threads /\ MaxCancels \in Nat

VARIABLES
    th,                 \* the state of each thread, see Thread
    traceReady,         \* trace_ready
    shutdownStarted,    \* shutdown_started
    shutdownComplete,   \* shutdown_complete
    openFiles,          \* open_files: the threads whose file is registered
    mutex,              \* holder of open_files_mutex
    toFlush,            \* the files trace_shutdown has still to flush
    begun,              \* trace_begin ran, so trace_shutdown is an exit handler
    exiter,             \* the thread that called exit()
    process,            \* "alive" or "exited"
    flushed             \* history: the files trace_shutdown flushed

globals == <<traceReady, shutdownStarted, shutdownComplete, openFiles, mutex, toFlush>>
vars == <<th, globals, begun, exiter, process, flushed>>

\* Program code: the thread's function, the destructors of its thread_locals,
\* and on the exiting thread the exit handlers and static destructors.
ProgramPcs == {"run", "exit", "late"}
HookPcs == {"hook", "open", "header", "register", "write", "writing", "patch", "leave"}
\* The hooks and the thread-exit destructor, inside open, write, pwrite or close.
HookCancellationPoints == {"open", "header", "writing", "patch", "closing"}
Pcs == ProgramPcs \cup HookPcs \cup
       {"begin", "dtor", "closing", "shutdown", "flush", "ended"}

Thread == [pc : Pcs, home : ProgramPcs,     \* home: where the hook was called,
                                            \* "run" outside a hook
           guard : BOOLEAN,                 \* t_in_instrumentation
           tls : {"unborn", "alive", "destroyed"},      \* t_state
           openAttempted : BOOLEAN, registered : BOOLEAN,
           fp : BOOLEAN,                    \* fp and patch_fd are set
           file : {"none", "open", "closed"},   \* the FILE, the descriptors
           locked : BOOLEAN,                \* the FILE's own lock is held
           cancelOff : BOOLEAN,             \* cancellation is disabled
           cancelled : BOOLEAN]             \* a request is pending

TypeOK ==
    /\ th \in [Threads -> Thread]
    /\ {traceReady, shutdownStarted, shutdownComplete, begun} \subseteq BOOLEAN
    /\ openFiles \subseteq Threads /\ toFlush \subseteq Threads
    /\ flushed \subseteq Threads
    /\ {mutex, exiter} \subseteq Threads \cup {NoThread}
    /\ process \in {"alive", "exited"}
    /\ mutex # NoThread => th[mutex].pc \in {"closing", "flush"}

Untouched == [pc |-> "run", home |-> "run", guard |-> FALSE, tls |-> "unborn",
              openAttempted |-> FALSE, registered |-> FALSE, fp |-> FALSE,
              file |-> "none", locked |-> FALSE, cancelOff |-> FALSE,
              cancelled |-> FALSE]

Init ==
    /\ th = [t \in Threads |-> Untouched]
    /\ traceReady = FALSE /\ shutdownStarted = FALSE /\ shutdownComplete = FALSE
    /\ openFiles = {} /\ mutex = NoThread /\ toFlush = {}
    /\ begun = FALSE /\ exiter = NoThread /\ process = "alive" /\ flushed = {}

At(t, where) == process = "alive" /\ th[t].pc = where
InProgram(t) == process = "alive" /\ th[t].pc \in ProgramPcs
UNCHANGED_process == UNCHANGED <<begun, exiter, process, flushed>>
-------------------------------------------------------------------------------
(***************************************************************************)
(* trace_begin, a constructor on the main thread.  Constructors that run   *)
(* earlier may be traced and may have started threads.                     *)
(***************************************************************************)
TraceBegin ==
    /\ At(Main, "run") /\ ~begun
    /\ th' = [th EXCEPT ![Main].pc = "begin", ![Main].guard = TRUE,
                        ![Main].tls = "alive"]
    /\ begun' = TRUE
    /\ UNCHANGED <<globals, exiter, process, flushed>>

TraceReady ==
    /\ At(Main, "begin")
    /\ th' = [th EXCEPT ![Main].pc = "run", ![Main].guard = FALSE]
    /\ traceReady' = TRUE
    /\ UNCHANGED <<shutdownStarted, shutdownComplete, openFiles, mutex, toFlush>>
    /\ UNCHANGED_process
-------------------------------------------------------------------------------
(***************************************************************************)
(* The hooks: guard set, cancellation disabled, t_state touched first.     *)
(***************************************************************************)
BornState(tls) == IF tls = "unborn" THEN "alive" ELSE tls

InHookCancellable(r, where) ==
    [r EXCEPT !.pc = where, !.home = r.pc, !.guard = TRUE, !.tls = BornState(@)]
InHook(r, where) ==
    [r EXCEPT !.pc = where, !.home = r.pc, !.guard = TRUE, !.tls = BornState(@),
              !.cancelOff = TRUE]

\* __cyg_profile_func_enter, and the event hooks.
EnterHook(t) ==
    /\ InProgram(t) /\ ~th[t].guard
    /\ th' = [th EXCEPT ![t] = InHook(@, "hook")]
    /\ UNCHANGED globals /\ UNCHANGED_process

\* __cyg_profile_func_exit, which patches a line through patch_fd.
ExitHook(t) ==
    /\ InProgram(t) /\ ~th[t].guard
    /\ th' = [th EXCEPT ![t] = InHook(@, "patch")]
    /\ UNCHANGED globals /\ UNCHANGED_process

LeaveHook(t) ==
    /\ At(t, "patch") \/ At(t, "leave")
    /\ th' = [th EXCEPT ![t].pc = th[t].home, ![t].home = "run",
                        ![t].guard = FALSE, ![t].cancelOff = FALSE]
    /\ UNCHANGED globals /\ UNCHANGED_process

\* get_thread_fp: where a hook goes that wants the thread's file.
AfterGetThreadFp(r) ==
    IF ~traceReady \/ shutdownComplete THEN "leave"
    ELSE IF ~r.openAttempted THEN "open"
    ELSE IF r.fp THEN "write" ELSE "leave"

GetThreadFp(t) ==
    /\ At(t, "hook")
    /\ th' = [th EXCEPT ![t].pc = AfterGetThreadFp(th[t])]
    /\ UNCHANGED globals /\ UNCHANGED_process
-------------------------------------------------------------------------------
(***************************************************************************)
(* open_this_thread_file.                                                  *)
(***************************************************************************)
\* The path cannot be built, or open() or fdopen() fails: never tried again.
RetriedOpen(r) == [r EXCEPT !.pc = "hook"]
FailedOpen(r) == [r EXCEPT !.pc = "leave", !.openAttempted = TRUE]

OpenFails(t) ==
    /\ At(t, "open")
    /\ th' = [th EXCEPT ![t] = FailedOpen(@)]
    /\ UNCHANGED globals /\ UNCHANGED_process

OpenFile(t) ==
    /\ At(t, "open")
    /\ th' = [th EXCEPT ![t].pc = "header", ![t].openAttempted = TRUE,
                        ![t].fp = TRUE, ![t].file = "open"]
    /\ UNCHANGED globals /\ UNCHANGED_process

\* The header is written, or building it throws: the file stays open then,
\* but it is never registered.
WriteHeader(t) ==
    /\ At(t, "header")
    /\ \E where \in {"register", "leave"} : th' = [th EXCEPT ![t].pc = where]
    /\ UNCHANGED globals /\ UNCHANGED_process

\* Under the mutex: registered, or closed again when shutdown is complete.
RegisterUnchecked(t) ==
    /\ At(t, "register") /\ mutex = NoThread
    /\ th' = [th EXCEPT ![t].pc = "write", ![t].registered = TRUE]
    /\ openFiles' = openFiles \cup {t}
    /\ UNCHANGED <<traceReady, shutdownStarted, shutdownComplete, mutex, toFlush>>
    /\ UNCHANGED_process

Register(t) ==
    /\ At(t, "register") /\ mutex = NoThread
    /\ \/ /\ shutdownComplete
          /\ th' = [th EXCEPT ![t].pc = "leave", ![t].fp = FALSE, ![t].file = "closed"]
          /\ UNCHANGED openFiles
       \/ /\ ~shutdownComplete
          /\ th' = [th EXCEPT ![t].pc = "write", ![t].registered = TRUE]
          /\ openFiles' = openFiles \cup {t}
    /\ UNCHANGED <<traceReady, shutdownStarted, shutdownComplete, mutex, toFlush>>
    /\ UNCHANGED_process

\* fwrite of a line: it holds the FILE's own lock while it writes.
StartWrite(t) ==
    /\ At(t, "write") /\ ~th[t].locked
    /\ th' = [th EXCEPT ![t].pc = "writing", ![t].locked = TRUE]
    /\ UNCHANGED globals /\ UNCHANGED_process

FinishWrite(t) ==
    /\ At(t, "writing")
    /\ th' = [th EXCEPT ![t].pc = "leave", ![t].locked = FALSE]
    /\ UNCHANGED globals /\ UNCHANGED_process
-------------------------------------------------------------------------------
(***************************************************************************)
(* Thread exit.  ~PerThreadTraceFile runs with t_state's destruction, among*)
(* the destructors of other thread_locals.                                 *)
(***************************************************************************)
ThreadExit(t) ==
    /\ At(t, "run") /\ (t = Main => begun)
    /\ th' = [th EXCEPT ![t].pc = "exit"]
    /\ UNCHANGED globals /\ UNCHANGED_process

\* The guard stays set for the rest of the thread's life.  Nothing is locked
\* when the thread never opened a file.
DestructorUnguarded(r) ==
    IF r.fp THEN [r EXCEPT !.pc = "dtor", !.cancelOff = TRUE]
    ELSE [r EXCEPT !.tls = "destroyed"]
DestructorIfRegistered(r) ==
    IF r.registered THEN [r EXCEPT !.pc = "dtor", !.guard = TRUE, !.cancelOff = TRUE]
    ELSE [r EXCEPT !.tls = "destroyed", !.guard = TRUE]
Destructor(r) ==
    IF r.fp THEN [r EXCEPT !.pc = "dtor", !.guard = TRUE, !.cancelOff = TRUE]
    ELSE [r EXCEPT !.tls = "destroyed", !.guard = TRUE]

DestroyState(t) ==
    /\ At(t, "exit") /\ th[t].tls = "alive"
    /\ th' = [th EXCEPT ![t] = Destructor(@)]
    /\ UNCHANGED globals /\ UNCHANGED_process

CloseFile(t) ==
    /\ At(t, "dtor") /\ mutex = NoThread /\ ~th[t].locked
    /\ th' = [th EXCEPT ![t].pc = "closing", ![t].fp = FALSE, ![t].file = "closed"]
    /\ mutex' = t
    /\ UNCHANGED <<traceReady, shutdownStarted, shutdownComplete, openFiles, toFlush>>
    /\ UNCHANGED_process

NotErased(t) == openFiles
Erased(t) == IF th[t].registered THEN openFiles \ {t} ELSE openFiles

StillLocked == mutex
Unlocked == NoThread

Unregister(t) ==
    /\ At(t, "closing")
    /\ openFiles' = Erased(t)
    /\ th' = [th EXCEPT ![t].pc = "exit", ![t].registered = FALSE,
                        ![t].tls = "destroyed", ![t].cancelOff = FALSE]
    /\ mutex' = Unlocked
    /\ UNCHANGED <<traceReady, shutdownStarted, shutdownComplete, toFlush>>
    /\ UNCHANGED_process

\* All thread_locals are gone.  The exiting thread goes on to the exit
\* handlers, any other thread ends.
LeaveThread(t) ==
    /\ At(t, "exit") /\ th[t].tls # "alive"
    /\ th' = [th EXCEPT ![t].pc = IF t = exiter THEN "late" ELSE "ended"]
    /\ UNCHANGED globals /\ UNCHANGED_process
-------------------------------------------------------------------------------
(***************************************************************************)
(* Process exit.                                                           *)
(***************************************************************************)
CallExit(t) ==
    /\ At(t, "run") /\ exiter = NoThread /\ (t = Main => begun)
    /\ exiter' = t
    /\ th' = [th EXCEPT ![t].pc = "exit"]
    /\ UNCHANGED <<globals, begun, process, flushed>>

\* trace_shutdown, an exit handler: the guard, then the one-time switch.
StartShutdown(t) ==
    /\ At(t, "late") /\ t = exiter /\ begun /\ ~shutdownStarted
    /\ shutdownStarted' = TRUE
    /\ th' = [th EXCEPT ![t].pc = "shutdown", ![t].guard = TRUE]
    /\ UNCHANGED <<traceReady, shutdownComplete, openFiles, mutex, toFlush>>
    /\ UNCHANGED_process

LockRegistry(t) ==
    /\ At(t, "shutdown") /\ mutex = NoThread
    /\ mutex' = t
    /\ toFlush' = openFiles
    /\ th' = [th EXCEPT ![t].pc = "flush"]
    /\ UNCHANGED <<traceReady, shutdownStarted, shutdownComplete, openFiles>>
    /\ UNCHANGED_process

\* fflush takes the FILE's own lock; other threads' files stay open.
FlushedAndClosed(f) == [th EXCEPT ![f].fp = FALSE, ![f].file = "closed"]
Flushed(f) == th

FlushFile(t, f) ==
    /\ At(t, "flush") /\ f \in toFlush
    /\ th[f].fp => ~th[f].locked
    /\ toFlush' = toFlush \ {f}
    /\ flushed' = IF th[f].fp THEN flushed \cup {f} ELSE flushed
    /\ th' = Flushed(f)
    /\ UNCHANGED <<traceReady, shutdownStarted, shutdownComplete, openFiles, mutex>>
    /\ UNCHANGED <<begun, exiter, process>>

FinishShutdown(t) ==
    /\ At(t, "flush") /\ toFlush = {}
    /\ openFiles' = {}
    /\ shutdownComplete' = TRUE
    /\ mutex' = NoThread
    /\ th' = [th EXCEPT ![t].pc = "late"]
    /\ UNCHANGED <<traceReady, shutdownStarted, toFlush>>
    /\ UNCHANGED_process

\* The exit handlers are done: trace_shutdown ran here, or an earlier exit()
\* began it and was unwound out of it.  The other threads vanish wherever they
\* are, and their memory with them.
EndProcess(t) ==
    /\ At(t, "late") /\ t = exiter /\ (begun => shutdownStarted)
    /\ process' = "exited"
    /\ th' = [u \in Threads |-> Untouched]
    /\ openFiles' = {} /\ mutex' = NoThread
    /\ UNCHANGED <<traceReady, shutdownStarted, shutdownComplete, toFlush>>
    /\ UNCHANGED <<begun, exiter, flushed>>
-------------------------------------------------------------------------------
(***************************************************************************)
(* Cancellation.  A request is acted on at the next cancellation point     *)
(* reached with cancellation enabled.                                      *)
(***************************************************************************)
RequestCancel(t) ==
    /\ process = "alive" /\ (t = Main => begun) /\ th[t].pc # "ended"
    /\ ~th[t].cancelled
    /\ Cardinality({u \in Threads : th[u].cancelled}) < MaxCancels
    /\ th' = [th EXCEPT ![t].cancelled = TRUE]
    /\ UNCHANGED globals /\ UNCHANGED_process

ActOnCancel(t) ==
    /\ At(t, "run") /\ th[t].cancelled
    /\ th' = [th EXCEPT ![t].pc = "exit"]
    /\ UNCHANGED globals /\ UNCHANGED_process

\* In an exit handler, the program's or trace_shutdown inside fflush, the forced
\* unwind leaves exit() as well: the lock_guard gives the mutex back, the thread
\* ends like any other, and what remained of the handler is never run.
UnwindExit(t) ==
    /\ t = exiter /\ th[t].cancelled /\ ~th[t].cancelOff
    /\ \/ At(t, "late") /\ UNCHANGED <<mutex, toFlush>>
       \/ /\ At(t, "flush")
          /\ \E f \in toFlush : th[f].fp /\ ~th[f].locked
          /\ mutex' = NoThread /\ toFlush' = {}
    /\ exiter' = NoThread
    /\ th' = [th EXCEPT ![t].pc = "exit"]
    /\ UNCHANGED <<traceReady, shutdownStarted, shutdownComplete, openFiles>>
    /\ UNCHANGED <<begun, process, flushed>>
-------------------------------------------------------------------------------
TracerStep(t) ==
    \/ GetThreadFp(t) \/ OpenFails(t) \/ OpenFile(t) \/ WriteHeader(t)
    \/ Register(t) \/ StartWrite(t) \/ FinishWrite(t) \/ LeaveHook(t)
    \/ CloseFile(t) \/ Unregister(t)
    \/ LockRegistry(t) \/ FinishShutdown(t)

Flush(t) == \E f \in Threads : FlushFile(t, f)

ProgramStep(t) ==
    \/ EnterHook(t) \/ ExitHook(t) \/ ThreadExit(t) \/ DestroyState(t)
    \/ LeaveThread(t) \/ CallExit(t) \/ StartShutdown(t) \/ EndProcess(t)
    \/ RequestCancel(t) \/ ActOnCancel(t) \/ UnwindExit(t)

Next ==
    \/ TraceBegin \/ TraceReady
    \/ \E t \in Threads : TracerStep(t) \/ Flush(t) \/ ProgramStep(t)

\* The tracer's own code never stops for ever: a running thread takes its next
\* step, and the mutex, which each thread takes a bounded number of times, is
\* obtained.  A FILE's lock is taken and released over and over by its thread;
\* that fflush obtains it in the end is an assumption on glibc's lock.
Fairness == \A t \in Threads : WF_vars(TracerStep(t)) /\ SF_vars(Flush(t))

Spec == Init /\ [][Next]_vars /\ Fairness
-------------------------------------------------------------------------------
(***************************************************************************)
(* Properties.                                                             *)
(***************************************************************************)
\* A file is open whenever a thread writes or patches through it, and whenever
\* trace_shutdown is about to flush it: neither shutdown nor a thread's own
\* exit closes it under a user ("never a crash").
NoUseAfterClose ==
    /\ \A t \in Threads :
         /\ th[t].pc \in {"header", "register", "write", "writing"} =>
              th[t].file = "open"
         /\ th[t].fp => th[t].file = "open"
    /\ \A f \in toFlush : th[f].tls = "alive" /\ th[f].file = "open"

\* The registry holds no pointer into the storage of a thread that is gone:
\* every registered thread's t_state is alive, or its destructor still holds
\* the mutex.
RegistryNotDangling ==
    \A t \in openFiles : th[t].tls = "alive" /\ (th[t].fp \/ mutex = t)

\* No hook runs on a thread whose t_state was destroyed, not even from the
\* destructors and exit handlers that run after it.
NoHookAfterDestruction ==
    \A t \in Threads : th[t].pc \in HookPcs => th[t].tls = "alive"

\* "Registry cleared" and "shutdown complete" are one step: a registered file
\* that is still open once shutdown is complete was flushed by it.
ShutdownFlushesWhatItLeavesOpen ==
    shutdownComplete =>
      \A t \in Threads : th[t].registered /\ th[t].fp => t \in flushed

\* A thread that ended leaves no open descriptor behind.
EndedThreadsClosedTheirFile ==
    \A t \in Threads : th[t].pc = "ended" => th[t].file # "open"

\* No cancellation request is acted on inside a hook or the thread-exit
\* destructor, where the forced unwind would meet a frame without an unwind entry
\* and end the process ("The hooks run with cancellation disabled").  It says
\* nothing of trace_shutdown: its fflush is a cancellation point the tracer adds
\* with cancellation enabled, see UnwindExit.
CancellationSparesTheHooks ==
    \A t \in Threads : th[t].pc \in HookCancellationPoints /\ th[t].cancelled =>
                       th[t].cancelOff

\* Every hook returns to the program: no thread waits for ever for the mutex,
\* for the FILE's lock or in a repeated open.
HooksReturn ==
    \A t \in Threads :
      th[t].pc \in HookPcs ~> (th[t].pc \in ProgramPcs \/ process # "alive")

\* trace_shutdown completes, whatever the other threads are in the middle of,
\* unless a cancellation request takes its own thread out of it.
ShutdownEnds ==
    \A t \in Threads :
      th[t].pc \in {"shutdown", "flush"} ~> (shutdownComplete \/ th[t].pc = "exit")
===============================================================================
