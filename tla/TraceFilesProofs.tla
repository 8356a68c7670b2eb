--------------------------- MODULE TraceFilesProofs ---------------------------
(***************************************************************************)
(* Theorems about TraceFiles, for every set of threads: none of the        *)
(* interleavings of hooks, thread exits, cancellations and shutdown uses a *)
(* closed file, leaves a dangling registry entry or loses a file's lines.  *)
(***************************************************************************)
EXTENDS TraceFiles, TLAPS

(***************************************************************************)
(* The inductive invariant.  What a thread's own state says, wherever the  *)
(* other threads are:                                                      *)
(***************************************************************************)
\* fp and patch_fd are set exactly while the file is open, and then t_state,
\* which owns them, is alive.
FileInv(r) ==
    /\ r.fp <=> r.file = "open"
    /\ r.fp => r.openAttempted /\ r.tls = "alive"
    /\ r.pc \in {"header", "register", "write", "writing", "dtor"} => r.fp
    /\ r.pc = "open" => ~r.openAttempted
    /\ r.pc = "closing" => ~r.fp

\* Tracer code runs guarded, with cancellation off, on an existing t_state; the
\* guard of a destroyed t_state is never lifted.
GuardInv(r) ==
    /\ r.pc \in HookPcs \cup {"dtor", "closing"} =>
         r.guard /\ r.cancelOff /\ r.tls = "alive"
    /\ r.pc = "begin" => r.tls = "alive"
    /\ r.tls = "destroyed" => r.guard
    /\ r.pc = "run" => r.tls # "destroyed"
    /\ r.pc = "ended" => r.tls # "alive"

\* A file is registered once, after its header, and stays so until the
\* destructor that closed it unregisters it.
RegisteredInv(r) ==
    /\ r.registered => r.openAttempted /\ (r.fp \/ r.pc = "closing")
    /\ r.pc \in {"header", "register"} => ~r.registered

ThreadInv == \A t \in Threads : FileInv(th[t]) /\ GuardInv(th[t]) /\ RegisteredInv(th[t])

(***************************************************************************)
(* What the shared state says: the mutex is held by the thread that closes *)
(* or flushes, the registry holds the registered threads until shutdown    *)
(* clears it, and shutdown has flushed what it no longer has to flush.     *)
(***************************************************************************)
MutexInv == \A t \in Threads : th[t].pc \in {"closing", "flush"} => mutex = t

ExiterInv == \A t \in Threads : th[t].pc \in {"shutdown", "flush"} => t = exiter

RegistryInv ==
    /\ \A t \in openFiles : th[t].registered
    /\ ~shutdownComplete => \A t \in Threads : th[t].registered => t \in openFiles

FlushInv ==
    /\ toFlush \subseteq openFiles
    /\ toFlush # {} => mutex \in Threads /\ th[mutex].pc = "flush"
    /\ \A t \in Threads : th[t].pc = "flush" => openFiles \subseteq toFlush \cup flushed

IInv ==
    /\ TypeOK /\ ThreadInv /\ MutexInv /\ ExiterInv /\ RegistryInv /\ FlushInv
    /\ ShutdownFlushesWhatItLeavesOpen
-------------------------------------------------------------------------------
LEMMA InitInv == Init => IInv
<1> SUFFICES ASSUME Init PROVE IInv
  OBVIOUS
<1>1. TypeOK
  BY DEF Init, TypeOK, Untouched, Thread, Pcs, ProgramPcs
<1>2. ThreadInv
  BY DEF Init, ThreadInv, FileInv, GuardInv, RegisteredInv, Untouched, HookPcs
<1>3. MutexInv /\ ExiterInv /\ RegistryInv /\ FlushInv
  BY DEF Init, MutexInv, ExiterInv, RegistryInv, FlushInv, Untouched
<1> QED
  BY <1>1, <1>2, <1>3 DEF IInv, Init, ShutdownFlushesWhatItLeavesOpen

(***************************************************************************)
(* Most steps change only the state of the thread that takes them: they    *)
(* neither take nor release the mutex, nor register or unregister a file.  *)
(***************************************************************************)
OwnStep(t) ==
    /\ \A u \in Threads \ {t} : th'[u] = th[u]
    /\ FileInv(th'[t]) /\ GuardInv(th'[t]) /\ RegisteredInv(th'[t])
    /\ th'[t].pc # th[t].pc => {th[t].pc, th'[t].pc} \cap {"closing", "flush"} = {}
    /\ th'[t].pc = "shutdown" => t = exiter
    /\ th'[t].registered = th[t].registered
    /\ th'[t].registered /\ th'[t].fp => th[t].fp
    /\ {traceReady', shutdownStarted', begun'} \subseteq BOOLEAN
    /\ UNCHANGED <<shutdownComplete, openFiles, mutex, toFlush, process, flushed>>
    /\ exiter' \in {exiter, t} /\ (exiter # NoThread => exiter' = exiter)

LEMMA OwnStepInv ==
    ASSUME IInv, NEW t \in Threads, th' \in [Threads -> Thread], OwnStep(t)
    PROVE  IInv'
<1> USE DEF IInv, OwnStep
<1>1. TypeOK'
  BY ThreadsAssumption DEF TypeOK
<1>2. ThreadInv'
  BY DEF ThreadInv
<1>3. MutexInv' /\ ExiterInv'
  BY ThreadsAssumption DEF MutexInv, ExiterInv, TypeOK
<1>4. RegistryInv' /\ FlushInv'
  BY DEF RegistryInv, FlushInv, TypeOK
<1>5. ShutdownFlushesWhatItLeavesOpen'
  BY DEF ShutdownFlushesWhatItLeavesOpen
<1> QED
  BY <1>1, <1>2, <1>3, <1>4, <1>5

(***************************************************************************)
(* The type of every thread state such a step leaves, and its effect.      *)
(***************************************************************************)
LEMMA OwnTypes ==
    ASSUME TypeOK, NEW t \in Threads
    PROVE  /\ EnterHook(t) => th' \in [Threads -> Thread]
           /\ ExitHook(t) => th' \in [Threads -> Thread]
           /\ LeaveHook(t) => th' \in [Threads -> Thread]
           /\ GetThreadFp(t) => th' \in [Threads -> Thread]
           /\ OpenFails(t) => th' \in [Threads -> Thread]
           /\ OpenFile(t) => th' \in [Threads -> Thread]
           /\ WriteHeader(t) => th' \in [Threads -> Thread]
           /\ StartWrite(t) => th' \in [Threads -> Thread]
           /\ FinishWrite(t) => th' \in [Threads -> Thread]
           /\ ThreadExit(t) => th' \in [Threads -> Thread]
           /\ DestroyState(t) => th' \in [Threads -> Thread]
           /\ LeaveThread(t) => th' \in [Threads -> Thread]
           /\ CallExit(t) => th' \in [Threads -> Thread]
           /\ StartShutdown(t) => th' \in [Threads -> Thread]
           /\ RequestCancel(t) => th' \in [Threads -> Thread]
           /\ ActOnCancel(t) => th' \in [Threads -> Thread]
<1>0. th \in [Threads -> Thread] /\ th[t] \in Thread
  BY DEF TypeOK
<1> USE <1>0 DEF Thread, Pcs, ProgramPcs, HookPcs, At, InProgram
<1>1. ASSUME EnterHook(t) PROVE th' \in [Threads -> Thread]
  BY <1>1 DEF EnterHook, InHook, BornState
<1>2. ASSUME ExitHook(t) PROVE th' \in [Threads -> Thread]
  BY <1>2 DEF ExitHook, InHook, BornState
<1>3. ASSUME LeaveHook(t) PROVE th' \in [Threads -> Thread]
  BY <1>3 DEF LeaveHook
<1>4. ASSUME GetThreadFp(t) PROVE th' \in [Threads -> Thread]
  BY <1>4 DEF GetThreadFp, AfterGetThreadFp
<1>5. ASSUME OpenFails(t) PROVE th' \in [Threads -> Thread]
  BY <1>5 DEF OpenFails, FailedOpen
<1>6. ASSUME OpenFile(t) PROVE th' \in [Threads -> Thread]
  BY <1>6 DEF OpenFile
<1>7. ASSUME WriteHeader(t) PROVE th' \in [Threads -> Thread]
  BY <1>7 DEF WriteHeader
<1>8. ASSUME StartWrite(t) PROVE th' \in [Threads -> Thread]
  BY <1>8 DEF StartWrite
<1>9. ASSUME FinishWrite(t) PROVE th' \in [Threads -> Thread]
  BY <1>9 DEF FinishWrite
<1>10. ASSUME ThreadExit(t) PROVE th' \in [Threads -> Thread]
  BY <1>10 DEF ThreadExit
<1>11. ASSUME DestroyState(t) PROVE th' \in [Threads -> Thread]
  BY <1>11 DEF DestroyState, Destructor
<1>12. ASSUME LeaveThread(t) PROVE th' \in [Threads -> Thread]
  BY <1>12 DEF LeaveThread
<1>13. ASSUME CallExit(t) PROVE th' \in [Threads -> Thread]
  BY <1>13 DEF CallExit
<1>14. ASSUME StartShutdown(t) PROVE th' \in [Threads -> Thread]
  BY <1>14 DEF StartShutdown
<1>15. ASSUME RequestCancel(t) PROVE th' \in [Threads -> Thread]
  BY <1>15 DEF RequestCancel
<1>16. ASSUME ActOnCancel(t) PROVE th' \in [Threads -> Thread]
  BY <1>16 DEF ActOnCancel
<1> QED
  BY <1>1, <1>2, <1>3, <1>4, <1>5, <1>6, <1>7, <1>8,
     <1>9, <1>10, <1>11, <1>12, <1>13, <1>14, <1>15, <1>16

LEMMA OwnSteps ==
    ASSUME IInv, NEW t \in Threads
    PROVE  /\ EnterHook(t) => OwnStep(t)
           /\ ExitHook(t) => OwnStep(t)
           /\ LeaveHook(t) => OwnStep(t)
           /\ GetThreadFp(t) => OwnStep(t)
           /\ OpenFails(t) => OwnStep(t)
           /\ OpenFile(t) => OwnStep(t)
           /\ WriteHeader(t) => OwnStep(t)
           /\ StartWrite(t) => OwnStep(t)
           /\ FinishWrite(t) => OwnStep(t)
           /\ ThreadExit(t) => OwnStep(t)
           /\ DestroyState(t) => OwnStep(t)
           /\ LeaveThread(t) => OwnStep(t)
           /\ CallExit(t) => OwnStep(t)
           /\ StartShutdown(t) => OwnStep(t)
           /\ RequestCancel(t) => OwnStep(t)
           /\ ActOnCancel(t) => OwnStep(t)
<1>0. /\ th[t] \in Thread /\ FileInv(th[t]) /\ GuardInv(th[t]) /\ RegisteredInv(th[t])
      /\ th \in [Threads -> Thread]
      /\ {traceReady, shutdownStarted, begun} \subseteq BOOLEAN
      /\ th[t].pc = "shutdown" => t = exiter
  BY DEF IInv, TypeOK, ThreadInv, ExiterInv
<1> USE <1>0
    DEF OwnStep, Thread, ProgramPcs, HookPcs, FileInv, GuardInv, RegisteredInv, At,
        InProgram, UNCHANGED_process, globals
<1>1. EnterHook(t) => OwnStep(t)
  BY DEF EnterHook, InHook, BornState
<1>2. ExitHook(t) => OwnStep(t)
  BY DEF ExitHook, InHook, BornState
<1>3. LeaveHook(t) => OwnStep(t)
  BY DEF LeaveHook
<1>4. GetThreadFp(t) => OwnStep(t)
  BY DEF GetThreadFp, AfterGetThreadFp
<1>5. OpenFails(t) => OwnStep(t)
  BY DEF OpenFails, FailedOpen
<1>6. OpenFile(t) => OwnStep(t)
  BY DEF OpenFile
<1>7. WriteHeader(t) => OwnStep(t)
  BY DEF WriteHeader
<1>8. StartWrite(t) => OwnStep(t)
  BY DEF StartWrite
<1>9. FinishWrite(t) => OwnStep(t)
  BY DEF FinishWrite
<1>10. ThreadExit(t) => OwnStep(t)
  BY DEF ThreadExit
<1>11. DestroyState(t) => OwnStep(t)
  BY DEF DestroyState, Destructor
<1>12. LeaveThread(t) => OwnStep(t)
  BY DEF LeaveThread
<1>13. CallExit(t) => OwnStep(t)
  BY DEF CallExit
<1>14. StartShutdown(t) => OwnStep(t)
  BY DEF StartShutdown
<1>15. RequestCancel(t) => OwnStep(t)
  BY DEF RequestCancel
<1>16. ActOnCancel(t) => OwnStep(t)
  BY DEF ActOnCancel
<1> QED
  BY <1>1, <1>2, <1>3, <1>4, <1>5, <1>6, <1>7, <1>8,
     <1>9, <1>10, <1>11, <1>12, <1>13, <1>14, <1>15, <1>16

LEMMA BeginSteps ==
    ASSUME IInv, TraceBegin \/ TraceReady
    PROVE  IInv'
<1>0. /\ Main \in Threads /\ th \in [Threads -> Thread] /\ th[Main] \in Thread
      /\ FileInv(th[Main]) /\ GuardInv(th[Main]) /\ RegisteredInv(th[Main])
      /\ {traceReady, shutdownStarted, begun} \subseteq BOOLEAN
  BY ThreadsAssumption DEF IInv, TypeOK, ThreadInv
<1>1. th' \in [Threads -> Thread]
  BY <1>0 DEF TraceBegin, TraceReady, Thread, Pcs, ProgramPcs
<1>2. CASE TraceBegin
  <2>1. OwnStep(Main)
    BY <1>0, <1>2 DEF TraceBegin, OwnStep, Thread, HookPcs, FileInv, GuardInv,
                      RegisteredInv, At, globals
  <2> QED
    BY <1>0, <1>1, <2>1, OwnStepInv
<1>3. CASE TraceReady
  <2>1. OwnStep(Main)
    BY <1>0, <1>3 DEF TraceReady, OwnStep, Thread, HookPcs, FileInv, GuardInv,
                      RegisteredInv, At, UNCHANGED_process
  <2> QED
    BY <1>0, <1>1, <2>1, OwnStepInv
<1> QED
  BY <1>2, <1>3
-------------------------------------------------------------------------------
(***************************************************************************)
(* The steps that take or hold open_files_mutex, and the end of the        *)
(* process.                                                                *)
(***************************************************************************)
\* A file is registered only while nobody flushes, and not once shutdown is
\* complete.
LEMMA RegisterInv ==
    ASSUME IInv, NEW t \in Threads, Register(t)
    PROVE  IInv'
<1> USE DEF IInv, Register, At, UNCHANGED_process
<1>0. th \in [Threads -> Thread] /\ th[t] \in Thread
  BY DEF TypeOK
<1>1. th' \in [Threads -> Thread]
  BY <1>0 DEF Thread, Pcs, ProgramPcs, HookPcs
<1>2. TypeOK'
  BY <1>0, <1>1, ThreadsAssumption DEF TypeOK, MutexInv, FlushInv, Thread
<1>3. ThreadInv'
  BY <1>0 DEF ThreadInv, FileInv, GuardInv, RegisteredInv, Thread, HookPcs
<1>4. MutexInv' /\ ExiterInv'
  BY <1>0, ThreadsAssumption DEF MutexInv, ExiterInv, TypeOK, Thread
<1>5. RegistryInv'
  BY <1>0 DEF RegistryInv, ThreadInv, RegisteredInv, TypeOK, Thread
<1>6. FlushInv'
  BY <1>0, ThreadsAssumption DEF FlushInv, MutexInv, ExiterInv, TypeOK, Thread
<1>7. ShutdownFlushesWhatItLeavesOpen'
  BY <1>0 DEF ShutdownFlushesWhatItLeavesOpen, RegistryInv, FlushInv, TypeOK, Thread
<1> QED
  BY <1>2, <1>3, <1>4, <1>5, <1>6, <1>7

\* The destructor closes the file with the mutex held, so no flush has it left.
LEMMA CloseFileInv ==
    ASSUME IInv, NEW t \in Threads, CloseFile(t)
    PROVE  IInv'
<1> USE DEF IInv, CloseFile, At, UNCHANGED_process
<1>0. th \in [Threads -> Thread] /\ th[t] \in Thread
  BY DEF TypeOK
<1>1. th' \in [Threads -> Thread]
  BY <1>0 DEF Thread, Pcs, ProgramPcs, HookPcs
<1>2. TypeOK'
  BY <1>0, <1>1, ThreadsAssumption DEF TypeOK, MutexInv, FlushInv, Thread
<1>3. ThreadInv'
  BY <1>0 DEF ThreadInv, FileInv, GuardInv, RegisteredInv, Thread, HookPcs
<1>4. MutexInv' /\ ExiterInv'
  BY <1>0, ThreadsAssumption DEF MutexInv, ExiterInv, TypeOK, Thread
<1>5. RegistryInv'
  BY <1>0 DEF RegistryInv, ThreadInv, RegisteredInv, TypeOK, Thread
<1>6. FlushInv'
  BY <1>0, ThreadsAssumption DEF FlushInv, MutexInv, ExiterInv, TypeOK, Thread
<1>7. ShutdownFlushesWhatItLeavesOpen'
  BY <1>0 DEF ShutdownFlushesWhatItLeavesOpen, RegistryInv, FlushInv, TypeOK, Thread
<1> QED
  BY <1>2, <1>3, <1>4, <1>5, <1>6, <1>7

\* Only the holder of the mutex unregisters, so nobody is flushing.
LEMMA UnregisterInv ==
    ASSUME IInv, NEW t \in Threads, Unregister(t)
    PROVE  IInv'
<1> USE DEF IInv, Unregister, Erased, Unlocked, At, UNCHANGED_process
<1>0. th \in [Threads -> Thread] /\ th[t] \in Thread
  BY DEF TypeOK
<1>1. th' \in [Threads -> Thread]
  BY <1>0 DEF Thread, Pcs, ProgramPcs, HookPcs
<1>2. TypeOK'
  BY <1>0, <1>1, ThreadsAssumption DEF TypeOK, MutexInv, FlushInv, Thread
<1>3. ThreadInv'
  BY <1>0 DEF ThreadInv, FileInv, GuardInv, RegisteredInv, Thread, HookPcs
<1>4. MutexInv' /\ ExiterInv'
  BY <1>0, ThreadsAssumption DEF MutexInv, ExiterInv, TypeOK, Thread
<1>5. RegistryInv'
  BY <1>0 DEF RegistryInv, ThreadInv, RegisteredInv, TypeOK, Thread
<1>6. FlushInv'
  BY <1>0, ThreadsAssumption DEF FlushInv, MutexInv, ExiterInv, TypeOK, Thread
<1>7. ShutdownFlushesWhatItLeavesOpen'
  BY <1>0 DEF ShutdownFlushesWhatItLeavesOpen, RegistryInv, FlushInv, TypeOK, Thread
<1> QED
  BY <1>2, <1>3, <1>4, <1>5, <1>6, <1>7

\* Every registered file is to be flushed.
LEMMA LockRegistryInv ==
    ASSUME IInv, NEW t \in Threads, LockRegistry(t)
    PROVE  IInv'
<1> USE DEF IInv, LockRegistry, At, UNCHANGED_process
<1>0. th \in [Threads -> Thread] /\ th[t] \in Thread
  BY DEF TypeOK
<1>1. th' \in [Threads -> Thread]
  BY <1>0 DEF Thread, Pcs, ProgramPcs, HookPcs
<1>2. TypeOK'
  BY <1>0, <1>1, ThreadsAssumption DEF TypeOK, MutexInv, FlushInv, Thread
<1>3. ThreadInv'
  BY <1>0 DEF ThreadInv, FileInv, GuardInv, RegisteredInv, Thread, HookPcs
<1>4. MutexInv' /\ ExiterInv'
  BY <1>0, ThreadsAssumption DEF MutexInv, ExiterInv, TypeOK, Thread
<1>5. RegistryInv'
  BY <1>0 DEF RegistryInv, ThreadInv, RegisteredInv, TypeOK, Thread
<1>6. FlushInv'
  BY <1>0, ThreadsAssumption DEF FlushInv, MutexInv, ExiterInv, TypeOK, Thread
<1>7. ShutdownFlushesWhatItLeavesOpen'
  BY <1>0 DEF ShutdownFlushesWhatItLeavesOpen, RegistryInv, FlushInv, TypeOK, Thread
<1> QED
  BY <1>2, <1>3, <1>4, <1>5, <1>6, <1>7

\* Nothing is left to flush, so all that was registered has been flushed.
LEMMA FinishShutdownInv ==
    ASSUME IInv, NEW t \in Threads, FinishShutdown(t)
    PROVE  IInv'
<1> USE DEF IInv, FinishShutdown, At, UNCHANGED_process
<1>0. th \in [Threads -> Thread] /\ th[t] \in Thread
  BY DEF TypeOK
<1>1. th' \in [Threads -> Thread]
  BY <1>0 DEF Thread, Pcs, ProgramPcs, HookPcs
<1>2. TypeOK'
  BY <1>0, <1>1, ThreadsAssumption DEF TypeOK, MutexInv, FlushInv, Thread
<1>3. ThreadInv'
  BY <1>0 DEF ThreadInv, FileInv, GuardInv, RegisteredInv, Thread, HookPcs
<1>4. MutexInv' /\ ExiterInv'
  BY <1>0, ThreadsAssumption DEF MutexInv, ExiterInv, TypeOK, Thread
<1>5. RegistryInv'
  BY <1>0 DEF RegistryInv, ThreadInv, RegisteredInv, TypeOK, Thread
<1>6. FlushInv'
  BY <1>0, ThreadsAssumption DEF FlushInv, MutexInv, ExiterInv, TypeOK, Thread
<1>7. ShutdownFlushesWhatItLeavesOpen'
  BY <1>0 DEF ShutdownFlushesWhatItLeavesOpen, RegistryInv, FlushInv, TypeOK, Thread
<1> QED
  BY <1>2, <1>3, <1>4, <1>5, <1>6, <1>7

\* The exiting thread is past its flush, so none is left unfinished.
LEMMA EndProcessInv ==
    ASSUME IInv, NEW t \in Threads, EndProcess(t)
    PROVE  IInv'
<1> USE DEF IInv, EndProcess, Untouched, At, UNCHANGED_process
<1>0. th \in [Threads -> Thread] /\ th[t] \in Thread
  BY DEF TypeOK
<1>1. th' \in [Threads -> Thread]
  BY <1>0 DEF Thread, Pcs, ProgramPcs, HookPcs
<1>2. TypeOK'
  BY <1>0, <1>1, ThreadsAssumption DEF TypeOK, MutexInv, FlushInv, Thread
<1>3. ThreadInv'
  BY <1>0 DEF ThreadInv, FileInv, GuardInv, RegisteredInv, Thread, HookPcs
<1>4. MutexInv' /\ ExiterInv'
  BY <1>0, ThreadsAssumption DEF MutexInv, ExiterInv, TypeOK, Thread
<1>5. RegistryInv'
  BY <1>0 DEF RegistryInv, ThreadInv, RegisteredInv, TypeOK, Thread
<1>6. FlushInv'
  BY <1>0, ThreadsAssumption DEF FlushInv, MutexInv, ExiterInv, TypeOK, Thread
<1>7. ShutdownFlushesWhatItLeavesOpen'
  BY <1>0 DEF ShutdownFlushesWhatItLeavesOpen, RegistryInv, FlushInv, TypeOK, Thread
<1> QED
  BY <1>2, <1>3, <1>4, <1>5, <1>6, <1>7

\* A thread unwound out of the flush gives the mutex back, and no other thread
\* is flushing.
LEMMA UnwindExitInv ==
    ASSUME IInv, NEW t \in Threads, UnwindExit(t)
    PROVE  IInv'
<1> USE DEF IInv, UnwindExit, At, UNCHANGED_process
<1>0. th \in [Threads -> Thread] /\ th[t] \in Thread
  BY DEF TypeOK
<1>1. th' \in [Threads -> Thread]
  BY <1>0 DEF Thread, Pcs, ProgramPcs, HookPcs
<1>2. TypeOK'
  BY <1>0, <1>1, ThreadsAssumption DEF TypeOK, MutexInv, FlushInv, Thread
<1>3. ThreadInv'
  BY <1>0 DEF ThreadInv, FileInv, GuardInv, RegisteredInv, Thread, HookPcs
<1>4. MutexInv' /\ ExiterInv'
  BY <1>0, ThreadsAssumption DEF MutexInv, ExiterInv, TypeOK, Thread
<1>5. RegistryInv'
  BY <1>0 DEF RegistryInv, ThreadInv, RegisteredInv, TypeOK, Thread
<1>6. FlushInv'
  BY <1>0, ThreadsAssumption DEF FlushInv, MutexInv, ExiterInv, TypeOK, Thread
<1>7. ShutdownFlushesWhatItLeavesOpen'
  BY <1>0 DEF ShutdownFlushesWhatItLeavesOpen, RegistryInv, FlushInv, TypeOK, Thread
<1> QED
  BY <1>2, <1>3, <1>4, <1>5, <1>6, <1>7

\* A file that is to be flushed is still open: its destructor would hold the
\* mutex.
LEMMA OpenWhenFlushed ==
    ASSUME IInv, NEW f \in toFlush
    PROVE  f \in Threads /\ th[f].fp /\ th[f].tls = "alive" /\ th[f].file = "open"
<1>1. f \in Threads /\ th[f].registered /\ th[f] \in Thread
  BY DEF IInv, TypeOK, FlushInv, RegistryInv
<1>2. th[f].pc # "closing"
  BY <1>1 DEF IInv, FlushInv, MutexInv
<1>3. th[f].fp
  BY <1>1, <1>2 DEF IInv, ThreadInv, RegisteredInv
<1> QED
  BY <1>1, <1>3 DEF IInv, ThreadInv, FileInv

LEMMA FlushFileInv ==
    ASSUME IInv, NEW t \in Threads, NEW f \in Threads, FlushFile(t, f)
    PROVE  IInv'
<1> USE DEF IInv, FlushFile, Flushed, At
<1>1. f \in toFlush /\ th[f].fp
  BY OpenWhenFlushed
<1>2. TypeOK'
  BY DEF TypeOK
<1>3. ThreadInv' /\ MutexInv' /\ ExiterInv' /\ RegistryInv'
  BY DEF ThreadInv, MutexInv, ExiterInv, RegistryInv
<1>4. FlushInv'
  BY <1>1 DEF FlushInv, TypeOK
<1>5. ShutdownFlushesWhatItLeavesOpen'
  BY <1>1 DEF ShutdownFlushesWhatItLeavesOpen
<1> QED
  BY <1>2, <1>3, <1>4, <1>5
-------------------------------------------------------------------------------
LEMMA NextInv ==
    ASSUME IInv, [Next]_vars
    PROVE  IInv'
<1>1. CASE UNCHANGED vars
  BY <1>1 DEF vars, globals, IInv, TypeOK, ThreadInv, MutexInv, ExiterInv,
              RegistryInv, FlushInv, ShutdownFlushesWhatItLeavesOpen
<1>2. CASE TraceBegin \/ TraceReady
  BY <1>2, BeginSteps
<1>3. ASSUME NEW t \in Threads, TracerStep(t)
      PROVE  IInv'
  <2>1. CASE GetThreadFp(t) \/ OpenFails(t) \/ OpenFile(t) \/ WriteHeader(t)
             \/ StartWrite(t) \/ FinishWrite(t) \/ LeaveHook(t)
    BY <2>1, OwnTypes, OwnSteps, OwnStepInv DEF IInv
  <2>2. CASE Register(t) \/ CloseFile(t) \/ Unregister(t)
    BY <2>2, RegisterInv, CloseFileInv, UnregisterInv
  <2>3. CASE LockRegistry(t) \/ FinishShutdown(t)
    BY <2>3, LockRegistryInv, FinishShutdownInv
  <2> QED
    BY <1>3, <2>1, <2>2, <2>3 DEF TracerStep
<1>4. ASSUME NEW t \in Threads, Flush(t)
      PROVE  IInv'
  BY <1>4, FlushFileInv DEF Flush
<1>5. ASSUME NEW t \in Threads, ProgramStep(t)
      PROVE  IInv'
  <2>1. CASE EnterHook(t) \/ ExitHook(t) \/ ThreadExit(t) \/ DestroyState(t)
             \/ LeaveThread(t) \/ CallExit(t) \/ StartShutdown(t)
             \/ RequestCancel(t) \/ ActOnCancel(t)
    BY <2>1, OwnTypes, OwnSteps, OwnStepInv DEF IInv
  <2>2. CASE EndProcess(t) \/ UnwindExit(t)
    BY <2>2, EndProcessInv, UnwindExitInv
  <2> QED
    BY <1>5, <2>1, <2>2 DEF ProgramStep
<1> QED
  BY <1>1, <1>2, <1>3, <1>4, <1>5 DEF Next

LEMMA Invariance == Spec => []IInv
BY InitInv, NextInv, PTL DEF Spec

\* What the invariant says of the properties.
LEMMA NoUseAfterCloseFromInv == IInv => NoUseAfterClose
<1> SUFFICES ASSUME IInv PROVE NoUseAfterClose
  OBVIOUS
<1>1. ASSUME NEW t \in Threads
      PROVE  /\ th[t].pc \in {"header", "register", "write", "writing"} =>
                  th[t].file = "open"
             /\ th[t].fp => th[t].file = "open"
  BY DEF IInv, ThreadInv, FileInv
<1> QED
  BY <1>1, OpenWhenFlushed DEF NoUseAfterClose

LEMMA RegistryFromInv == IInv => RegistryNotDangling
<1> SUFFICES ASSUME IInv, NEW t \in openFiles
             PROVE  th[t].tls = "alive" /\ (th[t].fp \/ mutex = t)
  BY DEF RegistryNotDangling
<1>1. t \in Threads /\ th[t].registered
  BY DEF IInv, TypeOK, RegistryInv
<1>2. th[t].fp \/ th[t].pc = "closing"
  BY <1>1 DEF IInv, ThreadInv, RegisteredInv
<1> QED
  BY <1>1, <1>2 DEF IInv, ThreadInv, FileInv, GuardInv, MutexInv
-------------------------------------------------------------------------------
(***************************************************************************)
(* The theorems.                                                           *)
(***************************************************************************)
\* Every thread is at a place of its code, with a state of its type, and only a
\* thread that closes or flushes holds open_files_mutex.
THEOREM TypeCorrect == Spec => []TypeOK
BY Invariance, PTL DEF IInv

\* No thread writes, patches or flushes through a FILE that its own exit or
\* another thread's trace_shutdown closed.
THEOREM UseBeforeClose == Spec => []NoUseAfterClose
BY Invariance, NoUseAfterCloseFromInv, PTL

\* open_files never points into the t_state of a thread whose destructor ran.
THEOREM RegistryAlive == Spec => []RegistryNotDangling
BY Invariance, RegistryFromInv, PTL

\* No hook runs on a destroyed t_state, whichever destructor or exit handler
\* calls a traced function.
THEOREM HooksBeforeDestruction == Spec => []NoHookAfterDestruction
<1>1. IInv => NoHookAfterDestruction
  BY DEF IInv, ThreadInv, GuardInv, NoHookAfterDestruction
<1> QED
  BY <1>1, Invariance, PTL

\* Once trace_shutdown is complete, every registered file that is still open was
\* flushed by it: no open races into the gap between the flush and the switch.
THEOREM NothingUnflushed == Spec => []ShutdownFlushesWhatItLeavesOpen
BY Invariance, PTL DEF IInv

\* A thread that ended, cancelled or not, closed its file.
THEOREM NoFileOutlivesItsThread == Spec => []EndedThreadsClosedTheirFile
<1>1. IInv => EndedThreadsClosedTheirFile
  BY DEF IInv, ThreadInv, FileInv, GuardInv, EndedThreadsClosedTheirFile
<1> QED
  BY <1>1, Invariance, PTL

\* Cancellation is off wherever a hook or the thread-exit destructor is inside a
\* cancellation point.  trace_shutdown is not covered: UnwindExit is the request
\* its fflush acts on.
THEOREM NoCancellationInHooks == Spec => []CancellationSparesTheHooks
<1>1. IInv => CancellationSparesTheHooks
  BY DEF IInv, ThreadInv, GuardInv, CancellationSparesTheHooks,
         HookCancellationPoints, HookPcs
<1> QED
  BY <1>1, Invariance, PTL
===============================================================================
