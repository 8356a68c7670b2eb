---------------------------- MODULE Interposers ----------------------------
(***************************************************************************)
(* LOG_EXCEPTIONS: the five interposers of src/src/exceptions.cpp and the  *)
(* event side of src/src/trace.cpp (on_throw, on_catch, on_terminate), on  *)
(* one thread.  Everything they keep is thread_local: the re-entrancy      *)
(* guard, t_terminating and t_last_caught_label.  Around them, as external *)
(* code, the C++ runtime they forward to: its stack of exceptions being    *)
(* handled with their handler counts, its handler search, its refusal to   *)
(* stack foreign exceptions, and the ways it gives up.                     *)
(*                                                                         *)
(* The program is any sequence of throws, rethrows, catches and calls of   *)
(* std::terminate that contexts allow.  A context is a handler, a          *)
(* destructor run by the unwinder, a what() override run by an             *)
(* interposer, or the terminate handler; no exception leaves the last      *)
(* three.                                                                  *)
(***************************************************************************)
EXTENDS Integers, Sequences, SequencesExt

CONSTANTS
  Types,        \* types of the program's exceptions
  WhatTypes,    \* those whose what() is an override that throws and catches
  Boundaries,   \* what the compilers emit where an exception meets noexcept
  Replaced,     \* entry points a program may define itself, one at a time
  MayFail,      \* may an event run out of memory
  MaxRaises,    \* bound: exceptions raised
  MaxContexts,  \* bound: nested contexts
  MaxEvents     \* bound: event lines before the program stops raising

EntryPoints == {"throw", "rethrow", "rethrow_exception", "begin_catch", "terminate"}

ASSUME InterposersAssumption ==
  /\ Replaced \subseteq EntryPoints
  /\ WhatTypes \subseteq Types /\ "none" \notin Types
  /\ Boundaries \subseteq {"call_terminate", "clang_stub", "direct"}
  /\ MayFail \in BOOLEAN
  /\ {MaxRaises, MaxContexts, MaxEvents} \subseteq Nat

VARIABLES
  exc,          \* the exceptions raised so far: class and type of each
  count,        \* runtime: handlerCount of each
  caught,       \* runtime: the exceptions being handled, innermost last
  flight,       \* the exception being unwound, 0 when none
  searched,     \* the handler search for it has succeeded
  ctx,          \* contexts the thread is in, innermost last
  phase,        \* "start", "run", "flight", "terminate" (called) or "ended"
  ours,         \* entry points whose active definition is the tracer's
  guard,        \* t_in_instrumentation
  terminating,  \* t_terminating
  label,        \* t_last_caught_label
  log,          \* the event lines: verb, name shown, exception meant
  oom           \* an event was lost to std::bad_alloc

runtime == <<exc, count, caught, flight, searched>>
tracer == <<guard, terminating, label>>
vars == <<runtime, ctx, phase, ours, tracer, log, oom>>

NoName == "none"
Unknown == "<unknown type>"
NothingHandled == "(no active exception)"
InFlight == "(exception in flight)"
Forced == "(forced unwind)"
Foreign == "(foreign exception)"

Ids == 1..Len(exc)
IsNative(e) == exc[e].class \in {"primary", "dependent"}

----------------------------------------------------------------------------
\* The C++ runtime and the program around the interposers.

\* __cxa_current_exception_type: null for an exception it did not throw.
CurrentType(handled) ==
  IF handled = <<>> \/ ~IsNative(Last(handled)) THEN NoName ELSE exc[Last(handled)].type

\* std::uncaught_exceptions() > 0: natives being unwound, here or around a
\* destructor the unwinder runs.
Uncaught ==
  \E e \in {flight} \cup {ctx[i].exc : i \in {j \in DOMAIN ctx : ctx[j].kind = "cleanup"}} :
    e # 0 /\ IsNative(e)

\* A new exception of class c and type t.
Raise(c, t) ==
  /\ Len(exc) < MaxRaises
  /\ Len(log) < MaxEvents
  /\ exc' = Append(exc, [class |-> c, type |-> t])
  /\ count' = Append(count, 0)

\* Its flight: the search is done by the runtime for what the runtime throws.
Fly(e, found) == flight' = e /\ searched' = found /\ phase' = "flight"

Enter(k, e, s, t) ==
  /\ Len(ctx) < MaxContexts
  /\ ctx' = Append(ctx, [kind |-> k, exc |-> e, site |-> s, type |-> t])

In(k) == ctx # <<>> /\ Last(ctx).kind = k
Inside(kinds) == \E i \in DOMAIN ctx : ctx[i].kind \in kinds

\* std::terminate's own work, or __terminate's: run the terminate handler.
RunTerminateHandler ==
  Enter("terminate", 0, NoName, NoName) /\ phase' = "run"

\* __cxa_end_catch for the innermost handled exception.
EndCatch ==
  LET e == Last(caught)
      n == IF count[e] < 0 THEN count[e] + 1 ELSE count[e] - 1 IN
  IF caught = <<>> \/ ~IsNative(e)
    THEN caught' = <<>> /\ UNCHANGED count
    ELSE /\ count' = [count EXCEPT ![e] = n]
         /\ caught' = IF n = 0 THEN Front(caught) ELSE caught

----------------------------------------------------------------------------
\* The events.

\* exception_type_name
ShownName(type, lab) ==
  IF lab # NoName THEN lab ELSE IF type # NoName THEN type ELSE Unknown

\* write_event_line behind the barrier of its caller: an allocation that
\* fails on the way loses the line.
WriteEvent(verb, name, e) ==
  \/ /\ log' = Append(log, [verb |-> verb, name |-> name, of |-> e])
     /\ UNCHANGED oom
  \/ MayFail /\ ~oom /\ oom' = TRUE /\ UNCHANGED log

NoEvent == UNCHANGED <<log, oom>>

\* Mutant of Reports: no look at t_terminating.
ReportsWhileTerminating(entry) == entry \in ours /\ ~guard

\* Mutant of Reports: no look at the guard.
ReportsInsideTheTracer(entry) == entry \in ours /\ ~terminating

\* The condition every interposer tests before it reports.
Reports(entry) == entry \in ours /\ ~guard /\ ~terminating

\* Mutant of ForeignLabel: a text instead of null for a native exception.
LabelForEveryClass(e) ==
  CASE exc[e].class = "forced" -> Forced
    [] exc[e].class = "foreign" -> Foreign
    [] OTHER -> Unknown

\* foreign_exception_label
ForeignLabel(e) ==
  CASE exc[e].class = "forced" -> Forced
    [] exc[e].class = "foreign" -> Foreign
    [] OTHER -> NoName

----------------------------------------------------------------------------
\* Startup: which definitions the link kept, and whether the runtime is
\* shared.  One that is linked in leaves nothing to forward to, and aborts.

VerifyInterposers ==
  /\ phase = "start"
  /\ \E kept \in {EntryPoints} \cup {EntryPoints \ {p} : p \in Replaced}, shared \in BOOLEAN :
       /\ ours' = kept
       /\ phase' = IF shared THEN "run" ELSE "ended"
  /\ UNCHANGED <<runtime, ctx, tracer, log, oom>>

----------------------------------------------------------------------------
\* throw T;

\* cslg_cxa_throw, up to the what() it reads inside a TracerScope.
CxaThrow(t) ==
  /\ phase = "run"
  /\ Raise("primary", t)
  /\ IF Reports("throw") /\ t \in WhatTypes
       THEN /\ Enter("what", Len(exc'), "throw", t)
            /\ guard' = TRUE
            /\ NoEvent /\ UNCHANGED <<flight, searched, phase>>
       ELSE /\ Fly(Len(exc'), FALSE)
            /\ IF Reports("throw") THEN WriteEvent("throw", ShownName(t, NoName), Len(exc')) ELSE NoEvent
            /\ UNCHANGED <<ctx, guard>>
  /\ UNCHANGED <<caught, ours, terminating, label>>

\* ... and the rest of it, once what() has returned.
CxaThrowGoesOn ==
  /\ phase = "run" /\ In("what") /\ Last(ctx).site = "throw"
  /\ LET w == Last(ctx) IN
       /\ WriteEvent("throw", ShownName(w.type, NoName), w.exc)
       /\ Fly(w.exc, FALSE)
  /\ ctx' = Front(ctx)
  /\ guard' = FALSE
  /\ UNCHANGED <<exc, count, caught, ours, terminating, label>>

\* cslg_cxa_rethrow: `throw;`.  The runtime then rethrows what is handled,
\* dropping a foreign exception from its stack, or calls std::terminate.
\* (A destructor that rethrows an exception whose own rethrow is still
\* unwinding is left out: the runtime's handler count does not survive it.)
CxaRethrow ==
  /\ phase = "run"
  /\ Len(log) < MaxEvents
  /\ caught # <<>> => count[Last(caught)] >= 0
  /\ LET handled == IF caught = <<>> THEN 0 ELSE Last(caught)
         type == CurrentType(caught) IN
       /\ IF Reports("rethrow")
            THEN /\ label' = NoName
                 /\ WriteEvent("rethrow", ShownName(type, IF type = NoName THEN label ELSE NoName), handled)
            ELSE NoEvent /\ UNCHANGED label
       /\ IF handled = 0
            THEN phase' = "terminate" /\ UNCHANGED <<flight, searched, count, caught>>
            ELSE /\ Fly(handled, ~IsNative(handled) /\ exc[handled].class = "forced")
                 /\ IF IsNative(handled)
                      THEN count' = [count EXCEPT ![handled] = -@] /\ UNCHANGED caught
                      ELSE caught' = <<>> /\ UNCHANGED count
  /\ UNCHANGED <<exc, ctx, ours, guard, terminating>>

\* Mutant of RethrowException: forwards without reporting.
RethrowExceptionUnreported(t) ==
  /\ phase = "run"
  /\ Raise("dependent", t)
  /\ Fly(Len(exc'), FALSE)
  /\ NoEvent
  /\ UNCHANGED <<caught, ctx, ours, tracer>>

\* cslg_rethrow_exception: a dependent exception of the same type.
RethrowException(t) ==
  /\ phase = "run"
  /\ Raise("dependent", t)
  /\ Fly(Len(exc'), FALSE)
  /\ IF Reports("rethrow_exception")
       THEN WriteEvent("rethrow", ShownName(t, NoName), Len(exc'))
       ELSE NoEvent
  /\ UNCHANGED <<caught, ctx, ours, tracer>>

\* An exception the C++ runtime did not throw enters C++ frames: no
\* interposer sees it start.
ForeignUnwind(class) ==
  /\ phase = "run"
  /\ Raise(class, NoName)
  /\ Fly(Len(exc'), TRUE)
  /\ NoEvent
  /\ UNCHANGED <<caught, ctx, ours, tracer>>

----------------------------------------------------------------------------
\* __cxa_begin_catch

\* Mutant of ReportCatch: the noexcept stub's catch is taken for a handler's,
\* with t_terminating set all the same.
ReportStubAsCatch(e, site, type, lab) ==
  /\ WriteEvent(IF site \in {"program", "clang_stub"} THEN "catch" ELSE "terminate", ShownName(type, lab), e)
  /\ terminating' = (site # "program")

\* What cslg_cxa_begin_catch does once it has what(): `site` says who called
\* it, a handler ("program"), a give-up site of the runtime ("no_handler",
\* "call_terminate"), or Clang's stub.
ReportCatch(e, site, type, lab) ==
  /\ WriteEvent(IF site = "program" THEN "catch" ELSE "terminate", ShownName(type, lab), e)
  /\ terminating' = CASE site = "program" -> FALSE
                      [] site = "clang_stub" -> log' # log
                      [] OTHER -> TRUE

\* What the caller of __cxa_begin_catch does next: below it comes the handler,
\* a call of std::terminate, or the runtime's own __terminate.
AfterCatch(e, site, outer) ==
  CASE site = "program" ->
         /\ phase' = "run"
         /\ Len(outer) < MaxContexts
         /\ ctx' = Append(outer, [kind |-> "handler", exc |-> e, site |-> NoName, type |-> NoName])
    [] site = "call_terminate" /\ IsNative(e) ->
         /\ phase' = "run"
         /\ Len(outer) < MaxContexts
         /\ ctx' = Append(outer, [kind |-> "terminate", exc |-> 0, site |-> NoName, type |-> NoName])
    [] OTHER -> phase' = "terminate" /\ ctx' = outer

\* The runtime's __cxa_begin_catch for an exception it can handle.
RealBeginCatch(e) ==
  /\ count' = [count EXCEPT ![e] = IF IsNative(e) THEN (IF @ < 0 THEN 1 - @ ELSE @ + 1) ELSE 0]
  /\ caught' = IF caught # <<>> /\ Last(caught) = e THEN caught ELSE Append(caught, e)

\* Mutant of CaughtType: read before the call is forwarded.
CaughtTypeTooEarly == CurrentType(caught)

\* The type of the line: what the runtime names once the call is forwarded.
CaughtType == CurrentType(caught')

\* cslg_cxa_begin_catch: forward, then report.  The runtime cannot stack a
\* foreign exception on another: its begin_catch then calls std::terminate.
\* The what() of a dependent exception is read by rethrowing it into a local
\* handler (current_exception_what), the guard up as for a primary one.
BeginCatch(e, site) ==
  /\ flight' = 0 /\ searched' = FALSE
  /\ IF ~IsNative(e) /\ caught # <<>>
       THEN phase' = "terminate" /\ NoEvent /\ UNCHANGED <<count, caught, ctx, tracer>>
       ELSE LET type == CaughtType IN
            /\ RealBeginCatch(e)
            /\ label' = IF Reports("begin_catch") THEN ForeignLabel(e) ELSE label
            /\ IF Reports("begin_catch") /\ IsNative(e) /\ exc[e].type \in WhatTypes
                 THEN /\ Enter("what", e, site, type)
                      /\ guard' = TRUE /\ phase' = "run"
                      /\ NoEvent /\ UNCHANGED terminating
                 ELSE /\ AfterCatch(e, site, ctx)
                      /\ IF Reports("begin_catch")
                           THEN ReportCatch(e, site, type, ForeignLabel(e))
                           ELSE NoEvent /\ UNCHANGED terminating
                      /\ UNCHANGED guard
  /\ UNCHANGED <<exc, ours>>

\* ... and the rest of it, once what() has returned.
BeginCatchGoesOn ==
  /\ phase = "run" /\ In("what") /\ Last(ctx).site # "throw"
  /\ LET w == Last(ctx) IN
       /\ ReportCatch(w.exc, w.site, w.type, NoName)
       /\ AfterCatch(w.exc, w.site, Front(ctx))
  /\ guard' = FALSE
  /\ UNCHANGED <<runtime, ours, label>>

\* A handler in the innermost context catches the exception.
Catch ==
  /\ phase = "flight"
  /\ BeginCatch(flight, "program")

\* No handler: __cxa_throw, __cxa_rethrow or std::rethrow_exception gives up.
GiveUp ==
  /\ phase = "flight" /\ ~searched
  /\ ~Inside({"cleanup", "what", "terminate"})
  /\ BeginCatch(flight, "no_handler")

\* The exception meets a function it may not leave.
MeetNoexcept(boundary) ==
  /\ phase = "flight"
  /\ IF boundary = "direct"
       THEN phase' = "terminate" /\ NoEvent /\ UNCHANGED <<runtime, ctx, ours, tracer>>
       ELSE BeginCatch(flight, boundary)

----------------------------------------------------------------------------
\* std::terminate

\* The program calls it, or the runtime for a std::thread that threw.
CallTerminate ==
  /\ phase = "run"
  /\ phase' = "terminate"
  /\ UNCHANGED <<runtime, ctx, ours, tracer, log, oom>>

\* cslg_terminate
CslgTerminate ==
  /\ phase = "terminate"
  /\ IF Reports("terminate")
       THEN LET type == CurrentType(caught) IN
            /\ terminating' = TRUE
            /\ WriteEvent("terminate",
                          IF type # NoName THEN type ELSE IF Uncaught THEN InFlight ELSE NothingHandled,
                          IF caught = <<>> THEN 0 ELSE Last(caught))
       ELSE NoEvent /\ UNCHANGED terminating
  /\ RunTerminateHandler
  /\ flight' = 0 /\ searched' = FALSE
  /\ UNCHANGED <<exc, count, caught, ours, guard, label>>

----------------------------------------------------------------------------
\* The program and the unwinder between the entry points.

\* The exception leaves a handler: __cxa_end_catch runs as a cleanup.
UnwindHandler ==
  /\ phase = "flight" /\ In("handler")
  /\ EndCatch
  /\ ctx' = Front(ctx)
  /\ searched' = TRUE
  /\ UNCHANGED <<exc, flight, phase, ours, tracer, log, oom>>

\* The unwinder runs a destructor, and goes on when it is done.
RunCleanup ==
  /\ phase = "flight"
  /\ Enter("cleanup", flight, NoName, NoName)
  /\ flight' = 0 /\ searched' = FALSE /\ phase' = "run"
  /\ UNCHANGED <<exc, count, caught, ours, tracer, log, oom>>

EndCleanup ==
  /\ phase = "run" /\ In("cleanup")
  /\ Fly(Last(ctx).exc, TRUE)
  /\ ctx' = Front(ctx)
  /\ UNCHANGED <<exc, count, caught, ours, tracer, log, oom>>

\* A handler ends.  One of a forced unwind has to rethrow: glibc aborts
\* otherwise.
EndHandler ==
  /\ phase = "run" /\ In("handler")
  /\ exc[Last(ctx).exc].class # "forced"
  /\ EndCatch
  /\ ctx' = Front(ctx)
  /\ UNCHANGED <<exc, flight, searched, phase, ours, tracer, log, oom>>

\* The process aborts after its terminate handler, or the thread's outermost
\* frame returns, or a forced or foreign unwind has left the last C++ frame.
End ==
  /\ \/ phase = "run" /\ (ctx = <<>> \/ In("terminate"))
     \/ phase = "flight" /\ ctx = <<>> /\ ~IsNative(flight)
  /\ phase' = "ended"
  /\ UNCHANGED <<runtime, ctx, ours, tracer, log, oom>>

----------------------------------------------------------------------------
Init ==
  /\ exc = <<>> /\ count = <<>> /\ caught = <<>> /\ flight = 0 /\ searched = FALSE
  /\ ctx = <<>> /\ phase = "start" /\ ours = {}
  /\ guard = FALSE /\ terminating = FALSE /\ label = NoName
  /\ log = <<>> /\ oom = FALSE

Next ==
  \/ VerifyInterposers
  \/ \E t \in Types : CxaThrow(t) \/ RethrowException(t)
  \/ CxaThrowGoesOn
  \/ CxaRethrow
  \/ \E class \in {"forced", "foreign"} : ForeignUnwind(class)
  \/ Catch
  \/ BeginCatchGoesOn
  \/ GiveUp
  \/ \E boundary \in Boundaries : MeetNoexcept(boundary)
  \/ CallTerminate
  \/ CslgTerminate
  \/ UnwindHandler
  \/ RunCleanup
  \/ EndCleanup
  \/ EndHandler
  \/ End

Spec == Init /\ [][Next]_vars

----------------------------------------------------------------------------
\* Type correctness of the runtime's, the program's and the tracer's state.
TypeOK ==
  /\ exc \in Seq([class : {"primary", "dependent", "forced", "foreign"}, type : Types \cup {NoName}])
  /\ count \in Seq(Int) /\ Len(count) = Len(exc)
  /\ caught \in Seq(Ids)
  /\ flight \in Ids \cup {0}
  /\ phase \in {"start", "run", "flight", "terminate", "ended"}
  /\ ours \subseteq EntryPoints
  /\ {searched, guard, terminating, oom} \subseteq BOOLEAN
  /\ label \in {NoName, Forced, Foreign}
  /\ \A i \in DOMAIN log :
       log[i].verb \in {"throw", "rethrow", "catch", "terminate"} /\ log[i].of \in Ids \cup {0}

Verbs(verbs) == {i \in DOMAIN log : log[i].verb \in verbs}

\* A terminate line is the thread's last event: whichever roads lead to
\* std::terminate, one after the other or one inside the other, and whatever
\* the terminate handler throws and catches again, t_terminating lets exactly
\* one line through and none after it.
TerminateLineIsLast == Verbs({"terminate"}) \subseteq {Len(log)}

\* Every road to std::terminate leaves its line: once the terminate handler
\* runs, the line is there.  What the tracer cannot promise is left out: an
\* event lost to bad_alloc, an entry point the program defines itself, and a
\* what() that terminates inside the tracer's own guard.
EveryRoadIsLogged ==
  Inside({"terminate"}) /\ ~oom /\ ~guard /\ ours = EntryPoints => Verbs({"terminate"}) # {}

TrueName(e) == IF IsNative(e) THEN exc[e].type ELSE ForeignLabel(e)

\* Line j is the last catch line before line i, with no rethrow line between.
LastCatch(j, i) ==
  /\ j < i /\ log[j].verb = "catch"
  /\ \A k \in (j + 1)..(i - 1) : log[k].verb \notin {"catch", "rethrow"}

\* What a line names, however the handled exceptions nest.
\* First: a line about an exception shows that one's name.  Where the runtime has
\* no type for it (foreign, or a forced unwind), a rethrow line may instead be
\* "<unknown type>", and a terminate line say only that one is in flight or none
\* handled.
\* Second: which name the rethrow line of a `throw;` gets for which the runtime
\* has no type, a foreign exception being handled or nothing at all.  It is that
\* of the exception this thread caught last: its label when it was foreign,
\* "<unknown type>" when it was native.  So the label is right while nothing else
\* is caught inside the handler; it is lost once something is, and a `throw;`
\* with nothing handled shows the label of a foreign exception long swallowed.
LinesNameTheirException ==
  \A i \in DOMAIN log : LET l == log[i] IN
    /\ l.of # 0 =>
         \/ l.name = TrueName(l.of)
         \/ ~IsNative(l.of) /\ l.verb = "rethrow" /\ l.name = Unknown
         \/ ~IsNative(l.of) /\ l.verb = "terminate" /\ l.name \in {InFlight, NothingHandled}
    /\ l.verb = "rethrow" /\ (l.of = 0 \/ ~IsNative(l.of)) /\ ~oom =>
         \A j \in DOMAIN log : LastCatch(j, i) =>
           l.name = IF IsNative(log[j].of) THEN Unknown ELSE TrueName(log[j].of)

LinesOf(e) == {i \in DOMAIN log : log[i].of = e /\ log[i].verb # "terminate"}

\* The lines of one exception alternate: raised, caught, raised again, caught
\* again.  None of the interposers' own work in between (a what() override
\* that throws, a rethrow to read a text) shows, and no catch is reported
\* without the throw before it: only an exception the runtime did not throw
\* starts with a catch.
RaisesAndCatchesAlternate ==
  ours = EntryPoints /\ ~oom =>
    \A e \in Ids :
      /\ \A i \in LinesOf(e) :
           (\A k \in LinesOf(e) : i <= k) => (log[i].verb = "catch" <=> ~IsNative(e))
      /\ \A i, j \in LinesOf(e) :
           i < j /\ (\A k \in LinesOf(e) : k <= i \/ j <= k) =>
             (log[i].verb = "catch" <=> log[j].verb # "catch")

\* A what() the interposers call leaves no line: nothing it throws, rethrows
\* or catches on its way is reported, because a TracerScope is around it.
WhatIsSilent == [][Inside({"what"}) /\ Inside({"what"})' => log' = log]_vars
=============================================================================
