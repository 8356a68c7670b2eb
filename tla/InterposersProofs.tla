--------------------------- MODULE InterposersProofs ---------------------------
(***************************************************************************)
(* Theorems about Interposers, for every set of exception types, every     *)
(* choice of entry points a program replaces and every bound: however      *)
(* exceptions, handlers, destructors, what() overrides and terminate       *)
(* handlers nest, one line tells of std::terminate, it is the last one,    *)
(* and nothing a what() override does leaves a line.                       *)
(***************************************************************************)
EXTENDS Interposers, SequenceTheorems, TLAPS

(***************************************************************************)
(* Sequences: one element more, one element less.                          *)
(***************************************************************************)
LEMMA Pushed ==
    ASSUME NEW S, NEW s \in Seq(S), NEW e \in S
    PROVE  /\ Append(s, e) \in Seq(S)
           /\ Len(s) \in Nat /\ DOMAIN s = 1..Len(s)
           /\ Len(Append(s, e)) = Len(s) + 1
           /\ DOMAIN Append(s, e) = 1..(Len(s) + 1)
           /\ \A i \in 1..Len(s) : Append(s, e)[i] = s[i]
           /\ Append(s, e)[Len(s) + 1] = e
<1>1. /\ Append(s, e) \in Seq(S)
      /\ Len(Append(s, e)) = Len(s) + 1
      /\ \A i \in 1..Len(s) : Append(s, e)[i] = s[i]
      /\ Append(s, e)[Len(s) + 1] = e
  BY AppendProperties
<1> QED
  BY <1>1, LenProperties

LEMMA Popped ==
    ASSUME NEW S, NEW s \in Seq(S), s # <<>>
    PROVE  /\ Front(s) \in Seq(S)
           /\ Len(s) \in Nat \ {0} /\ DOMAIN s = 1..Len(s)
           /\ Len(Front(s)) = Len(s) - 1
           /\ DOMAIN Front(s) = 1..(Len(s) - 1)
           /\ \A i \in 1..(Len(s) - 1) : Front(s)[i] = s[i]
           /\ Last(s) = s[Len(s)] /\ Last(s) \in S
<1>1. Len(s) \in Nat \ {0} /\ DOMAIN s = 1..Len(s)
  BY EmptySeq, LenProperties
<1>2. \A i \in 1..(Len(s) - 1) : s[i] \in S
  BY <1>1, ElementOfSeq
<1>3. 1 \in Int /\ Len(s) - 1 \in Int
  BY <1>1
<1>4. /\ SubSeq(s, 1, Len(s) - 1) \in Seq(S)
      /\ Len(SubSeq(s, 1, Len(s) - 1)) = IF 1 <= Len(s) - 1 THEN Len(s) - 1 - 1 + 1 ELSE 0
      /\ \A i \in 1 .. Len(s) - 1 - 1 + 1 : SubSeq(s, 1, Len(s) - 1)[i] = s[1 + i - 1]
  BY <1>2, <1>3, SubSeqProperties
<1>5. \A i \in 1..(Len(s) - 1) : 1 + i - 1 = i /\ i \in 1 .. Len(s) - 1 - 1 + 1
  BY <1>1
<1>6. Front(s) \in Seq(S) /\ Len(Front(s)) = Len(s) - 1
  BY <1>1, <1>4 DEF Front
<1>7. DOMAIN Front(s) = 1..(Len(s) - 1)
  BY <1>6, LenProperties
<1>8. Last(s) = s[Len(s)] /\ s[Len(s)] \in S
  BY <1>1, ElementOfSeq DEF Last
<1> QED
  BY <1>1, <1>4, <1>5, <1>6, <1>7, <1>8 DEF Front
-------------------------------------------------------------------------------
(***************************************************************************)
(* The inductive invariant.  First the types, with what TypeOK leaves out: *)
(* the contexts, and that only raised exceptions fly or are handled.       *)
(***************************************************************************)
TypeNames == Types \cup {NoName}
Classes == {"primary", "dependent", "forced", "foreign"}
Exception == [class : Classes, type : TypeNames]
Kinds == {"what", "handler", "cleanup", "terminate"}
CatchSites == {"program", "no_handler", "call_terminate", "clang_stub"}
Context == [kind : Kinds, exc : Nat, site : CatchSites \cup {"throw", NoName},
            type : TypeNames]
EventNames == TypeNames \cup {Unknown, NothingHandled, InFlight, Forced, Foreign}
Line == [verb : {"throw", "rethrow", "catch", "terminate"}, name : EventNames, of : Nat]


\* A context of a program that has raised n exceptions.
ContextOK(c, n) ==
  /\ c.exc \in 0..n
  /\ c.kind # "terminate" => c.exc \in 1..n
  /\ c.kind = "what" => c.site # NoName

ContextsOK(cs, n) == cs \in Seq(Context) /\ \A i \in DOMAIN cs : ContextOK(cs[i], n)

TypeInv ==
  /\ TypeOK
  /\ ContextsOK(ctx, Len(exc))
  /\ log \in Seq(Line)
  /\ phase = "flight" => flight \in Ids
  /\ phase = "start" => ctx = <<>> /\ log = <<>> /\ ~guard /\ ~terminating

(***************************************************************************)
(* The guard is up while a what() override runs for an interposer, and no  *)
(* other what() is started then.  So t_terminating is still clear when the *)
(* interposer goes on.                                                     *)
(***************************************************************************)
At(cs, kind) == {i \in DOMAIN cs : cs[i].kind = kind}

GuardInv ==
  /\ guard <=> At(ctx, "what") # {}
  /\ \A i, j \in At(ctx, "what") : i = j
  /\ guard => ~terminating

\* A terminate line is the last line and t_terminating tells that it is there,
\* unless bad_alloc lost it.
TerminatingInv ==
  /\ TerminateLineIsLast
  /\ Verbs({"terminate"}) # {} => terminating
  /\ terminating /\ ~oom => Verbs({"terminate"}) # {}

\* Every terminate handler that runs was announced by a line, or it runs inside
\* a what() whose interposer has the guard up.
RoadInv ==
  ~oom /\ ours = EntryPoints =>
    \A j \in At(ctx, "terminate") :
      Verbs({"terminate"}) # {} \/ \E i \in At(ctx, "what") : i < j

IInv == TypeInv /\ GuardInv /\ TerminatingInv /\ RoadInv
-------------------------------------------------------------------------------
(***************************************************************************)
(* What entering and leaving a context does to the contexts.               *)
(***************************************************************************)
LEMMA PushedContext ==
    ASSUME NEW cs, NEW n \in Nat, NEW m \in Nat, ContextsOK(cs, n), n <= m,
           NEW c \in Context, ContextOK(c, m)
    PROVE  /\ ContextsOK(Append(cs, c), m)
           /\ \A k : At(Append(cs, c), k) =
                       At(cs, k) \cup (IF c.kind = k THEN {Len(cs) + 1} ELSE {})
           /\ \A k : At(cs, k) \subseteq 1..Len(cs)
           /\ Len(cs) \in Nat
<1>1. cs \in Seq(Context)
  BY DEF ContextsOK
<1>2. /\ Append(cs, c) \in Seq(Context)
      /\ Len(cs) \in Nat /\ DOMAIN cs = 1..Len(cs)
      /\ DOMAIN Append(cs, c) = 1..(Len(cs) + 1)
      /\ \A i \in 1..Len(cs) : Append(cs, c)[i] = cs[i]
      /\ Append(cs, c)[Len(cs) + 1] = c
  BY <1>1, Pushed
<1>3. \A i \in 1..Len(cs) : ContextOK(cs[i], m)
  BY <1>2 DEF ContextsOK, ContextOK
<1>4. ContextsOK(Append(cs, c), m)
  <2>1. ASSUME NEW i \in 1..(Len(cs) + 1) PROVE ContextOK(Append(cs, c)[i], m)
    <3>1. i \in 1..Len(cs) \/ i = Len(cs) + 1
      BY <1>2
    <3> QED
      BY <1>2, <1>3, <3>1
  <2> QED
    BY <1>2, <2>1 DEF ContextsOK
<1>5. ASSUME NEW k
      PROVE  At(Append(cs, c), k) = At(cs, k) \cup (IF c.kind = k THEN {Len(cs) + 1} ELSE {})
  <2>1. \A i : i \in 1..(Len(cs) + 1) <=> i \in 1..Len(cs) \/ i = Len(cs) + 1
    BY <1>2
  <2>2. Len(cs) + 1 \notin 1..Len(cs)
    BY <1>2
  <2> QED
    BY <1>2, <2>1, <2>2 DEF At
<1>6. \A k : At(cs, k) \subseteq 1..Len(cs)
  BY <1>2 DEF At
<1> QED
  BY <1>2, <1>4, <1>5, <1>6

LEMMA PoppedContext ==
    ASSUME NEW cs, NEW n \in Nat, ContextsOK(cs, n), cs # <<>>
    PROVE  /\ ContextsOK(Front(cs), n)
           /\ Last(cs) \in Context /\ ContextOK(Last(cs), n)
           /\ \A k : At(Front(cs), k) = At(cs, k) \ {Len(cs)}
           /\ \A k : Last(cs).kind = k <=> Len(cs) \in At(cs, k)
           /\ \A k : At(cs, k) \subseteq 1..Len(cs)
           /\ Len(cs) \in Nat \ {0}
<1>1. cs \in Seq(Context)
  BY DEF ContextsOK
<1>2. /\ Front(cs) \in Seq(Context)
      /\ Len(cs) \in Nat \ {0} /\ DOMAIN cs = 1..Len(cs)
      /\ DOMAIN Front(cs) = 1..(Len(cs) - 1)
      /\ \A i \in 1..(Len(cs) - 1) : Front(cs)[i] = cs[i]
      /\ Last(cs) = cs[Len(cs)] /\ Last(cs) \in Context
  BY <1>1, Popped
<1>3. \A i : i \in 1..Len(cs) <=> i \in 1..(Len(cs) - 1) \/ i = Len(cs)
  BY <1>2
<1>4. Len(cs) \notin 1..(Len(cs) - 1)
  BY <1>2
<1>5. ContextsOK(Front(cs), n) /\ ContextOK(Last(cs), n)
  BY <1>2, <1>3 DEF ContextsOK
<1>6. ASSUME NEW k PROVE At(Front(cs), k) = At(cs, k) \ {Len(cs)}
  BY <1>2, <1>3, <1>4 DEF At
<1>7. \A k : Last(cs).kind = k <=> Len(cs) \in At(cs, k)
  BY <1>2, <1>3 DEF At
<1>8. \A k : At(cs, k) \subseteq 1..Len(cs)
  BY <1>2 DEF At
<1> QED
  BY <1>2, <1>5, <1>6, <1>7, <1>8

(***************************************************************************)
(* What an event does to the log.                                          *)
(***************************************************************************)
NewLine(verb, name, e) == [verb |-> verb, name |-> name, of |-> e]

LEMMA EventEffect ==
    ASSUME TypeInv, NEW verb, NEW name, NEW e, WriteEvent(verb, name, e),
           NEW m \in Nat, Len(exc) <= m, e \in 0..m, NewLine(verb, name, e) \in Line
    PROVE  /\ log' \in Seq(Line) /\ oom' \in BOOLEAN
           /\ \A i \in DOMAIN log' : log'[i].verb \in {"throw", "rethrow", "catch", "terminate"}
                                     /\ log'[i].of \in 0..m
           /\ \/ /\ log' # log /\ oom' = oom
                 /\ Verbs({"terminate"})' = Verbs({"terminate"}) \cup
                      (IF verb = "terminate" THEN {Len(log')} ELSE {})
              \/ log' = log /\ oom'
           /\ oom => oom'
<1> DEFINE l == NewLine(verb, name, e)
<1>0. /\ log \in Seq(Line) /\ oom \in BOOLEAN /\ Len(log) \in Nat
      /\ DOMAIN log = 1..Len(log) /\ Len(exc) \in Nat
      /\ \A i \in DOMAIN log : log[i].verb \in {"throw", "rethrow", "catch", "terminate"}
                               /\ log[i].of \in 0..m
  <2>1. log \in Seq(Line) /\ oom \in BOOLEAN /\ exc \in Seq(Exception)
    BY DEF TypeInv, TypeOK, Exception, Classes, TypeNames
  <2>2. Len(log) \in Nat /\ DOMAIN log = 1..Len(log) /\ Len(exc) \in Nat
    BY <2>1, LenProperties
  <2>3. Ids \cup {0} \subseteq 0..m
    BY <2>2 DEF Ids
  <2> QED
    BY <2>1, <2>2, <2>3 DEF TypeInv, TypeOK
<1>1. CASE log' = Append(log, l) /\ UNCHANGED oom
  <2>0. Len(log) \in Nat
    BY <1>0
  <2>1. /\ Append(log, l) \in Seq(Line)
        /\ Len(Append(log, l)) = Len(log) + 1
        /\ DOMAIN Append(log, l) = 1..(Len(log) + 1)
        /\ \A i \in 1..Len(log) : Append(log, l)[i] = log[i]
        /\ Append(log, l)[Len(log) + 1] = l
    BY <1>0, Pushed
  <2>2. \A i : i \in 1..(Len(log) + 1) <=> i \in 1..Len(log) \/ i = Len(log) + 1
    BY <1>0
  <2>3. Len(log) + 1 \notin 1..Len(log)
    BY <1>0
  <2>4. log # Append(log, l)
    <3> HIDE DEF l
    <3>0. \A n \in Nat : n + 1 # n
      OBVIOUS
    <3>1. Len(Append(log, l)) # Len(log)
      BY <2>0, <2>1, <3>0
    <3> QED
      BY <3>1
  <2>5. l.verb = verb /\ l.of = e /\ verb \in {"throw", "rethrow", "catch", "terminate"}
    BY DEF Line, NewLine
  <2>6. Verbs({"terminate"})' = Verbs({"terminate"}) \cup
          (IF verb = "terminate" THEN {Len(log')} ELSE {})
    BY <1>0, <1>1, <2>1, <2>2, <2>3, <2>5 DEF Verbs
  <2>7. \A i \in DOMAIN log' : log'[i].verb \in {"throw", "rethrow", "catch", "terminate"}
                               /\ log'[i].of \in 0..m
    BY <1>0, <1>1, <2>1, <2>2, <2>5
  <2> QED
    BY <1>0, <1>1, <2>1, <2>4, <2>6, <2>7
<1>2. CASE MayFail /\ ~oom /\ oom' = TRUE /\ UNCHANGED log
  BY <1>0, <1>2
<1> QED
  BY <1>1, <1>2 DEF WriteEvent, NewLine
-------------------------------------------------------------------------------
(***************************************************************************)
(* Types of what the runtime does.                                         *)
(***************************************************************************)
LEMMA Lengths ==
    ASSUME TypeInv
    PROVE  /\ exc \in Seq(Exception) /\ Len(exc) \in Nat /\ DOMAIN exc = Ids
           /\ count \in Seq(Int) /\ DOMAIN count = Ids
           /\ caught \in Seq(Ids) /\ ctx \in Seq(Context) /\ log \in Seq(Line)
           /\ \A e \in Ids : exc[e] \in Exception /\ count[e] \in Int
<1>1. exc \in Seq(Exception) /\ count \in Seq(Int) /\ Len(count) = Len(exc)
  BY DEF TypeInv, TypeOK, Exception, Classes, TypeNames
<1>2. \A e \in 1..Len(exc) : exc[e] \in Exception /\ count[e] \in Int
  BY <1>1, ElementOfSeq
<1> QED
  BY <1>1, <1>2, LenProperties DEF TypeInv, TypeOK, Ids, ContextsOK

LEMMA RaisedType ==
    ASSUME TypeInv, NEW c \in Classes, NEW t \in TypeNames, Raise(c, t)
    PROVE  /\ exc' \in Seq(Exception)
           /\ count' \in Seq(Int) /\ Len(count') = Len(exc')
           /\ Len(exc) \in Nat /\ Len(exc') = Len(exc) + 1
           /\ Ids \subseteq Ids' /\ Len(exc') \in Ids'
           /\ caught \in Seq(Ids') /\ flight \in Ids' \cup {0}
           /\ \A i \in DOMAIN log : log[i].of \in Ids' \cup {0}
<1> DEFINE x == [class |-> c, type |-> t]
<1>1. x \in Exception /\ 0 \in Int
  BY DEF Exception
<1>2. /\ exc \in Seq(Exception) /\ count \in Seq(Int) /\ caught \in Seq(Ids)
      /\ Len(count) = Len(exc) /\ flight \in Ids \cup {0}
      /\ \A i \in DOMAIN log : log[i].of \in Ids \cup {0}
  BY Lengths DEF TypeInv, TypeOK
<1>3. exc' = Append(exc, x) /\ count' = Append(count, 0)
  BY DEF Raise
<1> HIDE DEF x
<1>4. exc' \in Seq(Exception) /\ Len(exc) \in Nat /\ Len(exc') = Len(exc) + 1
  BY <1>1, <1>2, <1>3, Pushed
<1>5. count' \in Seq(Int) /\ Len(count') = Len(count) + 1
  BY <1>1, <1>2, <1>3, Pushed
<1>6. Ids \subseteq Ids' /\ Len(exc') \in Ids'
  BY <1>4 DEF Ids
<1>7. caught \in Seq(Ids')
  BY <1>2, <1>6, SeqMonotonic
<1> QED
  BY <1>2, <1>4, <1>5, <1>6, <1>7

LEMMA CurrentTypeType ==
    ASSUME TypeInv, NEW handled \in Seq(Ids)
    PROVE  CurrentType(handled) \in TypeNames
<1>1. ASSUME handled # <<>> PROVE exc[Last(handled)] \in Exception
  BY <1>1, Popped, Lengths
<1> QED
  BY <1>1 DEF CurrentType, TypeNames, Exception

LEMMA NamesType ==
    ASSUME NEW type \in TypeNames, NEW lab \in {NoName, Forced, Foreign}
    PROVE  ShownName(type, lab) \in EventNames
BY DEF ShownName, EventNames

LEMMA ForeignLabelType ==
    ASSUME NEW e
    PROVE  ForeignLabel(e) \in {NoName, Forced, Foreign}
BY DEF ForeignLabel

LEMMA BeganCatchType ==
    ASSUME TypeInv, NEW e \in Ids, RealBeginCatch(e)
    PROVE  /\ count' \in Seq(Int) /\ Len(count') = Len(count)
           /\ caught' \in Seq(Ids)
<1>1. /\ count \in Seq(Int) /\ caught \in Seq(Ids) /\ Len(count) = Len(exc)
      /\ e \in 1..Len(count) /\ count[e] \in Int
  BY Lengths DEF TypeInv, TypeOK, Ids
<1> DEFINE n == IF IsNative(e) THEN (IF count[e] < 0 THEN 1 - count[e] ELSE count[e] + 1) ELSE 0
<1>2. n \in Int
  BY <1>1
<1>3. count' \in Seq(Int) /\ Len(count') = Len(count)
  <2>1. count' = [count EXCEPT ![e] = n]
    BY DEF RealBeginCatch
  <2> HIDE DEF n
  <2> QED
    BY <1>1, <1>2, <2>1, ExceptSeq
<1>4. caught' \in Seq(Ids)
  BY <1>1, Pushed DEF RealBeginCatch
<1> QED
  BY <1>3, <1>4

LEMMA EndedCatchType ==
    ASSUME TypeInv, EndCatch
    PROVE  /\ count' \in Seq(Int) /\ Len(count') = Len(count)
           /\ caught' \in Seq(Ids)
<1>1. /\ count \in Seq(Int) /\ caught \in Seq(Ids) /\ Len(count) = Len(exc)
      /\ <<>> \in Seq(Ids)
  BY Lengths, EmptySeq DEF TypeInv, TypeOK
<1>2. CASE caught = <<>> \/ ~IsNative(Last(caught))
  BY <1>1, <1>2 DEF EndCatch
<1>3. CASE ~(caught = <<>> \/ ~IsNative(Last(caught)))
  <2>1. Last(caught) \in Ids /\ Front(caught) \in Seq(Ids)
    BY <1>1, <1>3, Popped
  <2>2. Last(caught) \in 1..Len(count) /\ count[Last(caught)] \in Int
    BY <1>1, <2>1, Lengths DEF Ids
  <2>3. PICK n \in Int : /\ count' = [count EXCEPT ![Last(caught)] = n]
                         /\ caught' \in {Front(caught), caught}
    BY <1>3, <2>2 DEF EndCatch
  <2>4. count' \in Seq(Int) /\ Len(count') = Len(count)
    BY <1>1, <2>2, <2>3, ExceptSeq
  <2> QED
    BY <1>1, <2>1, <2>3, <2>4
<1> QED
  BY <1>2, <1>3
-------------------------------------------------------------------------------
(***************************************************************************)
(* Steps without an event: the tracer's state stays, and no what() and no  *)
(* terminate handler starts or ends.                                       *)
(***************************************************************************)
LEMMA QuietStep ==
    ASSUME IInv, TypeInv', UNCHANGED <<guard, terminating, log, oom, ours>>,
           At(ctx', "what") = At(ctx, "what"),
           At(ctx', "terminate") = At(ctx, "terminate")
    PROVE  IInv'
<1>1. Verbs({"terminate"})' = Verbs({"terminate"})
  BY DEF Verbs
<1>2. GuardInv' /\ TerminatingInv'
  BY <1>1 DEF IInv, GuardInv, TerminatingInv, TerminateLineIsLast
<1>3. RoadInv'
  BY <1>1 DEF IInv, RoadInv
<1> QED
  BY <1>2, <1>3 DEF IInv

LEMMA SameContexts ==
    ASSUME TypeInv, ctx' = ctx, NEW m \in Nat, Len(exc) <= m
    PROVE  /\ ContextsOK(ctx', m)
           /\ At(ctx', "what") = At(ctx, "what")
           /\ At(ctx', "terminate") = At(ctx, "terminate")
BY Lengths DEF TypeInv, ContextsOK, ContextOK

LEMMA VerifyInterposersInv ==
    ASSUME IInv, VerifyInterposers
    PROVE  IInv'
<1>1. /\ ctx = <<>> /\ log = <<>> /\ ~guard /\ ~terminating
      /\ UNCHANGED <<exc, ctx, log, guard, terminating>>
  BY DEF VerifyInterposers, IInv, TypeInv, tracer, runtime
<1>2. ours' \subseteq EntryPoints
  BY InterposersAssumption DEF VerifyInterposers, EntryPoints
<1>3. TypeInv'
  BY <1>2 DEF VerifyInterposers, IInv, TypeInv, TypeOK, Ids, tracer, runtime
<1>4. \A k : At(ctx', k) = {} 
  BY <1>1 DEF At
<1>5. Verbs({"terminate"})' = {}
  BY <1>1 DEF Verbs
<1> QED
  BY <1>1, <1>3, <1>4, <1>5 DEF IInv, GuardInv, TerminatingInv, TerminateLineIsLast, RoadInv

LEMMA ForeignUnwindInv ==
    ASSUME IInv, NEW class \in {"forced", "foreign"}, ForeignUnwind(class)
    PROVE  IInv'
<1> USE DEF IInv
<1>1. class \in Classes /\ NoName \in TypeNames /\ Raise(class, NoName)
  BY DEF Classes, TypeNames, ForeignUnwind
<1>2. /\ exc' \in Seq(Exception)
      /\ count' \in Seq(Int) /\ Len(count') = Len(exc')
      /\ Len(exc) \in Nat /\ Len(exc') = Len(exc) + 1
      /\ Ids \subseteq Ids' /\ Len(exc') \in Ids'
      /\ caught \in Seq(Ids') /\ flight \in Ids' \cup {0}
      /\ \A i \in DOMAIN log : log[i].of \in Ids' \cup {0}
  BY <1>1, RaisedType
<1>3. /\ ctx' = ctx /\ caught' = caught
      /\ UNCHANGED <<guard, terminating, label, log, oom, ours>>
      /\ flight' = Len(exc') /\ searched' = TRUE /\ phase' = "flight"
  BY DEF ForeignUnwind, Fly, NoEvent, tracer
<1>4. /\ ContextsOK(ctx', Len(exc'))
      /\ At(ctx', "what") = At(ctx, "what")
      /\ At(ctx', "terminate") = At(ctx, "terminate")
  BY <1>2, <1>3, SameContexts
<1>5. TypeInv'
  BY <1>2, <1>3, <1>4 DEF TypeInv, TypeOK, Exception, Classes, TypeNames
<1> QED
  BY <1>3, <1>4, <1>5, QuietStep

LEMMA CallTerminateInv ==
    ASSUME IInv, CallTerminate \/ End
    PROVE  IInv'
<1>1. TypeInv'
  BY DEF IInv, CallTerminate, End, TypeInv, TypeOK, Ids, runtime, tracer
<1> QED
  BY <1>1, QuietStep DEF IInv, CallTerminate, End, tracer

LEMMA UnwindHandlerInv ==
    ASSUME IInv, UnwindHandler \/ EndHandler
    PROVE  IInv'
<1>1. /\ ctx # <<>> /\ Last(ctx).kind = "handler" /\ ctx' = Front(ctx)
      /\ UNCHANGED <<exc, flight, phase, ours, tracer, log, oom>>
      /\ searched' \in {TRUE, searched} /\ EndCatch
      /\ phase \in {"run", "flight"}
  BY DEF UnwindHandler, EndHandler, In
<1>2. /\ count' \in Seq(Int) /\ Len(count') = Len(count)
      /\ caught' \in Seq(Ids)
  BY <1>1, EndedCatchType DEF IInv
<1>3. ContextsOK(ctx, Len(exc)) /\ Len(exc) \in Nat
  BY Lengths DEF IInv, TypeInv
<1>4. /\ ContextsOK(ctx', Len(exc))
      /\ At(ctx', "what") = At(ctx, "what")
      /\ At(ctx', "terminate") = At(ctx, "terminate")
  <2>1. /\ ContextsOK(Front(ctx), Len(exc))
        /\ \A k : At(Front(ctx), k) = At(ctx, k) \ {Len(ctx)}
        /\ \A k : Last(ctx).kind = k <=> Len(ctx) \in At(ctx, k)
    BY <1>1, <1>3, PoppedContext
  <2>2. Len(ctx) \notin At(ctx, "what") /\ Len(ctx) \notin At(ctx, "terminate")
    BY <1>1, <2>1
  <2>3. /\ At(Front(ctx), "what") = At(ctx, "what") \ {Len(ctx)}
        /\ At(Front(ctx), "terminate") = At(ctx, "terminate") \ {Len(ctx)}
    BY <2>1
  <2>4. /\ At(Front(ctx), "what") = At(ctx, "what")
        /\ At(Front(ctx), "terminate") = At(ctx, "terminate")
    BY <2>2, <2>3
  <2>5. ctx' = Front(ctx)
    BY <1>1
  <2> QED
    BY <2>1, <2>4, <2>5
<1>5. TypeInv'
  BY <1>1, <1>2, <1>4 DEF IInv, TypeInv, TypeOK, Ids, tracer
<1> QED
  BY <1>1, <1>4, <1>5, QuietStep DEF tracer

LEMMA RunCleanupInv ==
    ASSUME IInv, RunCleanup
    PROVE  IInv'
<1> DEFINE c == [kind |-> "cleanup", exc |-> flight, site |-> NoName, type |-> NoName]
<1>1. /\ ctx' = Append(ctx, c) /\ flight \in Ids /\ phase' = "run"
      /\ flight' = 0 /\ searched' = FALSE
      /\ UNCHANGED <<exc, count, caught, ours, guard, terminating, label, log, oom>>
  BY DEF RunCleanup, Enter, IInv, TypeInv, tracer
<1>2. ContextsOK(ctx, Len(exc)) /\ Len(exc) \in Nat /\ flight \in 1..Len(exc)
  BY <1>1, Lengths DEF IInv, TypeInv, Ids
<1>3. c \in Context /\ ContextOK(c, Len(exc)) /\ c.kind = "cleanup"
  BY <1>2 DEF Context, ContextOK, Kinds, TypeNames
<1> HIDE DEF c
<1>4. /\ ContextsOK(ctx', Len(exc))
      /\ At(ctx', "what") = At(ctx, "what")
      /\ At(ctx', "terminate") = At(ctx, "terminate")
  <2>1. /\ ContextsOK(Append(ctx, c), Len(exc))
        /\ \A k : At(Append(ctx, c), k) =
                    At(ctx, k) \cup (IF c.kind = k THEN {Len(ctx) + 1} ELSE {})
    BY <1>2, <1>3, PushedContext
  <2> QED
    BY <1>1, <1>3, <2>1
<1>5. TypeInv'
  BY <1>1, <1>4 DEF IInv, TypeInv, TypeOK, Ids
<1> QED
  BY <1>1, <1>4, <1>5, QuietStep

LEMMA EndCleanupInv ==
    ASSUME IInv, EndCleanup
    PROVE  IInv'
<1>1. /\ ctx # <<>> /\ Last(ctx).kind = "cleanup" /\ ctx' = Front(ctx)
      /\ flight' = Last(ctx).exc /\ searched' = TRUE /\ phase' = "flight"
      /\ UNCHANGED <<exc, count, caught, ours, guard, terminating, label, log, oom>>
  BY DEF EndCleanup, In, Fly, tracer
<1>2. ContextsOK(ctx, Len(exc)) /\ Len(exc) \in Nat
  BY Lengths DEF IInv, TypeInv
<1>3. /\ ContextsOK(ctx', Len(exc)) /\ ContextOK(Last(ctx), Len(exc))
      /\ At(ctx', "what") = At(ctx, "what")
      /\ At(ctx', "terminate") = At(ctx, "terminate")
  <2>1. /\ ContextsOK(Front(ctx), Len(exc)) /\ ContextOK(Last(ctx), Len(exc))
        /\ \A k : At(Front(ctx), k) = At(ctx, k) \ {Len(ctx)}
        /\ \A k : Last(ctx).kind = k <=> Len(ctx) \in At(ctx, k)
    BY <1>1, <1>2, PoppedContext
  <2>2. Len(ctx) \notin At(ctx, "what") /\ Len(ctx) \notin At(ctx, "terminate")
    BY <1>1, <2>1
  <2> QED
    BY <1>1, <2>1, <2>2
<1>4. Last(ctx).exc \in Ids
  BY <1>1, <1>3 DEF ContextOK, Ids
<1>5. TypeInv'
  BY <1>1, <1>3, <1>4 DEF IInv, TypeInv, TypeOK, Ids
<1> QED
  BY <1>1, <1>3, <1>5, QuietStep
-------------------------------------------------------------------------------
(***************************************************************************)
(* Steps of the interposers that write a throw or rethrow line, or none.   *)
(***************************************************************************)
LEMMA LineStep ==
    ASSUME IInv, TypeInv', GuardInv', ~terminating, ~terminating',
           Verbs({"terminate"})' = Verbs({"terminate"}), oom => oom', ours' = ours,
           At(ctx', "terminate") \subseteq At(ctx, "terminate"),
           \A i \in At(ctx, "what"), j \in At(ctx', "terminate") :
             i < j => i \in At(ctx', "what")
    PROVE  IInv'
<1>1. Verbs({"terminate"}) = {}
  BY DEF IInv, TerminatingInv
<1>2. oom \in BOOLEAN /\ oom' \in BOOLEAN
  BY DEF IInv, TypeInv, TypeOK
<1>3. TerminatingInv'
  BY <1>1 DEF TerminatingInv, TerminateLineIsLast
<1>4. RoadInv'
  <2> SUFFICES ASSUME ~oom', ours' = EntryPoints, NEW j \in At(ctx', "terminate")
               PROVE  \E i \in At(ctx', "what") : i < j
    BY DEF RoadInv
  <2>1. \E i \in At(ctx, "what") : i < j
    BY <1>1, <1>2 DEF IInv, RoadInv
  <2> QED
    BY <2>1
<1> QED
  BY <1>3, <1>4 DEF IInv

\* A line other than a terminate line.
LEMMA OtherLine ==
    ASSUME TypeInv, NEW verb \in {"throw", "rethrow", "catch"}, NEW name \in EventNames,
           NEW e, NEW m \in Nat, Len(exc) <= m, e \in 0..m, WriteEvent(verb, name, e)
    PROVE  /\ log' \in Seq(Line) /\ oom' \in BOOLEAN /\ (oom => oom')
           /\ \A i \in DOMAIN log' : log'[i].verb \in {"throw", "rethrow", "catch", "terminate"}
                                     /\ log'[i].of \in 0..m
           /\ Verbs({"terminate"})' = Verbs({"terminate"})
<1>1. NewLine(verb, name, e) \in Line
  BY DEF NewLine, Line
<1>2. log' = log => Verbs({"terminate"})' = Verbs({"terminate"})
  BY DEF Verbs
<1> QED
  BY <1>1, <1>2, EventEffect

\* The parts of TypeInv' that a step which raises or catches establishes.
LEMMA TypeStep ==
    ASSUME TypeInv, exc' \in Seq(Exception), count' \in Seq(Int), Len(count') = Len(exc'),
           caught' \in Seq(Ids'), flight' \in Ids' \cup {0},
           phase' \in {"run", "flight", "terminate"}, phase' = "flight" => flight' \in Ids',
           ours' = ours, {searched', guard', terminating', oom'} \subseteq BOOLEAN,
           label' \in {NoName, Forced, Foreign}, ContextsOK(ctx', Len(exc')),
           log' \in Seq(Line),
           \A i \in DOMAIN log' : log'[i].verb \in {"throw", "rethrow", "catch", "terminate"}
                                  /\ log'[i].of \in 0..Len(exc')
    PROVE  TypeInv'
<1>1. Len(exc') \in Nat
  BY LenProperties
<1>2. 0..Len(exc') = Ids' \cup {0}
  BY <1>1 DEF Ids
<1>3. ours' \subseteq EntryPoints
  BY DEF TypeInv, TypeOK
<1>4. TypeOK'
  BY <1>2, <1>3 DEF TypeOK, Exception, Classes, TypeNames
<1> QED
  BY <1>4 DEF TypeInv

LEMMA Flags ==
    ASSUME TypeInv
    PROVE  /\ {searched, guard, terminating, oom} \subseteq BOOLEAN
           /\ label \in {NoName, Forced, Foreign}
BY DEF TypeInv, TypeOK

LEMMA NoLine ==
    ASSUME TypeInv, NoEvent, NEW m \in Nat, Len(exc) <= m
    PROVE  /\ log' \in Seq(Line) /\ oom' \in BOOLEAN /\ (oom => oom')
           /\ \A i \in DOMAIN log' : log'[i].verb \in {"throw", "rethrow", "catch", "terminate"}
                                     /\ log'[i].of \in 0..m
           /\ Verbs({"terminate"})' = Verbs({"terminate"})
<1>1. log' = log /\ oom' = oom
  BY DEF NoEvent
<1>2. Ids \cup {0} \subseteq 0..m
  BY Lengths DEF Ids
<1> QED
  BY <1>1, <1>2 DEF TypeInv, TypeOK, Verbs

LEMMA CxaThrowInv ==
    ASSUME IInv, NEW t \in Types, CxaThrow(t)
    PROVE  IInv'
<1> DEFINE w == [kind |-> "what", exc |-> Len(exc'), site |-> "throw", type |-> t]
<1>0. t \in TypeNames /\ "primary" \in Classes /\ NoName \in {NoName, Forced, Foreign}
  BY DEF Classes, TypeNames
<1>1. /\ exc' \in Seq(Exception)
      /\ count' \in Seq(Int) /\ Len(count') = Len(exc')
      /\ Len(exc) \in Nat /\ Len(exc') = Len(exc) + 1
      /\ Ids \subseteq Ids' /\ Len(exc') \in Ids'
      /\ caught \in Seq(Ids') /\ flight \in Ids' \cup {0}
  BY <1>0, RaisedType DEF IInv, CxaThrow
<1>2. Len(exc') \in Nat /\ Len(exc) <= Len(exc') /\ Len(exc') \in 0..Len(exc')
  BY <1>1
<1>3. ContextsOK(ctx, Len(exc)) /\ phase = "run"
  BY DEF IInv, TypeInv, CxaThrow
<1>4. UNCHANGED <<caught, ours, terminating, label>>
  BY DEF CxaThrow
<1>5. CASE Reports("throw") /\ t \in WhatTypes
  <2>1. /\ ctx' = Append(ctx, w) /\ guard' = TRUE /\ NoEvent
        /\ UNCHANGED <<flight, searched, phase>>
    BY <1>5 DEF CxaThrow, Enter
  <2>2. w \in Context /\ ContextOK(w, Len(exc')) /\ w.kind = "what"
    BY <1>0, <1>2, <1>1 DEF Context, ContextOK, Kinds, NoName, Ids
  <2> HIDE DEF w
  <2>3. /\ ContextsOK(ctx', Len(exc')) /\ Len(ctx) \in Nat
        /\ \A k : At(ctx', k) = At(ctx, k) \cup (IF w.kind = k THEN {Len(ctx) + 1} ELSE {})
    BY <1>1, <1>2, <1>3, <2>1, <2>2, PushedContext
  <2>4. /\ At(ctx', "what") = At(ctx, "what") \cup {Len(ctx) + 1}
        /\ At(ctx', "terminate") = At(ctx, "terminate")
    BY <2>2, <2>3
  <2>5. /\ log' \in Seq(Line) /\ oom' \in BOOLEAN /\ (oom => oom')
        /\ \A i \in DOMAIN log' : log'[i].verb \in {"throw", "rethrow", "catch", "terminate"}
                                  /\ log'[i].of \in 0..Len(exc')
        /\ Verbs({"terminate"})' = Verbs({"terminate"})
    BY <1>2, <2>1, NoLine DEF IInv
  <2>6. TypeInv'
    BY <1>1, <1>3, <1>4, <2>1, <2>3, <2>5, Flags, TypeStep DEF IInv
  <2>7. ~guard /\ ~terminating
    BY <1>5 DEF Reports
  <2>8. GuardInv'
    BY <1>4, <2>1, <2>4, <2>7 DEF IInv, GuardInv
  <2> QED
    BY <1>4, <2>4, <2>5, <2>6, <2>7, <2>8, LineStep
<1>6. CASE ~(Reports("throw") /\ t \in WhatTypes)
  <2>1. /\ flight' = Len(exc') /\ searched' = FALSE /\ phase' = "flight"
        /\ UNCHANGED <<ctx, guard>>
        /\ IF Reports("throw") THEN WriteEvent("throw", ShownName(t, NoName), Len(exc')) ELSE NoEvent
    BY <1>6 DEF CxaThrow, Fly
  <2>2. /\ log' \in Seq(Line) /\ oom' \in BOOLEAN /\ (oom => oom')
        /\ \A i \in DOMAIN log' : log'[i].verb \in {"throw", "rethrow", "catch", "terminate"}
                                  /\ log'[i].of \in 0..Len(exc')
        /\ Verbs({"terminate"})' = Verbs({"terminate"})
    BY <1>0, <1>2, <2>1, NoLine, OtherLine, NamesType DEF IInv
  <2>3. /\ ContextsOK(ctx', Len(exc'))
        /\ At(ctx', "what") = At(ctx, "what")
        /\ At(ctx', "terminate") = At(ctx, "terminate")
    BY <1>2, <2>1, SameContexts DEF IInv
  <2>4. TypeInv'
    BY <1>1, <1>4, <2>1, <2>2, <2>3, Flags, TypeStep DEF IInv
  <2>5. GuardInv'
    BY <1>4, <2>1, <2>3 DEF IInv, GuardInv
  <2>6. CASE Reports("throw")
    BY <1>4, <2>2, <2>3, <2>4, <2>5, <2>6, LineStep DEF Reports
  <2>7. CASE ~Reports("throw")
    BY <1>4, <2>1, <2>3, <2>4, <2>7, QuietStep DEF NoEvent
  <2> QED
    BY <2>6, <2>7
<1> QED
  BY <1>5, <1>6

LEMMA RethrowExceptionInv ==
    ASSUME IInv, NEW t \in Types, RethrowException(t)
    PROVE  IInv'
<1>0. t \in TypeNames /\ "dependent" \in Classes /\ NoName \in {NoName, Forced, Foreign}
  BY DEF Classes, TypeNames
<1>1. /\ exc' \in Seq(Exception)
      /\ count' \in Seq(Int) /\ Len(count') = Len(exc')
      /\ Len(exc) \in Nat /\ Len(exc') = Len(exc) + 1
      /\ Ids \subseteq Ids' /\ Len(exc') \in Ids'
      /\ caught \in Seq(Ids') /\ flight \in Ids' \cup {0}
  BY <1>0, RaisedType DEF IInv, RethrowException
<1>2. Len(exc') \in Nat /\ Len(exc) <= Len(exc') /\ Len(exc') \in 0..Len(exc')
  BY <1>1
<1>3. /\ UNCHANGED <<caught, ctx, ours, guard, terminating, label>>
      /\ flight' = Len(exc') /\ searched' = FALSE /\ phase' = "flight"
      /\ IF Reports("rethrow_exception")
           THEN WriteEvent("rethrow", ShownName(t, NoName), Len(exc')) ELSE NoEvent
  BY DEF RethrowException, Fly, tracer
<1>4. /\ log' \in Seq(Line) /\ oom' \in BOOLEAN /\ (oom => oom')
      /\ \A i \in DOMAIN log' : log'[i].verb \in {"throw", "rethrow", "catch", "terminate"}
                                /\ log'[i].of \in 0..Len(exc')
      /\ Verbs({"terminate"})' = Verbs({"terminate"})
  BY <1>0, <1>2, <1>3, NoLine, OtherLine, NamesType DEF IInv
<1>5. /\ ContextsOK(ctx', Len(exc'))
      /\ At(ctx', "what") = At(ctx, "what")
      /\ At(ctx', "terminate") = At(ctx, "terminate")
  BY <1>2, <1>3, SameContexts DEF IInv
<1>6. TypeInv'
  BY <1>1, <1>3, <1>4, <1>5, Flags, TypeStep DEF IInv
<1>7. GuardInv'
  BY <1>3, <1>5 DEF IInv, GuardInv
<1>8. CASE Reports("rethrow_exception")
  BY <1>3, <1>4, <1>5, <1>6, <1>7, <1>8, LineStep DEF Reports
<1>9. CASE ~Reports("rethrow_exception")
  BY <1>3, <1>5, <1>6, <1>9, QuietStep DEF NoEvent
<1> QED
  BY <1>8, <1>9

\* Leaving the context of a what() lowers the guard, and no other is left.
LEMMA WhatEnds ==
    ASSUME IInv, In("what")
    PROVE  /\ ctx # <<>> /\ ContextsOK(Front(ctx), Len(exc)) /\ Len(exc) \in Nat
           /\ Last(ctx).exc \in Ids /\ Last(ctx).exc \in 0..Len(exc)
           /\ Last(ctx).type \in TypeNames
           /\ Last(ctx).site \in CatchSites \cup {"throw"}
           /\ At(Front(ctx), "what") = {}
           /\ At(Front(ctx), "terminate") = At(ctx, "terminate")
           /\ At(ctx, "what") = {Len(ctx)} /\ At(ctx, "terminate") \subseteq 1..Len(ctx)
           /\ Len(ctx) \in Nat
           /\ guard /\ ~terminating
<1>1. ctx # <<>> /\ Last(ctx).kind = "what"
  BY DEF In
<1>2. ContextsOK(ctx, Len(exc)) /\ Len(exc) \in Nat
  BY Lengths DEF IInv, TypeInv
<1>3. /\ ContextsOK(Front(ctx), Len(exc))
      /\ Last(ctx) \in Context /\ ContextOK(Last(ctx), Len(exc))
      /\ \A k : At(Front(ctx), k) = At(ctx, k) \ {Len(ctx)}
      /\ \A k : Last(ctx).kind = k <=> Len(ctx) \in At(ctx, k)
      /\ \A k : At(ctx, k) \subseteq 1..Len(ctx)
      /\ Len(ctx) \in Nat
  BY <1>1, <1>2, PoppedContext
<1>4. Len(ctx) \in At(ctx, "what") /\ Len(ctx) \notin At(ctx, "terminate")
  BY <1>1, <1>3
<1>5. At(ctx, "what") = {Len(ctx)}
  BY <1>4 DEF IInv, GuardInv
<1>6. guard /\ ~terminating
  BY <1>4 DEF IInv, GuardInv
<1>7. Last(ctx).exc \in Ids /\ Last(ctx).exc \in 0..Len(exc)
  BY <1>1, <1>2, <1>3 DEF ContextOK, Ids
<1>8. Last(ctx).type \in TypeNames /\ Last(ctx).site \in CatchSites \cup {"throw"}
  BY <1>1, <1>3 DEF ContextOK, Context
<1>9. /\ At(Front(ctx), "what") = {}
      /\ At(Front(ctx), "terminate") = At(ctx, "terminate")
      /\ At(ctx, "terminate") \subseteq 1..Len(ctx)
  BY <1>3, <1>4, <1>5
<1>10. ctx # <<>> /\ ContextsOK(Front(ctx), Len(exc)) /\ Len(exc) \in Nat /\ Len(ctx) \in Nat
  BY <1>1, <1>2, <1>3
<1> QED
  BY <1>5, <1>6, <1>7, <1>8, <1>9, <1>10

LEMMA CxaThrowGoesOnInv ==
    ASSUME IInv, CxaThrowGoesOn
    PROVE  IInv'
<1> DEFINE w == Last(ctx)
<1>1. /\ In("what") /\ ctx' = Front(ctx) /\ guard' = FALSE
      /\ WriteEvent("throw", ShownName(w.type, NoName), w.exc)
      /\ flight' = w.exc /\ searched' = FALSE /\ phase' = "flight"
      /\ UNCHANGED <<exc, count, caught, ours, terminating, label>>
  BY DEF CxaThrowGoesOn, Fly
<1>2. /\ ContextsOK(Front(ctx), Len(exc)) /\ Len(exc) \in Nat
      /\ w.exc \in Ids /\ w.exc \in 0..Len(exc) /\ w.type \in TypeNames
      /\ At(Front(ctx), "what") = {}
      /\ At(Front(ctx), "terminate") = At(ctx, "terminate")
      /\ At(ctx, "what") = {Len(ctx)} /\ At(ctx, "terminate") \subseteq 1..Len(ctx)
      /\ Len(ctx) \in Nat /\ guard /\ ~terminating
  BY <1>1, WhatEnds
<1>3. NoName \in {NoName, Forced, Foreign} /\ Len(exc) <= Len(exc)
  BY <1>2
<1>4. /\ log' \in Seq(Line) /\ oom' \in BOOLEAN /\ (oom => oom')
      /\ \A i \in DOMAIN log' : log'[i].verb \in {"throw", "rethrow", "catch", "terminate"}
                                /\ log'[i].of \in 0..Len(exc)
      /\ Verbs({"terminate"})' = Verbs({"terminate"})
  BY <1>1, <1>2, <1>3, OtherLine, NamesType DEF IInv
<1>5. TypeInv'
  <2>1. Ids' = Ids /\ caught' \in Seq(Ids) /\ count' \in Seq(Int) /\ exc' \in Seq(Exception)
        /\ Len(count) = Len(exc)
    BY <1>1, Lengths DEF IInv, Ids, TypeInv, TypeOK
  <2> QED
    BY <1>1, <1>2, <1>4, <2>1, Flags, TypeStep DEF IInv
<1>6. GuardInv'
  BY <1>1, <1>2 DEF GuardInv
<1>7. \A i \in At(ctx, "what"), j \in At(ctx', "terminate") : i < j => i \in At(ctx', "what")
  BY <1>1, <1>2
<1> QED
  BY <1>1, <1>2, <1>4, <1>5, <1>6, <1>7, LineStep

LEMMA CxaRethrowInv ==
    ASSUME IInv, CxaRethrow
    PROVE  IInv'
<1> DEFINE handled == IF caught = <<>> THEN 0 ELSE Last(caught)
           type == CurrentType(caught)
           name == ShownName(type, IF type = NoName THEN label ELSE NoName)
<1>1. /\ UNCHANGED <<exc, ctx, ours, guard, terminating>>
      /\ IF Reports("rethrow") THEN label' = NoName /\ WriteEvent("rethrow", name, handled)
         ELSE NoEvent /\ UNCHANGED label
      /\ IF handled = 0
           THEN phase' = "terminate" /\ UNCHANGED <<flight, searched, count, caught>>
           ELSE /\ Fly(handled, ~IsNative(handled) /\ exc[handled].class = "forced")
                /\ IF IsNative(handled)
                     THEN count' = [count EXCEPT ![handled] = -@] /\ UNCHANGED caught
                     ELSE caught' = <<>> /\ UNCHANGED count
  BY DEF CxaRethrow
<1>2. /\ Ids' = Ids /\ Len(exc) \in Nat /\ Len(exc) <= Len(exc)
      /\ exc' \in Seq(Exception) /\ caught \in Seq(Ids) /\ <<>> \in Seq(Ids)
      /\ count \in Seq(Int) /\ Len(count) = Len(exc) /\ flight \in Ids \cup {0}
      /\ label \in {NoName, Forced, Foreign}
  BY <1>1, Lengths, EmptySeq DEF IInv, Ids, TypeInv, TypeOK
<1>3. handled \in Ids \cup {0} /\ handled \in 0..Len(exc)
  <2>1. caught # <<>> => Last(caught) \in Ids
    BY <1>2, Popped
  <2> QED
    BY <1>2, <2>1 DEF Ids
<1>4. type \in TypeNames /\ name \in EventNames
  <2>1. type \in TypeNames
    BY <1>2, CurrentTypeType DEF IInv
  <2> HIDE DEF type
  <2> QED
    BY <1>2, <2>1, NamesType
<1> HIDE DEF type, name, handled
<1>5. /\ log' \in Seq(Line) /\ oom' \in BOOLEAN /\ (oom => oom')
      /\ \A i \in DOMAIN log' : log'[i].verb \in {"throw", "rethrow", "catch", "terminate"}
                                /\ log'[i].of \in 0..Len(exc)
      /\ Verbs({"terminate"})' = Verbs({"terminate"})
  BY <1>1, <1>2, <1>3, <1>4, NoLine, OtherLine DEF IInv
<1>6. /\ ContextsOK(ctx', Len(exc'))
      /\ At(ctx', "what") = At(ctx, "what")
      /\ At(ctx', "terminate") = At(ctx, "terminate")
  BY <1>1, <1>2, SameContexts DEF IInv
<1>7. /\ count' \in Seq(Int) /\ Len(count') = Len(count) /\ caught' \in Seq(Ids)
      /\ flight' \in Ids \cup {0} /\ (phase' = "flight" => flight' \in Ids)
      /\ phase' \in {"flight", "terminate"} /\ searched' \in BOOLEAN
  <2>1. CASE handled = 0
    BY <1>1, <1>2, <2>1, Flags DEF IInv
  <2>2. CASE handled # 0
    <3>1. handled \in 1..Len(count) /\ count[handled] \in Int /\ handled \in Ids
      BY <1>2, <1>3, <2>2, Lengths DEF IInv, Ids
    <3>2. -count[handled] \in Int
      BY <3>1
    <3>3. count' \in Seq(Int) /\ Len(count') = Len(count)
      <4>1. count' \in {[count EXCEPT ![handled] = -count[handled]], count}
        BY <1>1, <2>2
      <4>2. /\ [count EXCEPT ![handled] = -count[handled]] \in Seq(Int)
            /\ Len([count EXCEPT ![handled] = -count[handled]]) = Len(count)
        BY <1>2, <3>1, <3>2, ExceptSeq
      <4> QED
        BY <1>2, <4>1, <4>2
    <3> QED
      BY <1>1, <1>2, <2>2, <3>1, <3>3 DEF Fly
  <2> QED
    BY <2>1, <2>2
<1>8. TypeInv'
  <2>1. label' \in {NoName, Forced, Foreign}
    BY <1>1, <1>2
  <2> QED
    BY <1>1, <1>2, <1>5, <1>6, <1>7, <2>1, Flags, TypeStep DEF IInv
<1>9. GuardInv'
  BY <1>1, <1>6 DEF IInv, GuardInv
<1>10. CASE Reports("rethrow")
  BY <1>1, <1>5, <1>6, <1>8, <1>9, <1>10, LineStep DEF Reports
<1>11. CASE ~Reports("rethrow")
  BY <1>1, <1>6, <1>8, <1>11, QuietStep DEF NoEvent
<1> QED
  BY <1>10, <1>11
-------------------------------------------------------------------------------
(***************************************************************************)
(* __cxa_begin_catch: the line, then the handler, the terminate handler or *)
(* the call of std::terminate.                                             *)
(***************************************************************************)
LEMMA ReportCatchEffect ==
    ASSUME IInv, ~terminating, NEW e \in Ids, NEW site \in CatchSites, NEW type \in TypeNames,
           NEW lab \in {NoName, Forced, Foreign}, ReportCatch(e, site, type, lab)
    PROVE  /\ log' \in Seq(Line) /\ {oom', terminating'} \subseteq BOOLEAN /\ (oom => oom')
           /\ \A i \in DOMAIN log' : log'[i].verb \in {"throw", "rethrow", "catch", "terminate"}
                                     /\ log'[i].of \in 0..Len(exc)
           /\ TerminatingInv'
           /\ site = "program" => ~terminating' /\ Verbs({"terminate"})' = {}
           /\ site # "program" /\ ~oom' => Verbs({"terminate"})' # {}
<1> DEFINE verb == IF site = "program" THEN "catch" ELSE "terminate"
           name == ShownName(type, lab)
<1>1. /\ WriteEvent(verb, name, e)
      /\ terminating' = CASE site = "program" -> FALSE
                          [] site = "clang_stub" -> log' # log
                          [] OTHER -> TRUE
  BY DEF ReportCatch
<1>2. name \in EventNames /\ verb \in {"catch", "terminate"}
  BY NamesType
<1>3. Len(exc) \in Nat /\ Len(exc) <= Len(exc) /\ e \in 0..Len(exc)
  BY Lengths DEF IInv, Ids
<1>4. NewLine(verb, name, e) \in Line
  <2> HIDE DEF name, verb
  <2> QED
    BY <1>2, <1>3 DEF NewLine, Line
<1>5. (verb = "terminate") <=> site # "program"
  OBVIOUS
<1> HIDE DEF name, verb
<1>6. /\ log' \in Seq(Line) /\ oom' \in BOOLEAN /\ (oom => oom')
      /\ \A i \in DOMAIN log' : log'[i].verb \in {"throw", "rethrow", "catch", "terminate"}
                                /\ log'[i].of \in 0..Len(exc)
      /\ \/ /\ log' # log /\ oom' = oom
            /\ Verbs({"terminate"})' = Verbs({"terminate"}) \cup
                 (IF verb = "terminate" THEN {Len(log')} ELSE {})
         \/ log' = log /\ oom'
  BY <1>1, <1>3, <1>4, EventEffect DEF IInv
<1>7. Verbs({"terminate"}) = {} /\ (log' = log => Verbs({"terminate"})' = {})
  <2>1. Verbs({"terminate"}) = {}
    BY DEF IInv, TerminatingInv
  <2> QED
    BY <2>1 DEF Verbs
<1>8. CASE site = "program"
  <2>1. terminating' = FALSE
    BY <1>1, <1>8
  <2>2. Verbs({"terminate"})' = {}
    BY <1>5, <1>6, <1>7, <1>8
  <2>3. TerminatingInv'
    BY <2>1, <2>2 DEF TerminatingInv, TerminateLineIsLast
  <2> QED
    BY <1>6, <1>8, <2>1, <2>2, <2>3
<1>9. CASE site # "program"
  <2>1. terminating' \in BOOLEAN /\ (log' # log => terminating')
    BY <1>1, <1>9
  <2>2. \/ Verbs({"terminate"})' = {Len(log')} /\ log' # log
        \/ Verbs({"terminate"})' = {} /\ oom'
    BY <1>5, <1>6, <1>7, <1>9
  <2>3. TerminatingInv'
    BY <2>1, <2>2 DEF TerminatingInv, TerminateLineIsLast
  <2> QED
    BY <1>6, <1>9, <2>1, <2>2, <2>3
<1> QED
  BY <1>8, <1>9

LEMMA AfterCatchEffect ==
    ASSUME NEW n \in Nat, NEW outer, ContextsOK(outer, n), NEW e \in 1..n,
           NEW site \in CatchSites, AfterCatch(e, site, outer)
    PROVE  /\ ContextsOK(ctx', n) /\ phase' \in {"run", "terminate"}
           /\ At(ctx', "what") = At(outer, "what")
           /\ At(ctx', "terminate") \subseteq At(outer, "terminate") \cup {Len(outer) + 1}
           /\ site = "program" => At(ctx', "terminate") = At(outer, "terminate")
           /\ Len(outer) \in Nat /\ At(outer, "what") \subseteq 1..Len(outer)
<1> DEFINE h == [kind |-> "handler", exc |-> e, site |-> NoName, type |-> NoName]
           z == [kind |-> "terminate", exc |-> 0, site |-> NoName, type |-> NoName]
<1>1. h \in Context /\ ContextOK(h, n) /\ h.kind = "handler"
  BY DEF Context, ContextOK, Kinds, TypeNames
<1>2. z \in Context /\ ContextOK(z, n) /\ z.kind = "terminate"
  BY DEF Context, ContextOK, Kinds, TypeNames
<1>3. \/ phase' = "run" /\ ctx' = Append(outer, h)
      \/ phase' = "run" /\ ctx' = Append(outer, z) /\ site # "program"
      \/ phase' = "terminate" /\ ctx' = outer
  BY DEF AfterCatch
<1> HIDE DEF h, z
<1>4. n <= n
  OBVIOUS
<1>5. /\ ContextsOK(Append(outer, h), n)
      /\ \A k : At(Append(outer, h), k) =
                  At(outer, k) \cup (IF h.kind = k THEN {Len(outer) + 1} ELSE {})
      /\ \A k : At(outer, k) \subseteq 1..Len(outer)
      /\ Len(outer) \in Nat
  BY <1>1, <1>4, PushedContext
<1>6. /\ ContextsOK(Append(outer, z), n)
      /\ \A k : At(Append(outer, z), k) =
                  At(outer, k) \cup (IF z.kind = k THEN {Len(outer) + 1} ELSE {})
  BY <1>2, <1>4, PushedContext
<1>7. /\ At(Append(outer, h), "what") = At(outer, "what")
      /\ At(Append(outer, h), "terminate") = At(outer, "terminate")
  BY <1>1, <1>5
<1>8. /\ At(Append(outer, z), "what") = At(outer, "what")
      /\ At(Append(outer, z), "terminate") = At(outer, "terminate") \cup {Len(outer) + 1}
  BY <1>2, <1>6
<1>9. Len(outer) \in Nat /\ At(outer, "what") \subseteq 1..Len(outer)
  BY <1>5
<1>10. ContextsOK(ctx', n)
  BY <1>3, <1>5, <1>6
<1> QED
  BY <1>3, <1>7, <1>8, <1>9, <1>10

LEMMA BeginCatchInv ==
    ASSUME IInv, NEW site \in CatchSites, phase = "flight", BeginCatch(flight, site)
    PROVE  IInv'
<1> DEFINE e == flight
<1>1. /\ e \in Ids /\ e \in 1..Len(exc) /\ Len(exc) \in Nat /\ Len(exc) <= Len(exc)
      /\ ContextsOK(ctx, Len(exc))
  BY Lengths DEF IInv, TypeInv, Ids
<1>2. /\ flight' = 0 /\ searched' = FALSE /\ UNCHANGED <<exc, ours>>
  BY DEF BeginCatch
<1>3. /\ Ids' = Ids /\ exc' \in Seq(Exception) /\ count \in Seq(Int)
      /\ Len(count) = Len(exc) /\ caught \in Seq(Ids)
      /\ label \in {NoName, Forced, Foreign}
      /\ {guard, terminating, oom} \subseteq BOOLEAN
  BY <1>2, Lengths, Flags DEF IInv, Ids, TypeInv, TypeOK
<1>4. CASE ~IsNative(e) /\ caught # <<>>
  <2>1. /\ phase' = "terminate" /\ NoEvent
        /\ UNCHANGED <<count, caught, ctx, guard, terminating, label>>
    BY <1>4 DEF BeginCatch, tracer
  <2>2. /\ ContextsOK(ctx', Len(exc))
        /\ At(ctx', "what") = At(ctx, "what")
        /\ At(ctx', "terminate") = At(ctx, "terminate")
    BY <1>1, <2>1, SameContexts DEF IInv
  <2>3. TypeInv'
    BY <1>1, <1>2, <1>3, <2>1, <2>2, NoLine, TypeStep DEF IInv
  <2> QED
    BY <1>2, <2>1, <2>2, <2>3, QuietStep DEF NoEvent
<1>5. CASE ~(~IsNative(e) /\ caught # <<>>)
  <2> DEFINE type == CaughtType
  <2>1. /\ RealBeginCatch(e)
        /\ label' = IF Reports("begin_catch") THEN ForeignLabel(e) ELSE label
        /\ IF Reports("begin_catch") /\ IsNative(e) /\ exc[e].type \in WhatTypes
             THEN /\ Enter("what", e, site, type)
                  /\ guard' = TRUE /\ phase' = "run"
                  /\ NoEvent /\ UNCHANGED terminating
             ELSE /\ AfterCatch(e, site, ctx)
                  /\ IF Reports("begin_catch")
                       THEN ReportCatch(e, site, type, ForeignLabel(e))
                       ELSE NoEvent /\ UNCHANGED terminating
                  /\ UNCHANGED guard
    BY <1>5 DEF BeginCatch
  <2>2. /\ count' \in Seq(Int) /\ Len(count') = Len(exc') /\ caught' \in Seq(Ids')
    BY <1>1, <1>2, <1>3, <2>1, BeganCatchType DEF IInv
  <2>3. type \in TypeNames
    BY <1>3, <2>2, CurrentTypeType DEF IInv, CaughtType
  <2>4. label' \in {NoName, Forced, Foreign}
    BY <1>3, <2>1, ForeignLabelType
  <2> HIDE DEF type, e
  <2>5. CASE Reports("begin_catch") /\ IsNative(e) /\ exc[e].type \in WhatTypes
    <3> DEFINE w == [kind |-> "what", exc |-> e, site |-> site, type |-> type]
    <3>1. /\ ctx' = Append(ctx, w) /\ guard' = TRUE /\ phase' = "run"
          /\ NoEvent /\ UNCHANGED terminating
      BY <2>1, <2>5 DEF Enter
    <3>2. w \in Context /\ ContextOK(w, Len(exc)) /\ w.kind = "what"
      BY <1>1, <2>3 DEF Context, ContextOK, Kinds, CatchSites, NoName
    <3> HIDE DEF w
    <3>3. /\ ContextsOK(ctx', Len(exc)) /\ Len(ctx) \in Nat
          /\ \A k : At(ctx', k) = At(ctx, k) \cup (IF w.kind = k THEN {Len(ctx) + 1} ELSE {})
      BY <1>1, <3>1, <3>2, PushedContext
    <3>4. /\ At(ctx', "what") = At(ctx, "what") \cup {Len(ctx) + 1}
          /\ At(ctx', "terminate") = At(ctx, "terminate")
      BY <3>2, <3>3
    <3>5. /\ log' \in Seq(Line) /\ oom' \in BOOLEAN /\ (oom => oom')
          /\ \A i \in DOMAIN log' : log'[i].verb \in {"throw", "rethrow", "catch", "terminate"}
                                    /\ log'[i].of \in 0..Len(exc)
          /\ Verbs({"terminate"})' = Verbs({"terminate"})
      BY <1>1, <3>1, NoLine DEF IInv
    <3>6. TypeInv'
      BY <1>2, <1>3, <2>2, <2>4, <3>1, <3>3, <3>5, TypeStep DEF IInv
    <3>7. ~guard /\ ~terminating
      BY <2>5 DEF Reports
    <3>8. GuardInv'
      BY <3>1, <3>4, <3>7 DEF IInv, GuardInv
    <3> QED
      BY <1>2, <3>1, <3>4, <3>5, <3>6, <3>7, <3>8, LineStep
  <2>6. CASE ~(Reports("begin_catch") /\ IsNative(e) /\ exc[e].type \in WhatTypes)
    <3>1. AfterCatch(e, site, ctx) /\ guard' = guard
      BY <2>1, <2>6
    <3>2. /\ ContextsOK(ctx', Len(exc)) /\ phase' \in {"run", "terminate"}
          /\ At(ctx', "what") = At(ctx, "what")
          /\ At(ctx', "terminate") \subseteq At(ctx, "terminate") \cup {Len(ctx) + 1}
          /\ site = "program" => At(ctx', "terminate") = At(ctx, "terminate")
          /\ Len(ctx) \in Nat /\ At(ctx, "what") \subseteq 1..Len(ctx)
      BY <1>1, <3>1, AfterCatchEffect
    <3>3. CASE Reports("begin_catch")
      <4>1. ~guard /\ ~terminating /\ ReportCatch(e, site, type, ForeignLabel(e))
        BY <2>1, <2>6, <3>3 DEF Reports
      <4>2. /\ log' \in Seq(Line) /\ {oom', terminating'} \subseteq BOOLEAN /\ (oom => oom')
            /\ \A i \in DOMAIN log' : log'[i].verb \in {"throw", "rethrow", "catch", "terminate"}
                                      /\ log'[i].of \in 0..Len(exc)
            /\ TerminatingInv'
            /\ site = "program" => ~terminating' /\ Verbs({"terminate"})' = {}
            /\ site # "program" /\ ~oom' => Verbs({"terminate"})' # {}
        BY <1>1, <2>3, <4>1, ForeignLabelType, ReportCatchEffect
      <4>3. TypeInv'
        BY <1>2, <1>3, <2>2, <2>4, <3>1, <3>2, <4>2, TypeStep DEF IInv
      <4>4. At(ctx, "what") = {} /\ GuardInv'
        BY <3>1, <3>2, <4>1 DEF IInv, GuardInv
      <4>5. RoadInv'
        <5>1. CASE site = "program"
          <6>1. Verbs({"terminate"}) = {}
            BY <4>1 DEF IInv, TerminatingInv
          <6>2. ~oom' /\ ours' = EntryPoints => At(ctx, "terminate") = {}
            BY <1>2, <1>3, <4>2, <4>4, <6>1 DEF IInv, RoadInv
          <6> QED
            BY <3>2, <5>1, <6>2 DEF RoadInv
        <5>2. CASE site # "program"
          BY <4>2, <5>2 DEF RoadInv
        <5> QED
          BY <5>1, <5>2
      <4> QED
        BY <4>2, <4>3, <4>4, <4>5 DEF IInv
    <3>4. CASE ~Reports("begin_catch")
      <4>1. NoEvent /\ terminating' = terminating
        BY <2>1, <2>6, <3>4
      <4>2. /\ log' \in Seq(Line) /\ oom' \in BOOLEAN /\ (oom => oom')
            /\ \A i \in DOMAIN log' : log'[i].verb \in {"throw", "rethrow", "catch", "terminate"}
                                      /\ log'[i].of \in 0..Len(exc)
            /\ Verbs({"terminate"})' = Verbs({"terminate"})
        BY <1>1, <4>1, NoLine DEF IInv
      <4>3. TypeInv'
        BY <1>2, <1>3, <2>2, <2>4, <3>1, <3>2, <4>1, <4>2, TypeStep DEF IInv
      <4>4. GuardInv'
        BY <3>1, <3>2, <4>1 DEF IInv, GuardInv
      <4>5. TerminatingInv'
        BY <4>1, <4>2 DEF IInv, TerminatingInv, TerminateLineIsLast, NoEvent
      <4>6. RoadInv'
        <5> SUFFICES ASSUME ~oom', ours' = EntryPoints, NEW j \in At(ctx', "terminate")
                     PROVE  Verbs({"terminate"})' # {} \/ \E i \in At(ctx', "what") : i < j
          BY DEF RoadInv
        <5>1. CASE j \in At(ctx, "terminate")
          BY <1>2, <3>2, <4>1, <4>2, <5>1 DEF IInv, RoadInv, NoEvent
        <5>2. CASE j = Len(ctx) + 1
          <6>1. guard \/ terminating
            BY <1>2, <3>4 DEF Reports, EntryPoints
          <6>2. CASE guard
            <7>1. PICK i \in At(ctx, "what") : TRUE
              BY <6>2 DEF IInv, GuardInv
            <7>2. i < j
              BY <3>2, <5>2, <7>1
            <7> QED
              BY <3>2, <7>1, <7>2
          <6>3. CASE terminating
            BY <4>1, <4>2, <6>3 DEF IInv, TerminatingInv, NoEvent
          <6> QED
            BY <6>1, <6>2, <6>3
        <5> QED
          BY <3>2, <5>1, <5>2
      <4> QED
        BY <4>3, <4>4, <4>5, <4>6 DEF IInv
    <3> QED
      BY <3>3, <3>4
  <2> QED
    BY <2>5, <2>6
<1> QED
  BY <1>4, <1>5

LEMMA CatchesInv ==
    ASSUME IInv, Catch \/ GiveUp \/ \E boundary \in Boundaries : MeetNoexcept(boundary)
    PROVE  IInv'
<1>1. CASE Catch
  BY <1>1, BeginCatchInv DEF Catch, CatchSites
<1>2. CASE GiveUp
  BY <1>2, BeginCatchInv DEF GiveUp, CatchSites
<1>3. ASSUME NEW boundary \in Boundaries, MeetNoexcept(boundary)
      PROVE  IInv'
  <2>1. CASE boundary = "direct"
    <3>1. /\ phase' = "terminate" /\ phase = "flight"
          /\ UNCHANGED <<runtime, ctx, ours, tracer, log, oom>>
      BY <1>3, <2>1 DEF MeetNoexcept, NoEvent
    <3>2. TypeInv'
      BY <3>1 DEF IInv, TypeInv, TypeOK, Ids, runtime, tracer
    <3> QED
      BY <3>1, <3>2, QuietStep DEF tracer
  <2>2. CASE boundary # "direct"
    <3>1. boundary \in CatchSites
      BY <2>2, InterposersAssumption DEF CatchSites
    <3> QED
      BY <1>3, <2>2, <3>1, BeginCatchInv DEF MeetNoexcept
  <2> QED
    BY <2>1, <2>2
<1> QED
  BY <1>1, <1>2, <1>3

LEMMA BeginCatchGoesOnInv ==
    ASSUME IInv, BeginCatchGoesOn
    PROVE  IInv'
<1> DEFINE w == Last(ctx)
<1>1. /\ In("what") /\ w.site # "throw" /\ guard' = FALSE
      /\ ReportCatch(w.exc, w.site, w.type, NoName)
      /\ AfterCatch(w.exc, w.site, Front(ctx))
      /\ UNCHANGED <<exc, count, caught, flight, searched, ours, label>>
  BY DEF BeginCatchGoesOn, runtime
<1>2. /\ ContextsOK(Front(ctx), Len(exc)) /\ Len(exc) \in Nat
      /\ w.exc \in Ids /\ w.exc \in 1..Len(exc) /\ w.type \in TypeNames
      /\ w.site \in CatchSites
      /\ At(Front(ctx), "what") = {}
      /\ At(Front(ctx), "terminate") = At(ctx, "terminate")
      /\ At(ctx, "what") = {Len(ctx)} /\ At(ctx, "terminate") \subseteq 1..Len(ctx)
      /\ Len(ctx) \in Nat /\ guard /\ ~terminating
  BY <1>1, WhatEnds DEF Ids
<1>3. /\ ContextsOK(ctx', Len(exc)) /\ phase' \in {"run", "terminate"}
      /\ At(ctx', "what") = {}
      /\ w.site = "program" => At(ctx', "terminate") = At(ctx, "terminate")
  BY <1>1, <1>2, AfterCatchEffect
<1>4. NoName \in {NoName, Forced, Foreign}
  OBVIOUS
<1>5. /\ log' \in Seq(Line) /\ {oom', terminating'} \subseteq BOOLEAN /\ (oom => oom')
      /\ \A i \in DOMAIN log' : log'[i].verb \in {"throw", "rethrow", "catch", "terminate"}
                                /\ log'[i].of \in 0..Len(exc)
      /\ TerminatingInv'
      /\ w.site = "program" => ~terminating' /\ Verbs({"terminate"})' = {}
      /\ w.site # "program" /\ ~oom' => Verbs({"terminate"})' # {}
  BY <1>1, <1>2, <1>4, ReportCatchEffect
<1>6. TypeInv'
  <2>1. /\ Ids' = Ids /\ caught' \in Seq(Ids) /\ count' \in Seq(Int) /\ exc' \in Seq(Exception)
        /\ Len(count) = Len(exc) /\ flight \in Ids \cup {0}
    BY <1>1, Lengths DEF IInv, Ids, TypeInv, TypeOK
  <2> QED
    BY <1>1, <1>2, <1>3, <1>5, <2>1, Flags, TypeStep DEF IInv
<1>7. GuardInv'
  BY <1>1, <1>3 DEF GuardInv
<1>8. RoadInv'
  <2>1. CASE w.site = "program"
    <3>1. Verbs({"terminate"}) = {}
      BY <1>2 DEF IInv, TerminatingInv
    <3>2. ~oom' /\ ours' = EntryPoints => At(ctx, "terminate") = {}
      <4> SUFFICES ASSUME ~oom', ours' = EntryPoints, NEW j \in At(ctx, "terminate")
                   PROVE  FALSE
        OBVIOUS
      <4>1. ~oom /\ ours = EntryPoints
        BY <1>1, <1>5, Flags DEF IInv
      <4>2. Len(ctx) < j
        BY <1>2, <3>1, <4>1 DEF IInv, RoadInv
      <4>3. j \in 1..Len(ctx)
        BY <1>2
      <4> QED
        BY <1>2, <4>2, <4>3
    <3> QED
      BY <1>3, <2>1, <3>2 DEF RoadInv
  <2>2. CASE w.site # "program"
    BY <1>5, <2>2 DEF RoadInv
  <2> QED
    BY <2>1, <2>2
<1> QED
  BY <1>5, <1>6, <1>7, <1>8 DEF IInv
-------------------------------------------------------------------------------
(***************************************************************************)
(* std::terminate                                                          *)
(***************************************************************************)
LEMMA CslgTerminateInv ==
    ASSUME IInv, CslgTerminate
    PROVE  IInv'
<1> DEFINE type == CurrentType(caught)
           name == IF type # NoName THEN type ELSE IF Uncaught THEN InFlight ELSE NothingHandled
           handled == IF caught = <<>> THEN 0 ELSE Last(caught)
           z == [kind |-> "terminate", exc |-> 0, site |-> NoName, type |-> NoName]
<1>1. /\ ctx' = Append(ctx, z) /\ phase' = "run" /\ flight' = 0 /\ searched' = FALSE
      /\ UNCHANGED <<exc, count, caught, ours, guard, label>>
      /\ IF Reports("terminate")
           THEN terminating' = TRUE /\ WriteEvent("terminate", name, handled)
           ELSE NoEvent /\ UNCHANGED terminating
  BY DEF CslgTerminate, RunTerminateHandler, Enter
<1>2. /\ Len(exc) \in Nat /\ Len(exc) <= Len(exc) /\ ContextsOK(ctx, Len(exc))
      /\ caught \in Seq(Ids) /\ Len(count) = Len(exc)
      /\ Ids' = Ids /\ count \in Seq(Int) /\ exc' \in Seq(Exception)
  BY <1>1, Lengths DEF IInv, Ids, TypeInv, TypeOK
<1>3. z \in Context /\ ContextOK(z, Len(exc)) /\ z.kind = "terminate"
  BY <1>2 DEF Context, ContextOK, Kinds, TypeNames
<1> HIDE DEF z
<1>4. /\ ContextsOK(ctx', Len(exc)) /\ Len(ctx) \in Nat
      /\ \A k : At(ctx', k) = At(ctx, k) \cup (IF z.kind = k THEN {Len(ctx) + 1} ELSE {})
      /\ \A k : At(ctx, k) \subseteq 1..Len(ctx)
  BY <1>1, <1>2, <1>3, PushedContext
<1>5. /\ At(ctx', "what") = At(ctx, "what")
      /\ At(ctx', "terminate") = At(ctx, "terminate") \cup {Len(ctx) + 1}
      /\ At(ctx, "what") \subseteq 1..Len(ctx)
  BY <1>3, <1>4
<1>6. NewLine("terminate", name, handled) \in Line /\ handled \in 0..Len(exc)
  <2>1. type \in TypeNames
    BY <1>2, CurrentTypeType DEF IInv
  <2> HIDE DEF type
  <2>2. name \in EventNames
    BY <2>1 DEF EventNames
  <2>3. handled \in 0..Len(exc) /\ handled \in Nat
    <3>1. caught # <<>> => Last(caught) \in Ids
      BY <1>2, Popped
    <3> QED
      BY <1>2, <3>1 DEF Ids
  <2> HIDE DEF name, handled
  <2> QED
    BY <2>2, <2>3 DEF NewLine, Line
<1> HIDE DEF name, handled, type
<1>7. GuardInv' /\ TypeInv' /\ TerminatingInv' /\ (oom => oom')
      /\ (terminating' /\ ~oom' => Verbs({"terminate"})' # {})
      /\ (guard \/ ours # EntryPoints \/ terminating')
  <2>1. CASE Reports("terminate")
    <3>1. terminating' = TRUE /\ ~guard /\ ~terminating /\ WriteEvent("terminate", name, handled)
      BY <1>1, <2>1 DEF Reports
    <3>2. /\ log' \in Seq(Line) /\ oom' \in BOOLEAN /\ (oom => oom')
          /\ \A i \in DOMAIN log' : log'[i].verb \in {"throw", "rethrow", "catch", "terminate"}
                                    /\ log'[i].of \in 0..Len(exc)
          /\ \/ /\ log' # log /\ oom' = oom
                /\ Verbs({"terminate"})' = Verbs({"terminate"}) \cup {Len(log')}
             \/ log' = log /\ oom'
      BY <1>2, <1>6, <3>1, EventEffect DEF IInv
    <3>3. Verbs({"terminate"}) = {} /\ (log' = log => Verbs({"terminate"})' = {})
      <4>1. Verbs({"terminate"}) = {}
        BY <3>1 DEF IInv, TerminatingInv
      <4> QED
        BY <4>1 DEF Verbs
    <3>4. \/ Verbs({"terminate"})' = {Len(log')}
          \/ Verbs({"terminate"})' = {} /\ oom'
      BY <3>2, <3>3
    <3>5. TerminatingInv' /\ (~oom' => Verbs({"terminate"})' # {})
      BY <3>1, <3>4 DEF TerminatingInv, TerminateLineIsLast
    <3>6. TypeInv'
      BY <1>1, <1>2, <1>4, <3>1, <3>2, Flags, TypeStep DEF IInv
    <3>7. GuardInv'
      BY <1>1, <1>5, <3>1 DEF IInv, GuardInv
    <3> QED
      BY <3>1, <3>2, <3>5, <3>6, <3>7
  <2>2. CASE ~Reports("terminate")
    <3>1. NoEvent /\ terminating' = terminating
      BY <1>1, <2>2
    <3>2. /\ log' \in Seq(Line) /\ oom' \in BOOLEAN /\ (oom => oom')
          /\ \A i \in DOMAIN log' : log'[i].verb \in {"throw", "rethrow", "catch", "terminate"}
                                    /\ log'[i].of \in 0..Len(exc)
          /\ Verbs({"terminate"})' = Verbs({"terminate"})
      BY <1>2, <3>1, NoLine DEF IInv
    <3>3. TerminatingInv'
      BY <3>1, <3>2 DEF IInv, TerminatingInv, TerminateLineIsLast, NoEvent
    <3>4. TypeInv'
      BY <1>1, <1>2, <1>4, <3>1, <3>2, Flags, TypeStep DEF IInv
    <3>5. GuardInv'
      BY <1>1, <1>5, <3>1 DEF IInv, GuardInv
    <3>6. guard \/ ours # EntryPoints \/ terminating
      BY <2>2 DEF Reports, EntryPoints
    <3> QED
      BY <3>1, <3>2, <3>3, <3>4, <3>5, <3>6 DEF TerminatingInv
  <2> QED
    BY <2>1, <2>2
<1>8. RoadInv'
  <2> SUFFICES ASSUME ~oom', ours' = EntryPoints, ~terminating', NEW j \in At(ctx', "terminate")
               PROVE  \E i \in At(ctx', "what") : i < j
    BY <1>7 DEF RoadInv
  <2>1. guard /\ ~oom
    BY <1>1, <1>7, Flags DEF IInv
  <2>2. CASE j \in At(ctx, "terminate")
    <3>1. Verbs({"terminate"}) = {}
      <4>1. ~terminating
        BY <2>1 DEF IInv, GuardInv
      <4> QED
        BY <4>1 DEF IInv, TerminatingInv
    <3> QED
      BY <1>1, <1>5, <2>1, <2>2, <3>1 DEF IInv, RoadInv
  <2>3. CASE j = Len(ctx) + 1
    <3>1. PICK i \in At(ctx, "what") : TRUE
      BY <2>1 DEF IInv, GuardInv
    <3>2. i < j
      BY <1>4, <1>5, <2>3, <3>1
    <3> QED
      BY <1>5, <3>1, <3>2
  <2> QED
    BY <1>5, <2>2, <2>3
<1> QED
  BY <1>7, <1>8 DEF IInv
-------------------------------------------------------------------------------
LEMMA InitInv == Init => IInv
<1> SUFFICES ASSUME Init PROVE IInv
  OBVIOUS
<1>1. /\ exc \in Seq(Exception) /\ count \in Seq(Int) /\ caught \in Seq(Ids)
      /\ ctx \in Seq(Context) /\ log \in Seq(Line) /\ Len(exc) = 0 /\ Len(count) = 0
  BY EmptySeq DEF Init
<1>2. DOMAIN ctx = {} /\ DOMAIN log = {}
  BY DEF Init
<1>3. TypeInv
  BY <1>1, <1>2 DEF Init, TypeInv, TypeOK, ContextsOK, Exception, Classes, TypeNames
<1>4. (\A k : At(ctx, k) = {}) /\ Verbs({"terminate"}) = {}
  BY <1>2 DEF At, Verbs
<1> QED
  BY <1>3, <1>4
     DEF Init, IInv, GuardInv, TerminatingInv, TerminateLineIsLast, RoadInv

LEMMA NextInv ==
    ASSUME IInv, [Next]_vars
    PROVE  IInv'
<1>1. CASE UNCHANGED vars
  <2>1. TypeInv'
    BY <1>1 DEF vars, runtime, tracer, IInv, TypeInv, TypeOK, Ids
  <2> QED
    BY <1>1, <2>1, QuietStep DEF vars, tracer
<1>2. CASE Next
  BY <1>2, VerifyInterposersInv, CxaThrowInv, RethrowExceptionInv, CxaThrowGoesOnInv,
     CxaRethrowInv, ForeignUnwindInv, CatchesInv, BeginCatchGoesOnInv,
     CallTerminateInv, CslgTerminateInv, UnwindHandlerInv, RunCleanupInv, EndCleanupInv
     DEF Next
<1> QED
  BY <1>1, <1>2

LEMMA Invariance == Spec => []IInv
BY InitInv, NextInv, PTL DEF Spec
-------------------------------------------------------------------------------
(***************************************************************************)
(* The theorems.                                                           *)
(***************************************************************************)
\* The runtime's, the program's and the tracer's state keep their types: only
\* exceptions that were raised are handled, unwound or named by a line.
THEOREM TypeCorrect == Spec => []TypeOK
<1>1. IInv => TypeOK
  BY DEF IInv, TypeInv
<1> QED
  BY <1>1, Invariance, PTL

\* However the program reaches std::terminate, and whatever runs in its terminate
\* handler, one terminate line at most is written and no event follows it.
THEOREM OneTerminateLine == Spec => []TerminateLineIsLast
<1>1. IInv => TerminateLineIsLast
  BY DEF IInv, TerminatingInv
<1> QED
  BY <1>1, Invariance, PTL

\* No road to std::terminate is silent: the terminate handler runs after its line
\* was written, whichever of the interposers the road passed.
THEOREM NoSilentRoad == Spec => []EveryRoadIsLogged
<1>1. IInv => EveryRoadIsLogged
  <2> SUFFICES ASSUME IInv, Inside({"terminate"}), ~oom, ~guard, ours = EntryPoints
               PROVE  Verbs({"terminate"}) # {}
    BY DEF EveryRoadIsLogged
  <2>1. PICK j \in At(ctx, "terminate") : TRUE
    BY DEF Inside, At
  <2>2. At(ctx, "what") = {}
    BY DEF IInv, GuardInv
  <2> QED
    BY <2>1, <2>2 DEF IInv, RoadInv
<1> QED
  BY <1>1, Invariance, PTL

\* While a what() override runs for an interposer, and until the interposer goes
\* on, the log does not change.
THEOREM WhatLeavesNoLine == Spec => WhatIsSilent
<1>1. ASSUME IInv, [Next]_vars
      PROVE  [Inside({"what"}) /\ Inside({"what"})' => log' = log]_vars
  <2> SUFFICES ASSUME Next, Inside({"what"}), Inside({"what"})'
               PROVE  log' = log
    BY <1>1
  <2>1. At(ctx, "what") # {} /\ At(ctx', "what") # {}
    BY DEF Inside, At
  <2>2. guard
    BY <1>1, <2>1 DEF IInv, GuardInv
  <2>3. \A entry : ~Reports(entry)
    BY <2>2 DEF Reports
  <2>4. ~CxaThrowGoesOn
    <3> SUFFICES ASSUME CxaThrowGoesOn PROVE FALSE
      OBVIOUS
    <3>1. In("what") /\ ctx' = Front(ctx)
      BY DEF CxaThrowGoesOn
    <3> QED
      BY <1>1, <2>1, <3>1, WhatEnds
  <2>5. ~BeginCatchGoesOn
    <3> SUFFICES ASSUME BeginCatchGoesOn PROVE FALSE
      OBVIOUS
    <3>1. /\ In("what") /\ Last(ctx).site # "throw"
          /\ AfterCatch(Last(ctx).exc, Last(ctx).site, Front(ctx))
      BY DEF BeginCatchGoesOn
    <3>2. /\ ContextsOK(Front(ctx), Len(exc)) /\ Len(exc) \in Nat
          /\ Last(ctx).exc \in 1..Len(exc) /\ Last(ctx).site \in CatchSites
          /\ At(Front(ctx), "what") = {}
      BY <1>1, <3>1, WhatEnds DEF Ids
    <3>3. At(ctx', "what") = {}
      BY <3>1, <3>2, AfterCatchEffect
    <3> QED
      BY <2>1, <3>3
  <2>6. \A e \in Nat, site \in CatchSites : BeginCatch(e, site) => log' = log
    BY <2>3 DEF BeginCatch, NoEvent
  <2>7. CASE Catch \/ GiveUp \/ \E boundary \in Boundaries : MeetNoexcept(boundary)
    <3>1. flight \in Nat
      <4>1. flight \in 1..Len(exc) \cup {0} /\ Len(exc) \in Nat
        BY <1>1, Lengths DEF IInv, TypeInv, TypeOK, Ids
      <4> QED
        BY <4>1
    <3>2. \A boundary \in Boundaries \ {"direct"} : boundary \in CatchSites
      BY InterposersAssumption DEF CatchSites
    <3> QED
      BY <2>6, <2>7, <3>1, <3>2 DEF Catch, GiveUp, MeetNoexcept, CatchSites, NoEvent
  <2>8. CASE VerifyInterposers \/ (\E t \in Types : CxaThrow(t) \/ RethrowException(t))
    BY <2>3, <2>8 DEF VerifyInterposers, CxaThrow, RethrowException, NoEvent
  <2>9. CASE CxaRethrow \/ (\E class \in {"forced", "foreign"} : ForeignUnwind(class))
    BY <2>3, <2>9 DEF CxaRethrow, ForeignUnwind, NoEvent
  <2>10. CASE CallTerminate \/ CslgTerminate \/ UnwindHandler \/ RunCleanup \/ EndCleanup
              \/ EndHandler \/ End
    BY <2>3, <2>10 DEF CallTerminate, CslgTerminate, UnwindHandler, RunCleanup,
                       EndCleanup, EndHandler, End, NoEvent
  <2> QED
    BY <2>4, <2>5, <2>7, <2>8, <2>9, <2>10 DEF Next
<1> QED
  BY <1>1, Invariance, PTL DEF Spec, WhatIsSilent
===============================================================================
