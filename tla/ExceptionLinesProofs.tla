------------------------- MODULE ExceptionLinesProofs -------------------------
(***************************************************************************)
(* What the event lines of Interposers say: a line names the exception it  *)
(* is about, and the lines of one exception alternate between raised and   *)
(* caught.                                                                 *)
(*                                                                         *)
(* Both rest on how the runtime's stack of handled exceptions follows the  *)
(* handlers the program is in: what a what() override catches is gone from *)
(* that stack when the interposer that called it goes on.                  *)
(***************************************************************************)
EXTENDS InterposersProofs, FiniteSetTheorems

(***************************************************************************)
(* The contexts that hold an exception in the runtime's stack: handlers,   *)
(* and the what() calls of a begin_catch.  A terminate handler never       *)
(* returns, so only the contexts above the last one count.                 *)
(***************************************************************************)
Natives == {e \in Ids : IsNative(e)}
Foreigns == {e \in Ids : ~IsNative(e)}

Holds(c, e) == c.exc = e /\ (c.kind = "handler" \/ (c.kind = "what" /\ c.site # "throw"))
Above(cs, j) == \A i \in At(cs, "terminate") : i < j
Holders(cs, e) == {j \in DOMAIN cs : Holds(cs[j], e) /\ Above(cs, j)}
HeldBy(cs, e) == Cardinality(Holders(cs, e))

\* The destructors that wait for an exception's unwinding to go on.
Carriers(cs, e) == {j \in DOMAIN cs : cs[j].kind = "cleanup" /\ cs[j].exc = e /\ Above(cs, j)}

\* handlerCount is negative while a handled exception is being rethrown.
Mag(n) == IF n < 0 THEN -n ELSE n

\* In the stack on behalf of what runs below the last terminate handler.
Based(ns, cn, cs, e) ==
  IF e \in ns THEN Mag(cn[e]) > HeldBy(cs, e) ELSE Holders(cs, e) = {}

(***************************************************************************)
(* The runtime's stack `ca' of handled exceptions, with the handler counts *)
(* `cn', the native exceptions `ns' and the others `fs'.                   *)
(***************************************************************************)
Stacks(ca, e) == \E k \in DOMAIN ca : ca[k] = e

\* An exception is in it once, a foreign one only at the bottom, and a native
\* one exactly while it has handlers.
Handled(ns, ca, cn) ==
  /\ \A k, l \in DOMAIN ca : ca[k] = ca[l] => k = l
  /\ \A k \in DOMAIN ca : ca[k] \notin ns => k = 1
  /\ \A e \in ns : cn[e] # 0 <=> Stacks(ca, e)

\* Every context that holds a native exception is counted.
CountsCover(ns, cn, cs) == \A e \in ns : HeldBy(cs, e) <= Mag(cn[e])

\* The stack is ordered like the contexts.
StackOrder(ca, cs) ==
  \A k, l \in DOMAIN ca :
    \A i \in Holders(cs, ca[k]), j \in Holders(cs, ca[l]) : i < j => k <= l

\* What is there from below the last terminate handler is at the bottom.
BaseBelow(ns, ca, cn, cs) ==
  \A k, l \in DOMAIN ca :
    k < l /\ Based(ns, cn, cs, ca[l]) => Holders(cs, ca[k]) = {}

\* Since a foreign exception is only caught when nothing else is handled, the
\* rest of the stack belongs to contexts above its handler, even when it has
\* left the stack and only its handler is still there.
ForeignBelow(ns, fs, ca, cn, cs) ==
  \A g \in fs : \A i \in Holders(cs, g) : \A l \in DOMAIN ca :
    ca[l] # g =>
      IF ca[l] \in ns
        THEN ~Based(ns, cn, cs, ca[l]) /\ \A j \in Holders(cs, ca[l]) : i < j
        ELSE \E j \in Holders(cs, ca[l]) : i < j

\* While a destructor runs, what is handled above the exception it interrupts
\* is handled by contexts inside it.
CleanupBelow(ns, ca, cn, cs) ==
  \A k, l \in DOMAIN ca : \A i \in Carriers(cs, ca[k]) :
    k < l => ~Based(ns, cn, cs, ca[l]) /\ \A j \in Holders(cs, ca[l]) : i < j

Stacked(ns, fs, ca, cn, cs) ==
  /\ CountsCover(ns, cn, cs)
  /\ StackOrder(ca, cs)
  /\ BaseBelow(ns, ca, cn, cs)
  /\ ForeignBelow(ns, fs, ca, cn, cs)
  /\ CleanupBelow(ns, ca, cn, cs)

Running == phase \in {"start", "run", "flight"}

\* An exception in flight that is also handled is the innermost one.
FlightInv == phase = "flight" => \A k \in DOMAIN caught : caught[k] = flight => k = Len(caught)

\* Being unwound, here or around a destructor that runs on the way.
Carried(e) == (phase = "flight" /\ flight = e) \/ Carriers(ctx, e) # {}

\* What is being unwound is in no handler of its own, and is unwound once.
UnwindInv ==
  Running => \A e \in Ids :
    /\ Carried(e) => IF IsNative(e) THEN count[e] <= 0 ELSE ~Stacks(caught, e)
    /\ \A i, j \in Carriers(ctx, e) : i = j
    /\ phase = "flight" /\ flight = e => Carriers(ctx, e) = {}

\* While what() runs for a throw, the exception it describes is not yet raised.
ThrowInv ==
  Running => \A w \in At(ctx, "what") : Above(ctx, w) /\ ctx[w].site = "throw" =>
    IsNative(ctx[w].exc) /\ count[ctx[w].exc] = 0 /\ ~Carried(ctx[w].exc)

HandlerInv ==
  /\ Handled(Natives, caught, count)
  /\ Running => Stacked(Natives, Foreigns, caught, count, ctx)
  /\ FlightInv
  /\ UnwindInv
  /\ ThrowInv
-------------------------------------------------------------------------------
(***************************************************************************)
(* What entering and leaving a context does to the contexts that hold and  *)
(* carry exceptions.                                                       *)
(***************************************************************************)
LEMMA HoldersType ==
    ASSUME NEW n \in Nat, NEW cs, ContextsOK(cs, n), NEW e
    PROVE  /\ Len(cs) \in Nat /\ Holders(cs, e) \subseteq 1..Len(cs)
           /\ Carriers(cs, e) \subseteq 1..Len(cs)
           /\ IsFiniteSet(Holders(cs, e)) /\ HeldBy(cs, e) \in Nat
           /\ HeldBy(cs, e) = 0 <=> Holders(cs, e) = {}
<1>1. cs \in Seq(Context) /\ Len(cs) \in Nat /\ DOMAIN cs = 1..Len(cs)
  BY LenProperties DEF ContextsOK
<1>2. Holders(cs, e) \subseteq 1..Len(cs) /\ Carriers(cs, e) \subseteq 1..Len(cs)
  BY <1>1 DEF Holders, Carriers
<1>3. IsFiniteSet(1..Len(cs))
  BY <1>1, FS_Interval
<1>4. IsFiniteSet(Holders(cs, e))
  BY <1>2, <1>3, FS_Subset
<1> QED
  BY <1>1, <1>2, <1>4, FS_CardinalityType, FS_EmptySet DEF HeldBy

\* A context other than a terminate handler is entered.
LEMMA HoldersPushed ==
    ASSUME NEW n \in Nat, NEW m \in Nat, NEW cs, ContextsOK(cs, n), n <= m,
           NEW c \in Context, ContextOK(c, m), c.kind # "terminate", NEW e
    PROVE  /\ Holders(Append(cs, c), e) =
                Holders(cs, e) \cup (IF Holds(c, e) THEN {Len(cs) + 1} ELSE {})
           /\ Carriers(Append(cs, c), e) =
                Carriers(cs, e) \cup
                  (IF c.kind = "cleanup" /\ c.exc = e THEN {Len(cs) + 1} ELSE {})
           /\ HeldBy(Append(cs, c), e) = HeldBy(cs, e) + (IF Holds(c, e) THEN 1 ELSE 0)
<1>1. /\ \A k : At(Append(cs, c), k) =
                  At(cs, k) \cup (IF c.kind = k THEN {Len(cs) + 1} ELSE {})
      /\ \A k : At(cs, k) \subseteq 1..Len(cs)
      /\ Len(cs) \in Nat
  BY PushedContext
<1>2. At(Append(cs, c), "terminate") = At(cs, "terminate")
  BY <1>1
<1>3. cs \in Seq(Context)
  BY DEF ContextsOK
<1>4. /\ DOMAIN cs = 1..Len(cs)
      /\ DOMAIN Append(cs, c) = 1..(Len(cs) + 1)
      /\ \A i \in 1..Len(cs) : Append(cs, c)[i] = cs[i]
      /\ Append(cs, c)[Len(cs) + 1] = c
  BY <1>3, Pushed
<1>5. \A i : i \in 1..(Len(cs) + 1) <=> i \in 1..Len(cs) \/ i = Len(cs) + 1
  BY <1>1
<1>6. Len(cs) + 1 \notin 1..Len(cs)
  BY <1>1
<1>7. \A j : Above(Append(cs, c), j) <=> Above(cs, j)
  BY <1>2 DEF Above
<1>8. Above(cs, Len(cs) + 1)
  <2>1. \A i \in At(cs, "terminate") : i \in 1..Len(cs)
    BY <1>1
  <2> QED
    BY <1>1, <2>1 DEF Above
<1>9. Holders(Append(cs, c), e) =
        Holders(cs, e) \cup (IF Holds(c, e) THEN {Len(cs) + 1} ELSE {})
  BY <1>4, <1>5, <1>6, <1>7, <1>8 DEF Holders
<1>10. Carriers(Append(cs, c), e) =
         Carriers(cs, e) \cup (IF c.kind = "cleanup" /\ c.exc = e THEN {Len(cs) + 1} ELSE {})
  BY <1>4, <1>5, <1>6, <1>7, <1>8 DEF Carriers
<1>11. HeldBy(Append(cs, c), e) = HeldBy(cs, e) + (IF Holds(c, e) THEN 1 ELSE 0)
  <2>1. IsFiniteSet(Holders(cs, e)) /\ HeldBy(cs, e) \in Nat /\ Len(cs) + 1 \notin Holders(cs, e)
    <3>1. IsFiniteSet(Holders(cs, e)) /\ HeldBy(cs, e) \in Nat /\ Holders(cs, e) \subseteq 1..Len(cs)
      BY HoldersType
    <3> QED
      BY <1>6, <3>1
  <2>2. Cardinality(Holders(cs, e) \cup {Len(cs) + 1}) = Cardinality(Holders(cs, e)) + 1
    BY <2>1, FS_AddElement
  <2>3. CASE Holds(c, e)
    BY <1>9, <2>2, <2>3 DEF HeldBy
  <2>4. CASE ~Holds(c, e)
    <3>1. Holders(Append(cs, c), e) = Holders(cs, e)
      BY <1>9, <2>4
    <3> QED
      BY <2>1, <2>4, <3>1 DEF HeldBy
  <2> QED
    BY <2>3, <2>4
<1> QED
  BY <1>9, <1>10, <1>11

\* ... of which a handler carries no exception.
LEMMA HandlerPushed ==
    ASSUME NEW n \in Nat, NEW m \in Nat, NEW cs, ContextsOK(cs, n), n <= m,
           NEW c \in Context, ContextOK(c, m), c.kind # "terminate", c.kind # "cleanup"
    PROVE  \A f : Carriers(Append(cs, c), f) = Carriers(cs, f)
<1>1. ASSUME NEW f
      PROVE  /\ Holders(Append(cs, c), f) =
                  Holders(cs, f) \cup (IF Holds(c, f) THEN {Len(cs) + 1} ELSE {})
             /\ Carriers(Append(cs, c), f) =
                  Carriers(cs, f) \cup
                    (IF c.kind = "cleanup" /\ c.exc = f THEN {Len(cs) + 1} ELSE {})
             /\ HeldBy(Append(cs, c), f) = HeldBy(cs, f) + (IF Holds(c, f) THEN 1 ELSE 0)
  BY HoldersPushed
<1>2. ASSUME NEW f PROVE Carriers(Append(cs, c), f) = Carriers(cs, f)
  BY <1>1
<1> QED
  BY <1>2

\* A context other than a terminate handler is left.
LEMMA HoldersPopped ==
    ASSUME NEW n \in Nat, NEW cs, ContextsOK(cs, n), cs # <<>>,
           Last(cs).kind # "terminate", NEW e
    PROVE  /\ Holders(Front(cs), e) = Holders(cs, e) \ {Len(cs)}
           /\ Carriers(Front(cs), e) = Carriers(cs, e) \ {Len(cs)}
           /\ Len(cs) \in Holders(cs, e) <=> Holds(Last(cs), e)
           /\ Len(cs) \in Carriers(cs, e) <=> Last(cs).kind = "cleanup" /\ Last(cs).exc = e
           /\ HeldBy(Front(cs), e) = HeldBy(cs, e) - (IF Holds(Last(cs), e) THEN 1 ELSE 0)
           /\ Holds(Last(cs), e) => HeldBy(cs, e) > 0
<1>1. /\ \A k : At(Front(cs), k) = At(cs, k) \ {Len(cs)}
      /\ \A k : Last(cs).kind = k <=> Len(cs) \in At(cs, k)
      /\ \A k : At(cs, k) \subseteq 1..Len(cs)
      /\ Len(cs) \in Nat \ {0}
  BY PoppedContext
<1>2. Len(cs) \notin At(cs, "terminate") /\ At(Front(cs), "terminate") = At(cs, "terminate") \ {Len(cs)}
  BY <1>1
<1>3. cs \in Seq(Context)
  BY DEF ContextsOK
<1>4. /\ DOMAIN cs = 1..Len(cs)
      /\ DOMAIN Front(cs) = 1..(Len(cs) - 1)
      /\ \A i \in 1..(Len(cs) - 1) : Front(cs)[i] = cs[i]
      /\ Last(cs) = cs[Len(cs)]
  BY <1>3, Popped
<1>5. \A i : i \in 1..Len(cs) <=> i \in 1..(Len(cs) - 1) \/ i = Len(cs)
  BY <1>1
<1>6. Len(cs) \notin 1..(Len(cs) - 1)
  BY <1>1
<1>7. \A j : Above(Front(cs), j) <=> Above(cs, j)
  BY <1>2 DEF Above
<1>8. Above(cs, Len(cs))
  <2>1. \A i \in At(cs, "terminate") : i \in 1..Len(cs) /\ i # Len(cs)
    BY <1>1, <1>2
  <2> QED
    BY <1>1, <2>1 DEF Above
<1>9. Holders(Front(cs), e) = Holders(cs, e) \ {Len(cs)}
  BY <1>4, <1>5, <1>6, <1>7 DEF Holders
<1>10. Carriers(Front(cs), e) = Carriers(cs, e) \ {Len(cs)}
  BY <1>4, <1>5, <1>6, <1>7 DEF Carriers
<1>11. Len(cs) \in Holders(cs, e) <=> Holds(Last(cs), e)
  BY <1>4, <1>5, <1>8 DEF Holders
<1>12. Len(cs) \in Carriers(cs, e) <=> Last(cs).kind = "cleanup" /\ Last(cs).exc = e
  BY <1>4, <1>5, <1>8 DEF Carriers
<1>13. /\ HeldBy(Front(cs), e) = HeldBy(cs, e) - (IF Holds(Last(cs), e) THEN 1 ELSE 0)
       /\ Holds(Last(cs), e) => HeldBy(cs, e) > 0
  <2>1. /\ IsFiniteSet(Holders(cs, e)) /\ HeldBy(cs, e) \in Nat
        /\ HeldBy(cs, e) = 0 <=> Holders(cs, e) = {}
    BY HoldersType
  <2>2. CASE Holds(Last(cs), e)
    <3>1. Len(cs) \in Holders(cs, e)
      BY <1>11, <2>2
    <3>2. Cardinality(Holders(cs, e) \ {Len(cs)}) = Cardinality(Holders(cs, e)) - 1
      BY <2>1, <3>1, FS_RemoveElement
    <3> QED
      BY <1>9, <2>1, <2>2, <3>1, <3>2 DEF HeldBy
  <2>3. CASE ~Holds(Last(cs), e)
    <3>1. Holders(Front(cs), e) = Holders(cs, e)
      BY <1>9, <1>11, <2>3
    <3> QED
      BY <2>1, <2>3, <3>1 DEF HeldBy
  <2> QED
    BY <2>2, <2>3
<1> QED
  BY <1>9, <1>10, <1>11, <1>12, <1>13

\* A terminate handler is entered: nothing below it returns.
LEMMA HoldersBuried ==
    ASSUME NEW n \in Nat, NEW cs, ContextsOK(cs, n),
           NEW c \in Context, ContextOK(c, n), c.kind = "terminate", NEW e
    PROVE  /\ Holders(Append(cs, c), e) = {} /\ Carriers(Append(cs, c), e) = {}
           /\ HeldBy(Append(cs, c), e) = 0
<1>0. n <= n
  OBVIOUS
<1>1. /\ \A k : At(Append(cs, c), k) =
                  At(cs, k) \cup (IF c.kind = k THEN {Len(cs) + 1} ELSE {})
      /\ Len(cs) \in Nat
  BY <1>0, PushedContext
<1>2. Len(cs) + 1 \in At(Append(cs, c), "terminate")
  BY <1>1
<1>3. cs \in Seq(Context)
  BY DEF ContextsOK
<1>4. DOMAIN Append(cs, c) = 1..(Len(cs) + 1) /\ Append(cs, c)[Len(cs) + 1] = c
  BY <1>3, Pushed
<1>5. \A j \in 1..(Len(cs) + 1) : ~(Len(cs) + 1 < j)
  BY <1>1
<1>6. \A j \in DOMAIN Append(cs, c) : ~Above(Append(cs, c), j)
  BY <1>2, <1>4, <1>5 DEF Above
<1> QED
  BY <1>6, FS_EmptySet DEF Holders, Carriers, HeldBy
-------------------------------------------------------------------------------
(***************************************************************************)
(* What the runtime does to its stack, in the order of the contexts.  All  *)
(* a proof needs to know of the contexts `cs' are these numbers; `m' is    *)
(* above all of them.                                                      *)
(***************************************************************************)
Contexts(cs, m) ==
  \A e : /\ HeldBy(cs, e) \in Nat
         /\ HeldBy(cs, e) = 0 <=> Holders(cs, e) = {}
         /\ \A i \in Holders(cs, e) \cup Carriers(cs, e) : i \in Nat /\ i < m

LEMMA ContextNumbers ==
    ASSUME NEW n \in Nat, NEW cs, ContextsOK(cs, n)
    PROVE  Contexts(cs, Len(cs) + 1)
<1> SUFFICES ASSUME NEW e
             PROVE  /\ HeldBy(cs, e) \in Nat
                    /\ HeldBy(cs, e) = 0 <=> Holders(cs, e) = {}
                    /\ \A i \in Holders(cs, e) \cup Carriers(cs, e) : i \in Nat /\ i < Len(cs) + 1
  BY DEF Contexts
<1>1. /\ Len(cs) \in Nat /\ Holders(cs, e) \subseteq 1..Len(cs)
      /\ Carriers(cs, e) \subseteq 1..Len(cs)
      /\ HeldBy(cs, e) \in Nat
      /\ HeldBy(cs, e) = 0 <=> Holders(cs, e) = {}
  BY HoldersType
<1>2. \A i \in 1..Len(cs) : i \in Nat /\ i < Len(cs) + 1
  BY <1>1
<1> QED
  BY <1>1, <1>2

\* An exception outside the stack has no handlers.
LEMMA NotStacked ==
    ASSUME NEW m, NEW cs, Contexts(cs, m), NEW ns, NEW ca, NEW cn,
           Handled(ns, ca, cn), CountsCover(ns, cn, cs), NEW e \in ns, ~Stacks(ca, e)
    PROVE  cn[e] = 0 /\ HeldBy(cs, e) = 0 /\ Holders(cs, e) = {} /\ ~Based(ns, cn, cs, e)
<1>1. cn[e] = 0
  BY DEF Handled
<1>2. HeldBy(cs, e) \in Nat /\ HeldBy(cs, e) <= Mag(0)
  BY <1>1 DEF CountsCover, Contexts
<1>3. HeldBy(cs, e) = 0
  BY <1>2 DEF Mag
<1> QED
  BY <1>1, <1>3 DEF Based, Mag, Contexts

(***************************************************************************)
(* __cxa_begin_catch: e goes on top, at position p, where it may already   *)
(* be.                                                                     *)
(***************************************************************************)
OnTop(ca, e, ca1, p) ==
  /\ p \in Nat /\ p \in DOMAIN ca1 /\ ca1[p] = e
  /\ \A k \in DOMAIN ca1 : k \in Nat \ {0} /\ (k # p => k < p /\ k \in DOMAIN ca /\ ca1[k] # e)
  /\ \A k \in DOMAIN ca : k \in DOMAIN ca1 /\ ca1[k] = ca[k]

\* It has one handler more.
CountedUp(ns, cn, e, cn1) ==
  /\ \A f \in ns : cn[f] \in Int
  /\ e \in ns => cn1[e] = Mag(cn[e]) + 1
  /\ \A f \in ns : f # e => cn1[f] = cn[f]

\* The context entered for it, at m, is the innermost one.
HeldToo(cs, e, m, cs1) ==
  /\ \A f : f # e => Holders(cs1, f) = Holders(cs, f) /\ HeldBy(cs1, f) = HeldBy(cs, f)
  /\ Holders(cs1, e) = Holders(cs, e) \cup {m} /\ HeldBy(cs1, e) = HeldBy(cs, e) + 1
  /\ \A f : Carriers(cs1, f) = Carriers(cs, f)

LEMMA CaughtHandled ==
    ASSUME NEW ns, NEW ca, NEW cn, Handled(ns, ca, cn),
           NEW e, NEW ca1, NEW p, OnTop(ca, e, ca1, p), e \in ns \/ p = 1,
           NEW cn1, CountedUp(ns, cn, e, cn1)
    PROVE  Handled(ns, ca1, cn1)
<1> USE DEF CountedUp
<1>1. /\ p \in Nat /\ p \in DOMAIN ca1 /\ ca1[p] = e
      /\ \A k \in DOMAIN ca1 : k # p => k < p /\ k \in DOMAIN ca /\ ca1[k] # e
      /\ \A k \in DOMAIN ca : k \in DOMAIN ca1 /\ ca1[k] = ca[k]
  BY DEF OnTop
<1>2. \A k, l \in DOMAIN ca1 : ca1[k] = ca1[l] => k = l
  BY <1>1 DEF Handled
<1>3. \A k \in DOMAIN ca1 : ca1[k] \notin ns => k = 1
  BY <1>1 DEF Handled
<1>4. e \in ns => cn1[e] # 0
  BY DEF Mag
<1>5. ASSUME NEW f \in ns PROVE cn1[f] # 0 <=> Stacks(ca1, f)
  <2>1. CASE f = e
    BY <1>1, <1>4, <2>1 DEF Stacks
  <2>2. CASE f # e
    <3>1. Stacks(ca1, f) <=> Stacks(ca, f)
      BY <1>1, <2>2 DEF Stacks
    <3> QED
      BY <2>2, <3>1 DEF Handled
  <2> QED
    BY <2>1, <2>2
<1> QED
  BY <1>2, <1>3, <1>5 DEF Handled

LEMMA CaughtStacked ==
    ASSUME NEW m \in Nat, NEW cs, Contexts(cs, m),
           NEW ns, NEW fs, ns \cap fs = {}, NEW ca, NEW cn,
           Handled(ns, ca, cn), Stacked(ns, fs, ca, cn, cs),
           NEW e, NEW ca1, NEW p, OnTop(ca, e, ca1, p), e \in ns \/ p = 1,
           NEW cn1, CountedUp(ns, cn, e, cn1), NEW cs1, HeldToo(cs, e, m, cs1)
    PROVE  Stacked(ns, fs, ca1, cn1, cs1)
<1> USE DEF CountedUp, HeldToo
<1>1. /\ p \in Nat /\ p \in DOMAIN ca1 /\ ca1[p] = e
      /\ \A k \in DOMAIN ca1 : k \in Nat
      /\ \A k \in DOMAIN ca1 : k # p => k < p /\ k \in DOMAIN ca /\ ca1[k] # e
      /\ \A k \in DOMAIN ca : k \in DOMAIN ca1 /\ ca1[k] = ca[k]
  BY DEF OnTop
<1>2. \A f : HeldBy(cs, f) \in Nat /\ \A i \in Holders(cs, f) \cup Carriers(cs, f) : i \in Nat /\ i < m
  BY DEF Contexts
<1>3. \A f : f # e => (Based(ns, cn1, cs1, f) <=> Based(ns, cn, cs, f))
  <2> SUFFICES ASSUME NEW f, f # e PROVE Based(ns, cn1, cs1, f) <=> Based(ns, cn, cs, f)
    OBVIOUS
  <2>1. Holders(cs1, f) = Holders(cs, f) /\ HeldBy(cs1, f) = HeldBy(cs, f)
    OBVIOUS
  <2>2. f \in ns => cn1[f] = cn[f]
    OBVIOUS
  <2> QED
    BY <2>1, <2>2 DEF Based
<1>4. e \in ns => (Based(ns, cn1, cs1, e) <=> Based(ns, cn, cs, e))
  <2> SUFFICES ASSUME e \in ns PROVE Mag(cn1[e]) > HeldBy(cs1, e) <=> Mag(cn[e]) > HeldBy(cs, e)
    BY DEF Based
  <2>1. cn[e] \in Int /\ cn1[e] = Mag(cn[e]) + 1 /\ HeldBy(cs, e) \in Nat /\ HeldBy(cs1, e) = HeldBy(cs, e) + 1
    BY <1>2
  <2> QED
    BY <2>1 DEF Mag
<1>5. e \notin ns => ~Based(ns, cn1, cs1, e)
  BY DEF Based
<1>6. CountsCover(ns, cn1, cs1)
  <2> SUFFICES ASSUME NEW f \in ns PROVE HeldBy(cs1, f) <= Mag(cn1[f])
    BY DEF CountsCover
  <2>1. cn[f] \in Int /\ HeldBy(cs, f) \in Nat /\ HeldBy(cs, f) <= Mag(cn[f])
    BY <1>2 DEF Stacked, CountsCover
  <2>2. CASE f = e
    BY <2>1, <2>2 DEF Mag
  <2>3. CASE f # e
    BY <2>1, <2>3
  <2> QED
    BY <2>2, <2>3
<1>7. CASE e \in ns /\ ~Stacks(ca, e)
  <2>1. Holders(cs, e) = {} /\ ~Based(ns, cn, cs, e)
    BY <1>7, NotStacked DEF Stacked
  <2>2. Holders(cs1, e) = {m} /\ ~Based(ns, cn1, cs1, e)
    BY <1>4, <1>7, <2>1
  <2>3. StackOrder(ca1, cs1)
    BY <1>1, <1>2, <2>2 DEF Stacked, StackOrder
  <2>4. BaseBelow(ns, ca1, cn1, cs1)
    BY <1>1, <1>3, <2>2 DEF Stacked, BaseBelow
  <2>5. ForeignBelow(ns, fs, ca1, cn1, cs1)
    <3> SUFFICES ASSUME NEW g \in fs, NEW i \in Holders(cs1, g), NEW l \in DOMAIN ca1, ca1[l] # g
                 PROVE  IF ca1[l] \in ns
                          THEN ~Based(ns, cn1, cs1, ca1[l]) /\ \A j \in Holders(cs1, ca1[l]) : i < j
                          ELSE \E j \in Holders(cs1, ca1[l]) : i < j
      BY DEF ForeignBelow
    <3>1. g # e /\ i \in Holders(cs, g)
      BY <1>7
    <3>2. CASE l = p
      BY <1>1, <1>2, <1>7, <2>2, <3>1, <3>2
    <3>3. CASE l # p
      BY <1>1, <1>3, <3>1, <3>3 DEF Stacked, ForeignBelow
    <3> QED
      BY <3>2, <3>3
  <2>6. CleanupBelow(ns, ca1, cn1, cs1)
    BY <1>1, <1>2, <1>3, <2>2 DEF Stacked, CleanupBelow
  <2> QED
    BY <1>6, <2>3, <2>4, <2>5, <2>6 DEF Stacked
<1>8. CASE e \in ns /\ Stacks(ca, e)
  <2>1. p \in DOMAIN ca /\ ca[p] = e
    BY <1>1, <1>8 DEF Stacks
  <2>2. \A k : k \in DOMAIN ca1 <=> k \in DOMAIN ca
    BY <1>1, <2>1
  <2>3. \A k \in DOMAIN ca : ca1[k] = ca[k] /\ k \in Nat /\ k <= p /\ (ca[k] = e => k = p)
    BY <1>1
  <2>4. Based(ns, cn1, cs1, e) <=> Based(ns, cn, cs, e)
    BY <1>4, <1>8
  <2>5. StackOrder(ca1, cs1)
    <3> SUFFICES ASSUME NEW k \in DOMAIN ca, NEW l \in DOMAIN ca,
                        NEW i \in Holders(cs1, ca[k]), NEW j \in Holders(cs1, ca[l]), i < j
                 PROVE  k <= l
      BY <2>2, <2>3 DEF StackOrder
    <3>1. CASE l = p
      BY <2>3, <3>1
    <3>2. CASE l # p
      <4>1. j \in Holders(cs, ca[l]) /\ j < m /\ j \in Nat
        BY <1>2, <2>3, <3>2
      <4>2. i \in Holders(cs, ca[k])
        BY <4>1
      <4> QED
        BY <4>1, <4>2 DEF Stacked, StackOrder
    <3> QED
      BY <3>1, <3>2
  <2>6. BaseBelow(ns, ca1, cn1, cs1)
    <3> SUFFICES ASSUME NEW k \in DOMAIN ca, NEW l \in DOMAIN ca, k < l, Based(ns, cn1, cs1, ca[l])
                 PROVE  Holders(cs1, ca[k]) = {}
      BY <2>2, <2>3 DEF BaseBelow
    <3>1. Based(ns, cn, cs, ca[l]) /\ ca[k] # e
      BY <1>3, <2>3, <2>4
    <3> QED
      BY <3>1 DEF Stacked, BaseBelow
  <2>7. ForeignBelow(ns, fs, ca1, cn1, cs1)
    <3> SUFFICES ASSUME NEW g \in fs, NEW i \in Holders(cs1, g), NEW l \in DOMAIN ca, ca[l] # g
                 PROVE  IF ca[l] \in ns
                          THEN ~Based(ns, cn1, cs1, ca[l]) /\ \A j \in Holders(cs1, ca[l]) : i < j
                          ELSE \E j \in Holders(cs1, ca[l]) : i < j
      BY <2>2, <2>3 DEF ForeignBelow
    <3>1. g # e /\ i \in Holders(cs, g)
      BY <1>8
    <3>2. IF ca[l] \in ns
            THEN ~Based(ns, cn, cs, ca[l]) /\ \A j \in Holders(cs, ca[l]) : i < j
            ELSE \E j \in Holders(cs, ca[l]) : i < j
      BY <3>1 DEF Stacked, ForeignBelow
    <3>3. CASE ca[l] = e
      BY <1>2, <1>8, <2>4, <3>1, <3>2, <3>3
    <3>4. CASE ca[l] # e
      BY <1>3, <3>2, <3>4
    <3> QED
      BY <3>3, <3>4
  <2>8. CleanupBelow(ns, ca1, cn1, cs1)
    <3> SUFFICES ASSUME NEW k \in DOMAIN ca, NEW l \in DOMAIN ca, NEW i \in Carriers(cs, ca[k]), k < l
                 PROVE  ~Based(ns, cn1, cs1, ca[l]) /\ \A j \in Holders(cs1, ca[l]) : i < j
      BY <2>2, <2>3 DEF CleanupBelow
    <3>1. ~Based(ns, cn, cs, ca[l]) /\ \A j \in Holders(cs, ca[l]) : i < j
      BY DEF Stacked, CleanupBelow
    <3>2. CASE ca[l] = e
      BY <1>2, <2>4, <3>1, <3>2
    <3>3. CASE ca[l] # e
      BY <1>3, <3>1, <3>3
    <3> QED
      BY <3>2, <3>3
  <2> QED
    BY <1>6, <2>5, <2>6, <2>7, <2>8 DEF Stacked
<1>9. CASE e \notin ns
  <2>1. \A k \in DOMAIN ca1 : k = p
    BY <1>9 DEF OnTop
  <2>2. \A k \in Nat : ~(k < k) /\ k <= k
    OBVIOUS
  <2>3. StackOrder(ca1, cs1) /\ BaseBelow(ns, ca1, cn1, cs1) /\ CleanupBelow(ns, ca1, cn1, cs1)
    BY <1>1, <2>1, <2>2 DEF StackOrder, BaseBelow, CleanupBelow
  <2>4. ForeignBelow(ns, fs, ca1, cn1, cs1)
    <3> SUFFICES ASSUME NEW g \in fs, NEW i \in Holders(cs1, g), g # e
                 PROVE  \E j \in Holders(cs1, e) : i < j
      BY <1>1, <1>9, <2>1 DEF ForeignBelow
    <3>1. i < m /\ m \in Holders(cs1, e)
      BY <1>2
    <3> QED
      BY <3>1
  <2> QED
    BY <1>6, <2>3, <2>4 DEF Stacked
<1> QED
  BY <1>7, <1>8, <1>9

(***************************************************************************)
(* A step that takes nothing new on the stack and enters no handler leaves *)
(* it in order.                                                            *)
(***************************************************************************)
LEMMA StackedShrunk ==
    ASSUME NEW ns, NEW fs, NEW ca, NEW cn, NEW cs, Stacked(ns, fs, ca, cn, cs),
           NEW ns1, NEW fs1, NEW ca1, NEW cn1, NEW cs1, CountsCover(ns1, cn1, cs1),
           \A k \in DOMAIN ca1 : /\ k \in DOMAIN ca /\ ca1[k] = ca[k]
                                 /\ ca[k] \in ns1 <=> ca[k] \in ns
                                 /\ Based(ns1, cn1, cs1, ca[k]) => Based(ns, cn, cs, ca[k])
                                 /\ ca[k] \in ns \/ Holders(cs1, ca[k]) = Holders(cs, ca[k]),
           \A f : Holders(cs1, f) \subseteq Holders(cs, f) /\ Carriers(cs1, f) \subseteq Carriers(cs, f),
           \A g \in fs1 : Holders(cs1, g) # {} => g \in fs
    PROVE  Stacked(ns1, fs1, ca1, cn1, cs1)
<1>1. StackOrder(ca1, cs1)
  BY DEF Stacked, StackOrder
<1>2. BaseBelow(ns1, ca1, cn1, cs1)
  BY DEF Stacked, BaseBelow
<1>3. ForeignBelow(ns1, fs1, ca1, cn1, cs1)
  <2> SUFFICES ASSUME NEW g \in fs1, NEW i \in Holders(cs1, g), NEW l \in DOMAIN ca1, ca1[l] # g
               PROVE  IF ca1[l] \in ns1
                        THEN ~Based(ns1, cn1, cs1, ca1[l]) /\ \A j \in Holders(cs1, ca1[l]) : i < j
                        ELSE \E j \in Holders(cs1, ca1[l]) : i < j
    BY DEF ForeignBelow
  <2>1. g \in fs /\ i \in Holders(cs, g) /\ l \in DOMAIN ca /\ ca1[l] = ca[l] /\ ca[l] # g
    OBVIOUS
  <2>2. IF ca[l] \in ns
          THEN ~Based(ns, cn, cs, ca[l]) /\ \A j \in Holders(cs, ca[l]) : i < j
          ELSE \E j \in Holders(cs, ca[l]) : i < j
    BY <2>1 DEF Stacked, ForeignBelow
  <2>3. CASE ca[l] \in ns
    BY <2>1, <2>2, <2>3
  <2>4. CASE ca[l] \notin ns
    BY <2>1, <2>2, <2>4
  <2> QED
    BY <2>3, <2>4
<1>4. CleanupBelow(ns1, ca1, cn1, cs1)
  <2> SUFFICES ASSUME NEW k \in DOMAIN ca1, NEW l \in DOMAIN ca1, NEW i \in Carriers(cs1, ca1[k]), k < l
               PROVE  ~Based(ns1, cn1, cs1, ca1[l]) /\ \A j \in Holders(cs1, ca1[l]) : i < j
    BY DEF CleanupBelow
  <2>1. k \in DOMAIN ca /\ l \in DOMAIN ca /\ ca1[l] = ca[l] /\ i \in Carriers(cs, ca[k])
    OBVIOUS
  <2>2. ~Based(ns, cn, cs, ca[l]) /\ \A j \in Holders(cs, ca[l]) : i < j
    BY <2>1 DEF Stacked, CleanupBelow
  <2> QED
    BY <2>1, <2>2
<1> QED
  BY <1>1, <1>2, <1>3, <1>4 DEF Stacked

\* Nothing below a terminate handler returns.
LEMMA StackedBuried ==
    ASSUME NEW ns, NEW fs, NEW ca, NEW cn, NEW cs, \A e \in ns : cn[e] \in Int,
           \A e : Holders(cs, e) = {} /\ Carriers(cs, e) = {} /\ HeldBy(cs, e) = 0
    PROVE  Stacked(ns, fs, ca, cn, cs)
<1>1. CountsCover(ns, cn, cs)
  BY DEF CountsCover, Mag
<1> QED
  BY <1>1 DEF Stacked, StackOrder, BaseBelow, ForeignBelow, CleanupBelow

\* A destructor runs for an exception that, if it is handled, is so innermost.
LEMMA StackedCarried ==
    ASSUME NEW ns, NEW fs, NEW ca, NEW cn, NEW cs, Stacked(ns, fs, ca, cn, cs),
           NEW x, \A k \in DOMAIN ca : k \in Int /\ (ca[k] = x => \A l \in DOMAIN ca : l <= k),
           NEW cs1, \A f : Holders(cs1, f) = Holders(cs, f) /\ HeldBy(cs1, f) = HeldBy(cs, f),
           \A f : f # x => Carriers(cs1, f) = Carriers(cs, f)
    PROVE  Stacked(ns, fs, ca, cn, cs1)
<1>1. \A f : Based(ns, cn, cs1, f) <=> Based(ns, cn, cs, f)
  <2> TAKE f
  <2>1. Holders(cs1, f) = Holders(cs, f) /\ HeldBy(cs1, f) = HeldBy(cs, f)
    OBVIOUS
  <2> QED
    BY <2>1 DEF Based
<1>2. CountsCover(ns, cn, cs1)
  BY DEF Stacked, CountsCover
<1>3. StackOrder(ca, cs1) /\ BaseBelow(ns, ca, cn, cs1)
  BY <1>1 DEF Stacked, StackOrder, BaseBelow
<1>4. ForeignBelow(ns, fs, ca, cn, cs1)
  BY <1>1 DEF Stacked, ForeignBelow
<1>5. CleanupBelow(ns, ca, cn, cs1)
  <2> SUFFICES ASSUME NEW k \in DOMAIN ca, NEW l \in DOMAIN ca, NEW i \in Carriers(cs1, ca[k]), k < l
               PROVE  ~Based(ns, cn, cs1, ca[l]) /\ \A j \in Holders(cs1, ca[l]) : i < j
    BY DEF CleanupBelow
  <2>0. k \in Int /\ l \in Int
    OBVIOUS
  <2>1. ca[k] # x
    BY <2>0
  <2>2. i \in Carriers(cs, ca[k])
    BY <2>1
  <2> QED
    BY <1>1, <2>2 DEF Stacked, CleanupBelow
<1> QED
  BY <1>2, <1>3, <1>4, <1>5 DEF Stacked

(***************************************************************************)
(* The innermost handler is the one of the exception the runtime handles   *)
(* innermost: when x's handler at q is above all others, x is on top.      *)
(***************************************************************************)
LEMMA TopIsInnermost ==
    ASSUME NEW m, NEW cs, Contexts(cs, m),
           NEW ns, NEW fs, ns \cap fs = {}, NEW ca, NEW cn,
           Handled(ns, ca, cn), \A f \in ns : cn[f] \in Int, Stacked(ns, fs, ca, cn, cs),
           NEW x \in ns \cup fs, NEW q \in Holders(cs, x),
           \A f : \A i \in Holders(cs, f) : i <= q,
           \A f : q \in Holders(cs, f) => f = x,
           NEW p \in DOMAIN ca, \A k \in DOMAIN ca : k \in Nat /\ k <= p, ca[p] \in ns
    PROVE  x = ca[p]
<1> DEFINE e == ca[p]
<1> SUFFICES ASSUME x # e PROVE FALSE
  OBVIOUS
<1>1. \A f : HeldBy(cs, f) \in Nat /\ (HeldBy(cs, f) = 0 <=> Holders(cs, f) = {})
  BY DEF Contexts
<1>2. \A f : \A i \in Holders(cs, f) : i \in Nat
  BY DEF Contexts
<1>3. cn[e] # 0 /\ cn[e] \in Int
  BY DEF Handled, Stacks
<1>4. ~Based(ns, cn, cs, e) => Holders(cs, e) # {}
  <2> SUFFICES ASSUME ~Based(ns, cn, cs, e) PROVE HeldBy(cs, e) # 0
    BY <1>1
  <2>1. ~(Mag(cn[e]) > HeldBy(cs, e))
    BY DEF Based
  <2> QED
    BY <1>1, <1>3, <2>1 DEF Mag
<1>5. CASE x \in ns
  <2>1. HeldBy(cs, x) # 0 /\ HeldBy(cs, x) \in Nat /\ HeldBy(cs, x) <= Mag(cn[x]) /\ cn[x] \in Int
    BY <1>1, <1>5 DEF Stacked, CountsCover
  <2>2. cn[x] # 0
    BY <2>1 DEF Mag
  <2>3. PICK k \in DOMAIN ca : ca[k] = x
    BY <1>5, <2>2 DEF Handled, Stacks
  <2>4. k < p
    BY <2>3
  <2>5. ~Based(ns, cn, cs, e)
    BY <2>3, <2>4 DEF Stacked, BaseBelow
  <2>6. PICK j \in Holders(cs, e) : TRUE
    BY <1>4, <2>5
  <2>7. j < q
    BY <1>2, <2>6
  <2>8. p <= k
    BY <2>3, <2>6, <2>7 DEF Stacked, StackOrder
  <2> QED
    BY <2>4, <2>8
<1>6. CASE x \in fs
  <2>1. ~Based(ns, cn, cs, e) /\ \A j \in Holders(cs, e) : q < j
    BY <1>6 DEF Stacked, ForeignBelow
  <2>2. PICK j \in Holders(cs, e) : q < j
    BY <1>4, <2>1
  <2> QED
    BY <1>2, <2>2
<1> QED
  BY <1>5, <1>6
-------------------------------------------------------------------------------
(***************************************************************************)
(* The same, of the state.                                                 *)
(***************************************************************************)
LEMMA StackFacts ==
    ASSUME TypeInv
    PROVE  /\ Natives \cap Foreigns = {} /\ Natives \cup Foreigns = Ids
           /\ \A e \in Ids : e \in Natives <=> IsNative(e)
           /\ Len(caught) \in Nat /\ DOMAIN caught = 1..Len(caught)
           /\ \A k \in DOMAIN caught : k \in Nat \ {0} /\ k <= Len(caught) /\ caught[k] \in Ids
           /\ caught # <<>> => /\ Len(caught) \in DOMAIN caught
                               /\ Last(caught) = caught[Len(caught)] /\ Last(caught) \in Ids
           /\ caught = <<>> => Len(caught) = 0 /\ DOMAIN caught = {}
           /\ \A f \in Natives : f \in Ids /\ count[f] \in Int
           /\ Len(exc) \in Nat /\ ContextsOK(ctx, Len(exc))
           /\ Contexts(ctx, Len(ctx) + 1)
<1>1. /\ Len(exc) \in Nat /\ caught \in Seq(Ids) /\ ContextsOK(ctx, Len(exc))
      /\ \A e \in Ids : count[e] \in Int
  BY Lengths DEF TypeInv
<1>2. Natives \cap Foreigns = {} /\ Natives \cup Foreigns = Ids /\ \A e \in Ids : e \in Natives <=> IsNative(e)
  BY DEF Natives, Foreigns
<1>3. Len(caught) \in Nat /\ DOMAIN caught = 1..Len(caught)
  BY <1>1, LenProperties
<1>4. \A k \in 1..Len(caught) : caught[k] \in Ids
  BY <1>1, <1>3, ElementOfSeq
<1>5. caught # <<>> => Len(caught) \in 1..Len(caught) /\ Last(caught) = caught[Len(caught)] /\ Last(caught) \in Ids
  <2> SUFFICES ASSUME caught # <<>>
               PROVE  Len(caught) \in 1..Len(caught) /\ Last(caught) = caught[Len(caught)] /\ Last(caught) \in Ids
    OBVIOUS
  <2>1. Len(caught) \in Nat \ {0} /\ Last(caught) = caught[Len(caught)] /\ Last(caught) \in Ids
    BY <1>1, Popped
  <2> QED
    BY <2>1
<1>6. caught = <<>> => Len(caught) = 0
  BY <1>1, EmptySeq
<1>7. \A k \in 1..Len(caught) : k \in Nat \ {0} /\ k <= Len(caught)
  BY <1>3
<1>8. Contexts(ctx, Len(ctx) + 1)
  BY <1>1, ContextNumbers
<1>9. caught = <<>> => DOMAIN caught = {}
  BY <1>3, <1>6
<1> QED
  BY <1>1, <1>2, <1>3, <1>4, <1>5, <1>6, <1>7, <1>8, <1>9

\* The innermost context is left.
LEMMA LeftFacts ==
    ASSUME TypeInv, ctx # <<>>, Last(ctx).kind # "terminate"
    PROVE  /\ Len(ctx) \in Nat /\ Last(ctx).exc \in Ids
           /\ \A f : /\ Holders(Front(ctx), f) = Holders(ctx, f) \ {Len(ctx)}
                     /\ Carriers(Front(ctx), f) = Carriers(ctx, f) \ {Len(ctx)}
                     /\ Len(ctx) \in Holders(ctx, f) <=> Holds(Last(ctx), f)
                     /\ Len(ctx) \in Carriers(ctx, f) <=> Last(ctx).kind = "cleanup" /\ Last(ctx).exc = f
                     /\ HeldBy(Front(ctx), f) = HeldBy(ctx, f) - (IF Holds(Last(ctx), f) THEN 1 ELSE 0)
                     /\ \A i \in Holders(ctx, f) : i \in Nat /\ i <= Len(ctx)
<1>1. Len(exc) \in Nat /\ ContextsOK(ctx, Len(exc))
  BY StackFacts
<1>2. Len(ctx) \in Nat \ {0} /\ Last(ctx) \in Context /\ ContextOK(Last(ctx), Len(exc))
  BY <1>1, PoppedContext
<1>3. Last(ctx).exc \in Ids
  BY <1>2 DEF ContextOK, Ids
<1>4. \A f : \A i \in Holders(ctx, f) : i \in Nat /\ i <= Len(ctx)
  <2>1. \A i \in 1..Len(ctx) : i \in Nat /\ i <= Len(ctx)
    BY <1>2
  <2> QED
    BY <1>1, <2>1, HoldersType
<1>5. ASSUME NEW f
      PROVE  /\ Holders(Front(ctx), f) = Holders(ctx, f) \ {Len(ctx)}
             /\ Carriers(Front(ctx), f) = Carriers(ctx, f) \ {Len(ctx)}
             /\ Len(ctx) \in Holders(ctx, f) <=> Holds(Last(ctx), f)
             /\ Len(ctx) \in Carriers(ctx, f) <=> Last(ctx).kind = "cleanup" /\ Last(ctx).exc = f
             /\ HeldBy(Front(ctx), f) = HeldBy(ctx, f) - (IF Holds(Last(ctx), f) THEN 1 ELSE 0)
  BY <1>1, HoldersPopped
<1> QED
  BY <1>2, <1>3, <1>4, <1>5

\* __cxa_end_catch, when the innermost handler is left.
LEMMA EndCatchStacked ==
    ASSUME TypeInv, Handled(Natives, caught, count),
           Stacked(Natives, Foreigns, caught, count, ctx),
           ctx # <<>>, Last(ctx).kind = "handler", EndCatch, ctx' = Front(ctx)
    PROVE  /\ Handled(Natives, caught', count')
           /\ Stacked(Natives, Foreigns, caught', count', ctx')
           /\ \A k \in DOMAIN caught' : /\ k \in DOMAIN caught /\ caught'[k] = caught[k]
                                        /\ k = Len(caught) => k = Len(caught')
           /\ \A f \in Natives : count[f] = 0 => count'[f] = 0
           /\ \A f \in Natives : count'[f] > 0 => count[f] > 0
           /\ \A f \in Natives : count[f] <= 0 => count'[f] <= 0
           /\ \A f \in Natives : Based(Natives, count', ctx', f) => Based(Natives, count, ctx, f)
           /\ \A k \in DOMAIN caught' : ~IsNative(caught[k]) =>
                Holders(ctx', caught[k]) = Holders(ctx, caught[k])
<1> DEFINE q == Len(ctx)
           x == Last(ctx).exc
           p == Len(caught)
           e == Last(caught)
<1>1. /\ Natives \cap Foreigns = {} /\ Natives \cup Foreigns = Ids
      /\ \A f \in Ids : f \in Natives <=> IsNative(f)
      /\ p \in Nat /\ DOMAIN caught = 1..p
      /\ \A k \in DOMAIN caught : k \in Nat \ {0} /\ k <= p /\ caught[k] \in Ids
      /\ caught # <<>> => p \in DOMAIN caught /\ e = caught[p] /\ e \in Ids
      /\ \A f \in Natives : f \in Ids /\ count[f] \in Int
      /\ Contexts(ctx, q + 1)
  BY StackFacts
<1>2. /\ q \in Nat /\ x \in Ids
      /\ \A f : /\ Holders(ctx', f) = Holders(ctx, f) \ {q}
                /\ Carriers(ctx', f) = Carriers(ctx, f) \ {q}
                /\ q \in Holders(ctx, f) <=> Holds(Last(ctx), f)
                /\ HeldBy(ctx', f) = HeldBy(ctx, f) - (IF Holds(Last(ctx), f) THEN 1 ELSE 0)
                /\ \A i \in Holders(ctx, f) : i \in Nat /\ i <= q
  BY LeftFacts
<1>3. \A f : Holds(Last(ctx), f) <=> f = x
  BY DEF Holds
<1>4. /\ \A f : f # x => Holders(ctx', f) = Holders(ctx, f) /\ HeldBy(ctx', f) = HeldBy(ctx, f)
      /\ q \in Holders(ctx, x) /\ HeldBy(ctx', x) = HeldBy(ctx, x) - 1
      /\ \A f : q \in Holders(ctx, f) => f = x
      /\ \A f : HeldBy(ctx, f) \in Nat
  <2>1. \A f : HeldBy(ctx, f) \in Nat
    BY <1>1 DEF Contexts
  <2>2. \A f : f # x => Holders(ctx', f) = Holders(ctx, f)
    BY <1>2, <1>3
  <2>3. \A f : f # x => HeldBy(ctx', f) = HeldBy(ctx, f)
    BY <1>2, <1>3, <2>1
  <2> QED
    BY <1>2, <1>3, <2>1, <2>2, <2>3
<1>5. \A f : /\ Holders(ctx', f) \subseteq Holders(ctx, f) /\ Carriers(ctx', f) \subseteq Carriers(ctx, f)
  BY <1>2
<1> HIDE DEF q, x, p, e
<1>6. CASE caught = <<>> \/ ~IsNative(e)
  <2>1. caught' = <<>> /\ count' = count
    BY <1>6 DEF EndCatch, e
  <2>2. DOMAIN caught' = {}
    BY <2>1
  <2>3. \A k \in DOMAIN caught : caught[k] \notin Natives
    <3> SUFFICES ASSUME NEW k \in DOMAIN caught PROVE caught[k] \notin Natives
      OBVIOUS
    <3>1. caught # <<>> /\ p \in DOMAIN caught /\ caught[p] \notin Natives
      <4>1. caught # <<>>
        OBVIOUS
      <4> QED
        BY <1>1, <1>6, <4>1
    <3>2. p = 1
      BY <3>1 DEF Handled
    <3>3. k = p
      BY <1>1, <3>2
    <3> QED
      BY <3>1, <3>3
  <2>4. \A f \in Natives : count[f] = 0
    BY <2>3 DEF Handled, Stacks
  <2>5. Handled(Natives, caught', count')
    BY <2>1, <2>2, <2>4 DEF Handled, Stacks
  <2>6. CountsCover(Natives, count', ctx')
    <3> SUFFICES ASSUME NEW f \in Natives PROVE HeldBy(ctx', f) <= Mag(count[f])
      BY <2>1 DEF CountsCover
    <3>1. HeldBy(ctx, f) <= Mag(count[f]) /\ HeldBy(ctx, f) \in Nat /\ count[f] \in Int
      BY <1>1, <1>4 DEF Stacked, CountsCover
    <3>2. HeldBy(ctx', f) <= HeldBy(ctx, f) /\ HeldBy(ctx', f) \in Int
      BY <1>4, <3>1
    <3>3. Mag(count[f]) \in Int
      BY <3>1 DEF Mag
    <3> QED
      BY <3>1, <3>2, <3>3
  <2>7. \A g \in Foreigns : Holders(ctx', g) # {} => g \in Foreigns
    OBVIOUS
  <2>8. Stacked(Natives, Foreigns, caught', count', ctx')
    BY <1>5, <2>2, <2>6, <2>7, StackedShrunk
  <2>9. ASSUME NEW f \in Natives PROVE ~Based(Natives, count', ctx', f)
    <3>1. ContextsOK(ctx', Len(exc)) /\ Len(exc) \in Nat
      BY StackFacts, PoppedContext
    <3>2. HeldBy(ctx', f) \in Nat
      BY <3>1, HoldersType
    <3>3. Mag(count'[f]) = 0
      BY <2>1, <2>4 DEF Mag
    <3>4. ~(0 > HeldBy(ctx', f))
      BY <3>2
    <3> QED
      BY <3>3, <3>4 DEF Based
  <2> QED
    BY <2>1, <2>2, <2>5, <2>8, <2>9
<1>7. CASE caught # <<>> /\ IsNative(e)
  <2> DEFINE v == IF count[e] < 0 THEN count[e] + 1 ELSE count[e] - 1
  <2>1. p \in DOMAIN caught /\ e = caught[p] /\ e \in Natives
    BY <1>1, <1>7
  <2>2. x = caught[p]
    <3>1. \A k \in DOMAIN caught : k \in Nat /\ k <= p
      BY <1>1
    <3>2. x \in Natives \cup Foreigns /\ \A f : \A i \in Holders(ctx, f) : i <= q
      BY <1>1, <1>2
    <3>3. caught[p] \in Natives
      BY <2>1
    <3> QED
      BY <1>1, <1>4, <2>1, <3>1, <3>2, <3>3, TopIsInnermost
  <2>3. x = e
    BY <2>1, <2>2
  <2>4. count[e] \in Int /\ count[e] # 0 /\ e \in DOMAIN count
    BY <1>1, <2>1, Lengths DEF Handled, Stacks
  <2>5. /\ v \in Int /\ Mag(count[e]) \in Nat /\ Mag(v) = Mag(count[e]) - 1
        /\ count[e] <= 0 => v <= 0
        /\ v > 0 => count[e] > 0
        /\ v = 0 <=> Mag(count[e]) = 1
    BY <2>4 DEF Mag
  <2>6. count' = [count EXCEPT ![e] = v] /\ caught' = IF v = 0 THEN Front(caught) ELSE caught
    BY <1>7 DEF EndCatch, e
  <2> HIDE DEF v
  <2>7. count'[e] = v /\ \A f \in Ids : f # e => count'[f] = count[f]
    BY <2>4, <2>6, Lengths
  <2>8. /\ \A k \in DOMAIN caught' : k \in DOMAIN caught /\ caught'[k] = caught[k] /\ (k = p => k = Len(caught'))
        /\ \A k \in DOMAIN caught : k \in DOMAIN caught' <=> (k # p \/ v # 0)
    <3>1. CASE v = 0
      <4>1. caught' = Front(caught) /\ caught \in Seq(Ids)
        BY <2>6, <3>1, Lengths
      <4>2. /\ DOMAIN caught' = 1..(p - 1)
            /\ \A i \in 1..(p - 1) : caught'[i] = caught[i]
        BY <1>7, <4>1, Popped DEF p
      <4>3. \A k : k \in 1..(p - 1) <=> k \in 1..p /\ k # p
        BY <1>1
      <4> QED
        BY <1>1, <3>1, <4>2, <4>3
    <3>2. CASE v # 0
      <4>1. caught' = caught
        BY <2>6, <3>2
      <4> QED
        BY <3>2, <4>1 DEF p
    <3> QED
      BY <3>1, <3>2
  <2>9. Handled(Natives, caught', count')
    <3>1. /\ \A k, l \in DOMAIN caught' : caught'[k] = caught'[l] => k = l
          /\ \A k \in DOMAIN caught' : caught'[k] \notin Natives => k = 1
      BY <2>8 DEF Handled
    <3>2. ASSUME NEW f \in Natives PROVE count'[f] # 0 <=> Stacks(caught', f)
      <4>1. CASE f # e
        <5>1. Stacks(caught', f) <=> Stacks(caught, f)
          BY <2>1, <2>8, <4>1 DEF Stacks
        <5> QED
          BY <1>1, <2>7, <4>1, <5>1 DEF Handled
      <4>2. CASE f = e
        <5>1. \A k \in DOMAIN caught : caught[k] = e => k = p
          BY <2>1 DEF Handled
        <5>2. Stacks(caught', e) <=> v # 0
          BY <2>1, <2>8, <5>1 DEF Stacks
        <5> QED
          BY <2>7, <4>2, <5>2
      <4> QED
        BY <4>1, <4>2
    <3> QED
      BY <3>1, <3>2 DEF Handled
  <2>10. HeldBy(ctx, e) \in Nat /\ HeldBy(ctx, e) <= Mag(count[e]) /\ HeldBy(ctx', e) = HeldBy(ctx, e) - 1
    BY <1>4, <2>1, <2>3 DEF Stacked, CountsCover
  <2>11. CountsCover(Natives, count', ctx')
    <3> SUFFICES ASSUME NEW f \in Natives PROVE HeldBy(ctx', f) <= Mag(count'[f])
      BY DEF CountsCover
    <3>1. CASE f = e
      <4>1. HeldBy(ctx, e) - 1 <= Mag(v)
        BY <2>5, <2>10
      <4> QED
        BY <2>7, <2>10, <3>1, <4>1
    <3>2. CASE f # e
      <4>1. HeldBy(ctx', f) = HeldBy(ctx, f) /\ count'[f] = count[f]
        BY <1>1, <1>4, <2>3, <2>7, <3>2
      <4> QED
        BY <4>1 DEF Stacked, CountsCover
    <3> QED
      BY <3>1, <3>2
  <2>12. \A f \in Ids : Based(Natives, count', ctx', f) => Based(Natives, count, ctx, f)
    <3> SUFFICES ASSUME NEW f \in Ids, Based(Natives, count', ctx', f) PROVE Based(Natives, count, ctx, f)
      OBVIOUS
    <3>1. CASE f = e
      <4>1. Mag(v) > HeldBy(ctx', e)
        BY <2>1, <2>7, <3>1 DEF Based
      <4>2. Mag(count[e]) > HeldBy(ctx, e)
        BY <2>5, <2>10, <4>1
      <4> QED
        BY <2>1, <3>1, <4>2 DEF Based
    <3>2. CASE f # e
      <4>1. HeldBy(ctx', f) = HeldBy(ctx, f) /\ count'[f] = count[f] /\ Holders(ctx', f) = Holders(ctx, f)
        BY <1>1, <1>4, <2>3, <2>7, <3>2
      <4> QED
        BY <4>1 DEF Based
    <3> QED
      BY <3>1, <3>2
  <2>13. \A k \in DOMAIN caught' : /\ k \in DOMAIN caught /\ caught'[k] = caught[k]
                                   /\ caught[k] \in Natives <=> caught[k] \in Natives
                                   /\ Based(Natives, count', ctx', caught[k]) =>
                                        Based(Natives, count, ctx, caught[k])
                                   /\ caught[k] \in Natives \/ Holders(ctx', caught[k]) = Holders(ctx, caught[k])
    BY <1>1, <1>4, <2>1, <2>3, <2>8, <2>12
  <2>14. \A g \in Foreigns : Holders(ctx', g) # {} => g \in Foreigns
    OBVIOUS
  <2>15. Stacked(Natives, Foreigns, caught', count', ctx')
    BY <1>5, <2>11, <2>13, <2>14, StackedShrunk
  <2>16. \A f \in Natives : /\ count[f] = 0 => count'[f] = 0
                            /\ count'[f] > 0 => count[f] > 0
                            /\ count[f] <= 0 => count'[f] <= 0
    <3> SUFFICES ASSUME NEW f \in Natives
                 PROVE  /\ count[f] = 0 => count'[f] = 0
                        /\ count'[f] > 0 => count[f] > 0
                        /\ count[f] <= 0 => count'[f] <= 0
      OBVIOUS
    <3>1. CASE f = e
      BY <2>4, <2>5, <2>7, <3>1
    <3>2. CASE f # e
      BY <1>1, <2>7, <3>2
    <3> QED
      BY <3>1, <3>2
  <2>17. \A f \in Natives : Based(Natives, count', ctx', f) => Based(Natives, count, ctx, f)
    BY <1>1, <2>12
  <2>18. \A k \in DOMAIN caught' : ~IsNative(caught[k]) =>
           Holders(ctx', caught[k]) = Holders(ctx, caught[k])
    BY <1>1, <2>13
  <2> QED
    BY <2>8, <2>9, <2>15, <2>16, <2>17, <2>18 DEF p
<1> QED
  BY <1>6, <1>7
-------------------------------------------------------------------------------
(***************************************************************************)
(* The steps.  First those that raise an exception: nothing handles or     *)
(* carries it yet.                                                         *)
(***************************************************************************)
LEMMA NewException ==
    ASSUME TypeInv, NEW c \in Classes, NEW t \in TypeNames, Raise(c, t), NEW n, n = Len(exc')
    PROVE  /\ n \notin Ids /\ Ids' = Ids \cup {n}
           /\ exc'[n].class = c /\ exc'[n].type = t /\ count'[n] = 0
           /\ \A e \in Ids : exc'[e] = exc[e] /\ count'[e] = count[e]
           /\ Holders(ctx, n) = {} /\ Carriers(ctx, n) = {} /\ HeldBy(ctx, n) = 0
           /\ ~Stacks(caught, n)
<1> DEFINE x == [class |-> c, type |-> t]
<1>1. x \in Exception /\ 0 \in Int /\ x.class = c /\ x.type = t
  BY DEF Exception
<1>2. /\ exc \in Seq(Exception) /\ count \in Seq(Int) /\ Len(count) = Len(exc) /\ Len(exc) \in Nat
  BY Lengths DEF TypeInv, TypeOK
<1>3. exc' = Append(exc, x) /\ count' = Append(count, 0)
  BY DEF Raise
<1> HIDE DEF x
<1>4. /\ Len(exc') = Len(exc) + 1
      /\ \A i \in 1..Len(exc) : exc'[i] = exc[i]
      /\ exc'[Len(exc) + 1] = x
  BY <1>1, <1>2, <1>3, Pushed
<1>5. /\ \A i \in 1..Len(exc) : count'[i] = count[i]
      /\ count'[Len(exc) + 1] = 0
  BY <1>1, <1>2, <1>3, Pushed
<1>6. n \notin Ids /\ Ids' = Ids \cup {n}
  BY <1>2, <1>4 DEF Ids
<1>7. ~Stacks(caught, n)
  BY <1>6, StackFacts DEF Stacks
<1>8. \A j \in DOMAIN ctx : ctx[j].kind # "terminate" => ctx[j].exc # n
  <2>1. ContextsOK(ctx, Len(exc))
    BY StackFacts
  <2> QED
    BY <1>6, <2>1 DEF ContextsOK, ContextOK, Ids
<1>9. Holders(ctx, n) = {} /\ Carriers(ctx, n) = {}
  BY <1>8 DEF Holders, Holds, Carriers
<1>10. HeldBy(ctx, n) = 0
  BY <1>9, StackFacts DEF Contexts
<1> QED
  BY <1>1, <1>4, <1>5, <1>6, <1>7, <1>9, <1>10 DEF Ids

LEMMA RaisedStack ==
    ASSUME TypeInv, NEW c \in Classes, NEW t \in TypeNames, Raise(c, t),
           Handled(Natives, caught, count), caught' = caught,
           Stacked(Natives, Foreigns, caught, count, ctx),
           \A f : /\ Holders(ctx', f) = Holders(ctx, f) /\ HeldBy(ctx', f) = HeldBy(ctx, f)
                  /\ Carriers(ctx', f) = Carriers(ctx, f)
    PROVE  /\ Handled(Natives', caught', count')
           /\ Stacked(Natives', Foreigns', caught', count', ctx')
<1> DEFINE n == Len(exc')
<1>1. /\ n \notin Ids /\ Ids' = Ids \cup {n} /\ count'[n] = 0
      /\ \A e \in Ids : exc'[e] = exc[e] /\ count'[e] = count[e]
      /\ HeldBy(ctx, n) = 0 /\ ~Stacks(caught, n) /\ Holders(ctx, n) = {}
  BY NewException
<1> HIDE DEF n
<1>2. /\ \A e \in Ids : e \in Natives' <=> e \in Natives
      /\ \A e \in Ids : e \in Foreigns' <=> e \in Foreigns
      /\ Natives' \subseteq Ids \cup {n} /\ Foreigns' \subseteq Ids \cup {n}
      /\ Natives \subseteq Ids
  BY <1>1 DEF Natives, Foreigns, IsNative
<1>3. \A k \in DOMAIN caught : caught[k] \in Ids
  BY StackFacts
<1>4. Handled(Natives', caught', count')
  <2>1. /\ \A k, l \in DOMAIN caught' : caught'[k] = caught'[l] => k = l
        /\ \A k \in DOMAIN caught' : caught'[k] \notin Natives' => k = 1
    BY <1>2, <1>3 DEF Handled
  <2>2. ASSUME NEW f \in Natives' PROVE count'[f] # 0 <=> Stacks(caught', f)
    BY <1>1, <1>2 DEF Handled
  <2> QED
    BY <2>1, <2>2 DEF Handled
<1>5. CountsCover(Natives', count', ctx')
  <2> SUFFICES ASSUME NEW f \in Natives' PROVE HeldBy(ctx', f) <= Mag(count'[f])
    BY DEF CountsCover
  <2>1. CASE f = n
    BY <1>1, <2>1 DEF Mag
  <2>2. CASE f # n
    <3>1. f \in Natives /\ count'[f] = count[f] /\ HeldBy(ctx', f) = HeldBy(ctx, f)
      BY <1>1, <1>2, <2>2
    <3> QED
      BY <3>1 DEF Stacked, CountsCover
  <2> QED
    BY <2>1, <2>2
<1>6. \A f \in Ids : Based(Natives', count', ctx', f) => Based(Natives, count, ctx, f)
  <2> SUFFICES ASSUME NEW f \in Ids, Based(Natives', count', ctx', f) PROVE Based(Natives, count, ctx, f)
    OBVIOUS
  <2>1. /\ f \in Natives' <=> f \in Natives
        /\ count'[f] = count[f] /\ HeldBy(ctx', f) = HeldBy(ctx, f) /\ Holders(ctx', f) = Holders(ctx, f)
    BY <1>1, <1>2
  <2> QED
    BY <2>1 DEF Based
<1>7. \A k \in DOMAIN caught' : /\ k \in DOMAIN caught /\ caught'[k] = caught[k]
                                /\ caught[k] \in Natives' <=> caught[k] \in Natives
                                /\ Based(Natives', count', ctx', caught[k]) =>
                                     Based(Natives, count, ctx, caught[k])
                                /\ caught[k] \in Natives \/ Holders(ctx', caught[k]) = Holders(ctx, caught[k])
  BY <1>2, <1>3, <1>6
<1>8. \A g \in Foreigns' : Holders(ctx', g) # {} => g \in Foreigns
  BY <1>1, <1>2
<1>9. \A f : Holders(ctx', f) \subseteq Holders(ctx, f) /\ Carriers(ctx', f) \subseteq Carriers(ctx, f)
  OBVIOUS
<1>10. Stacked(Natives', Foreigns', caught', count', ctx')
  BY <1>5, <1>7, <1>8, <1>9, StackedShrunk
<1> QED
  BY <1>4, <1>10

\* What a raised exception leaves alone: whatever was handled or carried.
LEMMA RaisedFlies ==
    ASSUME TypeInv, HandlerInv, phase = "run", NEW c \in Classes, NEW t \in TypeNames, Raise(c, t),
           caught' = caught, ctx' = ctx, Fly(Len(exc'), searched')
    PROVE  HandlerInv'
<1> DEFINE n == Len(exc')
<1>0. Running /\ Running'
  BY DEF Running, Fly
<1>1. /\ n \notin Ids /\ Ids' = Ids \cup {n} /\ count'[n] = 0
      /\ \A e \in Ids : exc'[e] = exc[e] /\ count'[e] = count[e]
      /\ ~Stacks(caught, n) /\ Carriers(ctx, n) = {}
  BY NewException
<1>2. flight' = n /\ phase' = "flight"
  BY DEF Fly
<1> HIDE DEF n
<1>3. /\ Handled(Natives', caught', count')
      /\ Stacked(Natives', Foreigns', caught', count', ctx')
  BY <1>0, RaisedStack DEF HandlerInv
<1>4. FlightInv'
  BY <1>1, <1>2 DEF FlightInv, Stacks
<1>5. \A e \in Ids : (IsNative(e)' <=> IsNative(e)) /\ (Carried(e)' => Carried(e))
  BY <1>1, <1>2 DEF IsNative, Carried
<1>6. UnwindInv'
  <2> SUFFICES ASSUME NEW e \in Ids'
               PROVE  /\ Carried(e)' => IF IsNative(e)' THEN count'[e] <= 0 ELSE ~Stacks(caught', e)
                      /\ \A i, j \in Carriers(ctx', e) : i = j
                      /\ phase' = "flight" /\ flight' = e => Carriers(ctx', e) = {}
    BY DEF UnwindInv
  <2>1. CASE e = n
    BY <1>1, <2>1
  <2>2. CASE e \in Ids
    <3>1. /\ Carried(e) => IF IsNative(e) THEN count[e] <= 0 ELSE ~Stacks(caught, e)
          /\ \A i, j \in Carriers(ctx, e) : i = j
      BY <1>0, <2>2 DEF HandlerInv, UnwindInv
    <3> QED
      BY <1>1, <1>2, <1>5, <2>2, <3>1
  <2> QED
    BY <1>1, <2>1, <2>2
<1>7. ThrowInv'
  <2> SUFFICES ASSUME NEW w \in At(ctx, "what"), Above(ctx, w), ctx[w].site = "throw"
               PROVE  IsNative(ctx[w].exc)' /\ count'[ctx[w].exc] = 0 /\ ~Carried(ctx[w].exc)'
    BY DEF ThrowInv
  <2>1. IsNative(ctx[w].exc) /\ count[ctx[w].exc] = 0 /\ ~Carried(ctx[w].exc)
    BY <1>0 DEF HandlerInv, ThrowInv
  <2>2. ctx[w].exc \in Ids
    BY StackFacts DEF At, ContextsOK, ContextOK, Ids
  <2>3. exc'[ctx[w].exc] = exc[ctx[w].exc] /\ count'[ctx[w].exc] = 0
    BY <1>1, <2>1, <2>2
  <2>4. ~Carried(ctx[w].exc)'
    BY <1>1, <1>2, <2>1, <2>2 DEF Carried
  <2> QED
    BY <2>1, <2>3, <2>4 DEF IsNative
<1> QED
  BY <1>3, <1>4, <1>6, <1>7 DEF HandlerInv

(***************************************************************************)
(* What entering and leaving contexts does to those that wait for what().  *)
(***************************************************************************)
LEMMA EnteredFacts ==
    ASSUME TypeInv, NEW m \in Nat, Len(exc) <= m, NEW c \in Context, ContextOK(c, m),
           c.kind # "terminate"
    PROVE  /\ Len(ctx) \in Nat
           /\ \A f : /\ Holders(Append(ctx, c), f) =
                          Holders(ctx, f) \cup (IF Holds(c, f) THEN {Len(ctx) + 1} ELSE {})
                     /\ Carriers(Append(ctx, c), f) =
                          Carriers(ctx, f) \cup
                            (IF c.kind = "cleanup" /\ c.exc = f THEN {Len(ctx) + 1} ELSE {})
                     /\ HeldBy(Append(ctx, c), f) = HeldBy(ctx, f) + (IF Holds(c, f) THEN 1 ELSE 0)
           /\ \A w \in At(Append(ctx, c), "what") :
                \/ /\ w \in At(ctx, "what") /\ Append(ctx, c)[w] = ctx[w]
                   /\ Above(Append(ctx, c), w) <=> Above(ctx, w)
                \/ c.kind = "what" /\ w = Len(ctx) + 1 /\ Append(ctx, c)[w] = c
<1>1. ContextsOK(ctx, Len(exc)) /\ Len(exc) \in Nat
  BY StackFacts
<1>2. /\ \A k : At(Append(ctx, c), k) =
                  At(ctx, k) \cup (IF c.kind = k THEN {Len(ctx) + 1} ELSE {})
      /\ \A k : At(ctx, k) \subseteq 1..Len(ctx)
      /\ Len(ctx) \in Nat
  BY <1>1, PushedContext
<1>3. ASSUME NEW f
      PROVE  /\ Holders(Append(ctx, c), f) =
                  Holders(ctx, f) \cup (IF Holds(c, f) THEN {Len(ctx) + 1} ELSE {})
             /\ Carriers(Append(ctx, c), f) =
                  Carriers(ctx, f) \cup
                    (IF c.kind = "cleanup" /\ c.exc = f THEN {Len(ctx) + 1} ELSE {})
             /\ HeldBy(Append(ctx, c), f) = HeldBy(ctx, f) + (IF Holds(c, f) THEN 1 ELSE 0)
  BY <1>1, HoldersPushed
<1>4. /\ \A i \in 1..Len(ctx) : Append(ctx, c)[i] = ctx[i]
      /\ Append(ctx, c)[Len(ctx) + 1] = c
  BY <1>1, Pushed DEF ContextsOK
<1>5. \A w : Above(Append(ctx, c), w) <=> Above(ctx, w)
  BY <1>2 DEF Above
<1>6. \A w \in At(Append(ctx, c), "what") : w \in At(ctx, "what") \/ (c.kind = "what" /\ w = Len(ctx) + 1)
  BY <1>2
<1>7. \A w \in At(ctx, "what") : w \in 1..Len(ctx)
  BY <1>2
<1> QED
  BY <1>2, <1>3, <1>4, <1>5, <1>6, <1>7

LEMMA LeftWhats ==
    ASSUME TypeInv, ctx # <<>>, Last(ctx).kind # "terminate"
    PROVE  \A w \in At(Front(ctx), "what") :
             /\ w \in At(ctx, "what") /\ Front(ctx)[w] = ctx[w]
             /\ Above(Front(ctx), w) <=> Above(ctx, w)
<1>1. ContextsOK(ctx, Len(exc)) /\ Len(exc) \in Nat
  BY StackFacts
<1>2. /\ \A k : At(Front(ctx), k) = At(ctx, k) \ {Len(ctx)}
      /\ \A k : Last(ctx).kind = k <=> Len(ctx) \in At(ctx, k)
  BY <1>1, PoppedContext
<1>3. /\ DOMAIN Front(ctx) = 1..(Len(ctx) - 1)
      /\ \A i \in 1..(Len(ctx) - 1) : Front(ctx)[i] = ctx[i]
  BY <1>1, Popped DEF ContextsOK
<1>4. At(Front(ctx), "terminate") = At(ctx, "terminate")
  BY <1>2
<1>5. \A w : Above(Front(ctx), w) <=> Above(ctx, w)
  BY <1>4 DEF Above
<1>6. \A w \in At(Front(ctx), "what") : w \in 1..(Len(ctx) - 1)
  BY <1>3 DEF At
<1> QED
  BY <1>2, <1>3, <1>5, <1>6

LEMMA BuriedFacts ==
    ASSUME TypeInv, NEW c \in Context, ContextOK(c, Len(exc)), c.kind = "terminate",
           NEW cs, NEW n \in Nat, ContextsOK(cs, n), n = Len(exc)
    PROVE  /\ \A e : Holders(Append(cs, c), e) = {} /\ Carriers(Append(cs, c), e) = {}
                     /\ HeldBy(Append(cs, c), e) = 0
           /\ \A w \in At(Append(cs, c), "what") : ~Above(Append(cs, c), w)
<1>1. \A e : Holders(Append(cs, c), e) = {} /\ Carriers(Append(cs, c), e) = {}
             /\ HeldBy(Append(cs, c), e) = 0
  BY HoldersBuried
<1>2. n <= n
  OBVIOUS
<1>3. /\ \A k : At(Append(cs, c), k) =
                  At(cs, k) \cup (IF c.kind = k THEN {Len(cs) + 1} ELSE {})
      /\ \A k : At(cs, k) \subseteq 1..Len(cs)
      /\ Len(cs) \in Nat
  BY <1>2, PushedContext
<1>4. Len(cs) + 1 \in At(Append(cs, c), "terminate") /\ At(Append(cs, c), "what") \subseteq 1..Len(cs)
  BY <1>3
<1>5. \A w \in 1..Len(cs) : ~(Len(cs) + 1 < w)
  BY <1>3
<1> QED
  BY <1>1, <1>4, <1>5 DEF Above

LEMMA WhatException ==
    ASSUME TypeInv, NEW w \in At(ctx, "what")
    PROVE  ctx[w].exc \in Ids
BY StackFacts DEF At, ContextsOK, ContextOK, Ids

LEMMA ThrowStep ==
    ASSUME TypeInv, Running, ThrowInv,
           \A w \in At(ctx', "what") : Above(ctx', w) /\ ctx'[w].site = "throw" =>
             w \in At(ctx, "what") /\ Above(ctx, w) /\ ctx'[w] = ctx[w],
           \A e \in Ids : IsNative(e) /\ count[e] = 0 /\ ~Carried(e) =>
             IsNative(e)' /\ count'[e] = 0 /\ ~Carried(e)'
    PROVE  ThrowInv'
<1> SUFFICES ASSUME NEW w \in At(ctx', "what"), Above(ctx', w), ctx'[w].site = "throw"
             PROVE  IsNative(ctx[w].exc)' /\ count'[ctx'[w].exc] = 0 /\ ~Carried(ctx[w].exc)'
  BY DEF ThrowInv
<1>1. w \in At(ctx, "what") /\ Above(ctx, w) /\ ctx'[w] = ctx[w] /\ ctx[w].site = "throw"
  OBVIOUS
<1> DEFINE e == ctx[w].exc
<1>2. IsNative(e) /\ count[e] = 0 /\ ~Carried(e)
  BY <1>1 DEF ThrowInv
<1>3. e \in Ids
  BY <1>1, WhatException
<1>4. ctx'[w].exc = e
  BY <1>1
<1> HIDE DEF e
<1>5. PICK g \in Ids : g = e
  BY <1>3
<1>6. IsNative(g)' /\ count'[g] = 0 /\ ~Carried(g)'
  BY <1>2, <1>5
<1> QED
  BY <1>4, <1>5, <1>6 DEF IsNative, Carried

LEMMA UnwindStep ==
    ASSUME TypeInv, Running, UnwindInv, exc' = exc,
           \A e \in Ids : Carried(e)' => /\ Carried(e)
                                         /\ IsNative(e) /\ count[e] <= 0 => count'[e] <= 0
                                         /\ ~IsNative(e) /\ Stacks(caught', e) => Stacks(caught, e),
           \A e : Carriers(ctx', e) \subseteq Carriers(ctx, e),
           phase' = "flight" => Carriers(ctx', flight') = {}
    PROVE  UnwindInv'
<1>0. Ids' = Ids /\ \A e : IsNative(e)' <=> IsNative(e)
  BY DEF Ids, IsNative
<1> SUFFICES ASSUME NEW e \in Ids
             PROVE  /\ Carried(e)' => IF IsNative(e) THEN count'[e] <= 0 ELSE ~Stacks(caught', e)
                    /\ \A i, j \in Carriers(ctx', e) : i = j
                    /\ phase' = "flight" /\ flight' = e => Carriers(ctx', e) = {}
  BY <1>0 DEF UnwindInv
<1>1. /\ Carried(e) => IF IsNative(e) THEN count[e] <= 0 ELSE ~Stacks(caught, e)
      /\ \A i, j \in Carriers(ctx, e) : i = j
  BY DEF UnwindInv
<1>2. Carried(e)' => IF IsNative(e) THEN count'[e] <= 0 ELSE ~Stacks(caught', e)
  <2>1. CASE IsNative(e)
    BY <1>1, <2>1
  <2>2. CASE ~IsNative(e)
    BY <1>1, <2>2
  <2> QED
    BY <2>1, <2>2
<1> QED
  BY <1>1, <1>2

\* A step without a new exception keeps the classes.
LEMMA SameExceptions ==
    ASSUME exc' = exc
    PROVE  /\ Ids' = Ids /\ Natives' = Natives /\ Foreigns' = Foreigns
           /\ \A e : IsNative(e)' <=> IsNative(e)
BY DEF Ids, Natives, Foreigns, IsNative

LEMMA GivenUp ==
    ASSUME exc' = exc, Handled(Natives, caught', count'), phase' \in {"terminate", "ended"}
    PROVE  HandlerInv'
<1>1. Handled(Natives', caught', count')
  BY SameExceptions
<1>2. ~Running' /\ phase' # "flight"
  BY DEF Running
<1> QED
  BY <1>1, <1>2 DEF HandlerInv, FlightInv, UnwindInv, ThrowInv

LEMMA CxaThrowStack ==
    ASSUME TypeInv, HandlerInv, NEW t \in Types, CxaThrow(t)
    PROVE  HandlerInv'
<1> DEFINE n == Len(exc')
           c == [kind |-> "what", exc |-> n, site |-> "throw", type |-> t]
<1>1. /\ t \in TypeNames /\ "primary" \in Classes /\ Raise("primary", t) /\ caught' = caught
      /\ phase = "run"
  BY DEF Classes, TypeNames, CxaThrow
<1>2. CASE ~(Reports("throw") /\ t \in WhatTypes)
  <2>1. ctx' = ctx /\ Fly(Len(exc'), searched')
    BY <1>2 DEF CxaThrow, Fly
  <2> QED
    BY <1>1, <2>1, RaisedFlies
<1>3. CASE Reports("throw") /\ t \in WhatTypes
  <2>1. /\ ctx' = Append(ctx, c) /\ flight' = flight /\ phase' = "run"
    BY <1>1, <1>3 DEF CxaThrow, Enter
  <2>2. n \in Nat /\ Len(exc) \in Nat /\ Len(exc) <= n /\ n = Len(exc) + 1
    BY <1>1, RaisedType
  <2>3. c \in Context /\ ContextOK(c, n) /\ c.kind = "what" /\ c.site = "throw" /\ c.exc = n
    BY <1>1, <2>2 DEF Context, ContextOK, Kinds, NoName
  <2>4. /\ n \notin Ids /\ Ids' = Ids \cup {n}
        /\ exc'[n].class = "primary" /\ count'[n] = 0
        /\ \A e \in Ids : exc'[e] = exc[e] /\ count'[e] = count[e]
        /\ Carriers(ctx, n) = {}
    BY <1>1, NewException
  <2> HIDE DEF n, c
  <2>5. /\ \A f : /\ Holders(ctx', f) =
                       Holders(ctx, f) \cup (IF Holds(c, f) THEN {Len(ctx) + 1} ELSE {})
                  /\ Carriers(ctx', f) =
                       Carriers(ctx, f) \cup
                         (IF c.kind = "cleanup" /\ c.exc = f THEN {Len(ctx) + 1} ELSE {})
                  /\ HeldBy(ctx', f) = HeldBy(ctx, f) + (IF Holds(c, f) THEN 1 ELSE 0)
        /\ \A w \in At(ctx', "what") :
             \/ /\ w \in At(ctx, "what") /\ ctx'[w] = ctx[w]
                /\ Above(ctx', w) <=> Above(ctx, w)
             \/ c.kind = "what" /\ w = Len(ctx) + 1 /\ ctx'[w] = c
    <3>1. c.kind # "terminate" /\ TypeInv
      BY <2>3
    <3>2. /\ \A f : /\ Holders(Append(ctx, c), f) =
                         Holders(ctx, f) \cup (IF Holds(c, f) THEN {Len(ctx) + 1} ELSE {})
                    /\ Carriers(Append(ctx, c), f) =
                         Carriers(ctx, f) \cup
                           (IF c.kind = "cleanup" /\ c.exc = f THEN {Len(ctx) + 1} ELSE {})
                    /\ HeldBy(Append(ctx, c), f) = HeldBy(ctx, f) + (IF Holds(c, f) THEN 1 ELSE 0)
          /\ \A w \in At(Append(ctx, c), "what") :
               \/ /\ w \in At(ctx, "what") /\ Append(ctx, c)[w] = ctx[w]
                  /\ Above(Append(ctx, c), w) <=> Above(ctx, w)
               \/ c.kind = "what" /\ w = Len(ctx) + 1 /\ Append(ctx, c)[w] = c
      BY <2>2, <2>3, <3>1, EnteredFacts, ZenonT(60)
    <3> QED
      BY <2>1, <3>2
  <2>6. \A f : ~Holds(c, f)
    BY <2>3 DEF Holds
  <2>7. \A f : HeldBy(ctx, f) \in Nat
    BY StackFacts DEF Contexts
  <2>8. \A f : /\ Holders(ctx', f) = Holders(ctx, f) /\ HeldBy(ctx', f) = HeldBy(ctx, f)
               /\ Carriers(ctx', f) = Carriers(ctx, f)
    <3> TAKE f
    <3>1. ~Holds(c, f) /\ HeldBy(ctx, f) \in Nat /\ ~(c.kind = "cleanup" /\ c.exc = f)
      BY <2>3, <2>6, <2>7
    <3>2. Holders(ctx', f) = Holders(ctx, f)
      BY <2>5, <3>1
    <3>3. HeldBy(ctx', f) = HeldBy(ctx, f)
      BY <2>5, <3>1
    <3>4. Carriers(ctx', f) = Carriers(ctx, f)
      BY <2>5, <3>1
    <3> QED
      BY <3>2, <3>3, <3>4
  <2>9. Running /\ Running' /\ phase' # "flight" /\ phase # "flight"
    BY <1>1, <2>1 DEF Running
  <2>10. Handled(Natives', caught', count') /\ Stacked(Natives', Foreigns', caught', count', ctx')
    BY <1>1, <2>8, <2>9, RaisedStack DEF HandlerInv
  <2>11. FlightInv'
    BY <2>9 DEF FlightInv
  <2>12. UnwindInv'
    <3> SUFFICES ASSUME NEW e \in Ids \cup {n}
                 PROVE  /\ Carried(e)' => IF IsNative(e)' THEN count'[e] <= 0 ELSE ~Stacks(caught', e)
                        /\ \A i, j \in Carriers(ctx', e) : i = j
      BY <2>4, <2>9 DEF UnwindInv
    <3>1. CASE e = n
      BY <2>4, <2>8, <2>9, <3>1 DEF Carried
    <3>2. CASE e \in Ids
      <4>1. /\ Carried(e) => IF IsNative(e) THEN count[e] <= 0 ELSE ~Stacks(caught, e)
            /\ \A i, j \in Carriers(ctx, e) : i = j
        BY <2>9, <3>2 DEF HandlerInv, UnwindInv
      <4>2. (IsNative(e)' <=> IsNative(e)) /\ (Carried(e)' <=> Carried(e))
        BY <2>4, <2>8, <2>9, <3>2 DEF IsNative, Carried
      <4> QED
        BY <1>1, <2>4, <2>8, <3>2, <4>1, <4>2
    <3> QED
      BY <3>1, <3>2
  <2>13. ThrowInv'
    <3> SUFFICES ASSUME NEW w \in At(ctx', "what"), Above(ctx', w), ctx'[w].site = "throw",
                        NEW e, e = ctx'[w].exc
                 PROVE  exc'[e].class \in {"primary", "dependent"} /\ count'[e] = 0 /\ Carriers(ctx', e) = {}
      BY <2>9 DEF ThrowInv, IsNative, Carried
    <3>1. CASE ctx'[w] = c
      BY <2>3, <2>4, <2>8, <3>1
    <3>2. CASE w \in At(ctx, "what") /\ ctx'[w] = ctx[w] /\ (Above(ctx', w) <=> Above(ctx, w))
      <4>1. IsNative(e) /\ count[e] = 0 /\ ~Carried(e)
        BY <2>9, <3>2 DEF HandlerInv, ThrowInv
      <4>2. e \in Ids
        BY <3>2, WhatException
      <4>3. exc'[e] = exc[e] /\ count'[e] = count[e] /\ Carriers(ctx', e) = Carriers(ctx, e)
        BY <2>4, <2>8, <4>2
      <4> QED
        BY <4>1, <4>3 DEF IsNative, Carried
    <3> QED
      BY <2>5, <3>1, <3>2
  <2> QED
    BY <2>10, <2>11, <2>12, <2>13 DEF HandlerInv
<1> QED
  BY <1>2, <1>3

LEMMA RaisesStack ==
    ASSUME TypeInv, HandlerInv,
           \/ \E t \in Types : RethrowException(t)
           \/ \E class \in {"forced", "foreign"} : ForeignUnwind(class)
    PROVE  HandlerInv'
<1>1. ASSUME NEW t \in Types, RethrowException(t) PROVE HandlerInv'
  <2>1. /\ t \in TypeNames /\ "dependent" \in Classes /\ Raise("dependent", t) /\ caught' = caught
        /\ phase = "run" /\ ctx' = ctx /\ Fly(Len(exc'), searched')
    BY <1>1 DEF Classes, TypeNames, RethrowException, Fly
  <2> QED
    BY <2>1, RaisedFlies
<1>2. ASSUME NEW class \in {"forced", "foreign"}, ForeignUnwind(class) PROVE HandlerInv'
  <2>1. /\ NoName \in TypeNames /\ class \in Classes /\ Raise(class, NoName) /\ caught' = caught
        /\ phase = "run" /\ ctx' = ctx /\ Fly(Len(exc'), searched')
    BY <1>2 DEF Classes, TypeNames, ForeignUnwind, Fly
  <2> QED
    BY <2>1, RaisedFlies
<1> QED
  BY <1>1, <1>2

\* The contexts hold what they held, and nothing new is on the stack.
LEMMA SameHolders ==
    ASSUME TypeInv, Stacked(Natives, Foreigns, caught, count, ctx), exc' = exc,
           \A f \in Natives : Mag(count'[f]) = Mag(count[f]),
           \A k \in DOMAIN caught' : k \in DOMAIN caught /\ caught'[k] = caught[k],
           \A f : /\ Holders(ctx', f) = Holders(ctx, f) /\ HeldBy(ctx', f) = HeldBy(ctx, f)
                  /\ Carriers(ctx', f) \subseteq Carriers(ctx, f)
    PROVE  Stacked(Natives', Foreigns', caught', count', ctx')
<1>1. Natives' = Natives /\ Foreigns' = Foreigns
  BY SameExceptions
<1>2. \A f \in Ids : Based(Natives, count', ctx', f) => Based(Natives, count, ctx, f)
  <2> SUFFICES ASSUME NEW f \in Ids, Based(Natives, count', ctx', f) PROVE Based(Natives, count, ctx, f)
    OBVIOUS
  <2>1. Holders(ctx', f) = Holders(ctx, f) /\ HeldBy(ctx', f) = HeldBy(ctx, f)
    OBVIOUS
  <2>2. f \in Natives => Mag(count'[f]) = Mag(count[f])
    OBVIOUS
  <2> QED
    BY <2>1, <2>2 DEF Based
<1>3. \A k \in DOMAIN caught : caught[k] \in Ids
  BY StackFacts
<1>4. CountsCover(Natives, count', ctx')
  <2> SUFFICES ASSUME NEW f \in Natives PROVE HeldBy(ctx', f) <= Mag(count'[f])
    BY DEF CountsCover
  <2>1. HeldBy(ctx', f) = HeldBy(ctx, f) /\ Mag(count'[f]) = Mag(count[f])
    OBVIOUS
  <2> QED
    BY <2>1 DEF Stacked, CountsCover
<1>5. \A k \in DOMAIN caught' : /\ k \in DOMAIN caught /\ caught'[k] = caught[k]
                                /\ caught[k] \in Natives <=> caught[k] \in Natives
                                /\ Based(Natives, count', ctx', caught[k]) =>
                                     Based(Natives, count, ctx, caught[k])
                                /\ caught[k] \in Natives \/ Holders(ctx', caught[k]) = Holders(ctx, caught[k])
  BY <1>2, <1>3
<1>6. \A f : Holders(ctx', f) \subseteq Holders(ctx, f) /\ Carriers(ctx', f) \subseteq Carriers(ctx, f)
  OBVIOUS
<1>7. \A g \in Foreigns : Holders(ctx', g) # {} => g \in Foreigns
  OBVIOUS
<1>8. Stacked(Natives, Foreigns, caught', count', ctx')
  BY <1>4, <1>5, <1>6, <1>7, StackedShrunk
<1> QED
  BY <1>1, <1>8

LEMMA CxaThrowGoesOnStack ==
    ASSUME IInv, HandlerInv, CxaThrowGoesOn
    PROVE  HandlerInv'
<1> DEFINE x == Last(ctx).exc
<1>0. TypeInv /\ In("what") /\ Last(ctx).site = "throw" /\ phase = "run"
  BY DEF IInv, CxaThrowGoesOn
<1>1. /\ ctx' = Front(ctx) /\ flight' = x /\ phase' = "flight"
      /\ exc' = exc /\ count' = count /\ caught' = caught
  BY DEF CxaThrowGoesOn, Fly
<1>2. Running /\ Running'
  BY <1>0, <1>1 DEF Running
<1>3. /\ ctx # <<>> /\ At(ctx, "what") = {Len(ctx)} /\ At(ctx', "what") = {} /\ x \in Ids
      /\ Last(ctx).kind = "what" /\ Last(ctx) = ctx[Len(ctx)]
      /\ At(ctx, "terminate") \subseteq 1..Len(ctx) /\ Len(ctx) \in Nat
  BY <1>0, <1>1, WhatEnds DEF In, Last
<1>4. Above(ctx, Len(ctx))
  <2>1. \A i \in At(ctx, "terminate") : i # Len(ctx)
    BY <1>3 DEF At
  <2> QED
    BY <1>3, <2>1 DEF Above
<1>5. IsNative(x) /\ count[x] = 0 /\ ~Carried(x)
  BY <1>0, <1>2, <1>3, <1>4 DEF HandlerInv, ThrowInv
<1> HIDE DEF x
<1>6. \A f : /\ Holders(ctx', f) = Holders(ctx, f) /\ HeldBy(ctx', f) = HeldBy(ctx, f)
             /\ Carriers(ctx', f) = Carriers(ctx, f)
  <2>1. \A f : ~Holds(Last(ctx), f)
    BY <1>0, <1>3 DEF Holds
  <2>2. \A f : HeldBy(ctx, f) \in Nat
    BY <1>0, StackFacts DEF Contexts
  <2>3. \A f : /\ Holders(ctx', f) = Holders(ctx, f) \ {Len(ctx)}
               /\ Carriers(ctx', f) = Carriers(ctx, f) \ {Len(ctx)}
               /\ Len(ctx) \in Holders(ctx, f) <=> Holds(Last(ctx), f)
               /\ Len(ctx) \in Carriers(ctx, f) <=> Last(ctx).kind = "cleanup" /\ Last(ctx).exc = f
               /\ HeldBy(ctx', f) = HeldBy(ctx, f) - (IF Holds(Last(ctx), f) THEN 1 ELSE 0)
    <3>1. Last(ctx).kind # "terminate"
      BY <1>3
    <3> QED
      BY <1>0, <1>1, <1>3, <3>1, LeftFacts
  <2> TAKE f
  <2>4. ~Holds(Last(ctx), f) /\ HeldBy(ctx, f) \in Nat
    BY <2>1, <2>2
  <2>5. Holders(ctx', f) = Holders(ctx, f)
    BY <2>3, <2>4
  <2>6. HeldBy(ctx', f) = HeldBy(ctx, f)
    BY <2>3, <2>4
  <2>7. Carriers(ctx', f) = Carriers(ctx, f)
    BY <1>3, <2>3
  <2> QED
    BY <2>5, <2>6, <2>7
<1>7. Natives' = Natives /\ Foreigns' = Foreigns /\ Ids' = Ids /\ \A e : IsNative(e)' <=> IsNative(e)
  BY <1>1, SameExceptions
<1>8. Handled(Natives', caught', count')
  BY <1>1, <1>7 DEF HandlerInv
<1>9. Stacked(Natives', Foreigns', caught', count', ctx')
  <2>1. Stacked(Natives, Foreigns, caught, count, ctx)
    BY <1>2 DEF HandlerInv
  <2> QED
    BY <1>0, <1>1, <1>6, <2>1, SameHolders
<1>10. FlightInv'
  <2>1. ~Stacks(caught, x)
    BY <1>0, <1>3, <1>5, StackFacts DEF HandlerInv, Handled
  <2> QED
    BY <1>1, <2>1 DEF FlightInv, Stacks
<1>11. UnwindInv'
  <2> SUFFICES ASSUME NEW e \in Ids
               PROVE  /\ Carried(e)' => IF IsNative(e) THEN count[e] <= 0 ELSE ~Stacks(caught, e)
                      /\ \A i, j \in Carriers(ctx', e) : i = j
                      /\ phase' = "flight" /\ flight' = e => Carriers(ctx', e) = {}
    BY <1>1, <1>7 DEF UnwindInv
  <2>1. /\ Carried(e) => IF IsNative(e) THEN count[e] <= 0 ELSE ~Stacks(caught, e)
        /\ \A i, j \in Carriers(ctx, e) : i = j
    BY <1>2 DEF HandlerInv, UnwindInv
  <2>2. CASE e = x
    BY <1>5, <1>6, <2>2 DEF Carried
  <2>3. CASE e # x
    <3>1. Carried(e)' => Carried(e)
      BY <1>1, <1>6, <2>3 DEF Carried
    <3> QED
      BY <1>1, <1>6, <2>1, <2>3, <3>1
  <2> QED
    BY <2>2, <2>3
<1>12. ThrowInv'
  BY <1>3 DEF ThrowInv
<1> QED
  BY <1>8, <1>9, <1>10, <1>11, <1>12 DEF HandlerInv

LEMMA CxaRethrowStack ==
    ASSUME TypeInv, HandlerInv, CxaRethrow
    PROVE  HandlerInv'
<1> DEFINE h == Last(caught)
<1>1. exc' = exc /\ ctx' = ctx /\ phase = "run" /\ Running
  BY DEF CxaRethrow, Running
<1>2. CASE caught = <<>>
  <2>1. phase' = "terminate" /\ count' = count /\ caught' = caught
    BY <1>2 DEF CxaRethrow
  <2>2. Handled(Natives, caught', count')
    BY <2>1 DEF HandlerInv
  <2> QED
    BY <1>1, <2>1, <2>2, GivenUp
<1>3. CASE caught # <<>>
  <2>1. /\ Len(caught) \in DOMAIN caught /\ h = caught[Len(caught)] /\ h \in Ids
        /\ \A e \in Ids : e \in Natives <=> IsNative(e)
    BY <1>3, StackFacts
  <2>2. h # 0
    BY <2>1 DEF Ids
  <2>3. /\ flight' = h /\ phase' = "flight" /\ count[h] >= 0
        /\ IF IsNative(h) THEN count' = [count EXCEPT ![h] = -@] /\ caught' = caught
                          ELSE caught' = <<>> /\ count' = count
    BY <1>3, <2>2 DEF CxaRethrow, Fly
  <2> HIDE DEF h
  <2>4. h \in DOMAIN count /\ count[h] \in Int /\ DOMAIN count = Ids
    BY <2>1, Lengths
  <2>5. \A f \in Natives : f \in Ids /\ count[f] \in Int
    BY StackFacts
  <2>6. Running'
    BY <2>3 DEF Running
  <2>7. \A e \in Ids : IsNative(e) /\ e # h => count'[e] = count[e]
    BY <2>3, <2>4
  <2>8. IsNative(h) => count'[h] = -count[h]
    BY <2>3, <2>4
  <2>9. Natives' = Natives /\ Foreigns' = Foreigns /\ Ids' = Ids /\ \A e : IsNative(e)' <=> IsNative(e)
    BY <1>1, SameExceptions
  <2>10. \A k \in DOMAIN caught' : k \in DOMAIN caught /\ caught'[k] = caught[k]
    <3>1. CASE IsNative(h)
      BY <2>3, <3>1
    <3>2. CASE ~IsNative(h)
      BY <2>3, <3>2
    <3> QED
      BY <3>1, <3>2
  <2>11. \A f \in Natives : Mag(count'[f]) = Mag(count[f]) /\ (count'[f] # 0 <=> count[f] # 0)
    <3> SUFFICES ASSUME NEW f \in Natives
                 PROVE  Mag(count'[f]) = Mag(count[f]) /\ (count'[f] # 0 <=> count[f] # 0)
      OBVIOUS
    <3>1. CASE f = h
      <4>1. count'[h] = -count[h]
        BY <2>1, <2>8, <3>1
      <4> QED
        BY <2>4, <3>1, <4>1 DEF Mag
    <3>2. CASE f # h
      <4>1. count'[f] = count[f]
        BY <2>1, <2>5, <2>7, <3>2
      <4> QED
        BY <4>1
    <3> QED
      BY <3>1, <3>2
  <2>12. Handled(Natives', caught', count')
    <3>1. CASE IsNative(h)
      BY <2>3, <2>9, <2>11, <3>1 DEF HandlerInv, Handled
    <3>2. CASE ~IsNative(h)
      <4>1. Len(caught) = 1
        BY <2>1, <3>2 DEF HandlerInv, Handled
      <4>2. \A k \in DOMAIN caught : caught[k] = h
        BY <2>1, <4>1, StackFacts
      <4>3. \A f \in Natives : count[f] = 0
        BY <2>1, <3>2, <4>2 DEF HandlerInv, Handled, Stacks
      <4> QED
        BY <2>3, <2>9, <3>2, <4>3 DEF Handled, Stacks
    <3> QED
      BY <3>1, <3>2
  <2>13. Stacked(Natives', Foreigns', caught', count', ctx')
    <3>1. Stacked(Natives, Foreigns, caught, count, ctx)
      BY <1>1 DEF HandlerInv
    <3>2. \A f \in Natives : Mag(count'[f]) = Mag(count[f])
      BY <2>11
    <3>3. \A f : /\ Holders(ctx', f) = Holders(ctx, f) /\ HeldBy(ctx', f) = HeldBy(ctx, f)
                 /\ Carriers(ctx', f) \subseteq Carriers(ctx, f)
      BY <1>1
    <3> QED
      BY <1>1, <2>10, <3>1, <3>2, <3>3, SameHolders
  <2>14. FlightInv'
    <3>1. CASE IsNative(h)
      BY <2>1, <2>3, <3>1 DEF FlightInv, HandlerInv, Handled
    <3>2. CASE ~IsNative(h)
      BY <2>3, <3>2 DEF FlightInv
    <3> QED
      BY <3>1, <3>2
  <2>15. ~Carried(h)
    <3> SUFFICES ASSUME Carried(h) PROVE FALSE
      OBVIOUS
    <3>1. Stacks(caught, h)
      BY <2>1 DEF Stacks
    <3>2. IF IsNative(h) THEN count[h] <= 0 ELSE ~Stacks(caught, h)
      BY <1>1, <2>1 DEF HandlerInv, UnwindInv
    <3>3. IsNative(h) => count[h] # 0
      BY <2>1, <3>1 DEF HandlerInv, Handled
    <3> QED
      BY <2>3, <2>4, <3>1, <3>2, <3>3
  <2>16. UnwindInv'
    <3> SUFFICES ASSUME NEW e \in Ids
                 PROVE  /\ Carried(e)' => IF IsNative(e) THEN count'[e] <= 0 ELSE ~Stacks(caught', e)
                        /\ \A i, j \in Carriers(ctx, e) : i = j
                        /\ flight' = e => Carriers(ctx, e) = {}
      BY <1>1, <2>9 DEF UnwindInv
    <3>1. /\ Carried(e) => IF IsNative(e) THEN count[e] <= 0 ELSE ~Stacks(caught, e)
          /\ \A i, j \in Carriers(ctx, e) : i = j
      BY <1>1 DEF HandlerInv, UnwindInv
    <3>2. CASE e = h
      <4>1. Carriers(ctx, h) = {}
        BY <2>15 DEF Carried
      <4>2. IsNative(h) => count'[h] <= 0
        BY <2>3, <2>4, <2>8
      <4>3. ~IsNative(h) => ~Stacks(caught', h)
        BY <2>3 DEF Stacks
      <4> QED
        BY <3>2, <4>1, <4>2, <4>3
    <3>3. CASE e # h
      <4>1. Carried(e)' => Carried(e)
        BY <1>1, <2>3, <3>3 DEF Carried
      <4>2. IsNative(e) => count'[e] = count[e]
        BY <2>7, <3>3
      <4>3. Stacks(caught', e) => Stacks(caught, e)
        BY <2>10 DEF Stacks
      <4> QED
        BY <2>3, <3>1, <3>3, <4>1, <4>2, <4>3
    <3> QED
      BY <3>2, <3>3
  <2>17. ThrowInv'
    <3>1. ASSUME NEW e \in Ids, IsNative(e), count[e] = 0, ~Carried(e)
          PROVE  IsNative(e)' /\ count'[e] = 0 /\ ~Carried(e)'
      <4>1. e # h
        BY <2>1, <3>1 DEF HandlerInv, Handled, Stacks
      <4>2. ~Carried(e)'
        BY <1>1, <2>3, <3>1, <4>1 DEF Carried
      <4> QED
        BY <2>7, <2>9, <3>1, <4>1, <4>2
    <3>2. \A w \in At(ctx', "what") : Above(ctx', w) /\ ctx'[w].site = "throw" =>
            w \in At(ctx, "what") /\ Above(ctx, w) /\ ctx'[w] = ctx[w]
      BY <1>1
    <3> QED
      BY <1>1, <3>1, <3>2, ThrowStep DEF HandlerInv
  <2> QED
    BY <2>12, <2>13, <2>14, <2>16, <2>17 DEF HandlerInv
<1> QED
  BY <1>2, <1>3

\* A handler is left, by the exception in flight or at its end.
LEMMA EndCatchStack ==
    ASSUME IInv, HandlerInv, UnwindHandler \/ EndHandler
    PROVE  HandlerInv'
<1>1. /\ TypeInv /\ ctx # <<>> /\ Last(ctx).kind = "handler" /\ EndCatch /\ ctx' = Front(ctx)
      /\ exc' = exc /\ flight' = flight /\ phase' = phase /\ phase \in {"run", "flight"}
  BY DEF IInv, UnwindHandler, EndHandler, In
<1>2. Running /\ Running'
  BY <1>1 DEF Running
<1>3. /\ Handled(Natives, caught', count')
      /\ Stacked(Natives, Foreigns, caught', count', ctx')
      /\ \A k \in DOMAIN caught' : /\ k \in DOMAIN caught /\ caught'[k] = caught[k]
                                   /\ k = Len(caught) => k = Len(caught')
      /\ \A f \in Natives : count[f] = 0 => count'[f] = 0
      /\ \A f \in Natives : count[f] <= 0 => count'[f] <= 0
  BY <1>1, <1>2, EndCatchStacked DEF HandlerInv
<1>4. Natives' = Natives /\ Foreigns' = Foreigns /\ Ids' = Ids /\ \A e : IsNative(e)' <=> IsNative(e)
  BY <1>1, SameExceptions
<1>5. \A f : Carriers(ctx', f) \subseteq Carriers(ctx, f)
  <2>1. Last(ctx).kind # "terminate"
    BY <1>1
  <2> QED
    BY <1>1, <2>1, LeftFacts
<1>6. FlightInv'
  BY <1>1, <1>3 DEF HandlerInv, FlightInv
<1>7. \A e \in Ids : e \in Natives <=> IsNative(e)
  BY DEF Natives
<1>8. \A e : Carried(e)' => Carried(e)
  BY <1>1, <1>5 DEF Carried
<1>9. UnwindInv'
  <2>1. \A e \in Ids : Carried(e)' => /\ Carried(e)
                                      /\ IsNative(e) /\ count[e] <= 0 => count'[e] <= 0
                                      /\ ~IsNative(e) /\ Stacks(caught', e) => Stacks(caught, e)
    BY <1>3, <1>7, <1>8 DEF Stacks
  <2>2. phase' = "flight" => Carriers(ctx', flight') = {}
    <3>1. phase = "flight" => flight \in Ids
      BY <1>1 DEF TypeInv
    <3>2. phase = "flight" => Carriers(ctx, flight) = {}
      BY <1>2, <3>1 DEF HandlerInv, UnwindInv
    <3> QED
      BY <1>1, <1>5, <3>2
  <2> QED
    BY <1>1, <1>2, <1>5, <2>1, <2>2, UnwindStep DEF HandlerInv
<1>10. ThrowInv'
  <2>1. Last(ctx).kind # "terminate"
    BY <1>1
  <2>2. \A w \in At(ctx', "what") : Above(ctx', w) /\ ctx'[w].site = "throw" =>
          w \in At(ctx, "what") /\ Above(ctx, w) /\ ctx'[w] = ctx[w]
    BY <1>1, <2>1, LeftWhats
  <2>3. \A e \in Ids : IsNative(e) /\ count[e] = 0 /\ ~Carried(e) =>
          IsNative(e)' /\ count'[e] = 0 /\ ~Carried(e)'
    BY <1>3, <1>4, <1>7, <1>8
  <2> QED
    BY <1>1, <1>2, <2>2, <2>3, ThrowStep DEF HandlerInv
<1> QED
  BY <1>3, <1>4, <1>6, <1>9, <1>10 DEF HandlerInv

LEMMA RunCleanupStack ==
    ASSUME TypeInv, HandlerInv, RunCleanup
    PROVE  HandlerInv'
<1> DEFINE c == [kind |-> "cleanup", exc |-> flight, site |-> NoName, type |-> NoName]
           m == Len(ctx) + 1
<1>1. /\ ctx' = Append(ctx, c) /\ phase = "flight" /\ phase' = "run" /\ flight \in Ids
      /\ exc' = exc /\ count' = count /\ caught' = caught /\ flight \in 1..Len(exc)
  BY DEF RunCleanup, Enter, TypeInv, Ids
<1>2. c \in Context /\ ContextOK(c, Len(exc)) /\ c.kind = "cleanup" /\ c.exc = flight
  BY <1>1, StackFacts DEF Context, ContextOK, Kinds, TypeNames
<1> HIDE DEF c
<1>3. /\ \A f : /\ Holders(Append(ctx, c), f) =
                     Holders(ctx, f) \cup (IF Holds(c, f) THEN {Len(ctx) + 1} ELSE {})
                /\ Carriers(Append(ctx, c), f) =
                     Carriers(ctx, f) \cup
                       (IF c.kind = "cleanup" /\ c.exc = f THEN {Len(ctx) + 1} ELSE {})
                /\ HeldBy(Append(ctx, c), f) = HeldBy(ctx, f) + (IF Holds(c, f) THEN 1 ELSE 0)
      /\ \A w \in At(Append(ctx, c), "what") :
           \/ /\ w \in At(ctx, "what") /\ Append(ctx, c)[w] = ctx[w]
              /\ Above(Append(ctx, c), w) <=> Above(ctx, w)
           \/ c.kind = "what" /\ w = Len(ctx) + 1 /\ Append(ctx, c)[w] = c
  <2>1. c.kind # "terminate" /\ Len(exc) \in Nat /\ Len(exc) <= Len(exc)
    BY <1>2, StackFacts
  <2> QED
    BY <1>2, <2>1, EnteredFacts
<1>4. \A f : ~Holds(c, f)
  BY <1>2 DEF Holds
<1>5. \A f : HeldBy(ctx, f) \in Nat
  BY StackFacts DEF Contexts
<1>6. \A f : Holders(ctx', f) = Holders(ctx, f)
  BY <1>1, <1>3, <1>4
<1>7. \A f : HeldBy(ctx', f) = HeldBy(ctx, f)
  BY <1>1, <1>3, <1>4, <1>5
<1>8. /\ \A f : f # flight => Carriers(ctx', f) = Carriers(ctx, f)
      /\ Carriers(ctx', flight) = Carriers(ctx, flight) \cup {m}
  BY <1>1, <1>2, <1>3
<1> HIDE DEF m
<1>9. Running /\ Running'
  BY <1>1 DEF Running
<1>10. Natives' = Natives /\ Foreigns' = Foreigns /\ Ids' = Ids /\ \A e : IsNative(e)' <=> IsNative(e)
  BY <1>1, SameExceptions
<1>11. Handled(Natives', caught', count')
  BY <1>1, <1>10 DEF HandlerInv
<1>12. Stacked(Natives', Foreigns', caught', count', ctx')
  <2>1. \A k \in DOMAIN caught : k \in Int /\ (caught[k] = flight => \A l \in DOMAIN caught : l <= k)
    BY <1>1, StackFacts DEF HandlerInv, FlightInv
  <2>2. Stacked(Natives, Foreigns, caught, count, ctx)
    BY <1>9 DEF HandlerInv
  <2>3. Stacked(Natives, Foreigns, caught, count, ctx')
    BY <1>6, <1>7, <1>8, <2>1, <2>2, StackedCarried
  <2> QED
    BY <1>1, <1>10, <2>3
<1>13. FlightInv'
  BY <1>1 DEF FlightInv
<1>14. \A e : Carried(e)' => Carried(e)
  BY <1>1, <1>8 DEF Carried
<1>15. UnwindInv'
  <2> SUFFICES ASSUME NEW e \in Ids
               PROVE  /\ Carried(e)' => IF IsNative(e) THEN count[e] <= 0 ELSE ~Stacks(caught, e)
                      /\ \A i, j \in Carriers(ctx', e) : i = j
    BY <1>1, <1>10 DEF UnwindInv
  <2>1. /\ Carried(e) => IF IsNative(e) THEN count[e] <= 0 ELSE ~Stacks(caught, e)
        /\ \A i, j \in Carriers(ctx, e) : i = j
        /\ flight = e => Carriers(ctx, e) = {}
    BY <1>1, <1>9 DEF HandlerInv, UnwindInv
  <2> QED
    BY <1>8, <1>14, <2>1
<1>16. ThrowInv'
  <2>1. \A w \in At(ctx', "what") : Above(ctx', w) /\ ctx'[w].site = "throw" =>
          w \in At(ctx, "what") /\ Above(ctx, w) /\ ctx'[w] = ctx[w]
    BY <1>1, <1>2, <1>3
  <2>2. \A e \in Ids : IsNative(e) /\ count[e] = 0 /\ ~Carried(e) =>
          IsNative(e)' /\ count'[e] = 0 /\ ~Carried(e)'
    BY <1>1, <1>10, <1>14
  <2> QED
    BY <1>9, <2>1, <2>2, ThrowStep DEF HandlerInv
<1> QED
  BY <1>11, <1>12, <1>13, <1>15, <1>16 DEF HandlerInv

LEMMA EndCleanupStack ==
    ASSUME TypeInv, HandlerInv, EndCleanup
    PROVE  HandlerInv'
<1> DEFINE q == Len(ctx)
           x == Last(ctx).exc
<1>1. /\ ctx # <<>> /\ Last(ctx).kind = "cleanup" /\ ctx' = Front(ctx)
      /\ flight' = x /\ phase = "run" /\ phase' = "flight"
      /\ exc' = exc /\ count' = count /\ caught' = caught
  BY DEF EndCleanup, In, Fly
<1>2. Running /\ Running' /\ Last(ctx).kind # "terminate"
  BY <1>1 DEF Running
<1>3. /\ q \in Nat /\ x \in Ids
      /\ \A f : /\ Holders(ctx', f) = Holders(ctx, f) \ {q}
                /\ Carriers(ctx', f) = Carriers(ctx, f) \ {q}
                /\ q \in Holders(ctx, f) <=> Holds(Last(ctx), f)
                /\ q \in Carriers(ctx, f) <=> Last(ctx).kind = "cleanup" /\ Last(ctx).exc = f
                /\ HeldBy(ctx', f) = HeldBy(ctx, f) - (IF Holds(Last(ctx), f) THEN 1 ELSE 0)
                /\ \A i \in Holders(ctx, f) : i \in Nat /\ i <= q
  BY <1>1, <1>2, LeftFacts
<1>4. \A f : ~Holds(Last(ctx), f)
  BY <1>1 DEF Holds
<1>5. \A f : HeldBy(ctx, f) \in Nat /\ (HeldBy(ctx, f) = 0 <=> Holders(ctx, f) = {})
  BY StackFacts DEF Contexts
<1>6. \A f : /\ Holders(ctx', f) = Holders(ctx, f) /\ HeldBy(ctx', f) = HeldBy(ctx, f)
             /\ Carriers(ctx', f) \subseteq Carriers(ctx, f)
  <2> TAKE f
  <2>1. Holders(ctx', f) = Holders(ctx, f) /\ Carriers(ctx', f) \subseteq Carriers(ctx, f)
    BY <1>3, <1>4
  <2>2. HeldBy(ctx', f) = HeldBy(ctx, f)
    BY <1>3, <1>4, <1>5
  <2> QED
    BY <2>1, <2>2
<1>7. q \in Carriers(ctx, x)
  BY <1>1, <1>3
<1> HIDE DEF q, x
<1>8. Natives' = Natives /\ Foreigns' = Foreigns /\ Ids' = Ids /\ \A e : IsNative(e)' <=> IsNative(e)
  BY <1>1, SameExceptions
<1>9. Handled(Natives', caught', count')
  BY <1>1, <1>8 DEF HandlerInv
<1>10. Stacked(Natives', Foreigns', caught', count', ctx')
  <2>1. Stacked(Natives, Foreigns, caught, count, ctx)
    BY <1>2 DEF HandlerInv
  <2> QED
    BY <1>1, <1>6, <2>1, SameHolders
<1>11. FlightInv'
  <2> SUFFICES ASSUME NEW k \in DOMAIN caught, caught[k] = x PROVE k = Len(caught)
    BY <1>1 DEF FlightInv
  <2> DEFINE l == Len(caught)
  <2>1. /\ k \in Nat /\ k <= l /\ l \in Nat /\ l \in DOMAIN caught /\ caught[l] \in Ids
        /\ \A e \in Ids : e \in Natives <=> IsNative(e)
        /\ \A f \in Natives : f \in Ids /\ count[f] \in Int
    <3>1. caught # <<>>
      OBVIOUS
    <3> QED
      BY <3>1, StackFacts
  <2> HIDE DEF l
  <2> SUFFICES ASSUME k < l PROVE FALSE
    BY <2>1 DEF l
  <2>2. ~Based(Natives, count, ctx, caught[l]) /\ \A j \in Holders(ctx, caught[l]) : q < j
    BY <1>2, <1>7, <2>1 DEF HandlerInv, Stacked, CleanupBelow
  <2>3. Holders(ctx, caught[l]) = {}
    BY <1>3, <2>2
  <2>4. HeldBy(ctx, caught[l]) = 0
    BY <1>5, <2>3
  <2>5. caught[l] \in Natives
    BY <2>2, <2>3 DEF Based
  <2>6. count[caught[l]] # 0 /\ count[caught[l]] \in Int
    BY <2>1, <2>5 DEF HandlerInv, Handled, Stacks
  <2>7. ~(Mag(count[caught[l]]) > 0)
    BY <2>2, <2>4, <2>5 DEF Based
  <2> QED
    BY <2>6, <2>7 DEF Mag
<1>12. Carried(x) /\ Carriers(ctx', x) = {}
  <2>1. \A i, j \in Carriers(ctx, x) : i = j
    BY <1>2, <1>3 DEF HandlerInv, UnwindInv
  <2> QED
    BY <1>3, <1>7, <2>1 DEF Carried
<1>13. \A e : Carried(e)' => Carried(e)
  BY <1>1, <1>6, <1>12 DEF Carried
<1>14. UnwindInv'
  <2>1. \A e \in Ids : Carried(e)' => /\ Carried(e)
                                      /\ IsNative(e) /\ count[e] <= 0 => count'[e] <= 0
                                      /\ ~IsNative(e) /\ Stacks(caught', e) => Stacks(caught, e)
    BY <1>1, <1>13
  <2>2. phase' = "flight" => Carriers(ctx', flight') = {}
    BY <1>1, <1>12
  <2>3. \A e : Carriers(ctx', e) \subseteq Carriers(ctx, e)
    BY <1>6
  <2> QED
    BY <1>1, <1>2, <2>1, <2>2, <2>3, UnwindStep DEF HandlerInv
<1>15. ThrowInv'
  <2>1. \A w \in At(ctx', "what") : Above(ctx', w) /\ ctx'[w].site = "throw" =>
          w \in At(ctx, "what") /\ Above(ctx, w) /\ ctx'[w] = ctx[w]
    BY <1>1, <1>2, LeftWhats
  <2>2. \A e \in Ids : IsNative(e) /\ count[e] = 0 /\ ~Carried(e) =>
          IsNative(e)' /\ count'[e] = 0 /\ ~Carried(e)'
    BY <1>1, <1>8, <1>13
  <2> QED
    BY <1>2, <2>1, <2>2, ThrowStep DEF HandlerInv
<1> QED
  BY <1>9, <1>10, <1>11, <1>14, <1>15 DEF HandlerInv

\* A terminate handler is entered, on whatever road.
LEMMA BuriedStack ==
    ASSUME TypeInv, exc' = exc, Handled(Natives, caught', count'),
           \A e \in Ids : count'[e] \in Int, phase' = "run",
           NEW cs, ContextsOK(cs, Len(exc)),
           ctx' = Append(cs, [kind |-> "terminate", exc |-> 0, site |-> NoName, type |-> NoName])
    PROVE  HandlerInv'
<1> DEFINE z == [kind |-> "terminate", exc |-> 0, site |-> NoName, type |-> NoName]
<1>1. Len(exc) \in Nat
  BY StackFacts
<1>2. z \in Context /\ ContextOK(z, Len(exc)) /\ z.kind = "terminate"
  BY <1>1 DEF Context, ContextOK, Kinds, TypeNames
<1>3. ctx' = Append(cs, z)
  OBVIOUS
<1> HIDE DEF z
<1>4. /\ \A e : Holders(ctx', e) = {} /\ Carriers(ctx', e) = {} /\ HeldBy(ctx', e) = 0
      /\ \A w \in At(ctx', "what") : ~Above(ctx', w)
  BY <1>1, <1>2, <1>3, BuriedFacts
<1>5. Natives' = Natives /\ Foreigns' = Foreigns /\ Ids' = Ids /\ \A e : IsNative(e)' <=> IsNative(e)
  BY SameExceptions
<1>6. Stacked(Natives', Foreigns', caught', count', ctx')
  <2>1. \A e \in Natives : count'[e] \in Int
    BY DEF Natives
  <2>2. Stacked(Natives, Foreigns, caught', count', ctx')
    BY <1>4, <2>1, StackedBuried
  <2> QED
    BY <1>5, <2>2
<1>7. Handled(Natives', caught', count')
  BY <1>5
<1>8. \A e : ~Carried(e)'
  BY <1>4 DEF Carried
<1>9. FlightInv' /\ UnwindInv' /\ ThrowInv'
  BY <1>4, <1>8 DEF FlightInv, UnwindInv, ThrowInv
<1> QED
  BY <1>6, <1>7, <1>9 DEF HandlerInv

LEMMA CslgTerminateStack ==
    ASSUME TypeInv, HandlerInv, CslgTerminate
    PROVE  HandlerInv'
<1>1. /\ exc' = exc /\ count' = count /\ caught' = caught /\ phase' = "run"
      /\ ctx' = Append(ctx, [kind |-> "terminate", exc |-> 0, site |-> NoName, type |-> NoName])
  BY DEF CslgTerminate, RunTerminateHandler, Enter
<1>2. ContextsOK(ctx, Len(exc)) /\ \A e \in Ids : count'[e] \in Int
  BY <1>1, Lengths DEF TypeInv
<1>3. Handled(Natives, caught', count')
  BY <1>1 DEF HandlerInv
<1> QED
  BY <1>1, <1>2, <1>3, BuriedStack

\* The runtime and the contexts stay.
LEMMA QuietStack ==
    ASSUME HandlerInv, exc' = exc, count' = count, caught' = caught, ctx' = ctx,
           flight' = flight \/ phase' # "flight", phase' = "flight" => phase = "flight",
           Running' => Running
    PROVE  HandlerInv'
<1>1. Natives' = Natives /\ Foreigns' = Foreigns /\ Ids' = Ids /\ \A e : IsNative(e)' <=> IsNative(e)
  BY SameExceptions
<1>2. \A e : Carried(e)' => Carried(e)
  BY DEF Carried
<1>3. Handled(Natives', caught', count') /\ (Running' => Stacked(Natives', Foreigns', caught', count', ctx'))
  BY <1>1 DEF HandlerInv
<1>4. FlightInv'
  BY DEF HandlerInv, FlightInv
<1>5. UnwindInv'
  BY <1>1, <1>2 DEF HandlerInv, UnwindInv
<1>6. ThrowInv'
  BY <1>1, <1>2 DEF HandlerInv, ThrowInv
<1> QED
  BY <1>3, <1>4, <1>5, <1>6 DEF HandlerInv

LEMMA QuietSteps ==
    ASSUME HandlerInv, VerifyInterposers \/ CallTerminate \/ End \/ UNCHANGED vars
    PROVE  HandlerInv'
<1>1. exc' = exc /\ count' = count /\ caught' = caught /\ ctx' = ctx /\ flight' = flight
  BY DEF VerifyInterposers, CallTerminate, End, vars, runtime
<1>2. (phase' = "flight" => phase = "flight") /\ (Running' => Running)
  BY DEF VerifyInterposers, CallTerminate, End, vars, Running
<1> QED
  BY <1>1, <1>2, QuietStack
-------------------------------------------------------------------------------
(***************************************************************************)
(* __cxa_begin_catch.                                                      *)
(***************************************************************************)
LEMMA BeganCatch ==
    ASSUME TypeInv, HandlerInv, phase = "flight", RealBeginCatch(flight),
           IsNative(flight) \/ caught = <<>>
    PROVE  /\ OnTop(caught, flight, caught', Len(caught'))
           /\ flight \in Natives \/ Len(caught') = 1
           /\ caught' # <<>> /\ Last(caught') = flight
           /\ flight \in Ids
           /\ flight \in Natives => count'[flight] = Mag(count[flight]) + 1
           /\ \A f \in Ids : f # flight => count'[f] = count[f]
           /\ \A f \in Ids : count'[f] \in Int
<1> DEFINE e == flight
           n == Len(caught)
<1>1. /\ e \in Ids /\ \A k \in DOMAIN caught : caught[k] = e => k = n
      /\ e \in Natives <=> IsNative(e)
  BY DEF TypeInv, HandlerInv, FlightInv, Natives
<1>2. /\ n \in Nat /\ DOMAIN caught = 1..n
      /\ caught # <<>> => n \in DOMAIN caught /\ Last(caught) = caught[n]
      /\ caught = <<>> => n = 0
  BY StackFacts
<1>3. caught \in Seq(Ids) /\ DOMAIN count = Ids /\ count[e] \in Int /\ \A f \in Ids : count[f] \in Int
  BY <1>1, Lengths
<1> DEFINE v == IF IsNative(e) THEN (IF count[e] < 0 THEN 1 - count[e] ELSE count[e] + 1) ELSE 0
<1>4. /\ count' = [count EXCEPT ![e] = v]
      /\ caught' = IF caught # <<>> /\ Last(caught) = e THEN caught ELSE Append(caught, e)
  BY DEF RealBeginCatch
<1>5. v \in Int /\ (IsNative(e) => v = Mag(count[e]) + 1)
  BY <1>3 DEF Mag
<1> HIDE DEF v, e, n
<1>6. /\ e \in Natives => count'[e] = Mag(count[e]) + 1
      /\ \A f \in Ids : f # e => count'[f] = count[f]
      /\ \A f \in Ids : count'[f] \in Int
  BY <1>1, <1>3, <1>4, <1>5
<1>7. /\ OnTop(caught, e, caught', Len(caught'))
      /\ e \in Natives \/ Len(caught') = 1
      /\ caught' # <<>> /\ Last(caught') = e
  <2>1. CASE caught # <<>> /\ Last(caught) = e
    <3>1. caught' = caught /\ Len(caught') = n /\ n \in DOMAIN caught /\ caught[n] = e
      BY <1>2, <1>4, <2>1 DEF n
    <3>2. \A k \in 1..n : k \in Nat \ {0} /\ (k # n => k < n)
      BY <1>2
    <3>3. OnTop(caught, e, caught, n)
      BY <1>1, <1>2, <3>1, <3>2 DEF OnTop
    <3>4. e \in Natives
      BY <1>1, <2>1 DEF e
    <3> QED
      BY <2>1, <3>1, <3>3, <3>4
  <2>2. CASE ~(caught # <<>> /\ Last(caught) = e)
    <3>1. caught' = Append(caught, e)
      BY <1>4, <2>2
    <3>2. /\ Len(caught') = n + 1 /\ DOMAIN caught' = 1..(n + 1)
          /\ \A i \in 1..n : caught'[i] = caught[i]
          /\ caught'[n + 1] = e
          /\ caught' \in Seq(Ids)
      BY <1>1, <1>3, <3>1, Pushed DEF n
    <3>3. \A k \in DOMAIN caught : caught[k] # e
      BY <1>1, <1>2, <2>2
    <3>4. /\ \A k \in 1..(n + 1) : k \in Nat \ {0} /\ (k # n + 1 => k < n + 1 /\ k \in 1..n)
          /\ \A k \in 1..n : k \in 1..(n + 1)
          /\ n + 1 \in Nat /\ n + 1 \in 1..(n + 1) /\ n + 1 # 0
      BY <1>2
    <3>5. OnTop(caught, e, caught', n + 1)
      BY <1>2, <3>2, <3>3, <3>4 DEF OnTop
    <3>6. e \in Natives \/ n + 1 = 1
      BY <1>1, <1>2 DEF e
    <3>7. caught' # <<>> /\ Last(caught') = e
      BY <3>2, <3>4, EmptySeq DEF Last
    <3> QED
      BY <3>2, <3>5, <3>6, <3>7
  <2> QED
    BY <2>1, <2>2
<1> QED
  BY <1>1, <1>6, <1>7 DEF e

LEMMA BeganHandled ==
    ASSUME TypeInv, HandlerInv, phase = "flight", RealBeginCatch(flight),
           IsNative(flight) \/ caught = <<>>
    PROVE  Handled(Natives, caught', count')
<1>1. /\ OnTop(caught, flight, caught', Len(caught'))
      /\ flight \in Natives \/ Len(caught') = 1
      /\ flight \in Natives => count'[flight] = Mag(count[flight]) + 1
      /\ \A f \in Ids : f # flight => count'[f] = count[f]
  BY BeganCatch
<1>2. CountedUp(Natives, count, flight, count')
  BY <1>1, StackFacts DEF CountedUp
<1>3. Handled(Natives, caught, count)
  BY DEF HandlerInv
<1> QED
  BY <1>1, <1>2, <1>3, CaughtHandled

\* A handler, or the what() its interposer calls first, is entered.
LEMMA CaughtStack ==
    ASSUME TypeInv, HandlerInv, phase = "flight", RealBeginCatch(flight),
           IsNative(flight) \/ caught = <<>>, exc' = exc, flight' = 0, phase' = "run",
           NEW c \in Context, ContextOK(c, Len(exc)), ctx' = Append(ctx, c),
           c.exc = flight, c.kind = "handler" \/ (c.kind = "what" /\ c.site # "throw")
    PROVE  HandlerInv'
<1> DEFINE m == Len(ctx) + 1
<1>1. /\ OnTop(caught, flight, caught', Len(caught'))
      /\ flight \in Natives \/ Len(caught') = 1
      /\ flight \in Ids
      /\ flight \in Natives => count'[flight] = Mag(count[flight]) + 1
      /\ \A f \in Ids : f # flight => count'[f] = count[f]
  BY BeganCatch
<1>2. /\ Natives \cap Foreigns = {}
      /\ \A f \in Ids : f \in Natives <=> IsNative(f)
      /\ \A f \in Natives : f \in Ids /\ count[f] \in Int
      /\ Contexts(ctx, m) /\ Len(exc) \in Nat
  BY StackFacts
<1>3. /\ Len(ctx) \in Nat
      /\ \A f : /\ Holders(Append(ctx, c), f) =
                     Holders(ctx, f) \cup (IF Holds(c, f) THEN {Len(ctx) + 1} ELSE {})
                /\ Carriers(Append(ctx, c), f) =
                     Carriers(ctx, f) \cup
                       (IF c.kind = "cleanup" /\ c.exc = f THEN {Len(ctx) + 1} ELSE {})
                /\ HeldBy(Append(ctx, c), f) = HeldBy(ctx, f) + (IF Holds(c, f) THEN 1 ELSE 0)
      /\ \A w \in At(Append(ctx, c), "what") :
           \/ /\ w \in At(ctx, "what") /\ Append(ctx, c)[w] = ctx[w]
              /\ Above(Append(ctx, c), w) <=> Above(ctx, w)
           \/ c.kind = "what" /\ w = Len(ctx) + 1 /\ Append(ctx, c)[w] = c
  <2>1. c.kind # "terminate" /\ Len(exc) <= Len(exc)
    BY <1>2
  <2> QED
    BY <1>2, <2>1, EnteredFacts
<1>4. \A f : Holds(c, f) <=> f = flight
  BY DEF Holds
<1>5. \A f : HeldBy(ctx, f) \in Nat
  BY <1>2 DEF Contexts
<1>6. /\ \A f : f # flight => Holders(ctx', f) = Holders(ctx, f)
      /\ \A f : Carriers(ctx', f) = Carriers(ctx, f)
      /\ Holders(ctx', flight) = Holders(ctx, flight) \cup {m}
  BY <1>3, <1>4
<1>7. /\ \A f : f # flight => HeldBy(ctx', f) = HeldBy(ctx, f)
      /\ HeldBy(ctx', flight) = HeldBy(ctx, flight) + 1
  BY <1>3, <1>4, <1>5
<1>8. m \in Nat
  BY <1>3
<1> HIDE DEF m
<1>9. Running /\ Running'
  BY DEF Running
<1>10. Natives' = Natives /\ Foreigns' = Foreigns /\ Ids' = Ids /\ \A e : IsNative(e)' <=> IsNative(e)
  BY SameExceptions
<1>11. Handled(Natives', caught', count')
  BY <1>10, BeganHandled
<1>12. Stacked(Natives', Foreigns', caught', count', ctx')
  <2>1. CountedUp(Natives, count, flight, count')
    BY <1>1, <1>2 DEF CountedUp
  <2>2. Stacked(Natives, Foreigns, caught, count, ctx) /\ Handled(Natives, caught, count)
    BY <1>9 DEF HandlerInv
  <2>3. HeldToo(ctx, flight, m, ctx')
    BY <1>6, <1>7 DEF HeldToo
  <2>4. Stacked(Natives, Foreigns, caught', count', ctx')
    BY <1>1, <1>2, <1>8, <2>1, <2>2, <2>3, CaughtStacked
  <2> QED
    BY <1>10, <2>4
<1>13. FlightInv'
  BY DEF FlightInv
<1>14. Carriers(ctx, flight) = {} /\ Carried(flight)
  BY <1>1, <1>9 DEF HandlerInv, UnwindInv, Carried
<1>15. \A e : Carried(e)' => Carried(e) /\ e # flight
  BY <1>6, <1>14 DEF Carried
<1>16. UnwindInv'
  <2>1. \A e \in Ids : Carried(e)' => /\ Carried(e)
                                      /\ IsNative(e) /\ count[e] <= 0 => count'[e] <= 0
                                      /\ ~IsNative(e) /\ Stacks(caught', e) => Stacks(caught, e)
    BY <1>1, <1>15 DEF OnTop, Stacks
  <2>2. phase' = "flight" => Carriers(ctx', flight') = {}
    OBVIOUS
  <2>3. \A e : Carriers(ctx', e) \subseteq Carriers(ctx, e)
    BY <1>6
  <2> QED
    BY <1>9, <2>1, <2>2, <2>3, UnwindStep DEF HandlerInv
<1>17. ThrowInv'
  <2>1. \A w \in At(ctx', "what") : Above(ctx', w) /\ ctx'[w].site = "throw" =>
          w \in At(ctx, "what") /\ Above(ctx, w) /\ ctx'[w] = ctx[w]
    BY <1>3
  <2>2. \A e \in Ids : IsNative(e) /\ count[e] = 0 /\ ~Carried(e) =>
          IsNative(e)' /\ count'[e] = 0 /\ ~Carried(e)'
    BY <1>1, <1>10, <1>14, <1>15
  <2> QED
    BY <1>9, <2>1, <2>2, ThrowStep DEF HandlerInv
<1> QED
  BY <1>11, <1>12, <1>13, <1>16, <1>17 DEF HandlerInv

LEMMA BeginCatchStack ==
    ASSUME TypeInv, HandlerInv, NEW site \in CatchSites, phase = "flight", BeginCatch(flight, site)
    PROVE  HandlerInv'
<1> DEFINE h == [kind |-> "handler", exc |-> flight, site |-> NoName, type |-> NoName]
           z == [kind |-> "terminate", exc |-> 0, site |-> NoName, type |-> NoName]
<1>1. /\ exc' = exc /\ flight' = 0 /\ flight \in Ids /\ flight \in 1..Len(exc) /\ Len(exc) \in Nat
      /\ ContextsOK(ctx, Len(exc))
  BY Lengths DEF BeginCatch, TypeInv, Ids
<1>2. CASE ~IsNative(flight) /\ caught # <<>>
  <2>1. phase' = "terminate" /\ count' = count /\ caught' = caught
    BY <1>2 DEF BeginCatch
  <2>2. Handled(Natives, caught', count')
    BY <2>1 DEF HandlerInv
  <2> QED
    BY <1>1, <2>1, <2>2, GivenUp
<1>3. CASE IsNative(flight) \/ caught = <<>>
  <2>1. /\ RealBeginCatch(flight)
        /\ \/ Enter("what", flight, site, CaughtType) /\ phase' = "run"
           \/ AfterCatch(flight, site, ctx)
    BY <1>3 DEF BeginCatch
  <2>2. Handled(Natives, caught', count')
    BY <1>3, <2>1, BeganHandled
  <2>3. CASE Enter("what", flight, site, CaughtType) /\ phase' = "run"
    <3> DEFINE c == [kind |-> "what", exc |-> flight, site |-> site, type |-> CaughtType]
    <3>1. ctx' = Append(ctx, c)
      BY <2>3 DEF Enter
    <3>2. CaughtType \in TypeNames
      <4>1. caught' \in Seq(Ids)
        BY <1>1, <2>1, BeganCatchType, SameExceptions
      <4> QED
        BY <1>1, <4>1, CurrentTypeType DEF CaughtType
    <3>3. c \in Context /\ ContextOK(c, Len(exc)) /\ c.kind = "what" /\ c.site # "throw" /\ c.exc = flight
      BY <1>1, <3>2 DEF Context, ContextOK, Kinds, CatchSites, NoName
    <3> HIDE DEF c
    <3> QED
      BY <1>1, <1>3, <2>1, <2>3, <3>1, <3>3, CaughtStack
  <2>4. CASE AfterCatch(flight, site, ctx)
    <3>1. \/ phase' = "run" /\ ctx' = Append(ctx, h)
          \/ phase' = "run" /\ ctx' = Append(ctx, z)
          \/ phase' = "terminate"
      BY <2>4 DEF AfterCatch
    <3>2. h \in Context /\ ContextOK(h, Len(exc)) /\ h.kind = "handler" /\ h.exc = flight
      BY <1>1 DEF Context, ContextOK, Kinds, TypeNames
    <3>3. CASE phase' = "run" /\ ctx' = Append(ctx, h)
      <4> HIDE DEF h
      <4> QED
        BY <1>1, <1>3, <2>1, <3>2, <3>3, CaughtStack
    <3>4. CASE phase' = "run" /\ ctx' = Append(ctx, z)
      <4>1. \A f \in Ids : count'[f] \in Int
        BY <1>3, <2>1, BeganCatch
      <4> QED
        BY <1>1, <2>2, <3>4, <4>1, BuriedStack
    <3>5. CASE phase' = "terminate"
      BY <1>1, <2>2, <3>5, GivenUp
    <3> QED
      BY <3>1, <3>3, <3>4, <3>5
  <2> QED
    BY <2>1, <2>3, <2>4
<1> QED
  BY <1>2, <1>3

LEMMA CatchesStack ==
    ASSUME TypeInv, HandlerInv, Catch \/ GiveUp \/ \E boundary \in Boundaries : MeetNoexcept(boundary)
    PROVE  HandlerInv'
<1>1. CASE Catch
  BY <1>1, BeginCatchStack DEF Catch, CatchSites
<1>2. CASE GiveUp
  BY <1>2, BeginCatchStack DEF GiveUp, CatchSites
<1>3. ASSUME NEW boundary \in Boundaries, MeetNoexcept(boundary)
      PROVE  HandlerInv'
  <2>1. CASE boundary = "direct"
    <3>1. phase' = "terminate" /\ exc' = exc /\ count' = count /\ caught' = caught
      BY <1>3, <2>1 DEF MeetNoexcept, runtime
    <3>2. Handled(Natives, caught', count')
      BY <3>1 DEF HandlerInv
    <3> QED
      BY <3>1, <3>2, GivenUp
  <2>2. CASE boundary # "direct"
    <3>1. boundary \in CatchSites
      BY <2>2, InterposersAssumption DEF CatchSites
    <3> QED
      BY <1>3, <2>2, <3>1, BeginCatchStack DEF MeetNoexcept
  <2> QED
    BY <2>1, <2>2
<1> QED
  BY <1>1, <1>2, <1>3

\* The handler takes the place of the what() that its interposer called.
LEMMA BeginCatchGoesOnStack ==
    ASSUME IInv, HandlerInv, BeginCatchGoesOn
    PROVE  HandlerInv'
<1> DEFINE w == Last(ctx)
           cs == Front(ctx)
           h == [kind |-> "handler", exc |-> w.exc, site |-> NoName, type |-> NoName]
           z == [kind |-> "terminate", exc |-> 0, site |-> NoName, type |-> NoName]
<1>0. TypeInv
  BY DEF IInv
<1>1. /\ In("what") /\ w.site # "throw" /\ phase = "run"
      /\ AfterCatch(w.exc, w.site, cs)
      /\ exc' = exc /\ count' = count /\ caught' = caught /\ flight' = flight
  BY DEF BeginCatchGoesOn, runtime
<1>2. /\ ctx # <<>> /\ ContextsOK(cs, Len(exc)) /\ Len(exc) \in Nat /\ w.exc \in Ids
      /\ w.exc \in 0..Len(exc) /\ At(cs, "what") = {} /\ w.kind = "what" /\ w.exc \in 1..Len(exc)
  BY <1>1, WhatEnds DEF In, Ids
<1>3. Handled(Natives, caught', count')
  BY <1>1 DEF HandlerInv
<1>4. \/ phase' = "run" /\ ctx' = Append(cs, h)
      \/ phase' = "run" /\ ctx' = Append(cs, z)
      \/ phase' = "terminate"
  BY <1>1 DEF AfterCatch
<1>5. CASE phase' = "run" /\ ctx' = Append(cs, z)
  <2>1. \A e \in Ids : count'[e] \in Int
    BY <1>0, <1>1, Lengths
  <2> QED
    BY <1>0, <1>1, <1>2, <1>3, <1>5, <2>1, BuriedStack
<1>6. CASE phase' = "terminate"
  BY <1>1, <1>3, <1>6, GivenUp
<1>7. CASE phase' = "run" /\ ctx' = Append(cs, h)
  <2>1. /\ Len(ctx) \in Nat
        /\ \A f : /\ Holders(cs, f) = Holders(ctx, f) \ {Len(ctx)}
                  /\ Carriers(cs, f) = Carriers(ctx, f) \ {Len(ctx)}
                  /\ Len(ctx) \in Holders(ctx, f) <=> Holds(w, f)
                  /\ Len(ctx) \in Carriers(ctx, f) <=> w.kind = "cleanup" /\ w.exc = f
                  /\ HeldBy(cs, f) = HeldBy(ctx, f) - (IF Holds(w, f) THEN 1 ELSE 0)
    <3>1. w.kind # "terminate"
      BY <1>2
    <3> QED
      BY <1>0, <1>2, <3>1, LeftFacts
  <2>2. h \in Context /\ ContextOK(h, Len(exc)) /\ h.kind = "handler" /\ h.exc = w.exc
    BY <1>2 DEF Context, ContextOK, Kinds, TypeNames
  <2>3. Len(cs) + 1 = Len(ctx)
    <3>1. Len(ctx) \in Nat \ {0} /\ Len(cs) = Len(ctx) - 1
      BY <1>0, <1>2, Popped, Lengths
    <3> QED
      BY <3>1
  <2>4. \A f : Holds(h, f) <=> Holds(w, f)
    BY <1>1, <1>2, <2>2 DEF Holds
  <2>5. \A f : HeldBy(ctx, f) \in Nat
    BY <1>0, StackFacts DEF Contexts
  <2>6. ctx' = Append(cs, h)
    BY <1>7
  <2>7. w.kind # "cleanup"
    BY <1>2
  <2> HIDE DEF h, cs, w
  <2>8. ASSUME NEW f
        PROVE  /\ Holders(ctx', f) = Holders(cs, f) \cup (IF Holds(h, f) THEN {Len(cs) + 1} ELSE {})
               /\ Carriers(ctx', f) =
                    Carriers(cs, f) \cup (IF h.kind = "cleanup" /\ h.exc = f THEN {Len(cs) + 1} ELSE {})
               /\ HeldBy(ctx', f) = HeldBy(cs, f) + (IF Holds(h, f) THEN 1 ELSE 0)
    <3>1. /\ Len(exc) \in Nat /\ Len(exc) <= Len(exc) /\ ContextsOK(cs, Len(exc))
          /\ h \in Context /\ ContextOK(h, Len(exc)) /\ h.kind # "terminate"
      BY <1>2, <2>2
    <3>2. /\ Holders(Append(cs, h), f) = Holders(cs, f) \cup (IF Holds(h, f) THEN {Len(cs) + 1} ELSE {})
          /\ Carriers(Append(cs, h), f) =
               Carriers(cs, f) \cup (IF h.kind = "cleanup" /\ h.exc = f THEN {Len(cs) + 1} ELSE {})
          /\ HeldBy(Append(cs, h), f) = HeldBy(cs, f) + (IF Holds(h, f) THEN 1 ELSE 0)
      BY <3>1, HoldersPushed
    <3> QED
      BY <2>6, <3>2
  <2>9. ASSUME NEW f
        PROVE  /\ Holders(ctx', f) = Holders(ctx, f) /\ HeldBy(ctx', f) = HeldBy(ctx, f)
               /\ Carriers(ctx', f) \subseteq Carriers(ctx, f)
    <3>1. Holders(ctx', f) = Holders(ctx, f)
      BY <2>1, <2>3, <2>4, <2>8
    <3>2. HeldBy(ctx', f) = HeldBy(ctx, f)
      BY <2>1, <2>4, <2>5, <2>8
    <3>3. Carriers(ctx', f) \subseteq Carriers(ctx, f)
      BY <2>1, <2>2, <2>8
    <3> QED
      BY <3>1, <3>2, <3>3
  <2>10. Running /\ Running'
    BY <1>1, <1>7 DEF Running
  <2>11. Stacked(Natives', Foreigns', caught', count', ctx')
    <3>1. Stacked(Natives, Foreigns, caught, count, ctx)
      BY <2>10 DEF HandlerInv
    <3> QED
      BY <1>0, <1>1, <2>9, <3>1, SameHolders
  <2>12. At(ctx', "what") = {}
    <3>1. \A k : At(Append(cs, h), k) = At(cs, k) \cup (IF h.kind = k THEN {Len(cs) + 1} ELSE {})
      <4>1. Len(exc) <= Len(exc)
        BY <1>2
      <4> QED
        BY <1>2, <2>2, <4>1, PushedContext
    <3> QED
      BY <1>2, <2>2, <2>6, <3>1
  <2>13. Natives' = Natives /\ Foreigns' = Foreigns /\ Ids' = Ids /\ \A e : IsNative(e)' <=> IsNative(e)
    BY <1>1, SameExceptions
  <2>14. UnwindInv'
    <3>1. \A e : Carried(e)' => Carried(e)
      BY <1>7, <2>9 DEF Carried
    <3> QED
      BY <1>0, <1>1, <1>7, <2>9, <2>10, <3>1, UnwindStep DEF HandlerInv
  <2> QED
    BY <1>3, <1>7, <2>11, <2>12, <2>13, <2>14 DEF HandlerInv, FlightInv, ThrowInv
<1> QED
  BY <1>4, <1>5, <1>6, <1>7

LEMMA HandlerInit == Init => HandlerInv
<1> SUFFICES ASSUME Init PROVE HandlerInv
  OBVIOUS
<1>1. exc = <<>> /\ ctx = <<>> /\ caught = <<>> /\ phase = "start"
  BY DEF Init
<1>2. Ids = {} /\ DOMAIN ctx = {} /\ DOMAIN caught = {}
  BY <1>1, EmptySeq DEF Ids
<1>3. Natives = {} /\ Foreigns = {}
  BY <1>2 DEF Natives, Foreigns
<1> QED
  BY <1>1, <1>2, <1>3
     DEF HandlerInv, Handled, Stacked, CountsCover, StackOrder, BaseBelow, ForeignBelow, CleanupBelow,
         FlightInv, UnwindInv, ThrowInv, At

LEMMA HandlerNext ==
    ASSUME IInv, HandlerInv, [Next]_vars
    PROVE  HandlerInv'
<1>1. TypeInv
  BY DEF IInv
<1>2. CASE Next
  BY <1>1, <1>2, QuietSteps, CxaThrowStack, RaisesStack, CxaThrowGoesOnStack, CxaRethrowStack,
     CatchesStack, BeginCatchGoesOnStack, CslgTerminateStack, EndCatchStack, RunCleanupStack,
     EndCleanupStack
     DEF Next
<1> QED
  BY <1>2, QuietSteps

LEMMA HandlerInvariance == Spec => [](IInv /\ HandlerInv)
BY InitInv, NextInv, HandlerInit, HandlerNext, PTL DEF Spec
-------------------------------------------------------------------------------
(***************************************************************************)
(* What the lines name.  The label that names a foreign exception on its   *)
(* rethrow line is that of the foreign exception being handled, unless the *)
(* tracer looked away when that one was caught: t_terminating was set, or  *)
(* it was caught inside a what() or on the way to std::terminate there.    *)
(***************************************************************************)
NamedIn(x, verb, name, e) ==
  \/ e = 0
  \/ x[e].class \in {"primary", "dependent"} /\ name = x[e].type
  \/ x[e].class = "forced" /\ name = Forced
  \/ x[e].class = "foreign" /\ name = Foreign
  \/ /\ x[e].class \in {"forced", "foreign"}
     /\ \/ verb = "rethrow" /\ name = Unknown
        \/ verb = "terminate" /\ name \in {InFlight, NothingHandled}

LinesInv == \A i \in DOMAIN log : NamedIn(exc, log[i].verb, log[i].name, log[i].of)

TypesInv ==
  /\ \A e \in Ids : IsNative(e) => exc[e].type \in Types
  /\ \A w \in At(ctx, "what") : IsNative(ctx[w].exc) /\ ctx[w].type = exc[ctx[w].exc].type
  /\ label # NoName => "begin_catch" \in ours
  /\ phase = "start" => label = NoName

Excused(cs, ph, g) ==
  \E w \in At(cs, "what") : \/ ph = "terminate"
                            \/ \E j \in At(cs, "terminate") \cup Holders(cs, g) : w < j

\* ForeignLabel, of one of the exceptions in x.
LabelIn(x, e) ==
  CASE x[e].class = "forced" -> Forced
    [] x[e].class = "foreign" -> Foreign
    [] OTHER -> NoName

LabelInv ==
  \A k \in DOMAIN caught : ~IsNative(caught[k]) =>
    \/ label \in {NoName, LabelIn(exc, caught[k])}
    \/ terminating
    \/ Excused(ctx, phase, caught[k])

NamesInv == LinesInv /\ TypesInv /\ LabelInv

LEMMA LineNamed ==
    ASSUME TypeInv, LinesInv, \A e \in Ids : exc'[e] = exc[e],
           NEW verb, NEW name, NEW e, WriteEvent(verb, name, e), NamedIn(exc', verb, name, e),
           NewLine(verb, name, e) \in Line
    PROVE  LinesInv'
<1> DEFINE l == NewLine(verb, name, e)
<1>1. \A i \in DOMAIN log : NamedIn(exc', log[i].verb, log[i].name, log[i].of)
  <2> SUFFICES ASSUME NEW i \in DOMAIN log
               PROVE  NamedIn(exc', log[i].verb, log[i].name, log[i].of)
    OBVIOUS
  <2>1. NamedIn(exc, log[i].verb, log[i].name, log[i].of) /\ log[i].of \in Ids \cup {0}
    BY DEF LinesInv, TypeInv, TypeOK
  <2>2. CASE log[i].of = 0
    BY <2>2 DEF NamedIn
  <2>3. CASE log[i].of \in Ids
    <3>1. exc'[log[i].of] = exc[log[i].of]
      BY <2>3
    <3> QED
      BY <2>1, <3>1 DEF NamedIn
  <2> QED
    BY <2>1, <2>2, <2>3
<1>2. CASE log' = log
  BY <1>1, <1>2 DEF LinesInv
<1>3. CASE log' = Append(log, l)
  <2>1. log \in Seq(Line) /\ l \in Line
    BY DEF TypeInv
  <2>2. l.verb = verb /\ l.name = name /\ l.of = e
    BY DEF NewLine
  <2> HIDE DEF l
  <2>3. /\ DOMAIN log = 1..Len(log) /\ Len(log) \in Nat
        /\ DOMAIN log' = 1..(Len(log) + 1)
        /\ \A i \in 1..Len(log) : log'[i] = log[i]
        /\ log'[Len(log) + 1] = l
    BY <1>3, <2>1, Pushed
  <2>4. \A i \in 1..(Len(log) + 1) : i \in 1..Len(log) \/ i = Len(log) + 1
    BY <2>3
  <2> QED
    BY <1>1, <2>2, <2>3, <2>4 DEF LinesInv
<1> QED
  BY <1>2, <1>3 DEF WriteEvent, NewLine

LEMMA LinesKept ==
    ASSUME TypeInv, LinesInv, \A e \in Ids : exc'[e] = exc[e], log' = log
    PROVE  LinesInv'
<1> SUFFICES ASSUME NEW i \in DOMAIN log
             PROVE  NamedIn(exc', log[i].verb, log[i].name, log[i].of)
  BY DEF LinesInv
<1>1. NamedIn(exc, log[i].verb, log[i].name, log[i].of) /\ log[i].of \in Ids \cup {0}
  BY DEF LinesInv, TypeInv, TypeOK
<1>2. CASE log[i].of = 0
  BY <1>2 DEF NamedIn
<1>3. CASE log[i].of \in Ids
  <2>1. exc'[log[i].of] = exc[log[i].of]
    BY <1>3
  <2> QED
    BY <1>1, <2>1 DEF NamedIn
<1> QED
  BY <1>1, <1>2, <1>3

LEMMA TypesStep ==
    ASSUME TypeInv, TypesInv, \A e \in Ids : exc'[e] = exc[e],
           \A e \in Ids' : e \in Ids \/ (IsNative(e)' => exc'[e].type \in Types),
           \A w \in At(ctx', "what") :
             \/ w \in At(ctx, "what") /\ ctx'[w] = ctx[w]
             \/ /\ exc'[ctx'[w].exc].class \in {"primary", "dependent"}
                /\ ctx'[w].type = exc'[ctx'[w].exc].type,
           label' = label \/ label' = NoName \/ "begin_catch" \in ours, ours' = ours, phase' # "start"
    PROVE  TypesInv'
<1>1. \A e \in Ids' : IsNative(e)' => exc'[e].type \in Types
  BY DEF TypesInv, IsNative
<1>2. ASSUME NEW w \in At(ctx', "what")
      PROVE  /\ exc'[ctx'[w].exc].class \in {"primary", "dependent"}
             /\ ctx'[w].type = exc'[ctx'[w].exc].type
  <2>1. CASE w \in At(ctx, "what") /\ ctx'[w] = ctx[w]
    <3>1. ctx[w].exc \in Ids /\ IsNative(ctx[w].exc) /\ ctx[w].type = exc[ctx[w].exc].type
      BY <2>1, WhatException DEF TypesInv
    <3>2. exc'[ctx[w].exc] = exc[ctx[w].exc]
      BY <3>1
    <3> QED
      BY <2>1, <3>1, <3>2 DEF IsNative
  <2> QED
    BY <2>1
<1>3. label' # NoName => "begin_catch" \in ours'
  BY DEF TypesInv
<1> QED
  BY <1>1, <1>2, <1>3 DEF TypesInv, IsNative

LEMMA ExcusedGrows ==
    ASSUME NEW cs, NEW cs1, NEW ph, NEW ph1, NEW g, Excused(cs, ph, g),
           At(cs, "what") \subseteq At(cs1, "what"),
           At(cs, "terminate") \subseteq At(cs1, "terminate"),
           Holders(cs, g) \subseteq Holders(cs1, g), ph = "terminate" => ph1 = "terminate"
    PROVE  Excused(cs1, ph1, g)
BY DEF Excused

LEMMA ExcusedBuried ==
    ASSUME NEW n \in Nat, NEW cs, ContextsOK(cs, n), NEW cs1, NEW ph, NEW g, At(cs, "what") # {},
           cs1 = Append(cs, [kind |-> "terminate", exc |-> 0, site |-> NoName, type |-> NoName])
    PROVE  Excused(cs1, ph, g)
<1> DEFINE z == [kind |-> "terminate", exc |-> 0, site |-> NoName, type |-> NoName]
<1>1. z \in Context /\ ContextOK(z, n) /\ z.kind = "terminate" /\ n <= n /\ cs1 = Append(cs, z)
  BY DEF Context, ContextOK, Kinds, TypeNames
<1> HIDE DEF z
<1>2. /\ \A k : At(cs1, k) = At(cs, k) \cup (IF z.kind = k THEN {Len(cs) + 1} ELSE {})
      /\ \A k : At(cs, k) \subseteq 1..Len(cs)
      /\ Len(cs) \in Nat
  BY <1>1, PushedContext
<1>3. PICK w \in At(cs, "what") : TRUE
  OBVIOUS
<1>4. w \in At(cs1, "what") /\ Len(cs) + 1 \in At(cs1, "terminate") /\ w \in 1..Len(cs)
  BY <1>1, <1>2
<1>5. w < Len(cs) + 1
  BY <1>2, <1>4
<1> QED
  BY <1>4, <1>5 DEF Excused

\* The label stays, and so does whatever excuses it.
LEMMA LabelKept ==
    ASSUME TypeInv, LabelInv, label' = label, terminating => terminating',
           \A e \in Ids : exc'[e] = exc[e],
           \A k \in DOMAIN caught' :
             /\ k \in DOMAIN caught /\ caught'[k] = caught[k]
             /\ ~IsNative(caught[k]) /\ Excused(ctx, phase, caught[k]) =>
                  Excused(ctx', phase', caught[k])
    PROVE  LabelInv'
<1> SUFFICES ASSUME NEW k \in DOMAIN caught', ~(exc'[caught'[k]].class \in {"primary", "dependent"})
             PROVE  \/ label' \in {NoName, LabelIn(exc', caught'[k])}
                    \/ terminating'
                    \/ Excused(ctx', phase', caught'[k])
  BY DEF LabelInv, IsNative
<1>1. k \in DOMAIN caught /\ caught'[k] = caught[k] /\ caught[k] \in Ids
  BY StackFacts
<1>2. exc'[caught[k]] = exc[caught[k]]
  BY <1>1
<1>3. ~IsNative(caught[k]) /\ LabelIn(exc', caught'[k]) = LabelIn(exc, caught[k])
  BY <1>1, <1>2 DEF IsNative, LabelIn
<1> QED
  BY <1>1, <1>3 DEF LabelInv

LEMMA LabelCleared ==
    ASSUME label' = NoName
    PROVE  LabelInv'
BY DEF LabelInv

LEMMA EventNamed ==
    ASSUME TypeInv, NamesInv, \A e \in Ids : exc'[e] = exc[e],
           NEW verb \in {"throw", "rethrow", "catch", "terminate"}, NEW name \in EventNames, NEW e \in Nat,
           WriteEvent(verb, name, e), NamedIn(exc', verb, name, e)
    PROVE  LinesInv'
<1>1. NewLine(verb, name, e) \in Line
  BY DEF NewLine, Line
<1> QED
  BY <1>1, LineNamed DEF NamesInv

\* Contexts that hold what() overrides stay, and so do those above them.
LEMMA LabelOutlives ==
    ASSUME TypeInv, LabelInv, label' = label, terminating => terminating',
           \A e \in Ids : exc'[e] = exc[e],
           \A k \in DOMAIN caught' : k \in DOMAIN caught /\ caught'[k] = caught[k],
           At(ctx, "what") \subseteq At(ctx', "what"),
           At(ctx, "terminate") \subseteq At(ctx', "terminate"),
           \A f : Holders(ctx, f) \subseteq Holders(ctx', f),
           phase = "terminate" => phase' = "terminate"
    PROVE  LabelInv'
<1>1. ASSUME NEW g, Excused(ctx, phase, g) PROVE Excused(ctx', phase', g)
  <2>1. Holders(ctx, g) \subseteq Holders(ctx', g)
    OBVIOUS
  <2> QED
    BY <1>1, <2>1, ExcusedGrows
<1>2. \A k \in DOMAIN caught' :
        /\ k \in DOMAIN caught /\ caught'[k] = caught[k]
        /\ ~IsNative(caught[k]) /\ Excused(ctx, phase, caught[k]) => Excused(ctx', phase', caught[k])
  BY <1>1
<1> QED
  BY <1>2, LabelKept

\* A step that neither raises nor reports, and leaves no what().
LEMMA NamesQuiet ==
    ASSUME TypeInv, NamesInv, exc' = exc, log' = log, label' = label, ours' = ours,
           terminating => terminating',
           \A k \in DOMAIN caught' : k \in DOMAIN caught /\ caught'[k] = caught[k],
           At(ctx', "what") = At(ctx, "what"), \A w \in At(ctx', "what") : ctx'[w] = ctx[w],
           At(ctx, "terminate") \subseteq At(ctx', "terminate"),
           \A f : Holders(ctx, f) \subseteq Holders(ctx', f),
           phase = "terminate" => phase' = "terminate", phase' # "start"
    PROVE  NamesInv'
<1>1. \A e \in Ids : exc'[e] = exc[e]
  OBVIOUS
<1>2. LinesInv'
  BY <1>1, LinesKept DEF NamesInv
<1>3. LabelInv'
  BY <1>1, LabelOutlives DEF NamesInv
<1>4. TypesInv'
  <2>1. \A e \in Ids' : e \in Ids \/ (IsNative(e)' => exc'[e].type \in Types)
    BY DEF Ids
  <2>2. \A w \in At(ctx', "what") :
          \/ w \in At(ctx, "what") /\ ctx'[w] = ctx[w]
          \/ /\ exc'[ctx'[w].exc].class \in {"primary", "dependent"}
             /\ ctx'[w].type = exc'[ctx'[w].exc].type
    OBVIOUS
  <2>3. label' = label \/ label' = NoName \/ "begin_catch" \in ours
    OBVIOUS
  <2> QED
    BY <1>1, <2>1, <2>2, <2>3, TypesStep DEF NamesInv
<1> QED
  BY <1>2, <1>3, <1>4 DEF NamesInv

LEMMA QuietNames ==
    ASSUME TypeInv, NamesInv,
           \/ VerifyInterposers \/ CallTerminate \/ End
           \/ MeetNoexcept("direct") \/ UNCHANGED vars
    PROVE  NamesInv'
<1>1. CASE VerifyInterposers
  <2>1. /\ exc' = exc /\ log' = log /\ label' = label /\ ctx' = ctx
        /\ label = NoName /\ phase' # "start"
    BY <1>1 DEF VerifyInterposers, NamesInv, TypesInv, runtime, tracer
  <2>2. \A e \in Ids : exc'[e] = exc[e]
    BY <2>1
  <2>3. LinesInv'
    BY <2>1, <2>2, LinesKept DEF NamesInv
  <2>4. TypesInv'
    BY <2>1 DEF NamesInv, TypesInv, IsNative, Ids
  <2>5. LabelInv'
    BY <2>1, LabelCleared
  <2> QED
    BY <2>3, <2>4, <2>5 DEF NamesInv
<1>2. CASE CallTerminate \/ End \/ MeetNoexcept("direct")
  <2>1. /\ exc' = exc /\ log' = log /\ label' = label /\ ours' = ours /\ terminating' = terminating
        /\ caught' = caught /\ ctx' = ctx /\ phase # "terminate" /\ phase' # "start"
    BY <1>2 DEF CallTerminate, End, MeetNoexcept, NoEvent, runtime, tracer
  <2> QED
    BY <2>1, NamesQuiet
<1>3. CASE UNCHANGED vars
  <2>1. /\ exc' = exc /\ log' = log /\ label' = label /\ ours' = ours /\ terminating' = terminating
        /\ caught' = caught /\ ctx' = ctx /\ phase' = phase
    BY <1>3 DEF vars, runtime, tracer
  <2>2. \A e \in Ids : exc'[e] = exc[e]
    BY <2>1
  <2>3. LinesInv'
    BY <2>1, <2>2, LinesKept DEF NamesInv
  <2>4. TypesInv'
    BY <2>1 DEF NamesInv, TypesInv, IsNative, Ids
  <2>5. LabelInv'
    BY <2>1, <2>2, LabelOutlives DEF NamesInv
  <2> QED
    BY <2>3, <2>4, <2>5 DEF NamesInv
<1> QED
  BY <1>1, <1>2, <1>3

LEMMA CleanupNames ==
    ASSUME TypeInv, NamesInv, RunCleanup \/ EndCleanup
    PROVE  NamesInv'
<1>1. CASE RunCleanup
  <2> DEFINE c == [kind |-> "cleanup", exc |-> flight, site |-> NoName, type |-> NoName]
  <2>1. /\ ctx' = Append(ctx, c) /\ exc' = exc /\ caught' = caught /\ ours' = ours
        /\ log' = log /\ label' = label /\ terminating' = terminating
        /\ phase = "flight" /\ phase' = "run"
    BY <1>1 DEF RunCleanup, Enter, tracer
  <2>2. Len(exc) \in Nat /\ Len(exc) <= Len(exc) /\ flight \in 1..Len(exc) /\ ContextsOK(ctx, Len(exc))
    BY <2>1, Lengths DEF TypeInv, Ids
  <2>3. c \in Context /\ ContextOK(c, Len(exc)) /\ c.kind = "cleanup"
    BY <2>2 DEF Context, ContextOK, Kinds, TypeNames
  <2> HIDE DEF c
  <2>4. \A k : At(ctx', k) = At(ctx, k) \cup (IF c.kind = k THEN {Len(ctx) + 1} ELSE {})
    BY <2>1, <2>2, <2>3, PushedContext
  <2>5. /\ \A f : Holders(ctx, f) \subseteq Holders(ctx', f)
        /\ \A w \in At(ctx', "what") : ctx'[w] = ctx[w]
    <3>1. c.kind # "terminate"
      BY <2>3
    <3>2. /\ \A f : /\ Holders(Append(ctx, c), f) =
                         Holders(ctx, f) \cup (IF Holds(c, f) THEN {Len(ctx) + 1} ELSE {})
                    /\ Carriers(Append(ctx, c), f) =
                         Carriers(ctx, f) \cup
                           (IF c.kind = "cleanup" /\ c.exc = f THEN {Len(ctx) + 1} ELSE {})
                    /\ HeldBy(Append(ctx, c), f) = HeldBy(ctx, f) + (IF Holds(c, f) THEN 1 ELSE 0)
          /\ \A w \in At(Append(ctx, c), "what") :
               \/ /\ w \in At(ctx, "what") /\ Append(ctx, c)[w] = ctx[w]
                  /\ Above(Append(ctx, c), w) <=> Above(ctx, w)
               \/ c.kind = "what" /\ w = Len(ctx) + 1 /\ Append(ctx, c)[w] = c
      BY <2>2, <2>3, <3>1, EnteredFacts
    <3> QED
      BY <2>1, <2>3, <3>2
  <2>6. At(ctx', "what") = At(ctx, "what") /\ At(ctx', "terminate") = At(ctx, "terminate")
    BY <2>3, <2>4
  <2> QED
    BY <2>1, <2>5, <2>6, NamesQuiet
<1>2. CASE EndCleanup
  <2>1. /\ ctx' = Front(ctx) /\ ctx # <<>> /\ Last(ctx).kind = "cleanup"
        /\ exc' = exc /\ caught' = caught /\ ours' = ours
        /\ log' = log /\ label' = label /\ terminating' = terminating
        /\ phase = "run" /\ phase' = "flight"
    BY <1>2 DEF EndCleanup, Fly, In, tracer
  <2>2. Len(exc) \in Nat /\ ContextsOK(ctx, Len(exc)) /\ Last(ctx).kind # "terminate"
    BY <2>1, Lengths DEF TypeInv
  <2>3. /\ \A k : At(ctx', k) = At(ctx, k) \ {Len(ctx)}
        /\ \A k : Last(ctx).kind = k <=> Len(ctx) \in At(ctx, k)
    BY <2>1, <2>2, PoppedContext
  <2>4. At(ctx', "what") = At(ctx, "what") /\ At(ctx', "terminate") = At(ctx, "terminate")
    BY <2>1, <2>3
  <2>5. \A w \in At(ctx', "what") : ctx'[w] = ctx[w]
    BY <2>1, <2>2, LeftWhats
  <2>6. \A f : ~Holds(Last(ctx), f)
    BY <2>1 DEF Holds
  <2>7. \A f : Holders(ctx, f) \subseteq Holders(ctx', f)
    BY <2>1, <2>2, <2>6, LeftFacts
  <2> QED
    BY <2>1, <2>4, <2>5, <2>7, NamesQuiet
<1> QED
  BY <1>1, <1>2

LEMMA KnownType ==
    ASSUME TypeInv, NamesInv, NEW e \in Ids, IsNative(e)
    PROVE  exc[e].type \in Types /\ exc[e].type # NoName /\ exc[e].type \in TypeNames
BY InterposersAssumption DEF NamesInv, TypesInv, TypeNames, NoName

\* A new exception, and perhaps the what() of the throw that raises it.
LEMMA RaisedNames ==
    ASSUME TypeInv, NamesInv, NEW c \in Classes, NEW t \in TypeNames, Raise(c, t),
           c \in {"primary", "dependent"} => t \in Types, phase # "terminate", phase' # "start",
           caught' = caught, ours' = ours, label' = label, terminating' = terminating,
           \/ ctx' = ctx
           \/ /\ c \in {"primary", "dependent"}
              /\ ctx' = Append(ctx, [kind |-> "what", exc |-> Len(exc'), site |-> "throw", type |-> t]),
           LinesInv'
    PROVE  NamesInv'
<1> DEFINE n == Len(exc')
           x == [kind |-> "what", exc |-> n, site |-> "throw", type |-> t]
<1>1. /\ n \notin Ids /\ Ids' = Ids \cup {n}
      /\ exc'[n].class = c /\ exc'[n].type = t
      /\ \A e \in Ids : exc'[e] = exc[e] /\ count'[e] = count[e]
  BY NewException
<1>2. n \in Nat /\ Len(exc) \in Nat /\ Len(exc) <= n /\ n = Len(exc) + 1
  BY RaisedType
<1>3. x \in Context /\ ContextOK(x, n) /\ x.kind = "what" /\ x.exc = n /\ x.type = t
  BY <1>2 DEF Context, ContextOK, Kinds, NoName
<1>4. ctx' = ctx \/ (c \in {"primary", "dependent"} /\ ctx' = Append(ctx, x))
  OBVIOUS
<1> HIDE DEF x, n
<1>5. CASE ctx' = ctx
  <2>1. TypesInv'
    <3>1. \A e \in Ids' : e \in Ids \/ (IsNative(e)' => exc'[e].type \in Types)
      BY <1>1 DEF IsNative
    <3>2. \A e \in Ids : exc'[e] = exc[e]
      BY <1>1
    <3>3. \A w \in At(ctx', "what") : w \in At(ctx, "what") /\ ctx'[w] = ctx[w]
      BY <1>5
    <3> QED
      BY <3>1, <3>2, <3>3, TypesStep DEF NamesInv
  <2>2. LabelInv'
    <3>1. \A e \in Ids : exc'[e] = exc[e]
      BY <1>1
    <3> QED
      BY <1>5, <3>1, LabelOutlives DEF NamesInv
  <2> QED
    BY <2>1, <2>2 DEF NamesInv
<1>6. CASE c \in {"primary", "dependent"} /\ ctx' = Append(ctx, x)
  <2>1. ContextsOK(ctx, Len(exc)) /\ x.kind # "terminate"
    BY <1>3 DEF TypeInv
  <2>2. \A k : At(ctx', k) = At(ctx, k) \cup (IF x.kind = k THEN {Len(ctx) + 1} ELSE {})
    BY <1>2, <1>3, <1>6, <2>1, PushedContext
  <2>3. /\ \A f : Holders(ctx, f) \subseteq Holders(ctx', f)
        /\ \A w \in At(ctx', "what") : (w \in At(ctx, "what") /\ ctx'[w] = ctx[w]) \/ ctx'[w] = x
    <3>1. /\ \A f : /\ Holders(Append(ctx, x), f) =
                         Holders(ctx, f) \cup (IF Holds(x, f) THEN {Len(ctx) + 1} ELSE {})
                    /\ Carriers(Append(ctx, x), f) =
                         Carriers(ctx, f) \cup
                           (IF x.kind = "cleanup" /\ x.exc = f THEN {Len(ctx) + 1} ELSE {})
                    /\ HeldBy(Append(ctx, x), f) = HeldBy(ctx, f) + (IF Holds(x, f) THEN 1 ELSE 0)
          /\ \A w \in At(Append(ctx, x), "what") :
               \/ /\ w \in At(ctx, "what") /\ Append(ctx, x)[w] = ctx[w]
                  /\ Above(Append(ctx, x), w) <=> Above(ctx, w)
               \/ x.kind = "what" /\ w = Len(ctx) + 1 /\ Append(ctx, x)[w] = x
      BY <1>2, <1>3, <2>1, EnteredFacts, ZenonT(60)
    <3> QED
      BY <1>6, <3>1
  <2>4. TypesInv'
    <3>1. \A e \in Ids' : e \in Ids \/ (IsNative(e)' => exc'[e].type \in Types)
      BY <1>1 DEF IsNative
    <3>2. \A e \in Ids : exc'[e] = exc[e]
      BY <1>1
    <3>3. \A w \in At(ctx', "what") :
            \/ w \in At(ctx, "what") /\ ctx'[w] = ctx[w]
            \/ /\ exc'[ctx'[w].exc].class \in {"primary", "dependent"}
               /\ ctx'[w].type = exc'[ctx'[w].exc].type
      BY <1>1, <1>3, <1>6, <2>3
    <3> QED
      BY <3>1, <3>2, <3>3, TypesStep DEF NamesInv
  <2>5. LabelInv'
    <3>1. \A e \in Ids : exc'[e] = exc[e]
      BY <1>1
    <3>2. At(ctx, "what") \subseteq At(ctx', "what") /\ At(ctx, "terminate") \subseteq At(ctx', "terminate")
      BY <2>2
    <3>3. \A k \in DOMAIN caught' : k \in DOMAIN caught /\ caught'[k] = caught[k]
      OBVIOUS
    <3> QED
      BY <2>3, <3>1, <3>2, <3>3, LabelOutlives DEF NamesInv
  <2> QED
    BY <2>4, <2>5 DEF NamesInv
<1> QED
  BY <1>4, <1>5, <1>6

\* The line of a throw or of a std::rethrow_exception.
LEMMA RaiseNamed ==
    ASSUME TypeInv, NamesInv, NEW c \in {"primary", "dependent"}, NEW t \in Types, Raise(c, t),
           NEW verb \in {"throw", "rethrow"},
           NoEvent \/ WriteEvent(verb, ShownName(t, NoName), Len(exc'))
    PROVE  LinesInv'
<1>1. c \in Classes /\ t \in TypeNames
  BY DEF Classes, TypeNames
<1>2. /\ exc'[Len(exc')].class = c /\ exc'[Len(exc')].type = t
      /\ \A e \in Ids : exc'[e] = exc[e] /\ count'[e] = count[e]
  BY <1>1, NewException
<1>3. Len(exc') \in Nat
  BY <1>1, RaisedType
<1>4. ShownName(t, NoName) = t /\ t \in EventNames
  BY InterposersAssumption DEF ShownName, NoName, EventNames, TypeNames
<1>5. NamedIn(exc', verb, ShownName(t, NoName), Len(exc'))
  BY <1>2, <1>4 DEF NamedIn
<1>6. \A e \in Ids : exc'[e] = exc[e]
  BY <1>2
<1>7. CASE NoEvent
  BY <1>6, <1>7, LinesKept DEF NoEvent, NamesInv
<1>8. CASE WriteEvent(verb, ShownName(t, NoName), Len(exc'))
  <2>1. verb \in {"throw", "rethrow", "catch", "terminate"} /\ ShownName(t, NoName) \in EventNames
    BY <1>4
  <2> QED
    BY <1>3, <1>5, <1>6, <1>8, <2>1, EventNamed
<1> QED
  BY <1>7, <1>8

LEMMA RaisesNames ==
    ASSUME TypeInv, NamesInv,
           \/ \E t \in Types : CxaThrow(t) \/ RethrowException(t)
           \/ \E class \in {"forced", "foreign"} : ForeignUnwind(class)
    PROVE  NamesInv'
<1>1. ASSUME NEW t \in Types, CxaThrow(t) PROVE NamesInv'
  <2>1. /\ t \in TypeNames /\ "primary" \in Classes /\ "primary" \in {"primary", "dependent"}
        /\ Raise("primary", t) /\ phase = "run" /\ phase' # "start"
        /\ caught' = caught /\ ours' = ours /\ label' = label /\ terminating' = terminating
    BY <1>1 DEF CxaThrow, Fly, Classes, TypeNames
  <2>2. \/ ctx' = ctx
        \/ ctx' = Append(ctx, [kind |-> "what", exc |-> Len(exc'), site |-> "throw", type |-> t])
    BY <1>1 DEF CxaThrow, Enter
  <2>3. "throw" \in {"throw", "rethrow"} /\ (NoEvent \/ WriteEvent("throw", ShownName(t, NoName), Len(exc')))
    BY <1>1 DEF CxaThrow
  <2>4. LinesInv'
    BY <2>1, <2>3, RaiseNamed
  <2> QED
    BY <2>1, <2>2, <2>4, RaisedNames
<1>2. ASSUME NEW t \in Types, RethrowException(t) PROVE NamesInv'
  <2>1. /\ t \in TypeNames /\ "dependent" \in Classes /\ "dependent" \in {"primary", "dependent"}
        /\ Raise("dependent", t) /\ phase = "run" /\ phase' # "start" /\ ctx' = ctx
        /\ caught' = caught /\ ours' = ours /\ label' = label /\ terminating' = terminating
    BY <1>2 DEF RethrowException, Fly, Classes, TypeNames, tracer
  <2>2. "rethrow" \in {"throw", "rethrow"} /\ (NoEvent \/ WriteEvent("rethrow", ShownName(t, NoName), Len(exc')))
    BY <1>2 DEF RethrowException
  <2>3. LinesInv'
    BY <2>1, <2>2, RaiseNamed
  <2> QED
    BY <2>1, <2>3, RaisedNames
<1>3. ASSUME NEW class \in {"forced", "foreign"}, ForeignUnwind(class) PROVE NamesInv'
  <2>1. /\ NoName \in TypeNames /\ class \in Classes /\ class \notin {"primary", "dependent"}
        /\ Raise(class, NoName) /\ phase = "run" /\ phase' # "start" /\ ctx' = ctx
        /\ caught' = caught /\ ours' = ours /\ label' = label /\ terminating' = terminating /\ log' = log
    BY <1>3 DEF ForeignUnwind, Fly, Classes, TypeNames, tracer, NoEvent
  <2>2. \A e \in Ids : exc'[e] = exc[e] /\ count'[e] = count[e]
    BY <2>1, NewException
  <2>3. \A e \in Ids : exc'[e] = exc[e]
    BY <2>2
  <2>4. LinesInv'
    BY <2>1, <2>3, LinesKept DEF NamesInv
  <2> QED
    BY <2>1, <2>4, RaisedNames
<1> QED
  BY <1>1, <1>2, <1>3

\* Where the tracer does not look away, the label is that of the foreign
\* exception being handled: either nothing excuses it, or what() has just
\* returned and nothing came above it.
LabelTrue ==
  \A k \in DOMAIN caught : ~IsNative(caught[k]) => label \in {NoName, LabelIn(exc, caught[k])}

LEMMA LabelSeen ==
    ASSUME IInv, NamesInv, ~guard, ~terminating
    PROVE  LabelTrue
<1>1. At(ctx, "what") = {}
  BY DEF IInv, GuardInv
<1>2. \A g : ~Excused(ctx, phase, g)
  BY <1>1 DEF Excused
<1> QED
  BY <1>2 DEF NamesInv, LabelInv, LabelTrue

LEMMA LabelAfterWhat ==
    ASSUME IInv, NamesInv, phase = "run", In("what")
    PROVE  /\ LabelTrue
           /\ Last(ctx).exc \in Ids /\ IsNative(Last(ctx).exc)
           /\ Last(ctx).type = exc[Last(ctx).exc].type
           /\ Last(ctx).type \in Types /\ Last(ctx).type # NoName
<1>0. TypeInv
  BY DEF IInv
<1>1. /\ ctx # <<>> /\ At(ctx, "what") = {Len(ctx)} /\ At(ctx, "terminate") \subseteq 1..Len(ctx)
      /\ Len(ctx) \in Nat /\ ~terminating /\ Last(ctx).exc \in Ids
  BY WhatEnds
<1>2. \A g : ~Excused(ctx, phase, g)
  <2> SUFFICES ASSUME NEW g, NEW j \in At(ctx, "terminate") \cup Holders(ctx, g), Len(ctx) < j
               PROVE  FALSE
    BY <1>1 DEF Excused
  <2>1. Len(exc) \in Nat /\ ContextsOK(ctx, Len(exc))
    BY <1>0, StackFacts
  <2>2. Holders(ctx, g) \subseteq 1..Len(ctx)
    BY <2>1, HoldersType
  <2> QED
    BY <1>1, <2>2
<1>3. LabelTrue
  BY <1>1, <1>2 DEF NamesInv, LabelInv, LabelTrue
<1>4. Last(ctx) = ctx[Len(ctx)] /\ Len(ctx) \in At(ctx, "what")
  BY <1>0, <1>1, Popped, Lengths
<1>5. IsNative(Last(ctx).exc) /\ Last(ctx).type = exc[Last(ctx).exc].type
  BY <1>4 DEF NamesInv, TypesInv
<1> QED
  BY <1>0, <1>1, <1>3, <1>5, KnownType

\* A true label stays true while it is not written.
LEMMA LabelStays ==
    ASSUME TypeInv, LabelTrue, exc' = exc, label' = label,
           \A k \in DOMAIN caught' : k \in DOMAIN caught /\ caught'[k] = caught[k]
    PROVE  LabelInv'
BY DEF LabelTrue, LabelInv, IsNative

\* A step without a new exception that leaves the what() it ends, or enters
\* one for a native exception.
LEMMA SameTypes ==
    ASSUME TypeInv, NamesInv, exc' = exc, ours' = ours, phase' # "start",
           label' = label \/ label' = NoName \/ "begin_catch" \in ours,
           \A w \in At(ctx', "what") :
             \/ w \in At(ctx, "what") /\ ctx'[w] = ctx[w]
             \/ /\ exc[ctx'[w].exc].class \in {"primary", "dependent"}
                /\ ctx'[w].type = exc[ctx'[w].exc].type
    PROVE  TypesInv'
<1>1. /\ \A e \in Ids : exc'[e] = exc[e]
      /\ \A e \in Ids' : e \in Ids \/ (IsNative(e)' => exc'[e].type \in Types)
  BY DEF Ids
<1>2. \A w \in At(ctx', "what") :
        \/ w \in At(ctx, "what") /\ ctx'[w] = ctx[w]
        \/ /\ exc'[ctx'[w].exc].class \in {"primary", "dependent"}
           /\ ctx'[w].type = exc'[ctx'[w].exc].type
  OBVIOUS
<1> QED
  BY <1>1, <1>2, TypesStep DEF NamesInv

LEMMA CxaThrowGoesOnNames ==
    ASSUME IInv, NamesInv, CxaThrowGoesOn
    PROVE  NamesInv'
<1> DEFINE w == Last(ctx)
<1>0. TypeInv
  BY DEF IInv
<1>1. /\ In("what") /\ phase = "run" /\ ctx' = Front(ctx)
      /\ WriteEvent("throw", ShownName(w.type, NoName), w.exc)
      /\ exc' = exc /\ caught' = caught /\ ours' = ours /\ label' = label /\ phase' = "flight"
  BY DEF CxaThrowGoesOn, Fly
<1>2. /\ LabelTrue /\ w.exc \in Ids /\ IsNative(w.exc) /\ w.type = exc[w.exc].type
      /\ w.type \in Types /\ w.type # NoName
  BY <1>1, LabelAfterWhat
<1>3. At(ctx', "what") = {}
  BY <1>1, WhatEnds
<1>4. ShownName(w.type, NoName) = w.type /\ w.type \in EventNames /\ w.exc \in Nat
  BY <1>2 DEF ShownName, EventNames, TypeNames, Ids
<1>5. NamedIn(exc', "throw", ShownName(w.type, NoName), w.exc)
  BY <1>1, <1>2, <1>4 DEF NamedIn, IsNative
<1> HIDE DEF w
<1>6. LinesInv'
  <2>1. "throw" \in {"throw", "rethrow", "catch", "terminate"} /\ ShownName(w.type, NoName) \in EventNames
        /\ \A e \in Ids : exc'[e] = exc[e]
    BY <1>1, <1>4
  <2> QED
    BY <1>0, <1>1, <1>4, <1>5, <2>1, EventNamed
<1>7. LabelInv'
  BY <1>0, <1>1, <1>2, LabelStays
<1>8. TypesInv'
  BY <1>0, <1>1, <1>3, SameTypes
<1> QED
  BY <1>6, <1>7, <1>8 DEF NamesInv

LEMMA CxaRethrowNames ==
    ASSUME IInv, NamesInv, CxaRethrow
    PROVE  NamesInv'
<1> DEFINE h == IF caught = <<>> THEN 0 ELSE Last(caught)
           type == CurrentType(caught)
           name == ShownName(type, IF type = NoName THEN label ELSE NoName)
<1>0. TypeInv
  BY DEF IInv
<1>1. /\ exc' = exc /\ ctx' = ctx /\ ours' = ours /\ terminating' = terminating
      /\ phase = "run" /\ phase' # "start" /\ (caught' = caught \/ caught' = <<>>)
      /\ IF Reports("rethrow") THEN label' = NoName /\ WriteEvent("rethrow", name, h)
                               ELSE NoEvent /\ label' = label
  BY DEF CxaRethrow, Fly
<1>2. \A e \in Ids : exc'[e] = exc[e]
  BY <1>1
<1>3. \A k \in DOMAIN caught' : k \in DOMAIN caught /\ caught'[k] = caught[k]
  BY <1>1
<1>4. TypesInv'
  BY <1>0, <1>1, SameTypes
<1>5. CASE ~Reports("rethrow")
  <2>1. log' = log /\ label' = label
    BY <1>1, <1>5 DEF NoEvent
  <2>2. LinesInv'
    BY <1>0, <1>2, <2>1, LinesKept DEF NamesInv
  <2>3. LabelInv'
    BY <1>0, <1>1, <1>2, <1>3, <2>1, LabelOutlives DEF NamesInv
  <2> QED
    BY <1>4, <2>2, <2>3 DEF NamesInv
<1>6. CASE Reports("rethrow")
  <2>1. label' = NoName /\ WriteEvent("rethrow", name, h) /\ ~guard /\ ~terminating
    BY <1>1, <1>6 DEF Reports
  <2>2. LabelTrue
    BY <2>1, LabelSeen
  <2>3. NamedIn(exc', "rethrow", name, h) /\ h \in Nat
    <3>1. CASE caught = <<>>
      BY <3>1 DEF NamedIn
    <3>2. CASE caught # <<>>
      <4>1. h \in Ids /\ Len(caught) \in DOMAIN caught /\ h = caught[Len(caught)] /\ h = Last(caught)
        BY <1>0, <3>2, StackFacts
      <4>2. h \in Nat /\ exc[h].class \in Classes
        BY <1>0, <4>1, Lengths DEF Ids, Exception
      <4>3. CASE IsNative(h)
        <5>1. type = exc[h].type
          BY <3>2, <4>1, <4>3 DEF CurrentType
        <5>2. type # NoName
          BY <1>0, <4>1, <4>3, <5>1, KnownType
        <5>3. name = exc[h].type
          BY <5>1, <5>2 DEF ShownName
        <5> QED
          BY <1>1, <4>2, <4>3, <5>3 DEF NamedIn, IsNative
      <4>4. CASE ~IsNative(h)
        <5>1. type = NoName
          BY <3>2, <4>1, <4>4 DEF CurrentType
        <5>2. label \in {NoName, LabelIn(exc, h)}
          BY <2>2, <4>1, <4>4 DEF LabelTrue
        <5>3. name = Unknown \/ (label # NoName /\ name = label)
          BY <5>1 DEF ShownName
        <5>4. exc[h].class = "forced" \/ exc[h].class = "foreign"
          BY <4>2, <4>4 DEF IsNative, Classes
        <5> HIDE DEF h, name, type
        <5>5. name = Unknown \/ (name = Forced /\ exc[h].class = "forced")
              \/ (name = Foreign /\ exc[h].class = "foreign")
          BY <5>2, <5>3, <5>4 DEF LabelIn
        <5> QED
          BY <1>1, <4>2, <5>4, <5>5 DEF NamedIn
      <4> QED
        BY <4>3, <4>4
    <3> QED
      BY <3>1, <3>2
  <2>4. name \in EventNames
    <3>1. type \in TypeNames
      BY <1>0, Lengths, CurrentTypeType
    <3>2. label \in {NoName, Forced, Foreign} /\ NoName \in {NoName, Forced, Foreign}
      BY <1>0, Flags
    <3> QED
      BY <3>1, <3>2, NamesType
  <2>5. LinesInv'
    <3> HIDE DEF h, name, type
    <3>1. "rethrow" \in {"throw", "rethrow", "catch", "terminate"}
      OBVIOUS
    <3> QED
      BY <1>0, <1>2, <2>1, <2>3, <2>4, <3>1, EventNamed
  <2>6. LabelInv'
    BY <2>1, LabelCleared
  <2> QED
    BY <1>4, <2>5, <2>6 DEF NamesInv
<1> QED
  BY <1>5, <1>6

LEMMA CslgTerminateNames ==
    ASSUME IInv, NamesInv, CslgTerminate
    PROVE  NamesInv'
<1> DEFINE h == IF caught = <<>> THEN 0 ELSE Last(caught)
           type == CurrentType(caught)
           name == IF type # NoName THEN type ELSE IF Uncaught THEN InFlight ELSE NothingHandled
           z == [kind |-> "terminate", exc |-> 0, site |-> NoName, type |-> NoName]
<1>0. TypeInv
  BY DEF IInv
<1>1. /\ exc' = exc /\ ctx' = Append(ctx, z) /\ ours' = ours /\ caught' = caught /\ label' = label
      /\ phase = "terminate" /\ phase' = "run"
      /\ IF Reports("terminate") THEN terminating' = TRUE /\ WriteEvent("terminate", name, h)
                                 ELSE NoEvent /\ terminating' = terminating
  BY DEF CslgTerminate, RunTerminateHandler, Enter
<1>2. \A e \in Ids : exc'[e] = exc[e]
  BY <1>1
<1>3. Len(exc) \in Nat /\ Len(exc) <= Len(exc) /\ ContextsOK(ctx, Len(exc))
  BY <1>0, StackFacts
<1>4. z \in Context /\ ContextOK(z, Len(exc)) /\ z.kind = "terminate"
  BY <1>3 DEF Context, ContextOK, Kinds, TypeNames
<1>5. LabelInv'
  <2>1. ASSUME NEW g, Excused(ctx, phase, g) PROVE Excused(ctx', phase', g)
    <3>1. At(ctx, "what") # {}
      BY <2>1 DEF Excused
    <3> QED
      BY <1>1, <1>3, <3>1, ExcusedBuried
  <2>2. \A k \in DOMAIN caught' :
          /\ k \in DOMAIN caught /\ caught'[k] = caught[k]
          /\ ~IsNative(caught[k]) /\ Excused(ctx, phase, caught[k]) => Excused(ctx', phase', caught[k])
    BY <1>1, <2>1
  <2>3. terminating => terminating'
    BY <1>1
  <2> QED
    BY <1>0, <1>1, <1>2, <2>2, <2>3, LabelKept DEF NamesInv
<1>6. TypesInv'
  <2> HIDE DEF z
  <2>1. At(ctx', "what") = At(ctx, "what")
    <3>1. \A k : At(Append(ctx, z), k) = At(ctx, k) \cup (IF z.kind = k THEN {Len(ctx) + 1} ELSE {})
      BY <1>3, <1>4, PushedContext
    <3> QED
      BY <1>1, <1>4, <3>1
  <2>2. ASSUME NEW w \in At(ctx', "what") PROVE ctx'[w] = ctx[w]
    <3>1. ctx \in Seq(Context)
      BY <1>0, Lengths
    <3>2. \A i \in 1..Len(ctx) : Append(ctx, z)[i] = ctx[i]
      BY <1>4, <3>1, Pushed
    <3>3. w \in 1..Len(ctx)
      BY <2>1, <3>1, LenProperties DEF At
    <3> QED
      BY <1>1, <3>2, <3>3
  <2> QED
    BY <1>0, <1>1, <2>1, <2>2, SameTypes
<1>7. LinesInv'
  <2>1. CASE ~Reports("terminate")
    <3>1. log' = log
      BY <1>1, <2>1 DEF NoEvent
    <3> QED
      BY <1>0, <1>2, <3>1, LinesKept DEF NamesInv
  <2>2. CASE Reports("terminate")
    <3>1. WriteEvent("terminate", name, h)
      BY <1>1, <2>2
    <3>2. NamedIn(exc', "terminate", name, h) /\ h \in Nat
      <4>1. CASE caught = <<>>
        BY <4>1 DEF NamedIn
      <4>2. CASE caught # <<>>
        <5>1. h \in Ids /\ h = Last(caught)
          BY <1>0, <4>2, StackFacts
        <5>2. h \in Nat /\ exc[h].class \in Classes
          BY <1>0, <5>1, Lengths DEF Ids, Exception
        <5>3. CASE IsNative(h)
          <6>1. type = exc[h].type
            BY <4>2, <5>1, <5>3 DEF CurrentType
          <6>2. type # NoName
            BY <1>0, <5>1, <5>3, <6>1, KnownType
          <6> QED
            BY <1>1, <5>2, <5>3, <6>1, <6>2 DEF NamedIn, IsNative
        <5>4. CASE ~IsNative(h)
          <6>1. type = NoName
            BY <4>2, <5>1, <5>4 DEF CurrentType
          <6>2. name \in {InFlight, NothingHandled}
            BY <6>1
          <6>3. exc[h].class = "forced" \/ exc[h].class = "foreign"
            BY <5>2, <5>4 DEF IsNative, Classes
          <6> HIDE DEF h, name, type
          <6> QED
            BY <1>1, <5>2, <6>2, <6>3 DEF NamedIn
        <5> QED
          BY <5>3, <5>4
      <4> QED
        BY <4>1, <4>2
    <3>3. name \in EventNames
      <4>1. type \in TypeNames
        BY <1>0, Lengths, CurrentTypeType
      <4> QED
        BY <4>1 DEF EventNames
    <3> HIDE DEF h, name, type
    <3>4. "terminate" \in {"throw", "rethrow", "catch", "terminate"}
      OBVIOUS
    <3> QED
      BY <1>0, <1>2, <3>1, <3>2, <3>3, <3>4, EventNamed
  <2> QED
    BY <2>1, <2>2
<1> QED
  BY <1>5, <1>6, <1>7 DEF NamesInv

\* A handler is left.  If it is that of a foreign exception, __cxa_end_catch
\* has emptied the stack.
LEMMA EndCatchNames ==
    ASSUME IInv, HandlerInv, NamesInv, UnwindHandler \/ EndHandler
    PROVE  NamesInv'
<1> DEFINE q == Len(ctx)
           x == Last(ctx).exc
           p == Len(caught)
<1>0. TypeInv
  BY DEF IInv
<1>1. /\ ctx # <<>> /\ Last(ctx).kind = "handler" /\ EndCatch /\ ctx' = Front(ctx)
      /\ exc' = exc /\ log' = log /\ label' = label /\ ours' = ours /\ terminating' = terminating
      /\ phase' = phase /\ phase \in {"run", "flight"}
  BY DEF UnwindHandler, EndHandler, In, tracer
<1>2. /\ Handled(Natives, caught, count) /\ Stacked(Natives, Foreigns, caught, count, ctx)
  BY <1>1 DEF HandlerInv, Running
<1>3. /\ \A k \in DOMAIN caught' : /\ k \in DOMAIN caught /\ caught'[k] = caught[k]
                                   /\ k = Len(caught) => k = Len(caught')
  BY <1>0, <1>1, <1>2, EndCatchStacked
<1>4. /\ Natives \cap Foreigns = {} /\ Natives \cup Foreigns = Ids
      /\ \A f \in Ids : f \in Natives <=> IsNative(f)
      /\ \A k \in DOMAIN caught : k \in Nat \ {0} /\ k <= p /\ caught[k] \in Ids
      /\ caught # <<>> => p \in DOMAIN caught /\ Last(caught) = caught[p]
      /\ \A f \in Natives : f \in Ids /\ count[f] \in Int
      /\ Contexts(ctx, q + 1) /\ Len(exc) \in Nat /\ ContextsOK(ctx, Len(exc))
  BY <1>0, StackFacts
<1>5. Last(ctx).kind # "terminate"
  BY <1>1
<1>6. /\ q \in Nat /\ x \in Ids
      /\ \A f : /\ Holders(ctx', f) = Holders(ctx, f) \ {q}
                /\ q \in Holders(ctx, f) <=> Holds(Last(ctx), f)
                /\ \A i \in Holders(ctx, f) : i \in Nat /\ i <= q
  BY <1>0, <1>1, <1>5, LeftFacts
<1>7. \A f : Holds(Last(ctx), f) <=> f = x
  BY <1>1 DEF Holds
<1>8. /\ \A k : At(ctx', k) = At(ctx, k) \ {q}
      /\ \A k : Last(ctx).kind = k <=> q \in At(ctx, k)
  BY <1>1, <1>4, PoppedContext
<1>9. At(ctx', "what") = At(ctx, "what") /\ At(ctx', "terminate") = At(ctx, "terminate")
  <2>1. q \notin At(ctx, "what") /\ q \notin At(ctx, "terminate")
    <3>1. Last(ctx).kind # "what" /\ Last(ctx).kind # "terminate"
      BY <1>1
    <3> HIDE DEF q
    <3> QED
      BY <1>8, <3>1
  <2> HIDE DEF q
  <2> QED
    BY <1>8, <2>1
<1>10. \A w \in At(ctx', "what") : ctx'[w] = ctx[w]
  BY <1>0, <1>1, <1>5, LeftWhats
<1> HIDE DEF q, x, p
<1>12. ASSUME NEW k \in DOMAIN caught', ~IsNative(caught[k]), Excused(ctx, phase, caught[k])
       PROVE  Excused(ctx', phase', caught[k])
  <2>1. Holders(ctx', caught[k]) = Holders(ctx, caught[k])
    BY <1>0, <1>1, <1>2, <1>12, EndCatchStacked
  <2> QED
    BY <1>1, <1>9, <1>12, <2>1 DEF Excused
<1>13. LabelInv'
  <2>1. \A k \in DOMAIN caught' :
          /\ k \in DOMAIN caught /\ caught'[k] = caught[k]
          /\ ~IsNative(caught[k]) /\ Excused(ctx, phase, caught[k]) => Excused(ctx', phase', caught[k])
    BY <1>3, <1>12
  <2>2. \A e \in Ids : exc'[e] = exc[e]
    BY <1>1
  <2> QED
    BY <1>0, <1>1, <2>1, <2>2, LabelKept DEF NamesInv
<1>14. LinesInv'
  BY <1>0, <1>1, LinesKept DEF NamesInv
<1>15. TypesInv'
  BY <1>0, <1>1, <1>9, <1>10, SameTypes
<1> QED
  BY <1>13, <1>14, <1>15 DEF NamesInv

\* The contexts a catch leaves, and what they are worth to the label.
LEMMA AfterCatchContexts ==
    ASSUME NEW n \in Nat, NEW cs, ContextsOK(cs, n), NEW e \in 1..n, NEW site, AfterCatch(e, site, cs)
    PROVE  /\ phase' # "start"
           /\ phase' = "terminate" \/ ctx' # cs
           /\ At(ctx', "what") = At(cs, "what")
           /\ \A w \in At(ctx', "what") : ctx'[w] = cs[w]
           /\ \A g : At(cs, "what") # {} /\ Excused(cs, "flight", g) => Excused(ctx', phase', g)
           /\ ~IsNative(e) /\ At(cs, "what") # {} => Excused(ctx', phase', e)
<1> DEFINE h == [kind |-> "handler", exc |-> e, site |-> NoName, type |-> NoName]
           z == [kind |-> "terminate", exc |-> 0, site |-> NoName, type |-> NoName]
<1>1. \/ phase' = "run" /\ ctx' = Append(cs, h)
      \/ phase' = "run" /\ ctx' = Append(cs, z) /\ IsNative(e)
      \/ phase' = "terminate" /\ ctx' = cs
  BY DEF AfterCatch
<1>2. /\ h \in Context /\ ContextOK(h, n) /\ h.kind = "handler" /\ h.exc = e
      /\ z \in Context /\ ContextOK(z, n) /\ z.kind = "terminate"
  BY DEF Context, ContextOK, Kinds, TypeNames
<1>3. cs \in Seq(Context) /\ Len(cs) \in Nat /\ DOMAIN cs = 1..Len(cs)
  BY LenProperties DEF ContextsOK
<1>4. CASE phase' = "terminate" /\ ctx' = cs
  BY <1>4 DEF Excused
<1>5. CASE phase' = "run" /\ ctx' = Append(cs, h)
  <2> HIDE DEF h
  <2>1. \A k : At(ctx', k) = At(cs, k) \cup (IF h.kind = k THEN {Len(cs) + 1} ELSE {})
    BY <1>2, <1>5, PushedContext
  <2>2. ASSUME NEW g
        PROVE  Holders(ctx', g) = Holders(cs, g) \cup (IF Holds(h, g) THEN {Len(cs) + 1} ELSE {})
    <3>1. n <= n /\ h.kind # "terminate"
      BY <1>2
    <3>2. Holders(Append(cs, h), g) = Holders(cs, g) \cup (IF Holds(h, g) THEN {Len(cs) + 1} ELSE {})
      BY <1>2, <3>1, HoldersPushed
    <3> QED
      BY <1>5, <3>2
  <2>3. At(ctx', "what") = At(cs, "what") /\ At(ctx', "terminate") = At(cs, "terminate")
    BY <1>2, <2>1
  <2>4. \A w \in At(ctx', "what") : ctx'[w] = cs[w]
    <3>1. \A i \in 1..Len(cs) : Append(cs, h)[i] = cs[i]
      BY <1>2, <1>3, Pushed
    <3> QED
      BY <1>3, <1>5, <2>3, <3>1 DEF At
  <2>5. ctx' # cs
    <3>1. Len(Append(cs, h)) = Len(cs) + 1
      BY <1>2, <1>3, Pushed
    <3>2. \A i \in Nat : i + 1 # i
      OBVIOUS
    <3> QED
      BY <1>3, <1>5, <3>1, <3>2
  <2>6. ASSUME NEW g, Excused(cs, "flight", g) PROVE Excused(ctx', phase', g)
    <3>1. Holders(cs, g) \subseteq Holders(ctx', g)
      BY <2>2
    <3> QED
      BY <2>3, <2>6, <3>1, ExcusedGrows
  <2>7. ASSUME At(cs, "what") # {} PROVE Excused(ctx', phase', e)
    <3>1. PICK w \in At(cs, "what") : TRUE
      BY <2>7
    <3>2. w \in 1..Len(cs) /\ w < Len(cs) + 1
      BY <1>3 DEF At
    <3>3. Len(cs) + 1 \in Holders(ctx', e)
      BY <1>2, <2>2 DEF Holds
    <3> QED
      BY <2>3, <3>2, <3>3 DEF Excused
  <2> QED
    BY <1>5, <2>3, <2>4, <2>5, <2>6, <2>7
<1>6. CASE phase' = "run" /\ ctx' = Append(cs, z) /\ IsNative(e)
  <2>1. ASSUME At(cs, "what") # {}, NEW g PROVE Excused(ctx', phase', g)
    BY <1>6, <2>1, ExcusedBuried
  <2> HIDE DEF z
  <2>2. \A k : At(ctx', k) = At(cs, k) \cup (IF z.kind = k THEN {Len(cs) + 1} ELSE {})
    BY <1>2, <1>6, PushedContext, SMTT(30)
  <2>3. At(ctx', "what") = At(cs, "what")
    BY <1>2, <2>2, SMTT(20), ZenonT(40)
  <2>4. \A w \in At(ctx', "what") : ctx'[w] = cs[w]
    <3>1. \A i \in 1..Len(cs) : Append(cs, z)[i] = cs[i]
      BY <1>2, <1>3, Pushed
    <3> QED
      BY <1>3, <1>6, <2>3, <3>1 DEF At
  <2>5. ctx' # cs
    <3>1. Len(Append(cs, z)) = Len(cs) + 1
      BY <1>2, <1>3, Pushed
    <3>2. \A i \in Nat : i + 1 # i
      OBVIOUS
    <3> QED
      BY <1>3, <1>6, <3>1, <3>2
  <2> QED
    BY <1>6, <2>1, <2>3, <2>4, <2>5
<1> QED
  BY <1>1, <1>4, <1>5, <1>6

\* The line of a catch, or of the way to std::terminate behind it.
LEMMA CatchNamed ==
    ASSUME TypeInv, NamesInv, exc' = exc, NEW e \in Ids, NEW site, NEW type, NEW lab,
           IsNative(e) => type = exc[e].type /\ lab = NoName,
           ~IsNative(e) => lab = ForeignLabel(e),
           ReportCatch(e, site, type, lab)
    PROVE  LinesInv'
<1> DEFINE verb == IF site = "program" THEN "catch" ELSE "terminate"
           name == ShownName(type, lab)
<1>1. WriteEvent(verb, name, e)
  BY DEF ReportCatch
<1>2. e \in Nat /\ exc[e].class \in Classes
  BY Lengths DEF Ids, Exception
<1>3. CASE IsNative(e)
  <2>1. name = exc[e].type /\ name \in EventNames
    BY <1>3, KnownType DEF ShownName, EventNames
  <2> QED
    <3> HIDE DEF name
    <3>1. verb \in {"throw", "rethrow", "catch", "terminate"} /\ NamedIn(exc', verb, name, e)
          /\ \A f \in Ids : exc'[f] = exc[f]
      BY <1>3, <2>1 DEF NamedIn, IsNative
    <3> HIDE DEF verb
    <3> QED
      BY <1>1, <1>2, <2>1, <3>1, EventNamed
<1>4. CASE ~IsNative(e)
  <2>1. exc[e].class = "forced" \/ exc[e].class = "foreign"
    BY <1>2, <1>4 DEF IsNative, Classes
  <2>2. (exc[e].class = "forced" /\ lab = Forced) \/ (exc[e].class = "foreign" /\ lab = Foreign)
    BY <1>4, <2>1 DEF ForeignLabel
  <2>3. name = lab /\ name \in EventNames
    BY <2>2 DEF ShownName, NoName, Forced, Foreign, EventNames
  <2> HIDE DEF name
  <2>4. verb \in {"throw", "rethrow", "catch", "terminate"} /\ NamedIn(exc', verb, name, e)
        /\ \A f \in Ids : exc'[f] = exc[f]
    BY <2>2, <2>3 DEF NamedIn
  <2> HIDE DEF verb
  <2> QED
    BY <1>1, <1>2, <2>3, <2>4, EventNamed
<1> QED
  BY <1>3, <1>4

LEMMA BeginCatchNames ==
    ASSUME IInv, HandlerInv, NamesInv, NEW site \in CatchSites, phase = "flight", BeginCatch(flight, site)
    PROVE  NamesInv'
<1> DEFINE e == flight
           c == [kind |-> "what", exc |-> e, site |-> site, type |-> CaughtType]
<1>0. TypeInv
  BY DEF IInv
<1>1. /\ exc' = exc /\ ours' = ours /\ e \in Ids /\ e \in 1..Len(exc) /\ Len(exc) \in Nat
      /\ ContextsOK(ctx, Len(exc)) /\ \A f \in Ids : exc'[f] = exc[f]
  BY <1>0, Lengths DEF BeginCatch, TypeInv, Ids
<1>2. CASE ~IsNative(e) /\ caught # <<>>
  <2>1. /\ phase' = "terminate" /\ caught' = caught /\ ctx' = ctx
        /\ log' = log /\ label' = label /\ terminating' = terminating
    BY <1>2 DEF BeginCatch, NoEvent, tracer
  <2> QED
    BY <1>0, <1>1, <2>1, NamesQuiet
<1>3. CASE IsNative(e) \/ caught = <<>>
  <2>1. /\ RealBeginCatch(e)
        /\ label' = IF Reports("begin_catch") THEN ForeignLabel(e) ELSE label
        /\ \/ /\ Reports("begin_catch") /\ IsNative(e)
              /\ ctx' = Append(ctx, c) /\ phase' = "run"
              /\ NoEvent /\ terminating' = terminating
           \/ /\ AfterCatch(e, site, ctx)
              /\ IF Reports("begin_catch")
                   THEN ReportCatch(e, site, CaughtType, ForeignLabel(e))
                   ELSE NoEvent /\ terminating' = terminating
    BY <1>3 DEF BeginCatch, Enter
  <2>2. /\ OnTop(caught, e, caught', Len(caught'))
        /\ caught' # <<>> /\ Last(caught') = e
    BY <1>0, <1>3, <2>1, BeganCatch
  <2>3. IsNative(e) => CaughtType = exc[e].type /\ ForeignLabel(e) = NoName
    BY <2>2 DEF CaughtType, CurrentType, ForeignLabel, IsNative
  <2>4. \A k \in DOMAIN caught' : caught'[k] = e \/ (k \in DOMAIN caught /\ caught'[k] = caught[k])
    BY <2>2 DEF OnTop
  <2>5. ~IsNative(e) => \A k \in DOMAIN caught' : caught'[k] = e
    BY <1>3, <2>4
  <2>6. label' = label \/ label' = NoName \/ "begin_catch" \in ours
    BY <2>1 DEF Reports
  <2> HIDE DEF c
  <2>7. LinesInv'
    <3>1. CASE NoEvent
      BY <1>0, <1>1, <3>1, LinesKept DEF NoEvent, NamesInv
    <3>2. CASE ReportCatch(e, site, CaughtType, ForeignLabel(e))
      BY <1>0, <1>1, <2>3, <3>2, CatchNamed
    <3> QED
      BY <2>1, <3>1, <3>2
  <2>8. TypesInv'
    <3>1. CASE IsNative(e) /\ ctx' = Append(ctx, c) /\ phase' = "run"
      <4>1. c \in Context /\ ContextOK(c, Len(exc)) /\ c.kind = "what" /\ c.exc = e /\ c.type = exc[e].type
        <5>1. CaughtType \in TypeNames
          BY <1>0, <1>1, <2>3, <3>1, KnownType
        <5> QED
          BY <1>1, <2>3, <3>1, <5>1 DEF c, Context, ContextOK, Kinds, CatchSites, NoName
      <4>2. Len(exc) <= Len(exc) /\ c.kind # "terminate"
        BY <1>1, <4>1
      <4>3. \A w \in At(Append(ctx, c), "what") :
              \/ /\ w \in At(ctx, "what") /\ Append(ctx, c)[w] = ctx[w]
                 /\ Above(Append(ctx, c), w) <=> Above(ctx, w)
              \/ c.kind = "what" /\ w = Len(ctx) + 1 /\ Append(ctx, c)[w] = c
        BY <1>0, <1>1, <4>1, <4>2, EnteredFacts
      <4>4. \A w \in At(ctx', "what") :
              \/ w \in At(ctx, "what") /\ ctx'[w] = ctx[w]
              \/ /\ exc[ctx'[w].exc].class \in {"primary", "dependent"}
                 /\ ctx'[w].type = exc[ctx'[w].exc].type
        <5> SUFFICES ASSUME NEW w \in At(ctx', "what")
                     PROVE  \/ w \in At(ctx, "what") /\ ctx'[w] = ctx[w]
                            \/ /\ exc[ctx'[w].exc].class \in {"primary", "dependent"}
                               /\ ctx'[w].type = exc[ctx'[w].exc].type
          OBVIOUS
        <5>1. (w \in At(ctx, "what") /\ ctx'[w] = ctx[w]) \/ ctx'[w] = c
          BY <3>1, <4>3
        <5>2. ctx'[w] = c => /\ exc[ctx'[w].exc].class \in {"primary", "dependent"}
                             /\ ctx'[w].type = exc[ctx'[w].exc].type
          BY <3>1, <4>1 DEF IsNative
        <5> QED
          BY <5>1, <5>2
      <4>5. phase' # "start"
        BY <3>1
      <4> QED
        BY <1>0, <1>1, <2>6, <4>4, <4>5, SameTypes
    <3>2. CASE AfterCatch(e, site, ctx)
      <4>1. /\ phase' # "start" /\ At(ctx', "what") = At(ctx, "what")
            /\ \A w \in At(ctx', "what") : ctx'[w] = ctx[w]
        BY <1>1, <3>2, AfterCatchContexts
      <4> QED
        BY <1>0, <1>1, <2>6, <4>1, SameTypes
    <3> QED
      BY <2>1, <3>1, <3>2
  <2>9. LabelInv'
    <3>1. CASE Reports("begin_catch")
      <4>1. label' = ForeignLabel(e)
        BY <2>1, <3>1
      <4>2. CASE IsNative(e)
        BY <2>3, <4>1, <4>2, LabelCleared
      <4>3. CASE ~IsNative(e)
        <5>1. \A k \in DOMAIN caught' : label' = LabelIn(exc', caught'[k])
          BY <1>1, <2>5, <4>1, <4>3 DEF LabelIn, ForeignLabel
        <5> QED
          BY <5>1 DEF LabelInv
      <4> QED
        BY <4>2, <4>3
    <3>2. CASE "begin_catch" \notin ours
      <4>1. label' = NoName
        BY <2>1, <3>2 DEF Reports, NamesInv, TypesInv
      <4> QED
        BY <4>1, LabelCleared
    <3>3. CASE ~Reports("begin_catch") /\ terminating
      <4>1. terminating'
        BY <2>1, <3>3
      <4> QED
        BY <4>1 DEF LabelInv
    <3>4. CASE ~Reports("begin_catch") /\ guard
      <4>1. /\ AfterCatch(e, site, ctx) /\ label' = label /\ terminating' = terminating
        BY <2>1, <3>4
      <4>2. At(ctx, "what") # {}
        BY <3>4 DEF IInv, GuardInv
      <4>3. /\ \A g : At(ctx, "what") # {} /\ Excused(ctx, "flight", g) => Excused(ctx', phase', g)
            /\ ~IsNative(e) /\ At(ctx, "what") # {} => Excused(ctx', phase', e)
        BY <1>1, <4>1, AfterCatchContexts
      <4>4. CASE ~IsNative(e)
        BY <2>5, <4>2, <4>3, <4>4 DEF LabelInv
      <4>5. CASE IsNative(e)
        <5> SUFFICES ASSUME NEW k \in DOMAIN caught', ~(exc'[caught'[k]].class \in {"primary", "dependent"})
                     PROVE  \/ label' \in {NoName, LabelIn(exc', caught'[k])}
                            \/ terminating'
                            \/ Excused(ctx', phase', caught'[k])
          BY DEF LabelInv, IsNative
        <5>1. k \in DOMAIN caught /\ caught'[k] = caught[k] /\ ~IsNative(caught[k])
          BY <1>1, <2>4, <4>5 DEF IsNative
        <5>2. \/ label \in {NoName, LabelIn(exc, caught[k])}
              \/ terminating
              \/ Excused(ctx, "flight", caught[k])
          BY <5>1 DEF NamesInv, LabelInv
        <5> QED
          BY <1>1, <4>1, <4>2, <4>3, <5>1, <5>2
      <4> QED
        BY <4>4, <4>5
    <3> QED
      BY <3>1, <3>2, <3>3, <3>4 DEF Reports
  <2> QED
    BY <2>7, <2>8, <2>9 DEF NamesInv
<1> QED
  BY <1>2, <1>3

LEMMA CatchesNames ==
    ASSUME IInv, HandlerInv, NamesInv,
           Catch \/ GiveUp \/ \E boundary \in Boundaries : MeetNoexcept(boundary)
    PROVE  NamesInv'
<1>1. CASE Catch
  BY <1>1, BeginCatchNames DEF Catch, CatchSites
<1>2. CASE GiveUp
  BY <1>2, BeginCatchNames DEF GiveUp, CatchSites
<1>3. ASSUME NEW boundary \in Boundaries, MeetNoexcept(boundary)
      PROVE  NamesInv'
  <2>1. CASE boundary = "direct"
    BY <1>3, <2>1, QuietNames DEF IInv
  <2>2. CASE boundary # "direct"
    <3>1. boundary \in CatchSites
      BY <2>2, InterposersAssumption DEF CatchSites
    <3> QED
      BY <1>3, <2>2, <3>1, BeginCatchNames DEF MeetNoexcept
  <2> QED
    BY <2>1, <2>2
<1> QED
  BY <1>1, <1>2, <1>3

LEMMA BeginCatchGoesOnNames ==
    ASSUME IInv, NamesInv, BeginCatchGoesOn
    PROVE  NamesInv'
<1> DEFINE w == Last(ctx)
<1>0. TypeInv
  BY DEF IInv
<1>1. /\ In("what") /\ phase = "run"
      /\ ReportCatch(w.exc, w.site, w.type, NoName) /\ AfterCatch(w.exc, w.site, Front(ctx))
      /\ exc' = exc /\ caught' = caught /\ ours' = ours /\ label' = label
  BY DEF BeginCatchGoesOn, runtime
<1>2. /\ LabelTrue /\ w.exc \in Ids /\ IsNative(w.exc) /\ w.type = exc[w.exc].type
  BY <1>1, LabelAfterWhat
<1>3. /\ At(Front(ctx), "what") = {} /\ ContextsOK(Front(ctx), Len(exc)) /\ Len(exc) \in Nat
      /\ w.exc \in 1..Len(exc)
  BY <1>1, WhatEnds DEF Ids
<1> HIDE DEF w
<1>4. phase' # "start" /\ At(ctx', "what") = {}
  BY <1>1, <1>3, AfterCatchContexts DEF w
<1>5. LinesInv'
  BY <1>0, <1>1, <1>2, CatchNamed
<1>6. LabelInv'
  BY <1>0, <1>1, <1>2, LabelStays
<1>7. TypesInv'
  BY <1>0, <1>1, <1>4, SameTypes
<1> QED
  BY <1>5, <1>6, <1>7 DEF NamesInv

LEMMA NamesInit == Init => NamesInv
<1> SUFFICES ASSUME Init PROVE NamesInv
  OBVIOUS
<1>1. exc = <<>> /\ ctx = <<>> /\ caught = <<>> /\ log = <<>> /\ label = NoName
  BY DEF Init
<1>2. Ids = {} /\ DOMAIN ctx = {} /\ DOMAIN caught = {} /\ DOMAIN log = {}
  BY <1>1, EmptySeq DEF Ids
<1> QED
  BY <1>1, <1>2 DEF NamesInv, LinesInv, TypesInv, LabelInv, At

LEMMA NamesNext ==
    ASSUME IInv, HandlerInv, NamesInv, [Next]_vars
    PROVE  NamesInv'
<1>1. TypeInv
  BY DEF IInv
<1>2. CASE Next
  BY <1>1, <1>2, QuietNames, RaisesNames, CxaThrowGoesOnNames, CxaRethrowNames, CatchesNames,
     BeginCatchGoesOnNames, CslgTerminateNames, EndCatchNames, CleanupNames
     DEF Next
<1> QED
  BY <1>1, <1>2, QuietNames
-------------------------------------------------------------------------------
(***************************************************************************)
(* Which exception the label is of: the one this thread told of last as    *)
(* caught, with no `throw;` told of since.  First about logs alone.        *)
(***************************************************************************)
LastIn(lg, j, i) ==
  /\ j < i /\ lg[j].verb = "catch"
  /\ \A k \in (j + 1)..(i - 1) : lg[k].verb \notin {"catch", "rethrow"}

LabelName(lab) == IF lab = NoName THEN Unknown ELSE lab

\* A rethrow line the runtime has no type for.
Untyped(x, l) ==
  l.verb = "rethrow" /\ (l.of = 0 \/ x[l.of].class \notin {"primary", "dependent"})

RethrowsNamed(x, lg) ==
  \A i, j \in DOMAIN lg :
    Untyped(x, lg[i]) /\ LastIn(lg, j, i) => lg[i].name = LabelName(LabelIn(x, lg[j].of))

LastNamed(x, lg, lab) ==
  \A j \in DOMAIN lg : LastIn(lg, j, Len(lg) + 1) => lab = LabelIn(x, lg[j].of)

CatchesOf(x, lg) == \A j \in DOMAIN lg : lg[j].verb = "catch" => lg[j].of \in 1..Len(x)

\* More exceptions do not change what the lines say of the earlier ones.
LEMMA OlderLog ==
    ASSUME NEW x, NEW x1, Len(x) \in Nat, Len(x1) \in Nat, Len(x) <= Len(x1),
           \A e \in 1..Len(x) : x1[e] = x[e],
           NEW lg, \A i \in DOMAIN lg : lg[i].of \in 1..Len(x) \cup {0},
           CatchesOf(x, lg)
    PROVE  /\ CatchesOf(x1, lg)
           /\ RethrowsNamed(x, lg) => RethrowsNamed(x1, lg)
           /\ \A lab : LastNamed(x, lg, lab) => LastNamed(x1, lg, lab)
<1>1. CatchesOf(x1, lg)
  BY DEF CatchesOf
<1>2. ASSUME NEW j \in DOMAIN lg, lg[j].verb = "catch"
      PROVE  LabelIn(x1, lg[j].of) = LabelIn(x, lg[j].of)
  <2>1. x1[lg[j].of] = x[lg[j].of]
    BY <1>2 DEF CatchesOf
  <2> QED
    BY <2>1 DEF LabelIn
<1>3. ASSUME NEW i \in DOMAIN lg, Untyped(x1, lg[i])
      PROVE  Untyped(x, lg[i])
  <2>1. lg[i].of = 0 \/ x1[lg[i].of] = x[lg[i].of]
    OBVIOUS
  <2> QED
    BY <1>3, <2>1 DEF Untyped
<1>4. RethrowsNamed(x, lg) => RethrowsNamed(x1, lg)
  <2> SUFFICES ASSUME RethrowsNamed(x, lg), NEW i \in DOMAIN lg, NEW j \in DOMAIN lg,
                      Untyped(x1, lg[i]), LastIn(lg, j, i)
               PROVE  lg[i].name = LabelName(LabelIn(x1, lg[j].of))
    BY DEF RethrowsNamed
  <2>1. Untyped(x, lg[i])
    BY <1>3
  <2>2. lg[i].name = LabelName(LabelIn(x, lg[j].of))
    BY <2>1 DEF RethrowsNamed
  <2>3. lg[j].verb = "catch"
    BY DEF LastIn
  <2>4. LabelIn(x1, lg[j].of) = LabelIn(x, lg[j].of)
    BY <1>2, <2>3
  <2> QED
    BY <2>2, <2>4
<1>5. ASSUME NEW lab, LastNamed(x, lg, lab) PROVE LastNamed(x1, lg, lab)
  <2> SUFFICES ASSUME NEW j \in DOMAIN lg, LastIn(lg, j, Len(lg) + 1)
               PROVE  lab = LabelIn(x1, lg[j].of)
    BY DEF LastNamed
  <2>1. lab = LabelIn(x, lg[j].of)
    BY <1>5 DEF LastNamed
  <2>2. lg[j].verb = "catch"
    BY DEF LastIn
  <2> QED
    BY <1>2, <2>1, <2>2
<1> QED
  BY <1>1, <1>4, <1>5

\* One line more: it is about the last catch before it, and becomes the last
\* catch itself, ends the last one's time, or neither.
LEMMA LongerLog ==
    ASSUME NEW x, NEW lg \in Seq(Line), NEW l \in Line
    PROVE  LET lg1 == Append(lg, l) IN
           /\ CatchesOf(x, lg) /\ (l.verb = "catch" => l.of \in 1..Len(x)) => CatchesOf(x, lg1)
           /\ RethrowsNamed(x, lg) /\ ~Untyped(x, l) => RethrowsNamed(x, lg1)
           /\ \A lab : RethrowsNamed(x, lg) /\ LastNamed(x, lg, lab) /\ l.name = LabelName(lab) =>
                         RethrowsNamed(x, lg1)
           /\ \A lab : l.verb = "rethrow" => LastNamed(x, lg1, lab)
           /\ \A lab : l.verb = "catch" /\ lab = LabelIn(x, l.of) => LastNamed(x, lg1, lab)
           /\ \A lab : l.verb \in {"throw", "terminate"} /\ LastNamed(x, lg, lab) =>
                         LastNamed(x, lg1, lab)
<1> DEFINE lg1 == Append(lg, l)
           n == Len(lg)
<1>1. /\ n \in Nat /\ DOMAIN lg = 1..n /\ DOMAIN lg1 = 1..(n + 1) /\ Len(lg1) = n + 1
      /\ \A i \in 1..n : lg1[i] = lg[i]
      /\ lg1[n + 1] = l
  BY Pushed
<1> HIDE DEF lg1, n
<1>2. ASSUME NEW j \in 1..(n + 1), NEW i \in 1..(n + 1), LastIn(lg1, j, i)
      PROVE  j \in 1..n /\ LastIn(lg, j, i)
  <2>1. j < i /\ j \in 1..n
    BY <1>1, <1>2 DEF LastIn
  <2>2. \A k \in (j + 1)..(i - 1) : k \in 1..n
    BY <1>1, <2>1
  <2> QED
    BY <1>1, <1>2, <2>1, <2>2 DEF LastIn
<1>3. ASSUME NEW j \in 1..(n + 1), LastIn(lg1, j, n + 2), l.verb # "catch"
      PROVE  j \in 1..n /\ LastIn(lg, j, n + 1) /\ l.verb # "rethrow"
  <2>1. j \in 1..n
    BY <1>1, <1>3 DEF LastIn
  <2>2. n + 1 \in (j + 1)..(n + 2 - 1)
    BY <1>1, <2>1
  <2>3. l.verb # "rethrow"
    BY <1>1, <1>3, <2>2 DEF LastIn
  <2>4. \A k \in (j + 1)..(n + 1 - 1) : k \in (j + 1)..(n + 2 - 1) /\ k \in 1..n
    BY <1>1, <2>1
  <2> QED
    BY <1>1, <1>3, <2>1, <2>3, <2>4 DEF LastIn
<1>4. ASSUME NEW j \in 1..(n + 1), LastIn(lg1, j, n + 2), l.verb = "catch"
      PROVE  j = n + 1
  <2>1. CASE j \in 1..n
    <3>1. n + 1 \in (j + 1)..(n + 2 - 1)
      BY <1>1, <2>1
    <3> QED
      BY <1>1, <1>4, <3>1 DEF LastIn
  <2> QED
    BY <1>1, <2>1
<1>5. CatchesOf(x, lg) /\ (l.verb = "catch" => l.of \in 1..Len(x)) => CatchesOf(x, lg1)
  BY <1>1 DEF CatchesOf
<1>6. ASSUME RethrowsNamed(x, lg),
             \A j \in 1..n : Untyped(x, l) /\ LastIn(lg, j, n + 1) =>
               l.name = LabelName(LabelIn(x, lg[j].of))
      PROVE  RethrowsNamed(x, lg1)
  <2> SUFFICES ASSUME NEW i \in 1..(n + 1), NEW j \in 1..(n + 1),
                      Untyped(x, lg1[i]), LastIn(lg1, j, i)
               PROVE  lg1[i].name = LabelName(LabelIn(x, lg1[j].of))
    BY <1>1 DEF RethrowsNamed
  <2>1. j \in 1..n /\ LastIn(lg, j, i) /\ lg1[j] = lg[j]
    BY <1>1, <1>2
  <2>2. CASE i \in 1..n
    <3>1. lg1[i] = lg[i] /\ i \in DOMAIN lg /\ j \in DOMAIN lg
      BY <1>1, <2>1, <2>2
    <3>2. lg[i].name = LabelName(LabelIn(x, lg[j].of))
      BY <1>6, <2>1, <3>1 DEF RethrowsNamed
    <3> QED
      BY <2>1, <3>1, <3>2
  <2>3. CASE i = n + 1
    BY <1>1, <1>6, <2>1, <2>3
  <2> QED
    BY <1>1, <2>2, <2>3
<1>7. RethrowsNamed(x, lg) /\ ~Untyped(x, l) => RethrowsNamed(x, lg1)
  BY <1>6
<1>8. ASSUME NEW lab, RethrowsNamed(x, lg), LastNamed(x, lg, lab), l.name = LabelName(lab)
      PROVE  RethrowsNamed(x, lg1)
  <2>1. \A j \in 1..n : LastIn(lg, j, n + 1) => l.name = LabelName(LabelIn(x, lg[j].of))
    BY <1>1, <1>8 DEF LastNamed, n
  <2> QED
    BY <1>6, <1>8, <2>1
<1>9. n + 1 + 1 = n + 2
  BY <1>1
<1>10. ASSUME NEW lab, l.verb = "rethrow" PROVE LastNamed(x, lg1, lab)
  BY <1>1, <1>3, <1>9, <1>10 DEF LastNamed
<1>11. ASSUME NEW lab, l.verb = "catch", lab = LabelIn(x, l.of) PROVE LastNamed(x, lg1, lab)
  BY <1>1, <1>4, <1>9, <1>11 DEF LastNamed
<1>12. ASSUME NEW lab, l.verb \in {"throw", "terminate"}, LastNamed(x, lg, lab)
       PROVE  LastNamed(x, lg1, lab)
  <2> SUFFICES ASSUME NEW j \in 1..(n + 1), LastIn(lg1, j, n + 2)
               PROVE  lab = LabelIn(x, lg1[j].of)
    BY <1>1, <1>9 DEF LastNamed
  <2>1. j \in 1..n /\ LastIn(lg, j, n + 1)
    BY <1>3, <1>12
  <2> QED
    BY <1>1, <1>12, <2>1 DEF LastNamed, n
<1> QED
  BY <1>5, <1>7, <1>8, <1>10, <1>11, <1>12 DEF lg1

\* Inside the what() of a catch, whose line is still to come.
CatchingWhat(cs) == \E i \in DOMAIN cs : cs[i].kind = "what" /\ cs[i].site # "throw"

LEMMA CatchingPushed ==
    ASSUME NEW cs \in Seq(Context), NEW c \in Context
    PROVE  CatchingWhat(Append(cs, c)) <=>
             (CatchingWhat(cs) \/ (c.kind = "what" /\ c.site # "throw"))
<1>1. /\ Len(cs) \in Nat /\ DOMAIN cs = 1..Len(cs) /\ DOMAIN Append(cs, c) = 1..(Len(cs) + 1)
      /\ \A i \in 1..Len(cs) : Append(cs, c)[i] = cs[i]
      /\ Append(cs, c)[Len(cs) + 1] = c
  BY Pushed
<1>2. \A i \in 1..(Len(cs) + 1) : i \in 1..Len(cs) \/ i = Len(cs) + 1
  BY <1>1
<1>3. \A i \in 1..Len(cs) : i \in 1..(Len(cs) + 1)
  BY <1>1
<1> QED
  BY <1>1, <1>2, <1>3 DEF CatchingWhat

LEMMA CatchingPopped ==
    ASSUME NEW cs \in Seq(Context), cs # <<>>, Last(cs).kind # "what" \/ Last(cs).site = "throw"
    PROVE  CatchingWhat(Front(cs)) <=> CatchingWhat(cs)
<1>1. /\ Len(cs) \in Nat \ {0} /\ DOMAIN cs = 1..Len(cs) /\ DOMAIN Front(cs) = 1..(Len(cs) - 1)
      /\ \A i \in 1..(Len(cs) - 1) : Front(cs)[i] = cs[i]
      /\ Last(cs) = cs[Len(cs)]
  BY Popped
<1>2. \A n \in Nat \ {0} : \A i \in 1..n : i \in 1..(n - 1) \/ i = n
  OBVIOUS
<1>3. \A n \in Nat \ {0} : \A i \in 1..(n - 1) : i \in 1..n
  OBVIOUS
<1> QED
  BY <1>1, <1>2, <1>3 DEF CatchingWhat

\* While a catch waits for what(), its line still to come, the label is already
\* empty, as only a native exception has a what().
CaughtInv ==
  /\ CatchesOf(exc, log)
  /\ ~oom => RethrowsNamed(exc, log)
  /\ ~oom /\ ~terminating /\ ~CatchingWhat(ctx) => LastNamed(exc, log, label)
  /\ CatchingWhat(ctx) => label = NoName

\* A step that leaves the label alone and writes no line of a catch, nor one of
\* a rethrow the label names.
LEMMA CaughtKept ==
    ASSUME TypeInv, CaughtInv, label' = label, oom => oom', terminating => terminating',
           Len(exc') \in Nat, Len(exc) <= Len(exc'), \A e \in Ids : exc'[e] = exc[e],
           CatchingWhat(ctx') <=> CatchingWhat(ctx),
           \/ log' = log
           \/ \E l \in Line : /\ log' = Append(log, l)
                              /\ \/ l.verb \in {"throw", "terminate"}
                                 \/ l.verb = "rethrow" /\ ~Untyped(exc', l)
    PROVE  CaughtInv'
<1>1. /\ Len(exc) \in Nat /\ log \in Seq(Line)
      /\ \A i \in DOMAIN log : log[i].of \in 1..Len(exc) \cup {0}
  BY Lengths DEF TypeInv, TypeOK, Ids
<1>2. /\ CatchesOf(exc', log)
      /\ RethrowsNamed(exc, log) => RethrowsNamed(exc', log)
      /\ \A lab : LastNamed(exc, log, lab) => LastNamed(exc', log, lab)
  BY <1>1, OlderLog DEF CaughtInv, Ids
<1>3. CASE log' = log
  BY <1>2, <1>3 DEF CaughtInv
<1>4. ASSUME NEW l \in Line, log' = Append(log, l),
             l.verb \in {"throw", "terminate"} \/ (l.verb = "rethrow" /\ ~Untyped(exc', l))
      PROVE  CaughtInv'
  <2>1. ~Untyped(exc', l) /\ l.verb # "catch"
    BY <1>4 DEF Untyped
  <2>2. /\ CatchesOf(exc', log')
        /\ RethrowsNamed(exc', log) => RethrowsNamed(exc', log')
        /\ \A lab : l.verb = "rethrow" => LastNamed(exc', log', lab)
        /\ \A lab : l.verb \in {"throw", "terminate"} /\ LastNamed(exc', log, lab) =>
                      LastNamed(exc', log', lab)
    BY <1>1, <1>2, <1>4, <2>1, LongerLog
  <2>3. LastNamed(exc', log, label) => LastNamed(exc', log', label')
    BY <1>4, <2>2
  <2> QED
    BY <1>2, <2>2, <2>3 DEF CaughtInv
<1> QED
  BY <1>3, <1>4

\* The same with the exceptions as they were.
LEMMA CaughtQuiet ==
    ASSUME TypeInv, CaughtInv, exc' = exc, label' = label, oom => oom', terminating => terminating',
           CatchingWhat(ctx') <=> CatchingWhat(ctx), log' = log
    PROVE  CaughtInv'
BY CaughtKept, Lengths

LEMMA QuietCaught ==
    ASSUME TypeInv, CaughtInv,
           \/ VerifyInterposers \/ CallTerminate \/ End
           \/ MeetNoexcept("direct") \/ UNCHANGED vars
    PROVE  CaughtInv'
<1>1. /\ exc' = exc /\ label' = label /\ oom' = oom /\ terminating' = terminating
      /\ ctx' = ctx /\ log' = log
  BY DEF VerifyInterposers, CallTerminate, End, MeetNoexcept, NoEvent, runtime, tracer, vars
<1> QED
  BY <1>1, CaughtQuiet

LEMMA ContextsCaught ==
    ASSUME TypeInv, CaughtInv, RunCleanup \/ EndCleanup \/ UnwindHandler \/ EndHandler
    PROVE  CaughtInv'
<1>1. /\ exc' = exc /\ label' = label /\ oom' = oom /\ terminating' = terminating /\ log' = log
  BY DEF RunCleanup, EndCleanup, UnwindHandler, EndHandler, tracer
<1>2. ctx \in Seq(Context)
  BY Lengths
<1>3. CASE RunCleanup
  <2> DEFINE c == [kind |-> "cleanup", exc |-> flight, site |-> NoName, type |-> NoName]
  <2>1. ctx' = Append(ctx, c) /\ phase = "flight"
    BY <1>3 DEF RunCleanup, Enter
  <2>2. flight \in Nat
    BY <2>1, Lengths DEF TypeInv, Ids
  <2>3. c \in Context /\ c.kind # "what"
    BY <2>2 DEF Context, Kinds, TypeNames
  <2> HIDE DEF c
  <2>4. CatchingWhat(ctx') <=> CatchingWhat(ctx)
    BY <1>2, <2>1, <2>3, CatchingPushed
  <2> QED
    BY <1>1, <2>4, CaughtQuiet
<1>4. CASE EndCleanup \/ UnwindHandler \/ EndHandler
  <2>1. ctx' = Front(ctx) /\ ctx # <<>> /\ Last(ctx).kind # "what"
    BY <1>4 DEF EndCleanup, UnwindHandler, EndHandler, In
  <2>2. CatchingWhat(ctx') <=> CatchingWhat(ctx)
    BY <1>2, <2>1, CatchingPopped
  <2> QED
    BY <1>1, <2>2, CaughtQuiet
<1> QED
  BY <1>3, <1>4

LEMMA RaisesCaught ==
    ASSUME TypeInv, CaughtInv,
           \/ \E t \in Types : CxaThrow(t) \/ RethrowException(t)
           \/ \E class \in {"forced", "foreign"} : ForeignUnwind(class)
    PROVE  CaughtInv'
<1>1. ASSUME NEW c \in Classes, NEW t \in TypeNames, Raise(c, t)
      PROVE  /\ Len(exc') \in Nat /\ Len(exc) <= Len(exc') /\ \A e \in Ids : exc'[e] = exc[e]
             /\ exc'[Len(exc')].class = c /\ Len(exc') # 0
  <2>1. Len(exc) \in Nat /\ Len(exc') = Len(exc) + 1
    BY <1>1, RaisedType
  <2>2. exc'[Len(exc')].class = c /\ \A e \in Ids : exc'[e] = exc[e] /\ count'[e] = count[e]
    BY <1>1, NewException
  <2> QED
    BY <2>1, <2>2
<1>2. ctx \in Seq(Context)
  BY Lengths
<1>3. ASSUME NEW t \in Types PROVE ShownName(t, NoName) \in EventNames /\ t \in TypeNames
  BY <1>3, InterposersAssumption DEF ShownName, NoName, EventNames, TypeNames
<1>4. ASSUME NEW t \in Types, CxaThrow(t) PROVE CaughtInv'
  <2> DEFINE c == [kind |-> "what", exc |-> Len(exc'), site |-> "throw", type |-> t]
             l == NewLine("throw", ShownName(t, NoName), Len(exc'))
  <2>1. /\ Raise("primary", t) /\ "primary" \in Classes /\ t \in TypeNames
        /\ label' = label /\ terminating' = terminating
        /\ \/ ctx' = Append(ctx, c) /\ NoEvent
           \/ ctx' = ctx /\ (NoEvent \/ WriteEvent("throw", ShownName(t, NoName), Len(exc')))
    BY <1>4 DEF CxaThrow, Enter, Classes, TypeNames
  <2>2. /\ Len(exc') \in Nat /\ Len(exc) <= Len(exc') /\ \A e \in Ids : exc'[e] = exc[e]
    BY <1>1, <2>1
  <2>3. c \in Context /\ c.site = "throw"
    BY <2>1, <2>2 DEF Context, Kinds
  <2>4. l \in Line /\ l.verb \in {"throw", "terminate"}
    BY <1>3, <2>2 DEF NewLine, Line
  <2>5. (log' = log \/ log' = Append(log, l)) /\ (oom => oom')
    BY <2>1 DEF NoEvent, WriteEvent, NewLine
  <2> HIDE DEF c, l
  <2>6. CatchingWhat(ctx') <=> CatchingWhat(ctx)
    <3>1. CatchingWhat(Append(ctx, c)) <=> CatchingWhat(ctx)
      BY <1>2, <2>3, CatchingPushed
    <3>2. ctx' = Append(ctx, c) \/ ctx' = ctx
      BY <2>1
    <3> QED
      BY <3>1, <3>2
  <2>7. label' = label /\ terminating' = terminating
    BY <2>1
  <2>8. \/ log' = log
      \/ \E x \in Line : /\ log' = Append(log, x)
                         /\ \/ x.verb \in {"throw", "terminate"}
                            \/ x.verb = "rethrow" /\ ~Untyped(exc', x)
    BY <2>4, <2>5
  <2> QED
    BY <2>2, <2>5, <2>6, <2>7, <2>8, CaughtKept
<1>5. ASSUME NEW t \in Types, RethrowException(t) PROVE CaughtInv'
  <2> DEFINE l == NewLine("rethrow", ShownName(t, NoName), Len(exc'))
  <2>1. /\ Raise("dependent", t) /\ "dependent" \in Classes /\ t \in TypeNames
        /\ label' = label /\ terminating' = terminating /\ ctx' = ctx
        /\ NoEvent \/ WriteEvent("rethrow", ShownName(t, NoName), Len(exc'))
    BY <1>5 DEF RethrowException, Classes, TypeNames, tracer
  <2>2. /\ Len(exc') \in Nat /\ Len(exc) <= Len(exc') /\ \A e \in Ids : exc'[e] = exc[e]
        /\ exc'[Len(exc')].class = "dependent" /\ Len(exc') # 0
    BY <1>1, <2>1
  <2>3. l \in Line /\ l.verb = "rethrow" /\ ~Untyped(exc', l)
    BY <1>3, <2>2 DEF NewLine, Line, Untyped
  <2>4. (log' = log \/ log' = Append(log, l)) /\ (oom => oom')
    BY <2>1 DEF NoEvent, WriteEvent, NewLine
  <2> HIDE DEF l
  <2> QED
    BY <2>1, <2>2, <2>3, <2>4, CaughtKept
<1>6. ASSUME NEW class \in {"forced", "foreign"}, ForeignUnwind(class) PROVE CaughtInv'
  <2>1. /\ Raise(class, NoName) /\ class \in Classes /\ NoName \in TypeNames
        /\ label' = label /\ terminating' = terminating /\ ctx' = ctx /\ log' = log /\ oom' = oom
    BY <1>6 DEF ForeignUnwind, Classes, TypeNames, tracer, NoEvent
  <2>2. /\ Len(exc') \in Nat /\ Len(exc) <= Len(exc') /\ \A e \in Ids : exc'[e] = exc[e]
    BY <1>1, <2>1
  <2> QED
    BY <2>1, <2>2, CaughtKept
<1> QED
  BY <1>4, <1>5, <1>6

LEMMA CxaThrowGoesOnCaught ==
    ASSUME IInv, NamesInv, CaughtInv, CxaThrowGoesOn
    PROVE  CaughtInv'
<1> DEFINE w == Last(ctx)
           l == NewLine("throw", ShownName(w.type, NoName), w.exc)
<1>0. TypeInv /\ ctx \in Seq(Context)
  BY Lengths DEF IInv
<1>1. /\ In("what") /\ ctx # <<>> /\ w.site = "throw" /\ phase = "run" /\ ctx' = Front(ctx)
      /\ WriteEvent("throw", ShownName(w.type, NoName), w.exc)
      /\ exc' = exc /\ label' = label /\ terminating' = terminating
  BY DEF CxaThrowGoesOn, In
<1>2. w.exc \in Ids /\ w.type \in Types /\ w.type # NoName
  BY <1>1, LabelAfterWhat
<1>3. l \in Line /\ l.verb \in {"throw", "terminate"}
  BY <1>2 DEF NewLine, Line, ShownName, EventNames, TypeNames, Ids
<1>4. (log' = log \/ log' = Append(log, l)) /\ (oom => oom')
  BY <1>1 DEF WriteEvent, NewLine
<1> HIDE DEF l
<1>5. CatchingWhat(ctx') <=> CatchingWhat(ctx)
  BY <1>0, <1>1, CatchingPopped
<1>6. Len(exc') \in Nat /\ Len(exc) <= Len(exc') /\ \A e \in Ids : exc'[e] = exc[e]
  BY <1>0, <1>1, Lengths
<1>7. label' = label /\ terminating' = terminating
  BY <1>1
<1>8. \/ log' = log
    \/ \E x \in Line : /\ log' = Append(log, x)
                       /\ \/ x.verb \in {"throw", "terminate"}
                          \/ x.verb = "rethrow" /\ ~Untyped(exc', x)
  BY <1>3, <1>4
<1> QED
  BY <1>0, <1>4, <1>5, <1>6, <1>7, <1>8, CaughtKept

\* A step that writes the label and perhaps a line.
LEMMA CaughtWritten ==
    ASSUME TypeInv, CaughtInv, exc' = exc,
           \/ log' = log /\ oom'
           \/ /\ oom' = oom
              /\ \E l \in Line :
                   /\ log' = Append(log, l) /\ (l.verb = "catch" => l.of \in Ids)
                   /\ \/ ~Untyped(exc, l)
                      \/ ~terminating /\ ~CatchingWhat(ctx) /\ l.name = LabelName(label)
                   /\ \/ l.verb = "rethrow"
                      \/ l.verb = "catch" /\ label' = LabelIn(exc, l.of)
                      \/ terminating',
           CatchingWhat(ctx') => label' = NoName
    PROVE  CaughtInv'
<1>1. CASE log' = log /\ oom'
  BY <1>1 DEF CaughtInv
<1>2. ASSUME oom' = oom, NEW l \in Line,
             log' = Append(log, l), l.verb = "catch" => l.of \in Ids,
             ~Untyped(exc, l) \/ (~terminating /\ ~CatchingWhat(ctx) /\ l.name = LabelName(label)),
             l.verb = "rethrow" \/ (l.verb = "catch" /\ label' = LabelIn(exc, l.of)) \/ terminating'
      PROVE  CaughtInv'
  <2>1. log \in Seq(Line)
    BY Lengths
  <2>2. /\ CatchesOf(exc, log) => CatchesOf(exc, log')
        /\ RethrowsNamed(exc, log) /\ ~Untyped(exc, l) => RethrowsNamed(exc, log')
        /\ \A lab : RethrowsNamed(exc, log) /\ LastNamed(exc, log, lab) /\ l.name = LabelName(lab) =>
                      RethrowsNamed(exc, log')
        /\ \A lab : l.verb = "rethrow" => LastNamed(exc, log', lab)
        /\ \A lab : l.verb = "catch" /\ lab = LabelIn(exc, l.of) => LastNamed(exc, log', lab)
    BY <1>2, <2>1, LongerLog DEF Ids
  <2>3. ~oom => RethrowsNamed(exc, log')
    BY <1>2, <2>2 DEF CaughtInv
  <2>4. terminating' \/ LastNamed(exc, log', label')
    BY <1>2, <2>2
  <2> QED
    BY <1>2, <2>2, <2>3, <2>4 DEF CaughtInv
<1> QED
  BY <1>1, <1>2

LEMMA NoneCatching ==
    ASSUME IInv, ~guard
    PROVE  ~CatchingWhat(ctx) /\ At(ctx, "what") = {}
<1>1. At(ctx, "what") = {}
  BY DEF IInv, GuardInv
<1> QED
  BY <1>1 DEF At, CatchingWhat

LEMMA CxaRethrowCaught ==
    ASSUME IInv, NamesInv, CaughtInv, CxaRethrow
    PROVE  CaughtInv'
<1> DEFINE h == IF caught = <<>> THEN 0 ELSE Last(caught)
           type == CurrentType(caught)
           name == ShownName(type, IF type = NoName THEN label ELSE NoName)
           l == NewLine("rethrow", name, h)
<1>0. TypeInv
  BY DEF IInv
<1>1. /\ exc' = exc /\ ctx' = ctx /\ terminating' = terminating
      /\ IF Reports("rethrow") THEN label' = NoName /\ WriteEvent("rethrow", name, h)
                               ELSE NoEvent /\ label' = label
  BY DEF CxaRethrow, Fly
<1>2. CASE ~Reports("rethrow")
  BY <1>0, <1>1, <1>2, CaughtQuiet DEF NoEvent
<1>3. CASE Reports("rethrow")
  <2>1. label' = NoName /\ ~guard /\ ~terminating
        /\ ((log' = log /\ oom') \/ (log' = Append(log, l) /\ oom' = oom))
    BY <1>1, <1>3 DEF Reports, WriteEvent, NewLine
  <2>2. h \in Nat /\ (h = 0 => caught = <<>>) /\ (h # 0 => h \in Ids /\ caught # <<>> /\ Last(caught) = h)
    BY <1>0, StackFacts DEF Ids
  <2>3. type \in TypeNames /\ label \in {NoName, Forced, Foreign}
    BY <1>0, Lengths, CurrentTypeType, Flags
  <2>4. name \in EventNames
    BY <2>3, NamesType
  <2>5. l \in Line /\ l.verb = "rethrow" /\ l.name = name /\ l.of = h
    BY <2>2, <2>4 DEF NewLine, Line
  <2>6. Untyped(exc, l) => type = NoName
    BY <2>2, <2>5 DEF Untyped, CurrentType, IsNative
  <2>7. type = NoName => name = LabelName(label)
    BY DEF ShownName, LabelName
  <2> HIDE DEF h, type, name, l
  <2>8. ~CatchingWhat(ctx)
    BY <2>1, NoneCatching
  <2>9. ~Untyped(exc, l) \/ (~terminating /\ ~CatchingWhat(ctx) /\ l.name = LabelName(label))
    BY <2>1, <2>5, <2>6, <2>7, <2>8
  <2> QED
    BY <1>0, <1>1, <2>1, <2>5, <2>9, CaughtWritten
<1> QED
  BY <1>2, <1>3

LEMMA CslgTerminateCaught ==
    ASSUME TypeInv, CaughtInv, CslgTerminate
    PROVE  CaughtInv'
<1> DEFINE h == IF caught = <<>> THEN 0 ELSE Last(caught)
           type == CurrentType(caught)
           name == IF type # NoName THEN type ELSE IF Uncaught THEN InFlight ELSE NothingHandled
           l == NewLine("terminate", name, h)
           z == [kind |-> "terminate", exc |-> 0, site |-> NoName, type |-> NoName]
<1>1. /\ exc' = exc /\ ctx' = Append(ctx, z) /\ label' = label
      /\ IF Reports("terminate") THEN terminating' = TRUE /\ WriteEvent("terminate", name, h)
                                 ELSE NoEvent /\ terminating' = terminating
  BY DEF CslgTerminate, RunTerminateHandler, Enter
<1>2. h \in Nat
  BY StackFacts DEF Ids
<1>3. type \in TypeNames
  BY Lengths, CurrentTypeType
<1>4. l \in Line /\ l.verb \in {"throw", "terminate"}
  BY <1>2, <1>3 DEF NewLine, Line, EventNames
<1>5. /\ log' = log \/ log' = Append(log, l)
      /\ oom => oom'
      /\ terminating => terminating'
  BY <1>1 DEF NoEvent, WriteEvent, NewLine
<1>6. ctx \in Seq(Context) /\ z \in Context /\ z.kind # "what"
  BY Lengths DEF Context, Kinds, TypeNames
<1> HIDE DEF h, type, name, l, z
<1>7. CatchingWhat(ctx') <=> CatchingWhat(ctx)
  BY <1>1, <1>6, CatchingPushed
<1>8. Len(exc') \in Nat /\ Len(exc) <= Len(exc') /\ \A e \in Ids : exc'[e] = exc[e]
  BY <1>1, Lengths
<1>9. label' = label
  BY <1>1
<1>10. \/ log' = log
    \/ \E x \in Line : /\ log' = Append(log, x)
                       /\ \/ x.verb \in {"throw", "terminate"}
                          \/ x.verb = "rethrow" /\ ~Untyped(exc', x)
  BY <1>4, <1>5
<1> QED
  BY <1>5, <1>7, <1>8, <1>9, <1>10, CaughtKept

\* The line of a catch, with the label already its own.
LEMMA ReportCaught ==
    ASSUME TypeInv, NamesInv, CaughtInv, exc' = exc, NEW e \in Ids, NEW site \in CatchSites, NEW type, NEW lab,
           IsNative(e) => type = exc[e].type /\ lab = NoName,
           ~IsNative(e) => lab = ForeignLabel(e),
           ReportCatch(e, site, type, lab), label' = LabelIn(exc, e), ~CatchingWhat(ctx')
    PROVE  CaughtInv'
<1> DEFINE verb == IF site = "program" THEN "catch" ELSE "terminate"
           name == ShownName(type, lab)
           l == NewLine(verb, name, e)
<1>1. (log' = log /\ oom') \/ (log' = Append(log, l) /\ oom' = oom)
  BY DEF ReportCatch, WriteEvent, NewLine
<1>2. e \in Nat /\ exc[e].class \in Classes
  BY Lengths DEF Ids, Exception
<1>3. name \in EventNames
  <2>1. CASE IsNative(e)
    BY <2>1, KnownType DEF ShownName, EventNames
  <2>2. CASE ~IsNative(e)
    <3>1. lab \in {Forced, Foreign}
      BY <1>2, <2>2 DEF ForeignLabel, IsNative, Classes
    <3> QED
      BY <3>1 DEF ShownName, NoName, Forced, Foreign, EventNames
  <2> QED
    BY <2>1, <2>2
<1>4. verb \in {"catch", "terminate"} /\ (verb # "catch" => site # "program")
  OBVIOUS
<1> HIDE DEF verb, name
<1>5. l \in Line /\ l.verb = verb /\ l.of = e /\ ~Untyped(exc, l)
  BY <1>2, <1>3, <1>4 DEF NewLine, Line, Untyped
<1>6. verb # "catch" /\ log' = Append(log, l) => terminating'
  <2>1. log' = Append(log, l) => log' # log
    <3>1. log \in Seq(Line)
      BY Lengths
    <3>2. Len(Append(log, l)) = Len(log) + 1 /\ Len(log) \in Nat
      BY <1>5, <3>1, Pushed
    <3>3. Len(log) + 1 # Len(log)
      BY <3>2
    <3> HIDE DEF l
    <3> QED
      BY <3>2, <3>3
  <2> QED
    BY <1>4, <2>1 DEF ReportCatch
<1> HIDE DEF l
<1>7. /\ l.verb = "catch" => l.of \in Ids
      /\ log' = Append(log, l) => (l.verb = "catch" /\ label' = LabelIn(exc, l.of)) \/ terminating'
  BY <1>4, <1>5, <1>6
<1> QED
  BY <1>1, <1>5, <1>7, CaughtWritten

LEMMA AfterCatchCatching ==
    ASSUME TypeInv, NEW e \in Ids, NEW site, NEW cs \in Seq(Context), AfterCatch(e, site, cs)
    PROVE  CatchingWhat(ctx') <=> CatchingWhat(cs)
<1> DEFINE h == [kind |-> "handler", exc |-> e, site |-> NoName, type |-> NoName]
           z == [kind |-> "terminate", exc |-> 0, site |-> NoName, type |-> NoName]
<1>1. ctx' = Append(cs, h) \/ ctx' = Append(cs, z) \/ ctx' = cs
  BY DEF AfterCatch
<1>2. h \in Context /\ h.kind # "what" /\ z \in Context /\ z.kind # "what"
  BY Lengths DEF Context, Kinds, TypeNames, Ids
<1> HIDE DEF h, z
<1>3. CatchingWhat(Append(cs, h)) <=> CatchingWhat(cs)
  BY <1>2, CatchingPushed
<1>4. CatchingWhat(Append(cs, z)) <=> CatchingWhat(cs)
  BY <1>2, CatchingPushed
<1> QED
  BY <1>1, <1>3, <1>4

LEMMA BeginCatchCaught ==
    ASSUME IInv, HandlerInv, NamesInv, CaughtInv, NEW site \in CatchSites, phase = "flight", BeginCatch(flight, site)
    PROVE  CaughtInv'
<1> DEFINE e == flight
           c == [kind |-> "what", exc |-> e, site |-> site, type |-> CaughtType]
<1>0. TypeInv /\ ctx \in Seq(Context)
  BY Lengths DEF IInv
<1>1. exc' = exc /\ e \in Ids /\ e \in Nat /\ exc[e].class \in Classes
  BY <1>0, Lengths DEF BeginCatch, TypeInv, Ids, Exception
<1>2. CASE ~IsNative(e) /\ caught # <<>>
  <2>1. /\ ctx' = ctx /\ log' = log /\ oom' = oom /\ label' = label /\ terminating' = terminating
    BY <1>2 DEF BeginCatch, NoEvent, tracer
  <2> QED
    BY <1>0, <1>1, <2>1, CaughtQuiet
<1>3. CASE IsNative(e) \/ caught = <<>>
  <2>1. /\ RealBeginCatch(e)
        /\ label' = IF Reports("begin_catch") THEN ForeignLabel(e) ELSE label
        /\ \/ /\ Reports("begin_catch") /\ IsNative(e)
              /\ ctx' = Append(ctx, c)
              /\ NoEvent /\ terminating' = terminating
           \/ /\ AfterCatch(e, site, ctx)
              /\ IF Reports("begin_catch")
                   THEN ReportCatch(e, site, CaughtType, ForeignLabel(e))
                   ELSE NoEvent /\ terminating' = terminating
    BY <1>3 DEF BeginCatch, Enter
  <2>2. caught' # <<>> /\ Last(caught') = e
    BY <1>0, <1>3, <2>1, BeganCatch
  <2>3. IsNative(e) => CaughtType = exc[e].type /\ ForeignLabel(e) = NoName
    BY <2>2 DEF CaughtType, CurrentType, ForeignLabel, IsNative
  <2>4. ForeignLabel(e) = LabelIn(exc, e)
    BY DEF ForeignLabel, LabelIn
  <2> HIDE DEF c
  <2>5. CASE ~Reports("begin_catch")
    <3>1. AfterCatch(e, site, ctx) /\ log' = log /\ oom' = oom /\ label' = label /\ terminating' = terminating
      BY <2>1, <2>5 DEF NoEvent
    <3>2. CatchingWhat(ctx') <=> CatchingWhat(ctx)
      BY <1>0, <1>1, <3>1, AfterCatchCatching
    <3> QED
      BY <1>0, <1>1, <3>1, <3>2, CaughtQuiet
  <2>6. CASE Reports("begin_catch") /\ ctx' = Append(ctx, c) /\ IsNative(e) /\ NoEvent /\ terminating' = terminating
    <3>1. c \in Context /\ c.kind = "what" /\ c.site # "throw"
      BY <1>0, <1>1, <2>3, <2>6, KnownType DEF c, Context, Kinds, CatchSites
    <3>2. CatchingWhat(ctx') /\ label' = NoName /\ log' = log /\ oom' = oom
      BY <1>0, <2>1, <2>3, <2>6, <3>1, CatchingPushed DEF NoEvent
    <3> QED
      BY <1>1, <3>2 DEF CaughtInv
  <2>7. CASE Reports("begin_catch") /\ AfterCatch(e, site, ctx)
             /\ ReportCatch(e, site, CaughtType, ForeignLabel(e))
    <3>1. ~CatchingWhat(ctx)
      BY <2>7, NoneCatching DEF Reports
    <3>2. ~CatchingWhat(ctx')
      BY <1>0, <1>1, <2>7, <3>1, AfterCatchCatching
    <3>3. label' = LabelIn(exc, e)
      BY <2>1, <2>4, <2>7
    <3> QED
      BY <1>0, <1>1, <2>3, <2>7, <3>2, <3>3, ReportCaught
  <2> QED
    BY <2>1, <2>5, <2>6, <2>7
<1> QED
  BY <1>2, <1>3

LEMMA CatchesCaught ==
    ASSUME IInv, HandlerInv, NamesInv, CaughtInv,
           Catch \/ GiveUp \/ \E boundary \in Boundaries : MeetNoexcept(boundary)
    PROVE  CaughtInv'
<1>1. CASE Catch
  BY <1>1, BeginCatchCaught DEF Catch, CatchSites
<1>2. CASE GiveUp
  BY <1>2, BeginCatchCaught DEF GiveUp, CatchSites
<1>3. ASSUME NEW boundary \in Boundaries, MeetNoexcept(boundary)
      PROVE  CaughtInv'
  <2>1. CASE boundary = "direct"
    BY <1>3, <2>1, QuietCaught DEF IInv
  <2>2. CASE boundary # "direct"
    <3>1. boundary \in CatchSites
      BY <2>2, InterposersAssumption DEF CatchSites
    <3> QED
      BY <1>3, <2>2, <3>1, BeginCatchCaught DEF MeetNoexcept
  <2> QED
    BY <2>1, <2>2
<1> QED
  BY <1>1, <1>2, <1>3

LEMMA BeginCatchGoesOnCaught ==
    ASSUME IInv, NamesInv, CaughtInv, BeginCatchGoesOn
    PROVE  CaughtInv'
<1> DEFINE w == Last(ctx)
<1>0. TypeInv /\ ctx \in Seq(Context)
  BY Lengths DEF IInv
<1>1. /\ In("what") /\ phase = "run" /\ ctx # <<>> /\ w.kind = "what" /\ w.site # "throw"
      /\ ReportCatch(w.exc, w.site, w.type, NoName) /\ AfterCatch(w.exc, w.site, Front(ctx))
      /\ exc' = exc /\ label' = label
  BY DEF BeginCatchGoesOn, runtime, In
<1>2. w.exc \in Ids /\ IsNative(w.exc) /\ w.type = exc[w.exc].type
  BY <1>1, LabelAfterWhat
<1>3. /\ At(Front(ctx), "what") = {} /\ Front(ctx) \in Seq(Context)
      /\ w.site \in CatchSites
  BY <1>1, WhatEnds DEF ContextsOK
<1>4. Len(ctx) \in DOMAIN ctx /\ ctx[Len(ctx)] = w
  BY <1>0, <1>1, Popped
<1> HIDE DEF w
<1>5. CatchingWhat(ctx)
  BY <1>1, <1>4 DEF CatchingWhat
<1>6. label' = LabelIn(exc, w.exc)
  BY <1>1, <1>2, <1>5 DEF CaughtInv, LabelIn, IsNative
<1>7. ~CatchingWhat(Front(ctx))
  BY <1>3 DEF CatchingWhat, At
<1>8. ~CatchingWhat(ctx')
  BY <1>0, <1>1, <1>2, <1>3, <1>7, AfterCatchCatching
<1> QED
  BY <1>0, <1>1, <1>2, <1>3, <1>6, <1>8, ReportCaught

LEMMA CaughtInit == Init => CaughtInv
<1> SUFFICES ASSUME Init PROVE CaughtInv
  OBVIOUS
<1>1. ctx = <<>> /\ log = <<>>
  BY DEF Init
<1>2. DOMAIN ctx = {} /\ DOMAIN log = {}
  BY <1>1, EmptySeq
<1> QED
  BY <1>2 DEF CaughtInv, CatchesOf, RethrowsNamed, LastNamed, CatchingWhat

LEMMA CaughtNext ==
    ASSUME IInv, HandlerInv, NamesInv, CaughtInv, [Next]_vars
    PROVE  CaughtInv'
<1>1. TypeInv
  BY DEF IInv
<1>2. CASE Next
  BY <1>1, <1>2, QuietCaught, RaisesCaught, CxaThrowGoesOnCaught, CxaRethrowCaught, CatchesCaught,
     BeginCatchGoesOnCaught, CslgTerminateCaught, ContextsCaught
     DEF Next
<1> QED
  BY <1>1, <1>2, QuietCaught

LEMMA NamesInvariance == Spec => [](IInv /\ HandlerInv /\ NamesInv /\ CaughtInv)
<1>1. Init => IInv /\ HandlerInv /\ NamesInv /\ CaughtInv
  BY InitInv, HandlerInit, NamesInit, CaughtInit
<1>2. IInv /\ HandlerInv /\ NamesInv /\ CaughtInv /\ [Next]_vars =>
        (IInv /\ HandlerInv /\ NamesInv /\ CaughtInv)'
  BY NextInv, HandlerNext, NamesNext, CaughtNext
<1> QED
  BY <1>1, <1>2, PTL DEF Spec

\* What a line names, however handlers, destructors, what() overrides and
\* terminate handlers nest, and whichever entry points of exceptions.cpp the
\* program replaces.  A line about an exception never shows another one's name: a
\* rethrow line of one the runtime has no type for is at worst "<unknown type>".
\* And a `throw;` the runtime has no type for shows the label of the exception
\* caught last: lost once a native was caught since, stale when nothing is handled
\* any more.
THEOREM LinesTellOfTheirException == Spec => []LinesNameTheirException
<1>1. ASSUME TypeInv, LinesInv, NEW i \in DOMAIN log, log[i].of # 0
      PROVE  \/ log[i].name = TrueName(log[i].of)
             \/ ~IsNative(log[i].of) /\ log[i].verb = "rethrow" /\ log[i].name = Unknown
             \/ /\ ~IsNative(log[i].of) /\ log[i].verb = "terminate"
                /\ log[i].name \in {InFlight, NothingHandled}
  <2> DEFINE e == log[i].of
  <2>1. NamedIn(exc, log[i].verb, log[i].name, e)
    BY <1>1 DEF LinesInv
  <2>2. exc[e].class \in {"primary", "dependent"} => TrueName(e) = exc[e].type
    BY DEF TrueName, IsNative
  <2>3. exc[e].class = "forced" => ~IsNative(e) /\ TrueName(e) = Forced
    BY DEF TrueName, ForeignLabel, IsNative
  <2>4. exc[e].class = "foreign" => ~IsNative(e) /\ TrueName(e) = Foreign
    BY DEF TrueName, ForeignLabel, IsNative
  <2>5. e # 0
    BY <1>1
  <2> HIDE DEF e
  <2>6. \/ log[i].name = TrueName(e)
        \/ ~IsNative(e) /\ log[i].verb = "rethrow" /\ log[i].name = Unknown
        \/ ~IsNative(e) /\ log[i].verb = "terminate" /\ log[i].name \in {InFlight, NothingHandled}
    BY <2>1, <2>2, <2>3, <2>4, <2>5 DEF NamedIn
  <2> QED
    BY <2>6 DEF e
<1>2. ASSUME TypeInv, CaughtInv, NEW i \in DOMAIN log, NEW j \in DOMAIN log, ~oom,
             log[i].verb = "rethrow", log[i].of = 0 \/ ~IsNative(log[i].of), LastCatch(j, i)
      PROVE  log[i].name = IF IsNative(log[j].of) THEN Unknown ELSE TrueName(log[j].of)
  <2>1. Untyped(exc, log[i]) /\ LastIn(log, j, i)
    BY <1>2 DEF Untyped, IsNative, LastCatch, LastIn
  <2>2. log[i].name = LabelName(LabelIn(exc, log[j].of))
    BY <1>2, <2>1 DEF CaughtInv, RethrowsNamed
  <2>3. log[j].of \in Ids /\ exc[log[j].of].class \in Classes
    <3>1. log[j].of \in Ids
      BY <1>2, <2>1 DEF CaughtInv, CatchesOf, LastIn, Ids
    <3>2. exc[log[j].of] \in Exception
      BY <1>2, <3>1, Lengths
    <3> QED
      BY <3>1, <3>2 DEF Exception
  <2>4. CASE IsNative(log[j].of)
    BY <2>2, <2>4 DEF IsNative, LabelIn, LabelName
  <2>5. CASE ~IsNative(log[j].of)
    <3>1. exc[log[j].of].class = "forced" \/ exc[log[j].of].class = "foreign"
      BY <2>3, <2>5 DEF IsNative, Classes
    <3> QED
      BY <2>2, <2>5, <3>1 DEF LabelIn, LabelName, TrueName, ForeignLabel, NoName, Forced, Foreign
  <2> QED
    BY <2>4, <2>5
<1>3. IInv /\ HandlerInv /\ NamesInv /\ CaughtInv => LinesNameTheirException
  <2> SUFFICES ASSUME TypeInv, LinesInv, CaughtInv PROVE LinesNameTheirException
    BY DEF IInv, NamesInv
  <2> QED
    BY <1>1, <1>2 DEF LinesNameTheirException
<1> QED
  BY <1>3, NamesInvariance, PTL
-------------------------------------------------------------------------------
(***************************************************************************)
(* The lines of one exception alternate: raised, caught, raised again.     *)
(* First about logs alone: what one line more does to the lines of the     *)
(* exception it is about, and of the others.                               *)
(***************************************************************************)
Mine(lg, e) == {i \in DOMAIN lg : lg[i].of = e /\ lg[i].verb # "terminate"}

CaughtLast(lg, e) ==
  \E i \in Mine(lg, e) : lg[i].verb = "catch" /\ \A k \in Mine(lg, e) : k <= i

ThrownLast(lg, e) ==
  \E i \in Mine(lg, e) : lg[i].verb # "catch" /\ \A k \in Mine(lg, e) : k <= i

Alternates(lg, native, e) ==
  /\ \A i \in Mine(lg, e) :
       (\A k \in Mine(lg, e) : i <= k) => (lg[i].verb = "catch" <=> ~native)
  /\ \A i, j \in Mine(lg, e) :
       i < j /\ (\A k \in Mine(lg, e) : k <= i \/ j <= k) =>
         (lg[i].verb = "catch" <=> lg[j].verb # "catch")

SameLines(lg, lg1, e) ==
  Mine(lg1, e) = Mine(lg, e) /\ \A i \in Mine(lg, e) : lg1[i].verb = lg[i].verb

OneLineMore(lg, lg1, e, n, v) ==
  /\ n \in Nat /\ Mine(lg1, e) = Mine(lg, e) \cup {n} /\ lg1[n].verb = v
  /\ \A i \in Mine(lg, e) : i \in Nat /\ i < n /\ lg1[i].verb = lg[i].verb

LEMMA SameTold ==
    ASSUME NEW lg, NEW lg1, NEW e, SameLines(lg, lg1, e)
    PROVE  /\ CaughtLast(lg1, e) <=> CaughtLast(lg, e)
           /\ ThrownLast(lg1, e) <=> ThrownLast(lg, e)
           /\ Mine(lg1, e) = Mine(lg, e)
           /\ \A native : Alternates(lg, native, e) => Alternates(lg1, native, e)
BY DEF SameLines, CaughtLast, ThrownLast, Alternates

LEMMA MoreTold ==
    ASSUME NEW lg, NEW lg1, NEW e, NEW n, NEW v, OneLineMore(lg, lg1, e, n, v)
    PROVE  /\ v = "catch" => CaughtLast(lg1, e)
           /\ v # "catch" => ThrownLast(lg1, e)
           /\ \A native \in BOOLEAN :
                /\ Alternates(lg, native, e)
                /\ v = "catch" => ThrownLast(lg, e) \/ (Mine(lg, e) = {} /\ ~native)
                /\ v # "catch" => CaughtLast(lg, e) \/ (Mine(lg, e) = {} /\ native)
                => Alternates(lg1, native, e)
<1> DEFINE M == Mine(lg, e)
<1>1. /\ n \in Nat /\ Mine(lg1, e) = M \cup {n} /\ lg1[n].verb = v
      /\ \A i \in M : i \in Nat /\ i < n /\ lg1[i].verb = lg[i].verb
  BY DEF OneLineMore
<1> HIDE DEF M
<1>2. \A k \in M \cup {n} : k <= n
  BY <1>1
<1>3. (v = "catch" => CaughtLast(lg1, e)) /\ (v # "catch" => ThrownLast(lg1, e))
  BY <1>1, <1>2 DEF CaughtLast, ThrownLast
<1>4. ASSUME NEW native \in BOOLEAN, Alternates(lg, native, e),
             v = "catch" => ThrownLast(lg, e) \/ (Mine(lg, e) = {} /\ ~native),
             v # "catch" => CaughtLast(lg, e) \/ (Mine(lg, e) = {} /\ native)
      PROVE  Alternates(lg1, native, e)
  <2>1. /\ \A i \in M : (\A k \in M : i <= k) => (lg[i].verb = "catch" <=> ~native)
        /\ \A i, j \in M : i < j /\ (\A k \in M : k <= i \/ j <= k) =>
             (lg[i].verb = "catch" <=> lg[j].verb # "catch")
    BY <1>4 DEF Alternates, M
  <2>2. ASSUME NEW i \in M \cup {n}, \A k \in M \cup {n} : i <= k
        PROVE  lg1[i].verb = "catch" <=> ~native
    <3>1. CASE i \in M
      BY <1>1, <2>1, <2>2, <3>1
    <3>2. CASE i = n
      <4>1. M = {}
        <5> SUFFICES ASSUME NEW k \in M PROVE FALSE
          OBVIOUS
        <5>1. n <= k /\ k < n /\ k \in Nat /\ n \in Nat
          BY <1>1, <2>2, <3>2
        <5> QED
          BY <5>1
      <4>2. ~CaughtLast(lg, e) /\ ~ThrownLast(lg, e)
        BY <4>1 DEF CaughtLast, ThrownLast, M
      <4> QED
        BY <1>1, <1>4, <3>2, <4>2
    <3> QED
      BY <3>1, <3>2
  <2>3. ASSUME NEW i \in M \cup {n}, NEW j \in M \cup {n}, i < j,
               \A k \in M \cup {n} : k <= i \/ j <= k
        PROVE  lg1[i].verb = "catch" <=> lg1[j].verb # "catch"
    <3>1. i \in M
      <4> SUFFICES ASSUME i = n PROVE FALSE
        OBVIOUS
      <4>1. n < j /\ j <= n /\ n \in Nat /\ j \in Nat
        BY <1>1, <1>2, <2>3
      <4> QED
        BY <4>1
    <3>2. CASE j \in M
      BY <1>1, <2>1, <2>3, <3>1, <3>2
    <3>3. CASE j = n
      <4>1. \A k \in M : k <= i
        <5> SUFFICES ASSUME NEW k \in M PROVE k <= i
          OBVIOUS
        <5>1. k <= i \/ n <= k
          BY <2>3, <3>3
        <5>2. k < n /\ k \in Nat /\ n \in Nat
          BY <1>1
        <5> QED
          BY <5>1, <5>2
      <4>2. ASSUME NEW l \in M, \A k \in M : k <= l PROVE l = i
        <5>1. l <= i /\ i <= l /\ l \in Nat /\ i \in Nat
          BY <1>1, <3>1, <4>1, <4>2
        <5> QED
          BY <5>1
      <4>3. ThrownLast(lg, e) => lg[i].verb # "catch"
        BY <4>2 DEF ThrownLast, M
      <4>4. CaughtLast(lg, e) => lg[i].verb = "catch"
        BY <4>2 DEF CaughtLast, M
      <4>5. Mine(lg, e) # {}
        BY <3>1 DEF M
      <4> QED
        BY <1>1, <1>4, <3>1, <3>3, <4>3, <4>4, <4>5
    <3> QED
      BY <3>2, <3>3
  <2> QED
    BY <1>1, <2>2, <2>3 DEF Alternates
<1> QED
  BY <1>3, <1>4

\* What an event that is not lost does to the lines of every exception.
LEMMA LineAdded ==
    ASSUME TypeInv, NEW verb \in {"throw", "rethrow", "catch", "terminate"}, NEW name, NEW e,
           WriteEvent(verb, name, e), ~oom', NewLine(verb, name, e) \in Line
    PROVE  /\ \A f : f # e \/ verb = "terminate" => SameLines(log, log', f)
           /\ verb # "terminate" => OneLineMore(log, log', e, Len(log) + 1, verb)
<1> DEFINE l == NewLine(verb, name, e)
<1>1. log' = Append(log, l)
  BY DEF WriteEvent, NewLine
<1>2. log \in Seq(Line) /\ l \in Line /\ l.verb = verb /\ l.of = e
  BY DEF TypeInv, NewLine
<1> HIDE DEF l
<1>3. /\ DOMAIN log = 1..Len(log) /\ Len(log) \in Nat
      /\ DOMAIN log' = 1..(Len(log) + 1)
      /\ \A i \in 1..Len(log) : log'[i] = log[i]
      /\ log'[Len(log) + 1] = l
  BY <1>1, <1>2, Pushed
<1>4. /\ \A i : i \in 1..(Len(log) + 1) <=> i \in 1..Len(log) \/ i = Len(log) + 1
      /\ \A i \in 1..Len(log) : i \in Nat /\ i < Len(log) + 1
      /\ Len(log) + 1 \notin 1..Len(log) /\ Len(log) + 1 \in Nat
  BY <1>3
<1>5. ASSUME NEW f
      PROVE  /\ Mine(log', f) = Mine(log, f) \cup
                  (IF f = e /\ verb # "terminate" THEN {Len(log) + 1} ELSE {})
             /\ \A i \in Mine(log, f) : i \in 1..Len(log) /\ log'[i] = log[i]
  BY <1>2, <1>3, <1>4 DEF Mine
<1>6. \A f : f # e \/ verb = "terminate" => SameLines(log, log', f)
  BY <1>5 DEF SameLines
<1>7. verb # "terminate" => OneLineMore(log, log', e, Len(log) + 1, verb)
  BY <1>2, <1>3, <1>4, <1>5 DEF OneLineMore
<1> QED
  BY <1>6, <1>7
-------------------------------------------------------------------------------
(***************************************************************************)
(* Why they alternate.  As long as every entry point is the tracer's, no   *)
(* line was lost and std::terminate has no line yet, the last line of an   *)
(* exception tells where it is: one that is unwound was raised last, one   *)
(* that is handled was caught last.  A what() run by an interposer is the  *)
(* exception to it, since nothing inside is reported; but all it raises    *)
(* and catches is gone when it returns.                                    *)
(***************************************************************************)
Watched == ours = EntryPoints /\ ~oom /\ ~terminating

Raised(x, lg, e) ==
  ThrownLast(lg, e) \/ (Mine(lg, e) = {} /\ ~(x[e].class \in {"primary", "dependent"}))

AlternateInv ==
  /\ ours = EntryPoints /\ ~oom => \A e \in Ids : Alternates(log, IsNative(e), e)
  /\ phase = "start" => exc = <<>> /\ caught = <<>>

Open ==
  /\ \A e \in Ids : Carried(e) => Raised(exc, log, e)
  /\ \A e \in Ids : IsNative(e) /\ count[e] > 0 => CaughtLast(log, e)
  /\ \A k \in DOMAIN caught : ~IsNative(caught[k]) => CaughtLast(log, caught[k])

OpenInv == Watched /\ Running /\ ~guard => Open

\* Inside the what() of context w: in flight there, or waiting for a
\* destructor there.
Inner(e, w) == (phase = "flight" /\ flight = e) \/ \E j \in Carriers(ctx, e) : w < j

\* A handled exception is known from before, is the one whose what() it is,
\* or belongs to handlers inside.
Accounted(e, w) ==
  \/ CaughtLast(log, e)
  \/ e = ctx[w].exc /\ ctx[w].site # "throw"
  \/ ~Based(Natives, count, ctx, e) /\ \A i \in Holders(ctx, e) : w < i

HushedOthers(w) ==
  /\ \A e \in Ids : \A j \in Carriers(ctx, e) : j < w => Raised(exc, log, e)
  /\ \A e \in Ids : IsNative(e) /\ (count[e] > 0 \/ Inner(e, w)) => Accounted(e, w)
  /\ \A k \in DOMAIN caught : ~IsNative(caught[k]) =>
       CaughtLast(log, caught[k]) \/ \E j \in Holders(ctx, caught[k]) : w < j

HushedOwn(w) ==
  /\ ctx[w].site = "throw" => Mine(log, ctx[w].exc) = {}
  /\ ctx[w].site # "throw" => /\ Raised(exc, log, ctx[w].exc)
                              /\ \A j \in Carriers(ctx, ctx[w].exc) : w < j

HushedInv ==
  Watched /\ Running => \A w \in At(ctx, "what") : Above(ctx, w) => HushedOthers(w) /\ HushedOwn(w)

TellInv == AlternateInv /\ OpenInv /\ HushedInv

\* Nothing terminates below: the terminate handler has no line.
LEMMA NoTerminate ==
    ASSUME IInv, Watched, ~guard
    PROVE  At(ctx, "terminate") = {} /\ At(ctx, "what") = {}
<1>1. At(ctx, "what") = {}
  BY DEF IInv, GuardInv
<1>2. Verbs({"terminate"}) = {}
  BY DEF IInv, TerminatingInv, Watched
<1> QED
  BY <1>1, <1>2 DEF IInv, RoadInv, Watched

\* An exception that was not raised yet has no line.
LEMMA NoLineYet ==
    ASSUME TypeInv, NEW e, e \notin Ids, e # 0
    PROVE  Mine(log, e) = {}
BY DEF TypeInv, TypeOK, Mine

LEMMA NewAlternates ==
    ASSUME NEW lg, NEW e, Mine(lg, e) = {}
    PROVE  \A native : Alternates(lg, native, e)
BY DEF Alternates

\* The step writes nothing.
LEMMA AlternateKept ==
    ASSUME TypeInv, AlternateInv, log' = log, ours' = ours, oom' = oom, phase' # "start",
           \A e \in Ids : exc'[e] = exc[e], \A e \in Ids' : e \in Ids \/ (e \notin Ids /\ e # 0)
    PROVE  AlternateInv'
<1> SUFFICES ASSUME ours = EntryPoints, ~oom, NEW e \in Ids'
             PROVE  Alternates(log, exc'[e].class \in {"primary", "dependent"}, e)
  BY DEF AlternateInv, IsNative
<1>1. CASE e \in Ids
  BY <1>1 DEF AlternateInv, IsNative
<1>2. CASE e \notin Ids /\ e # 0
  BY <1>2, NoLineYet, NewAlternates
<1> QED
  BY <1>1, <1>2

\* The step writes a line, or loses it.
LEMMA AlternateMore ==
    ASSUME TypeInv, AlternateInv, ours' = ours, oom => oom', phase' # "start",
           \A e \in Ids : exc'[e] = exc[e], \A e \in Ids' : e \in Ids \/ (e \notin Ids /\ e # 0),
           NEW verb \in {"throw", "rethrow", "catch", "terminate"}, NEW name, NEW f,
           WriteEvent(verb, name, f), NewLine(verb, name, f) \in Line,
           ours = EntryPoints /\ ~oom /\ f # 0 =>
             /\ verb = "catch" => Raised(exc', log, f)
             /\ verb \in {"throw", "rethrow"} =>
                  CaughtLast(log, f) \/ (Mine(log, f) = {} /\ exc'[f].class \in {"primary", "dependent"})
    PROVE  AlternateInv'
<1> SUFFICES ASSUME ours = EntryPoints, ~oom, ~oom', NEW e \in Ids', NEW native,
                    native = (exc'[e].class \in {"primary", "dependent"})
             PROVE  Alternates(log', native, e)
  BY DEF AlternateInv, IsNative
<1>1. Alternates(log, native, e)
  <2>1. CASE e \in Ids
    BY <2>1 DEF AlternateInv, IsNative
  <2>2. CASE e \notin Ids /\ e # 0
    BY <2>2, NoLineYet, NewAlternates
  <2> QED
    BY <2>1, <2>2
<1>2. /\ \A g : g # f \/ verb = "terminate" => SameLines(log, log', g)
      /\ verb # "terminate" => OneLineMore(log, log', f, Len(log) + 1, verb)
  BY LineAdded
<1>3. CASE e # f \/ verb = "terminate"
  BY <1>1, <1>2, <1>3, SameTold, SMTT(20), ZenonT(40)
<1>4. CASE e = f /\ verb # "terminate"
  <2>1. e # 0
    BY Lengths DEF Ids
  <2>2. /\ verb = "catch" => ThrownLast(log, e) \/ (Mine(log, e) = {} /\ ~native)
        /\ verb # "catch" => CaughtLast(log, e) \/ (Mine(log, e) = {} /\ native)
    BY <1>4, <2>1 DEF Raised
  <2>3. OneLineMore(log, log', e, Len(log) + 1, verb) /\ native \in BOOLEAN
    BY <1>2, <1>4
  <2>4. \A nt \in BOOLEAN :
          /\ Alternates(log, nt, e)
          /\ verb = "catch" => ThrownLast(log, e) \/ (Mine(log, e) = {} /\ ~nt)
          /\ verb # "catch" => CaughtLast(log, e) \/ (Mine(log, e) = {} /\ nt)
          => Alternates(log', nt, e)
    BY <2>3, MoreTold
  <2> QED
    BY <1>1, <2>2, <2>3, <2>4
<1> QED
  BY <1>3, <1>4

\* Inside a what(): its context stays, and nothing is reported.
LEMMA HushedStep ==
    ASSUME TypeInv, TypeInv', HushedInv, Watched, Running, log' = log,
           \A e \in Ids : e \in Ids' /\ exc'[e] = exc[e],
           \A w \in At(ctx', "what") : Above(ctx', w) =>
             w \in At(ctx, "what") /\ Above(ctx, w) /\ ctx'[w] = ctx[w],
           \A e \in Ids' : \A j \in Carriers(ctx', e) :
             (e \in Ids /\ j \in Carriers(ctx, e)) \/ \A w \in At(ctx, "what") : w < j,
           NEW w \in At(ctx', "what"), Above(ctx', w),
           \A e \in Ids' : IsNative(e)' /\ (count'[e] > 0 \/ Inner(e, w)') =>
             \/ /\ e \in Ids /\ IsNative(e) /\ (count[e] > 0 \/ Inner(e, w))
                /\ Based(Natives', count', ctx', e) => Based(Natives, count, ctx, e)
                /\ \A i \in Holders(ctx', e) : i \in Holders(ctx, e) \/ w < i
             \/ /\ ~Based(Natives', count', ctx', e)
                /\ \A i \in Holders(ctx', e) : w < i,
           \A k \in DOMAIN caught' : ~(exc'[caught'[k]].class \in {"primary", "dependent"}) =>
             \/ /\ k \in DOMAIN caught /\ caught'[k] = caught[k]
                /\ \A j \in Holders(ctx, caught[k]) : w < j => j \in Holders(ctx', caught[k])
             \/ \E j \in Holders(ctx', caught'[k]) : w < j
    PROVE  HushedOthers(w)' /\ HushedOwn(w)'
<1>1. w \in At(ctx, "what") /\ Above(ctx, w) /\ ctx'[w] = ctx[w]
  OBVIOUS
<1>2. HushedOthers(w) /\ HushedOwn(w)
  BY <1>1 DEF HushedInv
<1>3. ctx[w].exc \in Ids /\ ctx[w].exc \in Ids'
  BY <1>1, WhatException
<1>4. \A e \in Ids : Raised(exc', log', e) <=> Raised(exc, log, e)
  <2> SUFFICES ASSUME NEW e \in Ids PROVE Raised(exc', log', e) <=> Raised(exc, log, e)
    OBVIOUS
  <2>1. exc'[e] = exc[e]
    OBVIOUS
  <2> QED
    BY <2>1 DEF Raised
<1>5. ASSUME NEW e \in Ids', NEW j \in Carriers(ctx', e), j < w
      PROVE  Raised(exc', log', e)
  <2>1. w \in Nat /\ j \in Nat
    <3>1. Len(exc') \in Nat /\ ContextsOK(ctx', Len(exc')) /\ ctx \in Seq(Context)
      BY Lengths DEF TypeInv, Ids, TypeOK
    <3>2. Carriers(ctx', e) \subseteq 1..Len(ctx') /\ Len(ctx') \in Nat
      BY <3>1, HoldersType
    <3>3. w \in 1..Len(ctx) /\ Len(ctx) \in Nat
      BY <1>1, <3>1, LenProperties DEF At
    <3> QED
      BY <3>2, <3>3
  <2>2. ~(w < j)
    BY <1>5, <2>1
  <2>3. e \in Ids /\ j \in Carriers(ctx, e)
    BY <1>1, <2>2
  <2> QED
    BY <1>2, <1>4, <1>5, <2>3 DEF HushedOthers
<1>6. ASSUME NEW e \in Ids', IsNative(e)', count'[e] > 0 \/ Inner(e, w)'
      PROVE  Accounted(e, w)'
  <2>1. CASE /\ ~Based(Natives', count', ctx', e)
             /\ \A i \in Holders(ctx', e) : w < i
    BY <2>1 DEF Accounted
  <2>2. CASE /\ e \in Ids /\ IsNative(e) /\ (count[e] > 0 \/ Inner(e, w))
             /\ Based(Natives', count', ctx', e) => Based(Natives, count, ctx, e)
             /\ \A i \in Holders(ctx', e) : i \in Holders(ctx, e) \/ w < i
    <3>1. Accounted(e, w)
      BY <1>2, <2>2 DEF HushedOthers
    <3> QED
      BY <1>1, <2>2, <3>1 DEF Accounted
  <2> QED
    BY <1>6, <2>1, <2>2
<1>7. ASSUME NEW k \in DOMAIN caught', ~(exc'[caught'[k]].class \in {"primary", "dependent"})
      PROVE  CaughtLast(log', caught'[k]) \/ \E j \in Holders(ctx', caught'[k]) : w < j
  <2>1. CASE /\ k \in DOMAIN caught /\ caught'[k] = caught[k]
             /\ \A j \in Holders(ctx, caught[k]) : w < j => j \in Holders(ctx', caught[k])
    <3>1. caught[k] \in Ids
      BY <2>1, StackFacts
    <3>2. ~IsNative(caught[k])
      BY <1>7, <2>1, <3>1 DEF IsNative
    <3>3. CaughtLast(log, caught[k]) \/ \E j \in Holders(ctx, caught[k]) : w < j
      BY <1>2, <2>1, <3>2 DEF HushedOthers
    <3> QED
      BY <2>1, <3>3
  <2> QED
    BY <1>7, <2>1
<1>8. HushedOthers(w)'
  BY <1>5, <1>6, <1>7 DEF HushedOthers, IsNative
<1>9. HushedOwn(w)'
  <2>1. ctx'[w].site = "throw" => Mine(log', ctx'[w].exc) = {}
    BY <1>1, <1>2 DEF HushedOwn
  <2>2. ASSUME ctx'[w].site # "throw" PROVE Raised(exc', log', ctx'[w].exc)
    BY <1>1, <1>2, <1>3, <1>4, <2>2 DEF HushedOwn
  <2>3. ASSUME ctx'[w].site # "throw", NEW j \in Carriers(ctx', ctx'[w].exc) PROVE w < j
    <3>1. ctx'[w].exc = ctx[w].exc /\ ctx[w].site # "throw"
      BY <1>1, <2>3
    <3>2. j \in Carriers(ctx, ctx[w].exc) \/ w < j
      BY <1>1, <1>3, <2>3, <3>1
    <3> QED
      BY <1>2, <3>1, <3>2 DEF HushedOwn
  <2> QED
    BY <2>1, <2>2, <2>3 DEF HushedOwn
<1> QED
  BY <1>8, <1>9

Whole == IInv /\ HandlerInv /\ NamesInv

LEMMA GivenUpTold ==
    ASSUME phase' \in {"terminate", "ended"}
    PROVE  OpenInv' /\ HushedInv'
BY DEF OpenInv, HushedInv, Running

\* No what() runs: the contexts inside one are all gone, or there were none.
LEMMA NoneHushed ==
    ASSUME At(ctx', "what") = {}
    PROVE  HushedInv'
BY DEF HushedInv

LEMMA UnchangedLines ==
    ASSUME log' = log
    PROVE  \A e : SameLines(log, log', e)
BY DEF SameLines

\* Outside a what(): an exception keeps its last line and its place, or gets
\* the line its new place calls for.
LEMMA OpenStep ==
    ASSUME TypeInv, Open, \A e \in Ids : exc'[e] = exc[e],
           \A e \in Ids' : Carried(e)' =>
             (e \in Ids /\ Carried(e) /\ SameLines(log, log', e)) \/ Raised(exc', log', e),
           \A e \in Ids' : IsNative(e)' /\ count'[e] > 0 =>
             \/ e \in Ids /\ count[e] > 0 /\ SameLines(log, log', e)
             \/ CaughtLast(log', e),
           \A k \in DOMAIN caught' : ~(exc'[caught'[k]].class \in {"primary", "dependent"}) =>
             \/ k \in DOMAIN caught /\ caught'[k] = caught[k] /\ SameLines(log, log', caught[k])
             \/ CaughtLast(log', caught'[k])
    PROVE  Open'
<1>1. ASSUME NEW e \in Ids, SameLines(log, log', e), Carried(e) PROVE Raised(exc', log', e)
  <2>1. Raised(exc, log, e) /\ exc'[e] = exc[e]
    BY <1>1 DEF Open
  <2> QED
    BY <1>1, <2>1, SameTold DEF Raised
<1>2. ASSUME NEW e \in Ids, SameLines(log, log', e), IsNative(e), count[e] > 0 PROVE CaughtLast(log', e)
  BY <1>2, SameTold DEF Open
<1>3. ASSUME NEW k \in DOMAIN caught, SameLines(log, log', caught[k]), ~IsNative(caught[k])
      PROVE  CaughtLast(log', caught[k])
  BY <1>3, SameTold DEF Open
<1>4. ASSUME NEW e \in Ids', Carried(e)' PROVE Raised(exc', log', e)
  BY <1>1, <1>4
<1>5. ASSUME NEW e \in Ids', IsNative(e)', count'[e] > 0 PROVE CaughtLast(log', e)
  <2>1. CASE e \in Ids /\ count[e] > 0 /\ SameLines(log, log', e)
    <3>1. IsNative(e)
      BY <1>5, <2>1 DEF IsNative
    <3> QED
      BY <1>2, <2>1, <3>1
  <2> QED
    BY <1>5, <2>1
<1>6. ASSUME NEW k \in DOMAIN caught', ~(exc'[caught'[k]].class \in {"primary", "dependent"})
      PROVE  CaughtLast(log', caught'[k])
  <2>1. CASE k \in DOMAIN caught /\ caught'[k] = caught[k] /\ SameLines(log, log', caught[k])
    <3>1. caught[k] \in Ids
      BY <2>1, StackFacts
    <3>2. ~IsNative(caught[k])
      BY <1>6, <2>1, <3>1 DEF IsNative
    <3> QED
      BY <1>3, <2>1, <3>2
  <2> QED
    BY <1>6, <2>1
<1> QED
  BY <1>4, <1>5, <1>6 DEF Open, IsNative

\* An interposer starts a what().
LEMMA WhatTold ==
    ASSUME Whole, OpenInv, Watched, Running, ~guard, TypeInv', log' = log, phase' = "run",
           \A e \in Ids : e \in Ids' /\ exc'[e] = exc[e],
           NEW c \in Context, c.kind = "what", NEW m \in Nat, Len(exc) <= m, ContextOK(c, m),
           ctx' = Append(ctx, c),
           \A e \in Ids' : e \in Ids \/ Carriers(ctx, e) = {},
           \A e \in Ids' : IsNative(e)' /\ count'[e] > 0 =>
             (e \in Ids /\ count[e] > 0) \/ (c.site # "throw" /\ e = c.exc),
           \A k \in DOMAIN caught' : ~(exc'[caught'[k]].class \in {"primary", "dependent"}) =>
             k \in DOMAIN caught /\ caught'[k] = caught[k],
           c.site = "throw" => Mine(log, c.exc) = {},
           c.site # "throw" => c.exc \in Ids /\ Raised(exc, log, c.exc) /\ Carriers(ctx, c.exc) = {}
    PROVE  HushedInv'
<1>0. TypeInv /\ Open
  BY DEF Whole, IInv, OpenInv
<1>1. At(ctx, "what") = {} /\ c.kind # "terminate"
  BY NoTerminate DEF Whole
<1>2. /\ Len(ctx) \in Nat
      /\ \A f : Carriers(Append(ctx, c), f) =
                  Carriers(ctx, f) \cup
                    (IF c.kind = "cleanup" /\ c.exc = f THEN {Len(ctx) + 1} ELSE {})
      /\ \A w \in At(Append(ctx, c), "what") :
           \/ w \in At(ctx, "what")
           \/ w = Len(ctx) + 1 /\ Append(ctx, c)[w] = c
  BY <1>0, <1>1, EnteredFacts, ZenonT(60)
<1>3. \A f : Carriers(ctx', f) = Carriers(ctx, f)
  BY <1>2
<1> SUFFICES ASSUME NEW w \in At(ctx', "what") PROVE HushedOthers(w)' /\ HushedOwn(w)'
  BY DEF HushedInv
<1>4. w = Len(ctx) + 1 /\ ctx'[w] = c
  BY <1>1, <1>2
<1>5. \A f : \A j \in Carriers(ctx, f) : j \in Nat /\ j < w
  BY <1>0, <1>4, StackFacts DEF Contexts
<1>6. \A f \in Ids : Raised(exc', log', f) <=> Raised(exc, log, f)
  <2> SUFFICES ASSUME NEW f \in Ids PROVE Raised(exc', log', f) <=> Raised(exc, log, f)
    OBVIOUS
  <2>1. exc'[f] = exc[f]
    OBVIOUS
  <2> QED
    BY <2>1 DEF Raised
<1>7. ASSUME NEW e \in Ids', NEW j \in Carriers(ctx', e) PROVE Raised(exc', log', e)
  <2>1. e \in Ids /\ Carried(e)
    BY <1>3, <1>7 DEF Carried
  <2> QED
    BY <1>0, <1>6, <2>1 DEF Open
<1>8. ASSUME NEW e \in Ids' PROVE ~Inner(e, w)'
  <2> SUFFICES ASSUME NEW j \in Carriers(ctx, e), w < j PROVE FALSE
    BY <1>3 DEF Inner
  <2>1. j \in Nat /\ j < w /\ w \in Nat
    BY <1>2, <1>4, <1>5
  <2> QED
    BY <2>1
<1>9. ASSUME NEW e \in Ids', IsNative(e)', count'[e] > 0 PROVE Accounted(e, w)'
  <2>1. CASE e \in Ids /\ count[e] > 0
    <3>1. IsNative(e)
      BY <1>9, <2>1 DEF IsNative
    <3>2. CaughtLast(log, e)
      BY <1>0, <2>1, <3>1 DEF Open
    <3> QED
      BY <3>2 DEF Accounted
  <2>2. CASE c.site # "throw" /\ e = c.exc
    BY <1>4, <2>2 DEF Accounted
  <2> QED
    BY <1>9, <2>1, <2>2
<1>10. ASSUME NEW k \in DOMAIN caught', ~(exc'[caught'[k]].class \in {"primary", "dependent"})
       PROVE  CaughtLast(log', caught'[k])
  <2>1. k \in DOMAIN caught /\ caught'[k] = caught[k] /\ caught[k] \in Ids
    BY <1>0, <1>10, StackFacts
  <2>2. ~IsNative(caught[k])
    BY <1>10, <2>1 DEF IsNative
  <2> QED
    BY <1>0, <2>1, <2>2 DEF Open
<1>11. HushedOthers(w)'
  BY <1>7, <1>8, <1>9, <1>10 DEF HushedOthers, IsNative
<1>12. HushedOwn(w)'
  <2>1. c.site = "throw" => Mine(log', ctx'[w].exc) = {}
    BY <1>4
  <2>2. c.site # "throw" => Raised(exc', log', ctx'[w].exc) /\ Carriers(ctx', ctx'[w].exc) = {}
    BY <1>3, <1>4, <1>6
  <2> QED
    BY <1>4, <2>1, <2>2 DEF HushedOwn
<1> QED
  BY <1>11, <1>12

LEMMA QuietTold ==
    ASSUME Whole, Whole', TellInv,
           \/ VerifyInterposers \/ CallTerminate \/ End
           \/ MeetNoexcept("direct") \/ UNCHANGED vars
    PROVE  TellInv'
<1>0. TypeInv
  BY DEF Whole, IInv
<1>1. CASE VerifyInterposers
  <2>1. /\ exc = <<>> /\ caught = <<>> /\ exc' = exc /\ count' = count /\ caught' = caught
        /\ phase' \in {"run", "ended"} /\ ctx = <<>> /\ ctx' = ctx
    BY <1>0, <1>1 DEF VerifyInterposers, TellInv, AlternateInv, runtime, TypeInv
  <2>2. Ids' = {} /\ DOMAIN caught' = {} /\ At(ctx', "what") = {}
    BY <2>1 DEF Ids, At
  <2>3. Open'
    BY <2>2 DEF Open
  <2>4. AlternateInv'
    BY <2>1, <2>2 DEF AlternateInv
  <2>5. OpenInv'
    BY <2>3 DEF OpenInv
  <2> QED
    BY <2>2, <2>4, <2>5, NoneHushed DEF TellInv
<1>2. CASE CallTerminate \/ End \/ MeetNoexcept("direct")
  <2>1. /\ exc' = exc /\ log' = log /\ ours' = ours /\ oom' = oom
        /\ phase' \in {"terminate", "ended"}
    BY <1>2 DEF CallTerminate, End, MeetNoexcept, NoEvent, runtime
  <2>2. Ids' = Ids
    BY <2>1 DEF Ids
  <2>3. AlternateInv'
    BY <1>0, <2>1, <2>2, AlternateKept DEF TellInv
  <2> QED
    BY <2>1, <2>3, GivenUpTold DEF TellInv
<1>3. CASE UNCHANGED vars
  <2>1. /\ exc' = exc /\ count' = count /\ caught' = caught /\ flight' = flight /\ ctx' = ctx
        /\ phase' = phase /\ ours' = ours /\ guard' = guard /\ terminating' = terminating
        /\ log' = log /\ oom' = oom
    BY <1>3 DEF vars, runtime, tracer
  <2>2. Ids' = Ids /\ Natives' = Natives /\ \A e : IsNative(e)' <=> IsNative(e)
    BY <2>1, SameExceptions
  <2>3. (Watched' <=> Watched) /\ (Running' <=> Running)
    BY <2>1 DEF Watched, Running
  <2>4. AlternateInv'
    BY <2>1, <2>2 DEF TellInv, AlternateInv
  <2>5. Open => Open'
    BY <2>1, <2>2 DEF Open, Carried
  <2>6. \A w : \A e : (Inner(e, w)' <=> Inner(e, w)) /\ (Accounted(e, w) => Accounted(e, w)')
    BY <2>1, <2>2 DEF Inner, Accounted
  <2>7. \A w : HushedOthers(w) => HushedOthers(w)'
    BY <2>1, <2>2, <2>6 DEF HushedOthers
  <2>8. \A w : HushedOwn(w) => HushedOwn(w)'
    BY <2>1 DEF HushedOwn
  <2>9. OpenInv'
    BY <2>1, <2>3, <2>5 DEF TellInv, OpenInv
  <2>10. HushedInv'
    BY <2>1, <2>3, <2>7, <2>8 DEF TellInv, HushedInv
  <2> QED
    BY <2>4, <2>9, <2>10 DEF TellInv
<1> QED
  BY <1>1, <1>2, <1>3

\* An exception is raised and flies: with its line, unless it is foreign or a
\* what() raises it.
LEMMA RaisedTold ==
    ASSUME Whole, Whole', TellInv, phase = "run", NEW c \in Classes, NEW t \in TypeNames, Raise(c, t),
           caught' = caught, ctx' = ctx, ours' = ours, terminating' = terminating, guard' = guard,
           oom => oom', Fly(Len(exc'), searched'),
           NEW verb \in {"throw", "rethrow"}, NEW name \in EventNames,
           \/ /\ log' = log /\ oom' = oom
              /\ c \in {"primary", "dependent"} => guard \/ ~Watched
           \/ ~guard /\ c \in {"primary", "dependent"} /\ WriteEvent(verb, name, Len(exc'))
    PROVE  TellInv'
<1> DEFINE n == Len(exc')
<1>0. TypeInv /\ TypeInv' /\ AlternateInv
  BY DEF Whole, IInv, TellInv
<1>1. /\ n \notin Ids /\ Ids' = Ids \cup {n}
      /\ exc'[n].class = c /\ exc'[n].type = t /\ count'[n] = 0
      /\ \A e \in Ids : exc'[e] = exc[e] /\ count'[e] = count[e]
      /\ Holders(ctx, n) = {} /\ Carriers(ctx, n) = {} /\ HeldBy(ctx, n) = 0
  BY <1>0, NewException
<1>2. n \in Nat /\ n # 0 /\ flight' = n /\ phase' = "flight"
  BY <1>0, RaisedType DEF Fly
<1>3. NewLine(verb, name, n) \in Line /\ verb \in {"throw", "rethrow", "catch", "terminate"} /\ verb # "catch"
      /\ verb # "terminate"
  BY <1>2 DEF NewLine, Line
<1>4. Mine(log, n) = {}
  BY <1>0, <1>1, <1>2, NoLineYet
<1>5. \/ /\ log' = log /\ oom' = oom
         /\ c \in {"primary", "dependent"} => guard \/ ~Watched
      \/ ~guard /\ c \in {"primary", "dependent"} /\ WriteEvent(verb, name, n)
  OBVIOUS
<1> HIDE DEF n
<1>6. AlternateInv'
  <2>1. /\ \A e \in Ids : exc'[e] = exc[e]
        /\ \A e \in Ids' : e \in Ids \/ (e \notin Ids /\ e # 0)
        /\ phase' # "start"
    BY <1>1, <1>2
  <2>2. CASE log' = log /\ oom' = oom
    BY <1>0, <2>1, <2>2, AlternateKept
  <2>3. CASE c \in {"primary", "dependent"} /\ WriteEvent(verb, name, n)
    <3>1. Mine(log, n) = {} /\ exc'[n].class \in {"primary", "dependent"}
      BY <1>1, <1>4, <2>3
    <3> QED
      BY <1>0, <1>3, <2>1, <2>3, <3>1, AlternateMore
  <2> QED
    BY <1>5, <2>2, <2>3
<1>7. OpenInv'
  <2> SUFFICES ASSUME Watched', ~guard' PROVE Open'
    BY DEF OpenInv
  <2>1. Watched /\ ~guard /\ ~oom'
    BY DEF Watched
  <2>2. Open
    BY <2>1 DEF TellInv, OpenInv, Running
  <2>3. (\A e \in Ids : SameLines(log, log', e)) /\ Raised(exc', log', n)
    <3>1. CASE log' = log /\ c \notin {"primary", "dependent"}
      BY <1>1, <1>4, <3>1, UnchangedLines DEF Raised
    <3>2. CASE c \in {"primary", "dependent"} /\ WriteEvent(verb, name, n)
      <4>1. /\ \A f : f # n \/ verb = "terminate" => SameLines(log, log', f)
            /\ verb # "terminate" => OneLineMore(log, log', n, Len(log) + 1, verb)
        BY <1>0, <1>3, <2>1, <3>2, LineAdded
      <4>2. ThrownLast(log', n)
        BY <1>3, <4>1, MoreTold
      <4>3. \A e \in Ids : e # n
        BY <1>1
      <4> QED
        BY <4>1, <4>2, <4>3 DEF Raised
    <3> QED
      BY <1>5, <2>1, <3>1, <3>2
  <2>4. ASSUME NEW e \in Ids', Carried(e)'
        PROVE  (e \in Ids /\ Carried(e) /\ SameLines(log, log', e)) \/ Raised(exc', log', e)
    <3>1. CASE e = n
      BY <2>3, <3>1
    <3>2. CASE e \in Ids
      <4>1. Carriers(ctx', e) # {}
        BY <1>1, <1>2, <2>4, <3>2 DEF Carried
      <4> QED
        BY <2>3, <3>2, <4>1 DEF Carried
    <3> QED
      BY <1>1, <3>1, <3>2
  <2>5. ASSUME NEW e \in Ids', count'[e] > 0
        PROVE  e \in Ids /\ count[e] > 0 /\ SameLines(log, log', e)
    <3>1. e \in Ids
      BY <1>1, <2>5
    <3> QED
      BY <1>1, <2>3, <2>5, <3>1
  <2>6. ASSUME NEW k \in DOMAIN caught'
        PROVE  k \in DOMAIN caught /\ caught'[k] = caught[k] /\ SameLines(log, log', caught[k])
    <3>1. k \in DOMAIN caught /\ caught[k] \in Ids
      BY <1>0, <2>6, StackFacts
    <3> QED
      BY <2>3, <3>1
  <2>7. \A e \in Ids : exc'[e] = exc[e]
    BY <1>1
  <2> QED
    BY <1>0, <2>2, <2>4, <2>5, <2>6, <2>7, OpenStep
<1>8. HushedInv'
  <2> SUFFICES ASSUME Watched', NEW w \in At(ctx', "what"), Above(ctx', w)
               PROVE  HushedOthers(w)' /\ HushedOwn(w)'
    BY DEF HushedInv
  <2>1. guard
    BY DEF Whole, IInv, GuardInv
  <2>2. log' = log /\ Watched /\ Running
    BY <1>5, <2>1 DEF Watched, Running
  <2>3. \A e \in Ids : e \in Ids' /\ exc'[e] = exc[e]
    BY <1>1
  <2>4. \A e \in Ids' : \A j \in Carriers(ctx', e) : e \in Ids /\ j \in Carriers(ctx, e)
    BY <1>1
  <2>5. ASSUME NEW e \in Ids', IsNative(e)', count'[e] > 0 \/ Inner(e, w)'
        PROVE  \/ /\ e \in Ids /\ IsNative(e) /\ (count[e] > 0 \/ Inner(e, w))
                  /\ Based(Natives', count', ctx', e) => Based(Natives, count, ctx, e)
                  /\ \A i \in Holders(ctx', e) : i \in Holders(ctx, e) \/ w < i
               \/ /\ ~Based(Natives', count', ctx', e)
                  /\ \A i \in Holders(ctx', e) : w < i
    <3>1. CASE e = n
      <4>1. e \in Natives'
        BY <2>5 DEF Natives
      <4>2. ~(Mag(count'[e]) > HeldBy(ctx', e))
        BY <1>1, <3>1 DEF Mag
      <4> QED
        BY <1>1, <3>1, <4>1, <4>2 DEF Based
    <3>2. CASE e \in Ids
      <4>1. exc'[e] = exc[e] /\ count'[e] = count[e] /\ e # n
        BY <1>1, <3>2
      <4>2. IsNative(e) /\ e \in Natives /\ e \in Natives'
        BY <2>5, <3>2, <4>1 DEF IsNative, Natives
      <4>3. count[e] > 0 \/ Inner(e, w)
        BY <1>2, <2>5, <4>1 DEF Inner
      <4>4. Based(Natives', count', ctx', e) => Based(Natives, count, ctx, e)
        BY <4>1, <4>2 DEF Based
      <4> QED
        BY <3>2, <4>2, <4>3, <4>4
    <3> QED
      BY <1>1, <3>1, <3>2
  <2>6. TypeInv /\ TypeInv' /\ HushedInv
    BY <1>0 DEF TellInv
  <2> QED
    BY <2>2, <2>3, <2>4, <2>5, <2>6, HushedStep
<1> QED
  BY <1>6, <1>7, <1>8 DEF TellInv

LEMMA RaisesTold ==
    ASSUME Whole, Whole', TellInv,
           \/ \E t \in Types : CxaThrow(t) \/ RethrowException(t)
           \/ \E class \in {"forced", "foreign"} : ForeignUnwind(class)
    PROVE  TellInv'
<1>0. TypeInv /\ TypeInv' /\ NoName \in TypeNames
  BY DEF Whole, IInv, TypeNames
<1>1. ASSUME NEW t \in Types, CxaThrow(t) PROVE TellInv'
  <2> DEFINE c == [kind |-> "what", exc |-> Len(exc'), site |-> "throw", type |-> t]
             name == ShownName(t, NoName)
  <2>1. /\ t \in TypeNames /\ "primary" \in Classes /\ Raise("primary", t) /\ phase = "run"
        /\ caught' = caught /\ ours' = ours /\ terminating' = terminating /\ label' = label
    BY <1>1 DEF CxaThrow, Classes, TypeNames
  <2>2. name \in EventNames
    BY <2>1, NamesType
  <2>3. CASE ~(Reports("throw") /\ t \in WhatTypes)
    <3>1. /\ ctx' = ctx /\ guard' = guard /\ Fly(Len(exc'), searched')
          /\ IF Reports("throw") THEN WriteEvent("throw", name, Len(exc')) ELSE NoEvent
      BY <1>1, <2>3 DEF CxaThrow, Fly
    <3>2. \/ /\ log' = log /\ oom' = oom /\ (guard \/ ~Watched)
          \/ ~guard /\ WriteEvent("throw", name, Len(exc'))
      BY <3>1 DEF Reports, Watched, NoEvent, EntryPoints
    <3>3. oom => oom'
      BY <3>2 DEF WriteEvent
    <3> HIDE DEF name
    <3>4. "throw" \in {"throw", "rethrow"} /\ "primary" \in {"primary", "dependent"}
      OBVIOUS
    <3> QED
      BY <2>1, <2>2, <3>1, <3>2, <3>3, <3>4, RaisedTold
  <2>4. CASE Reports("throw") /\ t \in WhatTypes
    <3>1. /\ ctx' = Append(ctx, c) /\ log' = log /\ oom' = oom /\ guard' /\ phase' = "run" /\ ~guard
      BY <1>1, <2>1, <2>4 DEF CxaThrow, Enter, NoEvent, Reports
    <3>2. /\ Len(exc') \notin Ids /\ Ids' = Ids \cup {Len(exc')} /\ count'[Len(exc')] = 0
          /\ \A e \in Ids : exc'[e] = exc[e] /\ count'[e] = count[e]
          /\ Carriers(ctx, Len(exc')) = {}
      BY <1>0, <2>1, NewException
    <3>3. Len(exc') \in Nat /\ Len(exc) <= Len(exc') /\ Len(exc') # 0
      BY <1>0, <2>1, RaisedType
    <3>4. c \in Context /\ ContextOK(c, Len(exc')) /\ c.kind = "what" /\ c.site = "throw" /\ c.exc = Len(exc')
      BY <2>1, <3>3 DEF Context, ContextOK, Kinds, NoName
    <3> HIDE DEF c
    <3>5. Mine(log, Len(exc')) = {}
      BY <1>0, <3>2, <3>3, NoLineYet
    <3>6. OpenInv'
      BY <3>1 DEF OpenInv
    <3>7. /\ \A e \in Ids : e \in Ids' /\ exc'[e] = exc[e]
          /\ \A e \in Ids' : e \in Ids \/ Carriers(ctx, e) = {}
          /\ \A e \in Ids' : IsNative(e)' /\ count'[e] > 0 => e \in Ids /\ count[e] > 0
          /\ \A e \in Ids' : e \in Ids \/ (e \notin Ids /\ e # 0)
      BY <3>2, <3>3
    <3>8. HushedInv'
      <4> SUFFICES ASSUME Watched' PROVE HushedInv'
        BY DEF HushedInv
      <4>1. Watched /\ Running /\ OpenInv
        BY <2>1, <3>1 DEF Watched, Running, TellInv
      <4>2. \A k \in DOMAIN caught' : k \in DOMAIN caught /\ caught'[k] = caught[k]
        BY <2>1
      <4> QED
        BY <1>0, <3>1, <3>3, <3>4, <3>5, <3>7, <4>1, <4>2, WhatTold
    <3>9. AlternateInv'
      BY <1>0, <2>1, <3>1, <3>7, AlternateKept DEF TellInv
    <3> QED
      BY <3>6, <3>8, <3>9 DEF TellInv
  <2> QED
    BY <2>3, <2>4
<1>2. ASSUME NEW t \in Types, RethrowException(t) PROVE TellInv'
  <2> DEFINE name == ShownName(t, NoName)
  <2>1. /\ t \in TypeNames /\ "dependent" \in Classes /\ Raise("dependent", t) /\ phase = "run"
        /\ caught' = caught /\ ours' = ours /\ terminating' = terminating /\ ctx' = ctx /\ guard' = guard
        /\ Fly(Len(exc'), searched')
        /\ IF Reports("rethrow_exception") THEN WriteEvent("rethrow", name, Len(exc')) ELSE NoEvent
    BY <1>2 DEF RethrowException, Fly, Classes, TypeNames, tracer
  <2>2. name \in EventNames
    BY <2>1, NamesType
  <2>3. \/ /\ log' = log /\ oom' = oom /\ (guard \/ ~Watched)
        \/ ~guard /\ WriteEvent("rethrow", name, Len(exc'))
    BY <2>1 DEF Reports, Watched, NoEvent, EntryPoints
  <2>4. oom => oom'
    BY <2>3 DEF WriteEvent
  <2> HIDE DEF name
  <2>5. "rethrow" \in {"throw", "rethrow"} /\ "dependent" \in {"primary", "dependent"}
    OBVIOUS
  <2> QED
    BY <2>1, <2>2, <2>3, <2>4, <2>5, RaisedTold
<1>3. ASSUME NEW class \in {"forced", "foreign"}, ForeignUnwind(class) PROVE TellInv'
  <2>1. /\ class \in Classes /\ class \notin {"primary", "dependent"}
        /\ Raise(class, NoName) /\ phase = "run" /\ ctx' = ctx /\ guard' = guard
        /\ caught' = caught /\ ours' = ours /\ terminating' = terminating /\ log' = log /\ oom' = oom
        /\ Fly(Len(exc'), searched')
    BY <1>3 DEF ForeignUnwind, Fly, Classes, tracer, NoEvent
  <2>2. "throw" \in {"throw", "rethrow"} /\ Unknown \in EventNames
    BY DEF EventNames
  <2> QED
    BY <1>0, <2>1, <2>2, RaisedTold
<1> QED
  BY <1>1, <1>2, <1>3

(***************************************************************************)
(* An interposer goes on after its what(): whatever the override threw and *)
(* caught is gone, so the exceptions are where they were before.           *)
(***************************************************************************)
LEMMA WhatOver ==
    ASSUME Whole, HushedInv, Watched, phase = "run", In("what"),
           NEW w, w = Last(ctx)
    PROVE  /\ TypeInv /\ w.exc \in Ids /\ w.exc # 0 /\ IsNative(w.exc) /\ w.type \in TypeNames
           /\ At(Front(ctx), "what") = {}
           /\ \A f : Carriers(Front(ctx), f) = Carriers(ctx, f)
           /\ \A e \in Ids : Carriers(ctx, e) # {} => Raised(exc, log, e)
           /\ \A e \in Ids : IsNative(e) /\ count[e] > 0 =>
                CaughtLast(log, e) \/ (e = w.exc /\ w.site # "throw")
           /\ \A k \in DOMAIN caught : ~IsNative(caught[k]) => CaughtLast(log, caught[k])
           /\ w.site = "throw" => Mine(log, w.exc) = {} /\ count[w.exc] = 0 /\ Carriers(ctx, w.exc) = {}
           /\ w.site # "throw" => Raised(exc, log, w.exc) /\ Carriers(ctx, w.exc) = {}
<1> DEFINE n == Len(ctx)
<1>0. TypeInv /\ IInv /\ HandlerInv /\ NamesInv /\ Running
  BY DEF Whole, IInv, Running
<1>1. /\ ctx # <<>> /\ At(ctx, "what") = {n} /\ At(Front(ctx), "what") = {} /\ w.exc \in Ids
      /\ w.kind = "what" /\ w = ctx[n]
      /\ At(ctx, "terminate") \subseteq 1..n /\ n \in Nat
      /\ IsNative(w.exc) /\ w.type \in TypeNames
  BY <1>0, WhatEnds, LabelAfterWhat DEF In, Last
<1>2. Above(ctx, n)
  <2>1. \A i \in At(ctx, "terminate") : i # n
    BY <1>1 DEF At
  <2> QED
    BY <1>1, <2>1 DEF Above
<1>3. HushedOthers(n) /\ HushedOwn(n)
  BY <1>0, <1>1, <1>2 DEF HushedInv
<1>4. w.exc # 0
  BY <1>1 DEF Ids
<1>5. /\ \A f : /\ Carriers(Front(ctx), f) = Carriers(ctx, f) \ {n}
                /\ n \notin Carriers(ctx, f)
                /\ Holders(ctx, f) \subseteq 1..n /\ Carriers(ctx, f) \subseteq 1..n
                /\ HeldBy(ctx, f) = 0 <=> Holders(ctx, f) = {}
  <2>1. Last(ctx).kind # "terminate" /\ Last(ctx).kind # "cleanup"
    BY <1>1
  <2>2. \A f : /\ Carriers(Front(ctx), f) = Carriers(ctx, f) \ {n}
               /\ n \notin Carriers(ctx, f)
    BY <1>0, <1>1, <2>1, LeftFacts
  <2>3. Len(exc) \in Nat /\ ContextsOK(ctx, Len(exc))
    BY <1>0, StackFacts
  <2> QED
    BY <2>2, <2>3, HoldersType
<1> HIDE DEF n
<1>6. \A f : Carriers(Front(ctx), f) = Carriers(ctx, f)
  BY <1>5
<1>7. \A i \in 1..n : ~(n < i)
  BY <1>1
<1>8. \A i \in 1..n : i # n => i < n
  BY <1>1
<1>9. ASSUME NEW e \in Ids, Carriers(ctx, e) # {} PROVE Raised(exc, log, e)
  <2> PICK j \in Carriers(ctx, e) : TRUE
    BY <1>9
  <2>1. j < n
    BY <1>5, <1>8
  <2> QED
    BY <1>3, <2>1 DEF HushedOthers
<1>10. ASSUME NEW e \in Ids, IsNative(e), count[e] > 0
       PROVE  CaughtLast(log, e) \/ (e = w.exc /\ w.site # "throw")
  <2> SUFFICES ASSUME ~Based(Natives, count, ctx, e), \A i \in Holders(ctx, e) : n < i PROVE FALSE
    BY <1>1, <1>3, <1>10 DEF HushedOthers, Accounted
  <2>1. Holders(ctx, e) = {}
    BY <1>5, <1>7
  <2>2. HeldBy(ctx, e) = 0 /\ e \in Natives
    BY <1>5, <1>10, <2>1 DEF Natives
  <2>3. ~(Mag(count[e]) > 0)
    BY <2>2 DEF Based
  <2>4. count[e] \in Int
    BY <1>0, Lengths
  <2>5. Mag(count[e]) > 0
    BY <1>10, <2>4 DEF Mag
  <2> QED
    BY <2>3, <2>5
<1>11. ASSUME NEW k \in DOMAIN caught, ~IsNative(caught[k]) PROVE CaughtLast(log, caught[k])
  <2>1. CaughtLast(log, caught[k]) \/ \E j \in Holders(ctx, caught[k]) : n < j
    BY <1>3, <1>11 DEF HushedOthers
  <2> QED
    BY <1>5, <1>7, <2>1
<1>12. ASSUME w.site = "throw"
       PROVE  Mine(log, w.exc) = {} /\ count[w.exc] = 0 /\ Carriers(ctx, w.exc) = {}
  <2>1. Mine(log, w.exc) = {}
    BY <1>1, <1>3, <1>12 DEF HushedOwn
  <2>2. count[w.exc] = 0 /\ ~Carried(w.exc)
    BY <1>0, <1>1, <1>2, <1>12 DEF HandlerInv, ThrowInv
  <2> QED
    BY <2>1, <2>2 DEF Carried
<1>13. ASSUME w.site # "throw"
       PROVE  Raised(exc, log, w.exc) /\ Carriers(ctx, w.exc) = {}
  <2>1. Raised(exc, log, w.exc) /\ \A j \in Carriers(ctx, w.exc) : n < j
    BY <1>1, <1>3, <1>13 DEF HushedOwn
  <2> QED
    BY <1>5, <1>7, <2>1
<1> QED
  BY <1>0, <1>1, <1>4, <1>6, <1>9, <1>10, <1>11, <1>12, <1>13

\* ... and the interposer writes the line it read the text for.
LEMMA LineAfterWhat ==
    ASSUME Whole, HushedInv, Watched, phase = "run", In("what"), NEW w, w = Last(ctx),
           NEW verb, verb = (IF w.site = "throw" THEN "throw" ELSE "catch"),
           NEW name \in EventNames, WriteEvent(verb, name, w.exc), ~oom',
           exc' = exc, count' = count, caught' = caught,
           \A f : Carriers(ctx', f) = Carriers(ctx, f),
           phase' = "flight" => w.site = "throw" /\ flight' = w.exc
    PROVE  Open'
<1>1. /\ TypeInv /\ w.exc \in Ids /\ IsNative(w.exc)
      /\ \A e \in Ids : Carriers(ctx, e) # {} => Raised(exc, log, e)
      /\ \A e \in Ids : IsNative(e) /\ count[e] > 0 =>
           CaughtLast(log, e) \/ (e = w.exc /\ w.site # "throw")
      /\ \A k \in DOMAIN caught : ~IsNative(caught[k]) => CaughtLast(log, caught[k])
      /\ w.site = "throw" => count[w.exc] = 0
      /\ Carriers(ctx, w.exc) = {}
  BY WhatOver
<1>2. /\ Ids' = Ids /\ \A e : IsNative(e)' <=> IsNative(e)
  BY SameExceptions
<1>3. NewLine(verb, name, w.exc) \in Line /\ verb \in {"throw", "rethrow", "catch", "terminate"}
      /\ verb # "terminate"
  BY <1>1 DEF NewLine, Line, Ids
<1>4. /\ \A f : f # w.exc \/ verb = "terminate" => SameLines(log, log', f)
      /\ verb # "terminate" => OneLineMore(log, log', w.exc, Len(log) + 1, verb)
  BY <1>1, <1>3, LineAdded
<1>5. /\ verb = "catch" => CaughtLast(log', w.exc)
      /\ verb # "catch" => ThrownLast(log', w.exc)
  BY <1>3, <1>4, MoreTold
<1>6. ASSUME NEW e \in Ids, Carried(e)' PROVE Raised(exc', log', e)
  <2>1. CASE Carriers(ctx, e) # {}
    <3>1. Raised(exc, log, e) /\ e # w.exc
      BY <1>1, <2>1
    <3> QED
      BY <1>4, <3>1, SameTold DEF Raised
  <2>2. CASE phase' = "flight" /\ flight' = e
    <3>1. e = w.exc /\ verb # "catch"
      BY <2>2
    <3> QED
      BY <1>5, <3>1 DEF Raised
  <2> QED
    BY <1>6, <2>1, <2>2 DEF Carried
<1>7. ASSUME NEW e \in Ids, IsNative(e), count[e] > 0 PROVE CaughtLast(log', e)
  <2>1. CASE e = w.exc
    <3>1. count[w.exc] > 0
      BY <1>7, <2>1
    <3>2. w.site # "throw"
      BY <1>1, <3>1
    <3> QED
      BY <1>5, <2>1, <3>2
  <2>2. CASE e # w.exc
    <3>1. CaughtLast(log, e) /\ SameLines(log, log', e)
      BY <1>1, <1>4, <1>7, <2>2
    <3> QED
      BY <3>1, SameTold
  <2> QED
    BY <2>1, <2>2
<1>8. ASSUME NEW k \in DOMAIN caught, ~IsNative(caught[k]) PROVE CaughtLast(log', caught[k])
  <2>1. CaughtLast(log, caught[k]) /\ SameLines(log, log', caught[k])
    BY <1>1, <1>4, <1>8
  <2> QED
    BY <2>1, SameTold
<1> QED
  BY <1>2, <1>6, <1>7, <1>8 DEF Open

LEMMA CxaThrowGoesOnTold ==
    ASSUME Whole, Whole', TellInv, CxaThrowGoesOn
    PROVE  TellInv'
<1> DEFINE w == Last(ctx)
           name == ShownName(w.type, NoName)
<1>1. /\ In("what") /\ phase = "run" /\ w.site = "throw"
      /\ WriteEvent("throw", name, w.exc)
      /\ exc' = exc /\ count' = count /\ caught' = caught /\ ours' = ours /\ terminating' = terminating
      /\ flight' = w.exc /\ phase' = "flight" /\ ctx' = Front(ctx) /\ (oom => oom')
  BY DEF CxaThrowGoesOn, Fly, WriteEvent
<1>2. IInv /\ NamesInv /\ TypeInv /\ AlternateInv /\ HushedInv /\ Running
  BY <1>1 DEF Whole, IInv, TellInv, Running
<1>3. w.exc \in Ids /\ IsNative(w.exc) /\ w.type \in TypeNames /\ ~terminating /\ At(ctx', "what") = {}
  BY <1>1, <1>2, WhatEnds, LabelAfterWhat
<1>4. name \in EventNames /\ NewLine("throw", name, w.exc) \in Line
      /\ "throw" \in {"throw", "rethrow", "catch", "terminate"}
  BY <1>3, NamesType DEF NewLine, Line, Ids
<1>5. ASSUME Watched
      PROVE  /\ Mine(log, w.exc) = {}
             /\ \A f : Carriers(ctx', f) = Carriers(ctx, f)
  BY <1>1, <1>2, <1>5, WhatOver
<1> HIDE DEF w, name
<1>6. AlternateInv'
  <2>1. ours = EntryPoints /\ ~oom /\ w.exc # 0 =>
          CaughtLast(log, w.exc) \/ (Mine(log, w.exc) = {} /\ exc'[w.exc].class \in {"primary", "dependent"})
    BY <1>1, <1>3, <1>5 DEF Watched, IsNative
  <2>2. Ids' = Ids /\ phase' # "start" /\ (\A e \in Ids : exc'[e] = exc[e])
    BY <1>1 DEF Ids
  <2> QED
    BY <1>1, <1>2, <1>4, <2>1, <2>2, AlternateMore
<1>7. OpenInv'
  <2> SUFFICES ASSUME Watched' PROVE Open'
    BY DEF OpenInv
  <2>1. Watched /\ ~oom'
    BY <1>1 DEF Watched
  <2>2. w = Last(ctx) /\ "throw" = (IF w.site = "throw" THEN "throw" ELSE "catch")
    BY <1>1 DEF w
  <2> QED
    BY <1>1, <1>2, <1>4, <1>5, <2>1, <2>2, LineAfterWhat
<1>8. HushedInv'
  BY <1>3, NoneHushed
<1> QED
  BY <1>6, <1>7, <1>8 DEF TellInv

LEMMA BeginCatchGoesOnTold ==
    ASSUME Whole, Whole', TellInv, BeginCatchGoesOn
    PROVE  TellInv'
<1> DEFINE w == Last(ctx)
           name == ShownName(w.type, NoName)
           verb == IF w.site = "program" THEN "catch" ELSE "terminate"
           h == [kind |-> "handler", exc |-> w.exc, site |-> NoName, type |-> NoName]
<1>1. /\ In("what") /\ phase = "run" /\ w.site # "throw"
      /\ ReportCatch(w.exc, w.site, w.type, NoName) /\ AfterCatch(w.exc, w.site, Front(ctx))
      /\ exc' = exc /\ count' = count /\ caught' = caught /\ ours' = ours /\ flight' = flight
  BY DEF BeginCatchGoesOn, runtime
<1>2. IInv /\ NamesInv /\ TypeInv /\ AlternateInv /\ HushedInv /\ Running
  BY <1>1 DEF Whole, IInv, TellInv, Running
<1>3. /\ w.exc \in Ids /\ IsNative(w.exc) /\ w.type \in TypeNames /\ ~terminating
      /\ At(Front(ctx), "what") = {} /\ ContextsOK(Front(ctx), Len(exc)) /\ Len(exc) \in Nat
      /\ w.exc \in 1..Len(exc) /\ w.site \in CatchSites
  BY <1>1, <1>2, WhatEnds, LabelAfterWhat DEF Ids
<1>4. phase' # "start" /\ At(ctx', "what") = {}
  BY <1>1, <1>3, AfterCatchContexts
<1>5. /\ name \in EventNames /\ NewLine(verb, name, w.exc) \in Line
      /\ verb \in {"throw", "rethrow", "catch", "terminate"}
  BY <1>3, NamesType DEF NewLine, Line, Ids
<1>6. WriteEvent(verb, name, w.exc) /\ (oom => oom')
  BY <1>1 DEF ReportCatch, WriteEvent
<1>7. ASSUME Watched
      PROVE  /\ Raised(exc, log, w.exc)
             /\ \A f : Carriers(Front(ctx), f) = Carriers(ctx, f)
  BY <1>1, <1>2, <1>7, WhatOver
<1>8. ASSUME Watched' PROVE w.site = "program"
  <2>1. NoName \in {NoName, Forced, Foreign}
    OBVIOUS
  <2>2. w.site # "program" /\ ~oom' => Verbs({"terminate"})' # {}
    BY <1>1, <1>2, <1>3, <2>1, ReportCatchEffect
  <2>3. Verbs({"terminate"})' # {} => terminating'
    BY DEF Whole, IInv, TerminatingInv
  <2> QED
    BY <1>8, <2>2, <2>3 DEF Watched
<1>9. w.site = "program" => phase' = "run" /\ ctx' = Append(Front(ctx), h)
  BY <1>1 DEF AfterCatch
<1>10. h \in Context /\ ContextOK(h, Len(exc)) /\ h.kind = "handler"
  BY <1>3 DEF Context, ContextOK, Kinds, TypeNames
<1> HIDE DEF name, h
<1>11. AlternateInv'
  <2>1. ours = EntryPoints /\ ~oom /\ w.exc # 0 =>
          /\ verb = "catch" => Raised(exc', log, w.exc)
          /\ verb \in {"throw", "rethrow"} =>
               CaughtLast(log, w.exc) \/ (Mine(log, w.exc) = {} /\ exc'[w.exc].class \in {"primary", "dependent"})
    BY <1>1, <1>3, <1>7 DEF Watched
  <2>2. Ids' = Ids /\ phase' # "start" /\ (\A e \in Ids : exc'[e] = exc[e])
    BY <1>1, <1>4 DEF Ids
  <2> HIDE DEF w, verb
  <2> QED
    BY <1>1, <1>2, <1>5, <1>6, <2>1, <2>2, AlternateMore
<1>12. OpenInv'
  <2> SUFFICES ASSUME Watched' PROVE Open'
    BY DEF OpenInv
  <2>1. Watched /\ ~oom' /\ w.site = "program"
    BY <1>1, <1>3, <1>6, <1>8 DEF Watched
  <2>2. verb = "catch" /\ verb = (IF w.site = "throw" THEN "throw" ELSE "catch")
    BY <2>1
  <2>3. \A f : Carriers(ctx', f) = Carriers(ctx, f)
    <3>1. h.kind # "terminate" /\ h.kind # "cleanup" /\ Len(exc) <= Len(exc)
      BY <1>3, <1>10
    <3>2. \A f : Carriers(Append(Front(ctx), h), f) = Carriers(Front(ctx), f)
      BY <1>3, <1>10, <3>1, HandlerPushed
    <3> QED
      BY <1>7, <1>9, <2>1, <3>2
  <2>4. phase' = "run" /\ w = Last(ctx)
    BY <1>9, <2>1
  <2> HIDE DEF w, verb
  <2> QED
    BY <1>1, <1>2, <1>5, <1>6, <2>1, <2>2, <2>3, <2>4, LineAfterWhat
<1>13. HushedInv'
  BY <1>4, NoneHushed
<1> QED
  BY <1>11, <1>12, <1>13 DEF TellInv

LEMMA WhatsBelow ==
    ASSUME TypeInv
    PROVE  /\ Len(ctx) \in Nat
           /\ \A w \in At(ctx, "what") : w < Len(ctx) + 1
           /\ ctx # <<>> => \A w \in At(Front(ctx), "what") : w < Len(ctx)
<1>1. ctx \in Seq(Context) /\ Len(ctx) \in Nat /\ DOMAIN ctx = 1..Len(ctx)
  BY Lengths, LenProperties
<1>2. \A w \in 1..Len(ctx) : w < Len(ctx) + 1
  BY <1>1
<1>3. ctx # <<>> => DOMAIN Front(ctx) = 1..(Len(ctx) - 1)
  BY <1>1, Popped
<1>4. \A w \in 1..(Len(ctx) - 1) : w < Len(ctx)
  BY <1>1
<1> QED
  BY <1>1, <1>2, <1>3, <1>4 DEF At

LEMMA CxaRethrowTold ==
    ASSUME Whole, Whole', TellInv, CxaRethrow
    PROVE  TellInv'
<1> DEFINE h == IF caught = <<>> THEN 0 ELSE Last(caught)
           type == CurrentType(caught)
           name == ShownName(type, IF type = NoName THEN label ELSE NoName)
<1>0. TypeInv /\ TypeInv' /\ AlternateInv /\ HandlerInv /\ GuardInv
  BY DEF Whole, IInv, TellInv
<1>1. /\ exc' = exc /\ ctx' = ctx /\ ours' = ours /\ terminating' = terminating /\ guard' = guard
      /\ phase = "run" /\ phase' # "start"
      /\ IF Reports("rethrow") THEN WriteEvent("rethrow", name, h) ELSE NoEvent
  BY DEF CxaRethrow, Fly
<1>2. /\ Ids' = Ids /\ \A e : IsNative(e)' <=> IsNative(e)
      /\ Natives' = Natives
  BY <1>1, SameExceptions
<1>3. name \in EventNames /\ h \in Nat
  <2>1. type \in TypeNames
    BY <1>0, Lengths, CurrentTypeType
  <2>2. label \in {NoName, Forced, Foreign} /\ NoName \in {NoName, Forced, Foreign}
    BY <1>0, Flags
  <2>3. h \in Ids \cup {0}
    BY <1>0, StackFacts
  <2> QED
    BY <2>1, <2>2, <2>3, NamesType DEF Ids
<1>4. NewLine("rethrow", name, h) \in Line /\ "rethrow" \in {"throw", "rethrow", "catch", "terminate"}
  BY <1>3 DEF NewLine, Line
<1>5. caught = <<>> => phase' = "terminate" /\ h = 0
  BY DEF CxaRethrow
<1>6. caught # <<>> =>
        /\ h = caught[Len(caught)] /\ Len(caught) \in DOMAIN caught /\ h \in Ids /\ h # 0
        /\ flight' = h /\ phase' = "flight" /\ count[h] >= 0
        /\ IF IsNative(h) THEN count' = [count EXCEPT ![h] = -@] /\ caught' = caught
                          ELSE caught' = <<>> /\ count' = count
  <2> SUFFICES ASSUME caught # <<>>
               PROVE  /\ h = caught[Len(caught)] /\ Len(caught) \in DOMAIN caught /\ h \in Ids /\ h # 0
                      /\ flight' = h /\ phase' = "flight" /\ count[h] >= 0
                      /\ IF IsNative(h) THEN count' = [count EXCEPT ![h] = -@] /\ caught' = caught
                                        ELSE caught' = <<>> /\ count' = count
    OBVIOUS
  <2>1. h = caught[Len(caught)] /\ Len(caught) \in DOMAIN caught /\ h \in Ids
    BY <1>0, StackFacts
  <2>2. h # 0
    BY <2>1 DEF Ids
  <2> QED
    BY <2>1, <2>2 DEF CxaRethrow, Fly
<1> HIDE DEF h, type, name
\* What is rethrown was handled.
<1>7. caught # <<>> /\ IsNative(h) =>
        /\ count[h] > 0 /\ count'[h] < 0 /\ count'[h] \in Int /\ Mag(count'[h]) = Mag(count[h])
        /\ \A e \in Ids : e # h => count'[e] = count[e]
  <2> SUFFICES ASSUME caught # <<>>, IsNative(h)
               PROVE  /\ count[h] > 0 /\ count'[h] < 0 /\ count'[h] \in Int
                      /\ Mag(count'[h]) = Mag(count[h])
                      /\ \A e \in Ids : e # h => count'[e] = count[e]
    OBVIOUS
  <2>1. h \in DOMAIN count /\ count[h] \in Int /\ DOMAIN count = Ids /\ h \in Natives
    BY <1>0, <1>6, Lengths DEF Natives
  <2>2. count[h] # 0
    BY <1>0, <1>6, <2>1 DEF HandlerInv, Handled, Stacks
  <2>3. count'[h] = -count[h] /\ \A e \in Ids : e # h => count'[e] = count[e]
    BY <1>6, <2>1
  <2>4. count[h] > 0
    BY <1>6, <2>1, <2>2
  <2> QED
    BY <2>1, <2>3, <2>4 DEF Mag
<1>8. ASSUME Watched, ~guard PROVE h # 0 => CaughtLast(log, h)
  <2>1. Open
    BY <1>1, <1>8 DEF TellInv, OpenInv, Running
  <2> SUFFICES ASSUME h # 0 PROVE CaughtLast(log, h)
    OBVIOUS
  <2>2. caught # <<>>
    BY <1>5
  <2>3. CASE IsNative(h)
    BY <1>6, <1>7, <2>1, <2>2, <2>3 DEF Open
  <2>4. CASE ~IsNative(h)
    BY <1>6, <2>1, <2>2, <2>4 DEF Open
  <2> QED
    BY <2>3, <2>4
<1>9. AlternateInv'
  <2>1. /\ \A e \in Ids : exc'[e] = exc[e]
        /\ \A e \in Ids' : e \in Ids \/ (e \notin Ids /\ e # 0)
    BY <1>1, <1>2
  <2>2. CASE ~Reports("rethrow")
    <3>1. log' = log /\ oom' = oom
      BY <1>1, <2>2 DEF NoEvent
    <3> QED
      BY <1>0, <1>1, <2>1, <3>1, AlternateKept
  <2>3. CASE Reports("rethrow")
    <3>1. WriteEvent("rethrow", name, h) /\ ~guard /\ ~terminating
      BY <1>1, <2>3 DEF Reports
    <3>2. oom => oom'
      BY <3>1 DEF WriteEvent
    <3>3. ours = EntryPoints /\ ~oom /\ h # 0 => CaughtLast(log, h)
      BY <1>8, <3>1 DEF Watched
    <3> QED
      BY <1>0, <1>1, <1>4, <2>1, <3>1, <3>2, <3>3, AlternateMore
  <2> QED
    BY <2>2, <2>3
<1>10. CASE caught = <<>>
  BY <1>5, <1>9, <1>10, GivenUpTold DEF TellInv
<1>11. CASE caught # <<>>
  <2>1. OpenInv'
    <3> SUFFICES ASSUME Watched', ~guard' PROVE Open'
      BY DEF OpenInv
    <3>1. Watched /\ ~guard /\ ~oom' /\ WriteEvent("rethrow", name, h)
      BY <1>1 DEF Watched, Reports, EntryPoints, NoEvent, WriteEvent
    <3>2. Open
      BY <1>1, <3>1 DEF TellInv, OpenInv, Running
    <3>3. /\ \A f : f # h \/ "rethrow" = "terminate" => SameLines(log, log', f)
          /\ "rethrow" # "terminate" => OneLineMore(log, log', h, Len(log) + 1, "rethrow")
      BY <1>0, <1>4, <3>1, LineAdded
    <3>4. ThrownLast(log', h)
      BY <3>3, MoreTold
    <3>5. ASSUME NEW e \in Ids', Carried(e)'
          PROVE  (e \in Ids /\ Carried(e) /\ SameLines(log, log', e)) \/ Raised(exc', log', e)
      <4>1. CASE e = h
        BY <3>4, <4>1 DEF Raised
      <4>2. CASE e # h
        <5>1. Carriers(ctx, e) # {}
          BY <1>1, <1>6, <1>11, <3>5, <4>2 DEF Carried
        <5> QED
          BY <1>2, <3>3, <4>2, <5>1 DEF Carried
      <4> QED
        BY <4>1, <4>2
    <3>6. ASSUME NEW e \in Ids', IsNative(e)', count'[e] > 0
          PROVE  e \in Ids /\ count[e] > 0 /\ SameLines(log, log', e)
      <4>1. e \in Ids /\ IsNative(e)
        BY <1>2, <3>6
      <4>2. e # h
        <5> SUFFICES ASSUME e = h PROVE FALSE
          OBVIOUS
        <5>1. count'[h] < 0 /\ count'[h] \in Int /\ count'[h] > 0
          BY <1>7, <1>11, <3>6, <4>1
        <5> QED
          BY <5>1
      <4>3. count'[e] = count[e]
        BY <1>6, <1>7, <1>11, <4>1, <4>2
      <4> QED
        BY <3>3, <3>6, <4>1, <4>2, <4>3
    <3>7. ASSUME NEW k \in DOMAIN caught', ~(exc'[caught'[k]].class \in {"primary", "dependent"})
          PROVE  k \in DOMAIN caught /\ caught'[k] = caught[k] /\ SameLines(log, log', caught[k])
      <4>1. IsNative(h) /\ caught' = caught
        BY <1>6, <1>11, <3>7
      <4>2. caught[k] # h
        BY <1>1, <3>7, <4>1 DEF IsNative
      <4> QED
        BY <3>3, <3>7, <4>1, <4>2
    <3>8. \A e \in Ids : exc'[e] = exc[e]
      BY <1>1
    <3> QED
      BY <1>0, <3>2, <3>5, <3>6, <3>7, <3>8, OpenStep
  <2>2. HushedInv'
    <3> SUFFICES ASSUME Watched', NEW w \in At(ctx', "what"), Above(ctx', w)
                 PROVE  HushedOthers(w)' /\ HushedOwn(w)'
      BY DEF HushedInv
    <3>1. guard
      BY <1>0, <1>1 DEF GuardInv
    <3>2. log' = log /\ Watched /\ Running
      BY <1>1, <3>1 DEF Watched, Running, Reports, NoEvent
    <3>3. \A e \in Ids : e \in Ids' /\ exc'[e] = exc[e]
      BY <1>1, <1>2
    <3>4. \A e \in Ids' : \A j \in Carriers(ctx', e) : e \in Ids /\ j \in Carriers(ctx, e)
      BY <1>1, <1>2
    <3>5. ASSUME NEW e \in Ids', IsNative(e)', count'[e] > 0 \/ Inner(e, w)'
          PROVE  /\ e \in Ids /\ IsNative(e) /\ (count[e] > 0 \/ Inner(e, w))
                 /\ Based(Natives', count', ctx', e) => Based(Natives, count, ctx, e)
                 /\ \A i \in Holders(ctx', e) : i \in Holders(ctx, e) \/ w < i
      <4>1. e \in Ids /\ IsNative(e)
        BY <1>2, <3>5
      <4>2. CASE e = h
        BY <1>1, <1>2, <1>7, <1>11, <4>1, <4>2 DEF Based
      <4>3. CASE e # h
        <5>1. count'[e] = count[e]
          BY <1>6, <1>7, <1>11, <4>1, <4>3
        <5>2. count[e] > 0 \/ Inner(e, w)
          BY <1>1, <1>6, <1>11, <3>5, <4>3, <5>1 DEF Inner
        <5> QED
          BY <1>1, <1>2, <4>1, <5>1, <5>2 DEF Based
      <4> QED
        BY <4>2, <4>3
    <3>6. \A k \in DOMAIN caught' : k \in DOMAIN caught /\ caught'[k] = caught[k]
      BY <1>6, <1>11
    <3>7. /\ HushedInv /\ w \in At(ctx, "what") /\ Above(ctx, w)
          /\ \A v \in At(ctx', "what") : v \in At(ctx, "what") /\ ctx'[v] = ctx[v]
          /\ \A v : Above(ctx', v) => Above(ctx, v)
          /\ \A f : Holders(ctx', f) = Holders(ctx, f)
      BY <1>1 DEF TellInv
    <3> QED
      BY <1>0, <3>2, <3>3, <3>4, <3>5, <3>6, <3>7, HushedStep
  <2> QED
    BY <1>9, <2>1, <2>2 DEF TellInv
<1> QED
  BY <1>10, <1>11

LEMMA CslgTerminateTold ==
    ASSUME Whole, Whole', TellInv, CslgTerminate
    PROVE  TellInv'
<1> DEFINE h == IF caught = <<>> THEN 0 ELSE Last(caught)
           type == CurrentType(caught)
           name == IF type # NoName THEN type ELSE IF Uncaught THEN InFlight ELSE NothingHandled
           z == [kind |-> "terminate", exc |-> 0, site |-> NoName, type |-> NoName]
<1>0. TypeInv /\ AlternateInv
  BY DEF Whole, IInv, TellInv
<1>1. /\ exc' = exc /\ ctx' = Append(ctx, z) /\ ours' = ours /\ guard' = guard /\ phase' = "run"
      /\ IF Reports("terminate") THEN terminating' = TRUE /\ WriteEvent("terminate", name, h)
                                 ELSE NoEvent /\ terminating' = terminating
  BY DEF CslgTerminate, RunTerminateHandler, Enter
<1>2. /\ \A e \in Ids : exc'[e] = exc[e]
      /\ \A e \in Ids' : e \in Ids \/ (e \notin Ids /\ e # 0)
      /\ phase' # "start"
  BY <1>1 DEF Ids
<1>3. Len(exc) \in Nat /\ ContextsOK(ctx, Len(exc))
  BY <1>0, StackFacts
<1>4. z \in Context /\ ContextOK(z, Len(exc)) /\ z.kind = "terminate"
  BY <1>3 DEF Context, ContextOK, Kinds, TypeNames
<1>5. name \in EventNames /\ h \in Nat
  <2>1. type \in TypeNames
    BY <1>0, Lengths, CurrentTypeType
  <2>2. h \in Ids \cup {0}
    BY <1>0, StackFacts
  <2> QED
    BY <2>1, <2>2 DEF Ids, EventNames
<1>6. NewLine("terminate", name, h) \in Line /\ "terminate" \in {"throw", "rethrow", "catch", "terminate"}
  BY <1>5 DEF NewLine, Line
<1> HIDE DEF h, type, name, z
<1>7. AlternateInv'
  <2>1. CASE Reports("terminate")
    <3>1. WriteEvent("terminate", name, h) /\ (oom => oom')
      BY <1>1, <2>1 DEF WriteEvent
    <3> QED
      BY <1>0, <1>1, <1>2, <1>6, <3>1, AlternateMore
  <2>2. CASE ~Reports("terminate")
    <3>1. log' = log /\ oom' = oom
      BY <1>1, <2>2 DEF NoEvent
    <3> QED
      BY <1>0, <1>1, <1>2, <3>1, AlternateKept
  <2> QED
    BY <2>1, <2>2
<1>8. OpenInv'
  <2> SUFFICES ASSUME Watched', ~guard' PROVE FALSE
    BY DEF OpenInv
  <2>1. Reports("terminate")
    BY <1>1 DEF Watched, Reports, EntryPoints
  <2> QED
    BY <1>1, <2>1 DEF Watched
<1>9. HushedInv'
  BY <1>0, <1>1, <1>3, <1>4, BuriedFacts DEF HushedInv
<1> QED
  BY <1>7, <1>8, <1>9 DEF TellInv

\* A destructor runs while an exception is unwound.
LEMMA RunCleanupTold ==
    ASSUME Whole, Whole', TellInv, RunCleanup
    PROVE  TellInv'
<1> DEFINE c == [kind |-> "cleanup", exc |-> flight, site |-> NoName, type |-> NoName]
<1>0. TypeInv /\ TypeInv' /\ AlternateInv /\ HushedInv
  BY DEF Whole, IInv, TellInv
<1>1. /\ ctx' = Append(ctx, c) /\ phase = "flight" /\ phase' = "run" /\ flight \in Ids
      /\ exc' = exc /\ count' = count /\ caught' = caught /\ log' = log /\ oom' = oom
      /\ ours' = ours /\ guard' = guard /\ terminating' = terminating
  BY <1>0 DEF RunCleanup, Enter, TypeInv, tracer
<1>2. c \in Context /\ ContextOK(c, Len(exc)) /\ c.kind = "cleanup" /\ c.exc = flight
  BY <1>0, <1>1, StackFacts DEF Context, ContextOK, Kinds, TypeNames, Ids
<1> HIDE DEF c
<1>3. /\ \A f : /\ Holders(ctx', f) = Holders(ctx, f)
                /\ Carriers(ctx', f) =
                     Carriers(ctx, f) \cup (IF f = flight THEN {Len(ctx) + 1} ELSE {})
                /\ HeldBy(ctx', f) = HeldBy(ctx, f)
      /\ \A w \in At(ctx', "what") :
           /\ w \in At(ctx, "what") /\ ctx'[w] = ctx[w]
           /\ Above(ctx', w) <=> Above(ctx, w)
  <2>1. c.kind # "terminate" /\ Len(exc) \in Nat /\ Len(exc) <= Len(exc)
    BY <1>0, <1>2, StackFacts
  <2>2. \A f : ~Holds(c, f)
    BY <1>2 DEF Holds
  <2>3. /\ \A f : /\ Holders(Append(ctx, c), f) =
                       Holders(ctx, f) \cup (IF Holds(c, f) THEN {Len(ctx) + 1} ELSE {})
                  /\ Carriers(Append(ctx, c), f) =
                       Carriers(ctx, f) \cup
                         (IF c.kind = "cleanup" /\ c.exc = f THEN {Len(ctx) + 1} ELSE {})
        /\ \A w \in At(Append(ctx, c), "what") :
             \/ /\ w \in At(ctx, "what") /\ Append(ctx, c)[w] = ctx[w]
                /\ Above(Append(ctx, c), w) <=> Above(ctx, w)
             \/ c.kind = "what" /\ w = Len(ctx) + 1 /\ Append(ctx, c)[w] = c
    BY <1>0, <1>2, <2>1, EnteredFacts
  <2>4. /\ \A f : /\ Holders(Append(ctx, c), f) = Holders(ctx, f)
                  /\ Carriers(Append(ctx, c), f) =
                       Carriers(ctx, f) \cup (IF f = flight THEN {Len(ctx) + 1} ELSE {})
        /\ \A w \in At(Append(ctx, c), "what") :
             /\ w \in At(ctx, "what") /\ Append(ctx, c)[w] = ctx[w]
             /\ Above(Append(ctx, c), w) <=> Above(ctx, w)
    BY <1>2, <2>2, <2>3
  <2> QED
    BY <1>1, <2>4 DEF HeldBy
<1>4. /\ Ids' = Ids /\ \A e : IsNative(e)' <=> IsNative(e)
      /\ Natives' = Natives
  BY <1>1, SameExceptions
<1>5. AlternateInv'
  BY <1>0, <1>1, <1>4, AlternateKept
<1>6. \A e \in Ids : Carried(e)' => Carried(e)
  BY <1>1, <1>3 DEF Carried
<1>7. OpenInv'
  <2> SUFFICES ASSUME Watched', ~guard' PROVE Open'
    BY DEF OpenInv
  <2>1. Open
    BY <1>1 DEF TellInv, OpenInv, Running, Watched
  <2>2. \A e : SameLines(log, log', e)
    BY <1>1, UnchangedLines
  <2> QED
    BY <1>0, <1>1, <1>4, <1>6, <2>1, <2>2, OpenStep
<1>8. HushedInv'
  <2> SUFFICES ASSUME Watched', NEW w \in At(ctx', "what"), Above(ctx', w)
               PROVE  HushedOthers(w)' /\ HushedOwn(w)'
    BY DEF HushedInv
  <2>1. Watched /\ Running
    BY <1>1 DEF Watched, Running
  <2>2. \A v \in At(ctx, "what") : v < Len(ctx) + 1
    BY <1>0, WhatsBelow
  <2>3. \A e \in Ids' : \A j \in Carriers(ctx', e) :
          (e \in Ids /\ j \in Carriers(ctx, e)) \/ \A v \in At(ctx, "what") : v < j
    BY <1>3, <1>4, <2>2
  <2>4. ASSUME NEW e \in Ids', IsNative(e)', count'[e] > 0 \/ Inner(e, w)'
        PROVE  /\ e \in Ids /\ IsNative(e) /\ (count[e] > 0 \/ Inner(e, w))
               /\ Based(Natives', count', ctx', e) => Based(Natives, count, ctx, e)
               /\ \A i \in Holders(ctx', e) : i \in Holders(ctx, e) \/ w < i
    <3>1. Inner(e, w)' => Inner(e, w)
      BY <1>1, <1>3 DEF Inner
    <3> QED
      BY <1>1, <1>3, <1>4, <2>4, <3>1 DEF Based
  <2>5. \A k \in DOMAIN caught' :
          /\ k \in DOMAIN caught /\ caught'[k] = caught[k]
          /\ \A j \in Holders(ctx, caught[k]) : w < j => j \in Holders(ctx', caught[k])
    BY <1>1, <1>3
  <2>6. \A v \in At(ctx', "what") : Above(ctx', v) =>
          v \in At(ctx, "what") /\ Above(ctx, v) /\ ctx'[v] = ctx[v]
    BY <1>3
  <2>7. \A e \in Ids : e \in Ids' /\ exc'[e] = exc[e]
    BY <1>1, <1>4
  <2> QED
    BY <1>0, <1>1, <2>1, <2>3, <2>4, <2>5, <2>6, <2>7, HushedStep
<1> QED
  BY <1>5, <1>7, <1>8 DEF TellInv

\* ... and goes on when it is done.
LEMMA EndCleanupTold ==
    ASSUME Whole, Whole', TellInv, EndCleanup
    PROVE  TellInv'
<1> DEFINE q == Len(ctx)
           x == Last(ctx).exc
<1>0. TypeInv /\ TypeInv' /\ AlternateInv /\ HushedInv
  BY DEF Whole, IInv, TellInv
<1>1. /\ ctx # <<>> /\ Last(ctx).kind = "cleanup" /\ ctx' = Front(ctx)
      /\ flight' = x /\ phase = "run" /\ phase' = "flight"
      /\ exc' = exc /\ count' = count /\ caught' = caught /\ log' = log /\ oom' = oom
      /\ ours' = ours /\ guard' = guard /\ terminating' = terminating
  BY DEF EndCleanup, In, Fly, tracer
<1>2. /\ \A f : /\ Holders(ctx', f) = Holders(ctx, f)
                /\ Carriers(ctx', f) = Carriers(ctx, f) \ {q}
                /\ HeldBy(ctx', f) = HeldBy(ctx, f)
      /\ q \in Carriers(ctx, x)
  <2>1. /\ Last(ctx).kind # "terminate" /\ \A f : ~Holds(Last(ctx), f)
    BY <1>1 DEF Holds
  <2>2. /\ \A f : /\ Holders(Front(ctx), f) = Holders(ctx, f) \ {q}
                  /\ Carriers(Front(ctx), f) = Carriers(ctx, f) \ {q}
                  /\ q \notin Holders(ctx, f)
        /\ q \in Carriers(ctx, x)
    BY <1>0, <1>1, <2>1, LeftFacts
  <2> QED
    BY <1>1, <2>2 DEF HeldBy
<1>3. \A w \in At(ctx', "what") :
           /\ w \in At(ctx, "what") /\ ctx'[w] = ctx[w]
           /\ Above(ctx', w) <=> Above(ctx, w)
           /\ w < q
  <2>1. Last(ctx).kind # "terminate"
    BY <1>1
  <2> QED
    BY <1>0, <1>1, <2>1, LeftWhats, WhatsBelow
<1>4. /\ Ids' = Ids /\ \A e : IsNative(e)' <=> IsNative(e)
      /\ Natives' = Natives
  BY <1>1, SameExceptions
<1> HIDE DEF q, x
<1>5. AlternateInv'
  BY <1>0, <1>1, <1>4, AlternateKept
<1>6. \A e \in Ids : Carried(e)' => Carried(e)
  BY <1>1, <1>2 DEF Carried
<1>7. OpenInv'
  <2> SUFFICES ASSUME Watched', ~guard' PROVE Open'
    BY DEF OpenInv
  <2>1. Open
    BY <1>1 DEF TellInv, OpenInv, Running, Watched
  <2>2. \A e : SameLines(log, log', e)
    BY <1>1, UnchangedLines
  <2> QED
    BY <1>0, <1>1, <1>4, <1>6, <2>1, <2>2, OpenStep
<1>8. HushedInv'
  <2> SUFFICES ASSUME Watched', NEW w \in At(ctx', "what"), Above(ctx', w)
               PROVE  HushedOthers(w)' /\ HushedOwn(w)'
    BY DEF HushedInv
  <2>1. Watched /\ Running
    BY <1>1 DEF Watched, Running
  <2>2. w < q
    BY <1>3
  <2>3. \A e \in Ids' : \A j \in Carriers(ctx', e) : e \in Ids /\ j \in Carriers(ctx, e)
    BY <1>2, <1>4
  <2>4. ASSUME NEW e \in Ids', IsNative(e)', count'[e] > 0 \/ Inner(e, w)'
        PROVE  /\ e \in Ids /\ IsNative(e) /\ (count[e] > 0 \/ Inner(e, w))
               /\ Based(Natives', count', ctx', e) => Based(Natives, count, ctx, e)
               /\ \A i \in Holders(ctx', e) : i \in Holders(ctx, e) \/ w < i
    <3>1. Inner(e, w)' => Inner(e, w)
      BY <1>1, <1>2, <2>2 DEF Inner
    <3> QED
      BY <1>1, <1>2, <1>4, <2>4, <3>1 DEF Based
  <2>5. \A k \in DOMAIN caught' :
          /\ k \in DOMAIN caught /\ caught'[k] = caught[k]
          /\ \A j \in Holders(ctx, caught[k]) : w < j => j \in Holders(ctx', caught[k])
    BY <1>1, <1>2
  <2>6. \A v \in At(ctx', "what") : Above(ctx', v) =>
          v \in At(ctx, "what") /\ Above(ctx, v) /\ ctx'[v] = ctx[v]
    BY <1>3
  <2>7. \A e \in Ids : e \in Ids' /\ exc'[e] = exc[e]
    BY <1>1, <1>4
  <2> QED
    BY <1>0, <1>1, <2>1, <2>3, <2>4, <2>5, <2>6, <2>7, HushedStep
<1> QED
  BY <1>5, <1>7, <1>8 DEF TellInv

\* A handler is left, by the exception in flight or at its end.
LEMMA EndCatchTold ==
    ASSUME Whole, Whole', TellInv, UnwindHandler \/ EndHandler
    PROVE  TellInv'
<1>0. TypeInv /\ TypeInv' /\ AlternateInv /\ HushedInv /\ HandlerInv
  BY DEF Whole, IInv, TellInv
<1>1. /\ ctx # <<>> /\ Last(ctx).kind = "handler" /\ EndCatch /\ ctx' = Front(ctx)
      /\ phase' = phase /\ flight' = flight /\ phase \in {"run", "flight"}
      /\ exc' = exc /\ log' = log /\ oom' = oom
      /\ ours' = ours /\ guard' = guard /\ terminating' = terminating
  BY DEF UnwindHandler, EndHandler, In, tracer
<1>2. Handled(Natives, caught, count) /\ Stacked(Natives, Foreigns, caught, count, ctx)
  BY <1>0, <1>1 DEF HandlerInv, Running
<1>3. /\ \A k \in DOMAIN caught' : k \in DOMAIN caught /\ caught'[k] = caught[k]
      /\ \A f \in Natives : count'[f] > 0 => count[f] > 0
      /\ \A f \in Natives : Based(Natives, count', ctx', f) => Based(Natives, count, ctx, f)
      /\ \A k \in DOMAIN caught' : ~IsNative(caught[k]) =>
           Holders(ctx', caught[k]) = Holders(ctx, caught[k])
  BY <1>0, <1>1, <1>2, EndCatchStacked
<1>4. \A f : Holders(ctx', f) \subseteq Holders(ctx, f) /\ Carriers(ctx', f) \subseteq Carriers(ctx, f)
  <2>1. Last(ctx).kind # "terminate"
    BY <1>1
  <2> QED
    BY <1>0, <1>1, <2>1, LeftFacts
<1>5. \A w \in At(ctx', "what") :
           /\ w \in At(ctx, "what") /\ ctx'[w] = ctx[w]
           /\ Above(ctx', w) <=> Above(ctx, w)
  <2>1. Last(ctx).kind # "terminate"
    BY <1>1
  <2> QED
    BY <1>0, <1>1, <2>1, LeftWhats
<1>6. /\ Ids' = Ids /\ \A e : IsNative(e)' <=> IsNative(e)
      /\ Natives' = Natives
  BY <1>1, SameExceptions
<1>7. AlternateInv'
  <2>1. phase' # "start"
    BY <1>1
  <2> QED
    BY <1>0, <1>1, <1>6, <2>1, AlternateKept
<1>8. \A e \in Ids : Carried(e)' => Carried(e)
  BY <1>1, <1>4 DEF Carried
<1>9. OpenInv'
  <2> SUFFICES ASSUME Watched', ~guard' PROVE Open'
    BY DEF OpenInv
  <2>1. Open
    BY <1>1 DEF TellInv, OpenInv, Running, Watched
  <2>2. \A e : SameLines(log, log', e)
    BY <1>1, UnchangedLines
  <2>3. \A e \in Ids' : IsNative(e)' /\ count'[e] > 0 => e \in Ids /\ count[e] > 0
    BY <1>3, <1>6 DEF Natives
  <2> QED
    BY <1>0, <1>1, <1>3, <1>6, <1>8, <2>1, <2>2, <2>3, OpenStep
<1>10. HushedInv'
  <2> SUFFICES ASSUME Watched', NEW w \in At(ctx', "what"), Above(ctx', w)
               PROVE  HushedOthers(w)' /\ HushedOwn(w)'
    BY DEF HushedInv
  <2>1. Watched /\ Running
    BY <1>1 DEF Watched, Running
  <2>3. \A e \in Ids' : \A j \in Carriers(ctx', e) : e \in Ids /\ j \in Carriers(ctx, e)
    BY <1>4, <1>6
  <2>4. ASSUME NEW e \in Ids', IsNative(e)', count'[e] > 0 \/ Inner(e, w)'
        PROVE  /\ e \in Ids /\ IsNative(e) /\ (count[e] > 0 \/ Inner(e, w))
               /\ Based(Natives', count', ctx', e) => Based(Natives, count, ctx, e)
               /\ \A i \in Holders(ctx', e) : i \in Holders(ctx, e) \/ w < i
    <3>1. e \in Ids /\ IsNative(e) /\ e \in Natives
      BY <1>6, <2>4 DEF Natives
    <3>2. Inner(e, w)' => Inner(e, w)
      BY <1>1, <1>4 DEF Inner
    <3> QED
      BY <1>3, <1>4, <1>6, <2>4, <3>1, <3>2
  <2>5. ASSUME NEW k \in DOMAIN caught', ~(exc'[caught'[k]].class \in {"primary", "dependent"})
        PROVE  /\ k \in DOMAIN caught /\ caught'[k] = caught[k]
               /\ \A j \in Holders(ctx, caught[k]) : w < j => j \in Holders(ctx', caught[k])
    <3>1. k \in DOMAIN caught /\ caught'[k] = caught[k] /\ ~IsNative(caught[k])
      BY <1>1, <1>3, <2>5 DEF IsNative
    <3> QED
      BY <1>3, <3>1
  <2>6. \A v \in At(ctx', "what") : Above(ctx', v) =>
          v \in At(ctx, "what") /\ Above(ctx, v) /\ ctx'[v] = ctx[v]
    BY <1>5
  <2>7. \A e \in Ids : e \in Ids' /\ exc'[e] = exc[e]
    BY <1>1, <1>6
  <2> QED
    BY <1>0, <1>1, <2>1, <2>3, <2>4, <2>5, <2>6, <2>7, HushedStep
<1> QED
  BY <1>7, <1>9, <1>10 DEF TellInv

(***************************************************************************)
(* __cxa_begin_catch.  What is in flight was raised last, and waits for no *)
(* destructor.                                                             *)
(***************************************************************************)
LEMMA InFlightRaised ==
    ASSUME Whole, OpenInv, phase = "flight"
    PROVE  /\ flight \in Ids /\ flight # 0 /\ Carriers(ctx, flight) = {}
           /\ Watched /\ ~guard => Open /\ Raised(exc, log, flight)
<1>1. flight \in Ids /\ flight # 0 /\ Running
  BY DEF Whole, IInv, TypeInv, Running, Ids
<1>2. Carriers(ctx, flight) = {}
  BY <1>1 DEF Whole, HandlerInv, UnwindInv
<1>3. Watched /\ ~guard => Open
  BY <1>1 DEF OpenInv
<1> QED
  BY <1>1, <1>2, <1>3 DEF Open, Carried

\* The interposer starts a what().
LEMMA WhatBegins ==
    ASSUME Whole, Whole', TellInv, phase = "flight", NEW site \in CatchSites,
           IsNative(flight), RealBeginCatch(flight), exc' = exc, ours' = ours, phase' = "run",
           ctx' = Append(ctx, [kind |-> "what", exc |-> flight, site |-> site, type |-> CaughtType]),
           ~guard, guard', terminating' = terminating, NoEvent
    PROVE  TellInv'
<1> DEFINE c == [kind |-> "what", exc |-> flight, site |-> site, type |-> CaughtType]
<1>0. TypeInv /\ TypeInv' /\ AlternateInv /\ HandlerInv /\ OpenInv /\ IInv
  BY DEF Whole, IInv, TellInv
<1>1. log' = log /\ oom' = oom
  BY DEF NoEvent
<1>2. Ids' = Ids /\ (\A e \in Ids : e # 0) /\ (\A e : IsNative(e)' <=> IsNative(e))
  BY SameExceptions DEF Ids
<1>3. /\ OnTop(caught, flight, caught', Len(caught'))
      /\ caught' # <<>> /\ Last(caught') = flight
      /\ \A f \in Ids : f # flight => count'[f] = count[f]
  BY <1>0, BeganCatch
<1>4. /\ flight \in Ids /\ Carriers(ctx, flight) = {}
      /\ Watched => Raised(exc, log, flight)
  BY <1>0, InFlightRaised
<1>5. AlternateInv'
  BY <1>0, <1>1, <1>2, AlternateKept
<1>6. OpenInv'
  BY DEF OpenInv
<1>7. HushedInv'
  <2> SUFFICES ASSUME Watched' PROVE HushedInv'
    BY DEF HushedInv
  <2>1. Watched /\ Running
    BY <1>1 DEF Watched, Running
  <2>2. CaughtType \in TypeNames
    <3>1. caught' \in Seq(Ids)
      BY <1>0, <1>2, <1>4, BeganCatchType
    <3>2. CaughtType = exc[flight].type
      BY <1>3 DEF CaughtType, CurrentType, IsNative
    <3> QED
      BY <1>0, <1>4, <3>2, Lengths DEF Exception
  <2>3. /\ c \in Context /\ ContextOK(c, Len(exc)) /\ c.kind = "what" /\ c.site # "throw" /\ c.exc = flight
        /\ Len(exc) \in Nat /\ Len(exc) <= Len(exc)
    BY <1>0, <1>4, <2>2, StackFacts DEF Context, ContextOK, Kinds, CatchSites, NoName, Ids
  <2>4. ctx' = Append(ctx, c)
    OBVIOUS
  <2> HIDE DEF c
  <2>5. \A e \in Ids' : IsNative(e)' /\ count'[e] > 0 =>
          (e \in Ids /\ count[e] > 0) \/ (c.site # "throw" /\ e = c.exc)
    BY <1>2, <1>3, <2>3
  <2>6. ASSUME NEW k \in DOMAIN caught', ~(exc'[caught'[k]].class \in {"primary", "dependent"})
        PROVE  k \in DOMAIN caught /\ caught'[k] = caught[k]
    BY <1>3, <2>6 DEF OnTop, IsNative
  <2>7. \A e \in Ids : e \in Ids' /\ exc'[e] = exc[e]
    BY <1>2
  <2>8. \A e \in Ids' : e \in Ids \/ Carriers(ctx, e) = {}
    BY <1>2
  <2>9. c.exc \in Ids /\ Raised(exc, log, c.exc) /\ Carriers(ctx, c.exc) = {}
    BY <1>4, <2>1, <2>3
  <2> QED
    BY <1>0, <1>1, <2>1, <2>3, <2>4, <2>5, <2>6, <2>7, <2>8, <2>9, WhatTold
<1> QED
  BY <1>5, <1>6, <1>7 DEF TellInv

\* It reports.
LEMMA CatchReported ==
    ASSUME Whole, Whole', TellInv, phase = "flight", NEW site \in CatchSites,
           IsNative(flight) \/ caught = <<>>, RealBeginCatch(flight), exc' = exc, ours' = ours,
           AfterCatch(flight, site, ctx), guard' = guard, Reports("begin_catch"),
           ReportCatch(flight, site, CaughtType, ForeignLabel(flight))
    PROVE  TellInv'
<1> DEFINE verb == IF site = "program" THEN "catch" ELSE "terminate"
           name == ShownName(CaughtType, ForeignLabel(flight))
           h == [kind |-> "handler", exc |-> flight, site |-> NoName, type |-> NoName]
<1>0. TypeInv /\ TypeInv' /\ AlternateInv /\ HandlerInv /\ OpenInv /\ IInv
  BY DEF Whole, IInv, TellInv
<1>1. WriteEvent(verb, name, flight) /\ (oom => oom') /\ ~guard /\ ~terminating
  BY DEF ReportCatch, WriteEvent, Reports
<1>2. Ids' = Ids /\ (\A e \in Ids : exc'[e] = exc[e]) /\ (\A e : IsNative(e)' <=> IsNative(e))
  BY SameExceptions
<1>3. /\ OnTop(caught, flight, caught', Len(caught'))
      /\ \A f \in Ids : f # flight => count'[f] = count[f]
  BY <1>0, BeganCatch
<1>4. /\ flight \in Ids /\ flight # 0 /\ Carriers(ctx, flight) = {} /\ flight \in 1..Len(exc)
      /\ Watched => Open /\ Raised(exc, log, flight)
  BY <1>0, <1>1, InFlightRaised DEF Ids
<1>5. CaughtType \in TypeNames /\ ForeignLabel(flight) \in {NoName, Forced, Foreign}
  <2>1. caught' \in Seq(Ids)
    BY <1>0, <1>4, BeganCatchType
  <2>2. CaughtType \in TypeNames
    BY <1>0, <1>2, <2>1, CurrentTypeType DEF CaughtType
  <2> QED
    BY <2>2 DEF ForeignLabel
<1>6. /\ name \in EventNames /\ NewLine(verb, name, flight) \in Line
      /\ verb \in {"throw", "rethrow", "catch", "terminate"}
  BY <1>4, <1>5, NamesType DEF NewLine, Line, Ids
<1>7. ContextsOK(ctx, Len(exc)) /\ Len(exc) \in Nat
  BY <1>0, StackFacts
<1>8. phase' # "start" /\ At(ctx', "what") = At(ctx, "what")
  BY <1>4, <1>7, AfterCatchContexts
<1>9. site = "program" => phase' = "run" /\ ctx' = Append(ctx, h)
  BY DEF AfterCatch
<1>10. h \in Context /\ ContextOK(h, Len(exc)) /\ h.kind = "handler"
  BY <1>4, <1>7 DEF Context, ContextOK, Kinds, TypeNames
<1>11. ASSUME Watched' PROVE site = "program"
  <2>1. site # "program" /\ ~oom' => Verbs({"terminate"})' # {}
    BY <1>0, <1>1, <1>4, <1>5, ReportCatchEffect
  <2>2. Verbs({"terminate"})' # {} => terminating'
    BY DEF Whole, IInv, TerminatingInv
  <2> QED
    BY <1>11, <2>1, <2>2 DEF Watched
<1> HIDE DEF name, h
<1>12. AlternateInv'
  <2>1. ours = EntryPoints /\ ~oom /\ flight # 0 =>
          /\ verb = "catch" => Raised(exc', log, flight)
          /\ verb \in {"throw", "rethrow"} =>
               \/ CaughtLast(log, flight)
               \/ Mine(log, flight) = {} /\ exc'[flight].class \in {"primary", "dependent"}
    BY <1>1, <1>4 DEF Watched
  <2>2. \A e \in Ids' : e \in Ids \/ (e \notin Ids /\ e # 0)
    BY <1>2
  <2> HIDE DEF verb
  <2> QED
    BY <1>0, <1>1, <1>2, <1>6, <1>8, <2>1, <2>2, AlternateMore
<1>13. HushedInv'
  <2>1. At(ctx', "what") = {}
    BY <1>1, <1>8 DEF Whole, IInv, GuardInv
  <2> QED
    BY <2>1, NoneHushed
<1>14. OpenInv'
  <2> SUFFICES ASSUME Watched' PROVE Open'
    BY DEF OpenInv
  <2>1. Watched /\ ~oom' /\ site = "program" /\ Open
    BY <1>1, <1>4, <1>11 DEF Watched
  <2>2. verb = "catch" /\ phase' = "run" /\ ctx' = Append(ctx, h)
    BY <1>9, <2>1
  <2> HIDE DEF verb
  <2>3. /\ \A f : f # flight \/ verb = "terminate" => SameLines(log, log', f)
        /\ verb # "terminate" => OneLineMore(log, log', flight, Len(log) + 1, verb)
    BY <1>0, <1>1, <1>6, <2>1, LineAdded
  <2>4. CaughtLast(log', flight)
    BY <2>2, <2>3, MoreTold
  <2>5. \A f : Carriers(ctx', f) = Carriers(ctx, f)
    <3>1. h.kind # "terminate" /\ h.kind # "cleanup" /\ Len(exc) <= Len(exc)
      BY <1>7, <1>10
    <3>2. \A f : Carriers(Append(ctx, h), f) = Carriers(ctx, f)
      BY <1>7, <1>10, <3>1, HandlerPushed
    <3> QED
      BY <2>2, <3>2
  <2>6. ASSUME NEW e \in Ids', Carried(e)'
        PROVE  e \in Ids /\ Carried(e) /\ SameLines(log, log', e)
    <3>1. Carriers(ctx, e) # {}
      BY <2>2, <2>5, <2>6 DEF Carried
    <3>2. e # flight
      BY <1>4, <3>1
    <3> QED
      BY <1>2, <2>3, <3>1, <3>2 DEF Carried
  <2>7. ASSUME NEW e \in Ids', IsNative(e)', count'[e] > 0
        PROVE  (e \in Ids /\ count[e] > 0 /\ SameLines(log, log', e)) \/ CaughtLast(log', e)
    BY <1>2, <1>3, <2>3, <2>4, <2>7
  <2>8. ASSUME NEW k \in DOMAIN caught'
        PROVE  \/ k \in DOMAIN caught /\ caught'[k] = caught[k] /\ SameLines(log, log', caught[k])
               \/ CaughtLast(log', caught'[k])
    <3>1. CASE caught'[k] = flight
      BY <2>4, <3>1
    <3>2. CASE caught'[k] # flight
      <4>1. k \in DOMAIN caught /\ caught'[k] = caught[k]
        BY <1>3, <2>8, <3>2 DEF OnTop
      <4> QED
        BY <2>3, <3>2, <4>1
    <3> QED
      BY <3>1, <3>2
  <2> QED
    BY <1>0, <1>2, <2>1, <2>6, <2>7, <2>8, OpenStep
<1> QED
  BY <1>12, <1>13, <1>14 DEF TellInv

\* It says nothing: inside a what(), or it no longer matters.
LEMMA CatchHushed ==
    ASSUME Whole, Whole', TellInv, phase = "flight", NEW site \in CatchSites,
           IsNative(flight) \/ caught = <<>>, RealBeginCatch(flight), exc' = exc, ours' = ours,
           AfterCatch(flight, site, ctx), guard' = guard, ~Reports("begin_catch"),
           flight' = 0, NoEvent, terminating' = terminating
    PROVE  TellInv'
<1> DEFINE h == [kind |-> "handler", exc |-> flight, site |-> NoName, type |-> NoName]
           z == [kind |-> "terminate", exc |-> 0, site |-> NoName, type |-> NoName]
<1>0. TypeInv /\ TypeInv' /\ AlternateInv /\ HandlerInv /\ OpenInv /\ HushedInv
  BY DEF Whole, IInv, TellInv
<1>1. log' = log /\ oom' = oom
  BY DEF NoEvent
<1>2. /\ Ids' = Ids /\ (\A e \in Ids : exc'[e] = exc[e]) /\ (\A e : IsNative(e)' <=> IsNative(e))
      /\ Natives' = Natives
  BY SameExceptions
<1>3. /\ OnTop(caught, flight, caught', Len(caught'))
      /\ flight \in Natives => count'[flight] = Mag(count[flight]) + 1
      /\ \A f \in Ids : f # flight => count'[f] = count[f]
  BY <1>0, BeganCatch
<1>4. flight \in Ids /\ flight # 0 /\ flight \in 1..Len(exc)
  BY <1>0, InFlightRaised DEF Ids
<1>5. ContextsOK(ctx, Len(exc)) /\ Len(exc) \in Nat /\ Len(exc) <= Len(exc)
  BY <1>0, StackFacts
<1>6. phase' # "start"
  BY <1>4, <1>5, AfterCatchContexts
<1>7. \/ phase' = "run" /\ ctx' = Append(ctx, h)
      \/ phase' = "run" /\ ctx' = Append(ctx, z)
      \/ phase' = "terminate"
  BY DEF AfterCatch
<1>8. h \in Context /\ ContextOK(h, Len(exc)) /\ h.kind = "handler" /\ h.exc = flight
  BY <1>4, <1>5 DEF Context, ContextOK, Kinds, TypeNames
<1>9. z \in Context /\ ContextOK(z, Len(exc)) /\ z.kind = "terminate"
  BY <1>5 DEF Context, ContextOK, Kinds, TypeNames
<1> HIDE DEF h, z
<1>10. AlternateInv'
  <2>1. \A e \in Ids' : e \in Ids \/ (e \notin Ids /\ e # 0)
    BY <1>2
  <2> QED
    BY <1>0, <1>1, <1>2, <1>6, <2>1, AlternateKept
<1>11. OpenInv'
  BY <1>1 DEF OpenInv, Watched, Reports, EntryPoints
<1>12. CASE phase' = "terminate"
  BY <1>10, <1>12, GivenUpTold DEF TellInv
<1>13. CASE phase' = "run" /\ ctx' = Append(ctx, z)
  <2>1. HushedInv'
    BY <1>0, <1>5, <1>9, <1>13, BuriedFacts DEF HushedInv
  <2> QED
    BY <1>10, <1>11, <2>1 DEF TellInv
<1>14. CASE phase' = "run" /\ ctx' = Append(ctx, h)
  <2> SUFFICES ASSUME Watched', NEW w \in At(ctx', "what"), Above(ctx', w)
               PROVE  HushedOthers(w)' /\ HushedOwn(w)'
    BY <1>10, <1>11 DEF TellInv, HushedInv
  <2>1. Watched /\ Running
    BY <1>1 DEF Watched, Running
  <2>2. /\ \A f : /\ Holders(ctx', f) =
                       Holders(ctx, f) \cup (IF f = flight THEN {Len(ctx) + 1} ELSE {})
                  /\ Carriers(ctx', f) = Carriers(ctx, f)
                  /\ HeldBy(ctx', f) = HeldBy(ctx, f) + (IF f = flight THEN 1 ELSE 0)
        /\ \A v \in At(ctx', "what") :
             /\ v \in At(ctx, "what") /\ ctx'[v] = ctx[v]
             /\ Above(ctx', v) <=> Above(ctx, v)
    <3>1. h.kind # "terminate" /\ \A f : Holds(h, f) <=> f = flight
      BY <1>8 DEF Holds
    <3>2. /\ \A f : /\ Holders(Append(ctx, h), f) =
                         Holders(ctx, f) \cup (IF Holds(h, f) THEN {Len(ctx) + 1} ELSE {})
                    /\ Carriers(Append(ctx, h), f) =
                         Carriers(ctx, f) \cup
                           (IF h.kind = "cleanup" /\ h.exc = f THEN {Len(ctx) + 1} ELSE {})
                    /\ HeldBy(Append(ctx, h), f) = HeldBy(ctx, f) + (IF Holds(h, f) THEN 1 ELSE 0)
          /\ \A v \in At(Append(ctx, h), "what") :
               \/ /\ v \in At(ctx, "what") /\ Append(ctx, h)[v] = ctx[v]
                  /\ Above(Append(ctx, h), v) <=> Above(ctx, v)
               \/ h.kind = "what" /\ v = Len(ctx) + 1 /\ Append(ctx, h)[v] = h
      BY <1>0, <1>5, <1>8, <3>1, EnteredFacts
    <3>3. h.kind # "cleanup" /\ h.kind # "what"
      BY <1>8
    <3> QED
      BY <1>14, <3>1, <3>2, <3>3
  <2>3. w < Len(ctx) + 1
    BY <1>0, <2>2, WhatsBelow
  <2>4. \A f : HeldBy(ctx, f) \in Nat
    BY <1>5, HoldersType
  <2>5. ASSUME NEW e \in Ids', IsNative(e)', count'[e] > 0 \/ Inner(e, w)'
        PROVE  /\ e \in Ids /\ IsNative(e) /\ (count[e] > 0 \/ Inner(e, w))
               /\ Based(Natives', count', ctx', e) => Based(Natives, count, ctx, e)
               /\ \A i \in Holders(ctx', e) : i \in Holders(ctx, e) \/ w < i
    <3>1. e \in Ids /\ IsNative(e) /\ e \in Natives
      BY <1>2, <2>5 DEF Natives
    <3>2. \A i \in Holders(ctx', e) : i \in Holders(ctx, e) \/ w < i
      BY <2>2, <2>3
    <3>3. CASE e = flight
      <4>1. Inner(e, w)
        BY <3>3 DEF Inner
      <4>2. count'[e] = Mag(count[e]) + 1 /\ count[e] \in Int
        BY <1>0, <1>3, <3>1, <3>3, Lengths
      <4>3. Mag(count'[e]) = Mag(count[e]) + 1 /\ Mag(count[e]) \in Int
        BY <4>2 DEF Mag
      <4>4. HeldBy(ctx', e) = HeldBy(ctx, e) + 1 /\ HeldBy(ctx, e) \in Nat
        BY <2>2, <2>4, <3>3
      <4>5. Mag(count'[e]) > HeldBy(ctx', e) => Mag(count[e]) > HeldBy(ctx, e)
        BY <4>3, <4>4
      <4> QED
        BY <1>2, <3>1, <3>2, <4>1, <4>5 DEF Based
    <3>4. CASE e # flight
      <4>1. count'[e] = count[e] /\ HeldBy(ctx', e) = HeldBy(ctx, e)
        BY <1>3, <2>2, <2>4, <3>1, <3>4
      <4>2. Inner(e, w)' => Inner(e, w)
        BY <1>14, <2>2 DEF Inner
      <4> QED
        BY <1>2, <2>5, <3>1, <3>2, <4>1, <4>2 DEF Based
    <3> QED
      BY <3>3, <3>4
  <2>6. ASSUME NEW k \in DOMAIN caught'
        PROVE  \/ /\ k \in DOMAIN caught /\ caught'[k] = caught[k]
                  /\ \A j \in Holders(ctx, caught[k]) : w < j => j \in Holders(ctx', caught[k])
               \/ \E j \in Holders(ctx', caught'[k]) : w < j
    <3>1. CASE caught'[k] = flight
      BY <2>2, <2>3, <3>1
    <3>2. CASE caught'[k] # flight
      <4>1. k \in DOMAIN caught /\ caught'[k] = caught[k]
        BY <1>3, <2>6, <3>2 DEF OnTop
      <4> QED
        BY <2>2, <4>1
    <3> QED
      BY <3>1, <3>2
  <2>7. /\ \A e \in Ids : e \in Ids' /\ exc'[e] = exc[e]
        /\ \A e \in Ids' : \A j \in Carriers(ctx', e) : e \in Ids /\ j \in Carriers(ctx, e)
        /\ \A v \in At(ctx', "what") : Above(ctx', v) =>
             v \in At(ctx, "what") /\ Above(ctx, v) /\ ctx'[v] = ctx[v]
    BY <1>2, <2>2
  <2> QED
    BY <1>0, <1>1, <2>1, <2>5, <2>6, <2>7, HushedStep
<1> QED
  BY <1>7, <1>12, <1>13, <1>14

LEMMA BeginCatchTold ==
    ASSUME Whole, Whole', TellInv, NEW site \in CatchSites, phase = "flight", BeginCatch(flight, site)
    PROVE  TellInv'
<1>1. exc' = exc /\ ours' = ours /\ flight' = 0 /\ TypeInv /\ AlternateInv
  BY DEF BeginCatch, Whole, IInv, TellInv
<1>2. CASE ~IsNative(flight) /\ caught # <<>>
  <2>1. /\ phase' = "terminate" /\ log' = log /\ oom' = oom
    BY <1>2 DEF BeginCatch, NoEvent
  <2>2. (\A e \in Ids : exc'[e] = exc[e]) /\ (\A e \in Ids' : e \in Ids)
    BY <1>1, SameExceptions
  <2>3. AlternateInv'
    BY <1>1, <2>1, <2>2, AlternateKept
  <2> QED
    BY <2>1, <2>3, GivenUpTold DEF TellInv
<1>3. CASE IsNative(flight) \/ caught = <<>>
  <2>1. RealBeginCatch(flight)
    BY <1>3 DEF BeginCatch
  <2>2. CASE Reports("begin_catch") /\ IsNative(flight) /\ exc[flight].type \in WhatTypes
    <3>1. /\ ctx' = Append(ctx, [kind |-> "what", exc |-> flight, site |-> site, type |-> CaughtType])
          /\ ~guard /\ guard' /\ phase' = "run" /\ terminating' = terminating /\ NoEvent
      BY <1>3, <2>2 DEF BeginCatch, Enter, Reports
    <3> QED
      BY <1>1, <2>1, <2>2, <3>1, WhatBegins
  <2>3. CASE ~(Reports("begin_catch") /\ IsNative(flight) /\ exc[flight].type \in WhatTypes)
    <3>1. /\ AfterCatch(flight, site, ctx) /\ guard' = guard
          /\ IF Reports("begin_catch")
               THEN ReportCatch(flight, site, CaughtType, ForeignLabel(flight))
               ELSE NoEvent /\ terminating' = terminating
      BY <1>3, <2>3 DEF BeginCatch
    <3>2. CASE Reports("begin_catch")
      BY <1>1, <1>3, <2>1, <3>1, <3>2, CatchReported
    <3>3. CASE ~Reports("begin_catch")
      BY <1>1, <1>3, <2>1, <3>1, <3>3, CatchHushed
    <3> QED
      BY <3>2, <3>3
  <2> QED
    BY <2>2, <2>3
<1> QED
  BY <1>2, <1>3

LEMMA CatchesTold ==
    ASSUME Whole, Whole', TellInv,
           Catch \/ GiveUp \/ \E boundary \in Boundaries : MeetNoexcept(boundary)
    PROVE  TellInv'
<1>1. CASE Catch
  BY <1>1, BeginCatchTold DEF Catch, CatchSites
<1>2. CASE GiveUp
  BY <1>2, BeginCatchTold DEF GiveUp, CatchSites
<1>3. ASSUME NEW boundary \in Boundaries, MeetNoexcept(boundary)
      PROVE  TellInv'
  <2>1. CASE boundary = "direct"
    BY <1>3, <2>1, QuietTold
  <2>2. CASE boundary # "direct"
    <3>1. boundary \in CatchSites
      BY <2>2, InterposersAssumption DEF CatchSites
    <3> QED
      BY <1>3, <2>2, <3>1, BeginCatchTold DEF MeetNoexcept
  <2> QED
    BY <2>1, <2>2
<1> QED
  BY <1>1, <1>2, <1>3
-------------------------------------------------------------------------------
LEMMA TellInit == Init => TellInv
<1> SUFFICES ASSUME Init PROVE TellInv
  OBVIOUS
<1>1. exc = <<>> /\ caught = <<>> /\ ctx = <<>> /\ phase = "start"
  BY DEF Init
<1>2. Ids = {} /\ At(ctx, "what") = {} /\ DOMAIN caught = {}
  BY <1>1 DEF Ids, At
<1> QED
  BY <1>1, <1>2 DEF TellInv, AlternateInv, OpenInv, Open, HushedInv

LEMMA TellNext ==
    ASSUME Whole, Whole', TellInv, [Next]_vars
    PROVE  TellInv'
<1>1. CASE UNCHANGED vars
  BY <1>1, QuietTold
<1>2. CASE Next
  BY <1>2, QuietTold, RaisesTold, CxaThrowGoesOnTold, CxaRethrowTold, CatchesTold,
     BeginCatchGoesOnTold, CslgTerminateTold, EndCatchTold, RunCleanupTold, EndCleanupTold DEF Next
<1> QED
  BY <1>1, <1>2

(***************************************************************************)
(* The lines of one exception alternate between raised and caught, for     *)
(* every set of types and every bound: no what() override, no rethrow to   *)
(* read a text and no exception lost inside a terminate handler puts two   *)
(* throws or two catches of it in a row, and none is caught before it was  *)
(* raised.  It rests on the lines of an exception telling where it is      *)
(* (OpenInv, HushedInv) and on the runtime's stack of handled exceptions   *)
(* following the handlers of the program (HandlerInv).                     *)
(***************************************************************************)
THEOREM ExceptionLinesAlternate == Spec => []RaisesAndCatchesAlternate
<1>1. Spec => []Whole
  BY NamesInvariance, PTL DEF Whole
<1>2. Init => TellInv
  BY TellInit
<1>3. Whole /\ Whole' /\ TellInv /\ [Next]_vars => TellInv'
  BY TellNext
<1>4. AlternateInv => RaisesAndCatchesAlternate
  BY DEF AlternateInv, RaisesAndCatchesAlternate, Alternates, Mine, LinesOf
<1>5. TellInv => RaisesAndCatchesAlternate
  BY <1>4 DEF TellInv
<1> QED
  BY <1>1, <1>2, <1>3, <1>5, PTL DEF Spec
===============================================================================
