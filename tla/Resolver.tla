------------------------------- MODULE Resolver -------------------------------
(***************************************************************************)
(* The address resolver of src/callStack.cpp as its threads run it: the    *)
(* per-thread front caches, the shared maps under s_resolver_mutex, the    *)
(* dladdr call between the two critical sections, and the dynamic loader,  *)
(* whose lock dladdr takes and whose constructors call back into the       *)
(* hooks.                                                                  *)
(*                                                                         *)
(* The maps hand out pointers to their nodes; a pointer is modelled by the *)
(* address the node is the entry of, a null pointer by 0.                  *)
(***************************************************************************)
EXTENDS AddressLookup, FiniteSets

CONSTANTS
    Threads, NoThread,
    Hosts,          \* the threads that load and unload plugins
    Exe,            \* the executable, always mapped
    Base,           \* [image -> its dli_fbase]
    Code,           \* [image -> the addresses its mapping covers]
    SlotOf,         \* [address -> its slot in a front cache]
    HookCalls,      \* what the hooks ask for, see Call
    ApiCalls,       \* what the program asks for through the public API
    LostSets,       \* what a lookup may lose to a failed allocation
    MaxCalls,       \* bound: calls of the resolver, by all threads together
    MaxLoads        \* bound: dlopen calls

Caches == {"name", "frame", "location", "chain"}
Keys == [cache : Caches, address : Nat]
\* op: resolve (enter hook and resolve()), frame (one frame of
\* get_call_stack), site (an exception event), chain (the reconciliation).
Call == [op : {"resolve", "frame", "site", "chain"}, want : Seq(Keys)]

ASSUME ResolverAssumption ==
    /\ NoThread \notin Threads /\ Hosts \subseteq Threads /\ Exe \in Images
    /\ MaxCalls \in Nat /\ MaxLoads \in Nat
    /\ HookCalls \cup ApiCalls \subseteq Call
    /\ \A i \in Images : Base[i] \in Code[i] /\ 0 \notin Code[i]
    \* Address 0 would be mistaken for a null node; every address has a slot,
    \* and only callee names and call sites are looked for in the front caches.
    /\ \A call \in HookCalls \cup ApiCalls : \A n \in 1..Len(call.want) :
         /\ call.want[n].address # 0
         /\ call.op = "resolve" => /\ call.want[n].cache \in {"name", "location"}
                                  /\ call.want[n].address \in DOMAIN SlotOf

VARIABLES
    th,         \* the state of each thread, see Thread
    cache,      \* name_cache, frame_name_cache, location_cache, inline_chain_cache
    objects,    \* objects(): [base -> the image registered], partial
    failed,     \* object_load_failed()
    front,      \* t_name_front and t_location_front of each thread
    mutex,      \* holder of s_resolver_mutex
    loaded,     \* the images mapped
    dl,         \* the dlopen or dlclose in progress: it holds the loader lock
    loads,      \* bound: dlopen calls so far
    calls       \* bound: calls of the resolver so far

shared == <<cache, objects, failed>>
loader == <<loaded, dl, loads>>
vars == <<th, shared, front, mutex, loader, calls>>

NoCall == [op |-> "none", want |-> <<>>]
NoDl == [thread |-> NoThread, op |-> "none", image |-> NoImage]
Slots == {SlotOf[a] : a \in DOMAIN SlotOf}
EmptySlot == [key |-> 0, node |-> 0]

Locked == {"find", "fill"}
Resolving == Locked \cup {"lock", "query", "relock", "return"}
Thread == [pc : Resolving \cup {"program", "hook"},
           home : {"program", "hook"},  \* where the resolver was called
           guard : BOOLEAN,             \* t_in_instrumentation
           saved : BOOLEAN,             \* TracerScope::previous
           call : Call \cup {NoCall},
           found : Seq(Nat),            \* per wanted key: the node, or 0
           image : Seq(Images \cup {NoImage})]  \* per key: what dladdr said

TypeOK ==
    /\ th \in [Threads -> Thread]
    /\ \A t \in Threads : /\ Len(th[t].found) = Len(th[t].call.want)
                          /\ mutex = t <=> th[t].pc \in Locked
    /\ mutex \in Threads \cup {NoThread}
    /\ DOMAIN cache = Caches
    /\ \A b \in DOMAIN objects : \E i \in Images : b = Base[i] /\ objects[b] \in Images
    /\ failed \subseteq {Base[i] : i \in Images} \ DOMAIN objects
    /\ front \in [Threads -> [{"name", "location"} -> [Slots -> [key : Nat, node : Nat]]]]
    /\ Exe \in loaded /\ loaded \subseteq Images
    /\ \A i, j \in loaded : i # j => Code[i] \cap Code[j] = {}
    /\ dl \in [thread : Threads, op : {"open", "close"}, image : loaded] \cup {NoDl}
    /\ loads \in 0..MaxLoads /\ calls \in 0..MaxCalls

Init ==
    /\ th = [t \in Threads |->
         [pc |-> "program", home |-> "program", guard |-> FALSE, saved |-> FALSE,
          call |-> NoCall, found |-> <<>>, image |-> <<>>]]
    /\ cache = [c \in Caches |-> <<>>]
    /\ objects = <<>> /\ failed = {}
    /\ front = [t \in Threads |-> [c \in {"name", "location"} |->
                                   [s \in Slots |-> EmptySlot]]]
    /\ mutex = NoThread
    /\ loaded = {Exe} /\ dl = NoDl /\ loads = 0 /\ calls = 0
-------------------------------------------------------------------------------
(***************************************************************************)
(* The front caches (include/frontCache.h): direct-mapped, thread-local.   *)
(* Only the hooks' naming rule uses them.                                  *)
(***************************************************************************)
SlotFor(t, key) == front[t][key.cache][SlotOf[key.address]]

FrontFindAnyKey(t, key) == SlotFor(t, key).node
FrontFind(t, key) ==
    IF SlotFor(t, key).key = key.address THEN SlotFor(t, key).node ELSE 0

UsesFront(call) == call.op = "resolve"

\* store(): the nodes found for the wanted keys `which`.
FrontStore(t, call, which) ==
    IF ~UsesFront(call) THEN front
    ELSE [front EXCEPT ![t] = [c \in DOMAIN @ |-> [s \in Slots |->
            LET stored == {n \in which : call.want[n].cache = c
                                         /\ SlotOf[call.want[n].address] = s}
            IN  IF stored = {} THEN @[c][s]
                ELSE LET a == call.want[CHOOSE n \in stored : TRUE].address
                     IN  [key |-> a, node |-> a]]]]
-------------------------------------------------------------------------------
(***************************************************************************)
(* Common to the phases of a call.                                         *)
(***************************************************************************)
NameIsFiltered(caches, call, found) ==
    /\ call.want[1].cache \in {"name", "frame"} /\ found[1] # 0
    /\ caches[call.want[1].cache][found[1]].name = Filtered

Missing(found) == {n \in 1..Len(found) : found[n] = 0}
Answered(caches, call, found) ==
    Missing(found) = {} \/ NameIsFiltered(caches, call, found)

\* The TracerScope: entered with the previous guard saved, left by restoring it.
Entered(r, home) == [r EXCEPT !.saved = r.guard, !.guard = TRUE, !.home = home]
LeftClearing(r) == [r EXCEPT !.pc = r.home, !.guard = FALSE]
Left(r) == [r EXCEPT !.pc = r.home, !.guard = r.saved]

\* Code runs, and addresses are asked for, in images that stay mapped.
ImageAt(a) ==
    IF \E i \in loaded : a \in Code[i] THEN CHOOSE i \in loaded : a \in Code[i]
    ELSE NoImage
Wanted(call) == {call.want[n].address : n \in 1..Len(call.want)}
Usable(t, a) ==
    /\ a \in UNION {Code[i] : i \in Images} => ImageAt(a) # NoImage
    /\ dl.op = "close" /\ dl.thread # t => ImageAt(a) # dl.image
-------------------------------------------------------------------------------
(***************************************************************************)
(* The entry points, up to the first lock: the warm path takes none.       *)
(***************************************************************************)
Begin(t, call, entered) ==
    /\ calls < MaxCalls /\ calls' = calls + 1
    /\ \A a \in Wanted(call) : Usable(t, a)
    /\ LET found == [n \in 1..Len(call.want) |->
                       IF UsesFront(call) THEN FrontFind(t, call.want[n]) ELSE 0]
       IN  th' = [th EXCEPT ![t] =
             [entered EXCEPT
                !.call = call, !.found = found, !.image = <<>>,
                !.pc = IF Answered(cache, call, found) THEN "return" ELSE "lock"]]
    /\ UNCHANGED <<shared, front, mutex, loader>>

\* From a hook that has set the guard, for its first call or a further one.
HookCall(t, call) ==
    /\ th[t].pc = "hook" \/ (th[t].pc = "program" /\ ~th[t].guard)
    /\ Begin(t, call, Entered([th[t] EXCEPT !.guard = TRUE], "hook"))

\* From the program, through the public API.
ApiCall(t, call) ==
    /\ th[t].pc = "program"
    /\ Begin(t, call, Entered(th[t], "program"))

LeaveHook(t) ==
    /\ th[t].pc = "hook"
    /\ th' = [th EXCEPT ![t].pc = "program", ![t].guard = FALSE]
    /\ UNCHANGED <<shared, front, mutex, loader, calls>>

Lock(t) ==
    /\ th[t].pc = "lock" /\ mutex = NoThread
    /\ mutex' = t
    /\ th' = [th EXCEPT ![t].pc = "find"]
    /\ UNCHANGED <<shared, front, loader, calls>>

\* The mutex is released before dladdr, which takes the loader lock.
HeldOverQueries(t) == t
HeldDuringQuery(t) == NoThread

\* Under the mutex: the shared maps.  A filtered name ends the call before
\* the call site is looked at.
Find(t) ==
    LET call == th[t].call
        Node(n) == LET key == call.want[n]
                   IN  IF th[t].found[n] # 0 THEN th[t].found[n]
                       ELSE IF key.address \in DOMAIN cache[key.cache]
                            THEN key.address ELSE 0
        all == [n \in 1..Len(call.want) |-> Node(n)]
        found == IF NameIsFiltered(cache, call, all)
                 THEN [th[t].found EXCEPT ![1] = all[1]] ELSE all
        done == Answered(cache, call, found)
    IN  /\ th[t].pc = "find"
        /\ th' = [th EXCEPT ![t].found = found,
                            ![t].pc = IF done THEN "return" ELSE "query"]
        /\ front' = FrontStore(t, call, {n \in Missing(th[t].found) : found[n] # 0})
        /\ mutex' = IF done THEN NoThread ELSE HeldDuringQuery(t)
        /\ UNCHANGED <<shared, loader, calls>>

\* query_address, for each key not found.
Query(t) ==
    /\ th[t].pc = "query"
    /\ dl.thread \in {NoThread, t}
    /\ th' = [th EXCEPT
         ![t].pc = "relock",
         ![t].image = [n \in 1..Len(th[t].found) |->
                         IF th[t].found[n] = 0
                         THEN ImageAt(th[t].call.want[n].address) ELSE NoImage]]
    /\ UNCHANGED <<shared, front, mutex, loader, calls>>

Relock(t) ==
    /\ th[t].pc = "relock" /\ mutex \in {NoThread, HeldDuringQuery(t)}
    /\ mutex' = t
    /\ th' = [th EXCEPT ![t].pc = "fill"]
    /\ UNCHANGED <<shared, front, loader, calls>>
-------------------------------------------------------------------------------
(***************************************************************************)
(* Filling the maps, under the mutex.                                      *)
(***************************************************************************)
Registry == [objects |-> objects, failed |-> failed]

\* unordered_map::emplace: an entry already there stays.
Emplaced(map, key, value) ==
    [k \in DOMAIN map \cup {key} |-> IF k \in DOMAIN map THEN map[k] ELSE value]

\* Registered at first sight, or refused for good: no usable path (the
\* mapping's file was deleted, the object has none), no memory for a state,
\* a file that cannot be read.
ensure_object_loaded(i) ==
    LET base == Base[i]
        registered == [Registry EXCEPT !.objects = Emplaced(@, base, i)]
        refused == [Registry EXCEPT !.failed = @ \cup {base}]
    IN  IF base \in DOMAIN objects \cup failed THEN {Registry}
        ELSE {registered, refused}

AfterQuery(i, key) ==
    IF \/ i = NoImage
       \/ key.cache \in {"name", "frame"} /\ FilteredByDynamicSymbol(i, key.address)
    THEN {Registry} ELSE ensure_object_loaded(i)

\* The object whose state answers: one state per object.
AnyRegisteredObject(objs, i, a) ==
    IF \E b \in DOMAIN objs : objs[b] # i /\ a \in Code[objs[b]]
    THEN objs[CHOOSE b \in DOMAIN objs : objs[b] # i /\ a \in Code[objs[b]]]
    ELSE IF Base[i] \in DOMAIN objs THEN objs[Base[i]] ELSE NoImage
AnsweringObject(objs, i, a) ==
    IF Base[i] \in DOMAIN objs THEN objs[Base[i]] ELSE NoImage

\* What is computed for a key of a call, image i answered by object.
AnswerFrom(call, key, i, object, lost) ==
    LET a == key.address
    IN  CASE key.cache = "name" ->
               cache_name(resolve_function_name(i, object, a, "innermost_function", lost))
          [] key.cache = "frame" ->
               cache_name(resolve_function_name(i, object, a, "outermost_function", lost))
          [] key.cache = "location" /\ call.op = "site" ->
               resolve_event_site_location(i, object, a, lost)
          [] key.cache = "location" /\ call.op # "site" ->
               resolve_filename_and_line(i, object, a, lost)
          [] key.cache = "chain" -> read_inline_chain(i, object, a, lost)

Answer(objs, call, key, i, lost) ==
    AnswerFrom(call, key, i,
               IF i = NoImage THEN NoImage ELSE AnsweringObject(objs, i, key.address),
               lost)

\* Find-or-emplace: another thread may have been here since Find.
StillMissing(key) == key.address \notin DOMAIN cache[key.cache]

Filled(call, key, i) ==
    {[registry |-> registry,
      cache |-> [cache EXCEPT ![key.cache] =
                   Emplaced(@, key.address, Answer(registry.objects, call, key, i, lost))]] :
       registry \in AfterQuery(i, key), lost \in LostSets}

FirstMissing(found) == {n \in Missing(found) : \A m \in Missing(found) : n <= m}

\* One wanted key; the last one, or a filtered name, ends the call.
FillKey(t, call, n) ==
    LET key == call.want[n]
        found == [th[t].found EXCEPT ![n] = key.address]
    IN  /\ \E after \in IF StillMissing(key) THEN Filled(call, key, th[t].image[n])
                       ELSE {[registry |-> Registry, cache |-> cache]} :
             /\ cache' = after.cache
             /\ objects' = after.registry.objects
             /\ failed' = after.registry.failed
             /\ IF Answered(after.cache, call, found)
                THEN /\ th' = [th EXCEPT ![t].found = found, ![t].pc = "return"]
                     /\ mutex' = NoThread
                ELSE /\ th' = [th EXCEPT ![t].found = found]
                     /\ UNCHANGED mutex
        /\ front' = FrontStore(t, call, {n})
        /\ UNCHANGED <<loader, calls>>

Fill(t) ==
    /\ th[t].pc = "fill"
    /\ \E n \in FirstMissing(th[t].found) : FillKey(t, th[t].call, n)

\* An allocation fails before the entry is in the map: the lock_guard and the
\* TracerScope unwind, the object may have been registered already.
FillThrows(t) ==
    /\ th[t].pc = "fill"
    /\ \E n \in FirstMissing(th[t].found) :
         /\ StillMissing(th[t].call.want[n])
         /\ \E registry \in {Registry} \cup
                            AfterQuery(th[t].image[n], th[t].call.want[n]) :
              objects' = registry.objects /\ failed' = registry.failed
    /\ th' = [th EXCEPT ![t].pc = "return"]
    /\ mutex' = NoThread
    /\ UNCHANGED <<cache, front, loader, calls>>

Return(t) ==
    /\ th[t].pc = "return"
    /\ th' = [th EXCEPT ![t] = Left(@)]
    /\ UNCHANGED <<shared, front, mutex, loader, calls>>
-------------------------------------------------------------------------------
(***************************************************************************)
(* The loader: its lock is held while constructors and destructors run.    *)
(***************************************************************************)
InUse(i) == \E t \in Threads : /\ th[t].pc # "program"
                               /\ Wanted(th[t].call) \cap Code[i] # {}

Dlopen(t, i) ==
    /\ th[t].pc = "program" /\ dl = NoDl /\ loads < MaxLoads
    /\ i \notin loaded
    /\ \A j \in loaded : Code[j] \cap Code[i] = {}
    /\ loaded' = loaded \cup {i}
    /\ dl' = [thread |-> t, op |-> "open", image |-> i]
    /\ loads' = loads + 1
    /\ UNCHANGED <<th, shared, front, mutex, calls>>

Dlclose(t, i) ==
    /\ th[t].pc = "program" /\ dl = NoDl
    /\ i \in loaded \ {Exe} /\ ~InUse(i)
    /\ dl' = [thread |-> t, op |-> "close", image |-> i]
    /\ UNCHANGED <<th, shared, front, mutex, loaded, loads, calls>>

DlReturns(t) ==
    /\ th[t].pc = "program" /\ dl.thread = t
    /\ loaded' = IF dl.op = "close" THEN loaded \ {dl.image} ELSE loaded
    /\ dl' = NoDl
    /\ UNCHANGED <<th, shared, front, mutex, loads, calls>>
-------------------------------------------------------------------------------
ResolverStep(t) ==
    \/ Lock(t) \/ Find(t) \/ Query(t) \/ Relock(t)
    \/ Fill(t) \/ FillThrows(t) \/ Return(t)

Next ==
    \E t \in Threads :
      \/ LeaveHook(t) \/ DlReturns(t) \/ ResolverStep(t)
      \/ \E call \in HookCalls : HookCall(t, call)
      \/ \E call \in ApiCalls : ApiCall(t, call)
      \/ t \in Hosts /\ \E i \in Images : Dlopen(t, i) \/ Dlclose(t, i)

\* What Fill and FillThrows do to the thread's own state.  One of them is
\* always possible while the thread fills the maps.
FillingStep(t) ==
    /\ th[t].pc = "fill"
    /\ \E n \in FirstMissing(th[t].found), pc \in {"fill", "return"} :
         \E node \in {0, th[t].call.want[n].address} :
           th' = [th EXCEPT ![t].pc = pc, ![t].found[n] = node]

Fairness ==
    \A t \in Threads :
      /\ WF_vars(Lock(t) \/ Find(t) \/ Query(t) \/ Relock(t) \/ Return(t))
      /\ WF_th(FillingStep(t))
      /\ WF_vars(LeaveHook(t) \/ DlReturns(t))

Spec == Init /\ [][Next]_vars /\ Fairness
-------------------------------------------------------------------------------
(***************************************************************************)
(* Properties.                                                             *)
(***************************************************************************)
(***************************************************************************)
(* The caches, the mutex released for dladdr and the object registry are a *)
(* way to keep one table of answers (MemoTable).  An answer is admissible  *)
(* when it is computed from the file of an object that covers the address, *)
(* by either location rule, with whatever a lookup may lose, or without a  *)
(* file.                                                                   *)
(***************************************************************************)
AdmissibleAnswers(key) ==
    UNION {{AnswerFrom([op |-> op, want |-> <<key>>], key, i, object, lost) :
              object \in {i, NoImage}, lost \in LostSets, op \in {"resolve", "site"}} :
             i \in {NoImage} \cup {j \in Images : key.address \in Code[j]}}

TableOfAnswers ==
    [key \in {k \in [cache : Caches, address : UNION {DOMAIN cache[c] : c \in Caches}] :
               k.address \in DOMAIN cache[k.cache]} |-> cache[key.cache][key.address]]
QuestionsOf(r) == IF r.pc \in Resolving THEN r.call.want ELSE <<>>
AnswersOf(r) ==
    [n \in 1..Len(QuestionsOf(r)) |->
       IF r.found[n] = 0 THEN <<>> ELSE <<cache[r.call.want[n].cache][r.found[n]]>>]

Memo == INSTANCE MemoTable WITH
    Askers <- Threads, Questions <- Keys, Admissible <- AdmissibleAnswers,
    memo <- TableOfAnswers,
    asked <- [t \in Threads |-> QuestionsOf(th[t])],
    given <- [t \in Threads |-> AnswersOf(th[t])]

\* "Entries never erased or modified" (resolve_no_unwind, frontCache.h): what
\* makes it safe to read the nodes without the mutex.  Threads race to fill
\* the same entry, a lookup may come out poorer the second time, slots collide
\* and a call may be cut short: still each address is answered once, and every
\* call is given the entries of the very addresses it asked for.
ImplementsMemoTable == Memo!Spec

\* ObjectFile::state (callStack.h): a library loaded into the address range of
\* one unloaded before is never answered with the unloaded one's names.  An
\* address seen for the first time is answered from the file of the object it
\* is in, or by the texts that need no file.
UnloadedObjectsNeverAnswer ==
    [][\A t \in Threads : mutex = t /\ cache' # cache =>
         \A n \in FirstMissing(th[t].found) :
           LET key == th[t].call.want[n]
               i == th[t].image[n]
           IN  cache'[key.cache][key.address] \in
                 {AnswerFrom(th[t].call, key, i, object, lost) :
                    object \in {i, NoImage}, lost \in LostSets}]_cache

\* The guard keeps instrumented library code that runs inside the tracer from
\* entering a hook, and so from locking s_resolver_mutex twice; outside the
\* tracer it is down, or the thread would never be traced again.
GuardTellsWhereTheThreadIs ==
    \A t \in Threads : th[t].guard <=> th[t].pc # "program"

\* Every call of the resolver returns, also while another thread runs an
\* instrumented constructor inside dlopen: no cycle of the mutex and the
\* loader lock.
ResolvesReturn ==
    \A t \in Threads : th[t].pc \in Resolving ~> th[t].pc \notin Resolving
===============================================================================
