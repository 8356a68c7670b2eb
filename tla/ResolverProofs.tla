----------------------------- MODULE ResolverProofs -----------------------------
(***************************************************************************)
(* Proofs about Resolver: the types, the guard of the tracer's threads,    *)
(* that an object is answered for by its own file, and that the caches and *)
(* locks implement MemoTable.                                              *)
(***************************************************************************)
EXTENDS Resolver, SequenceTheorems, TLAPS

(***************************************************************************)
(* The inductive invariant.  It says of each thread what the nodes it      *)
(* holds and the images dladdr named for it have to do with the call it is *)
(* in, and of each front cache that its pointers lead to entries of the    *)
(* shared maps.                                                            *)
(***************************************************************************)
Calls == HookCalls \cup ApiCalls \cup {NoCall}

CallOK(r) == r.call \in Calls /\ Len(r.found) = Len(r.call.want)

\* A scope entered from a hook found the guard up, one entered from the
\* program found it down: leaving it restores the guard of where it was called.
ScopeOK(r) ==
    /\ r.guard <=> r.pc # "program"
    /\ r.pc \in Resolving => (r.saved <=> r.home = "hook")

\* A node is the entry of the very address wanted.
NodesOK(r, maps) ==
    \A n \in 1..Len(r.found) :
      r.found[n] # 0 => /\ r.found[n] = r.call.want[n].address
                        /\ r.found[n] \in DOMAIN maps[r.call.want[n].cache]

\* dladdr named the object that covers the address, or none.
ImagesOK(r) ==
    r.pc \in {"relock", "fill"} =>
      /\ Len(r.image) = Len(r.found)
      /\ \A n \in Missing(r.found) :
           r.image[n] = NoImage \/ r.call.want[n].address \in Code[r.image[n]]

RecordOK(r, maps) ==
    /\ r \in Thread
    /\ CallOK(r) /\ ScopeOK(r) /\ NodesOK(r, maps) /\ ImagesOK(r)

RecordsInv ==
    /\ th \in [Threads -> Thread]
    /\ \A t \in Threads : RecordOK(th[t], cache)

LockInv ==
    /\ mutex \in Threads \cup {NoThread}
    /\ \A t \in Threads : mutex = t <=> th[t].pc \in Locked

RegistryInv ==
    /\ \A b \in DOMAIN objects : \E i \in Images : b = Base[i] /\ objects[b] \in Images
    /\ failed \subseteq {Base[i] : i \in Images} \ DOMAIN objects

FrontCaches == [{"name", "location"} -> [Slots -> [key : Nat, node : Nat]]]

FrontInv ==
    /\ front \in [Threads -> FrontCaches]
    /\ \A t \in Threads, c \in {"name", "location"}, s \in Slots :
         front[t][c][s].node # 0 => /\ front[t][c][s].node = front[t][c][s].key
                                    /\ front[t][c][s].key \in DOMAIN cache[c]

LoaderInv ==
    /\ Exe \in loaded /\ loaded \subseteq Images
    /\ \A i, j \in loaded : i # j => Code[i] \cap Code[j] = {}
    /\ dl \in [thread : Threads, op : {"open", "close"}, image : loaded] \cup {NoDl}
    /\ dl.op = "close" => dl.image # Exe
    /\ loads \in 0..MaxLoads

IInv ==
    /\ RecordsInv /\ LockInv /\ RegistryInv /\ FrontInv /\ LoaderInv
    /\ DOMAIN cache = Caches /\ calls \in 0..MaxCalls

\* Entries are never erased or modified.
Grows(maps, more) ==
    /\ DOMAIN more = Caches
    /\ \A c \in Caches : \A a \in DOMAIN maps[c] :
         a \in DOMAIN more[c] /\ more[c][a] = maps[c][a]
-------------------------------------------------------------------------------
(***************************************************************************)
(* Lemmas about calls and caches.                                          *)
(***************************************************************************)
\* What a call wants are addresses with a cache, none of them null; the hooks'
\* naming rule wants only what the front caches hold.
LEMMA Wants ==
  ASSUME NEW call \in Calls
  PROVE  /\ call.want \in Seq(Keys) /\ Len(call.want) \in Nat
         /\ \A n \in 1..Len(call.want) :
              /\ call.want[n] \in Keys
              /\ call.want[n].cache \in Caches
              /\ call.want[n].address \in Nat /\ call.want[n].address # 0
              /\ UsesFront(call) =>
                   /\ call.want[n].cache \in {"name", "location"}
                   /\ call.want[n].address \in DOMAIN SlotOf
                   /\ SlotOf[call.want[n].address] \in Slots
  <1>1. call \in HookCalls \cup ApiCalls \/ call = NoCall
    BY DEF Calls
  <1>2. CASE call = NoCall
    <2>1. call.want = <<>>
      BY <1>2 DEF NoCall
    <2>2. call.want \in Seq(Keys) /\ Len(call.want) = 0
      BY <2>1
    <2> QED
      BY <2>2
  <1>3. CASE call \in HookCalls \cup ApiCalls
    <2>1. call \in Call
      BY <1>3, ResolverAssumption
    <2>2. call.want \in Seq(Keys) /\ Len(call.want) \in Nat
      BY <2>1 DEF Call
    <2>3. ASSUME NEW n \in 1..Len(call.want)
          PROVE  call.want[n] \in Keys
      BY <2>2
    <2>4. ASSUME NEW n \in 1..Len(call.want)
          PROVE  /\ call.want[n].address # 0
                 /\ UsesFront(call) => /\ call.want[n].cache \in {"name", "location"}
                                       /\ call.want[n].address \in DOMAIN SlotOf
      BY <1>3, ResolverAssumption DEF UsesFront
    <2> QED
      BY <2>2, <2>3, <2>4 DEF Keys, Slots
  <1> QED
    BY <1>1, <1>2, <1>3

\* A growing map keeps what is known of every thread.
LEMMA GrowKeeps ==
  ASSUME NEW r, NEW maps, NEW more, RecordOK(r, maps), Grows(maps, more)
  PROVE  RecordOK(r, more)
  <1>1. r.call \in Calls /\ Len(r.found) = Len(r.call.want)
    BY DEF RecordOK, CallOK
  <1>2. \A n \in 1..Len(r.found) : r.call.want[n].cache \in Caches
    BY <1>1, Wants
  <1>3. NodesOK(r, more)
    BY <1>2 DEF RecordOK, NodesOK, Grows
  <1> QED
    BY <1>3 DEF RecordOK

\* A step of one thread preserves the invariant of all, when the thread's new
\* state is right and it takes, keeps or releases the mutex as that state says.
LEMMA StepKeeps ==
  ASSUME IInv, NEW t \in Threads, NEW r, RecordOK(r, cache'),
         th' = [th EXCEPT ![t] = r],
         Grows(cache, cache'),
         \/ mutex' = mutex /\ (r.pc \in Locked <=> th[t].pc \in Locked)
         \/ mutex = NoThread /\ mutex' = t /\ r.pc \in Locked
         \/ mutex = t /\ mutex' = NoThread /\ r.pc \notin Locked
  PROVE  RecordsInv' /\ LockInv'
  <1>1. /\ th \in [Threads -> Thread] /\ r \in Thread
        /\ \A u \in Threads : RecordOK(th[u], cache)
        /\ mutex \in Threads \cup {NoThread}
        /\ \A u \in Threads : mutex = u <=> th[u].pc \in Locked
    BY DEF IInv, RecordsInv, LockInv, RecordOK
  <1>2. /\ th' \in [Threads -> Thread]
        /\ \A u \in Threads : th'[u] = IF u = t THEN r ELSE th[u]
    BY <1>1
  <1>3. ASSUME NEW u \in Threads
        PROVE  RecordOK(th'[u], cache')
    BY <1>1, <1>2, GrowKeeps
  <1>4. mutex' \in Threads \cup {NoThread}
    BY <1>1
  <1>5. ASSUME NEW u \in Threads
        PROVE  mutex' = u <=> th'[u].pc \in Locked
    BY <1>1, <1>2, ResolverAssumption
  <1> QED
    BY <1>2, <1>3, <1>4, <1>5 DEF RecordsInv, LockInv

\* Nothing is lost from maps that stay as they are.
LEMMA SameGrows ==
  ASSUME IInv, cache' = cache
  PROVE  Grows(cache, cache')
  BY DEF IInv, Grows

\* The front caches and the registry need no more than growing maps.
LEMMA SameFront ==
  ASSUME IInv, front' = front, Grows(cache, cache')
  PROVE  FrontInv'
  <1>1. \A c \in {"name", "location"} : c \in Caches
    BY DEF Caches
  <1> QED
    BY <1>1 DEF IInv, FrontInv, Grows

LEMMA SameRegistry ==
  ASSUME IInv, UNCHANGED <<objects, failed>>
  PROVE  RegistryInv'
  BY DEF IInv, RegistryInv

LEMMA SameLoader ==
  ASSUME IInv, UNCHANGED loader
  PROVE  LoaderInv'
  BY DEF IInv, LoaderInv, loader

\* The slot of a key holds its node, or another's, or nothing.
LEMMA FrontFindOK ==
  ASSUME IInv, NEW t \in Threads, NEW call \in Calls, UsesFront(call),
         NEW n \in 1..Len(call.want)
  PROVE  /\ FrontFind(t, call.want[n]) \in Nat
         /\ FrontFind(t, call.want[n]) # 0 =>
              /\ FrontFind(t, call.want[n]) = call.want[n].address
              /\ FrontFind(t, call.want[n]) \in DOMAIN cache[call.want[n].cache]
  <1> DEFINE c == call.want[n].cache
             s == SlotOf[call.want[n].address]
  <1>1. c \in {"name", "location"} /\ s \in Slots
    BY Wants
  <1>2. front[t][c][s] \in [key : Nat, node : Nat]
    BY <1>1 DEF IInv, FrontInv, FrontCaches
  <1>3. front[t][c][s].node # 0 => /\ front[t][c][s].node = front[t][c][s].key
                                   /\ front[t][c][s].key \in DOMAIN cache[c]
    BY <1>1 DEF IInv, FrontInv
  <1> QED
    BY <1>2, <1>3 DEF FrontFind, SlotFor

\* Storing nodes that are entries of the maps keeps the front caches right.
LEMMA FrontStoreOK ==
  ASSUME IInv, NEW t \in Threads, NEW call \in Calls,
         NEW which \in SUBSET (1..Len(call.want)),
         Grows(cache, cache'),
         \A n \in which :
           call.want[n].address \in DOMAIN cache'[call.want[n].cache],
         front' = FrontStore(t, call, which)
  PROVE  FrontInv'
  <1>1. CASE ~UsesFront(call)
    BY <1>1, SameFront DEF FrontStore
  <1>2. CASE UsesFront(call)
    <2> DEFINE stored(c, s) == {n \in which : call.want[n].cache = c
                                              /\ SlotOf[call.want[n].address] = s}
               addr(c, s) == call.want[CHOOSE n \in stored(c, s) : TRUE].address
               new == [c \in {"name", "location"} |-> [s \in Slots |->
                         IF stored(c, s) = {} THEN front[t][c][s]
                         ELSE [key |-> addr(c, s), node |-> addr(c, s)]]]
    <2>1. front \in [Threads -> FrontCaches]
      BY DEF IInv, FrontInv
    <2>2. DOMAIN front[t] = {"name", "location"}
      BY <2>1 DEF FrontCaches
    <2>3. front' = [front EXCEPT ![t] = new]
      BY <1>2, <2>2 DEF FrontStore
    <2>4. ASSUME NEW c \in {"name", "location"}, NEW s \in Slots, stored(c, s) # {}
          PROVE  addr(c, s) \in Nat /\ addr(c, s) \in DOMAIN cache'[c]
      <3>1. PICK n : n = CHOOSE m \in stored(c, s) : TRUE
        OBVIOUS
      <3>2. n \in stored(c, s)
        BY <2>4, <3>1
      <3>3. n \in 1..Len(call.want) /\ call.want[n].cache = c
            /\ addr(c, s) = call.want[n].address /\ n \in which
        BY <3>1, <3>2
      <3> QED
        BY <3>3, Wants
    <2>5. ASSUME NEW c \in {"name", "location"}, NEW s \in Slots
          PROVE  /\ new[c][s] \in [key : Nat, node : Nat]
                 /\ new[c][s].node # 0 => /\ new[c][s].node = new[c][s].key
                                          /\ new[c][s].key \in DOMAIN cache'[c]
      <3>1. CASE stored(c, s) = {}
        <4>1. new[c][s] = front[t][c][s]
          BY <3>1
        <4>2. c \in Caches
          BY DEF Caches
        <4>3. front[t][c][s] \in [key : Nat, node : Nat]
          BY <2>1 DEF FrontCaches
        <4>4. front[t][c][s].node # 0 =>
                /\ front[t][c][s].node = front[t][c][s].key
                /\ front[t][c][s].key \in DOMAIN cache[c]
          BY DEF IInv, FrontInv
        <4>5. DOMAIN cache[c] \subseteq DOMAIN cache'[c]
          BY <4>2 DEF Grows
        <4> HIDE DEF new, stored
        <4> QED
          BY <4>1, <4>3, <4>4, <4>5
      <3>2. CASE stored(c, s) # {}
        <4>1. new[c][s] = [key |-> addr(c, s), node |-> addr(c, s)]
          BY <3>2
        <4> HIDE DEF new, addr, stored
        <4> QED
          BY <4>1, <2>4, <3>2
      <3> QED
        BY <3>1, <3>2
    <2>6. new \in FrontCaches
      <3> HIDE DEF stored, addr
      <3>1. \A c \in {"name", "location"} : new[c] \in [Slots -> [key : Nat, node : Nat]]
        BY <2>5
      <3> QED
        BY <3>1 DEF FrontCaches
    <2> HIDE DEF new
    <2>7. front' \in [Threads -> FrontCaches]
      BY <2>1, <2>3, <2>6
    <2>8. ASSUME NEW u \in Threads, NEW c \in {"name", "location"}, NEW s \in Slots
          PROVE  front'[u][c][s].node # 0 =>
                   /\ front'[u][c][s].node = front'[u][c][s].key
                   /\ front'[u][c][s].key \in DOMAIN cache'[c]
      <3>1. CASE u = t
        <4>1. front'[u] = new
          BY <2>1, <2>3, <3>1
        <4> QED
          BY <4>1, <2>5
      <3>2. CASE u # t
        <4>1. front'[u] = front[u]
          BY <2>1, <2>3, <3>2
        <4>2. c \in Caches
          BY DEF Caches
        <4> QED
          BY <4>1, <4>2 DEF IInv, FrontInv, Grows
      <3> QED
        BY <3>1, <3>2
    <2> QED
      BY <2>7, <2>8 DEF FrontInv
  <1> QED
    BY <1>1, <1>2
-------------------------------------------------------------------------------
(***************************************************************************)
(* Every step preserves the invariant.                                     *)
(***************************************************************************)
\* What the invariant says of one thread.
LEMMA Own ==
  ASSUME IInv, NEW t \in Threads
  PROVE  /\ th \in [Threads -> Thread] /\ th[t] \in Thread
         /\ th[t].found \in Seq(Nat) /\ th[t].call \in Calls
         /\ Len(th[t].found) = Len(th[t].call.want)
         /\ RecordOK(th[t], cache)
         /\ mutex = t <=> th[t].pc \in Locked
  BY DEF IInv, RecordsInv, RecordOK, CallOK, Thread, LockInv

LEMMA InitInv == Init => IInv
  <1> SUFFICES ASSUME Init PROVE IInv
    OBVIOUS
  <1> DEFINE r == [pc |-> "program", home |-> "program", guard |-> FALSE, saved |-> FALSE,
                   call |-> NoCall, found |-> <<>>, image |-> <<>>]
  <1>1. r \in Thread
    BY DEF Thread
  <1>2. Len(r.found) = 0 /\ r.call = NoCall /\ NoCall.want = <<>> /\ Len(NoCall.want) = 0
    BY DEF NoCall
  <1>3. RecordOK(r, cache)
    BY <1>1, <1>2 DEF RecordOK, CallOK, ScopeOK, NodesOK, ImagesOK, Calls, Resolving, Locked
  <1>4. \A t \in Threads : th[t] = r
    BY DEF Init
  <1>5. r.pc \notin Locked
    BY DEF Locked
  <1> HIDE DEF r
  <1>6. RecordsInv
    BY <1>1, <1>3, <1>4 DEF RecordsInv, Init
  <1>7. LockInv
    BY <1>4, <1>5, ResolverAssumption DEF LockInv, Init
  <1>8. RegistryInv
    BY DEF RegistryInv, Init
  <1>9. FrontInv
    BY DEF FrontInv, FrontCaches, Init, EmptySlot
  <1>10. LoaderInv
    BY ResolverAssumption DEF LoaderInv, Init, NoDl
  <1>11. DOMAIN cache = Caches /\ calls \in 0..MaxCalls
    BY ResolverAssumption DEF Init
  <1> QED
    BY <1>6, <1>7, <1>8, <1>9, <1>10, <1>11 DEF IInv

\* A call begins: the nodes at hand are those of the front caches.
LEMMA BeginRecord ==
  ASSUME IInv, NEW t \in Threads, NEW call \in HookCalls \cup ApiCalls,
         NEW entered \in Thread,
         entered.guard, entered.saved <=> entered.home = "hook",
         th[t].pc \in {"program", "hook"},
         Begin(t, call, entered)
  PROVE  /\ IInv'
         /\ th'[t].call = call
         /\ th'[t].pc \in {"lock", "return"}
         /\ cache' = cache
  <1> DEFINE found == [n \in 1..Len(call.want) |->
                         IF UsesFront(call) THEN FrontFind(t, call.want[n]) ELSE 0]
             pc == IF Answered(cache, call, found) THEN "return" ELSE "lock"
             r == [entered EXCEPT !.call = call, !.found = found, !.image = <<>>, !.pc = pc]
  <1>1. th' = [th EXCEPT ![t] = r]
    BY DEF Begin
  <1>2. call \in Calls /\ call \in Call
    BY ResolverAssumption DEF Calls
  <1>3. Len(call.want) \in Nat
    BY <1>2, Wants
  <1>4. \A n \in 1..Len(call.want) :
          /\ found[n] \in Nat
          /\ found[n] # 0 => /\ found[n] = call.want[n].address
                             /\ found[n] \in DOMAIN cache[call.want[n].cache]
    BY <1>2, FrontFindOK
  <1>5. found \in Seq(Nat) /\ Len(found) = Len(call.want)
    <2> HIDE DEF Begin
    <2>1. found \in [1..Len(call.want) -> Nat]
      BY <1>4
    <2> QED
      BY <1>3, <2>1, LenProperties
  <1> HIDE DEF found
  <1>6. pc \in {"lock", "return"}
    OBVIOUS
  <1> HIDE DEF pc
  <1>7. /\ r.call = call /\ r.found = found /\ r.image = <<>> /\ r.pc = pc
        /\ r.guard = entered.guard /\ r.saved = entered.saved /\ r.home = entered.home
    BY DEF Thread
  <1>8. r \in Thread
    <2>1. call \in Call \cup {NoCall}
      BY <1>2
    <2>2. <<>> \in Seq(Images \cup {NoImage})
      OBVIOUS
    <2>3. pc \in Resolving \cup {"program", "hook"}
      BY <1>6 DEF Resolving
    <2> QED
      BY <1>5, <2>1, <2>2, <2>3 DEF Thread
  <1> HIDE DEF r
  <1>9. NodesOK(r, cache)
    BY <1>4, <1>5, <1>7 DEF NodesOK
  <1>10. CallOK(r)
    BY <1>2, <1>5, <1>7 DEF CallOK
  <1>11. ScopeOK(r)
    BY <1>6, <1>7 DEF ScopeOK
  <1>12. ImagesOK(r)
    BY <1>6, <1>7 DEF ImagesOK
  <1>13. cache' = cache /\ mutex' = mutex /\ UNCHANGED <<objects, failed>> /\ front' = front
         /\ UNCHANGED loader
    BY DEF Begin, shared
  <1>14. r.pc \notin Locked /\ th[t].pc \notin Locked
    BY <1>6, <1>7 DEF Locked
  <1>15. RecordsInv' /\ LockInv'
    BY <1>1, <1>8, <1>9, <1>10, <1>11, <1>12, <1>13, <1>14, StepKeeps, SameGrows DEF RecordOK
  <1>16. calls' \in 0..MaxCalls
    BY ResolverAssumption DEF Begin, IInv
  <1>17. IInv'
    BY <1>13, <1>15, <1>16, SameGrows, SameFront, SameRegistry, SameLoader DEF IInv
  <1> QED
    BY <1>1, <1>6, <1>7, <1>13, <1>17, Own

LEMMA HookCallInv ==
  ASSUME IInv, NEW t \in Threads, NEW call \in HookCalls, HookCall(t, call)
  PROVE  IInv'
  <1> DEFINE entered == Entered([th[t] EXCEPT !.guard = TRUE], "hook")
  <1>1. th[t] \in Thread
    BY Own
  <1>2. /\ entered \in Thread /\ entered.guard /\ entered.saved /\ entered.home = "hook"
    BY <1>1 DEF Entered, Thread
  <1>3. th[t].pc \in {"program", "hook"} /\ Begin(t, call, entered)
    BY DEF HookCall
  <1> HIDE DEF entered
  <1> QED
    BY <1>2, <1>3, BeginRecord

LEMMA ApiCallInv ==
  ASSUME IInv, NEW t \in Threads, NEW call \in ApiCalls, ApiCall(t, call)
  PROVE  IInv'
  <1> DEFINE entered == Entered(th[t], "program")
  <1>1. th[t] \in Thread /\ ~th[t].guard
    BY Own DEF RecordOK, ScopeOK, ApiCall
  <1>2. /\ entered \in Thread /\ entered.guard /\ ~entered.saved /\ entered.home = "program"
    BY <1>1 DEF Entered, Thread
  <1>3. th[t].pc \in {"program", "hook"} /\ Begin(t, call, entered)
    BY DEF ApiCall
  <1> HIDE DEF entered
  <1> QED
    BY <1>2, <1>3, BeginRecord

\* Steps that only move the thread, at most through the mutex.
LEMMA MoveInv ==
  ASSUME IInv, NEW t \in Threads, NEW r, RecordOK(r, cache),
         th' = [th EXCEPT ![t] = r],
         UNCHANGED <<shared, front, loader, calls>>,
         \/ mutex' = mutex /\ (r.pc \in Locked <=> th[t].pc \in Locked)
         \/ mutex = NoThread /\ mutex' = t /\ r.pc \in Locked
         \/ mutex = t /\ mutex' = NoThread /\ r.pc \notin Locked
  PROVE  IInv'
  <1>1. cache' = cache /\ UNCHANGED <<objects, failed>> /\ front' = front
        /\ UNCHANGED loader /\ calls' = calls
    BY DEF shared
  <1>2. RecordsInv' /\ LockInv'
    BY <1>1, SameGrows, StepKeeps
  <1> QED
    BY <1>1, <1>2, SameGrows, SameFront, SameRegistry, SameLoader DEF IInv

LEMMA LeaveHookInv ==
  ASSUME IInv, NEW t \in Threads, LeaveHook(t)
  PROVE  IInv'
  <1> DEFINE r == [th[t] EXCEPT !.pc = "program", !.guard = FALSE]
  <1>1. th[t] \in Thread /\ RecordOK(th[t], cache) /\ th[t].pc = "hook"
    BY Own DEF LeaveHook
  <1>2. r \in Thread
    BY <1>1 DEF Thread
  <1>3. RecordOK(r, cache)
    BY <1>1, <1>2 DEF RecordOK, CallOK, ScopeOK, NodesOK, ImagesOK, Thread, Resolving, Locked
  <1>4. th' = [th EXCEPT ![t] = r]
    BY Own DEF LeaveHook
  <1>5. r.pc \notin Locked /\ th[t].pc \notin Locked
    BY <1>1 DEF Locked, Thread
  <1> HIDE DEF r
  <1> QED
    BY <1>3, <1>4, <1>5, MoveInv DEF LeaveHook

LEMMA LockStepInv ==
  ASSUME IInv, NEW t \in Threads, Lock(t)
  PROVE  IInv'
  <1> DEFINE r == [th[t] EXCEPT !.pc = "find"]
  <1>1. th[t] \in Thread /\ RecordOK(th[t], cache) /\ th[t].pc = "lock"
    BY Own DEF Lock
  <1>2. r \in Thread
    BY <1>1 DEF Thread, Resolving, Locked
  <1>3. RecordOK(r, cache)
    BY <1>1, <1>2 DEF RecordOK, CallOK, ScopeOK, NodesOK, ImagesOK, Thread, Resolving, Locked
  <1>4. th' = [th EXCEPT ![t] = r]
    BY Own DEF Lock
  <1>5. r.pc \in Locked
    BY <1>1 DEF Locked, Thread
  <1> HIDE DEF r
  <1> QED
    BY <1>3, <1>4, <1>5, MoveInv DEF Lock

LEMMA RelockInv ==
  ASSUME IInv, NEW t \in Threads, Relock(t)
  PROVE  IInv'
  <1> DEFINE r == [th[t] EXCEPT !.pc = "fill"]
  <1>1. th[t] \in Thread /\ RecordOK(th[t], cache) /\ th[t].pc = "relock"
    BY Own DEF Relock
  <1>2. r \in Thread
    BY <1>1 DEF Thread, Resolving, Locked
  <1>3. RecordOK(r, cache)
    BY <1>1, <1>2 DEF RecordOK, CallOK, ScopeOK, NodesOK, ImagesOK, Thread, Resolving, Locked
  <1>4. th' = [th EXCEPT ![t] = r]
    BY Own DEF Relock
  <1>5. r.pc \in Locked
    BY <1>1 DEF Locked, Thread
  <1> HIDE DEF r
  <1> QED
    BY <1>3, <1>4, <1>5, MoveInv DEF Relock, HeldDuringQuery

LEMMA ReturnInv ==
  ASSUME IInv, NEW t \in Threads, Return(t)
  PROVE  IInv'
  <1> DEFINE r == Left(th[t])
  <1>1. th[t] \in Thread /\ RecordOK(th[t], cache) /\ th[t].pc = "return"
    BY Own DEF Return
  <1>2. r \in Thread /\ r.pc = th[t].home /\ r.guard = th[t].saved
        /\ r.call = th[t].call /\ r.found = th[t].found
    BY <1>1 DEF Thread, Left
  <1>3. r.pc \in {"program", "hook"} /\ (r.guard <=> r.pc # "program")
    BY <1>1, <1>2 DEF RecordOK, ScopeOK, Thread, Resolving
  <1>4. th' = [th EXCEPT ![t] = r]
    BY Own DEF Return
  <1>5. r.pc \notin Locked /\ th[t].pc \notin Locked
    BY <1>1, <1>3 DEF Locked
  <1> HIDE DEF r
  <1>6. RecordOK(r, cache)
    BY <1>1, <1>2, <1>3 DEF RecordOK, CallOK, ScopeOK, NodesOK, ImagesOK, Resolving, Locked
  <1> QED
    BY <1>4, <1>5, <1>6, MoveInv DEF Return

\* dladdr names an image that covers the address.
LEMMA ImageAtCovers ==
  ASSUME IInv, NEW a
  PROVE  ImageAt(a) = NoImage \/ (ImageAt(a) \in Images /\ a \in Code[ImageAt(a)])
  BY DEF ImageAt, IInv, LoaderInv

LEMMA QueryInv ==
  ASSUME IInv, NEW t \in Threads, Query(t)
  PROVE  IInv'
  <1> DEFINE image == [n \in 1..Len(th[t].found) |->
                         IF th[t].found[n] = 0
                         THEN ImageAt(th[t].call.want[n].address) ELSE NoImage]
             r == [th[t] EXCEPT !.pc = "relock", !.image = image]
  <1>1. /\ th[t] \in Thread /\ RecordOK(th[t], cache) /\ th[t].pc = "query"
        /\ th[t].found \in Seq(Nat)
    BY Own DEF Query
  <1>2. image \in [1..Len(th[t].found) -> Images \cup {NoImage}]
    BY ImageAtCovers
  <1>3. image \in Seq(Images \cup {NoImage}) /\ Len(image) = Len(th[t].found)
    <2>1. Len(th[t].found) \in Nat
      BY <1>1
    <2> HIDE DEF image
    <2> QED
      BY <1>2, <2>1, LenProperties
  <1>4. \A n \in Missing(th[t].found) :
          image[n] = NoImage \/ th[t].call.want[n].address \in Code[image[n]]
    BY ImageAtCovers DEF Missing
  <1>5. th' = [th EXCEPT ![t] = r]
    BY Own DEF Query
  <1> HIDE DEF image
  <1>6. r \in Thread
    BY <1>1, <1>3 DEF Thread, Resolving, Locked
  <1>7. /\ r.pc = "relock" /\ r.image = image /\ r.found = th[t].found
        /\ r.call = th[t].call /\ r.guard = th[t].guard /\ r.saved = th[t].saved
        /\ r.home = th[t].home
    BY <1>1 DEF Thread
  <1> HIDE DEF r
  <1>8. RecordOK(r, cache)
    BY <1>1, <1>3, <1>4, <1>6, <1>7
    DEF RecordOK, CallOK, ScopeOK, NodesOK, ImagesOK, Resolving, Locked
  <1>9. r.pc \notin Locked /\ th[t].pc \notin Locked
    BY <1>1, <1>7 DEF Locked
  <1> QED
    BY <1>5, <1>8, <1>9, MoveInv DEF Query
\* What Find does to the nodes of the call: some missing ones are found.
LEMMA FindStep ==
  ASSUME IInv, NEW t \in Threads, Find(t)
  PROVE  \E found \in Seq(Nat), pc \in {"return", "query"} :
           /\ th' = [th EXCEPT ![t] = [th[t] EXCEPT !.found = found, !.pc = pc]]
           /\ Len(found) = Len(th[t].found)
           /\ \A n \in 1..Len(found) :
                /\ th[t].found[n] # 0 => found[n] = th[t].found[n]
                /\ found[n] # 0 => /\ found[n] = th[t].call.want[n].address
                                   /\ found[n] \in DOMAIN cache[th[t].call.want[n].cache]
           /\ front' = FrontStore(t, th[t].call,
                                  {n \in Missing(th[t].found) : found[n] # 0})
           /\ mutex' = NoThread
  <1> DEFINE call == th[t].call
             Node(n) == LET key == call.want[n]
                        IN  IF th[t].found[n] # 0 THEN th[t].found[n]
                            ELSE IF key.address \in DOMAIN cache[key.cache]
                                 THEN key.address ELSE 0
             all == [n \in 1..Len(call.want) |-> Node(n)]
             found == IF NameIsFiltered(cache, call, all)
                      THEN [th[t].found EXCEPT ![1] = all[1]] ELSE all
             done == Answered(cache, call, found)
             pc == IF done THEN "return" ELSE "query"
  <1>1. /\ th' = [th EXCEPT ![t].found = found, ![t].pc = pc]
        /\ front' = FrontStore(t, call, {n \in Missing(th[t].found) : found[n] # 0})
        /\ mutex' = NoThread
    BY DEF Find, HeldDuringQuery
  <1>2. /\ th \in [Threads -> Thread] /\ th[t].found \in Seq(Nat) /\ call \in Calls
        /\ Len(th[t].found) = Len(call.want) /\ NodesOK(th[t], cache)
    BY Own DEF RecordOK
  <1>3. Len(call.want) \in Nat
    BY <1>2, Wants
  <1>4. \A n \in 1..Len(call.want) : call.want[n].address \in Nat
    BY <1>2, Wants
  <1>5. \A n \in 1..Len(call.want) :
          /\ all[n] \in Nat
          /\ th[t].found[n] # 0 => all[n] = th[t].found[n]
          /\ all[n] # 0 => /\ all[n] = call.want[n].address
                           /\ all[n] \in DOMAIN cache[call.want[n].cache]
    BY <1>2, <1>4 DEF NodesOK
  <1> HIDE DEF all
  <1>6. all \in Seq(Nat) /\ Len(all) = Len(call.want)
    <2>1. all \in [1..Len(call.want) -> Nat]
      BY <1>5 DEF all
    <2> QED
      BY <1>3, <2>1, LenProperties
  <1>7. found \in Seq(Nat) /\ Len(found) = Len(call.want)
    <2>1. CASE NameIsFiltered(cache, call, all) /\ Len(call.want) # 0
      <3>1. 1 \in 1..Len(th[t].found) /\ all[1] \in Nat
        BY <1>2, <1>3, <1>5, <2>1
      <3>2. found = [th[t].found EXCEPT ![1] = all[1]]
        BY <2>1
      <3> HIDE DEF found
      <3> QED
        BY <1>2, <3>1, <3>2, ExceptSeq
    <2>2. CASE NameIsFiltered(cache, call, all) /\ Len(call.want) = 0
      <3>1. found = [th[t].found EXCEPT ![1] = all[1]] /\ th[t].found = <<>>
        BY <1>2, <2>2
      <3> HIDE DEF found
      <3>2. [th[t].found EXCEPT ![1] = all[1]] = <<>>
        BY <3>1
      <3> QED
        BY <1>2, <3>1, <3>2
    <2>3. CASE ~NameIsFiltered(cache, call, all)
      BY <1>6, <2>3
    <2> QED
      BY <2>1, <2>2, <2>3
  <1>8. \A n \in 1..Len(call.want) : found[n] = all[n] \/ found[n] = th[t].found[n]
    <2>1. CASE NameIsFiltered(cache, call, all)
      BY <1>2, <2>1
    <2>2. CASE ~NameIsFiltered(cache, call, all)
      BY <2>2
    <2> QED
      BY <2>1, <2>2
  <1> HIDE DEF found
  <1>9. \A n \in 1..Len(found) :
          /\ th[t].found[n] # 0 => found[n] = th[t].found[n]
          /\ found[n] # 0 => /\ found[n] = call.want[n].address
                             /\ found[n] \in DOMAIN cache[call.want[n].cache]
    BY <1>2, <1>5, <1>7, <1>8 DEF NodesOK
  <1>10. pc \in {"return", "query"}
    OBVIOUS
  <1> HIDE DEF pc
  <1>11. th' = [th EXCEPT ![t] = [th[t] EXCEPT !.found = found, !.pc = pc]]
    BY <1>1, <1>2
  <1> QED
    BY <1>1, <1>2, <1>7, <1>9, <1>10, <1>11

LEMMA FindInv ==
  ASSUME IInv, NEW t \in Threads, Find(t)
  PROVE  IInv'
  <1>1. PICK found \in Seq(Nat), pc \in {"return", "query"} :
           /\ th' = [th EXCEPT ![t] = [th[t] EXCEPT !.found = found, !.pc = pc]]
           /\ Len(found) = Len(th[t].found)
           /\ \A n \in 1..Len(found) :
                /\ th[t].found[n] # 0 => found[n] = th[t].found[n]
                /\ found[n] # 0 => /\ found[n] = th[t].call.want[n].address
                                   /\ found[n] \in DOMAIN cache[th[t].call.want[n].cache]
           /\ front' = FrontStore(t, th[t].call,
                                  {n \in Missing(th[t].found) : found[n] # 0})
           /\ mutex' = NoThread
    BY FindStep
  <1> DEFINE r == [th[t] EXCEPT !.found = found, !.pc = pc]
             which == {n \in Missing(th[t].found) : found[n] # 0}
  <1>2. /\ th[t] \in Thread /\ RecordOK(th[t], cache) /\ th[t].call \in Calls
        /\ th[t].pc = "find" /\ mutex = t
        /\ Len(th[t].found) = Len(th[t].call.want)
    BY Own DEF Find, Locked
  <1>3. r \in Thread
    BY <1>2 DEF Thread, Resolving
  <1>4. /\ r.pc = pc /\ r.found = found /\ r.call = th[t].call
        /\ r.guard = th[t].guard /\ r.saved = th[t].saved /\ r.home = th[t].home
    BY <1>2 DEF Thread
  <1> HIDE DEF r
  <1>5. NodesOK(r, cache)
    BY <1>1, <1>4 DEF NodesOK
  <1>6. RecordOK(r, cache)
    BY <1>1, <1>2, <1>3, <1>4, <1>5 DEF RecordOK, CallOK, ScopeOK, ImagesOK, Resolving, Locked
  <1>7. r.pc \notin Locked
    BY <1>4 DEF Locked
  <1>8. th' = [th EXCEPT ![t] = r] /\ mutex' = NoThread
    BY <1>1 DEF r
  <1>9. cache' = cache /\ UNCHANGED <<objects, failed>> /\ UNCHANGED loader /\ calls' = calls
    BY DEF Find, shared
  <1>10. RecordsInv' /\ LockInv'
    BY <1>2, <1>6, <1>7, <1>8, <1>9, SameGrows, StepKeeps
  <1>11. FrontInv'
    <2>1. which \in SUBSET (1..Len(th[t].call.want))
      BY <1>2 DEF Missing
    <2>2. \A n \in which :
            th[t].call.want[n].address \in DOMAIN cache'[th[t].call.want[n].cache]
      BY <1>1, <1>9, <2>1, <1>2
    <2>3. front' = FrontStore(t, th[t].call, which)
      BY <1>1
    <2> HIDE DEF which
    <2> QED
      BY <1>2, <1>9, <2>1, <2>2, <2>3, SameGrows, FrontStoreOK
  <1> QED
    BY <1>9, <1>10, <1>11, SameGrows, SameRegistry, SameLoader DEF IInv
-------------------------------------------------------------------------------
\* Registering an object, or refusing it, keeps the registry in order.
LEMMA AfterQueryOK ==
  ASSUME IInv, NEW i \in Images \cup {NoImage}, NEW key,
         NEW registry \in {Registry} \cup AfterQuery(i, key),
         objects' = registry.objects, failed' = registry.failed
  PROVE  RegistryInv'
  <1>1. CASE registry = Registry
    <2>1. UNCHANGED <<objects, failed>>
      BY <1>1 DEF Registry
    <2> QED
      BY <2>1, SameRegistry
  <1>2. CASE registry # Registry
    <2>1. registry \in ensure_object_loaded(i) /\ i \in Images
      BY <1>2 DEF AfterQuery
    <2>2. Base[i] \notin DOMAIN objects \cup failed
      BY <1>2, <2>1 DEF ensure_object_loaded
    <2>3. \/ objects' = Emplaced(objects, Base[i], i) /\ failed' = failed
          \/ objects' = objects /\ failed' = failed \cup {Base[i]}
      BY <2>1, <2>2 DEF ensure_object_loaded, Registry
    <2>4. CASE objects' = Emplaced(objects, Base[i], i) /\ failed' = failed
      <3>1. /\ DOMAIN objects' = DOMAIN objects \cup {Base[i]}
            /\ \A b \in DOMAIN objects' :
                 objects'[b] = IF b \in DOMAIN objects THEN objects[b] ELSE i
        BY <2>4 DEF Emplaced
      <3> QED
        BY <2>1, <2>2, <2>4, <3>1 DEF IInv, RegistryInv
    <2>5. CASE objects' = objects /\ failed' = failed \cup {Base[i]}
      BY <2>1, <2>2, <2>5 DEF IInv, RegistryInv
    <2> QED
      BY <2>3, <2>4, <2>5
  <1> QED
    BY <1>1, <1>2

\* The first key still missing, and the image dladdr named for it.
LEMMA FirstMissingOK ==
  ASSUME IInv, NEW t \in Threads, th[t].pc = "fill", NEW n \in FirstMissing(th[t].found)
  PROVE  /\ n \in 1..Len(th[t].call.want) /\ n \in 1..Len(th[t].found)
         /\ th[t].found[n] = 0
         /\ th[t].image[n] \in Images \cup {NoImage}
         /\ \/ th[t].image[n] = NoImage
            \/ th[t].call.want[n].address \in Code[th[t].image[n]]
  <1>1. n \in Missing(th[t].found)
    BY DEF FirstMissing
  <1>2. n \in 1..Len(th[t].found) /\ th[t].found[n] = 0
    BY <1>1 DEF Missing
  <1>3. /\ Len(th[t].image) = Len(th[t].found)
        /\ \/ th[t].image[n] = NoImage
           \/ th[t].call.want[n].address \in Code[th[t].image[n]]
    BY <1>1, Own DEF RecordOK, ImagesOK
  <1>4. th[t].image \in Seq(Images \cup {NoImage})
    BY Own DEF Thread
  <1>5. th[t].image[n] \in Images \cup {NoImage}
    BY <1>2, <1>3, <1>4
  <1> QED
    BY <1>2, <1>3, <1>5, Own

\* What Fill does: the first missing node is there, an entry is added for it
\* unless another thread has added one.
LEMMA FillStep ==
  ASSUME IInv, NEW t \in Threads, NEW n \in FirstMissing(th[t].found),
         th[t].pc = "fill", FillKey(t, th[t].call, n)
  PROVE  LET key == th[t].call.want[n]
             found == [th[t].found EXCEPT ![n] = key.address]
         IN  /\ \E pc \in {"fill", "return"} :
                  /\ th' = [th EXCEPT ![t] = [th[t] EXCEPT !.found = found, !.pc = pc]]
                  /\ mutex' = IF pc = "fill" THEN mutex ELSE NoThread
             /\ \/ /\ key.address \in DOMAIN cache[key.cache]
                   /\ UNCHANGED shared
                \/ /\ key.address \notin DOMAIN cache[key.cache]
                   /\ \E registry \in AfterQuery(th[t].image[n], key), lost \in LostSets :
                        /\ cache' = [cache EXCEPT ![key.cache] =
                             Emplaced(@, key.address,
                               Answer(registry.objects, th[t].call, key,
                                      th[t].image[n], lost))]
                        /\ objects' = registry.objects
                        /\ failed' = registry.failed
  <1> DEFINE key == th[t].call.want[n]
             found == [th[t].found EXCEPT ![n] = key.address]
             afters == IF StillMissing(key) THEN Filled(th[t].call, key, th[t].image[n])
                       ELSE {[registry |-> Registry, cache |-> cache]}
  <1>1. PICK after \in afters :
             /\ cache' = after.cache
             /\ objects' = after.registry.objects
             /\ failed' = after.registry.failed
             /\ IF Answered(after.cache, th[t].call, found)
                THEN /\ th' = [th EXCEPT ![t].found = found, ![t].pc = "return"]
                     /\ mutex' = NoThread
                ELSE /\ th' = [th EXCEPT ![t].found = found]
                     /\ UNCHANGED mutex
    BY DEF FillKey
  <1>2. th \in [Threads -> Thread] /\ th[t] \in Thread
    BY Own
  <1>3. \E pc \in {"fill", "return"} :
                  /\ th' = [th EXCEPT ![t] = [th[t] EXCEPT !.found = found, !.pc = pc]]
                  /\ mutex' = IF pc = "fill" THEN mutex ELSE NoThread
    <2> HIDE DEF found
    <2>1. [th[t] EXCEPT !.found = found] = [th[t] EXCEPT !.found = found, !.pc = "fill"]
      BY <1>2 DEF Thread
    <2>2. CASE Answered(after.cache, th[t].call, found)
      <3>1. th' = [th EXCEPT ![t] = [th[t] EXCEPT !.found = found, !.pc = "return"]]
        BY <1>1, <1>2, <2>2
      <3> QED
        BY <1>1, <2>2, <3>1
    <2>3. CASE ~Answered(after.cache, th[t].call, found)
      <3>1. th' = [th EXCEPT ![t] = [th[t] EXCEPT !.found = found]]
        BY <1>1, <1>2, <2>3
      <3> QED
        BY <1>1, <2>1, <2>3, <3>1
    <2> QED
      BY <2>2, <2>3
  <1>4. CASE StillMissing(key)
    <2>1. after \in Filled(th[t].call, key, th[t].image[n])
      BY <1>4
    <2>2. PICK registry \in AfterQuery(th[t].image[n], key), lost \in LostSets :
            after = [registry |-> registry,
                     cache |-> [cache EXCEPT ![key.cache] =
                       Emplaced(@, key.address,
                         Answer(registry.objects, th[t].call, key, th[t].image[n], lost))]]
      <3> HIDE DEF key
      <3> QED
        BY <2>1 DEF Filled
    <2>3. key.address \notin DOMAIN cache[key.cache]
      BY <1>4 DEF StillMissing
    <2> HIDE DEF key, found
    <2>4. /\ cache' = [cache EXCEPT ![key.cache] =
                       Emplaced(@, key.address,
                         Answer(registry.objects, th[t].call, key, th[t].image[n], lost))]
          /\ objects' = registry.objects /\ failed' = registry.failed
      BY <1>1, <2>2
    <2> QED
      BY <1>3, <2>3, <2>4 DEF key, found
  <1>5. CASE ~StillMissing(key)
    <2>1. after = [registry |-> Registry, cache |-> cache]
      BY <1>5
    <2>2. UNCHANGED shared
      BY <1>1, <2>1 DEF Registry, shared
    <2>3. key.address \in DOMAIN cache[key.cache]
      BY <1>5 DEF StillMissing
    <2> QED
      BY <1>3, <2>2, <2>3
  <1> QED
    BY <1>4, <1>5
\* An entry is added to one map.
LEMMA EmplacedOK ==
  ASSUME IInv, NEW c \in Caches, NEW a, NEW v,
         cache' = [cache EXCEPT ![c] = Emplaced(@, a, v)]
  PROVE  /\ Grows(cache, cache')
         /\ a \in DOMAIN cache'[c]
         /\ a \notin DOMAIN cache[c] => cache'[c][a] = v
         /\ \A d \in Caches : \A b \in DOMAIN cache'[d] :
              b \in DOMAIN cache[d] \/ (d = c /\ b = a)
  <1>1. DOMAIN cache = Caches
    BY DEF IInv
  <1>2. /\ DOMAIN cache' = Caches
        /\ cache'[c] = Emplaced(cache[c], a, v)
        /\ \A d \in Caches : d # c => cache'[d] = cache[d]
    BY <1>1
  <1>3. /\ DOMAIN cache'[c] = DOMAIN cache[c] \cup {a}
        /\ \A b \in DOMAIN cache'[c] :
             cache'[c][b] = IF b \in DOMAIN cache[c] THEN cache[c][b] ELSE v
    BY <1>2 DEF Emplaced
  <1> QED
    BY <1>2, <1>3 DEF Grows

\* Whichever way Fill goes, the maps grow and the entry is there.
LEMMA FillGrows ==
  ASSUME IInv, NEW t \in Threads, NEW n \in FirstMissing(th[t].found),
         th[t].pc = "fill", FillKey(t, th[t].call, n)
  PROVE  /\ Grows(cache, cache') /\ RegistryInv'
         /\ th[t].call.want[n].address \in DOMAIN cache'[th[t].call.want[n].cache]
  <1> DEFINE key == th[t].call.want[n]
             i == th[t].image[n]
  <1>1. n \in 1..Len(th[t].call.want) /\ i \in Images \cup {NoImage}
    BY FirstMissingOK
  <1>2. key.cache \in Caches
    BY <1>1, Own, Wants
  <1>3. \/ /\ key.address \in DOMAIN cache[key.cache]
           /\ UNCHANGED shared
        \/ \E registry \in AfterQuery(i, key), lost \in LostSets :
             /\ cache' = [cache EXCEPT ![key.cache] =
                  Emplaced(@, key.address, Answer(registry.objects, th[t].call, key, i, lost))]
             /\ objects' = registry.objects /\ failed' = registry.failed
    BY FillStep
  <1> HIDE DEF key, i
  <1>4. CASE key.address \in DOMAIN cache[key.cache] /\ UNCHANGED shared
    <2>1. cache' = cache /\ UNCHANGED <<objects, failed>>
      BY <1>4 DEF shared
    <2> QED
      BY <1>4, <2>1, SameGrows, SameRegistry DEF key
  <1>5. ASSUME NEW registry \in AfterQuery(i, key), NEW lost \in LostSets,
               cache' = [cache EXCEPT ![key.cache] =
                  Emplaced(@, key.address, Answer(registry.objects, th[t].call, key, i, lost))],
               objects' = registry.objects, failed' = registry.failed
        PROVE  Grows(cache, cache') /\ RegistryInv' /\ key.address \in DOMAIN cache'[key.cache]
    <2>1. RegistryInv'
      BY <1>1, <1>5, AfterQueryOK DEF i
    <2>2. Grows(cache, cache') /\ key.address \in DOMAIN cache'[key.cache]
      BY <1>2, <1>5, EmplacedOK
    <2> QED
      BY <2>1, <2>2
  <1> QED
    BY <1>3, <1>4, <1>5 DEF key

LEMMA FillInv ==
  ASSUME IInv, NEW t \in Threads, Fill(t)
  PROVE  IInv'
  <1>1. PICK n \in FirstMissing(th[t].found) : FillKey(t, th[t].call, n)
    BY DEF Fill
  <1>2. /\ th[t] \in Thread /\ RecordOK(th[t], cache) /\ th[t].call \in Calls
        /\ th[t].pc = "fill" /\ mutex = t /\ th[t].found \in Seq(Nat)
        /\ Len(th[t].found) = Len(th[t].call.want)
    BY Own DEF Fill, Locked
  <1> DEFINE key == th[t].call.want[n]
             found == [th[t].found EXCEPT ![n] = key.address]
  <1>3. n \in 1..Len(th[t].call.want) /\ n \in 1..Len(th[t].found) /\ th[t].found[n] = 0
    BY <1>1, <1>2, FirstMissingOK
  <1>4. key.address \in Nat /\ key.address # 0
    BY <1>2, <1>3, Wants
  <1>5. PICK pc \in {"fill", "return"} :
          /\ th' = [th EXCEPT ![t] = [th[t] EXCEPT !.found = found, !.pc = pc]]
          /\ mutex' = IF pc = "fill" THEN mutex ELSE NoThread
    BY <1>1, <1>2, FillStep
  <1>6. Grows(cache, cache') /\ RegistryInv' /\ key.address \in DOMAIN cache'[key.cache]
    BY <1>1, <1>2, FillGrows
  <1>7. found \in Seq(Nat) /\ Len(found) = Len(th[t].found)
        /\ \A m \in 1..Len(found) : found[m] = IF m = n THEN key.address ELSE th[t].found[m]
    BY <1>2, <1>3, <1>4, ExceptSeq
  <1> DEFINE r == [th[t] EXCEPT !.found = found, !.pc = pc]
  <1> HIDE DEF key, found
  <1>8. r \in Thread
    BY <1>2, <1>7 DEF Thread, Resolving, Locked
  <1>9. /\ r.pc = pc /\ r.found = found /\ r.call = th[t].call /\ r.image = th[t].image
        /\ r.guard = th[t].guard /\ r.saved = th[t].saved /\ r.home = th[t].home
    BY <1>2 DEF Thread
  <1>10. th' = [th EXCEPT ![t] = r]
    BY <1>5
  <1> HIDE DEF r
  <1>11. RecordOK(th[t], cache')
    BY <1>2, <1>6, GrowKeeps
  <1>12. NodesOK(r, cache')
    <2>1. NodesOK(th[t], cache')
      BY <1>11 DEF RecordOK
    <2>2. ASSUME NEW m \in 1..Len(r.found), r.found[m] # 0
          PROVE  /\ r.found[m] = r.call.want[m].address
                 /\ r.found[m] \in DOMAIN cache'[r.call.want[m].cache]
      <3>1. CASE m = n
        BY <1>6, <1>7, <1>9, <3>1 DEF key
      <3>2. CASE m # n
        BY <1>7, <1>9, <2>1, <2>2, <3>2 DEF NodesOK
      <3> QED
        BY <3>1, <3>2
    <2> QED
      BY <2>2 DEF NodesOK
  <1>13. CallOK(r)
    BY <1>2, <1>7, <1>9 DEF CallOK
  <1>14. ScopeOK(r)
    BY <1>2, <1>9 DEF RecordOK, ScopeOK, Resolving, Locked
  <1>15. ImagesOK(r)
    <2>1. \A m \in Missing(r.found) : m \in Missing(th[t].found)
      BY <1>4, <1>7, <1>9 DEF Missing
    <2> QED
      BY <1>2, <1>7, <1>9, <2>1 DEF RecordOK, ImagesOK
  <1>16. RecordsInv' /\ LockInv'
    <2>1. \/ mutex' = mutex /\ (r.pc \in Locked <=> th[t].pc \in Locked)
          \/ mutex = t /\ mutex' = NoThread /\ r.pc \notin Locked
      BY <1>2, <1>5, <1>9 DEF Locked
    <2> QED
      BY <1>6, <1>8, <1>10, <1>12, <1>13, <1>14, <1>15, <2>1, StepKeeps DEF RecordOK
  <1>17. FrontInv'
    <2>1. front' = FrontStore(t, th[t].call, {n})
      BY <1>1 DEF FillKey
    <2>2. {n} \in SUBSET (1..Len(th[t].call.want))
      BY <1>3
    <2>3. \A m \in {n} : th[t].call.want[m].address
                            \in DOMAIN cache'[th[t].call.want[m].cache]
      BY <1>6 DEF key
    <2> QED
      BY <1>2, <1>6, <2>1, <2>2, <2>3, FrontStoreOK
  <1>18. LoaderInv' /\ calls' = calls
    BY <1>1, SameLoader DEF FillKey
  <1> QED
    BY <1>6, <1>16, <1>17, <1>18 DEF IInv, Grows

LEMMA FillThrowsInv ==
  ASSUME IInv, NEW t \in Threads, FillThrows(t)
  PROVE  IInv' /\ cache' = cache
  <1> DEFINE r == [th[t] EXCEPT !.pc = "return"]
  <1>1. /\ th[t] \in Thread /\ RecordOK(th[t], cache) /\ th[t].pc = "fill" /\ mutex = t
    BY Own DEF FillThrows, Locked
  <1>2. r \in Thread
    BY <1>1 DEF Thread, Resolving, Locked
  <1>3. RecordOK(r, cache)
    BY <1>1, <1>2 DEF RecordOK, CallOK, ScopeOK, NodesOK, ImagesOK, Thread, Resolving, Locked
  <1>4. th' = [th EXCEPT ![t] = r] /\ r.pc \notin Locked
    BY <1>1, Own DEF FillThrows, Thread, Locked
  <1> HIDE DEF r
  <1>5. cache' = cache /\ front' = front /\ UNCHANGED loader /\ calls' = calls
        /\ mutex' = NoThread
    BY DEF FillThrows
  <1>6. RecordsInv' /\ LockInv'
    BY <1>1, <1>3, <1>4, <1>5, SameGrows, StepKeeps
  <1>7. RegistryInv'
    <2>1. PICK n \in FirstMissing(th[t].found) :
            \E registry \in {Registry} \cup
                            AfterQuery(th[t].image[n], th[t].call.want[n]) :
              objects' = registry.objects /\ failed' = registry.failed
      BY DEF FillThrows
    <2>2. th[t].image[n] \in Images \cup {NoImage}
      BY <1>1, FirstMissingOK
    <2> QED
      BY <2>1, <2>2, AfterQueryOK
  <1> QED
    BY <1>5, <1>6, <1>7, SameGrows, SameFront, SameLoader DEF IInv
-------------------------------------------------------------------------------
LEMMA DlopenInv ==
  ASSUME IInv, NEW t \in Threads, NEW i \in Images, Dlopen(t, i)
  PROVE  IInv'
  <1>1. UNCHANGED <<th, cache, objects, failed, front, mutex, calls>>
    BY DEF Dlopen, shared
  <1>2. LoaderInv'
    <2>1. loads' \in 0..MaxLoads
      BY ResolverAssumption DEF Dlopen, IInv, LoaderInv
    <2>2. \A j, k \in loaded' : j # k => Code[j] \cap Code[k] = {}
      BY DEF Dlopen, IInv, LoaderInv
    <2>3. Exe \in loaded' /\ loaded' \subseteq Images
      BY DEF Dlopen, IInv, LoaderInv
    <2>4. dl' \in [thread : Threads, op : {"open", "close"}, image : loaded']
          /\ dl'.op = "open"
      BY DEF Dlopen
    <2> QED
      BY <2>1, <2>2, <2>3, <2>4 DEF LoaderInv
  <1> QED
    BY <1>1, <1>2, SameGrows, SameFront, SameRegistry DEF IInv, RecordsInv, LockInv

LEMMA DlcloseInv ==
  ASSUME IInv, NEW t \in Threads, NEW i \in Images, Dlclose(t, i)
  PROVE  IInv'
  <1>1. UNCHANGED <<th, cache, objects, failed, front, mutex, calls>>
    BY DEF Dlclose, shared
  <1>2. LoaderInv'
    BY DEF Dlclose, IInv, LoaderInv
  <1> QED
    BY <1>1, <1>2, SameGrows, SameFront, SameRegistry DEF IInv, RecordsInv, LockInv

LEMMA DlReturnsInv ==
  ASSUME IInv, NEW t \in Threads, DlReturns(t)
  PROVE  IInv'
  <1>1. UNCHANGED <<th, cache, objects, failed, front, mutex, calls>>
    BY DEF DlReturns, shared
  <1>2. LoaderInv'
    <2>1. loaded' \subseteq loaded /\ dl' = NoDl /\ loads' = loads /\ dl'.op # "close"
      BY DEF DlReturns, NoDl
    <2>2. Exe \in loaded'
      BY DEF DlReturns, IInv, LoaderInv
    <2> QED
      BY <2>1, <2>2 DEF IInv, LoaderInv
  <1> QED
    BY <1>1, <1>2, SameGrows, SameFront, SameRegistry DEF IInv, RecordsInv, LockInv

LEMMA NextInv == IInv /\ [Next]_vars => IInv'
  <1> SUFFICES ASSUME IInv, [Next]_vars PROVE IInv'
    OBVIOUS
  <1>1. CASE UNCHANGED vars
    <2>1. UNCHANGED <<th, cache, objects, failed, front, mutex, loaded, dl, loads, calls>>
      BY <1>1 DEF vars, shared, loader
    <2> QED
      BY <2>1 DEF IInv, RecordsInv, LockInv, RegistryInv, FrontInv, LoaderInv
  <1>2. ASSUME NEW t \in Threads, LeaveHook(t) \/ DlReturns(t) \/ ResolverStep(t)
        PROVE  IInv'
    BY <1>2, LeaveHookInv, DlReturnsInv, LockStepInv, FindInv, QueryInv, RelockInv,
       FillInv, FillThrowsInv, ReturnInv DEF ResolverStep
  <1>3. ASSUME NEW t \in Threads,
               \/ \E call \in HookCalls : HookCall(t, call)
               \/ \E call \in ApiCalls : ApiCall(t, call)
        PROVE  IInv'
    BY <1>3, HookCallInv, ApiCallInv
  <1>4. ASSUME NEW t \in Threads, NEW i \in Images, Dlopen(t, i) \/ Dlclose(t, i)
        PROVE  IInv'
    BY <1>4, DlopenInv, DlcloseInv
  <1> QED
    BY <1>1, <1>2, <1>3, <1>4 DEF Next

LEMMA Invariance == Spec => []IInv
  BY InitInv, NextInv, PTL DEF Spec

LEMMA InvTypes == IInv => TypeOK
  <1> SUFFICES ASSUME IInv PROVE TypeOK
    OBVIOUS
  <1>1. \A t \in Threads : Len(th[t].found) = Len(th[t].call.want)
    BY DEF IInv, RecordsInv, RecordOK, CallOK
  <1> QED
    BY <1>1 DEF IInv, TypeOK, RecordsInv, LockInv, RegistryInv, FrontInv, FrontCaches, LoaderInv

\* Type correctness: the mutex is held by the thread whose state says so and by
\* no other; an object is registered or refused, never both; the mapped images
\* never overlap.
THEOREM TypeCorrect == Spec => []TypeOK
  BY Invariance, InvTypes, PTL

LEMMA InvGuard == IInv => GuardTellsWhereTheThreadIs
  BY DEF IInv, RecordsInv, RecordOK, ScopeOK, GuardTellsWhereTheThreadIs

\* t_in_instrumentation is up exactly while the thread is in a hook or in the
\* resolver: nested scopes (TracerScope) never clear it under an enclosing hook,
\* nor leave it up behind a call of the public API.
THEOREM GuardIsExact == Spec => []GuardTellsWhereTheThreadIs
  BY Invariance, InvGuard, PTL
-------------------------------------------------------------------------------
(***************************************************************************)
(* Objects are answered for by their own files.  objects() is keyed by     *)
(* dli_fbase and never invalidated, so this needs that no two files are    *)
(* ever mapped at one base: the caveat at include/callStack.h 363-365.     *)
(***************************************************************************)
BasesDiffer == \A i, j \in Images : Base[i] = Base[j] => i = j

OwnStates(objs) == \A i \in Images : Base[i] \in DOMAIN objs => objs[Base[i]] = i

LEMMA RegistersOwn ==
  ASSUME BasesDiffer, OwnStates(objects), NEW i \in Images \cup {NoImage}, NEW key,
         NEW registry \in {Registry} \cup AfterQuery(i, key)
  PROVE  OwnStates(registry.objects)
  <1>1. CASE registry = Registry
    BY <1>1 DEF Registry
  <1>2. CASE registry # Registry
    <2>1. registry \in ensure_object_loaded(i) /\ i \in Images
      BY <1>2 DEF AfterQuery
    <2>2. Base[i] \notin DOMAIN objects
      BY <1>2, <2>1 DEF ensure_object_loaded
    <2>3. registry.objects \in {Emplaced(objects, Base[i], i), objects}
      BY <2>1, <2>2 DEF ensure_object_loaded, Registry
    <2>4. CASE registry.objects = Emplaced(objects, Base[i], i)
      <3>1. \A j \in Images : Base[j] = Base[i] => j = i
        BY <2>1 DEF BasesDiffer
      <3> QED
        BY <2>2, <2>4, <3>1 DEF Emplaced, OwnStates
    <2> QED
      BY <2>3, <2>4
  <1> QED
    BY <1>1, <1>2

\* Of all steps only Fill changes the maps, and only it and FillThrows the
\* registry.
LEMMA OnlyFillChanges ==
  ASSUME [Next]_vars
  PROVE  \/ UNCHANGED <<cache, objects>>
         \/ \E t \in Threads : Fill(t) \/ (FillThrows(t) /\ cache' = cache)
  <1>1. CASE UNCHANGED vars
    BY <1>1 DEF vars, shared
  <1>2. ASSUME NEW t \in Threads, LeaveHook(t) \/ DlReturns(t)
        PROVE  UNCHANGED <<cache, objects>>
    BY <1>2 DEF LeaveHook, DlReturns, shared
  <1>3. ASSUME NEW t \in Threads,
               Lock(t) \/ Find(t) \/ Query(t) \/ Relock(t) \/ Return(t)
        PROVE  UNCHANGED <<cache, objects>>
    BY <1>3 DEF Lock, Find, Query, Relock, Return, shared
  <1>4. ASSUME NEW t \in Threads, FillThrows(t)
        PROVE  cache' = cache
    BY <1>4 DEF FillThrows
  <1>5. ASSUME NEW t \in Threads,
               \/ \E call \in HookCalls : HookCall(t, call)
               \/ \E call \in ApiCalls : ApiCall(t, call)
        PROVE  UNCHANGED <<cache, objects>>
    BY <1>5 DEF HookCall, ApiCall, Begin, shared
  <1>6. ASSUME NEW t \in Threads, NEW i \in Images, Dlopen(t, i) \/ Dlclose(t, i)
        PROVE  UNCHANGED <<cache, objects>>
    BY <1>6 DEF Dlopen, Dlclose, shared
  <1> QED
    BY <1>1, <1>2, <1>3, <1>4, <1>5, <1>6 DEF Next, ResolverStep

LEMMA OwnStatesKept ==
  ASSUME BasesDiffer, IInv, OwnStates(objects), [Next]_vars
  PROVE  OwnStates(objects)'
  <1>1. CASE UNCHANGED objects
    BY <1>1 DEF OwnStates
  <1>2. ASSUME NEW t \in Threads, Fill(t)
        PROVE  OwnStates(objects')
    <2>1. th[t].pc = "fill"
      BY <1>2 DEF Fill
    <2>2. PICK n \in FirstMissing(th[t].found) : FillKey(t, th[t].call, n)
      BY <1>2 DEF Fill
    <2>3. th[t].image[n] \in Images \cup {NoImage}
      BY <2>1, FirstMissingOK
    <2> DEFINE key == th[t].call.want[n]
    <2>4. \/ UNCHANGED shared
          \/ \E registry \in AfterQuery(th[t].image[n], key), lost \in LostSets :
               /\ cache' = [cache EXCEPT ![key.cache] =
                    Emplaced(@, key.address,
                      Answer(registry.objects, th[t].call, key, th[t].image[n], lost))]
               /\ objects' = registry.objects
               /\ failed' = registry.failed
      BY <2>1, <2>2, FillStep
    <2> HIDE DEF key
    <2>5. CASE UNCHANGED shared
      BY <1>1, <2>5 DEF shared
    <2>6. ASSUME NEW registry \in AfterQuery(th[t].image[n], key),
                 objects' = registry.objects
          PROVE  OwnStates(objects')
      <3>1. OwnStates(registry.objects)
        BY <2>3, RegistersOwn
      <3> QED
        BY <2>6, <3>1
    <2> QED
      BY <2>4, <2>5, <2>6
  <1>3. ASSUME NEW t \in Threads, FillThrows(t)
        PROVE  OwnStates(objects')
    <2>1. th[t].pc = "fill"
      BY <1>3 DEF FillThrows
    <2>2. PICK n \in FirstMissing(th[t].found) :
            \E registry \in {Registry} \cup
                            AfterQuery(th[t].image[n], th[t].call.want[n]) :
              objects' = registry.objects
      BY <1>3 DEF FillThrows
    <2>3. th[t].image[n] \in Images \cup {NoImage}
      BY <2>1, FirstMissingOK
    <2> QED
      BY <2>2, <2>3, RegistersOwn
  <1>4. \/ UNCHANGED objects
        \/ \E t \in Threads : Fill(t) \/ FillThrows(t)
    BY OnlyFillChanges
  <1> QED
    BY <1>1, <1>2, <1>3, <1>4

\* What Answer computes is computed from the image's own file, or from none.
LEMMA AnswersFromOwnFile ==
  ASSUME NEW objs, OwnStates(objs), NEW i \in Images \cup {NoImage}, NEW call, NEW key,
         NEW lost
  PROVE  \E object \in {i, NoImage} :
           Answer(objs, call, key, i, lost) = AnswerFrom(call, key, i, object, lost)
  <1>1. AnsweringObject(objs, i, key.address) \in {i, NoImage} \/ i = NoImage
    BY DEF OwnStates, AnsweringObject
  <1> DEFINE object == IF i = NoImage THEN NoImage ELSE AnsweringObject(objs, i, key.address)
  <1>2. object \in {i, NoImage}
    BY <1>1
  <1>3. Answer(objs, call, key, i, lost) = AnswerFrom(call, key, i, object, lost)
    BY DEF Answer
  <1> QED
    BY <1>2, <1>3

\* What a step adds to the maps: one entry, for the first address the thread
\* misses, computed from the file of the object dladdr found it in.
LEMMA FillAnswers ==
  ASSUME BasesDiffer, IInv, OwnStates(objects),
         NEW t \in Threads, NEW n \in FirstMissing(th[t].found),
         th[t].pc = "fill", FillKey(t, th[t].call, n)
  PROVE  LET key == th[t].call.want[n]
             i == th[t].image[n]
         IN  \/ key.address \in DOMAIN cache[key.cache] /\ cache' = cache
             \/ /\ key.address \notin DOMAIN cache[key.cache]
                /\ \E object \in {i, NoImage}, lost \in LostSets :
                     cache' = [cache EXCEPT ![key.cache] =
                       Emplaced(@, key.address,
                                AnswerFrom(th[t].call, key, i, object, lost))]
  <1> DEFINE key == th[t].call.want[n]
             i == th[t].image[n]
  <1>1. i \in Images \cup {NoImage}
    BY FirstMissingOK
  <1>2. \/ key.address \in DOMAIN cache[key.cache] /\ UNCHANGED shared
        \/ /\ key.address \notin DOMAIN cache[key.cache]
           /\ \E registry \in AfterQuery(i, key), lost \in LostSets :
                /\ cache' = [cache EXCEPT ![key.cache] =
                   Emplaced(@, key.address, Answer(registry.objects, th[t].call, key, i, lost))]
                /\ objects' = registry.objects /\ failed' = registry.failed
    BY FillStep
  <1> HIDE DEF key, i
  <1>3. CASE key.address \in DOMAIN cache[key.cache] /\ UNCHANGED shared
    BY <1>3 DEF shared, key
  <1>4. ASSUME key.address \notin DOMAIN cache[key.cache],
               NEW registry \in AfterQuery(i, key), NEW lost \in LostSets,
               cache' = [cache EXCEPT ![key.cache] =
                   Emplaced(@, key.address, Answer(registry.objects, th[t].call, key, i, lost))]
        PROVE  \E object \in {i, NoImage} :
                 cache' = [cache EXCEPT ![key.cache] =
                   Emplaced(@, key.address, AnswerFrom(th[t].call, key, i, object, lost))]
    <2>1. OwnStates(registry.objects)
      BY <1>1, <1>4, RegistersOwn
    <2>2. PICK object \in {i, NoImage} :
            Answer(registry.objects, th[t].call, key, i, lost)
              = AnswerFrom(th[t].call, key, i, object, lost)
      BY <1>1, <2>1, AnswersFromOwnFile
    <2> QED
      BY <1>4, <2>2
  <1>5. CASE key.address \notin DOMAIN cache[key.cache]
    BY <1>2, <1>4, <1>5 DEF key, i
  <1> QED
    BY <1>2, <1>3, <1>5 DEF key, i

\* Only Fill changes the maps, and it holds the mutex.
LEMMA OnlyFillAdds ==
  ASSUME IInv, [Next]_vars, cache' # cache
  PROVE  \E t \in Threads :
           /\ th[t].pc = "fill" /\ mutex = t
           /\ \E n \in FirstMissing(th[t].found) : FillKey(t, th[t].call, n)
  <1>1. PICK t \in Threads : Fill(t)
    BY OnlyFillChanges
  <1>2. th[t].pc = "fill" /\ mutex = t
    BY <1>1, Own DEF Fill, Locked
  <1> QED
    BY <1>1, <1>2 DEF Fill

LEMMA FirstMissingUnique ==
  ASSUME NEW found \in Seq(Nat), NEW m \in FirstMissing(found), NEW n \in FirstMissing(found)
  PROVE  m = n
  BY DEF FirstMissing, Missing

\* The step of UnloadedObjectsNeverAnswer.
OwnAnswer(t, n) ==
    cache'[th[t].call.want[n].cache][th[t].call.want[n].address] \in
      {AnswerFrom(th[t].call, th[t].call.want[n], th[t].image[n], object, lost) :
         object \in {th[t].image[n], NoImage}, lost \in LostSets}
AnswersAreOwn ==
    \A t \in Threads : mutex = t /\ cache' # cache =>
      \A n \in FirstMissing(th[t].found) : OwnAnswer(t, n)

LEMMA OwnAnswerStep ==
  ASSUME BasesDiffer, IInv, OwnStates(objects), [Next]_vars
  PROVE  AnswersAreOwn
  <1> SUFFICES ASSUME NEW t \in Threads, mutex = t, cache' # cache,
                      NEW n \in FirstMissing(th[t].found)
               PROVE  OwnAnswer(t, n)
    BY DEF AnswersAreOwn
  <1> DEFINE key == th[t].call.want[n]
             i == th[t].image[n]
  <1>1. th[t].pc = "fill" /\ FillKey(t, th[t].call, n)
    <2>1. PICK u \in Threads :
            /\ th[u].pc = "fill" /\ mutex = u
            /\ \E m \in FirstMissing(th[u].found) : FillKey(u, th[u].call, m)
      BY OnlyFillAdds
    <2> QED
      BY <2>1, Own, FirstMissingUnique
  <1>2. key.cache \in Caches
    BY <1>1, FirstMissingOK, Own, Wants
  <1>3. /\ key.address \notin DOMAIN cache[key.cache]
        /\ \E object \in {i, NoImage}, lost \in LostSets :
             cache' = [cache EXCEPT ![key.cache] =
               Emplaced(@, key.address, AnswerFrom(th[t].call, key, i, object, lost))]
    BY <1>1, FillAnswers
  <1>4. PICK object \in {i, NoImage}, lost \in LostSets :
          cache' = [cache EXCEPT ![key.cache] =
            Emplaced(@, key.address, AnswerFrom(th[t].call, key, i, object, lost))]
    BY <1>3
  <1> DEFINE answer == AnswerFrom(th[t].call, key, i, object, lost)
             answers == {AnswerFrom(th[t].call, key, i, o, l) :
                           o \in {i, NoImage}, l \in LostSets}
  <1>5. answer \in answers
    <2> HIDE DEF key, i
    <2> QED
      OBVIOUS
  <1>6. OwnAnswer(t, n) <=> cache'[key.cache][key.address] \in answers
    BY DEF OwnAnswer
  <1>7. cache' = [cache EXCEPT ![key.cache] = Emplaced(@, key.address, answer)]
    BY <1>4
  <1> HIDE DEF key, i, answer, answers
  <1>8. cache'[key.cache][key.address] = answer
    BY <1>2, <1>3, <1>7, EmplacedOK
  <1> QED
    BY <1>5, <1>6, <1>8

LEMMA InitOwnStates == Init => OwnStates(objects)
  BY DEF Init, OwnStates

\* An address seen for the first time is answered from the file of the object
\* it is in, or by the texts that need no file: never from that of an object
\* unloaded before, though its range has been reused (ObjectFile::state).
THEOREM AnswersComeFromTheirObject ==
  ASSUME BasesDiffer
  PROVE  Spec => UnloadedObjectsNeverAnswer
  <1>1. Spec => [](IInv /\ OwnStates(objects))
    <2>1. IInv /\ OwnStates(objects) /\ [Next]_vars => (IInv /\ OwnStates(objects))'
      BY NextInv, OwnStatesKept
    <2>2. Init => IInv /\ OwnStates(objects)
      BY InitInv, InitOwnStates
    <2> QED
      BY <2>1, <2>2, PTL DEF Spec
  <1>2. IInv /\ OwnStates(objects) /\ [Next]_vars => [AnswersAreOwn]_cache
    BY OwnAnswerStep
  <1>3. Spec => [][AnswersAreOwn]_cache
    BY <1>1, <1>2, PTL DEF Spec
  <1> QED
    BY <1>3, PTL DEF UnloadedObjectsNeverAnswer, AnswersAreOwn, OwnAnswer
-------------------------------------------------------------------------------
(***************************************************************************)
(* The refinement of MemoTable.                                            *)
(***************************************************************************)
Asked == [t \in Threads |-> QuestionsOf(th[t])]
Given == [t \in Threads |-> AnswersOf(th[t])]

\* The answers a thread in state r holds, when the maps are `maps`.
AnswersIn(r, maps) ==
    [n \in 1..Len(QuestionsOf(r)) |->
       IF r.found[n] = 0 THEN <<>>
       ELSE <<maps[r.call.want[n].cache][r.found[n]]>>]

\* The table is read off the maps.
LEMMA TableEntry ==
  ASSUME NEW key \in Keys
  PROVE  /\ key \in DOMAIN TableOfAnswers <=> key.address \in DOMAIN cache[key.cache]
         /\ key \in DOMAIN TableOfAnswers =>
              TableOfAnswers[key] = cache[key.cache][key.address]
  <1>1. key.cache \in Caches /\ key = [cache |-> key.cache, address |-> key.address]
    BY DEF Keys
  <1>2. key.address \in DOMAIN cache[key.cache] =>
          key \in [cache : Caches, address : UNION {DOMAIN cache[c] : c \in Caches}]
    BY <1>1
  <1> QED
    BY <1>2 DEF TableOfAnswers

LEMMA TableDomain ==
  /\ DOMAIN TableOfAnswers =
       {k \in [cache : Caches, address : UNION {DOMAIN cache[c] : c \in Caches}] :
          k.address \in DOMAIN cache[k.cache]}
  /\ \A k \in DOMAIN TableOfAnswers : TableOfAnswers[k] = cache[k.cache][k.address]
  /\ TableOfAnswers = [k \in DOMAIN TableOfAnswers |-> TableOfAnswers[k]]
  BY DEF TableOfAnswers

\* Every answer Fill computes is admissible for its question.
LEMMA AnswersAdmissible ==
  ASSUME NEW call, NEW key \in Keys, NEW i \in Images \cup {NoImage},
         i = NoImage \/ key.address \in Code[i],
         NEW object \in {i, NoImage}, NEW lost \in LostSets
  PROVE  AnswerFrom(call, key, i, object, lost) \in AdmissibleAnswers(key)
  <1> DEFINE op == IF call.op = "site" THEN "site" ELSE "resolve"
             as == [op |-> op, want |-> <<key>>]
             answer == AnswerFrom(as, key, i, object, lost)
             images == {NoImage} \cup {j \in Images : key.address \in Code[j]}
  <1>1. as.op = "site" <=> call.op = "site"
    OBVIOUS
  <1>2. key.cache \in Caches
    BY DEF Keys
  <1>3. AnswerFrom(call, key, i, object, lost) = answer
    <2> HIDE DEF as
    <2> QED
      BY <1>1, <1>2 DEF AnswerFrom, Caches
  <1>4. i \in images /\ op \in {"resolve", "site"}
    OBVIOUS
  <1>5. answer \in {AnswerFrom([op |-> o, want |-> <<key>>], key, i, obj, l) :
                      obj \in {i, NoImage}, l \in LostSets, o \in {"resolve", "site"}}
    <2> HIDE DEF op
    <2> QED
      BY <1>4
  <1> HIDE DEF answer
  <1>6. answer \in AdmissibleAnswers(key)
    BY <1>4, <1>5 DEF AdmissibleAnswers
  <1> QED
    BY <1>3, <1>6

LEMMA SameTable ==
  ASSUME cache' = cache
  PROVE  TableOfAnswers' = TableOfAnswers
  BY DEF TableOfAnswers

\* An entry added to the maps is an entry added to the table.
LEMMA TableGrows ==
  ASSUME IInv, NEW key \in Keys, NEW answer,
         key.address \notin DOMAIN cache[key.cache],
         cache' = [cache EXCEPT ![key.cache] = Emplaced(@, key.address, answer)]
  PROVE  TableOfAnswers' =
           [k \in DOMAIN TableOfAnswers \cup {key} |->
              IF k \in DOMAIN TableOfAnswers THEN TableOfAnswers[k] ELSE answer]
  <1> DEFINE more == [k \in DOMAIN TableOfAnswers \cup {key} |->
                        IF k \in DOMAIN TableOfAnswers THEN TableOfAnswers[k] ELSE answer]
  <1>1. key.cache \in Caches /\ key = [cache |-> key.cache, address |-> key.address]
    BY DEF Keys
  <1>2. /\ Grows(cache, cache')
        /\ key.address \in DOMAIN cache'[key.cache]
        /\ cache'[key.cache][key.address] = answer
        /\ \A d \in Caches : \A b \in DOMAIN cache'[d] :
             b \in DOMAIN cache[d] \/ (d = key.cache /\ b = key.address)
    <2> DEFINE c == key.cache
               a == key.address
    <2>1. c \in Caches /\ a \notin DOMAIN cache[c]
          /\ cache' = [cache EXCEPT ![c] = Emplaced(@, a, answer)]
      BY <1>1
    <2> HIDE DEF c, a
    <2>2. /\ Grows(cache, cache')
          /\ a \in DOMAIN cache'[c]
          /\ cache'[c][a] = answer
          /\ \A d \in Caches : \A b \in DOMAIN cache'[d] :
               b \in DOMAIN cache[d] \/ (d = c /\ b = a)
      BY <2>1, EmplacedOK, ZenonT(30)
    <2> QED
      BY <2>2 DEF c, a
  <1>3. /\ DOMAIN TableOfAnswers' =
            {k \in [cache : Caches, address : UNION {DOMAIN cache'[c] : c \in Caches}] :
               k.address \in DOMAIN cache'[k.cache]}
        /\ \A k \in DOMAIN TableOfAnswers' : TableOfAnswers'[k] = cache'[k.cache][k.address]
        /\ TableOfAnswers' = [k \in DOMAIN TableOfAnswers' |-> TableOfAnswers'[k]]
    BY DEF TableOfAnswers
  <1>4. ASSUME NEW k
        PROVE  k \in DOMAIN TableOfAnswers' <=> k \in DOMAIN TableOfAnswers \cup {key}
    <2>1. ASSUME k \in DOMAIN TableOfAnswers'
          PROVE  k \in DOMAIN TableOfAnswers \cup {key}
      <3>1. /\ k.cache \in Caches /\ k.address \in DOMAIN cache'[k.cache]
            /\ k = [cache |-> k.cache, address |-> k.address]
        BY <1>3, <2>1
      <3>2. CASE k.address \in DOMAIN cache[k.cache]
        <4>1. k \in [cache : Caches, address : UNION {DOMAIN cache[c] : c \in Caches}]
          BY <3>1, <3>2
        <4> QED
          BY <3>2, <4>1, TableDomain
      <3>3. CASE k.cache = key.cache /\ k.address = key.address
        BY <1>1, <3>1, <3>3
      <3> QED
        BY <1>2, <3>1, <3>2, <3>3
    <2>2. ASSUME k \in DOMAIN TableOfAnswers \cup {key}
          PROVE  k \in DOMAIN TableOfAnswers'
      <3>1. k.cache \in Caches /\ k = [cache |-> k.cache, address |-> k.address]
        BY <1>1, <2>2, TableDomain
      <3>2. k.address \in DOMAIN cache'[k.cache]
        BY <1>2, <2>2, <3>1, TableDomain DEF Grows
      <3>3. k \in [cache : Caches, address : UNION {DOMAIN cache'[c] : c \in Caches}]
        BY <3>1, <3>2
      <3> QED
        BY <1>3, <3>2, <3>3
    <2> QED
      BY <2>1, <2>2
  <1>5. DOMAIN TableOfAnswers' = DOMAIN TableOfAnswers \cup {key}
    BY <1>4
  <1>6. ASSUME NEW k \in DOMAIN TableOfAnswers'
        PROVE  TableOfAnswers'[k] = more[k]
    <2>1. CASE k \in DOMAIN TableOfAnswers
      <3>1. k.cache \in Caches /\ k.address \in DOMAIN cache[k.cache]
            /\ TableOfAnswers[k] = cache[k.cache][k.address]
        BY <2>1, TableDomain
      <3> QED
        BY <1>2, <1>3, <2>1, <3>1 DEF Grows
    <2>2. CASE k \notin DOMAIN TableOfAnswers
      <3>1. k = key
        BY <1>5, <2>2
      <3> QED
        BY <1>2, <1>3, <1>5, <2>2, <3>1
    <2> QED
      BY <2>1, <2>2
  <1> QED
    BY <1>3, <1>5, <1>6

\* A step of one thread: what the others asked for and were given stays.
LEMMA MappedStep ==
  ASSUME IInv, NEW t \in Threads, NEW r,
         th' = [th EXCEPT ![t] = r], Grows(cache, cache')
  PROVE  /\ Asked' = [Asked EXCEPT ![t] = QuestionsOf(r)]
         /\ Given' = [Given EXCEPT ![t] = AnswersIn(r, cache')]
  <1>1. \A u \in Threads : th'[u] = IF u = t THEN r ELSE th[u]
    BY Own
  <1>2. Asked' = [u \in Threads |-> QuestionsOf(th'[u])]
    BY DEF Asked, QuestionsOf
  <1>3. Given' = [u \in Threads |-> AnswersIn(th'[u], cache')]
    BY DEF Given, AnswersOf, AnswersIn, QuestionsOf
  <1>4. ASSUME NEW u \in Threads, u # t
        PROVE  AnswersIn(th'[u], cache') = AnswersOf(th[u])
    <2>1. th'[u] = th[u]
      BY <1>1, <1>4
    <2>2. QuestionsOf(th[u]) \in {th[u].call.want, <<>>}
      BY DEF QuestionsOf
    <2>3. /\ Len(th[u].found) = Len(th[u].call.want) /\ NodesOK(th[u], cache)
          /\ th[u].call \in Calls
      BY Own DEF RecordOK
    <2>4. ASSUME NEW n \in 1..Len(QuestionsOf(th[u])), th[u].found[n] # 0
          PROVE  cache'[th[u].call.want[n].cache][th[u].found[n]]
                   = cache[th[u].call.want[n].cache][th[u].found[n]]
      <3>1. n \in 1..Len(th[u].call.want)
        BY <2>2
      <3>2. th[u].call.want[n].cache \in Caches
        BY <2>3, <3>1, Wants
      <3> QED
        BY <2>3, <2>4, <3>1, <3>2 DEF NodesOK, Grows
    <2>5. AnswersIn(th[u], cache') = AnswersOf(th[u])
      BY <2>4 DEF AnswersIn, AnswersOf
    <2> QED
      BY <2>1, <2>5
  <1> DEFINE answers(u) == AnswersIn(th'[u], cache')
  <1>5. answers(t) = AnswersIn(r, cache')
    BY <1>1
  <1>6. \A u \in Threads : u # t => answers(u) = AnswersOf(th[u])
    BY <1>4
  <1>7. Given' = [u \in Threads |-> answers(u)]
    BY <1>3
  <1> HIDE DEF answers
  <1>8. Given' = [Given EXCEPT ![t] = AnswersIn(r, cache')]
    BY <1>5, <1>6, <1>7 DEF Given
  <1>9. Asked' = [Asked EXCEPT ![t] = QuestionsOf(r)]
    <2> DEFINE questions(u) == QuestionsOf(th'[u])
    <2>1. questions(t) = QuestionsOf(r)
      BY <1>1
    <2>2. \A u \in Threads : u # t => questions(u) = QuestionsOf(th[u])
      BY <1>1
    <2>3. Asked' = [u \in Threads |-> questions(u)]
      BY <1>2
    <2> HIDE DEF questions
    <2> QED
      BY <2>1, <2>2, <2>3 DEF Asked
  <1> QED
    BY <1>8, <1>9

\* A step that changes neither maps nor, for the caller, questions and answers.
LEMMA Stutters ==
  ASSUME IInv, NEW t \in Threads, NEW r,
         th' = [th EXCEPT ![t] = r], cache' = cache,
         QuestionsOf(r) = QuestionsOf(th[t]),
         r.found = th[t].found, r.call = th[t].call
  PROVE  UNCHANGED Memo!memoVars
  <1>1. Asked' = Asked
    BY SameGrows, MappedStep DEF Asked
  <1>2. AnswersIn(r, cache') = AnswersOf(th[t])
    BY DEF AnswersIn, AnswersOf
  <1>3. Given' = Given
    <2>1. Given' = [Given EXCEPT ![t] = AnswersIn(r, cache')]
      BY SameGrows, MappedStep
    <2>2. Given[t] = AnswersIn(r, cache')
      BY <1>2 DEF Given
    <2>3. Given = [u \in Threads |-> Given[u]]
      BY DEF Given
    <2> HIDE DEF Given
    <2> QED
      BY <2>1, <2>2, <2>3
  <1> QED
    BY <1>1, <1>3, SameTable DEF Asked, Given, Memo!memoVars
\* The answers a thread in order is given are those of the table.
LEMMA HeldAnswersKnown ==
  ASSUME NEW r, NEW maps, RecordOK(r, maps), r.pc \in Resolving,
         NEW n \in 1..Len(r.call.want)
  PROVE  /\ QuestionsOf(r) = r.call.want
         /\ n \in DOMAIN AnswersIn(r, maps)
         /\ r.call.want[n] \in Keys
         /\ \/ r.found[n] = 0 /\ AnswersIn(r, maps)[n] = <<>>
            \/ /\ r.found[n] # 0
               /\ r.call.want[n].address \in DOMAIN maps[r.call.want[n].cache]
               /\ AnswersIn(r, maps)[n]
                    = <<maps[r.call.want[n].cache][r.call.want[n].address]>>
  <1>1. QuestionsOf(r) = r.call.want
    BY DEF QuestionsOf
  <1>2. r.call \in Calls /\ Len(r.found) = Len(r.call.want) /\ NodesOK(r, maps)
    BY DEF RecordOK, CallOK
  <1>3. r.call.want[n] \in Keys
    BY <1>2, Wants
  <1>4. n \in DOMAIN AnswersIn(r, maps)
        /\ AnswersIn(r, maps)[n] = IF r.found[n] = 0 THEN <<>>
                                   ELSE <<maps[r.call.want[n].cache][r.found[n]]>>
    BY <1>1 DEF AnswersIn
  <1>5. r.found[n] # 0 => /\ r.found[n] = r.call.want[n].address
                          /\ r.found[n] \in DOMAIN maps[r.call.want[n].cache]
    BY <1>2 DEF NodesOK
  <1> QED
    BY <1>1, <1>3, <1>4, <1>5

\* Begin asks, unless the call wants nothing.
LEMMA BeginAsks ==
  ASSUME IInv, NEW t \in Threads, NEW call \in HookCalls \cup ApiCalls,
         NEW entered \in Thread,
         entered.guard, entered.saved <=> entered.home = "hook",
         th[t].pc \in {"program", "hook"},
         Begin(t, call, entered)
  PROVE  Memo!Ask(t) \/ UNCHANGED Memo!memoVars
  <1>1. /\ IInv' /\ th'[t].call = call /\ th'[t].pc \in {"lock", "return"} /\ cache' = cache
    BY BeginRecord
  <1> DEFINE r == th'[t]
  <1>2. PICK new : th' = [th EXCEPT ![t] = new]
    BY DEF Begin
  <1>3. th' = [th EXCEPT ![t] = r]
    BY <1>2, Own
  <1>4. RecordOK(r, cache) /\ r.pc \in Resolving /\ r.call = call
    BY <1>1 DEF IInv, RecordsInv, Resolving
  <1> HIDE DEF r
  <1>5. Asked' = [Asked EXCEPT ![t] = QuestionsOf(r)]
        /\ Given' = [Given EXCEPT ![t] = AnswersIn(r, cache)]
    <2>1. Grows(cache, cache')
      BY <1>1, SameGrows
    <2> QED
      BY <1>1, <1>3, <2>1, MappedStep
  <1>6. Asked[t] = <<>> /\ Given[t] = <<>>
    <2>1. QuestionsOf(th[t]) = <<>>
      BY DEF QuestionsOf, Resolving, Locked
    <2>2. AnswersOf(th[t]) = <<>>
      BY <2>1 DEF AnswersOf
    <2> QED
      BY <2>1, <2>2 DEF Asked, Given
  <1>7. Asked'[t] = QuestionsOf(r) /\ Given'[t] = AnswersIn(r, cache)
    BY <1>5 DEF Asked, Given
  <1>8. QuestionsOf(r) = call.want /\ call.want \in Seq(Keys)
    BY <1>4, Wants DEF QuestionsOf, Calls
  <1>9. TableOfAnswers' = TableOfAnswers
    BY <1>1, SameTable
  <1>10. CASE call.want = <<>>
    <2>1. AnswersIn(r, cache) = <<>>
      BY <1>8, <1>10 DEF AnswersIn
    <2>2. Asked' = Asked /\ Given' = Given
      <3>1. /\ Asked = [u \in Threads |-> Asked[u]]
            /\ Given = [u \in Threads |-> Given[u]]
        BY DEF Asked, Given
      <3> QED
        BY <1>5, <1>6, <1>8, <1>10, <2>1, <3>1
    <2> QED
      BY <1>9, <2>2 DEF Memo!memoVars, Asked, Given
  <1>11. CASE call.want # <<>>
    <2>1. Asked' = [Asked EXCEPT ![t] = Asked'[t]] /\ Given' = [Given EXCEPT ![t] = Given'[t]]
      BY <1>5, <1>7
    <2>2. Asked'[t] \in Seq(Keys) \ {<<>>}
      BY <1>7, <1>8, <1>11
    <2>3. DOMAIN Given'[t] = DOMAIN Asked'[t]
      <3>1. DOMAIN AnswersIn(r, cache) = 1..Len(call.want)
        BY <1>8 DEF AnswersIn
      <3>2. DOMAIN call.want = 1..Len(call.want)
        BY <1>8
      <3> QED
        BY <1>7, <1>8, <3>1, <3>2
    <2>4. ASSUME NEW n \in DOMAIN Asked'[t]
          PROVE  Given'[t][n] \in Memo!Known(Asked'[t][n])
      <3>1. n \in 1..Len(r.call.want)
        BY <1>4, <1>7, <1>8
      <3> DEFINE key == r.call.want[n]
      <3>2. key \in Keys /\ (\/ AnswersIn(r, cache)[n] = <<>>
                             \/ /\ key.address \in DOMAIN cache[key.cache]
                                /\ AnswersIn(r, cache)[n] = <<cache[key.cache][key.address]>>)
        BY <1>4, <3>1, HeldAnswersKnown
      <3>3. key = Asked'[t][n]
        BY <1>4, <1>7, <1>8
      <3> HIDE DEF key
      <3>4. AnswersIn(r, cache)[n] \in Memo!Known(key)
        BY <3>2, TableEntry DEF Memo!Known
      <3> QED
        BY <1>7, <3>3, <3>4
    <2>5. Memo!Ask(t)
      BY <1>6, <1>9, <2>1, <2>2, <2>3, <2>4 DEF Memo!Ask, Asked, Given
    <2> QED
      BY <2>5
  <1> QED
    BY <1>10, <1>11
\* Find looks.
LEMMA FindLooks ==
  ASSUME IInv, NEW t \in Threads, Find(t)
  PROVE  Memo!Look(t)
  <1>1. PICK found \in Seq(Nat), pc \in {"return", "query"} :
           /\ th' = [th EXCEPT ![t] = [th[t] EXCEPT !.found = found, !.pc = pc]]
           /\ Len(found) = Len(th[t].found)
           /\ \A n \in 1..Len(found) :
                /\ th[t].found[n] # 0 => found[n] = th[t].found[n]
                /\ found[n] # 0 => /\ found[n] = th[t].call.want[n].address
                                   /\ found[n] \in DOMAIN cache[th[t].call.want[n].cache]
           /\ front' = FrontStore(t, th[t].call,
                                  {n \in Missing(th[t].found) : found[n] # 0})
           /\ mutex' = NoThread
    BY FindStep
  <1> DEFINE r == [th[t] EXCEPT !.found = found, !.pc = pc]
  <1>2. th[t] \in Thread /\ th[t].pc = "find" /\ RecordOK(th[t], cache)
        /\ Len(th[t].found) = Len(th[t].call.want)
    BY Own DEF Find
  <1>3. r.pc = pc /\ r.found = found /\ r.call = th[t].call
    BY <1>2 DEF Thread
  <1>4. th' = [th EXCEPT ![t] = r] /\ th'[t] = r
    BY <1>1, Own
  <1> HIDE DEF r
  <1>5. cache' = cache /\ IInv'
    BY FindInv DEF Find, shared
  <1>6. RecordOK(r, cache)
    BY <1>4, <1>5 DEF IInv, RecordsInv
  <1>7. r.pc \in Resolving /\ th[t].pc \in Resolving
    BY <1>2, <1>3 DEF Resolving, Locked
  <1>8. /\ QuestionsOf(r) = th[t].call.want
        /\ QuestionsOf(th[t]) = th[t].call.want
    BY <1>3, <1>7 DEF QuestionsOf
  <1>9. Asked' = [Asked EXCEPT ![t] = QuestionsOf(r)]
        /\ Given' = [Given EXCEPT ![t] = AnswersIn(r, cache)]
    <2>1. Grows(cache, cache')
      BY <1>5, SameGrows
    <2> QED
      BY <1>4, <1>5, <2>1, MappedStep
  <1>10. /\ Asked = [u \in Threads |-> Asked[u]]
         /\ Given = [u \in Threads |-> Given[u]]
         /\ Asked[t] = th[t].call.want
         /\ Given[t] = AnswersIn(th[t], cache)
    BY <1>8 DEF Asked, Given, AnswersIn, AnswersOf
  <1>11. Asked' = Asked
    BY <1>8, <1>9, <1>10
  <1>12. Given'[t] = AnswersIn(r, cache)
    BY <1>9, <1>10
  <1>13. Given' = [Given EXCEPT ![t] = Given'[t]]
    BY <1>9, <1>12
  <1>14. DOMAIN Given'[t] = DOMAIN Asked[t]
    <2>1. DOMAIN AnswersIn(r, cache) = 1..Len(th[t].call.want)
      BY <1>8 DEF AnswersIn
    <2>2. th[t].call.want \in Seq(Keys)
      BY Own, Wants
    <2> QED
      BY <1>10, <1>12, <2>1, <2>2
  <1>15. ASSUME NEW n \in DOMAIN Asked[t]
         PROVE  Given'[t][n] \in IF Given[t][n] = <<>> THEN Memo!Known(Asked[t][n])
                                 ELSE {Given[t][n]}
    <2>1. n \in 1..Len(th[t].call.want) /\ n \in 1..Len(found)
      <3>1. th[t].call.want \in Seq(Keys)
        BY Own, Wants
      <3> QED
        BY <1>1, <1>2, <1>10, <3>1
    <2> DEFINE key == th[t].call.want[n]
               entry == cache[key.cache][key.address]
    <2>2. /\ key \in Keys
          /\ \/ r.found[n] = 0 /\ AnswersIn(r, cache)[n] = <<>>
             \/ /\ r.found[n] # 0
                /\ key.address \in DOMAIN cache[key.cache]
                /\ AnswersIn(r, cache)[n] = <<entry>>
      <3>1. n \in 1..Len(r.call.want)
        BY <1>3, <2>1
      <3> HIDE DEF entry
      <3>2. /\ r.call.want[n] \in Keys
            /\ r.found[n] = 0 => AnswersIn(r, cache)[n] = <<>>
            /\ r.found[n] # 0 =>
                 /\ r.call.want[n].address \in DOMAIN cache[r.call.want[n].cache]
                 /\ AnswersIn(r, cache)[n]
                      = <<cache[r.call.want[n].cache][r.call.want[n].address]>>
        BY <1>6, <1>7, <3>1, HeldAnswersKnown
      <3> QED
        BY <1>3, <3>2 DEF entry
    <2>3. \/ th[t].found[n] = 0 /\ AnswersIn(th[t], cache)[n] = <<>>
          \/ th[t].found[n] # 0 /\ AnswersIn(th[t], cache)[n] = <<entry>>
      BY <1>2, <1>7, <2>1, HeldAnswersKnown
    <2>4. th[t].found[n] # 0 => r.found[n] # 0
      BY <1>1, <1>3, <2>1
    <2>5. key = Asked[t][n]
      BY <1>10
    <2> HIDE DEF key, entry
    <2>6. AnswersIn(r, cache)[n] \in Memo!Known(key)
      <3>1. <<>> \in Memo!Known(key)
        BY DEF Memo!Known
      <3>2. key.address \in DOMAIN cache[key.cache] => <<entry>> \in Memo!Known(key)
        BY <2>2, TableEntry DEF Memo!Known, entry
      <3> QED
        BY <2>2, <3>1, <3>2
    <2>7. Given[t][n] # <<>> => Given'[t][n] = Given[t][n]
      BY <1>10, <1>12, <2>2, <2>3, <2>4
    <2> QED
      BY <1>12, <2>5, <2>6, <2>7
  <1>16. TableOfAnswers' = TableOfAnswers
    BY <1>5, SameTable
  <1> QED
    BY <1>11, <1>13, <1>14, <1>15, <1>16 DEF Memo!Look, Asked, Given

\* Return replies, unless the call wanted nothing.
LEMMA ReturnReplies ==
  ASSUME IInv, NEW t \in Threads, Return(t)
  PROVE  Memo!Reply(t) \/ UNCHANGED Memo!memoVars
  <1> DEFINE r == Left(th[t])
  <1>1. th' = [th EXCEPT ![t] = r] /\ cache' = cache /\ th[t].pc = "return"
        /\ th[t] \in Thread
    BY Own DEF Return, shared
  <1>2. r.pc \notin Resolving
    BY <1>1 DEF Thread, Left, Resolving, Locked
  <1>3. r.call = th[t].call /\ r.found = th[t].found
    BY <1>1 DEF Thread, Left
  <1> HIDE DEF r
  <1>4. QuestionsOf(r) = <<>> /\ AnswersIn(r, cache') = <<>>
    BY <1>2 DEF QuestionsOf, AnswersIn
  <1>5. QuestionsOf(th[t]) = th[t].call.want
    BY <1>1 DEF QuestionsOf, Resolving
  <1>6. CASE th[t].call.want = <<>>
    BY <1>1, <1>3, <1>4, <1>5, <1>6, Stutters
  <1>7. CASE th[t].call.want # <<>>
    <2>1. Asked' = [Asked EXCEPT ![t] = <<>>] /\ Given' = [Given EXCEPT ![t] = <<>>]
      <3>1. Grows(cache, cache')
        BY <1>1, SameGrows
      <3>2. /\ Asked' = [Asked EXCEPT ![t] = QuestionsOf(r)]
            /\ Given' = [Given EXCEPT ![t] = AnswersIn(r, cache')]
        BY <1>1, <3>1, MappedStep
      <3> QED
        BY <1>4, <3>2
    <2>2. Asked[t] # <<>>
      BY <1>5, <1>7 DEF Asked
    <2>3. TableOfAnswers' = TableOfAnswers
      BY <1>1, SameTable
    <2>4. Memo!Reply(t)
      BY <2>1, <2>2, <2>3 DEF Memo!Reply, Asked, Given
    <2> QED
      BY <2>4
  <1> QED
    BY <1>6, <1>7
\* Fill settles the question, or looks when another thread has settled it.
LEMMA FillSettles ==
  ASSUME BasesDiffer, IInv, OwnStates(objects), NEW t \in Threads, Fill(t)
  PROVE  Memo!Look(t) \/ \E n \in DOMAIN Asked[t] : Memo!Settle(t, n)
  <1>1. PICK n \in FirstMissing(th[t].found) : FillKey(t, th[t].call, n)
    BY DEF Fill
  <1>2. /\ th[t] \in Thread /\ RecordOK(th[t], cache) /\ th[t].call \in Calls
        /\ th[t].pc = "fill" /\ th[t].found \in Seq(Nat)
        /\ Len(th[t].found) = Len(th[t].call.want)
    BY Own DEF Fill
  <1> DEFINE key == th[t].call.want[n]
             i == th[t].image[n]
             found == [th[t].found EXCEPT ![n] = key.address]
  <1>3. /\ n \in 1..Len(th[t].call.want) /\ th[t].found[n] = 0
        /\ i \in Images \cup {NoImage}
        /\ i = NoImage \/ key.address \in Code[i]
    BY <1>1, <1>2, FirstMissingOK
  <1>4. key \in Keys /\ key.cache \in Caches /\ key.address \in Nat /\ key.address # 0
    BY <1>2, <1>3, Wants
  <1>5. PICK pc \in {"fill", "return"} :
          /\ th' = [th EXCEPT ![t] = [th[t] EXCEPT !.found = found, !.pc = pc]]
          /\ mutex' = IF pc = "fill" THEN mutex ELSE NoThread
    BY <1>1, <1>2, FillStep
  <1> DEFINE r == [th[t] EXCEPT !.found = found, !.pc = pc]
  <1>6. Grows(cache, cache') /\ key.address \in DOMAIN cache'[key.cache]
    BY <1>1, <1>2, FillGrows
  <1>7. \/ key.address \in DOMAIN cache[key.cache] /\ cache' = cache
        \/ /\ key.address \notin DOMAIN cache[key.cache]
           /\ \E object \in {i, NoImage}, lost \in LostSets :
                cache' = [cache EXCEPT ![key.cache] =
                  Emplaced(@, key.address, AnswerFrom(th[t].call, key, i, object, lost))]
    BY <1>1, <1>2, FillAnswers
  <1>8. \A m \in 1..Len(th[t].found) :
          found[m] = IF m = n THEN key.address ELSE th[t].found[m]
    BY <1>2
  <1> HIDE DEF found
  <1>9. r.pc = pc /\ r.found = found /\ r.call = th[t].call
    BY <1>2 DEF Thread
  <1>10. th' = [th EXCEPT ![t] = r]
    BY <1>5
  <1> HIDE DEF r
  <1>11. /\ QuestionsOf(r) = th[t].call.want
         /\ QuestionsOf(th[t]) = th[t].call.want
    BY <1>2, <1>9 DEF QuestionsOf, Resolving, Locked
  <1>12. /\ Asked' = [Asked EXCEPT ![t] = QuestionsOf(r)]
         /\ Given' = [Given EXCEPT ![t] = AnswersIn(r, cache')]
    BY <1>6, <1>10, MappedStep
  <1>13. /\ Asked = [u \in Threads |-> Asked[u]]
         /\ Given = [u \in Threads |-> Given[u]]
         /\ Asked[t] = th[t].call.want
         /\ Given[t] = AnswersIn(th[t], cache)
    BY <1>11 DEF Asked, Given, AnswersIn, AnswersOf
  <1>14. Asked' = Asked
    BY <1>11, <1>12, <1>13
  <1>15. /\ DOMAIN Given[t] = 1..Len(th[t].call.want)
         /\ Given[t] = [m \in 1..Len(th[t].call.want) |-> Given[t][m]]
         /\ AnswersIn(r, cache') =
              [m \in 1..Len(th[t].call.want) |-> AnswersIn(r, cache')[m]]
    BY <1>11, <1>13 DEF AnswersIn
  <1> DEFINE entry == cache'[key.cache][key.address]
  <1>16. ASSUME NEW m \in 1..Len(th[t].call.want)
         PROVE  AnswersIn(r, cache')[m] = IF m = n THEN <<entry>> ELSE Given[t][m]
    <2>1. CASE m = n
      BY <1>2, <1>4, <1>8, <1>9, <1>11, <2>1 DEF AnswersIn
    <2>2. CASE m # n
      <3>1. found[m] = th[t].found[m]
        BY <1>2, <1>8, <2>2
      <3>2. CASE th[t].found[m] = 0
        BY <1>9, <1>11, <1>13, <2>2, <3>1, <3>2 DEF AnswersIn
      <3>3. CASE th[t].found[m] # 0
        <4> DEFINE c == th[t].call.want[m].cache
                   a == th[t].found[m]
        <4>1. c \in Caches
          BY <1>2, Wants
        <4>2. a \in DOMAIN cache[c]
          BY <1>2, <3>3 DEF RecordOK, NodesOK
        <4>3. cache'[c][a] = cache[c][a]
          BY <1>6, <4>1, <4>2 DEF Grows
        <4>4. AnswersIn(r, cache')[m] = <<cache'[c][a]>>
          BY <1>9, <1>11, <3>1, <3>3 DEF AnswersIn
        <4>5. Given[t][m] = <<cache[c][a]>>
          BY <1>11, <1>13, <3>3 DEF AnswersIn
        <4> QED
          BY <2>2, <4>3, <4>4, <4>5
      <3> QED
        BY <3>2, <3>3
    <2> QED
      BY <2>1, <2>2
  <1>17. Given'[t] = AnswersIn(r, cache')
    BY <1>12, <1>13
  <1>18. Given[t][n] = <<>>
    BY <1>3, <1>11, <1>13 DEF AnswersIn
  <1>19. n \in DOMAIN Asked[t] /\ DOMAIN Asked[t] = 1..Len(th[t].call.want)
    <2>1. th[t].call.want \in Seq(Keys)
      BY <1>2, Wants
    <2> QED
      BY <1>3, <1>13, <2>1
  <1>20. key = Asked[t][n]
    BY <1>13
  <1> HIDE DEF key, i, entry
  <1>21. CASE key.address \in DOMAIN cache[key.cache] /\ cache' = cache
    <2>1. TableOfAnswers' = TableOfAnswers
      BY <1>21, SameTable
    <2>2. <<entry>> \in Memo!Known(key)
      BY <1>4, <1>21, TableEntry DEF Memo!Known, entry
    <2>3. Given' = [Given EXCEPT ![t] = Given'[t]] /\ DOMAIN Given'[t] = DOMAIN Asked[t]
      BY <1>12, <1>15, <1>17, <1>19
    <2>4. ASSUME NEW m \in DOMAIN Asked[t]
          PROVE  Given'[t][m] \in IF Given[t][m] = <<>> THEN Memo!Known(Asked[t][m])
                                  ELSE {Given[t][m]}
      <3>1. <<>> \in Memo!Known(Asked[t][m])
        BY DEF Memo!Known
      <3> QED
        BY <1>16, <1>17, <1>18, <1>19, <1>20, <2>2, <3>1
    <2>5. Memo!Look(t)
      BY <1>14, <2>1, <2>3, <2>4 DEF Memo!Look, Asked, Given
    <2> QED
      BY <2>5
  <1>22. CASE key.address \notin DOMAIN cache[key.cache]
    <2>1. PICK object \in {i, NoImage}, lost \in LostSets :
            cache' = [cache EXCEPT ![key.cache] =
              Emplaced(@, key.address, AnswerFrom(th[t].call, key, i, object, lost))]
      BY <1>7, <1>22
    <2> DEFINE answer == AnswerFrom(th[t].call, key, i, object, lost)
    <2>2. answer \in AdmissibleAnswers(key)
      BY <1>3, <1>4, AnswersAdmissible DEF key, i
    <2>3. cache' = [cache EXCEPT ![key.cache] = Emplaced(@, key.address, answer)]
      BY <2>1
    <2> HIDE DEF answer
    <2>4. entry = answer
      BY <1>4, <1>22, <2>3, EmplacedOK DEF entry
    <2>5. TableOfAnswers' =
            [k \in DOMAIN TableOfAnswers \cup {key} |->
               IF k \in DOMAIN TableOfAnswers THEN TableOfAnswers[k] ELSE answer]
      BY <1>4, <1>22, <2>3, TableGrows
    <2>6. key \notin DOMAIN TableOfAnswers
      BY <1>4, <1>22, TableEntry
    <2>7. AnswersIn(r, cache') = [Given[t] EXCEPT ![n] = <<answer>>]
      BY <1>15, <1>16, <2>4
    <2>8. Given' = [Given EXCEPT ![t][n] = <<answer>>]
      BY <1>12, <1>13, <2>7
    <2>9. Memo!Settle(t, n)
      BY <1>14, <1>20, <2>2, <2>5, <2>6, <2>8 DEF Memo!Settle, Asked, Given
    <2> QED
      BY <1>19, <2>9
  <1> QED
    BY <1>7, <1>21, <1>22 DEF key
LEMMA MovesStutter ==
  ASSUME IInv, NEW t \in Threads,
         Lock(t) \/ Query(t) \/ Relock(t) \/ FillThrows(t) \/ LeaveHook(t)
  PROVE  UNCHANGED Memo!memoVars
  <1> DEFINE r == th'[t]
  <1>1. th \in [Threads -> Thread] /\ th[t] \in Thread
    BY Own
  <1>2. cache' = cache
    BY DEF Lock, Query, Relock, FillThrows, LeaveHook, shared
  <1>3. /\ th' = [th EXCEPT ![t] = r]
        /\ r.found = th[t].found /\ r.call = th[t].call
        /\ r.pc \in Resolving <=> th[t].pc \in Resolving
    <2>1. CASE Lock(t)
      BY <1>1, <2>1 DEF Lock, Thread, Resolving, Locked
    <2>2. CASE Query(t)
      BY <1>1, <2>2 DEF Query, Thread, Resolving, Locked
    <2>3. CASE Relock(t)
      BY <1>1, <2>3 DEF Relock, Thread, Resolving, Locked
    <2>4. CASE FillThrows(t)
      BY <1>1, <2>4 DEF FillThrows, Thread, Resolving, Locked
    <2>5. CASE LeaveHook(t)
      BY <1>1, <2>5 DEF LeaveHook, Thread, Resolving, Locked
    <2> QED
      BY <2>1, <2>2, <2>3, <2>4, <2>5
  <1> HIDE DEF r
  <1>4. QuestionsOf(r) = QuestionsOf(th[t])
    BY <1>3 DEF QuestionsOf
  <1> QED
    BY <1>2, <1>3, <1>4, Stutters

LEMMA CallsAsk ==
  ASSUME IInv, NEW t \in Threads,
         \/ \E call \in HookCalls : HookCall(t, call)
         \/ \E call \in ApiCalls : ApiCall(t, call)
  PROVE  Memo!Ask(t) \/ UNCHANGED Memo!memoVars
  <1>1. ASSUME NEW call \in HookCalls, HookCall(t, call)
        PROVE  Memo!Ask(t) \/ UNCHANGED Memo!memoVars
    <2> DEFINE entered == Entered([th[t] EXCEPT !.guard = TRUE], "hook")
    <2>1. /\ entered \in Thread /\ entered.guard /\ entered.saved /\ entered.home = "hook"
      BY Own DEF Entered, Thread
    <2>2. th[t].pc \in {"program", "hook"} /\ Begin(t, call, entered)
      BY <1>1 DEF HookCall
    <2> HIDE DEF entered
    <2> QED
      BY <2>1, <2>2, BeginAsks
  <1>2. ASSUME NEW call \in ApiCalls, ApiCall(t, call)
        PROVE  Memo!Ask(t) \/ UNCHANGED Memo!memoVars
    <2> DEFINE entered == Entered(th[t], "program")
    <2>1. th[t] \in Thread /\ ~th[t].guard
      BY <1>2, Own DEF RecordOK, ScopeOK, ApiCall
    <2>2. /\ entered \in Thread /\ entered.guard /\ ~entered.saved
          /\ entered.home = "program"
      BY <2>1 DEF Entered, Thread
    <2>3. th[t].pc \in {"program", "hook"} /\ Begin(t, call, entered)
      BY <1>2 DEF ApiCall
    <2> HIDE DEF entered
    <2> QED
      BY <2>2, <2>3, BeginAsks
  <1> QED
    BY <1>1, <1>2

LEMMA MemoInit == Init => Memo!Init
  <1> SUFFICES ASSUME Init PROVE Memo!Init
    OBVIOUS
  <1>1. TableOfAnswers = <<>>
    BY DEF TableOfAnswers, Init, Caches
  <1>2. \A t \in Threads : QuestionsOf(th[t]) = <<>>
    BY DEF QuestionsOf, Init, Resolving, Locked
  <1>3. \A t \in Threads : AnswersOf(th[t]) = <<>>
    BY <1>2 DEF AnswersOf
  <1> QED
    BY <1>1, <1>2, <1>3 DEF Memo!Init

LEMMA MemoNext ==
  ASSUME BasesDiffer, IInv, OwnStates(objects), [Next]_vars
  PROVE  [Memo!Next]_(Memo!memoVars)
  <1>1. CASE UNCHANGED vars
    <2>1. th' = th /\ cache' = cache
      BY <1>1 DEF vars, shared
    <2> QED
      BY <2>1 DEF Memo!memoVars, TableOfAnswers, QuestionsOf, AnswersOf
  <1>2. ASSUME NEW t \in Threads, LeaveHook(t) \/ ResolverStep(t)
        PROVE  Memo!Next \/ UNCHANGED Memo!memoVars
    <2>1. CASE Lock(t) \/ Query(t) \/ Relock(t) \/ FillThrows(t) \/ LeaveHook(t)
      BY <2>1, MovesStutter
    <2>2. CASE Find(t)
      BY <2>2, FindLooks DEF Memo!Next
    <2>3. CASE Fill(t)
      BY <2>3, FillSettles DEF Memo!Next, Asked
    <2>4. CASE Return(t)
      BY <2>4, ReturnReplies DEF Memo!Next
    <2> QED
      BY <1>2, <2>1, <2>2, <2>3, <2>4 DEF ResolverStep
  <1>3. ASSUME NEW t \in Threads,
               \/ \E call \in HookCalls : HookCall(t, call)
               \/ \E call \in ApiCalls : ApiCall(t, call)
        PROVE  Memo!Next \/ UNCHANGED Memo!memoVars
    BY <1>3, CallsAsk DEF Memo!Next
  <1>4. ASSUME NEW t \in Threads,
               DlReturns(t) \/ \E i \in Images : Dlopen(t, i) \/ Dlclose(t, i)
        PROVE  UNCHANGED Memo!memoVars
    <2>1. th' = th /\ cache' = cache
      BY <1>4 DEF DlReturns, Dlopen, Dlclose, shared
    <2> QED
      BY <2>1 DEF Memo!memoVars, TableOfAnswers, QuestionsOf, AnswersOf
  <1> QED
    BY <1>1, <1>2, <1>3, <1>4 DEF Next

\* The front caches, the shared maps, the mutex released for dladdr and the
\* registry of files together are one table: each address is answered once, by
\* an admissible answer, and every call, also one that reads a node without the
\* mutex, is given the entry of the very address it asked for.  It needs that
\* no two files are mapped at one base, as AnswersComeFromTheirObject does.
THEOREM ResolverIsAMemoTable ==
  ASSUME BasesDiffer
  PROVE  Spec => ImplementsMemoTable
  <1>1. IInv /\ OwnStates(objects) /\ [Next]_vars => (IInv /\ OwnStates(objects))'
    BY NextInv, OwnStatesKept
  <1>2. Init => IInv /\ OwnStates(objects) /\ Memo!Init
    BY InitInv, InitOwnStates, MemoInit
  <1>3. IInv /\ OwnStates(objects) /\ [Next]_vars => [Memo!Next]_(Memo!memoVars)
    BY MemoNext
  <1> QED
    BY <1>1, <1>2, <1>3, PTL DEF Spec, ImplementsMemoTable, Memo!Spec
===============================================================================
