--------------------------- MODULE FrameStackProofs ---------------------------
(***************************************************************************)
(* Theorems about FrameStack, for every traced program and every bound:    *)
(* type correctness, the depth counter, that no hook ever pops the record  *)
(* of a frame that is still alive, that the frame stack is exact while     *)
(* every frame leaves through its exit hook, and how exact it stays when   *)
(* frames are jumped over or unwound without it.                           *)
(*                                                                         *)
(* The parts: what the reconciliation rules of FrameReconcile return for   *)
(* every frame stack; the types and the depth; the live records; the       *)
(* exceptions in flight; the programs without skipped exits; and those     *)
(* with them.  In the third the code finds dead frames by their level and, *)
(* inside one physical frame, by the base names DWARF gives.  The levels   *)
(* alone are sound for every program.  The names are sound only for        *)
(* programs in which they tell the frames of one physical frame apart;     *)
(* NamesTellFramesApart is what the argument needs.                        *)
(***************************************************************************)
EXTENDS FrameStack, FiniteSetTheorems, SequenceTheorems, TLAPS

(***************************************************************************)
(* The reconciliation rules: how far a downward scan goes and which record *)
(* an exit picks.                                                          *)
(***************************************************************************)

(***************************************************************************)
(* A function with integer values has a largest one on every non-empty set *)
(* of positions: otherwise the sets of positions with a larger value would *)
(* shrink for ever.                                                        *)
(***************************************************************************)
LEMMA LargestValue ==
    ASSUME NEW n \in Nat, NEW S \in SUBSET (0..n), S # {},
           NEW f, \A x \in S : f[x] \in Int
    PROVE  \E x \in S : \A y \in S : f[y] <= f[x]
<1> DEFINE Larger(x) == {y \in S : f[y] > f[x]}
           T == {Larger(x) : x \in S}
<1>1. T \subseteq FiniteSubsetsOf(S)
  <2>1. IsFiniteSet(0..n)
    BY FS_Interval
  <2>2. \A x \in S : Larger(x) \in SUBSET (0..n)
    OBVIOUS
  <2>3. \A x \in S : IsFiniteSet(Larger(x))
    BY <2>1, <2>2, FS_Subset
  <2> QED
    BY <2>3 DEF FiniteSubsetsOf
<1>2. \E m \in T : \A l \in T : <<l, m>> \notin StrictSubsetOrdering(S)
  <2>1. T # {}
    OBVIOUS
  <2> HIDE DEF T
  <2> QED
    BY <1>1, <2>1, FS_StrictSubsetOrderingWellFounded, WFMin, Zenon
<1>3. PICK x \in S : \A l \in T : <<l, Larger(x)>> \notin StrictSubsetOrdering(S)
  BY <1>2
<1>4. ASSUME NEW y \in S PROVE f[y] <= f[x]
  <2> SUFFICES ASSUME f[y] > f[x] PROVE FALSE
    OBVIOUS
  <2>1. Larger(y) \subseteq Larger(x)
    <3> SUFFICES ASSUME NEW z \in S, f[z] > f[y] PROVE f[z] > f[x]
      OBVIOUS
    <3>1. f[x] \in Int /\ f[y] \in Int /\ f[z] \in Int
      OBVIOUS
    <3> QED
      BY <3>1
  <2>2. y \in Larger(x) /\ y \notin Larger(y)
    OBVIOUS
  <2>3. Larger(y) \in SUBSET S /\ Larger(x) \in SUBSET S
    OBVIOUS
  <2>4. <<Larger(y), Larger(x)>> \in StrictSubsetOrdering(S)
    <3> HIDE DEF Larger
    <3> QED
      BY <2>1, <2>2, <2>3 DEF StrictSubsetOrdering
  <2> QED
    BY <1>3, <2>4
<1> QED
  BY <1>4

LEMMA MaxOfPositions ==
    ASSUME NEW n \in Nat, NEW S \in SUBSET (0..n), S # {}
    PROVE  Max(S) \in S /\ \A y \in S : y <= Max(S)
<1> DEFINE f == [x \in S |-> x]
<1>1. \E x \in S : \A y \in S : f[y] <= f[x]
  <2>1. \A x \in S : f[x] \in Int
    OBVIOUS
  <2> HIDE DEF f
  <2> QED
    BY <2>1, LargestValue
<1>2. \E x \in S : \A y \in S : x >= y
  BY <1>1
<1> QED
  BY <1>2 DEF Max

LEMMA MinOfPositions ==
    ASSUME NEW n \in Nat, NEW S \in SUBSET (0..n), S # {}
    PROVE  Min(S) \in S /\ \A y \in S : Min(S) <= y
<1> DEFINE f == [x \in S |-> -x]
<1>1. \E x \in S : \A y \in S : f[y] <= f[x]
  <2>1. \A x \in S : f[x] \in Int
    OBVIOUS
  <2> HIDE DEF f
  <2> QED
    BY <2>1, LargestValue
<1>2. \E x \in S : \A y \in S : x =< y
  BY <1>1
<1> QED
  BY <1>2 DEF Min

(***************************************************************************)
(* A downward scan over 1..n passes exactly the positions of `dead' above  *)
(* the first one that is not dead.                                         *)
(***************************************************************************)
LEMMA TopRunProperty ==
    ASSUME NEW n \in Nat, NEW dead \in SUBSET (1..n)
    PROVE  /\ TopRun(n, dead) \in 0..n
           /\ \A i \in n - TopRun(n, dead) + 1 .. n : i \in dead
           /\ n - TopRun(n, dead) \notin dead
<1> DEFINE S == {d \in 0..n : n - d \notin dead}
           run == Min(S)
<1>1. run \in S /\ \A d \in S : run <= d
  <2>1. n \in S
    OBVIOUS
  <2>2. S \in SUBSET (0..n)
    OBVIOUS
  <2> HIDE DEF S
  <2> QED
    BY <2>1, <2>2, MinOfPositions
<1>2. TopRun(n, dead) = run
  BY DEF TopRun
<1>3. ASSUME NEW i \in n - run + 1 .. n PROVE i \in dead
  <2>1. n - i \in 0..n /\ n - i < run
    BY <1>1
  <2>2. n - i \notin S
    BY <1>1, <2>1
  <2>3. n - (n - i) = i
    BY <1>1
  <2> QED
    BY <2>1, <2>2, <2>3
<1> QED
  BY <1>1, <1>2, <1>3

(***************************************************************************)
(* Every level rule pops a stretch at the top, and says why each record of *)
(* the stretch is dead.                                                    *)
(***************************************************************************)
LEMMA DeadRecordsOnEnterProperty ==
    ASSUME NEW n \in Nat, NEW records, NEW key
    PROVE  LET dead == DeadRecordsOnEnter(records, n, key)
           IN  /\ dead \in 0..n
               /\ \A i \in n - dead + 1 .. n :
                    /\ OnThreadStack(key.level) /\ OnThreadStack(records[i].level)
                    /\ \/ records[i].level < key.level
                       \/ /\ records[i].level = key.level
                          /\ records[i].caller # key.caller
               /\ dead < n /\ OnThreadStack(key.level) =>
                    ~(/\ OnThreadStack(records[n - dead].level)
                      /\ \/ records[n - dead].level < key.level
                         \/ /\ records[n - dead].level = key.level
                            /\ records[n - dead].caller # key.caller)
<1> DEFINE D == {i \in 1..n :
                   /\ OnThreadStack(records[i].level)
                   /\ \/ records[i].level < key.level
                      \/ /\ records[i].level = key.level
                         /\ records[i].caller # key.caller}
           dead == DeadRecordsOnEnter(records, n, key)
<1>1. CASE ~OnThreadStack(key.level)
  <2>1. dead = 0
    BY <1>1 DEF DeadRecordsOnEnter
  <2> QED
    BY <1>1, <2>1
<1>2. CASE OnThreadStack(key.level)
  <2>1. dead = TopRun(n, D)
    BY <1>2 DEF DeadRecordsOnEnter
  <2>2. D \in SUBSET (1..n)
    OBVIOUS
  <2>3. /\ dead \in 0..n
        /\ \A i \in n - dead + 1 .. n : i \in D
        /\ n - dead \notin D
    <3> HIDE DEF D, dead
    <3> QED
      BY <2>1, <2>2, TopRunProperty
  <2>4. dead < n => n - dead \in 1..n
    BY <2>3
  <2> QED
    BY <1>2, <2>3, <2>4
<1> QED
  BY <1>1, <1>2

LEMMA DeadRecordsOnCatchProperty ==
    ASSUME NEW n \in Nat, NEW records, NEW level
    PROVE  LET dead == DeadRecordsOnCatch(records, n, level)
           IN  /\ dead \in 0..n
               /\ \A i \in n - dead + 1 .. n :
                    /\ OnThreadStack(level) /\ OnThreadStack(records[i].level)
                    /\ records[i].level < level
<1> DEFINE D == {i \in 1..n : /\ OnThreadStack(records[i].level)
                             /\ records[i].level < level}
           dead == DeadRecordsOnCatch(records, n, level)
<1>1. CASE ~OnThreadStack(level)
  <2>1. dead = 0
    BY <1>1 DEF DeadRecordsOnCatch
  <2> QED
    BY <2>1
<1>2. CASE OnThreadStack(level)
  <2>1. dead = TopRun(n, D)
    BY <1>2 DEF DeadRecordsOnCatch
  <2>2. D \in SUBSET (1..n)
    OBVIOUS
  <2>3. dead \in 0..n /\ \A i \in n - dead + 1 .. n : i \in D
    <3> HIDE DEF D, dead
    <3> QED
      BY <2>1, <2>2, TopRunProperty
  <2> QED
    BY <1>2, <2>3
<1> QED
  BY <1>1, <1>2

(***************************************************************************)
(* The name rule pops the top of one group, above a record of that name.   *)
(***************************************************************************)
LEMMA DeadRecordsAboveMatchProperty ==
    ASSUME NEW n \in Nat, NEW records, NEW level, NEW base
    PROVE  LET dead == DeadRecordsAboveMatch(records, n, level, base)
           IN  /\ dead \in 0..n
               /\ \A i \in n - dead + 1 .. n :
                    /\ records[i].level = level
                    /\ ~RecordHasBaseName(records[i], base)
               /\ dead > 0 => /\ n - dead \in 1..n
                              /\ records[n - dead].level = level
                              /\ RecordHasBaseName(records[n - dead], base)
<1> DEFINE D == {i \in 1..n : /\ records[i].level = level
                             /\ ~RecordHasBaseName(records[i], base)}
           others == TopRun(n, D)
           dead == DeadRecordsAboveMatch(records, n, level, base)
<1>1. dead = IF n - others > 0 /\ records[n - others].level = level
             THEN others ELSE 0
  BY DEF DeadRecordsAboveMatch
<1>2. D \in SUBSET (1..n)
  OBVIOUS
<1>3. /\ others \in 0..n
      /\ \A i \in n - others + 1 .. n : i \in D
      /\ n - others \notin D
  <2> HIDE DEF D
  <2> QED
    BY <1>2, TopRunProperty
<1>4. CASE n - others > 0 /\ records[n - others].level = level
  <2>1. dead = others /\ n - others \in 1..n
    BY <1>1, <1>3, <1>4
  <2>2. RecordHasBaseName(records[n - others], base)
    BY <1>3, <1>4, <2>1
  <2> QED
    BY <1>3, <1>4, <2>1, <2>2
<1>5. CASE ~(n - others > 0 /\ records[n - others].level = level)
  <2>1. dead = 0
    BY <1>1, <1>5
  <2> QED
    BY <2>1
<1> QED
  BY <1>4, <1>5

(***************************************************************************)
(* The record an exit takes for its own: never below the frame's real      *)
(* record p, except that a tail-called exit may go down a stretch of its   *)
(* own activation site to a record below the caller's level.               *)
(***************************************************************************)
LEMMA ExitingRecordIndexProperty ==
    ASSUME NEW n \in Nat \ {0}, NEW records, NEW key,
           NEW tailCalled \in BOOLEAN,
           \A i \in 1..n : records[i].level \in Int, key.level \in Int
    PROVE  LET index == ExitingRecordIndex(records, n, key, tailCalled)
           IN  /\ index \in 1..n
               /\ \A p \in 1..n :
                    SameActivationSite(records[p], key) =>
                      \/ p <= index
                      \/ ~tailCalled /\ records[p].level # key.level
                      \/ /\ tailCalled
                         /\ records[index].level < key.level
                         /\ \A i \in index..p : SameActivationSite(records[i], key)
<1> DEFINE same  == {i \in 1..n : SameActivationSite(records[i], key)}
           first == Max(same)
           run   == {i \in same : i..first \subseteq same}
           exact == {i \in run : records[i].level = key.level}
           below == {i \in run : records[i].level < key.level}
           closest == {i \in below :
                         \A j \in below : records[j].level <= records[i].level}
           index == ExitingRecordIndex(records, n, key, tailCalled)
           giveUp == \/ ~OnThreadStack(key.level)
                     \/ ~OnThreadStack(records[n].level)
                     \/ same = {}
<1>1. index = IF giveUp THEN n
              ELSE IF tailCalled
                   THEN IF below = {} THEN first ELSE Max(closest)
                   ELSE IF exact = {} THEN first ELSE Max(exact)
  BY DEF ExitingRecordIndex
<1>2. CASE index = n
  BY <1>2
<1>3. ASSUME same # {}
      PROVE  first \in same /\ \A i \in same : i <= first
  <2>1. same \in SUBSET (0..n)
    OBVIOUS
  <2> HIDE DEF same
  <2> QED
    BY <1>3, <2>1, MaxOfPositions
<1>4. CASE same # {} /\ index = first
  BY <1>3, <1>4
<1>5. ASSUME same # {}, NEW i \in run, NEW p \in same, p > i
      PROVE  p \in run
  <2>1. p \in i..first /\ i \in 1..n /\ p \in 1..n /\ first \in 1..n
    BY <1>3, <1>5
  <2>2. p..first \subseteq i..first
    <3> HIDE DEF first
    <3> QED
      BY <2>1, <1>5
  <2> QED
    BY <2>2
<1>6. CASE same # {} /\ ~tailCalled /\ exact # {} /\ index = Max(exact)
  <2>1. exact \in SUBSET (0..n)
    OBVIOUS
  <2>2. index \in exact /\ \A i \in exact : i <= index
    <3> HIDE DEF exact, index
    <3> QED
      BY <1>6, <2>1, MaxOfPositions
  <2>3. index \in run /\ index \in 1..n
    BY <2>2
  <2>4. ASSUME NEW p \in same, p > index PROVE records[p].level # key.level
    <3>1. p \in run
      BY <1>5, <1>6, <2>3, <2>4
    <3>2. p \in exact => p <= index
      BY <2>2
    <3>3. p \notin exact
      <4> HIDE DEF exact, index
      <4> QED
        BY <2>4, <3>2, <2>3
    <3> QED
      BY <3>1, <3>3
  <2> HIDE DEF exact, run, first
  <2> QED
    BY <1>6, <2>3, <2>4
<1>7. CASE same # {} /\ tailCalled /\ below # {} /\ index = Max(closest)
  <2>1. below \in SUBSET (0..n)
    OBVIOUS
  <2>2. closest # {}
    <3> DEFINE f == [i \in 0..n |-> records[i].level]
    <3>1. \A i \in below : f[i] \in Int
      OBVIOUS
    <3>2. \E i \in below : \A j \in below : f[j] <= f[i]
      <4> HIDE DEF f, below
      <4> QED
        BY <1>7, <2>1, <3>1, LargestValue
    <3>3. \A i \in below : f[i] = records[i].level
      OBVIOUS
    <3> QED
      BY <3>2, <3>3
  <2>3. closest \in SUBSET (0..n)
    OBVIOUS
  <2>4. index \in closest
    <3> HIDE DEF closest, index
    <3> QED
      BY <1>7, <2>2, <2>3, MaxOfPositions
  <2>5. index \in run /\ index \in 1..n /\ records[index].level < key.level
    BY <2>4
  <2>6. ASSUME NEW p \in same, p > index
        PROVE  \A i \in index..p : SameActivationSite(records[i], key)
    <3>1. p <= first /\ first \in 1..n /\ p \in 1..n
      BY <1>3, <1>7
    <3>2. index..p \subseteq index..first
      <4> HIDE DEF first, index
      <4> QED
        BY <2>5, <3>1
    <3> QED
      BY <2>5, <3>2
  <2>7. ASSUME NEW p \in 1..n, SameActivationSite(records[p], key)
        PROVE  p <= index \/ \A i \in index..p : SameActivationSite(records[i], key)
    <3>1. p \in same /\ (p <= index \/ p > index)
      BY <2>5, <2>7
    <3> HIDE DEF same, run, closest, index
    <3> QED
      BY <2>6, <3>1
  <2>8. tailCalled
    BY <1>7
  <2> HIDE DEF same, closest, below, run, first
  <2> QED
    BY <2>5, <2>7, <2>8
<1> HIDE DEF index, closest, below, exact, run, first
<1> QED
  BY <1>1, <1>2, <1>4, <1>6, <1>7

-------------------------------------------------------------------------------
(***************************************************************************)
(* Sequences: a prefix and an extended prefix.                             *)
(***************************************************************************)
LEMMA PrefixProperty ==
    ASSUME NEW S, NEW seq \in Seq(S), NEW k \in 0..Len(seq)
    PROVE  /\ SubSeq(seq, 1, k) \in Seq(S)
           /\ Len(SubSeq(seq, 1, k)) = k
           /\ DOMAIN SubSeq(seq, 1, k) = 1..k
           /\ \A i \in 1..k : SubSeq(seq, 1, k)[i] = seq[i]
<1>1. k \in Int /\ 1 \in Int /\ Len(seq) \in Nat
  BY LenProperties
<1>2. \A i \in 1..k : seq[i] \in S
  BY <1>1, ElementOfSeq
<1>3. /\ SubSeq(seq, 1, k) \in Seq(S)
      /\ Len(SubSeq(seq, 1, k)) = IF 1 <= k THEN k - 1 + 1 ELSE 0
      /\ \A i \in 1 .. k - 1 + 1 : SubSeq(seq, 1, k)[i] = seq[1 + i - 1]
  BY <1>1, <1>2, SubSeqProperties
<1>4. \A i \in 1..k : 1 + i - 1 = i /\ i \in 1 .. k - 1 + 1
  BY <1>1
<1>5. Len(SubSeq(seq, 1, k)) = k
  BY <1>1, <1>3
<1> QED
  BY <1>3, <1>4, <1>5, LenProperties

LEMMA ExtendedPrefixProperty ==
    ASSUME NEW S, NEW seq \in Seq(S), NEW k \in 0..Len(seq), NEW e \in S
    PROVE  /\ Append(SubSeq(seq, 1, k), e) \in Seq(S)
           /\ Len(Append(SubSeq(seq, 1, k), e)) = k + 1
           /\ DOMAIN Append(SubSeq(seq, 1, k), e) = 1..k + 1
           /\ \A i \in 1..k : Append(SubSeq(seq, 1, k), e)[i] = seq[i]
           /\ Append(SubSeq(seq, 1, k), e)[k + 1] = e
<1> DEFINE p == SubSeq(seq, 1, k)
<1>1. p \in Seq(S) /\ Len(p) = k /\ \A i \in 1..k : p[i] = seq[i]
  BY PrefixProperty
<1>2. k \in Nat
  BY LenProperties
<1> HIDE DEF p
<1>3. /\ Append(p, e) \in Seq(S)
      /\ Len(Append(p, e)) = Len(p) + 1
      /\ \A i \in 1..Len(p) : Append(p, e)[i] = p[i]
      /\ Append(p, e)[Len(p) + 1] = e
  BY <1>1, AppendProperties
<1>4. DOMAIN Append(p, e) = 1..k + 1
  BY <1>1, <1>3, LenProperties
<1> QED
  BY <1>1, <1>3, <1>4 DEF p
-------------------------------------------------------------------------------
(***************************************************************************)
(* Typing of the parts of the actions.                                     *)
(***************************************************************************)
LEMMA RecordType ==
    ASSUME TypeOK
    PROVE  /\ Len(frames) \in Nat /\ DOMAIN frames = 1..Len(frames)
           /\ \A i \in 1..Len(frames) : /\ frames[i] \in FrameRecord
                                       /\ frames[i].level \in Int
                                       /\ frames[i].caller \in Sites
<1>1. \A i \in 1..Len(frames) : frames[i] \in FrameRecord
  BY ElementOfSeq DEF TypeOK
<1> QED
  BY <1>1, LenProperties DEF TypeOK, FrameRecord

LEMMA EnteredType ==
    ASSUME TypeOK, NEW s \in Sites, CanEnter(s), NEW rec \in Nat
    PROVE  Entered(s, rec) \in Activation
<1>1. real # <<>> => Top \in Activation
  BY EmptySeq, ElementOfSeq DEF TypeOK, Top
<1>2. CASE Kind[s] = "inline"
  BY <1>1, <1>2, ProgramAssumption
     DEF CanEnter, Entered, EnteredCaller, EnteredLevel, Activation
<1>3. CASE Kind[s] = "call"
  BY <1>1, <1>3, ProgramAssumption
     DEF CanEnter, Entered, EnteredCaller, EnteredLevel, Activation
<1>4. CASE Kind[s] \in {"entry", "signal"}
  BY <1>4, ProgramAssumption
     DEF Entered, EnteredCaller, EnteredLevel, Activation
<1> QED
  BY <1>2, <1>3, <1>4, ProgramAssumption DEF Kinds

LEMMA KeptByChainType ==
    ASSUME TypeOK, NEW count \in 0..Len(frames), NEW key, NEW s \in Sites
    PROVE  KeptByChain(count, key, s) \in 0..count
<1> DEFINE host == BaseName[Host[s]]
           again == {i \in 1..count : /\ SameActivationSite(frames[i], key)
                                      /\ frames[i].level = key.level}
           retried == IF Kind[s] = "inline" /\ BaseName[Target[s]] = host
                      THEN count ELSE count - TopRun(count, again)
<1>1. count \in Nat
  BY LenProperties DEF TypeOK
<1>2. TopRun(count, again) \in 0..count
  <2>1. again \in SUBSET (1..count)
    OBVIOUS
  <2> QED
    BY <1>1, <2>1, TopRunProperty
<1>3. retried \in 0..count
  BY <1>1, <1>2
<1>4. retried - DeadRecordsAboveMatch(frames, retried, key.level, host) \in 0..count
  <2>1. retried \in Nat
    BY <1>3
  <2>2. DeadRecordsAboveMatch(frames, retried, key.level, host) \in 0..retried
    <3> HIDE DEF retried, host
    <3> QED
      BY <2>1, DeadRecordsAboveMatchProperty
  <2> QED
    BY <1>1, <1>3, <2>2
<1>5. KeptByChain(count, key, s) \in
        {count, retried,
         retried - DeadRecordsAboveMatch(frames, retried, key.level, host)}
  BY DEF KeptByChain
<1> HIDE DEF retried, host
<1> QED
  BY <1>1, <1>3, <1>4, <1>5

LEMMA KeptByParentType ==
    ASSUME TypeOK, NEW count \in 0..Len(frames), NEW key
    PROVE  KeptByParent(count, key) \in 0..count
<1>1. count \in Nat
  BY LenProperties DEF TypeOK
<1>2. DeadRecordsAboveMatch(frames, count, frames[count].level, Parent[key.caller])
        \in 0..count
  BY <1>1, DeadRecordsAboveMatchProperty
<1> QED
  BY <1>1, <1>2 DEF KeptByParent

LEMMA KeptOnEnterType ==
    ASSUME TypeOK, NEW s \in Sites, NEW key, NEW outcome
    PROVE  /\ KeptByLevel(key) \in 0..Len(frames)
           /\ KeptOnEnter(key, s, outcome) \in 0..KeptByLevel(key)
<1>1. Len(frames) \in Nat
  BY LenProperties DEF TypeOK
<1>2. KeptByLevel(key) \in 0..Len(frames)
  BY <1>1, DeadRecordsOnEnterProperty DEF KeptByLevel
<1>3. KeptByChain(KeptByLevel(key), key, s) \in 0..KeptByLevel(key)
  BY <1>2, KeptByChainType
<1>4. KeptByParent(KeptByChain(KeptByLevel(key), key, s), key)
        \in 0..KeptByChain(KeptByLevel(key), key, s)
  BY <1>1, <1>2, <1>3, KeptByParentType
<1>5. KeptOnEnter(key, s, outcome) \in
        {KeptByLevel(key), KeptByChain(KeptByLevel(key), key, s),
         KeptByParent(KeptByChain(KeptByLevel(key), key, s), key)}
  BY DEF KeptOnEnter
<1> QED
  BY <1>1, <1>2, <1>3, <1>4, <1>5

LEMMA OnCatchKeepsType ==
    ASSUME TypeOK, NEW level, NEW kept \in OnCatchKeeps(level)
    PROVE  kept \in 0..Len(frames)
<1>1. Len(frames) \in Nat
  BY LenProperties DEF TypeOK
<1>2. KeptOnCatch(level) \in 0..Len(frames)
  BY <1>1, DeadRecordsOnCatchProperty DEF KeptOnCatch
<1>3. DeadRecordsAboveMatch(frames, KeptOnCatch(level), level, BaseName[Top.body])
        \in 0..KeptOnCatch(level)
  BY <1>1, <1>2, DeadRecordsAboveMatchProperty
<1>4. KeptOnCatchByChain(KeptOnCatch(level), level) \in 0..Len(frames)
  BY <1>1, <1>2, <1>3 DEF KeptOnCatchByChain
<1> QED
  BY <1>1, <1>2, <1>4 DEF OnCatchKeeps

LEMMA LoggedAboveType ==
    ASSUME TypeOK, NEW kept \in 0..Len(frames)
    PROVE  /\ IsFiniteSet(LoggedAbove(kept))
           /\ Cardinality(LoggedAbove(kept)) \in Nat
           /\ DepthAt(kept) \in Int
<1>1. Len(frames) \in Nat
  BY LenProperties DEF TypeOK
<1>2. IsFiniteSet(kept + 1 .. Len(frames))
  BY <1>1, FS_Interval
<1>3. LoggedAbove(kept) \in SUBSET (kept + 1 .. Len(frames))
  BY DEF LoggedAbove
<1>4. IsFiniteSet(LoggedAbove(kept)) /\ Cardinality(LoggedAbove(kept)) \in Nat
  BY <1>2, <1>3, FS_Subset, FS_CardinalityType
<1> QED
  BY <1>4 DEF DepthAt, TypeOK

LEMMA WithFateProperty ==
    ASSUME NEW r \in FrameRecord, NEW how \in {"live", "jumped", "unwound"}
    PROVE  /\ WithFate(r, how) \in FrameRecord
           /\ WithFate(r, how).callee = r.callee /\ WithFate(r, how).caller = r.caller
           /\ WithFate(r, how).level = r.level /\ WithFate(r, how).logged = r.logged
           /\ WithFate(r, how).name = r.name /\ WithFate(r, how).uncaught = r.uncaught
  BY DEF WithFate, FrameRecord

\* What a longjmp or an unwind changes of the records is their fate.
SameRecord(r, q) ==
    /\ r.callee = q.callee /\ r.caller = q.caller /\ r.level = q.level
    /\ r.logged = q.logged /\ r.name = q.name /\ r.uncaught = q.uncaught

LEMMA BuriedProperty ==
    ASSUME TypeOK, NEW k, NEW how \in {"jumped", "unwound"}
    PROVE  /\ Buried(k, how) \in Seq(FrameRecord)
           /\ Len(Buried(k, how)) = Len(frames)
           /\ DOMAIN Buried(k, how) = DOMAIN frames
           /\ \A i \in DOMAIN frames :
                /\ SameRecord(Buried(k, how)[i], frames[i])
                /\ (\A j \in k + 1 .. Len(real) : real[j].rec # i) =>
                     Buried(k, how)[i] = frames[i]
<1>1. frames \in Seq(FrameRecord) /\ Len(frames) \in Nat
      /\ DOMAIN frames = 1..Len(frames)
  BY LenProperties DEF TypeOK
<1>2. \A i \in DOMAIN frames : frames[i] \in FrameRecord
  BY <1>1, ElementOfSeq
<1> DEFINE gone == {real[j].rec : j \in k + 1 .. Len(real)}
<1>3. Buried(k, how) = [i \in DOMAIN frames |->
        IF i \in gone THEN WithFate(frames[i], how) ELSE frames[i]]
  BY DEF Buried
<1>4. \A i \in DOMAIN frames :
        (\A j \in k + 1 .. Len(real) : real[j].rec # i) => i \notin gone
  OBVIOUS
<1> HIDE DEF gone
<1>5. \A i \in DOMAIN frames : /\ Buried(k, how)[i] \in FrameRecord
                               /\ SameRecord(Buried(k, how)[i], frames[i])
  BY <1>2, <1>3, WithFateProperty DEF SameRecord
<1>6. \A i \in DOMAIN frames :
        (\A j \in k + 1 .. Len(real) : real[j].rec # i) =>
          Buried(k, how)[i] = frames[i]
  BY <1>3, <1>4
<1>7. Buried(k, how) \in [1..Len(frames) -> FrameRecord]
  BY <1>1, <1>3, <1>5
<1>8. Buried(k, how) \in Seq(FrameRecord) /\ Len(Buried(k, how)) = Len(frames)
  BY <1>1, <1>7, SeqDef
<1> QED
  BY <1>3, <1>5, <1>6, <1>8

LEMMA MarkLinesType ==
    ASSUME TypeOK, NEW kept \in 0..Len(frames), NEW how \in {"|", "!", "~"}
    PROVE  MarkLines(kept, how) \subseteq LineEnd
<1>1. \A i \in LoggedAbove(kept) : frames[i] \in FrameRecord
  BY LenProperties, ElementOfSeq DEF LoggedAbove, TypeOK
<1> QED
  BY <1>1 DEF MarkLines, LineEnd, FrameRecord

\* The record the exit hook of the innermost frame settles.
ExitIndex(tailCalled) ==
    ExitingRecordIndex(frames, Len(frames),
      KeyAt(Top, IF tailCalled THEN Top.level + Up[Top.caller] ELSE Top.level),
      tailCalled)

LEMMA TopType ==
    ASSUME TypeOK, real # <<>>
    PROVE  Len(real) \in Nat \ {0} /\ Top \in Activation /\ Top = real[Len(real)]
  BY EmptySeq, ElementOfSeq DEF TypeOK, Top

LEMMA ExitIndexType ==
    ASSUME TypeOK, real # <<>>, frames # <<>>, NEW tailCalled \in BOOLEAN
    PROVE  ExitIndex(tailCalled) \in 1..Len(frames)
<1> DEFINE level == IF tailCalled THEN Top.level + Up[Top.caller] ELSE Top.level
           key == KeyAt(Top, level)
<1>1. Len(frames) \in Nat \ {0}
  BY EmptySeq DEF TypeOK
<1>2. \A i \in 1..Len(frames) : frames[i].level \in Int
  BY RecordType
<1>3. level \in Int
  BY TopType, ProgramAssumption DEF Activation
<1> HIDE DEF level
<1>4. key.level \in Int
  BY <1>3 DEF KeyAt
<1> HIDE DEF key
<1>5. ExitingRecordIndex(frames, Len(frames), key, tailCalled) \in 1..Len(frames)
  BY <1>1, <1>2, <1>4, ExitingRecordIndexProperty
<1> QED
  BY <1>5 DEF ExitIndex, key, level

\* Whatever an exit hook does, it keeps a lower part of the frame stack.
LEMMA ExitKeepsStart ==
    ASSUME TypeOK, real # <<>>, NEW tailCalled \in BOOLEAN, NEW why,
           ExitHook(tailCalled, why)
    PROVE  \E kept \in 0..Len(frames) : /\ Len(frames') = kept
                                        /\ \A i \in 1..kept : frames'[i] = frames[i]
<1>1. Len(frames) \in Nat
  BY RecordType
<1>2. CASE overflow > 0 \/ frames = <<>>
  <2>1. frames' = frames /\ Len(frames) \in 0..Len(frames)
    BY <1>1, <1>2 DEF ExitHook
  <2> QED
    BY <2>1
<1>3. CASE ~(overflow > 0 \/ frames = <<>>)
  <2> DEFINE index == ExitIndex(tailCalled)
  <2>1. index \in 1..Len(frames) /\ frames' = SubSeq(frames, 1, index - 1)
    BY <1>3, ExitIndexType DEF ExitHook, ExitIndex
  <2> HIDE DEF index
  <2>2. index - 1 \in 0..Len(frames)
    BY <1>1, <2>1
  <2>3. /\ Len(frames') = index - 1
        /\ \A i \in 1..index - 1 : frames'[i] = frames[i]
    BY <2>1, <2>2, PrefixProperty DEF TypeOK
  <2> QED
    BY <2>2, <2>3
<1> QED
  BY <1>2, <1>3

LEMMA ExitHookType ==
    ASSUME TypeOK, real # <<>>, NEW tailCalled \in BOOLEAN,
           NEW why \in {"returned", "unwound"}, ExitHook(tailCalled, why)
    PROVE  /\ frames' \in Seq(FrameRecord) /\ depth' \in Int /\ overflow' \in Nat
           /\ ended' \subseteq LineEnd
<1> DEFINE index == ExitIndex(tailCalled)
           own == {[fate |-> IF index = Top.rec THEN why ELSE frames[index].fate,
                    how  |-> IF LeftByException(index) THEN "!" ELSE "|"]}
<1>1. overflow' \in Nat
  BY DEF ExitHook, Drained, TypeOK
<1>2. CASE overflow > 0 \/ frames = <<>>
  BY <1>1, <1>2 DEF ExitHook, TypeOK
<1>3. CASE ~(overflow > 0 \/ frames = <<>>)
  <2>1. /\ frames' = SubSeq(frames, 1, index - 1)
        /\ depth' = DepthAt(index - 1)
        /\ ended' = MarkLines(index, "~") \cup
             IF LogExceptions /\ frames[index].logged THEN own ELSE {}
    BY <1>3 DEF ExitHook, ExitIndex
  <2>2. index \in 1..Len(frames) /\ Len(frames) \in Nat
    BY <1>3, ExitIndexType, LenProperties DEF TypeOK
  <2> HIDE DEF index
  <2>3. frames[index] \in FrameRecord
    BY <2>2, ElementOfSeq DEF TypeOK
  <2>4. index - 1 \in 0..Len(frames) /\ index \in 0..Len(frames)
    BY <2>2
  <2>5. own \subseteq LineEnd
    BY <2>3 DEF LineEnd, FrameRecord
  <2>6. MarkLines(index, "~") \subseteq LineEnd
    BY <2>4, MarkLinesType
  <2>7. ended' \subseteq LineEnd
    <3> HIDE DEF own
    <3> QED
      BY <2>1, <2>5, <2>6
  <2>8. frames' \in Seq(FrameRecord)
    BY <2>1, <2>4, PrefixProperty DEF TypeOK
  <2>9. depth' \in Int
    BY <2>1, <2>4, LoggedAboveType
  <2> QED
    BY <1>1, <2>7, <2>8, <2>9
<1> QED
  BY <1>2, <1>3
-------------------------------------------------------------------------------
LEMMA TypeInit == Init => TypeOK
  BY EmptySeq DEF Init, TypeOK

LEMMA NewRecordProperty ==
    ASSUME TypeOK, NEW a \in Activation, NEW o \in Outcomes
    PROVE  /\ NewRecord(a, o) \in FrameRecord
           /\ NewRecord(a, o).callee = Fn[a.body]
           /\ NewRecord(a, o).caller = a.caller
           /\ NewRecord(a, o).level = a.level
           /\ NewRecord(a, o).fate = "live"
           /\ o = "logged" => /\ NewRecord(a, o).logged
                              /\ NewRecord(a, o).name = BaseName[a.body]
           /\ o # "logged" => /\ ~NewRecord(a, o).logged
                              /\ NewRecord(a, o).name = NoName
<1>1. Uncaught \in Nat
  BY LenProperties DEF TypeOK, Uncaught
<1>2. /\ a.caller \in Sites /\ a.level \in Int
      /\ Fn[a.body] \in STRING /\ BaseName[a.body] \in STRING /\ NoName \in STRING
  BY ProgramAssumption DEF Activation
<1>3. CASE o = "logged"
  BY <1>1, <1>2, <1>3 DEF NewRecord, FrameRecord
<1>4. CASE o # "logged"
  BY <1>1, <1>2, <1>4 DEF NewRecord, FrameRecord
<1> QED
  BY <1>3, <1>4

\* The records an enter at site s keeps.
EnterKeeps(s, o) == KeptOnEnter(KeyOf(Entered(s, 0)), s, o)

(***************************************************************************)
(* What the usual enter does to the two stacks.                            *)
(***************************************************************************)
LEMMA EnterRecordedProperty ==
    ASSUME TypeOK, NEW s \in Sites, NEW o \in Outcomes, EnterRecorded(s, o)
    PROVE  LET kept == EnterKeeps(s, o)
               record == NewRecord(Entered(s, 0), o)
           IN  /\ CanEnter(s) /\ overflow = 0 /\ o \in LogOutcomes[Target[s]]
               /\ Entered(s, 0) \in Activation /\ record \in FrameRecord
               /\ kept \in 0..Len(frames) /\ kept <= KeptByLevel(KeyOf(Entered(s, 0)))
               /\ KeptByLevel(KeyOf(Entered(s, 0))) \in 0..Len(frames)
               /\ frames' \in Seq(FrameRecord) /\ Len(frames') = kept + 1
               /\ DOMAIN frames' = 1..kept + 1
               /\ \A i \in 1..kept : frames'[i] = frames[i]
               /\ frames'[kept + 1] = record
               /\ real' \in Seq(Activation) /\ Len(real') = Len(real) + 1
               /\ \A j \in 1..Len(real) : real'[j] = real[j]
               /\ real'[Len(real) + 1] = Entered(s, kept + 1)
               /\ depth' = DepthAt(kept) + (IF o = "logged" THEN 1 ELSE 0)
               /\ ended' = MarkLines(kept, EnterMark)
               /\ capacity' = GrownCapacity
               /\ UNCHANGED <<inflight, running, overflow>>
<1> DEFINE kept == EnterKeeps(s, o)
           record == NewRecord(Entered(s, 0), o)
<1>1. /\ CanEnter(s) /\ overflow = 0 /\ o \in LogOutcomes[Target[s]]
      /\ capacity' = GrownCapacity
      /\ frames' = Append(SubSeq(frames, 1, kept), record)
      /\ depth' = DepthAt(kept) + (IF o = "logged" THEN 1 ELSE 0)
      /\ ended' = MarkLines(kept, EnterMark)
      /\ real' = Append(real, Entered(s, kept + 1))
      /\ UNCHANGED <<inflight, running, overflow>>
  BY DEF EnterRecorded, EnterKeeps
<1>2. /\ Len(frames) \in Nat
      /\ KeptByLevel(KeyOf(Entered(s, 0))) \in 0..Len(frames)
      /\ kept \in 0..KeptByLevel(KeyOf(Entered(s, 0)))
  BY KeptOnEnterType, RecordType DEF EnterKeeps
<1>3. Entered(s, 0) \in Activation /\ record \in FrameRecord
  BY <1>1, EnteredType, NewRecordProperty
<1> HIDE DEF kept, record
<1>4. kept \in 0..Len(frames) /\ kept <= KeptByLevel(KeyOf(Entered(s, 0)))
  BY <1>2
<1>5. /\ frames' \in Seq(FrameRecord) /\ Len(frames') = kept + 1
      /\ DOMAIN frames' = 1..kept + 1
      /\ \A i \in 1..kept : frames'[i] = frames[i]
      /\ frames'[kept + 1] = record
  BY <1>1, <1>3, <1>4, ExtendedPrefixProperty DEF TypeOK
<1>6. Entered(s, kept + 1) \in Activation
  <2>1. kept + 1 \in Nat
    BY <1>2, <1>4
  <2> QED
    BY <1>1, <2>1, EnteredType
<1>7. /\ real' \in Seq(Activation) /\ Len(real') = Len(real) + 1
      /\ \A j \in 1..Len(real) : real'[j] = real[j]
      /\ real'[Len(real) + 1] = Entered(s, kept + 1)
  BY <1>1, <1>6, AppendProperties DEF TypeOK
<1> QED
  BY <1>1, <1>2, <1>3, <1>4, <1>5, <1>7 DEF kept, record

LEMMA EnterRecordedType ==
    ASSUME TypeOK, NEW s \in Sites, NEW o \in Outcomes, EnterRecorded(s, o)
    PROVE  TypeOK'
<1> DEFINE kept == EnterKeeps(s, o)
<1>1. /\ kept \in 0..Len(frames)
      /\ frames' \in Seq(FrameRecord) /\ real' \in Seq(Activation)
      /\ depth' = DepthAt(kept) + (IF o = "logged" THEN 1 ELSE 0)
      /\ ended' = MarkLines(kept, EnterMark)
      /\ capacity' = GrownCapacity
      /\ UNCHANGED <<inflight, running, overflow>>
  BY EnterRecordedProperty
<1> HIDE DEF kept
<1>2. depth' \in Int
  BY <1>1, LoggedAboveType
<1>3. ended' \subseteq LineEnd
  BY <1>1, MarkLinesType DEF EnterMark
<1>4. capacity' \in Nat
  BY <1>1, ProgramAssumption DEF GrownCapacity, TypeOK
<1> QED
  BY <1>1, <1>2, <1>3, <1>4 DEF TypeOK

LEMMA TypeStep == TypeOK /\ [Next]_vars => TypeOK'
<1> SUFFICES ASSUME TypeOK, [Next]_vars PROVE TypeOK'
  OBVIOUS
<1>1. ASSUME NEW s \in Sites, EnterOverflowed(s) \/ EnterWithoutSlot(s)
      PROVE  TypeOK'
  <2>1. CanEnter(s) /\ real' = Append(real, Entered(s, 0)) /\ overflow' \in Nat
    BY <1>1 DEF EnterOverflowed, EnterWithoutSlot, TypeOK
  <2>2. Entered(s, 0) \in Activation
    BY <2>1, EnteredType
  <2>3. real' \in Seq(Activation)
    BY <2>1, <2>2, AppendProperties DEF TypeOK
  <2> QED
    BY <1>1, <2>1, <2>3 DEF EnterOverflowed, EnterWithoutSlot, TypeOK
<1>2. ASSUME NEW s \in Sites, NEW o \in Outcomes, EnterRecorded(s, o)
      PROVE  TypeOK'
  BY <1>2, EnterRecordedType
<1>3. ASSUME real # <<>>
      PROVE  RealWithoutTop \in Seq(Activation)
  <2>1. Len(real) - 1 \in 0..Len(real)
    BY <1>3, TopType
  <2> QED
    BY <2>1, PrefixProperty DEF TypeOK, RealWithoutTop
<1>4. CASE Return
  <2>1. real # <<>> /\ ExitHook(Top.body \in TailExit, "returned")
    BY <1>4 DEF Return
  <2>2. (Top.body \in TailExit) \in BOOLEAN
    OBVIOUS
  <2>3. /\ frames' \in Seq(FrameRecord) /\ depth' \in Int /\ overflow' \in Nat
        /\ ended' \subseteq LineEnd
    BY <2>1, <2>2, ExitHookType
  <2> QED
    BY <1>3, <1>4, <2>1, <2>3 DEF Return, TypeOK
<1>5. ASSUME NEW k \in 1..MaxDepth, Longjmp(k)
      PROVE  TypeOK'
  <2>1. k \in 0..Len(real)
    BY <1>5, LenProperties, ProgramAssumption DEF Longjmp, TypeOK
  <2>2. real' \in Seq(Activation)
    BY <1>5, <2>1, PrefixProperty DEF Longjmp, TypeOK
  <2>3. frames' \in Seq(FrameRecord)
    BY <1>5, BuriedProperty DEF Longjmp
  <2> QED
    BY <1>5, <2>2, <2>3 DEF Longjmp, TypeOK
<1>6. CASE Throw
  <2>1. Len(real) \in Nat
    BY LenProperties DEF TypeOK
  <2>2. inflight' \in Seq(Nat)
    BY <1>6, <2>1, AppendProperties DEF Throw, TypeOK
  <2> QED
    BY <1>6, <2>2 DEF Throw, TypeOK
<1>7. CASE UnwindFrame
  <2>1. UnwindingTop /\ Len(real) > 1 /\ real # <<>> /\ Len(real) \in Nat
    BY <1>7, LenProperties, EmptySeq DEF UnwindFrame, TypeOK
  <2>2. Uncaught \in 1..Len(inflight)
    BY <2>1, EmptySeq DEF UnwindingTop, Uncaught, TypeOK
  <2>3. inflight' \in Seq(Nat)
    <3>1. Len(real) - 1 \in Nat
      BY <2>1
    <3> QED
      BY <1>7, <2>2, <3>1, ExceptSeq DEF UnwindFrame, TypeOK
  <2>4. real' \in Seq(Activation)
    BY <1>3, <1>7, <2>1 DEF UnwindFrame
  <2>5. CASE ExitHook(FALSE, "unwound")
    <3>1. /\ frames' \in Seq(FrameRecord) /\ depth' \in Int /\ overflow' \in Nat
          /\ ended' \subseteq LineEnd
      BY <2>1, <2>5, ExitHookType
    <3> QED
      BY <1>7, <2>3, <2>4, <3>1 DEF UnwindFrame, TypeOK
  <2>6. CASE /\ frames' = Buried(Len(real) - 1, "unwound")
             /\ ended' = {}
             /\ UNCHANGED <<depth, overflow>>
    <3>1. frames' \in Seq(FrameRecord)
      BY <2>6, BuriedProperty
    <3> QED
      BY <1>7, <2>3, <2>4, <2>6, <3>1 DEF UnwindFrame, TypeOK
  <2> QED
    BY <1>7, <2>5, <2>6 DEF UnwindFrame
<1>8. ASSUME UnwindingTop
      PROVE  InflightWithoutTop \in Seq(Nat)
  <2>1. Uncaught - 1 \in 0..Len(inflight)
    BY <1>8, EmptySeq DEF UnwindingTop, Uncaught, TypeOK
  <2> QED
    BY <2>1, PrefixProperty DEF InflightWithoutTop, TypeOK
<1>9. ASSUME NEW kept \in 0..Len(frames), PopTo(kept, "!")
      PROVE  /\ frames' \in Seq(FrameRecord) /\ depth' \in Int
             /\ ended' \subseteq LineEnd /\ capacity' \in Nat /\ overflow' \in Nat
  BY <1>9, PrefixProperty, LoggedAboveType, MarkLinesType DEF PopTo, TypeOK
<1>10. CASE Catch
  <2>1. /\ frames' \in Seq(FrameRecord) /\ depth' \in Int
        /\ ended' \subseteq LineEnd /\ capacity' \in Nat /\ overflow' \in Nat
    <3>1. CASE ~LogExceptions
      BY <1>10, <3>1 DEF Catch, TypeOK
    <3>2. CASE \E kept \in OnCatchKeeps(Top.level) : PopTo(kept, "!")
      BY <1>9, <3>2, OnCatchKeepsType
    <3> QED
      BY <1>10, <3>1, <3>2 DEF Catch
  <2> QED
    BY <1>8, <1>10, <2>1 DEF Catch, TypeOK
<1>11. CASE CatchInTerminateStub
  <2>1. \A level : KeptOnCatch(level) \in 0..Len(frames)
    BY DeadRecordsOnCatchProperty, LenProperties DEF KeptOnCatch, TypeOK
  <2>2. PICK kept \in {KeptOnCatch(Top.level - StubDrop + 1)} \cup
                      (IF MayRunOut THEN {Len(frames)} ELSE {}) : PopTo(kept, "!")
    BY <1>11 DEF CatchInTerminateStub
  <2>3. kept \in 0..Len(frames)
    BY <2>1, <2>2, LenProperties DEF TypeOK
  <2> QED
    BY <1>8, <1>9, <1>11, <2>2, <2>3 DEF CatchInTerminateStub, TypeOK
<1>12. CASE UNCHANGED vars
  BY <1>12 DEF vars, TypeOK
<1> QED
  BY <1>1, <1>2, <1>4, <1>5, <1>6, <1>7, <1>10, <1>11, <1>12 DEF Next, Enter

(***************************************************************************)
(* Type correctness, for every program and every bound.                    *)
(***************************************************************************)
THEOREM TypeCorrect == Spec => []TypeOK
  BY TypeInit, TypeStep, PTL DEF Spec
-------------------------------------------------------------------------------
(***************************************************************************)
(* The depth counter.                                                      *)
(***************************************************************************)
LEMMA LoggedSplit ==
    ASSUME TypeOK, NEW kept \in 0..Len(frames)
    PROVE  LET below == {i \in 1..kept : frames[i].logged}
           IN  /\ IsFiniteSet(below)
               /\ Cardinality(below) \in Nat
               /\ Cardinality({i \in DOMAIN frames : frames[i].logged}) =
                    Cardinality(below) + Cardinality(LoggedAbove(kept))
<1> DEFINE below == {i \in 1..kept : frames[i].logged}
           all == {i \in DOMAIN frames : frames[i].logged}
<1>1. Len(frames) \in Nat /\ DOMAIN frames = 1..Len(frames)
  BY RecordType
<1>2. IsFiniteSet(below) /\ Cardinality(below) \in Nat
  <2>1. IsFiniteSet(1..kept)
    BY <1>1, FS_Interval
  <2> QED
    BY <2>1, FS_Subset, FS_CardinalityType
<1>3. IsFiniteSet(LoggedAbove(kept)) /\ Cardinality(LoggedAbove(kept)) \in Nat
  BY LoggedAboveType
<1>4. all = below \cup LoggedAbove(kept) /\ below \cap LoggedAbove(kept) = {}
  BY <1>1 DEF LoggedAbove
<1>5. Cardinality(all) = Cardinality(below) + Cardinality(LoggedAbove(kept))
                           - Cardinality(below \cap LoggedAbove(kept))
  <2> HIDE DEF below, all
  <2> QED
    BY <1>2, <1>3, <1>4, FS_Union
<1>6. Cardinality(below \cap LoggedAbove(kept)) = 0
  BY <1>4, FS_EmptySet
<1> HIDE DEF below, all
<1>7. Cardinality(all) = Cardinality(below) + Cardinality(LoggedAbove(kept))
  BY <1>2, <1>3, <1>5, <1>6
<1> QED
  BY <1>2, <1>7 DEF below, all

LEMMA DepthAtProperty ==
    ASSUME TypeOK, DepthCountsLoggedRecords, NEW kept \in 0..Len(frames)
    PROVE  DepthAt(kept) = Cardinality({i \in 1..kept : frames[i].logged}) - 1
<1> DEFINE below == {i \in 1..kept : frames[i].logged}
           all == {i \in DOMAIN frames : frames[i].logged}
<1>1. /\ Cardinality(below) \in Nat
      /\ Cardinality(all) = Cardinality(below) + Cardinality(LoggedAbove(kept))
  BY LoggedSplit
<1>2. Cardinality(LoggedAbove(kept)) \in Nat
  BY LoggedAboveType
<1>3. depth = Cardinality(all) - 1
  BY DEF DepthCountsLoggedRecords
<1> HIDE DEF below, all
<1>4. DepthAt(kept) = Cardinality(below) - 1
  BY <1>1, <1>2, <1>3 DEF DepthAt
<1> QED
  BY <1>4 DEF below

LEMMA DepthAfterPop ==
    ASSUME TypeOK, DepthCountsLoggedRecords, NEW kept \in 0..Len(frames),
           frames' = SubSeq(frames, 1, kept), depth' = DepthAt(kept)
    PROVE  DepthCountsLoggedRecords'
<1>1. DOMAIN frames' = 1..kept /\ \A i \in 1..kept : frames'[i] = frames[i]
  BY PrefixProperty DEF TypeOK
<1>2. {i \in DOMAIN frames' : frames'[i].logged} = {i \in 1..kept : frames[i].logged}
  BY <1>1
<1> QED
  BY <1>2, DepthAtProperty DEF DepthCountsLoggedRecords

LEMMA DepthAfterBurial ==
    ASSUME TypeOK, DepthCountsLoggedRecords, NEW k,
           NEW how \in {"jumped", "unwound"},
           frames' = Buried(k, how), depth' = depth
    PROVE  DepthCountsLoggedRecords'
<1>1. /\ DOMAIN frames' = DOMAIN frames
      /\ \A i \in DOMAIN frames : frames'[i].logged = frames[i].logged
  BY BuriedProperty DEF SameRecord
<1>2. {i \in DOMAIN frames' : frames'[i].logged} = {i \in DOMAIN frames : frames[i].logged}
  BY <1>1
<1> QED
  BY <1>2 DEF DepthCountsLoggedRecords

LEMMA DepthAfterExit ==
    ASSUME TypeOK, DepthCountsLoggedRecords, real # <<>>,
           NEW tailCalled \in BOOLEAN, NEW why, ExitHook(tailCalled, why)
    PROVE  DepthCountsLoggedRecords'
<1>1. CASE overflow > 0 \/ frames = <<>>
  BY <1>1 DEF ExitHook, DepthCountsLoggedRecords
<1>2. CASE ~(overflow > 0 \/ frames = <<>>)
  <2>1. /\ frames' = SubSeq(frames, 1, ExitIndex(tailCalled) - 1)
        /\ depth' = DepthAt(ExitIndex(tailCalled) - 1)
    BY <1>2 DEF ExitHook, ExitIndex
  <2>2. ExitIndex(tailCalled) - 1 \in 0..Len(frames)
    BY <1>2, ExitIndexType, RecordType
  <2> QED
    BY <2>1, <2>2, DepthAfterPop
<1> QED
  BY <1>1, <1>2

LEMMA DepthAfterEnter ==
    ASSUME TypeOK, DepthCountsLoggedRecords,
           NEW s \in Sites, NEW o \in Outcomes, EnterRecorded(s, o)
    PROVE  DepthCountsLoggedRecords'
<1> DEFINE kept == EnterKeeps(s, o)
           record == NewRecord(Entered(s, 0), o)
           below == {i \in 1..kept : frames[i].logged}
<1>1. /\ kept \in 0..Len(frames)
      /\ DOMAIN frames' = 1..kept + 1
      /\ \A i \in 1..kept : frames'[i] = frames[i]
      /\ frames'[kept + 1] = record
      /\ depth' = DepthAt(kept) + (IF o = "logged" THEN 1 ELSE 0)
      /\ Entered(s, 0) \in Activation
  BY EnterRecordedProperty
<1>2. record.logged <=> o = "logged"
  BY <1>1, NewRecordProperty
<1> HIDE DEF kept, record
<1>3. kept \in Nat
  BY <1>1, RecordType
<1>4. IsFiniteSet(below) /\ Cardinality(below) \in Nat
  BY <1>1, LoggedSplit
<1>5. DepthAt(kept) = Cardinality(below) - 1
  BY <1>1, DepthAtProperty
<1> DEFINE all == {i \in DOMAIN frames' : frames'[i].logged}
<1>6. \A i : i \in all <=> i \in below \/ (i = kept + 1 /\ o = "logged")
  <2> SUFFICES ASSUME NEW i PROVE i \in all <=> i \in below \/ (i = kept + 1 /\ o = "logged")
    OBVIOUS
  <2>1. CASE i \in 1..kept
    <3>1. frames'[i].logged <=> frames[i].logged
      BY <1>1, <2>1
    <3>2. i \in DOMAIN frames' /\ i # kept + 1
      BY <1>1, <1>3, <2>1
    <3> QED
      BY <2>1, <3>1, <3>2
  <2>2. CASE i = kept + 1
    <3>1. i \in DOMAIN frames' /\ i \notin 1..kept
      BY <1>1, <1>3, <2>2
    <3>2. frames'[i].logged <=> o = "logged"
      BY <1>1, <1>2, <2>2
    <3> QED
      BY <2>2, <3>1, <3>2
  <2>3. CASE i \notin 1..kept /\ i # kept + 1
    <3>1. i \notin DOMAIN frames'
      BY <1>1, <1>3, <2>3
    <3> QED
      BY <2>3, <3>1
  <2> QED
    BY <2>1, <2>2, <2>3
<1>7. CASE o = "logged"
  <2>1. all = below \cup {kept + 1}
    <3> HIDE DEF all, below
    <3> QED
      BY <1>7, <1>6
  <2>2. kept + 1 \notin below
    BY <1>3
  <2> HIDE DEF below
  <2>3. Cardinality(below \cup {kept + 1}) = Cardinality(below) + 1
    BY <1>4, <2>2, FS_AddElement
  <2>4. depth' = Cardinality(all) - 1
    <3> HIDE DEF all
    <3> QED
      BY <1>1, <1>4, <1>5, <1>7, <2>1, <2>3
  <2> QED
    BY <2>4 DEF DepthCountsLoggedRecords
<1>8. CASE o # "logged"
  <2>1. all = below
    <3> HIDE DEF all, below
    <3> QED
      BY <1>8, <1>6
  <2> HIDE DEF below
  <2>2. depth' = Cardinality(all) - 1
    <3> HIDE DEF all
    <3> QED
      BY <1>1, <1>4, <1>5, <1>8, <2>1
  <2> QED
    BY <2>2 DEF DepthCountsLoggedRecords
<1> QED
  BY <1>7, <1>8

LEMMA DepthStep ==
    TypeOK /\ DepthCountsLoggedRecords /\ [Next]_vars => DepthCountsLoggedRecords'
<1> SUFFICES ASSUME TypeOK, DepthCountsLoggedRecords, [Next]_vars
             PROVE  DepthCountsLoggedRecords'
  OBVIOUS
<1>1. ASSUME NEW s \in Sites, EnterOverflowed(s) \/ EnterWithoutSlot(s)
      PROVE  DepthCountsLoggedRecords'
  BY <1>1 DEF EnterOverflowed, EnterWithoutSlot, DepthCountsLoggedRecords
<1>2. ASSUME NEW s \in Sites, NEW o \in Outcomes, EnterRecorded(s, o)
      PROVE  DepthCountsLoggedRecords'
  BY <1>2, DepthAfterEnter
<1>3. CASE Return
  <2>1. (Top.body \in TailExit) \in BOOLEAN
    OBVIOUS
  <2> QED
    BY <1>3, <2>1, DepthAfterExit DEF Return
<1>4. ASSUME NEW k \in 1..MaxDepth, Longjmp(k)
      PROVE  DepthCountsLoggedRecords'
  BY <1>4, DepthAfterBurial DEF Longjmp
<1>5. CASE UnwindFrame
  <2>1. real # <<>>
    BY <1>5, EmptySeq DEF UnwindFrame, TypeOK
  <2> QED
    BY <1>5, <2>1, DepthAfterExit, DepthAfterBurial DEF UnwindFrame
<1>6. ASSUME NEW kept \in 0..Len(frames), PopTo(kept, "!")
      PROVE  DepthCountsLoggedRecords'
  BY <1>6, DepthAfterPop DEF PopTo
<1>7. CASE Catch
  <2>1. CASE LogExceptions
    BY <1>6, <1>7, <2>1, OnCatchKeepsType DEF Catch
  <2>2. CASE ~LogExceptions
    BY <1>7, <2>2 DEF Catch, DepthCountsLoggedRecords
  <2> QED
    BY <2>1, <2>2
<1>8. CASE CatchInTerminateStub
  <2>1. \A level : KeptOnCatch(level) \in 0..Len(frames)
    BY DeadRecordsOnCatchProperty, RecordType DEF KeptOnCatch
  <2>2. PICK kept \in {KeptOnCatch(Top.level - StubDrop + 1)} \cup
                      (IF MayRunOut THEN {Len(frames)} ELSE {}) : PopTo(kept, "!")
    BY <1>8 DEF CatchInTerminateStub
  <2>3. kept \in 0..Len(frames)
    BY <2>1, <2>2, RecordType
  <2> QED
    BY <1>6, <2>2, <2>3
<1>9. CASE Throw
  BY <1>9 DEF Throw, DepthCountsLoggedRecords
<1>10. CASE UNCHANGED vars
  BY <1>10 DEF vars, DepthCountsLoggedRecords
<1> QED
  BY <1>1, <1>2, <1>3, <1>4, <1>5, <1>7, <1>8, <1>9, <1>10 DEF Next, Enter

(***************************************************************************)
(* Whatever sequence of enters, exits, longjmps and unwinds, the depth the *)
(* next line is indented by is the number of logged records less one.      *)
(***************************************************************************)
THEOREM DepthIsExact == Spec => []DepthCountsLoggedRecords
<1>1. Init => DepthCountsLoggedRecords
  <2> SUFFICES ASSUME Init PROVE DepthCountsLoggedRecords
    OBVIOUS
  <2>1. {i \in DOMAIN frames : frames[i].logged} = {}
    BY DEF Init
  <2> QED
    BY <2>1, FS_EmptySet DEF Init, DepthCountsLoggedRecords
<1> QED
  BY <1>1, TypeCorrect, DepthStep, PTL DEF Spec

-------------------------------------------------------------------------------
(***************************************************************************)
(* A program all of whose frames leave through their exit hook: nothing    *)
(* jumps, and nothing throws or GCC's unwinding calls the hooks.           *)
(***************************************************************************)
EveryFrameRunsItsExit ==
    /\ JumpTargets = {}
    /\ Compiler = "gcc" \/ ~Throws

\* No record is left behind.
EveryRecordIsLive ==
    \A i \in 1..Len(frames) : \E j \in 1..Len(real) : real[j].rec = i

(***************************************************************************)
(* `outer' gives the physical function a body is inlined into, `nesting'   *)
(* how deep.  Equal addresses have equal names, and a call site's parent   *)
(* name, when known, is that of the innermost function around it.  Within  *)
(* one physical function a name must not appear and disappear: whatever    *)
(* shares its base name with a function that may be logged is always       *)
(* logged itself.  Only a function with no namesake but itself may be      *)
(* logged now and then, where no record of an earlier, unfinished call can *)
(* be left below its own.                                                  *)
(***************************************************************************)
RetriesAreReclaimed(outer, b) ==
    \/ EveryFrameRunsItsExit
    \* `b' is alone in its physical frame, and its chain is always read.
    \/ /\ \A c \in Bodies : outer[c] = outer[b] => c = b
       /\ b \in Dwarf /\ "chain_failed" \notin LogOutcomes[b]

NamesTellFramesApart(outer, nesting) ==
    /\ nesting \in [Bodies -> Nat]
    /\ \A s \in Sites :
         /\ Kind[s] = "inline" => /\ outer[Target[s]] = outer[Host[s]]
                                  /\ nesting[Host[s]] < nesting[Target[s]]
                                  /\ Fn[Target[s]] = Fn[Host[s]] =>
                                       BaseName[Target[s]] = BaseName[Host[s]]
         /\ Kind[s] = "call" => Parent[s] \in {NoName, BaseName[Host[s]]}
    /\ \A b, c \in Bodies :
         /\ outer[b] = outer[c] /\ BaseName[b] = BaseName[c]
         /\ "logged" \in LogOutcomes[b]
         => \/ LogOutcomes[c] = {"logged"}
            \/ b = c /\ RetriesAreReclaimed(outer, b)

SingleStack == \A s \in Sites : Kind[s] # "signal"

(***************************************************************************)
(* A tail-called exit searches by level alone and cannot skip records of   *)
(* another stack; a catch reclaims by name even while the innermost frame  *)
(* has no record, which takes an inlined frame to go wrong.                *)
(***************************************************************************)
InlinedBodies == {Target[s] : s \in {t \in Sites : Kind[t] = "inline"}}

ExitsAndCatchesAreSafe ==
    /\ TailExit = {} \/ SingleStack
    /\ ~LogExceptions \/ ~MayRunOut \/ InlinedBodies \cap Dwarf = {}
-------------------------------------------------------------------------------
(***************************************************************************)
(* The inductive invariant.                                                *)
(***************************************************************************)
\* On the thread's stack the live frames go down, and share a level only
\* within one physical frame.
LiveFramesGoDown ==
    \A i, j \in 1..Len(real) :
      i < j /\ OnThreadStack(real[j].level) =>
        /\ OnThreadStack(real[i].level)
        /\ real[j].level <= real[i].level
        /\ real[j].level = real[i].level => real[j].caller = real[i].caller

\* A frame without a record is paid for by the overflow counter.
UntrackedFramesCounted ==
    /\ \A j \in 1..Len(real) : real[j].rec = 0 => Len(real) - j < overflow
    /\ ~MayRunOut => overflow = 0

\* A stretch of records on the thread's stack goes down in the same way.
RecordsGoDown ==
    \A i, k \in 1..Len(frames) :
      i < k /\ (\A m \in i..k : OnThreadStack(frames[m].level)) =>
        /\ frames[k].level <= frames[i].level
        /\ frames[k].level = frames[i].level => frames[k].caller = frames[i].caller

\* The records above a live frame's are its descendants'.
RecordsAboveLiveGoDown ==
    \A j \in 1..Len(real), i \in 1..Len(frames) :
      /\ real[j].rec # 0 /\ real[j].rec < i
      /\ OnThreadStack(real[j].level) /\ OnThreadStack(frames[i].level)
      => /\ frames[i].level <= real[j].level
         /\ frames[i].level = real[j].level => frames[i].caller = real[j].caller

\* A record's call site tells the physical function it was made in.
MadeBy(record, b) ==
    /\ record.callee = Fn[b]
    /\ record.name # NoName => record.name = BaseName[b] /\ "logged" \in LogOutcomes[b]

NamesComeFromCallers(outer) ==
    /\ \A i \in 1..Len(frames) :
         \E b \in Bodies : /\ MadeBy(frames[i], b)
                           /\ outer[b] = outer[Target[frames[i].caller]]
    /\ \A j \in 1..Len(real) :
         /\ outer[real[j].body] = outer[Target[real[j].caller]]
         /\ real[j].rec # 0 => MadeBy(frames[real[j].rec], real[j].body)

\* Where a record below a live frame's, in its physical frame, has its base
\* name, the live frame's own record has it too.
OwnNamesFirst ==
    \A j \in 1..Len(real), m \in 1..Len(frames) :
      /\ real[j].rec # 0 /\ m < real[j].rec
      /\ OnThreadStack(real[j].level)
      /\ \A i \in m..real[j].rec : frames[i].level = real[j].level
      /\ frames[m].caller = real[j].caller
      /\ frames[m].name # NoName /\ frames[m].name = BaseName[real[j].body]
      => frames[real[j].rec].name = frames[m].name

\* Without signal handlers everything is on the thread's stack, and whoever
\* is below a frame with a tail-called exit is at its caller's level or above.
TailCallersAbove ==
    SingleStack =>
      /\ \A j \in 1..Len(real) : OnThreadStack(real[j].level)
      /\ \A i \in 1..Len(frames) : OnThreadStack(frames[i].level)
      /\ \A i, j \in 1..Len(real) :
           i < j /\ real[j].body \in TailExit =>
             real[j].level + Up[real[j].caller] <= real[i].level

\* A frame at the level of one below it was inlined into it.
SharedLevelsAreInlined(nesting) ==
    \A i, j \in 1..Len(real) :
      i < j /\ OnThreadStack(real[j].level) /\ real[i].level = real[j].level =>
        /\ real[j].body \in InlinedBodies
        /\ nesting[real[i].body] < nesting[real[j].body]

LiveInv(outer, nesting) ==
    /\ LiveRecordsKept
    /\ LiveFramesGoDown
    /\ UntrackedFramesCounted
    /\ RecordsGoDown
    /\ RecordsAboveLiveGoDown
    /\ NamesComeFromCallers(outer)
    /\ OwnNamesFirst
    /\ TailCallersAbove
    /\ SharedLevelsAreInlined(nesting)
-------------------------------------------------------------------------------
LEMMA LiveType ==
    ASSUME TypeOK
    PROVE  /\ Len(real) \in Nat /\ DOMAIN real = 1..Len(real)
           /\ \A j \in 1..Len(real) :
                /\ real[j].body \in Bodies /\ real[j].caller \in Sites
                /\ real[j].level \in Int /\ real[j].rec \in Nat
<1>1. \A j \in 1..Len(real) : real[j] \in Activation
  BY ElementOfSeq DEF TypeOK
<1> QED
  BY <1>1, LenProperties DEF TypeOK, Activation

LEMMA LiveRecord ==
    ASSUME TypeOK, LiveRecordsKept, NEW j \in 1..Len(real), real[j].rec # 0
    PROVE  /\ real[j].rec \in 1..Len(frames)
           /\ frames[real[j].rec].callee = Fn[real[j].body]
           /\ frames[real[j].rec].caller = real[j].caller
           /\ frames[real[j].rec].level = real[j].level
           /\ frames[real[j].rec].fate = "live"
           /\ \A i \in 1..j - 1 : real[i].rec < real[j].rec
<1> DEFINE r == frames[real[j].rec]
<1>1. j \in DOMAIN real /\ DOMAIN frames = 1..Len(frames)
  BY LiveType, RecordType
<1>2. /\ real[j].rec \in DOMAIN frames
      /\ SameActivationSite(r, KeyOf(real[j]))
      /\ r.level = real[j].level /\ r.fate = "live"
      /\ \A i \in 1..j - 1 : real[i].rec < real[j].rec
  BY <1>1 DEF LiveRecordsKept
<1>3. r.callee = Fn[real[j].body] /\ r.caller = real[j].caller
  BY <1>2 DEF SameActivationSite, KeyOf, KeyAt
<1> QED
  BY <1>1, <1>2, <1>3

\* A hook that spares the innermost frame's record spares every live one.
LEMMA TopRecordIsHighest ==
    ASSUME TypeOK, LiveRecordsKept, real # <<>>, Top.rec # 0,
           NEW j \in 1..Len(real)
    PROVE  real[j].rec <= Top.rec
<1>1. Len(real) \in 1..Len(real) /\ Top = real[Len(real)]
  BY TopType
<1>2. j # Len(real) => j \in 1..Len(real) - 1
  <2>1. Len(real) \in Nat
    BY LiveType
  <2> QED
    BY <2>1
<1>3. j # Len(real) => real[j].rec < Top.rec
  BY <1>1, <1>2, LiveRecord
<1>4. real[j].rec \in Nat /\ Top.rec \in Nat
  BY <1>1, LiveType
<1>5. CASE j = Len(real)
  BY <1>1, <1>4, <1>5
<1>6. CASE j # Len(real)
  BY <1>3, <1>4, <1>6
<1> QED
  BY <1>5, <1>6

(***************************************************************************)
(* The name rule, applied to the innermost frame's own name, spares its    *)
(* record: when a record of the group below it has that name, its own has  *)
(* it too and matches first.                                               *)
(***************************************************************************)
LEMMA MatchKeepsTop ==
    ASSUME TypeOK, NEW outer, NEW nesting, LiveInv(outer, nesting),
           real # <<>>, Top.rec # 0, OnThreadStack(Top.level),
           NEW count \in Top.rec..Len(frames)
    PROVE  Top.rec <= count - DeadRecordsAboveMatch(frames, count, Top.level,
                                                    BaseName[Top.body])
<1> DEFINE base == BaseName[Top.body]
           d == DeadRecordsAboveMatch(frames, count, Top.level, base)
           R == Top.rec
           m == count - d
<1>1. Len(real) \in 1..Len(real) /\ Top = real[Len(real)] /\ Top \in Activation
  BY TopType
<1>2. /\ R \in 1..Len(frames)
      /\ frames[R].caller = Top.caller /\ frames[R].level = Top.level
  <2>1. LiveRecordsKept
    BY DEF LiveInv
  <2> QED
    BY <1>1, <2>1, LiveRecord
<1>3. Len(frames) \in Nat /\ count \in Nat
  BY <1>2, RecordType
<1>4. /\ d \in 0..count
      /\ \A i \in count - d + 1 .. count :
           frames[i].level = Top.level /\ ~RecordHasBaseName(frames[i], base)
      /\ d > 0 => /\ count - d \in 1..count
                  /\ frames[count - d].level = Top.level
                  /\ RecordHasBaseName(frames[count - d], base)
  <2>1. count \in Nat
    BY <1>3
  <2> HIDE DEF base
  <2> QED
    BY <2>1, DeadRecordsAboveMatchProperty, Zenon
<1> HIDE DEF d
<1> SUFFICES ASSUME R > m PROVE FALSE
  BY <1>2, <1>3, <1>4 DEF d
<1>5. R \in m + 1 .. count /\ d > 0 /\ m \in 1..Len(frames) /\ m < R
  BY <1>2, <1>3, <1>4
<1>6. ~RecordHasBaseName(frames[R], base) /\ RecordHasBaseName(frames[m], base)
  BY <1>4, <1>5
<1>7. \A i \in m..R : frames[i].level = Top.level
  <2> SUFFICES ASSUME NEW i \in m..R PROVE frames[i].level = Top.level
    OBVIOUS
  <2>1. i = m \/ i \in count - d + 1 .. count
    BY <1>3, <1>4, <1>5
  <2> QED
    BY <1>4, <1>5, <2>1
<1>8. frames[m].caller = Top.caller
  <2>1. frames[m].level = frames[R].level /\ frames[R].level = Top.level
    BY <1>2, <1>4, <1>5
  <2>2. \A i \in m..R : OnThreadStack(frames[i].level)
    BY <1>7
  <2> HIDE DEF m, R
  <2>3. frames[R].level = frames[m].level => frames[R].caller = frames[m].caller
    BY <1>2, <1>5, <2>2 DEF LiveInv, RecordsGoDown
  <2> QED
    BY <1>2, <2>1, <2>3
<1>9. frames[m].name = base /\ base # NoName /\ frames[m].name # NoName
  BY <1>6 DEF RecordHasBaseName
<1>10. OwnNamesFirst
  BY DEF LiveInv
<1>11. \A i \in m..R : frames[i].level = real[Len(real)].level
  BY <1>1, <1>7
<1> HIDE DEF m, R
<1>12. frames[R].name = base
  BY <1>1, <1>5, <1>8, <1>9, <1>10, <1>11 DEF OwnNamesFirst, R
<1> QED
  BY <1>6, <1>9, <1>12 DEF RecordHasBaseName
-------------------------------------------------------------------------------
(***************************************************************************)
(* An enter: what it keeps.                                                *)
(***************************************************************************)
EnteredKey(s) == KeyOf(Entered(s, 0))

LEMMA EnteredKeyProperty ==
    ASSUME NEW s \in Sites
    PROVE  /\ EnteredKey(s).callee = Fn[Target[s]]
           /\ EnteredKey(s).caller = EnteredCaller(s)
           /\ EnteredKey(s).level = EnteredLevel(s)
  BY DEF EnteredKey, KeyOf, KeyAt, Entered

LEMMA EnteredKeyType ==
    ASSUME TypeOK, NEW s \in Sites, CanEnter(s)
    PROVE  EnteredKey(s).level \in Int /\ EnteredKey(s).caller \in Sites
<1>1. Entered(s, 0) \in Activation
  BY EnteredType
<1>2. EnteredLevel(s) \in Int /\ EnteredCaller(s) \in Sites
  BY <1>1 DEF Entered, Activation
<1> QED
  BY <1>2, EnteredKeyProperty

\* A frame entered on the thread's stack by a live frame.
LEMMA EnteredBelowTop ==
    ASSUME TypeOK, NEW s \in Sites, CanEnter(s), real # <<>>,
           OnThreadStack(EnteredKey(s).level)
    PROVE  /\ Kind[s] \in {"call", "inline"} /\ Top.body = Host[s]
           /\ OnThreadStack(Top.level)
           /\ Kind[s] = "inline" => /\ EnteredKey(s).level = Top.level
                                    /\ EnteredKey(s).caller = Top.caller
           /\ Kind[s] = "call" => /\ EnteredKey(s).level < Top.level
                                  /\ EnteredKey(s).level + Up[s] <= Top.level
                                  /\ EnteredKey(s).caller = s
<1>1. Top.level \in Int
  BY TopType DEF Activation
<1>2. Kind[s] # "signal"
  BY EnteredKeyProperty, ProgramAssumption DEF EnteredLevel
<1>3. Kind[s] \in {"call", "inline"} /\ Top.body = Host[s]
  BY <1>2 DEF CanEnter
<1>4. CASE Kind[s] = "inline"
  BY <1>3, <1>4, EnteredKeyProperty DEF EnteredLevel, EnteredCaller
<1>5. CASE Kind[s] = "call"
  <2>1. EnteredKey(s).level = Top.level - Drop[s] /\ EnteredKey(s).caller = s
    BY <1>5, EnteredKeyProperty DEF EnteredLevel, EnteredCaller
  <2>2. Up[s] \in 1..Drop[s] /\ Drop[s] \in Nat
    BY <1>5, ProgramAssumption
  <2>3. OnThreadStack(Top.level)
    BY <1>5, <2>1 DEF CanEnter
  <2> QED
    BY <1>1, <1>3, <1>5, <2>1, <2>2, <2>3
<1> QED
  BY <1>3, <1>4, <1>5

LEMMA LevelKeepsTop ==
    ASSUME TypeOK, NEW outer, NEW nesting, LiveInv(outer, nesting),
           NEW s \in Sites, CanEnter(s),
           real # <<>>, Top.rec # 0
    PROVE  Top.rec <= KeptByLevel(EnteredKey(s))
<1> DEFINE key == EnteredKey(s)
           d == DeadRecordsOnEnter(frames, Len(frames), key)
           R == Top.rec
<1>1. /\ R \in 1..Len(frames) /\ Len(frames) \in Nat
      /\ frames[R].caller = Top.caller /\ frames[R].level = Top.level
  <2>1. LiveRecordsKept /\ Len(real) \in 1..Len(real) /\ Top = real[Len(real)]
    BY TopType DEF LiveInv
  <2> QED
    BY <2>1, LiveRecord, RecordType
<1>2. /\ d \in 0..Len(frames)
      /\ \A i \in Len(frames) - d + 1 .. Len(frames) :
           /\ OnThreadStack(key.level)
           /\ \/ frames[i].level < key.level
              \/ /\ frames[i].level = key.level
                 /\ frames[i].caller # key.caller
  <2> HIDE DEF key
  <2> QED
    BY <1>1, DeadRecordsOnEnterProperty
<1>3. KeptByLevel(key) = Len(frames) - d
  BY DEF KeptByLevel
<1>4. Top.level \in Int
  BY TopType DEF Activation
<1>5. ASSUME R \in Len(frames) - d + 1 .. Len(frames) PROVE FALSE
  <2>1. OnThreadStack(key.level)
    BY <1>2, <1>5
  <2>2. /\ Kind[s] \in {"call", "inline"}
        /\ Kind[s] = "inline" => key.level = Top.level /\ key.caller = Top.caller
        /\ Kind[s] = "call" => key.level < Top.level
    BY <2>1, EnteredBelowTop
  <2>3. key.level \in Int
    BY EnteredKeyType
  <2> HIDE DEF key, d, R
  <2> QED
    BY <1>1, <1>2, <1>4, <1>5, <2>2, <2>3
<1> HIDE DEF key, d, R
<1>6. R <= KeptByLevel(key)
  BY <1>1, <1>2, <1>3, <1>5
<1> QED
  BY <1>6 DEF key, R

LEMMA ChainKeepsTop ==
    ASSUME TypeOK, NEW outer, NEW nesting, NamesTellFramesApart(outer, nesting),
           LiveInv(outer, nesting),
           NEW s \in Sites, CanEnter(s), real # <<>>, Top.rec # 0,
           NEW count \in Top.rec..Len(frames)
    PROVE  Top.rec <= KeptByChain(count, EnteredKey(s), s)
<1> DEFINE key == EnteredKey(s)
           R == Top.rec
           host == BaseName[Host[s]]
           again == {i \in 1..count : /\ SameActivationSite(frames[i], key)
                                      /\ frames[i].level = key.level}
           recursiveInline == Kind[s] = "inline" /\ BaseName[Target[s]] = host
           retried == IF recursiveInline THEN count
                      ELSE count - TopRun(count, again)
<1>1. /\ R \in 1..Len(frames) /\ Len(frames) \in Nat /\ count \in Nat /\ R <= count
      /\ frames[R].callee = Fn[Top.body]
      /\ frames[R].caller = Top.caller /\ frames[R].level = Top.level
  <2>1. LiveRecordsKept /\ Len(real) \in 1..Len(real) /\ Top = real[Len(real)]
    BY TopType DEF LiveInv
  <2>2. /\ R \in 1..Len(frames) /\ Len(frames) \in Nat
        /\ frames[R].callee = Fn[Top.body]
        /\ frames[R].caller = Top.caller /\ frames[R].level = Top.level
    BY <2>1, LiveRecord, RecordType
  <2> QED
    BY <2>2
<1>2. CASE ~OnThreadStack(key.level)
  <2>1. KeptByChain(count, key, s) = count
    BY <1>2 DEF KeptByChain
  <2> QED
    BY <1>1, <2>1
<1>3. CASE OnThreadStack(key.level)
  <2>1. /\ Kind[s] \in {"call", "inline"} /\ Top.body = Host[s]
        /\ OnThreadStack(Top.level)
        /\ Kind[s] = "inline" => key.level = Top.level
        /\ Kind[s] = "call" => key.level < Top.level
    BY <1>3, EnteredBelowTop
  <2>2. key.level \in Int /\ Top.level \in Int
    BY EnteredKeyType, TopType DEF Activation
  <2>3. key.callee = Fn[Target[s]]
    BY EnteredKeyProperty
  <2>4. R <= retried /\ retried \in 0..count
    <3>1. CASE recursiveInline
      BY <1>1, <3>1
    <3>2. CASE ~recursiveInline
      <4>1. again \in SUBSET (1..count)
        OBVIOUS
      <4>2. /\ TopRun(count, again) \in 0..count
            /\ \A i \in count - TopRun(count, again) + 1 .. count : i \in again
        <5> HIDE DEF again
        <5> QED
          BY <1>1, <4>1, TopRunProperty
      <4>3. R \notin again
        <5> SUFFICES ASSUME SameActivationSite(frames[R], key),
                            frames[R].level = key.level
                     PROVE  FALSE
          OBVIOUS
        <5>1. Kind[s] = "inline"
          <6> HIDE DEF key
          <6> QED
            BY <1>1, <2>1, <2>2
        <5>2. Fn[Target[s]] = Fn[Host[s]]
          BY <1>1, <2>1, <2>3 DEF SameActivationSite
        <5>3. BaseName[Target[s]] = BaseName[Host[s]]
          BY <5>1, <5>2 DEF NamesTellFramesApart
        <5> QED
          BY <3>2, <5>1, <5>3
      <4>4. retried = count - TopRun(count, again)
        BY <3>2
      <4>5. R \notin count - TopRun(count, again) + 1 .. count
        BY <4>2, <4>3
      <4> HIDE DEF again, R, retried
      <4> QED
        BY <1>1, <4>2, <4>4, <4>5
    <3> QED
      BY <3>1, <3>2
  <2> HIDE DEF retried
  <2>5. Kind[s] = "inline" =>
          R <= retried - DeadRecordsAboveMatch(frames, retried, key.level, host)
    <3> SUFFICES ASSUME Kind[s] = "inline"
                 PROVE  R <= retried - DeadRecordsAboveMatch(frames, retried,
                                                             key.level, host)
      OBVIOUS
    <3>1. retried \in Top.rec..Len(frames)
      BY <1>1, <2>4
    <3>2. key.level = Top.level /\ host = BaseName[Top.body]
      BY <2>1
    <3> QED
      BY <2>1, <3>1, <3>2, MatchKeepsTop
  <2>6. KeptByChain(count, key, s) \in
          {count, retried} \cup
          (IF Kind[s] = "inline"
           THEN {retried - DeadRecordsAboveMatch(frames, retried, key.level, host)}
           ELSE {})
    BY DEF KeptByChain, retried
  <2> HIDE DEF key, R, host
  <2>7. R <= KeptByChain(count, key, s)
    BY <1>1, <2>4, <2>5, <2>6
  <2> QED
    BY <2>7 DEF key, R
<1> QED
  BY <1>2, <1>3

LEMMA ParentKeepsTop ==
    ASSUME TypeOK, NEW outer, NEW nesting, NamesTellFramesApart(outer, nesting),
           LiveInv(outer, nesting),
           NEW s \in Sites, CanEnter(s), real # <<>>, Top.rec # 0,
           NEW count \in Top.rec..Len(frames)
    PROVE  Top.rec <= KeptByParent(count, EnteredKey(s))
<1> DEFINE key == EnteredKey(s)
           R == Top.rec
           L == frames[count].level
           parent == Parent[key.caller]
           d == DeadRecordsAboveMatch(frames, count, L, parent)
<1>1. /\ R \in 1..Len(frames) /\ Len(frames) \in Nat /\ R <= count
      /\ count \in 1..Len(frames)
      /\ frames[R].caller = Top.caller /\ frames[R].level = Top.level
  <2>1. LiveRecordsKept /\ Len(real) \in 1..Len(real) /\ Top = real[Len(real)]
    BY TopType DEF LiveInv
  <2>2. /\ R \in 1..Len(frames) /\ Len(frames) \in Nat
        /\ frames[R].caller = Top.caller /\ frames[R].level = Top.level
    BY <2>1, LiveRecord, RecordType
  <2> QED
    BY <2>2
<1> DEFINE applies == /\ parent # NoName /\ L > key.level
                      /\ OnThreadStack(L) /\ OnThreadStack(key.level)
<1>2. CASE ~applies
  <2>1. KeptByParent(count, key) = count
    BY <1>2 DEF KeptByParent
  <2> QED
    BY <1>1, <2>1
<1>3. CASE applies
  <2>1. KeptByParent(count, key) \in {count, count - d}
    BY DEF KeptByParent
  <2>2. /\ Kind[s] \in {"call", "inline"} /\ Top.body = Host[s]
        /\ OnThreadStack(Top.level)
        /\ Kind[s] = "inline" => key.level = Top.level
        /\ Kind[s] = "call" => key.caller = s
    BY <1>3, EnteredBelowTop
  <2>3. L <= Top.level
    <3>1. L \in Int /\ Top.level \in Int
      BY <1>1, RecordType, TopType DEF Activation
    <3>2. CASE count = R
      BY <1>1, <3>1, <3>2
    <3>3. CASE count > R
      <4>1. Len(real) \in 1..Len(real) /\ Top = real[Len(real)]
        BY TopType
      <4> QED
        BY <1>1, <1>3, <2>2, <3>3, <4>1 DEF LiveInv, RecordsAboveLiveGoDown
    <3> QED
      BY <1>1, <3>2, <3>3
  <2>4. Kind[s] = "call"
    <3>1. L \in Int /\ key.level \in Int
      BY <1>1, RecordType, EnteredKeyType
    <3> HIDE DEF L, key
    <3>2. L > key.level
      BY <1>3
    <3> QED
      BY <2>2, <2>3, <3>1, <3>2
  <2>5. parent = BaseName[Top.body]
    BY <1>3, <2>2, <2>4 DEF NamesTellFramesApart
  <2>6. CASE L = Top.level
    <3>1. R <= count - d
      BY <1>1, <2>2, <2>5, <2>6, MatchKeepsTop
    <3> HIDE DEF R, d, key
    <3>2. R <= KeptByParent(count, key)
      BY <1>1, <2>1, <3>1
    <3> QED
      BY <3>2 DEF R, key
  <2>7. CASE L # Top.level
    <3>1. d \in 0..count /\ \A i \in count - d + 1 .. count : frames[i].level = L
      <4>1. count \in Nat
        BY <1>1
      <4> HIDE DEF parent, L
      <4> QED
        BY <4>1, DeadRecordsAboveMatchProperty
    <3>2. R \notin count - d + 1 .. count
      BY <1>1, <2>7, <3>1
    <3> HIDE DEF R, d, key, L
    <3>3. R <= KeptByParent(count, key)
      BY <1>1, <2>1, <3>1, <3>2
    <3> QED
      BY <3>3 DEF R, key
  <2> QED
    BY <2>6, <2>7
<1> QED
  BY <1>2, <1>3

LEMMA EnterKeepsTop ==
    ASSUME TypeOK, NEW outer, NEW nesting, NamesTellFramesApart(outer, nesting),
           LiveInv(outer, nesting),
           NEW s \in Sites, CanEnter(s), NEW o, real # <<>>, Top.rec # 0
    PROVE  Top.rec <= EnterKeeps(s, o)
<1> DEFINE key == EnteredKey(s)
           byLevel == KeptByLevel(key)
           byChain == KeptByChain(byLevel, key, s)
           byParent == KeptByParent(byChain, key)
<1>1. Top.rec \in Nat /\ Len(frames) \in Nat
  BY TopType, RecordType DEF Activation
<1>2. byLevel \in 0..Len(frames) /\ Top.rec <= byLevel
  BY LevelKeepsTop, KeptOnEnterType
<1>3. byLevel \in Top.rec..Len(frames)
  <2> HIDE DEF byLevel
  <2> QED
    BY <1>1, <1>2
<1>4. byChain \in 0..byLevel /\ Top.rec <= byChain
  <2> HIDE DEF byLevel
  <2> QED
    BY <1>2, <1>3, KeptByChainType, ChainKeepsTop
<1>5. byChain \in Top.rec..Len(frames)
  <2> HIDE DEF byLevel, byChain
  <2> QED
    BY <1>1, <1>2, <1>4
<1>6. Top.rec <= byParent
  <2> HIDE DEF byChain
  <2> QED
    BY <1>5, ParentKeepsTop
<1>7. EnterKeeps(s, o) \in {byLevel, byChain, byParent}
  BY DEF EnterKeeps, KeptOnEnter, EnteredKey
<1> HIDE DEF byLevel, byChain, byParent
<1> QED
  BY <1>2, <1>4, <1>6, <1>7

(***************************************************************************)
(* The record on top of what an enter keeps is not below the new one.      *)
(***************************************************************************)
Fits(count, key) ==
    count > 0 /\ OnThreadStack(key.level) /\ OnThreadStack(frames[count].level) =>
      /\ key.level <= frames[count].level
      /\ key.level = frames[count].level => key.caller = frames[count].caller

LEMMA LevelFits ==
    ASSUME TypeOK, NEW key, key.level \in Int
    PROVE  Fits(KeptByLevel(key), key)
<1> DEFINE d == DeadRecordsOnEnter(frames, Len(frames), key)
           top == Len(frames) - d
<1>1. Len(frames) \in Nat
  BY RecordType
<1>2. /\ d \in 0..Len(frames)
      /\ d < Len(frames) /\ OnThreadStack(key.level) =>
           ~(/\ OnThreadStack(frames[top].level)
             /\ \/ frames[top].level < key.level
                \/ /\ frames[top].level = key.level
                   /\ frames[top].caller # key.caller)
  BY <1>1, DeadRecordsOnEnterProperty
<1>3. KeptByLevel(key) = top
  BY DEF KeptByLevel
<1> HIDE DEF d
<1>4. top > 0 => top \in 1..Len(frames) /\ d < Len(frames)
  BY <1>1, <1>2
<1>5. top > 0 => frames[top].level \in Int
  BY <1>4, RecordType
<1> HIDE DEF top
<1> QED
  BY <1>2, <1>3, <1>4, <1>5 DEF Fits, top

LEMMA PopFits ==
    ASSUME TypeOK, RecordsGoDown, NEW key, key.level \in Int,
           NEW count \in 0..Len(frames), Fits(count, key), NEW d \in 0..count,
           \A i \in count - d + 1 .. count : OnThreadStack(frames[i].level)
    PROVE  Fits(count - d, key)
<1> DEFINE top == count - d
<1>1. Len(frames) \in Nat
  BY RecordType
<1> SUFFICES ASSUME top > 0, OnThreadStack(key.level), OnThreadStack(frames[top].level),
                    d > 0
             PROVE  /\ key.level <= frames[top].level
                    /\ key.level = frames[top].level => key.caller = frames[top].caller
  <2>1. d = 0 => count - d = count
    BY <1>1
  <2> QED
    BY <1>1, <2>1 DEF Fits
<1>2. top \in 1..Len(frames) /\ count \in 1..Len(frames) /\ top < count
  BY <1>1
<1>3. \A i \in top..count : OnThreadStack(frames[i].level)
  <2>1. \A i \in top..count : i = top \/ i \in count - d + 1 .. count
    BY <1>1
  <2> QED
    BY <2>1
<1>4. frames[top].level \in Int /\ frames[count].level \in Int
  BY <1>2, RecordType
<1> HIDE DEF top
<1>5. /\ frames[count].level <= frames[top].level
      /\ frames[count].level = frames[top].level =>
           frames[count].caller = frames[top].caller
  BY <1>2, <1>3 DEF RecordsGoDown
<1>6. OnThreadStack(frames[count].level) /\ count > 0
  BY <1>1, <1>2, <1>3
<1>7. /\ key.level <= frames[count].level
      /\ key.level = frames[count].level => key.caller = frames[count].caller
  BY <1>6 DEF Fits
<1> QED
  BY <1>4, <1>5, <1>7

LEMMA ChainFits ==
    ASSUME TypeOK, RecordsGoDown, NEW key, key.level \in Int, NEW s \in Sites,
           NEW count \in 0..Len(frames), Fits(count, key)
    PROVE  Fits(KeptByChain(count, key, s), key)
<1> DEFINE host == BaseName[Host[s]]
           again == {i \in 1..count : /\ SameActivationSite(frames[i], key)
                                      /\ frames[i].level = key.level}
           run == TopRun(count, again)
           retried == IF Kind[s] = "inline" /\ BaseName[Target[s]] = host
                      THEN count ELSE count - run
           d == DeadRecordsAboveMatch(frames, retried, key.level, host)
<1>1. CASE ~OnThreadStack(key.level)
  BY <1>1 DEF Fits
<1>2. CASE OnThreadStack(key.level)
  <2>1. count \in Nat /\ Len(frames) \in Nat
    BY RecordType
  <2>2. run \in 0..count /\ \A i \in count - run + 1 .. count : i \in again
    <3>1. again \in SUBSET (1..count)
      OBVIOUS
    <3> HIDE DEF again
    <3> QED
      BY <2>1, <3>1, TopRunProperty
  <2>3. \A i \in count - run + 1 .. count : OnThreadStack(frames[i].level)
    BY <1>2, <2>2
  <2> HIDE DEF run
  <2>4. Fits(count - run, key)
    BY <2>2, <2>3, PopFits
  <2>5. retried \in 0..Len(frames) /\ Fits(retried, key)
    BY <2>1, <2>2, <2>4
  <2> HIDE DEF retried
  <2>6. d \in 0..retried
        /\ \A i \in retried - d + 1 .. retried : frames[i].level = key.level
    <3>1. retried \in Nat
      BY <2>5
    <3> HIDE DEF host
    <3> QED
      BY <3>1, DeadRecordsAboveMatchProperty
  <2> HIDE DEF d
  <2>7. Fits(retried - d, key)
    BY <1>2, <2>5, <2>6, PopFits
  <2>8. KeptByChain(count, key, s) \in {count, retried, retried - d}
    BY DEF KeptByChain, retried, run, d
  <2> QED
    BY <2>5, <2>7, <2>8
<1> QED
  BY <1>1, <1>2

LEMMA ParentFits ==
    ASSUME TypeOK, RecordsGoDown, NEW key, key.level \in Int,
           NEW count \in 0..Len(frames), Fits(count, key)
    PROVE  Fits(KeptByParent(count, key), key)
<1> DEFINE L == frames[count].level
           d == DeadRecordsAboveMatch(frames, count, L, Parent[key.caller])
<1>1. CASE ~OnThreadStack(L)
  <2>1. KeptByParent(count, key) = count
    BY <1>1 DEF KeptByParent
  <2> QED
    BY <2>1
<1>2. CASE OnThreadStack(L)
  <2>1. d \in 0..count /\ \A i \in count - d + 1 .. count : frames[i].level = L
    <3>1. count \in Nat
      BY RecordType
    <3> HIDE DEF L
    <3> QED
      BY <3>1, DeadRecordsAboveMatchProperty
  <2>2. KeptByParent(count, key) \in {count, count - d}
    BY DEF KeptByParent
  <2> HIDE DEF d, L
  <2>3. Fits(count - d, key)
    BY <1>2, <2>1, PopFits
  <2> QED
    BY <2>2, <2>3
<1> QED
  BY <1>1, <1>2

LEMMA EnterFits ==
    ASSUME TypeOK, RecordsGoDown, NEW s \in Sites, CanEnter(s), NEW o
    PROVE  Fits(EnterKeeps(s, o), EnteredKey(s))
<1> DEFINE key == EnteredKey(s)
           byLevel == KeptByLevel(key)
           byChain == KeptByChain(byLevel, key, s)
           byParent == KeptByParent(byChain, key)
<1>1. key.level \in Int /\ Len(frames) \in Nat
  BY EnteredKeyType, RecordType
<1> HIDE DEF key
<1>2. byLevel \in 0..Len(frames) /\ Fits(byLevel, key)
  BY <1>1, KeptOnEnterType, LevelFits
<1>3. byChain \in 0..byLevel /\ Fits(byChain, key)
  <2> HIDE DEF byLevel
  <2> QED
    BY <1>1, <1>2, KeptByChainType, ChainFits
<1>4. byChain \in 0..Len(frames)
  <2> HIDE DEF byLevel, byChain
  <2> QED
    BY <1>1, <1>2, <1>3
<1>5. Fits(byParent, key)
  <2> HIDE DEF byChain
  <2> QED
    BY <1>1, <1>3, <1>4, ParentFits
<1>6. EnterKeeps(s, o) \in {byLevel, byChain, byParent}
  BY DEF EnterKeeps, KeptOnEnter, EnteredKey, key
<1> HIDE DEF byLevel, byChain, byParent
<1> QED
  BY <1>2, <1>3, <1>5, <1>6 DEF key
-------------------------------------------------------------------------------
(***************************************************************************)
(* An exit and a catch: what they keep.                                    *)
(***************************************************************************)
LEMMA AllTracked ==
    ASSUME TypeOK, UntrackedFramesCounted, overflow = 0, NEW j \in 1..Len(real)
    PROVE  real[j].rec # 0
<1>1. Len(real) \in Nat
  BY LiveType
<1>2. ~(Len(real) - j < overflow)
  BY <1>1
<1> QED
  BY <1>2 DEF UntrackedFramesCounted

LEMMA ExitKeepsLive ==
    ASSUME TypeOK, NEW outer, NEW nesting, LiveInv(outer, nesting),
           ExitsAndCatchesAreSafe,
           real # <<>>, frames # <<>>, overflow = 0, NEW tailCalled \in BOOLEAN,
           tailCalled => Top.body \in TailExit,
           NEW j \in 1..Len(real) - 1
    PROVE  real[j].rec < ExitIndex(tailCalled)
<1> DEFINE level == IF tailCalled THEN Top.level + Up[Top.caller] ELSE Top.level
           key == KeyAt(Top, level)
           index == ExitIndex(tailCalled)
           n == Len(real)
           p == Top.rec
           q == real[j].rec
<1>1. n \in Nat \ {0} /\ j \in 1..n /\ n \in 1..n /\ j < n /\ Top = real[n]
  BY TopType
<1>2. p # 0 /\ q # 0
  BY <1>1, AllTracked DEF LiveInv
<1>3. LiveRecordsKept
  BY DEF LiveInv
<1>4. /\ p \in 1..Len(frames) /\ frames[p].callee = Fn[Top.body]
      /\ frames[p].caller = Top.caller /\ frames[p].level = Top.level
      /\ q \in 1..Len(frames) /\ frames[q].level = real[j].level /\ q < p
  BY <1>1, <1>2, <1>3, LiveRecord
<1>5. Len(frames) \in Nat \ {0} /\ \A i \in 1..Len(frames) : frames[i].level \in Int
  BY RecordType, EmptySeq DEF TypeOK
<1>6. level \in Int /\ Top.level \in Int /\ Up[Top.caller] \in Nat
  BY TopType, ProgramAssumption DEF Activation
<1>7. key.level = level /\ key.callee = Fn[Top.body] /\ key.caller = Top.caller
  BY DEF KeyAt
<1>8. SameActivationSite(frames[p], key)
  BY <1>4, <1>7 DEF SameActivationSite
<1>9. /\ index \in 1..Len(frames)
      /\ \/ p <= index
         \/ ~tailCalled /\ frames[p].level # key.level
         \/ tailCalled /\ frames[index].level < key.level
  <2>1. index = ExitingRecordIndex(frames, Len(frames), key, tailCalled)
    BY DEF ExitIndex
  <2>2. key.level \in Int
    BY <1>6, <1>7
  <2> HIDE DEF key, index, level, p
  <2> QED
    BY <1>4, <1>5, <1>8, <2>1, <2>2, ExitingRecordIndexProperty
<1>10. CASE p <= index
  <2> HIDE DEF p, q, index
  <2>1. q < index
    BY <1>4, <1>9, <1>10, <1>5
  <2> QED
    BY <2>1 DEF q, index
<1>11. CASE ~tailCalled /\ frames[p].level # key.level
  BY <1>4, <1>7, <1>11
<1>12. CASE tailCalled /\ frames[index].level < key.level
  <2>1. Top.body \in TailExit /\ SingleStack /\ level = Top.level + Up[Top.caller]
    BY <1>12 DEF ExitsAndCatchesAreSafe
  <2>2. level <= real[j].level
    BY <1>1, <2>1 DEF LiveInv, TailCallersAbove
  <2>3. \A i \in 1..Len(frames) : OnThreadStack(frames[i].level)
    BY <2>1 DEF LiveInv, TailCallersAbove
  <2>4. ASSUME index < q PROVE frames[q].level <= frames[index].level
    <3>1. \A m \in index..q : m \in 1..Len(frames)
      BY <1>4, <1>5, <1>9
    <3> HIDE DEF index, q
    <3> QED
      BY <1>4, <1>9, <2>3, <2>4, <3>1 DEF LiveInv, RecordsGoDown
  <2>5. /\ frames[index].level < level /\ level <= frames[q].level
        /\ frames[index].level \in Int /\ frames[q].level \in Int
    BY <1>4, <1>5, <1>7, <1>9, <1>12, <2>2
  <2> HIDE DEF index, q, level
  <2>6. ~(index < q) /\ index # q
    BY <1>6, <2>4, <2>5
  <2>7. q < index
    BY <1>4, <1>5, <1>9, <2>6
  <2> QED
    BY <2>7 DEF q, index
<1> QED
  BY <1>9, <1>10, <1>11, <1>12

LEMMA CatchLevelKeepsLive ==
    ASSUME TypeOK, NEW outer, NEW nesting, LiveInv(outer, nesting), real # <<>>,
           NEW level \in Int, level <= Top.level,
           OnThreadStack(level) => OnThreadStack(Top.level),
           NEW j \in 1..Len(real)
    PROVE  real[j].rec <= KeptOnCatch(level)
<1> DEFINE d == DeadRecordsOnCatch(frames, Len(frames), level)
           q == real[j].rec
<1>1. Len(frames) \in Nat /\ q \in Nat /\ real[j].level \in Int /\ Top.level \in Int
  BY RecordType, LiveType, TopType DEF Activation
<1>2. /\ d \in 0..Len(frames)
      /\ \A i \in Len(frames) - d + 1 .. Len(frames) :
           OnThreadStack(level) /\ frames[i].level < level
  BY <1>1, DeadRecordsOnCatchProperty
<1>3. KeptOnCatch(level) = Len(frames) - d
  BY DEF KeptOnCatch
<1>4. CASE q = 0
  <2> HIDE DEF q, d
  <2>1. q <= KeptOnCatch(level)
    BY <1>1, <1>2, <1>3, <1>4
  <2> QED
    BY <2>1 DEF q
<1>5. CASE q # 0
  <2>1. q \in 1..Len(frames) /\ frames[q].level = real[j].level
    BY <1>5, LiveRecord DEF LiveInv
  <2>2. OnThreadStack(level) => Top.level <= real[j].level
    <3>1. Len(real) \in Nat \ {0} /\ Top = real[Len(real)]
      BY TopType
    <3>2. CASE j = Len(real)
      BY <1>1, <3>1, <3>2
    <3>3. CASE j < Len(real)
      BY <3>1, <3>3 DEF LiveInv, LiveFramesGoDown
    <3> QED
      BY <3>1, <3>2, <3>3
  <2>3. q \notin Len(frames) - d + 1 .. Len(frames)
    <3> HIDE DEF d, q
    <3> QED
      BY <1>1, <1>2, <2>1, <2>2
  <2> HIDE DEF d, q
  <2>4. q <= KeptOnCatch(level)
    BY <1>1, <1>2, <1>3, <2>1, <2>3
  <2> QED
    BY <2>4 DEF q
<1> QED
  BY <1>4, <1>5

LEMMA CatchKeepsRecorded ==
    ASSUME TypeOK, NEW outer, NEW nesting, LiveInv(outer, nesting),
           real # <<>>, Top.rec # 0,
           NEW kept \in OnCatchKeeps(Top.level), NEW j \in 1..Len(real)
    PROVE  real[j].rec <= kept
<1> DEFINE byLevel == KeptOnCatch(Top.level)
           byChain == KeptOnCatchByChain(byLevel, Top.level)
<1>1. LiveRecordsKept /\ Len(real) \in 1..Len(real) /\ Top = real[Len(real)]
  BY TopType DEF LiveInv
<1>2. Top.rec \in 1..Len(frames) /\ Len(frames) \in Nat
  BY <1>1, LiveRecord, RecordType
<1>3. real[j].rec <= Top.rec /\ real[j].rec \in Nat
  BY <1>1, TopRecordIsHighest, LiveType
<1>4. Top.rec <= byLevel
  <2>1. Top.level \in Int /\ Top.level <= Top.level
    BY TopType DEF Activation
  <2> QED
    BY <1>1, <2>1, CatchLevelKeepsLive
<1>5. byLevel \in 0..Len(frames)
  BY <1>2, DeadRecordsOnCatchProperty DEF KeptOnCatch
<1> HIDE DEF byLevel
<1>6. byLevel \in Top.rec..Len(frames)
  BY <1>2, <1>4, <1>5
<1>7. Top.rec <= byChain
  <2>1. CASE ~OnThreadStack(Top.level)
    <3>1. byChain = byLevel
      BY <2>1 DEF KeptOnCatchByChain
    <3> QED
      BY <1>4, <3>1
  <2>2. CASE OnThreadStack(Top.level)
    <3>1. Top.rec <= byLevel - DeadRecordsAboveMatch(frames, byLevel, Top.level,
                                                      BaseName[Top.body])
      BY <1>6, <2>2, MatchKeepsTop
    <3>2. byChain \in {byLevel, byLevel - DeadRecordsAboveMatch(frames, byLevel,
                                             Top.level, BaseName[Top.body])}
      BY DEF KeptOnCatchByChain
    <3> HIDE DEF byChain
    <3> QED
      BY <1>4, <3>1, <3>2
  <2> QED
    BY <2>1, <2>2
<1>8. kept \in {byChain, byLevel, Len(frames)} /\ kept \in 0..Len(frames)
  BY OnCatchKeepsType DEF OnCatchKeeps, byLevel
<1> HIDE DEF byChain
<1>9. Top.rec <= kept
  BY <1>2, <1>4, <1>7, <1>8
<1> QED
  BY <1>2, <1>3, <1>8, <1>9

\* A frame that is only counted was entered by a call, or its chain is not read:
\* it shares its level with no live frame, and the name rule spares them all.
LEMMA CatchKeepsOthers ==
    ASSUME TypeOK, NEW outer, NEW nesting, LiveInv(outer, nesting),
           ExitsAndCatchesAreSafe, LogExceptions,
           real # <<>>, Top.rec = 0,
           NEW kept \in OnCatchKeeps(Top.level), NEW j \in 1..Len(real)
    PROVE  real[j].rec <= kept
<1> DEFINE byLevel == KeptOnCatch(Top.level)
           d == DeadRecordsAboveMatch(frames, byLevel, Top.level, BaseName[Top.body])
           q == real[j].rec
<1>1. /\ Len(real) \in 1..Len(real) /\ Top = real[Len(real)] /\ Top.level \in Int
      /\ Len(real) \in Nat /\ Len(frames) \in Nat /\ overflow \in Nat
  BY TopType, RecordType DEF Activation, TypeOK
<1>2. InlinedBodies \cap Dwarf = {}
  <2>1. Len(real) - Len(real) < overflow
    BY <1>1 DEF LiveInv, UntrackedFramesCounted
  <2>2. MayRunOut
    BY <1>1, <2>1 DEF LiveInv, UntrackedFramesCounted
  <2> QED
    BY <2>2 DEF ExitsAndCatchesAreSafe
<1>3. q <= byLevel
  <2>1. Top.level <= Top.level
    BY <1>1
  <2> QED
    BY <1>1, <2>1, CatchLevelKeepsLive
<1>4. /\ byLevel \in 0..Len(frames) /\ q \in Nat
      /\ q # 0 => q \in 1..Len(frames) /\ frames[q].level = real[j].level
  <2>1. byLevel \in 0..Len(frames)
    BY <1>1, DeadRecordsOnCatchProperty DEF KeptOnCatch
  <2>2. LiveRecordsKept
    BY DEF LiveInv
  <2> QED
    BY <2>1, <2>2, LiveType, LiveRecord
<1> HIDE DEF byLevel
<1>5. d \in 0..byLevel /\ \A i \in byLevel - d + 1 .. byLevel : frames[i].level = Top.level
  <2>1. byLevel \in Nat
    BY <1>1, <1>4
  <2> QED
    BY <2>1, DeadRecordsAboveMatchProperty
<1>6. OnThreadStack(Top.level) /\ Top.body \in Dwarf /\ q # 0 => real[j].level # Top.level
  <2> SUFFICES ASSUME OnThreadStack(Top.level), Top.body \in Dwarf, q # 0
               PROVE  real[j].level # Top.level
    OBVIOUS
  <2>1. j < Len(real)
    BY <1>1
  <2> QED
    BY <1>1, <1>2, <2>1 DEF LiveInv, SharedLevelsAreInlined
<1> HIDE DEF d, q
<1>7. OnThreadStack(Top.level) /\ Top.body \in Dwarf => q <= byLevel - d
  <2> SUFFICES ASSUME OnThreadStack(Top.level), Top.body \in Dwarf PROVE q <= byLevel - d
    OBVIOUS
  <2>1. CASE q = 0
    BY <1>1, <1>4, <1>5, <2>1
  <2>2. CASE q # 0
    <3>1. frames[q].level # Top.level
      BY <1>4, <1>6, <2>2
    <3>2. q \notin byLevel - d + 1 .. byLevel
      BY <1>5, <3>1
    <3> QED
      BY <1>1, <1>3, <1>4, <1>5, <3>2
  <2> QED
    BY <2>1, <2>2
<1>8. q <= KeptOnCatchByChain(byLevel, Top.level)
  <2>1. \/ KeptOnCatchByChain(byLevel, Top.level) = byLevel
        \/ /\ OnThreadStack(Top.level) /\ Top.body \in Dwarf
           /\ KeptOnCatchByChain(byLevel, Top.level) = byLevel - d
    BY DEF KeptOnCatchByChain, d
  <2> QED
    BY <1>3, <1>7, <2>1
<1>9. kept \in {KeptOnCatchByChain(byLevel, Top.level), byLevel, Len(frames)}
  BY DEF OnCatchKeeps, byLevel
<1>10. q <= Len(frames)
  BY <1>1, <1>3, <1>4
<1> QED
  BY <1>3, <1>8, <1>9, <1>10 DEF q

LEMMA CatchKeepsLive ==
    ASSUME TypeOK, NEW outer, NEW nesting, LiveInv(outer, nesting),
           ExitsAndCatchesAreSafe, LogExceptions, real # <<>>,
           NEW kept \in OnCatchKeeps(Top.level), NEW j \in 1..Len(real)
    PROVE  real[j].rec <= kept
<1>1. CASE Top.rec # 0
  BY <1>1, CatchKeepsRecorded
<1>2. CASE Top.rec = 0
  BY <1>2, CatchKeepsOthers
<1> QED
  BY <1>1, <1>2
-------------------------------------------------------------------------------
(***************************************************************************)
(* Whatever only shortens the two stacks, and spares the records of the    *)
(* frames that stay, preserves the invariant.                              *)
(***************************************************************************)
LEMMA ShorterStacks ==
    ASSUME TypeOK, TypeOK', NEW outer, NEW nesting, LiveInv(outer, nesting),
           NEW k \in 0..Len(real), NEW kept \in 0..Len(frames),
           Len(real') = k, \A j \in 1..k : real'[j] = real[j],
           Len(frames') = kept,
           \A i \in 1..kept : SameRecord(frames'[i], frames[i]),
           \A j \in 1..k : /\ real[j].rec <= kept
                           /\ real[j].rec # 0 => frames'[real[j].rec].fate = "live"
                           /\ real[j].rec = 0 => k - j < overflow',
           ~MayRunOut => overflow' = 0
    PROVE  LiveInv(outer, nesting)'
<1>1. /\ Len(real) \in Nat /\ Len(frames) \in Nat
      /\ DOMAIN real' = 1..k /\ DOMAIN frames' = 1..kept
  BY LiveType, RecordType, LenProperties DEF TypeOK
<1>2. /\ \A j \in 1..k : /\ j \in 1..Len(real) /\ real[j].rec \in Nat
                         /\ real[j].level \in Int
      /\ \A i \in 1..kept : i \in 1..Len(frames) /\ frames[i].level \in Int
  BY <1>1, LiveType, RecordType
<1>3. \A i \in 1..kept : /\ frames'[i].callee = frames[i].callee
                         /\ frames'[i].caller = frames[i].caller
                         /\ frames'[i].level = frames[i].level
                         /\ frames'[i].name = frames[i].name
  BY DEF SameRecord
<1>4. \A j \in 1..k : real[j].rec # 0 =>
        /\ real[j].rec \in 1..kept
        /\ frames[real[j].rec].callee = Fn[real[j].body]
        /\ frames[real[j].rec].caller = real[j].caller
        /\ frames[real[j].rec].level = real[j].level
        /\ \A i \in 1..j - 1 : real[i].rec < real[j].rec
  <2> SUFFICES ASSUME NEW j \in 1..k, real[j].rec # 0
               PROVE  /\ real[j].rec \in 1..kept
                      /\ frames[real[j].rec].callee = Fn[real[j].body]
                      /\ frames[real[j].rec].caller = real[j].caller
                      /\ frames[real[j].rec].level = real[j].level
                      /\ \A i \in 1..j - 1 : real[i].rec < real[j].rec
    OBVIOUS
  <2>1. LiveRecordsKept
    BY DEF LiveInv
  <2>2. real[j].rec \in 1..kept
    BY <1>1, <1>2
  <2> QED
    BY <1>2, <2>1, <2>2, LiveRecord
<1>5. LiveRecordsKept'
  <2> SUFFICES ASSUME NEW j \in 1..k, real[j].rec # 0
               PROVE  /\ real[j].rec \in 1..kept
                      /\ SameActivationSite(frames'[real[j].rec], KeyOf(real[j]))
                      /\ frames'[real[j].rec].level = real[j].level
                      /\ frames'[real[j].rec].fate = "live"
                      /\ \A i \in 1..j - 1 : real'[i].rec < real[j].rec
    BY <1>1 DEF LiveRecordsKept, KeyOf, KeyAt, SameActivationSite
  <2>1. real[j].rec \in 1..kept
    BY <1>4
  <2>2. SameActivationSite(frames'[real[j].rec], KeyOf(real[j]))
    BY <1>3, <1>4 DEF SameActivationSite, KeyOf, KeyAt
  <2>3. \A i \in 1..j - 1 : i \in 1..k
    BY <1>1
  <2> QED
    BY <1>3, <1>4, <2>1, <2>2, <2>3
<1>6. LiveFramesGoDown'
  BY <1>2 DEF LiveInv, LiveFramesGoDown, OnThreadStack
<1>7. UntrackedFramesCounted'
  BY DEF UntrackedFramesCounted
<1>8. RecordsGoDown'
  <2> SUFFICES ASSUME NEW i \in 1..kept, NEW m \in 1..kept, i < m,
                      \A x \in i..m : OnThreadStack(frames'[x].level)
               PROVE  /\ frames'[m].level <= frames'[i].level
                      /\ frames'[m].level = frames'[i].level =>
                           frames'[m].caller = frames'[i].caller
    BY DEF RecordsGoDown, OnThreadStack
  <2>1. \A x \in i..m : x \in 1..kept
    BY <1>1
  <2>2. \A x \in i..m : OnThreadStack(frames[x].level)
    BY <1>3, <2>1
  <2>3. /\ frames[m].level <= frames[i].level
        /\ frames[m].level = frames[i].level => frames[m].caller = frames[i].caller
    BY <1>2, <2>2 DEF LiveInv, RecordsGoDown
  <2> QED
    BY <1>3, <2>3
<1>9. RecordsAboveLiveGoDown'
  <2> SUFFICES ASSUME NEW j \in 1..k, NEW i \in 1..kept,
                      real[j].rec # 0, real[j].rec < i,
                      OnThreadStack(real[j].level), OnThreadStack(frames'[i].level)
               PROVE  /\ frames'[i].level <= real[j].level
                      /\ frames'[i].level = real[j].level =>
                           frames'[i].caller = real[j].caller
    BY DEF RecordsAboveLiveGoDown, OnThreadStack
  <2>1. OnThreadStack(frames[i].level)
    BY <1>3
  <2>2. /\ frames[i].level <= real[j].level
        /\ frames[i].level = real[j].level => frames[i].caller = real[j].caller
    BY <1>2, <2>1 DEF LiveInv, RecordsAboveLiveGoDown
  <2> QED
    BY <1>3, <2>2
<1>10. NamesComeFromCallers(outer)'
  <2>1. \A i \in 1..kept :
          \E b \in Bodies : /\ MadeBy(frames'[i], b)
                            /\ outer[b] = outer[Target[frames'[i].caller]]
    <3> TAKE i \in 1..kept
    <3>1. PICK b \in Bodies : /\ MadeBy(frames[i], b)
                              /\ outer[b] = outer[Target[frames[i].caller]]
      BY <1>2 DEF LiveInv, NamesComeFromCallers
    <3>2. MadeBy(frames'[i], b) /\ frames'[i].caller = frames[i].caller
      BY <1>3, <3>1 DEF MadeBy
    <3> QED
      BY <3>1, <3>2
  <2>2. \A j \in 1..k :
          /\ outer[real[j].body] = outer[Target[real[j].caller]]
          /\ real[j].rec # 0 => MadeBy(frames'[real[j].rec], real[j].body)
    <3> TAKE j \in 1..k
    <3>1. /\ outer[real[j].body] = outer[Target[real[j].caller]]
          /\ real[j].rec # 0 => MadeBy(frames[real[j].rec], real[j].body)
      BY <1>2 DEF LiveInv, NamesComeFromCallers
    <3>2. real[j].rec # 0 => /\ frames'[real[j].rec].name = frames[real[j].rec].name
                             /\ frames'[real[j].rec].callee = frames[real[j].rec].callee
      BY <1>3, <1>4
    <3> QED
      BY <3>1, <3>2 DEF MadeBy
  <2> QED
    BY <2>1, <2>2 DEF NamesComeFromCallers, MadeBy
<1>11. TailCallersAbove'
  <2> SUFFICES ASSUME SingleStack
               PROVE  /\ \A j \in 1..k : OnThreadStack(real[j].level)
                      /\ \A i \in 1..kept : OnThreadStack(frames'[i].level)
                      /\ \A i, j \in 1..k :
                           i < j /\ real[j].body \in TailExit =>
                             real[j].level + Up[real[j].caller] <= real[i].level
    BY DEF TailCallersAbove, SingleStack, OnThreadStack
  <2> QED
    BY <1>2, <1>3 DEF LiveInv, TailCallersAbove
<1>12. SharedLevelsAreInlined(nesting)'
  BY <1>2 DEF LiveInv, SharedLevelsAreInlined, OnThreadStack, InlinedBodies
<1>13. OwnNamesFirst'
  <2> SUFFICES ASSUME NEW j \in 1..k, NEW m \in 1..kept,
                      real'[j].rec # 0, m < real'[j].rec, OnThreadStack(real'[j].level),
                      \A i \in m..real'[j].rec : frames'[i].level = real'[j].level,
                      frames'[m].caller = real'[j].caller, frames'[m].name # NoName,
                      frames'[m].name = BaseName[real'[j].body]
               PROVE  frames'[real'[j].rec].name = frames'[m].name
    BY DEF OwnNamesFirst, OnThreadStack
  <2>1. real'[j] = real[j] /\ real[j].rec \in 1..kept
    BY <1>4
  <2>2. \A i \in m..real[j].rec : i \in 1..kept
    BY <1>1, <2>1
  <2>3. \A i \in m..real[j].rec : frames[i].level = real[j].level
    BY <1>3, <2>1, <2>2
  <2>4. /\ frames[m].caller = real[j].caller /\ frames[m].name # NoName
        /\ frames[m].name = BaseName[real[j].body]
    BY <1>3, <2>1
  <2>5. OwnNamesFirst /\ j \in 1..Len(real) /\ m \in 1..Len(frames)
    BY <1>2 DEF LiveInv
  <2>6. frames[real[j].rec].name = frames[m].name
    BY <2>1, <2>3, <2>4, <2>5 DEF OwnNamesFirst
  <2> QED
    BY <1>3, <2>1, <2>6
<1> QED
  BY <1>5, <1>6, <1>7, <1>8, <1>9, <1>10, <1>11, <1>12, <1>13 DEF LiveInv

\* A prefix of the records keeps the fates.
LEMMA FatesKept ==
    ASSUME TypeOK, LiveRecordsKept, NEW kept \in 0..Len(frames),
           NEW j \in 1..Len(real), real[j].rec <= kept,
           NEW fs, \A i \in 1..kept : fs[i] = frames[i], real[j].rec # 0
    PROVE  fs[real[j].rec].fate = "live"
<1>1. real[j].rec \in 1..Len(frames) /\ frames[real[j].rec].fate = "live"
  BY LiveRecord
<1>2. real[j].rec \in 1..kept
  BY <1>1, RecordType
<1> QED
  BY <1>1, <1>2

LEMMA LiveAfterExit ==
    ASSUME TypeOK, TypeOK', NEW outer, NEW nesting, LiveInv(outer, nesting),
           ExitsAndCatchesAreSafe,
           real # <<>>, NEW tailCalled \in BOOLEAN,
           tailCalled => Top.body \in TailExit,
           NEW why, ExitHook(tailCalled, why), real' = RealWithoutTop
    PROVE  LiveInv(outer, nesting)'
<1> DEFINE k == Len(real) - 1
<1>1. Len(real) \in Nat \ {0} /\ Len(frames) \in Nat /\ overflow \in Nat
  BY TopType, RecordType DEF TypeOK
<1>2. k \in 0..Len(real) /\ \A j \in 1..k : j \in 1..Len(real)
  BY <1>1
<1>3. Len(real') = k /\ \A j \in 1..k : real'[j] = real[j]
  <2>1. real' = SubSeq(real, 1, k) /\ real \in Seq(Activation)
    BY DEF RealWithoutTop, TypeOK
  <2> HIDE DEF k
  <2> QED
    BY <1>2, <2>1, PrefixProperty
<1>4. LiveRecordsKept
  BY DEF LiveInv
<1>5. \A j \in 1..k : real[j].rec \in Nat /\ real[j].rec <= Len(frames)
  <2> TAKE j \in 1..k
  <2>1. real[j].rec \in Nat
    BY <1>2, LiveType
  <2>2. real[j].rec # 0 => real[j].rec \in 1..Len(frames)
    BY <1>2, <1>4, LiveRecord
  <2> QED
    BY <1>1, <2>1, <2>2
<1>6. \A i \in 1..Len(frames) : SameRecord(frames[i], frames[i])
  BY DEF SameRecord
<1>7. CASE overflow > 0
  <2>1. frames' = frames /\ overflow' = overflow - 1
    BY <1>7 DEF ExitHook, Drained
  <2>2. MayRunOut
    BY <1>7 DEF LiveInv, UntrackedFramesCounted
  <2>3. \A j \in 1..k : real[j].rec = 0 => k - j < overflow'
    <3> TAKE j \in 1..k
    <3>1. real[j].rec = 0 => Len(real) - j < overflow
      BY <1>2 DEF LiveInv, UntrackedFramesCounted
    <3> QED
      BY <1>1, <2>1, <3>1
  <2>4. \A j \in 1..k : real[j].rec # 0 => frames'[real[j].rec].fate = "live"
    BY <1>2, <1>4, <2>1, LiveRecord
  <2>5. Len(frames) \in 0..Len(frames)
    BY <1>1
  <2> HIDE DEF k
  <2> QED
    BY <1>2, <1>3, <1>5, <1>6, <2>1, <2>2, <2>3, <2>4, <2>5, ShorterStacks
<1>8. CASE overflow = 0
  <2>1. overflow' = 0 /\ frames # <<>>
    <3>1. overflow' = 0
      BY <1>8 DEF ExitHook, Drained
    <3>2. Len(real) \in 1..Len(real)
      BY <1>1
    <3>3. real[Len(real)].rec \in 1..Len(frames)
      BY <1>4, <1>8, <3>2, AllTracked, LiveRecord DEF LiveInv
    <3> QED
      BY <3>1, <3>3, EmptySeq DEF TypeOK
  <2> DEFINE index == ExitIndex(tailCalled)
             kept == index - 1
  <2>2. frames' = SubSeq(frames, 1, kept)
    BY <1>8, <2>1 DEF ExitHook, ExitIndex
  <2>3. index \in 1..Len(frames)
    BY <2>1, ExitIndexType
  <2>4. \A j \in 1..k : real[j].rec # 0 /\ real[j].rec < index
    BY <1>2, <1>8, <2>1, AllTracked, ExitKeepsLive DEF LiveInv
  <2> HIDE DEF index
  <2>5. kept \in 0..Len(frames) /\ \A j \in 1..k : real[j].rec <= kept
    BY <1>1, <1>5, <2>3, <2>4
  <2> HIDE DEF kept
  <2>6. Len(frames') = kept /\ \A i \in 1..kept : frames'[i] = frames[i]
    BY <2>2, <2>5, PrefixProperty DEF TypeOK
  <2>7. \A j \in 1..k : real[j].rec # 0 => frames'[real[j].rec].fate = "live"
    BY <1>2, <1>4, <2>5, <2>6, FatesKept
  <2>8. \A i \in 1..kept : SameRecord(frames'[i], frames[i])
    BY <2>6 DEF SameRecord
  <2> HIDE DEF k
  <2> QED
    BY <1>2, <1>3, <2>1, <2>4, <2>5, <2>6, <2>7, <2>8, ShorterStacks
<1> QED
  BY <1>1, <1>7, <1>8

LEMMA LiveAfterBurial ==
    ASSUME TypeOK, TypeOK', NEW outer, NEW nesting, LiveInv(outer, nesting),
           NEW k \in 0..Len(real),
           NEW how \in {"jumped", "unwound"}, real' = SubSeq(real, 1, k),
           frames' = Buried(k, how), overflow' = overflow
    PROVE  LiveInv(outer, nesting)'
<1>1. Len(real) \in Nat /\ Len(frames) \in Nat /\ overflow \in Nat
  BY LiveType, RecordType DEF TypeOK
<1>2. Len(real') = k /\ \A j \in 1..k : real'[j] = real[j]
  BY PrefixProperty DEF TypeOK
<1>3. DOMAIN frames = 1..Len(frames) /\ Len(frames') = Len(frames)
  BY RecordType, BuriedProperty
<1>4. \A i \in 1..Len(frames) :
        /\ SameRecord(frames'[i], frames[i])
        /\ (\A j \in k + 1 .. Len(real) : real[j].rec # i) => frames'[i] = frames[i]
  BY <1>3, BuriedProperty
<1>5. LiveRecordsKept
  BY DEF LiveInv
<1>6. ASSUME NEW j \in 1..k
      PROVE  /\ real[j].rec <= Len(frames)
             /\ real[j].rec # 0 => frames'[real[j].rec].fate = "live"
             /\ real[j].rec = 0 => k - j < overflow'
  <2>1. j \in 1..Len(real) /\ real[j].rec \in Nat
    BY <1>1, LiveType
  <2>2. CASE real[j].rec = 0
    <3>1. Len(real) - j < overflow
      BY <2>1, <2>2 DEF LiveInv, UntrackedFramesCounted
    <3> QED
      BY <1>1, <2>2, <3>1
  <2>3. CASE real[j].rec # 0
    <3>1. real[j].rec \in 1..Len(frames) /\ frames[real[j].rec].fate = "live"
      BY <1>5, <2>1, <2>3, LiveRecord
    <3>2. ASSUME NEW m \in k + 1 .. Len(real) PROVE real[m].rec # real[j].rec
      <4>1. m \in 1..Len(real) /\ j \in 1..m - 1
        BY <1>1
      <4>2. real[m].rec \in Nat
        BY <4>1, LiveType
      <4>3. real[m].rec # 0 => real[j].rec < real[m].rec
        BY <1>5, <4>1, LiveRecord
      <4> QED
        BY <2>1, <2>3, <4>2, <4>3
    <3>3. frames'[real[j].rec] = frames[real[j].rec]
      BY <1>4, <3>1, <3>2
    <3> QED
      BY <1>1, <2>3, <3>1, <3>3
  <2> QED
    BY <2>2, <2>3
<1>7. ~MayRunOut => overflow' = 0
  BY DEF LiveInv, UntrackedFramesCounted
<1>8. Len(frames) \in 0..Len(frames)
  BY <1>1
<1> QED
  BY <1>2, <1>3, <1>4, <1>6, <1>7, <1>8, ShorterStacks

LEMMA LiveAfterPop ==
    ASSUME TypeOK, TypeOK', NEW outer, NEW nesting, LiveInv(outer, nesting),
           NEW kept \in 0..Len(frames),
           \A j \in 1..Len(real) : real[j].rec <= kept,
           frames' = SubSeq(frames, 1, kept), UNCHANGED <<real, overflow>>
    PROVE  LiveInv(outer, nesting)'
<1>1. Len(real) \in Nat /\ Len(frames) \in Nat /\ LiveRecordsKept
  BY LiveType, RecordType DEF LiveInv
<1>2. Len(frames') = kept /\ \A i \in 1..kept : frames'[i] = frames[i]
  BY PrefixProperty DEF TypeOK
<1>3. \A i \in 1..kept : SameRecord(frames'[i], frames[i])
  BY <1>2 DEF SameRecord
<1>4. \A j \in 1..Len(real) : real[j].rec # 0 => frames'[real[j].rec].fate = "live"
  BY <1>1, <1>2, FatesKept
<1>5. /\ \A j \in 1..Len(real) : real[j].rec = 0 => Len(real) - j < overflow'
      /\ ~MayRunOut => overflow' = 0
  BY DEF LiveInv, UntrackedFramesCounted
<1>6. Len(real) \in 0..Len(real) /\ Len(real') = Len(real)
  BY <1>1
<1> QED
  BY <1>2, <1>3, <1>4, <1>5, <1>6, ShorterStacks
-------------------------------------------------------------------------------
(***************************************************************************)
(* A new frame fits on top of the live ones, recorded or not.              *)
(***************************************************************************)
LEMMA NewFrameProperty ==
    ASSUME TypeOK, NEW outer, NEW nesting, NamesTellFramesApart(outer, nesting),
           LiveInv(outer, nesting),
           NEW s \in Sites, CanEnter(s)
    PROVE  LET level  == EnteredLevel(s)
               caller == EnteredCaller(s)
           IN  /\ OnThreadStack(level) => \A i \in 1..Len(real) :
                    /\ OnThreadStack(real[i].level)
                    /\ level <= real[i].level
                    /\ level = real[i].level => caller = real[i].caller
               /\ outer[Target[s]] = outer[Target[caller]]
               /\ SingleStack =>
                    /\ OnThreadStack(level)
                    /\ Target[s] \in TailExit => \A i \in 1..Len(real) :
                         level + Up[caller] <= real[i].level
<1> DEFINE level == EnteredLevel(s)
           caller == EnteredCaller(s)
<1>1. /\ EnteredKey(s).level = level /\ EnteredKey(s).caller = caller
      /\ level \in Int /\ Up[caller] \in Nat
  BY EnteredKeyProperty, EnteredKeyType, ProgramAssumption
<1>2. ASSUME NEW i \in 1..Len(real)
      PROVE  /\ real # <<>> /\ Top.level \in Int /\ real[i].level \in Int
             /\ OnThreadStack(Top.level) =>
                  /\ OnThreadStack(real[i].level)
                  /\ Top.level <= real[i].level
                  /\ Top.level = real[i].level => Top.caller = real[i].caller
  <2>1. real # <<>>
    BY EmptySeq DEF TypeOK
  <2>2. /\ Len(real) \in Nat \ {0} /\ Top = real[Len(real)] /\ Top.level \in Int
        /\ real[i].level \in Int
    BY <2>1, TopType, LiveType DEF Activation
  <2>3. CASE i = Len(real)
    BY <2>1, <2>2, <2>3
  <2>4. CASE i < Len(real)
    <3>1. Len(real) \in 1..Len(real)
      BY <2>2
    <3>2. LiveFramesGoDown
      BY DEF LiveInv
    <3> QED
      BY <2>1, <2>2, <2>4, <3>1, <3>2 DEF LiveFramesGoDown
  <2> QED
    BY <2>2, <2>3, <2>4
<1>3. ASSUME OnThreadStack(level), NEW i \in 1..Len(real)
      PROVE  /\ OnThreadStack(real[i].level)
             /\ level <= real[i].level
             /\ level = real[i].level => caller = real[i].caller
             /\ Target[s] \in TailExit => level + Up[caller] <= real[i].level
  <2>1. /\ Kind[s] \in {"call", "inline"}
        /\ OnThreadStack(Top.level)
        /\ Kind[s] = "inline" => level = Top.level /\ caller = Top.caller
        /\ Kind[s] = "call" => /\ level < Top.level
                               /\ level + Up[s] <= Top.level
                               /\ caller = s
    BY <1>1, <1>2, <1>3, EnteredBelowTop
  <2>2. Kind[s] = "inline" => Target[s] \notin TailExit
    BY ProgramAssumption
  <2> HIDE DEF level, caller
  <2>3. CASE Kind[s] = "inline"
    BY <1>2, <2>1, <2>2, <2>3
  <2>4. CASE Kind[s] = "call"
    BY <1>1, <1>2, <2>1, <2>4
  <2> QED
    BY <2>1, <2>3, <2>4
<1>4. outer[Target[s]] = outer[Target[caller]]
  <2>1. CASE Kind[s] # "inline"
    BY <2>1 DEF EnteredCaller
  <2>2. CASE Kind[s] = "inline"
    <3>1. real # <<>> /\ Top.body = Host[s] /\ caller = Top.caller
      BY <2>2 DEF CanEnter, EnteredCaller
    <3>2. Len(real) \in 1..Len(real) /\ Top = real[Len(real)]
      BY <3>1, TopType
    <3>3. outer[Top.body] = outer[Target[Top.caller]]
      BY <3>2 DEF LiveInv, NamesComeFromCallers
    <3>4. outer[Target[s]] = outer[Host[s]]
      BY <2>2 DEF NamesTellFramesApart
    <3> QED
      BY <3>1, <3>3, <3>4
  <2> QED
    BY <2>1, <2>2
<1>5. ASSUME SingleStack PROVE OnThreadStack(level)
  <2>1. Kind[s] \in {"entry", "call", "inline"}
    BY <1>5, ProgramAssumption DEF SingleStack, Kinds
  <2>2. CASE Kind[s] = "entry"
    BY <2>2, ProgramAssumption DEF EnteredLevel
  <2>3. CASE Kind[s] \in {"call", "inline"}
    <3>1. real # <<>>
      BY <2>3 DEF CanEnter
    <3>2. Len(real) \in 1..Len(real) /\ Top = real[Len(real)]
      BY <3>1, TopType
    <3>3. OnThreadStack(Top.level)
      BY <1>5, <3>2 DEF LiveInv, TailCallersAbove
    <3>4. level = Top.level \/ (Kind[s] = "call" /\ level = Top.level - Drop[s])
      BY <2>3 DEF EnteredLevel
    <3>5. Kind[s] = "call" => OnThreadStack(Top.level - Drop[s])
      BY <3>3 DEF CanEnter
    <3> QED
      BY <3>3, <3>4, <3>5
  <2> QED
    BY <2>1, <2>2, <2>3
<1> HIDE DEF level, caller
<1>6. /\ OnThreadStack(level) => \A i \in 1..Len(real) :
           /\ OnThreadStack(real[i].level)
           /\ level <= real[i].level
           /\ level = real[i].level => caller = real[i].caller
      /\ SingleStack =>
           /\ OnThreadStack(level)
           /\ Target[s] \in TailExit => \A i \in 1..Len(real) :
                level + Up[caller] <= real[i].level
  BY <1>3, <1>5
<1> QED
  BY <1>4, <1>6 DEF level, caller

LEMMA TallerStack ==
    ASSUME TypeOK, NEW outer, NEW nesting, NamesTellFramesApart(outer, nesting),
           LiveInv(outer, nesting),
           NEW s \in Sites, CanEnter(s), NEW rec \in Nat,
           real' = Append(real, Entered(s, rec))
    PROVE  /\ Len(real') = Len(real) + 1 /\ DOMAIN real' = 1..Len(real) + 1
           /\ \A j \in 1..Len(real) : real'[j] = real[j]
           /\ real'[Len(real) + 1] = Entered(s, rec)
           /\ LiveFramesGoDown'
           /\ \A j \in 1..Len(real) + 1 :
                outer[real'[j].body] = outer[Target[real'[j].caller]]
           /\ SingleStack =>
                /\ \A j \in 1..Len(real) + 1 : OnThreadStack(real'[j].level)
                /\ \A i, j \in 1..Len(real) + 1 :
                     i < j /\ real'[j].body \in TailExit =>
                       real'[j].level + Up[real'[j].caller] <= real'[i].level
<1> DEFINE n == Len(real)
           level == EnteredLevel(s)
           caller == EnteredCaller(s)
<1>1. n \in Nat /\ real \in Seq(Activation) /\ Entered(s, rec) \in Activation
  BY LiveType, EnteredType DEF TypeOK
<1>2. /\ Len(real') = n + 1 /\ DOMAIN real' = 1..n + 1
      /\ \A j \in 1..n : real'[j] = real[j]
      /\ real'[n + 1] = Entered(s, rec)
  BY <1>1, AppendProperties, LenProperties
<1>3. /\ Entered(s, rec).body = Target[s] /\ Entered(s, rec).caller = caller
      /\ Entered(s, rec).level = level
  BY DEF Entered
<1>4. /\ OnThreadStack(level) => \A i \in 1..n :
           /\ OnThreadStack(real[i].level)
           /\ level <= real[i].level
           /\ level = real[i].level => caller = real[i].caller
      /\ outer[Target[s]] = outer[Target[caller]]
      /\ SingleStack =>
           /\ OnThreadStack(level)
           /\ Target[s] \in TailExit => \A i \in 1..n :
                level + Up[caller] <= real[i].level
  BY NewFrameProperty
<1> HIDE DEF level, caller, n
<1>5. \A j \in 1..n + 1 : j \in 1..n \/ j = n + 1
  BY <1>1
<1>6. \A i, j \in 1..n + 1 : i < j => i \in 1..n
  BY <1>1
<1>7. LiveFramesGoDown'
  <2> SUFFICES ASSUME NEW i \in 1..n + 1, NEW j \in 1..n + 1, i < j,
                      OnThreadStack(real'[j].level)
               PROVE  /\ OnThreadStack(real'[i].level)
                      /\ real'[j].level <= real'[i].level
                      /\ real'[j].level = real'[i].level =>
                           real'[j].caller = real'[i].caller
    BY <1>2 DEF LiveFramesGoDown, OnThreadStack
  <2>1. i \in 1..n /\ real'[i] = real[i]
    BY <1>2, <1>6
  <2>2. CASE j \in 1..n
    <3>1. LiveFramesGoDown
      BY DEF LiveInv
    <3> QED
      BY <1>2, <2>1, <2>2, <3>1 DEF LiveFramesGoDown, n
  <2>3. CASE j = n + 1
    BY <1>2, <1>3, <1>4, <2>1, <2>3
  <2> QED
    BY <1>5, <2>2, <2>3
<1>8. \A j \in 1..n + 1 : outer[real'[j].body] = outer[Target[real'[j].caller]]
  <2> TAKE j \in 1..n + 1
  <2>1. CASE j \in 1..n
    BY <1>2, <2>1 DEF LiveInv, NamesComeFromCallers, n
  <2>2. CASE j = n + 1
    BY <1>2, <1>3, <1>4, <2>2
  <2> QED
    BY <1>5, <2>1, <2>2
<1>9. ASSUME SingleStack, NEW j \in 1..n + 1
      PROVE  /\ OnThreadStack(real'[j].level)
             /\ \A i \in 1..n + 1 :
                  i < j /\ real'[j].body \in TailExit =>
                    real'[j].level + Up[real'[j].caller] <= real'[i].level
  <2>1. TailCallersAbove
    BY DEF LiveInv
  <2>2. CASE j \in 1..n
    BY <1>2, <1>6, <1>9, <2>1, <2>2 DEF TailCallersAbove, n
  <2>3. CASE j = n + 1
    BY <1>2, <1>3, <1>4, <1>6, <1>9, <2>3
  <2> QED
    BY <1>5, <2>2, <2>3
<1> QED
  BY <1>2, <1>7, <1>8, <1>9 DEF n

\* A call goes down, so only an inlined function starts at a level in use.
LEMMA NewFrameIsNested ==
    ASSUME TypeOK, NEW outer, NEW nesting, NamesTellFramesApart(outer, nesting),
           LiveInv(outer, nesting), NEW s \in Sites, CanEnter(s), NEW i \in 1..Len(real),
           OnThreadStack(EnteredLevel(s)), real[i].level = EnteredLevel(s)
    PROVE  /\ Target[s] \in InlinedBodies
           /\ nesting[real[i].body] < nesting[Target[s]]
<1> DEFINE n == Len(real)
<1>1. LiveFramesGoDown /\ SharedLevelsAreInlined(nesting)
  BY DEF LiveInv
<1>2. /\ n \in 1..n /\ Top = real[n] /\ real # <<>> /\ Top.level \in Int
      /\ real[i].level \in Int /\ n \in Nat
      /\ real[i].body \in Bodies /\ Top.body \in Bodies /\ Target[s] \in Bodies
  <2>1. real # <<>>
    BY EmptySeq DEF TypeOK
  <2> QED
    BY <2>1, TopType, LiveType, ProgramAssumption DEF Activation
<1>3. nesting[real[i].body] \in Nat /\ nesting[Top.body] \in Nat /\ nesting[Target[s]] \in Nat
  BY <1>2 DEF NamesTellFramesApart
<1>4. Kind[s] # "entry"
  BY <1>2 DEF CanEnter
<1>5. Kind[s] # "signal"
  BY ProgramAssumption DEF EnteredLevel
<1>6. CASE Kind[s] = "call"
  <2>1. EnteredLevel(s) = Top.level - Drop[s] /\ OnThreadStack(Top.level)
    BY <1>6 DEF CanEnter, EnteredLevel
  <2>2. Drop[s] \in Nat /\ Up[s] \in 1..Drop[s]
    BY <1>6, ProgramAssumption
  <2>3. Top.level <= real[i].level
    BY <1>1, <1>2, <2>1 DEF LiveFramesGoDown
  <2> QED
    BY <1>2, <2>1, <2>2, <2>3
<1>7. CASE Kind[s] = "inline"
  <2>1. Target[s] \in InlinedBodies
    BY <1>7 DEF InlinedBodies
  <2>2. EnteredLevel(s) = Top.level /\ Top.body = Host[s]
    BY <1>7 DEF CanEnter, EnteredLevel
  <2>3. nesting[Top.body] < nesting[Target[s]]
    BY <1>7, <2>2 DEF NamesTellFramesApart
  <2>4. CASE i = n
    BY <1>2, <2>1, <2>3, <2>4
  <2>5. CASE i < n
    <3>1. nesting[real[i].body] < nesting[Top.body]
      BY <1>1, <1>2, <2>2, <2>5 DEF SharedLevelsAreInlined
    <3> QED
      BY <1>3, <2>1, <2>3, <3>1
  <2> QED
    BY <1>2, <2>4, <2>5
<1> QED
  BY <1>4, <1>5, <1>6, <1>7, ProgramAssumption DEF Kinds

LEMMA NewFrameShares ==
    ASSUME TypeOK, NEW outer, NEW nesting, NamesTellFramesApart(outer, nesting),
           LiveInv(outer, nesting), NEW s \in Sites, CanEnter(s), NEW rec \in Nat,
           Len(real') = Len(real) + 1, \A j \in 1..Len(real) : real'[j] = real[j],
           real'[Len(real) + 1] = Entered(s, rec)
    PROVE  SharedLevelsAreInlined(nesting)'
<1> DEFINE n == Len(real)
<1>1. n \in Nat /\ SharedLevelsAreInlined(nesting)
  BY LiveType DEF LiveInv
<1>2. Entered(s, rec).body = Target[s] /\ Entered(s, rec).level = EnteredLevel(s)
  BY DEF Entered
<1> HIDE DEF n
<1> SUFFICES ASSUME NEW i \in 1..n + 1, NEW j \in 1..n + 1, i < j,
                    OnThreadStack(real'[j].level), real'[i].level = real'[j].level
             PROVE  /\ real'[j].body \in InlinedBodies
                    /\ nesting[real'[i].body] < nesting[real'[j].body]
  BY DEF SharedLevelsAreInlined, OnThreadStack, InlinedBodies, n
<1>3. i \in 1..n /\ real'[i] = real[i] /\ (j \in 1..n \/ j = n + 1)
  BY <1>1 DEF n
<1>4. CASE j \in 1..n
  BY <1>1, <1>3, <1>4 DEF SharedLevelsAreInlined, n
<1>5. CASE j = n + 1
  <2>1. /\ real'[j].body = Target[s] /\ i \in 1..Len(real)
        /\ OnThreadStack(EnteredLevel(s)) /\ real[i].level = EnteredLevel(s)
    BY <1>2, <1>3, <1>5 DEF n
  <2>2. Target[s] \in InlinedBodies /\ nesting[real[i].body] < nesting[Target[s]]
    BY <2>1, NewFrameIsNested
  <2> QED
    BY <1>3, <2>1, <2>2
<1> QED
  BY <1>3, <1>4, <1>5

(***************************************************************************)
(* A record of the new frame's physical frame and base name leaves the new *)
(* frame no choice but to be logged: either its function is always logged, *)
(* or the record is one of its own earlier calls, which is not alive (an   *)
(* inlined function is nested deeper than what it shares the frame with),  *)
(* and a retried call has just been reclaimed.                             *)
(***************************************************************************)
LEMMA OwnNameIsNew ==
    ASSUME TypeOK, NEW outer, NEW nesting, NamesTellFramesApart(outer, nesting),
           LiveInv(outer, nesting), EveryFrameRunsItsExit => EveryRecordIsLive,
           NEW s \in Sites, NEW o \in Outcomes, EnterRecorded(s, o),
           NEW m \in 1..EnterKeeps(s, o), OnThreadStack(EnteredLevel(s)),
           \A i \in m..EnterKeeps(s, o) : frames[i].level = EnteredLevel(s),
           frames[m].caller = EnteredCaller(s),
           frames[m].name # NoName, frames[m].name = BaseName[Target[s]]
    PROVE  o = "logged"
<1> DEFINE c == Target[s]
           kept == EnterKeeps(s, o)
           key == EnteredKey(s)
<1>1. /\ CanEnter(s) /\ o \in LogOutcomes[c] /\ kept \in 0..Len(frames)
      /\ Len(frames) \in Nat /\ c \in Bodies
  BY EnterRecordedProperty, RecordType, ProgramAssumption
<1>2. outer[c] = outer[Target[EnteredCaller(s)]]
  BY <1>1, NewFrameProperty
<1>3. key.callee = Fn[c] /\ key.caller = EnteredCaller(s) /\ key.level = EnteredLevel(s)
  BY EnteredKeyProperty
<1> HIDE DEF key
<1>4. /\ m \in 1..kept /\ kept \in 1..Len(frames) /\ m \in 1..Len(frames) /\ kept \in m..kept
      /\ \A i \in m..kept : i \in 1..Len(frames)
  <2> HIDE DEF kept
  <2>1. m \in 1..kept
    BY DEF kept
  <2> QED
    BY <1>1, <2>1
<1> HIDE DEF c
<1>5. ASSUME NEW b \in Bodies, MadeBy(frames[m], b),
             outer[b] = outer[Target[frames[m].caller]], o # "logged"
      PROVE  b = c /\ RetriesAreReclaimed(outer, c)
  <2>1. outer[b] = outer[c] /\ BaseName[b] = BaseName[c] /\ "logged" \in LogOutcomes[b]
    BY <1>2, <1>5 DEF MadeBy, c
  <2>2. LogOutcomes[c] # {"logged"}
    BY <1>1, <1>5
  <2> QED
    BY <1>1, <2>1, <2>2 DEF NamesTellFramesApart
<1> SUFFICES ASSUME o # "logged" PROVE FALSE
  OBVIOUS
<1>6. RetriesAreReclaimed(outer, c)
  BY <1>4, <1>5 DEF LiveInv, NamesComeFromCallers
<1>7. ~EveryFrameRunsItsExit
  <2> SUFFICES ASSUME EveryFrameRunsItsExit PROVE FALSE
    OBVIOUS
  <2>1. PICK j \in 1..Len(real) : real[j].rec = m
    BY <1>4 DEF EveryRecordIsLive
  <2>2. /\ LiveRecordsKept /\ m # 0
        /\ outer[real[j].body] = outer[Target[real[j].caller]]
        /\ MadeBy(frames[m], real[j].body) /\ real[j].body \in Bodies
    BY <2>1, LiveType DEF LiveInv, NamesComeFromCallers
  <2>3. frames[m].caller = real[j].caller /\ frames[m].level = real[j].level
    BY <2>1, <2>2, LiveRecord
  <2>4. real[j].body = c
    BY <1>5, <2>2, <2>3
  <2>5. real[j].level = EnteredLevel(s)
    BY <1>4, <2>3 DEF kept
  <2>6. nesting[real[j].body] < nesting[Target[s]]
    BY <1>1, <2>5, NewFrameIsNested
  <2>7. nesting[c] \in Nat /\ nesting[c] < nesting[c]
    BY <1>1, <2>4, <2>6 DEF NamesTellFramesApart, c
  <2> QED
    BY <2>7
<1>8. /\ \A b \in Bodies : outer[b] = outer[c] => b = c
      /\ c \in Dwarf /\ o = "unlogged"
  BY <1>1, <1>6, <1>7 DEF RetriesAreReclaimed, Outcomes
<1>9. Kind[s] # "inline"
  <2> SUFFICES ASSUME Kind[s] = "inline" PROVE FALSE
    OBVIOUS
  <2>1. outer[c] = outer[Host[s]] /\ nesting[Host[s]] < nesting[c] /\ Host[s] \in Bodies
    BY ProgramAssumption DEF NamesTellFramesApart, c
  <2>2. Host[s] = c /\ nesting[c] \in Nat
    BY <1>1, <1>8, <2>1 DEF NamesTellFramesApart
  <2> QED
    BY <2>1, <2>2
<1> DEFINE count == KeptByLevel(key)
           again == {i \in 1..count : /\ SameActivationSite(frames[i], key)
                                      /\ frames[i].level = key.level}
           run == TopRun(count, again)
<1>10. kept = KeptByChain(count, key, s)
  BY <1>8 DEF EnterKeeps, KeptOnEnter, EnteredKey, key, kept
<1>11. kept = count \/ kept = count - run
  BY <1>9, <1>10 DEF KeptByChain
<1>12. count \in 0..Len(frames)
  BY KeptOnEnterType
<1> HIDE DEF count
<1>13. again \in SUBSET (1..count)
  OBVIOUS
<1>14. run \in 0..count /\ count - run \notin again
  <2>1. count \in Nat
    BY <1>1, <1>12
  <2> HIDE DEF again
  <2> QED
    BY <1>13, <2>1, TopRunProperty
<1>15. frames[kept].level = key.level
  BY <1>3, <1>4 DEF kept
<1>16. kept = count - run
  <2>1. ~(\/ count = 0
          \/ frames[count].level # key.level
          \/ ~OnThreadStack(key.level)
          \/ Target[s] \notin Dwarf) => kept = count - run
    BY <1>9, <1>10 DEF KeptByChain
  <2>2. Target[s] \in Dwarf /\ OnThreadStack(key.level)
    BY <1>3, <1>8 DEF c
  <2>3. CASE kept = count
    <3>1. count # 0 /\ frames[count].level = key.level
      BY <1>4, <1>15, <2>3
    <3> QED
      BY <2>1, <2>2, <3>1
  <2> QED
    BY <1>11, <2>3
<1>17. frames[kept].caller = key.caller
  <2>1. \A i \in m..kept : OnThreadStack(frames[i].level)
    BY DEF kept
  <2>2. frames[m].level = frames[kept].level
    BY <1>4 DEF kept
  <2>3. m = kept \/ m < kept
    BY <1>1, <1>4
  <2>4. m < kept => frames[kept].caller = frames[m].caller
    BY <1>4, <2>1, <2>2 DEF LiveInv, RecordsGoDown
  <2> QED
    BY <1>3, <2>3, <2>4
<1>18. frames[kept].callee = key.callee
  <2>1. PICK b \in Bodies : /\ MadeBy(frames[kept], b)
                            /\ outer[b] = outer[Target[frames[kept].caller]]
    BY <1>4 DEF LiveInv, NamesComeFromCallers
  <2>2. b = c
    BY <1>2, <1>3, <1>8, <1>17, <2>1
  <2> QED
    BY <1>3, <2>1, <2>2 DEF MadeBy
<1>19. kept \in again
  <2>1. kept \in 1..count
    BY <1>1, <1>4, <1>12, <1>14, <1>16
  <2> QED
    BY <1>15, <1>17, <1>18, <2>1 DEF SameActivationSite
<1> HIDE DEF again, run, kept
<1> QED
  BY <1>14, <1>16, <1>19

\* Entering without a record: the overflow counter pays for the frame.
LEMMA LiveAfterUntracked ==
    ASSUME TypeOK, TypeOK', NEW outer, NEW nesting,
           NamesTellFramesApart(outer, nesting), LiveInv(outer, nesting),
           NEW s \in Sites, CanEnter(s), MayRunOut,
           real' = Append(real, Entered(s, 0)), frames' = frames,
           overflow' = overflow + 1
    PROVE  LiveInv(outer, nesting)'
<1> DEFINE n == Len(real)
<1>1. /\ Len(real') = n + 1 /\ DOMAIN real' = 1..n + 1
      /\ \A j \in 1..n : real'[j] = real[j]
      /\ real'[n + 1] = Entered(s, 0)
      /\ LiveFramesGoDown'
      /\ \A j \in 1..n + 1 : outer[real'[j].body] = outer[Target[real'[j].caller]]
      /\ SingleStack =>
           /\ \A j \in 1..n + 1 : OnThreadStack(real'[j].level)
           /\ \A i, j \in 1..n + 1 :
                i < j /\ real'[j].body \in TailExit =>
                  real'[j].level + Up[real'[j].caller] <= real'[i].level
  <2>1. 0 \in Nat
    OBVIOUS
  <2> QED
    BY <2>1, TallerStack
<1>2. n \in Nat /\ overflow \in Nat /\ DOMAIN real = 1..n
  BY LiveType DEF TypeOK
<1>3. real'[n + 1].rec = 0
  BY <1>1 DEF Entered
<1> HIDE DEF n
<1>4. \A j \in 1..n + 1 : real'[j].rec # 0 => j \in 1..n /\ real'[j] = real[j]
  BY <1>1, <1>2, <1>3
<1>5. LiveRecordsKept'
  <2> SUFFICES ASSUME NEW j \in 1..n, real[j].rec # 0
               PROVE  /\ real[j].rec \in DOMAIN frames
                      /\ SameActivationSite(frames[real[j].rec], KeyOf(real[j]))
                      /\ frames[real[j].rec].level = real[j].level
                      /\ frames[real[j].rec].fate = "live"
                      /\ \A i \in 1 .. j - 1 : real'[i].rec < real[j].rec
    BY <1>1, <1>4 DEF LiveRecordsKept, KeyOf, KeyAt, SameActivationSite
  <2>1. \A i \in 1 .. j - 1 : real'[i] = real[i]
    BY <1>1, <1>2
  <2>2. LiveRecordsKept /\ j \in DOMAIN real
    BY <1>2 DEF LiveInv
  <2>3. /\ real[j].rec \in DOMAIN frames
        /\ SameActivationSite(frames[real[j].rec], KeyOf(real[j]))
        /\ frames[real[j].rec].level = real[j].level
        /\ frames[real[j].rec].fate = "live"
        /\ \A i \in 1 .. j - 1 : real[i].rec < real[j].rec
    BY <2>2, Zenon DEF LiveRecordsKept
  <2> QED
    BY <2>1, <2>3
<1>6. UntrackedFramesCounted'
  <2>1. ASSUME NEW j \in 1..n + 1, real'[j].rec = 0 PROVE n + 1 - j < overflow'
    <3>1. CASE j = n + 1
      BY <1>2, <3>1
    <3>2. CASE j \in 1..n
      <4>1. n - j < overflow
        BY <1>1, <2>1, <3>2 DEF LiveInv, UntrackedFramesCounted, n
      <4> QED
        BY <1>2, <4>1
    <3> QED
      BY <1>2, <3>1, <3>2
  <2>2. \A j \in 1..Len(real') : real'[j].rec = 0 => Len(real') - j < overflow'
    <3>1. \A j \in 1..n + 1 : real'[j].rec = 0 => n + 1 - j < overflow'
      BY <2>1
    <3>2. Len(real') = n + 1
      BY <1>1
    <3> QED
      BY <1>2, <3>1, <3>2
  <2> QED
    BY <2>2 DEF UntrackedFramesCounted
<1>7. RecordsGoDown'
  BY DEF LiveInv, RecordsGoDown, OnThreadStack
<1>8. RecordsAboveLiveGoDown'
  <2>1. RecordsAboveLiveGoDown
    BY DEF LiveInv
  <2> QED
    BY <1>1, <1>4, <2>1 DEF RecordsAboveLiveGoDown, OnThreadStack, n
<1>9. NamesComeFromCallers(outer)'
  <2>1. \A j \in 1..n + 1 :
          real'[j].rec # 0 => MadeBy(frames[real'[j].rec], real'[j].body)
    BY <1>4 DEF LiveInv, NamesComeFromCallers, n
  <2>2. \A i \in 1..Len(frames) :
          \E b \in Bodies : /\ MadeBy(frames[i], b)
                            /\ outer[b] = outer[Target[frames[i].caller]]
    BY DEF LiveInv, NamesComeFromCallers
  <2> QED
    BY <1>1, <2>1, <2>2 DEF NamesComeFromCallers, MadeBy
<1>10. TailCallersAbove'
  BY <1>1 DEF LiveInv, TailCallersAbove, SingleStack, OnThreadStack
<1>11. SharedLevelsAreInlined(nesting)'
  <2>1. 0 \in Nat
    OBVIOUS
  <2> QED
    BY <1>1, <2>1, NewFrameShares DEF n
<1>12. OwnNamesFirst'
  <2>1. OwnNamesFirst
    BY DEF LiveInv
  <2> QED
    BY <1>1, <1>4, <2>1 DEF OwnNamesFirst, OnThreadStack, n
<1> QED
  BY <1>1, <1>5, <1>6, <1>7, <1>8, <1>9, <1>10, <1>11, <1>12 DEF LiveInv

\* The usual enter: the new record tops what is kept, and what is kept holds
\* every live record.
LEMMA LiveAfterRecorded ==
    ASSUME TypeOK, TypeOK', NEW outer, NEW nesting,
           NamesTellFramesApart(outer, nesting), LiveInv(outer, nesting),
           EveryFrameRunsItsExit => EveryRecordIsLive,
           NEW s \in Sites, NEW o \in Outcomes, EnterRecorded(s, o)
    PROVE  LiveInv(outer, nesting)'
<1> DEFINE n == Len(real)
           kept == EnterKeeps(s, o)
           new == Entered(s, kept + 1)
           record == NewRecord(Entered(s, 0), o)
<1>1. /\ CanEnter(s) /\ overflow = 0 /\ o \in LogOutcomes[Target[s]]
      /\ kept \in 0..Len(frames)
      /\ Len(frames') = kept + 1 /\ DOMAIN frames' = 1..kept + 1
      /\ \A i \in 1..kept : frames'[i] = frames[i]
      /\ frames'[kept + 1] = record
      /\ overflow' = overflow
  BY EnterRecordedProperty
<1>2. n \in Nat /\ Len(frames) \in Nat /\ DOMAIN real = 1..n
      /\ kept \in Nat /\ kept + 1 \in Nat
  <2>1. n \in Nat /\ Len(frames) \in Nat /\ DOMAIN real = 1..n
    BY LiveType, RecordType
  <2> HIDE DEF kept
  <2> QED
    BY <1>1, <2>1
<1>3. real' = Append(real, new)
  BY DEF EnterRecorded, EnterKeeps
<1>4. /\ Len(real') = n + 1 /\ DOMAIN real' = 1..n + 1
      /\ \A j \in 1..n : real'[j] = real[j]
      /\ real'[n + 1] = new
      /\ LiveFramesGoDown'
      /\ \A j \in 1..n + 1 : outer[real'[j].body] = outer[Target[real'[j].caller]]
      /\ SingleStack =>
           /\ \A j \in 1..n + 1 : OnThreadStack(real'[j].level)
           /\ \A i, j \in 1..n + 1 :
                i < j /\ real'[j].body \in TailExit =>
                  real'[j].level + Up[real'[j].caller] <= real'[i].level
  <2> HIDE DEF kept
  <2> QED
    BY <1>1, <1>2, <1>3, TallerStack
<1> DEFINE level == EnteredLevel(s)
           caller == EnteredCaller(s)
<1>5. /\ new.body = Target[s] /\ new.caller = caller
      /\ new.level = level /\ new.rec = kept + 1
  BY DEF Entered
<1>6. /\ record.callee = Fn[Target[s]] /\ record.caller = caller
      /\ record.level = level /\ record.fate = "live"
      /\ o = "logged" => record.name = BaseName[Target[s]]
      /\ o # "logged" => record.name = NoName
  <2>1. Entered(s, 0) \in Activation
    BY <1>1, EnteredType
  <2>2. /\ Entered(s, 0).body = Target[s] /\ Entered(s, 0).caller = caller
        /\ Entered(s, 0).level = level
    BY DEF Entered
  <2> HIDE DEF caller, level
  <2> QED
    BY <2>1, <2>2, NewRecordProperty
<1>7. level \in Int
  BY <1>1, EnteredKeyProperty, EnteredKeyType
<1>8. /\ OnThreadStack(level) => \A i \in 1..n :
           /\ level <= real[i].level
           /\ level = real[i].level => caller = real[i].caller
      /\ outer[Target[s]] = outer[Target[caller]]
      /\ SingleStack => OnThreadStack(level)
  BY <1>1, NewFrameProperty
<1>9. kept > 0 /\ OnThreadStack(level) /\ OnThreadStack(frames[kept].level) =>
        /\ level <= frames[kept].level
        /\ level = frames[kept].level => caller = frames[kept].caller
  <2>1. Fits(kept, EnteredKey(s))
    BY <1>1, EnterFits DEF LiveInv
  <2>2. EnteredKey(s).level = level /\ EnteredKey(s).caller = caller
    BY EnteredKeyProperty
  <2> HIDE DEF kept, level, caller
  <2> QED
    BY <2>1, <2>2 DEF Fits
<1>10. ASSUME NEW j \in 1..n
       PROVE  /\ real[j].rec \in 1..kept
              /\ frames[real[j].rec].callee = Fn[real[j].body]
              /\ frames[real[j].rec].caller = real[j].caller
              /\ frames[real[j].rec].level = real[j].level
              /\ frames[real[j].rec].fate = "live"
              /\ \A i \in 1..j - 1 : real[i].rec < real[j].rec
  <2>1. LiveRecordsKept /\ UntrackedFramesCounted
    BY DEF LiveInv
  <2>2. real # <<>> /\ Len(real) \in 1..Len(real) /\ Top = real[Len(real)]
    BY <1>2 DEF Top
  <2>3. real[j].rec # 0 /\ Top.rec # 0
    BY <1>1, <2>1, <2>2, AllTracked
  <2>4. Top.rec <= kept
    BY <1>1, <2>2, <2>3, EnterKeepsTop
  <2>5. real[j].rec <= Top.rec
    BY <2>1, <2>2, <2>3, TopRecordIsHighest
  <2>6. real[j].rec \in Nat /\ Top.rec \in Nat
    BY <2>2, LiveType
  <2> HIDE DEF kept
  <2>7. real[j].rec \in 1..kept
    BY <1>1, <1>2, <2>3, <2>4, <2>5, <2>6
  <2> QED
    BY <2>1, <2>3, <2>7, LiveRecord
<1> HIDE DEF n, kept, new, record, level, caller
<1>11. /\ \A j \in 1..n + 1 : j \in 1..n \/ j = n + 1
       /\ \A i \in 1..kept + 1 : i \in 1..kept \/ i = kept + 1
       /\ \A i \in 1..kept : i \in 1..Len(frames) /\ frames[i].level \in Int
  BY <1>1, <1>2, RecordType
<1>12. LiveRecordsKept'
  <2> SUFFICES ASSUME NEW j \in 1..n + 1
               PROVE  /\ real'[j].rec \in 1..kept + 1
                      /\ SameActivationSite(frames'[real'[j].rec], KeyOf(real'[j]))
                      /\ frames'[real'[j].rec].level = real'[j].level
                      /\ frames'[real'[j].rec].fate = "live"
                      /\ \A i \in 1 .. j - 1 : real'[i].rec < real'[j].rec
    BY <1>1, <1>4 DEF LiveRecordsKept, KeyOf, KeyAt, SameActivationSite
  <2>1. \A i \in 1..j - 1 : i \in 1..n /\ real'[i] = real[i]
    BY <1>2, <1>4
  <2>2. CASE j \in 1..n
    <3>1. real'[j] = real[j] /\ frames'[real[j].rec] = frames[real[j].rec]
      BY <1>1, <1>4, <1>10, <2>2
    <3>2. SameActivationSite(frames[real[j].rec], KeyOf(real[j]))
      BY <1>10, <2>2 DEF SameActivationSite, KeyOf, KeyAt
    <3>3. real[j].rec \in 1..kept + 1
      BY <1>2, <1>10, <2>2
    <3>4. \A i \in 1..j - 1 : real'[i].rec < real[j].rec
      BY <1>10, <2>1, <2>2
    <3> QED
      BY <1>10, <2>2, <3>1, <3>2, <3>3, <3>4
  <2>3. CASE j = n + 1
    <3>1. real'[j] = new /\ frames'[new.rec] = record /\ new.rec \in 1..kept + 1
      BY <1>1, <1>2, <1>4, <1>5, <2>3
    <3>2. SameActivationSite(record, KeyOf(new))
      BY <1>5, <1>6 DEF SameActivationSite, KeyOf, KeyAt
    <3>3. \A i \in 1..j - 1 : real'[i].rec < new.rec
      BY <1>1, <1>2, <1>5, <1>10, <2>1
    <3> QED
      BY <1>5, <1>6, <3>1, <3>2, <3>3
  <2> QED
    BY <1>11, <2>2, <2>3
<1>13. UntrackedFramesCounted'
  <2>1. \A j \in 1..n + 1 : real'[j].rec # 0
    BY <1>1, <1>2, <1>4, <1>5, <1>10, <1>11
  <2> QED
    BY <1>1, <1>4, <2>1 DEF UntrackedFramesCounted
<1>14. RecordsGoDown'
  <2> SUFFICES ASSUME NEW i \in 1..kept + 1, NEW k \in 1..kept + 1, i < k,
                      \A m \in i..k : OnThreadStack(frames'[m].level)
               PROVE  /\ frames'[k].level <= frames'[i].level
                      /\ frames'[k].level = frames'[i].level =>
                           frames'[k].caller = frames'[i].caller
    BY <1>1 DEF RecordsGoDown, OnThreadStack
  <2>1. i \in 1..kept /\ frames'[i] = frames[i] /\ kept \in 1..kept
    BY <1>1, <1>2
  <2>2. RecordsGoDown
    BY DEF LiveInv
  <2>3. CASE k \in 1..kept
    <3>1. \A m \in i..k : m \in 1..kept
      BY <1>2, <2>3
    <3>2. \A m \in i..k : OnThreadStack(frames[m].level)
      <4> TAKE m \in i..k
      <4>1. frames'[m] = frames[m]
        BY <1>1, <3>1
      <4>2. OnThreadStack(frames'[m].level)
        BY <3>1
      <4> QED
        BY <4>1, <4>2
    <3> QED
      BY <1>1, <1>11, <2>1, <2>2, <2>3, <3>2 DEF RecordsGoDown
  <2>4. CASE k = kept + 1
    <3>1. \A m \in i..kept : m \in i..k /\ m \in 1..kept
      BY <1>2, <2>4
    <3>2. \A m \in i..kept : OnThreadStack(frames[m].level)
      <4> TAKE m \in i..kept
      <4>1. frames'[m] = frames[m]
        BY <1>1, <3>1
      <4>2. OnThreadStack(frames'[m].level)
        BY <3>1
      <4> QED
        BY <4>1, <4>2
    <3>3. OnThreadStack(frames[kept].level) /\ OnThreadStack(level)
      <4>1. kept \in i..kept /\ k \in i..k
        BY <1>2, <2>1
      <4> QED
        BY <1>1, <1>6, <2>4, <3>2, <4>1
    <3>4. /\ level <= frames[kept].level
          /\ level = frames[kept].level => caller = frames[kept].caller
      BY <1>9, <2>1, <3>3
    <3>5. i = kept \/ /\ frames[kept].level <= frames[i].level
                      /\ frames[kept].level = frames[i].level =>
                           frames[kept].caller = frames[i].caller
      <4>1. i = kept \/ i < kept
        BY <1>2, <2>1
      <4> QED
        BY <1>11, <2>1, <2>2, <3>2, <4>1 DEF RecordsGoDown
    <3>6. frames'[k].level = level /\ frames'[k].caller = caller
      BY <1>1, <1>6, <2>4
    <3> QED
      BY <1>7, <1>11, <2>1, <3>4, <3>5, <3>6
  <2> QED
    BY <1>11, <2>3, <2>4
<1>15. RecordsAboveLiveGoDown'
  <2> SUFFICES ASSUME NEW j \in 1..n + 1, NEW i \in 1..kept + 1,
                      real'[j].rec # 0, real'[j].rec < i,
                      OnThreadStack(real'[j].level), OnThreadStack(frames'[i].level)
               PROVE  /\ frames'[i].level <= real'[j].level
                      /\ frames'[i].level = real'[j].level =>
                           frames'[i].caller = real'[j].caller
    BY <1>1, <1>4 DEF RecordsAboveLiveGoDown, OnThreadStack
  <2>1. j \in 1..n /\ real'[j] = real[j]
    BY <1>2, <1>4, <1>5, <1>11
  <2>2. CASE i \in 1..kept
    <3>1. RecordsAboveLiveGoDown /\ frames'[i] = frames[i] /\ i \in 1..Len(frames)
      BY <1>1, <1>11, <2>2 DEF LiveInv
    <3> QED
      BY <2>1, <3>1 DEF RecordsAboveLiveGoDown, n
  <2>3. CASE i = kept + 1
    BY <1>1, <1>6, <1>8, <2>1, <2>3
  <2> QED
    BY <1>11, <2>2, <2>3
<1>16. NamesComeFromCallers(outer)'
  <2>1. ASSUME NEW i \in 1..kept + 1
        PROVE  \E b \in Bodies : /\ MadeBy(frames'[i], b)
                                 /\ outer[b] = outer[Target[frames'[i].caller]]
    <3>1. CASE i \in 1..kept
      <4>1. frames'[i] = frames[i] /\ i \in 1..Len(frames)
        BY <1>1, <1>11, <3>1
      <4>2. \E b \in Bodies : /\ MadeBy(frames[i], b)
                              /\ outer[b] = outer[Target[frames[i].caller]]
        BY <4>1 DEF LiveInv, NamesComeFromCallers
      <4> QED
        BY <4>1, <4>2
    <3>2. CASE i = kept + 1
      <4>1. frames'[i] = record /\ Target[s] \in Bodies
        BY <1>1, <3>2, ProgramAssumption
      <4>2. MadeBy(record, Target[s])
        BY <1>1, <1>6 DEF MadeBy
      <4> QED
        BY <1>6, <1>8, <4>1, <4>2
    <3> QED
      BY <1>11, <3>1, <3>2
  <2>2. ASSUME NEW j \in 1..n + 1
        PROVE  MadeBy(frames'[real'[j].rec], real'[j].body)
    <3>1. CASE j \in 1..n
      <4>1. /\ real'[j] = real[j] /\ frames'[real[j].rec] = frames[real[j].rec]
            /\ real[j].rec # 0
        BY <1>1, <1>4, <1>10, <3>1
      <4>2. MadeBy(frames[real[j].rec], real[j].body)
        BY <3>1, <4>1 DEF LiveInv, NamesComeFromCallers, n
      <4> QED
        BY <4>1, <4>2
    <3>2. CASE j = n + 1
      <4>1. real'[j] = new /\ frames'[new.rec] = record
        BY <1>1, <1>4, <1>5, <3>2
      <4> QED
        BY <1>1, <1>5, <1>6, <4>1 DEF MadeBy
    <3> QED
      BY <1>11, <3>1, <3>2
  <2> QED
    BY <1>1, <1>4, <2>1, <2>2 DEF NamesComeFromCallers, MadeBy
<1>17. TailCallersAbove'
  <2>1. ASSUME SingleStack, NEW i \in 1..kept + 1
        PROVE  OnThreadStack(frames'[i].level)
    BY <1>1, <1>6, <1>8, <1>11, <2>1 DEF LiveInv, TailCallersAbove
  <2> QED
    BY <1>1, <1>4, <2>1 DEF TailCallersAbove, SingleStack, OnThreadStack
<1>18. SharedLevelsAreInlined(nesting)'
  <2> HIDE DEF kept
  <2>1. /\ Len(real') = Len(real) + 1 /\ \A j \in 1..Len(real) : real'[j] = real[j]
        /\ real'[Len(real) + 1] = Entered(s, kept + 1) /\ kept + 1 \in Nat
    BY <1>2, <1>4 DEF n, new
  <2> QED
    BY <1>1, <2>1, NewFrameShares
<1>19. OwnNamesFirst'
  <2> SUFFICES ASSUME NEW j \in 1..n + 1, NEW m \in 1..kept + 1,
                      real'[j].rec # 0, m < real'[j].rec, OnThreadStack(real'[j].level),
                      \A i \in m..real'[j].rec : frames'[i].level = real'[j].level,
                      frames'[m].caller = real'[j].caller, frames'[m].name # NoName,
                      frames'[m].name = BaseName[real'[j].body]
               PROVE  frames'[real'[j].rec].name = frames'[m].name
    BY <1>1, <1>4 DEF OwnNamesFirst, OnThreadStack
  <2>1. CASE j \in 1..n
    <3>1. real'[j] = real[j] /\ real[j].rec \in 1..kept /\ real[j].rec # 0
      BY <1>4, <1>10, <2>1
    <3>2. m \in 1..kept /\ \A i \in m..real[j].rec : i \in 1..kept
      BY <1>2, <3>1
    <3>3. /\ \A i \in m..real[j].rec : frames[i].level = real[j].level
          /\ frames'[m] = frames[m] /\ frames'[real[j].rec] = frames[real[j].rec]
      BY <1>1, <3>1, <3>2
    <3>4. OwnNamesFirst /\ j \in 1..Len(real) /\ m \in 1..Len(frames)
      BY <1>11, <2>1, <3>2 DEF LiveInv, n
    <3> QED
      BY <3>1, <3>3, <3>4 DEF OwnNamesFirst
  <2>2. CASE j = n + 1
    <3>1. /\ real'[j].rec = kept + 1 /\ real'[j].level = level
          /\ real'[j].caller = caller /\ real'[j].body = Target[s]
      BY <1>4, <1>5, <2>2
    <3>2. m \in 1..kept /\ \A i \in m..kept : i \in m..kept + 1 /\ i \in 1..kept
      BY <1>2, <3>1
    <3>3. /\ \A i \in m..kept : frames[i].level = level
          /\ frames'[m] = frames[m] /\ OnThreadStack(level)
      BY <1>1, <3>1, <3>2
    <3>4. /\ frames[m].caller = caller /\ frames[m].name # NoName
          /\ frames[m].name = BaseName[Target[s]]
      BY <3>1, <3>3
    <3>5. o = "logged"
      BY <3>2, <3>3, <3>4, OwnNameIsNew DEF kept, level, caller
    <3> QED
      BY <1>1, <1>6, <3>1, <3>3, <3>4, <3>5
  <2> QED
    BY <1>11, <2>1, <2>2
<1> QED
  BY <1>4, <1>12, <1>13, <1>14, <1>15, <1>16, <1>17, <1>18, <1>19 DEF LiveInv
-------------------------------------------------------------------------------
LEMMA LiveInit == ASSUME NEW outer, NEW nesting PROVE Init => LiveInv(outer, nesting)
<1> SUFFICES ASSUME Init PROVE LiveInv(outer, nesting)
  OBVIOUS
<1>1. real = <<>> /\ frames = <<>> /\ Len(real) = 0 /\ Len(frames) = 0 /\ overflow = 0
  BY DEF Init
<1>2. DOMAIN real = {} /\ 1..Len(real) = {} /\ 1..Len(frames) = {}
  BY <1>1
<1> QED
  BY <1>1, <1>2 DEF LiveInv, LiveRecordsKept, LiveFramesGoDown,
     UntrackedFramesCounted, RecordsGoDown, RecordsAboveLiveGoDown,
     NamesComeFromCallers, OwnNamesFirst, TailCallersAbove, SharedLevelsAreInlined

LEMMA LiveUnchanged ==
    ASSUME TypeOK, TypeOK', NEW outer, NEW nesting, LiveInv(outer, nesting),
           UNCHANGED <<real, frames, overflow>>
    PROVE  LiveInv(outer, nesting)'
<1>1. Len(frames) \in 0..Len(frames) /\ Len(frames) \in Nat /\ LiveRecordsKept
  BY RecordType DEF LiveInv
<1>2. frames' = SubSeq(frames, 1, Len(frames))
  <2>1. frames = SubSeq(frames, 1, Len(frames))
    BY SubSeqFull DEF TypeOK
  <2> QED
    BY <2>1
<1>3. \A j \in 1..Len(real) : real[j].rec <= Len(frames)
  <2> TAKE j \in 1..Len(real)
  <2>1. real[j].rec \in Nat /\ (real[j].rec # 0 => real[j].rec \in 1..Len(frames))
    BY <1>1, LiveType, LiveRecord
  <2> QED
    BY <1>1, <2>1
<1> QED
  BY <1>1, <1>2, <1>3, LiveAfterPop

LEMMA LiveStep ==
    ASSUME NEW outer, NEW nesting, NamesTellFramesApart(outer, nesting),
           ExitsAndCatchesAreSafe
    PROVE  (/\ TypeOK /\ TypeOK' /\ LiveInv(outer, nesting)
            /\ EveryFrameRunsItsExit => EveryRecordIsLive
            /\ [Next]_vars) => LiveInv(outer, nesting)'
<1> SUFFICES ASSUME TypeOK, TypeOK', LiveInv(outer, nesting),
                    EveryFrameRunsItsExit => EveryRecordIsLive, [Next]_vars
             PROVE  LiveInv(outer, nesting)'
  OBVIOUS
<1>1. ASSUME NEW s \in Sites, EnterOverflowed(s) \/ EnterWithoutSlot(s)
      PROVE  LiveInv(outer, nesting)'
  <2>1. /\ CanEnter(s) /\ real' = Append(real, Entered(s, 0)) /\ frames' = frames
        /\ overflow' = overflow + 1
    BY <1>1 DEF EnterOverflowed, EnterWithoutSlot
  <2>2. overflow > 0 \/ MayRunOut
    BY <1>1 DEF EnterOverflowed, EnterWithoutSlot
  <2>3. MayRunOut
    BY <2>2 DEF LiveInv, UntrackedFramesCounted
  <2> QED
    BY <2>1, <2>3, LiveAfterUntracked
<1>2. ASSUME NEW s \in Sites, NEW o \in Outcomes, EnterRecorded(s, o)
      PROVE  LiveInv(outer, nesting)'
  BY <1>2, LiveAfterRecorded
<1>3. CASE Return
  <2>1. (Top.body \in TailExit) \in BOOLEAN
    OBVIOUS
  <2> QED
    BY <1>3, <2>1, LiveAfterExit DEF Return
<1>4. ASSUME NEW k \in 1..MaxDepth, Longjmp(k)
      PROVE  LiveInv(outer, nesting)'
  <2>1. Len(real) \in Nat /\ k \in Nat
    BY LiveType, ProgramAssumption
  <2>2. k \in 0..Len(real)
    BY <1>4, <2>1 DEF Longjmp
  <2> QED
    BY <1>4, <2>2, LiveAfterBurial DEF Longjmp
<1>5. CASE UnwindFrame
  <2>1. real # <<>> /\ Len(real) \in Nat /\ Len(real) - 1 \in 0..Len(real)
    <3>1. Len(real) \in Nat /\ Len(real) > 1
      BY <1>5, LiveType DEF UnwindFrame
    <3> QED
      BY <3>1, EmptySeq DEF TypeOK
  <2>2. CASE ExitHook(FALSE, "unwound")
    BY <1>5, <2>1, <2>2, LiveAfterExit DEF UnwindFrame
  <2>3. CASE frames' = Buried(Len(real) - 1, "unwound") /\ UNCHANGED overflow
    BY <1>5, <2>1, <2>3, LiveAfterBurial DEF UnwindFrame, RealWithoutTop
  <2> QED
    BY <1>5, <2>2, <2>3 DEF UnwindFrame
<1>6. ASSUME NEW kept \in 0..Len(frames), PopTo(kept, "!"), UNCHANGED real,
             \A j \in 1..Len(real) : real[j].rec <= kept
      PROVE  LiveInv(outer, nesting)'
  BY <1>6, LiveAfterPop DEF PopTo
<1>7. \A j \in 1..Len(real) : real # <<>>
  BY EmptySeq DEF TypeOK
<1>8. CASE Catch
  <2>1. CASE LogExceptions
    <3>1. PICK kept \in OnCatchKeeps(Top.level) : PopTo(kept, "!")
      BY <1>8, <2>1 DEF Catch
    <3>2. \A j \in 1..Len(real) : real[j].rec <= kept
      BY <1>7, <2>1, CatchKeepsLive
    <3> QED
      BY <1>6, <1>8, <3>1, <3>2, OnCatchKeepsType DEF Catch
  <2>2. CASE ~LogExceptions
    <3>1. UNCHANGED <<real, frames, overflow>>
      BY <1>8, <2>2 DEF Catch
    <3> QED
      BY <3>1, LiveUnchanged
  <2> QED
    BY <2>1, <2>2
<1>9. CASE CatchInTerminateStub
  <2> DEFINE level == Top.level - StubDrop + 1
  <2>1. \A j \in 1..Len(real) : real[j].rec <= Len(frames)
    <3>1. LiveRecordsKept /\ Len(frames) \in Nat
      BY RecordType DEF LiveInv
    <3>2. \A j \in 1..Len(real) : real[j].rec \in Nat /\ (real[j].rec # 0 => real[j].rec \in 1..Len(frames))
      BY <3>1, LiveType, LiveRecord
    <3> QED
      BY <3>1, <3>2
  <2>2. /\ PopTo(KeptOnCatch(level), "!") \/ PopTo(Len(frames), "!")
        /\ UNCHANGED real
    BY <1>9 DEF CatchInTerminateStub
  <2>3. OnThreadStack(level) => OnThreadStack(Top.level)
    BY <1>9 DEF CatchInTerminateStub
  <2>4. ASSUME NEW j \in 1..Len(real) PROVE real[j].rec <= KeptOnCatch(level)
    <3>1. real # <<>> /\ Top.level \in Int /\ StubDrop \in Nat \ {0}
      BY <1>7, TopType, ProgramAssumption DEF Activation
    <3>2. level \in Int /\ level <= Top.level
      BY <3>1
    <3> HIDE DEF level
    <3> QED
      BY <2>3, <3>1, <3>2, CatchLevelKeepsLive
  <2>5. KeptOnCatch(level) \in 0..Len(frames)
    BY DeadRecordsOnCatchProperty, RecordType DEF KeptOnCatch
  <2>6. Len(frames) \in 0..Len(frames)
    BY RecordType
  <2> HIDE DEF level
  <2> QED
    BY <1>6, <2>1, <2>2, <2>4, <2>5, <2>6
<1>10. CASE Throw
  <2>1. UNCHANGED <<real, frames, overflow>>
    BY <1>10 DEF Throw
  <2> QED
    BY <2>1, LiveUnchanged
<1>11. CASE UNCHANGED vars
  <2>1. UNCHANGED <<real, frames, overflow>>
    BY <1>11 DEF vars
  <2> QED
    BY <2>1, LiveUnchanged
<1> QED
  BY <1>1, <1>2, <1>3, <1>4, <1>5, <1>8, <1>9, <1>10, <1>11 DEF Next, Enter
-------------------------------------------------------------------------------
\* Only an enter makes a stack taller.
OtherStep ==
    \/ Return \/ (\E k \in 1..MaxDepth : Longjmp(k)) \/ Throw \/ UnwindFrame
    \/ Catch \/ CatchInTerminateStub \/ UNCHANGED vars

LEMMA OthersOnlyShorten ==
    ASSUME TypeOK, OtherStep
    PROVE  /\ \E k \in 0..Len(real) : /\ Len(real') = k
                                      /\ \A j \in 1..k : real'[j] = real[j]
           /\ \E kept \in 0..Len(frames) :
                /\ Len(frames') = kept
                /\ \A i \in 1..kept : SameRecord(frames'[i], frames[i])
<1> DEFINE FewerFrames == \E k \in 0..Len(real) : /\ Len(real') = k
                                                  /\ \A j \in 1..k : real'[j] = real[j]
           FewerRecords == \E kept \in 0..Len(frames) :
                             /\ Len(frames') = kept
                             /\ \A i \in 1..kept : SameRecord(frames'[i], frames[i])
<1>1. Len(real) \in Nat /\ Len(frames) \in Nat /\ DOMAIN frames = 1..Len(frames)
  BY LiveType, RecordType
<1>2. ASSUME NEW k \in 0..Len(real), real' = SubSeq(real, 1, k) PROVE FewerFrames
  BY <1>2, PrefixProperty DEF TypeOK
<1>3. ASSUME real # <<>>, real' = RealWithoutTop PROVE FewerFrames
  <2>1. Len(real) - 1 \in 0..Len(real)
    BY <1>3, TopType
  <2> HIDE DEF FewerFrames
  <2> QED
    BY <1>2, <1>3, <2>1 DEF RealWithoutTop
<1>4. ASSUME UNCHANGED real PROVE FewerFrames
  BY <1>1, <1>4
<1>5. ASSUME NEW kept \in 0..Len(frames), Len(frames') = kept,
             \A i \in 1..kept : frames'[i] = frames[i]
      PROVE  FewerRecords
  BY <1>5 DEF SameRecord
<1>6. ASSUME NEW tailCalled \in BOOLEAN, NEW why, ExitHook(tailCalled, why), real # <<>>
      PROVE  FewerRecords
  <2> HIDE DEF FewerRecords
  <2> QED
    BY <1>5, <1>6, ExitKeepsStart
<1>7. ASSUME NEW k, NEW how \in {"jumped", "unwound"}, frames' = Buried(k, how)
      PROVE  FewerRecords
  <2>1. Len(frames') = Len(frames) /\ \A i \in 1..Len(frames) : SameRecord(frames'[i], frames[i])
    BY <1>1, <1>7, BuriedProperty
  <2>2. Len(frames) \in 0..Len(frames)
    BY <1>1
  <2> QED
    BY <2>1, <2>2
<1>8. ASSUME NEW kept \in 0..Len(frames), PopTo(kept, "!") PROVE FewerRecords
  <2>1. Len(frames') = kept /\ \A i \in 1..kept : frames'[i] = frames[i]
    BY <1>8, PrefixProperty DEF PopTo, TypeOK
  <2> HIDE DEF FewerRecords
  <2> QED
    BY <1>5, <2>1
<1>9. ASSUME UNCHANGED frames PROVE FewerRecords
  <2>1. Len(frames) \in 0..Len(frames) /\ Len(frames') = Len(frames)
    BY <1>1, <1>9
  <2> HIDE DEF FewerRecords
  <2> QED
    BY <1>5, <1>9, <2>1
<1> HIDE DEF FewerFrames, FewerRecords
<1>10. CASE Return
  <2>1. (Top.body \in TailExit) \in BOOLEAN
    OBVIOUS
  <2> QED
    BY <1>3, <1>6, <1>10, <2>1 DEF Return, FewerFrames, FewerRecords
<1>11. ASSUME NEW k \in 1..MaxDepth, Longjmp(k) PROVE FewerFrames /\ FewerRecords
  <2>1. k \in 0..Len(real)
    BY <1>1, <1>11, ProgramAssumption DEF Longjmp
  <2> QED
    BY <1>2, <1>7, <1>11, <2>1 DEF Longjmp
<1>12. CASE UnwindFrame
  <2>1. /\ Len(real) > 1 /\ real' = RealWithoutTop
        /\ ExitHook(FALSE, "unwound") \/ frames' = Buried(Len(real) - 1, "unwound")
    BY <1>12 DEF UnwindFrame
  <2>2. real # <<>>
    BY <1>1, <2>1, EmptySeq DEF TypeOK
  <2> QED
    BY <1>3, <1>6, <1>7, <2>1, <2>2 DEF FewerFrames, FewerRecords
<1>13. CASE Catch
  BY <1>4, <1>8, <1>9, <1>13, OnCatchKeepsType DEF Catch, FewerFrames, FewerRecords
<1>14. CASE CatchInTerminateStub
  <2>1. KeptOnCatch(Top.level - StubDrop + 1) \in 0..Len(frames) /\ Len(frames) \in 0..Len(frames)
    BY <1>1, DeadRecordsOnCatchProperty DEF KeptOnCatch
  <2> QED
    BY <1>4, <1>8, <1>14, <2>1 DEF CatchInTerminateStub, FewerFrames, FewerRecords
<1>15. CASE Throw \/ UNCHANGED vars
  BY <1>4, <1>9, <1>15 DEF Throw, vars, FewerFrames, FewerRecords
<1> QED
  BY <1>10, <1>11, <1>12, <1>13, <1>14, <1>15 DEF OtherStep, FewerFrames, FewerRecords

(***************************************************************************)
(* The exceptions in flight.                                               *)
(***************************************************************************)
\* An exception thrown while another is in flight is caught before that one
\* goes on: each is at a frame inside the one the exception before it reached.
ExceptionsNest ==
    /\ ~Throws => inflight = <<>>
    /\ \A i \in 1..Len(inflight) : inflight[i] \in 1..Len(real)
    /\ \A i, k \in 1..Len(inflight) : i < k => inflight[i] < inflight[k]

\* The first c exceptions of `thrown', and no other, have reached a frame below
\* the j-th.
Tells(thrown, j, c) ==
    /\ c <= Len(thrown)
    /\ \A i \in 1..Len(thrown) : thrown[i] < j <=> i <= c

\* A record knows how many exceptions were in flight when its frame was entered:
\* they are those that have reached a frame below it.
UncaughtTells ==
    \A j \in 1..Len(real) :
      real[j].rec # 0 => Tells(inflight, j, frames[real[j].rec].uncaught)

ExceptionsInv == ExceptionsNest /\ UncaughtTells

\* The exceptions in flight, as numbers.
LEMMA InflightType ==
    ASSUME TypeOK, ExceptionsNest
    PROVE  /\ Uncaught \in Nat /\ Uncaught = Len(inflight)
           /\ DOMAIN inflight = 1..Uncaught
           /\ \A i \in 1..Uncaught : /\ inflight[i] \in 1..Len(real)
                                     /\ inflight[i] \in Nat
           /\ \A i, k \in 1..Uncaught : i < k => inflight[i] < inflight[k]
           /\ Uncaught = 0 <=> inflight = <<>>
           /\ Floor = IF Uncaught = 0 THEN 0 ELSE inflight[Uncaught]
           /\ Floor \in 0..Len(real) /\ Floor \in Nat
           /\ \A i \in 1..Uncaught : inflight[i] <= Floor
<1> DEFINE u == Len(inflight)
<1>1. u \in Nat /\ DOMAIN inflight = 1..u /\ (u = 0 <=> inflight = <<>>)
  BY LenProperties, EmptySeq DEF TypeOK
<1>2. /\ \A i \in 1..u : inflight[i] \in 1..Len(real)
      /\ \A i, k \in 1..u : i < k => inflight[i] < inflight[k]
  BY DEF ExceptionsNest
<1>3. \A i \in 1..u : inflight[i] \in Nat
  BY <1>2, LiveType
<1>4. Floor = IF u = 0 THEN 0 ELSE inflight[u]
  BY <1>1 DEF Floor
<1> HIDE DEF u
<1>5. Floor \in 0..Len(real) /\ Floor \in Nat
  BY <1>1, <1>2, <1>3, <1>4, LiveType
<1>6. \A i \in 1..u : inflight[i] <= Floor
  <2> TAKE i \in 1..u
  <2>1. CASE i = u
    BY <1>1, <1>3, <1>4, <2>1
  <2>2. CASE i # u
    <3>1. i < u /\ u \in 1..u /\ u # 0
      BY <1>1, <2>2
    <3>2. inflight[i] < inflight[u]
      BY <1>2, <3>1
    <3> QED
      BY <1>3, <1>4, <3>1, <3>2
  <2> QED
    BY <2>1, <2>2
<1> QED
  BY <1>1, <1>2, <1>3, <1>4, <1>5, <1>6 DEF u, Uncaught

\* An exception is always being unwound through a live frame.
LEMMA UnwindingFrame ==
    ASSUME TypeOK, ExceptionsNest, UnwindingTop
    PROVE  /\ real # <<>> /\ Throws /\ Len(real) \in Nat \ {0}
           /\ Uncaught \in 1..Uncaught /\ inflight[Uncaught] = Len(real)
<1>1. /\ inflight # <<>> /\ Floor = Len(real) /\ Throws
      /\ Uncaught \in Nat \ {0} /\ Floor = inflight[Uncaught]
      /\ inflight[Uncaught] \in 1..Len(real)
  BY InflightType DEF UnwindingTop, ExceptionsNest
<1>2. Len(real) \in Nat \ {0}
  BY <1>1, LiveType
<1>3. real # <<>>
  BY <1>2, EmptySeq DEF TypeOK
<1> QED
  BY <1>1, <1>2, <1>3

\* Frames leave, and what the others' records know stays true.
LEMMA UncaughtKept ==
    ASSUME TypeOK, TypeOK', LiveRecordsKept', UncaughtTells,
           NEW k \in 0..Len(real), Len(real') = k, \A j \in 1..k : real'[j] = real[j],
           \A i \in 1..Len(frames') : /\ i \in 1..Len(frames)
                                      /\ frames'[i].uncaught = frames[i].uncaught,
           \A j \in 1..k, c \in Nat : Tells(inflight, j, c) => Tells(inflight', j, c)
    PROVE  UncaughtTells'
<1>1. DOMAIN real' = 1..k /\ DOMAIN frames' = 1..Len(frames')
      /\ \A j \in 1..k : j \in 1..Len(real)
  BY LiveType, LenProperties DEF TypeOK
<1> SUFFICES ASSUME NEW j \in 1..k, real'[j].rec # 0
             PROVE  Tells(inflight', j, frames'[real'[j].rec].uncaught)
  BY DEF UncaughtTells
<1>2. real'[j] = real[j] /\ real'[j].rec \in 1..Len(frames')
  BY <1>1 DEF LiveRecordsKept
<1>3. /\ real[j].rec \in 1..Len(frames)
      /\ frames'[real'[j].rec].uncaught = frames[real[j].rec].uncaught
  BY <1>2
<1>4. frames[real[j].rec].uncaught \in Nat
  BY <1>3, RecordType DEF FrameRecord
<1>5. Tells(inflight, j, frames[real[j].rec].uncaught)
  BY <1>1, <1>2 DEF UncaughtTells
<1> QED
  BY <1>3, <1>4, <1>5

LEMMA ExceptionsAfterLeaving ==
    ASSUME TypeOK, TypeOK', LiveRecordsKept', ExceptionsInv,
           NEW k \in 0..Len(real), Len(real') = k, \A j \in 1..k : real'[j] = real[j],
           \A i \in 1..Len(frames') : /\ i \in 1..Len(frames)
                                      /\ frames'[i].uncaught = frames[i].uncaught,
           UNCHANGED inflight, Floor <= k
    PROVE  ExceptionsInv'
<1>1. /\ Uncaught \in Nat /\ Uncaught = Len(inflight) /\ Floor \in Nat
      /\ \A i \in 1..Uncaught : inflight[i] <= Floor /\ inflight[i] \in 1..Len(real)
  BY InflightType DEF ExceptionsInv
<1>2. \A i \in 1..Len(inflight) : inflight[i] \in 1..k
  BY <1>1, LiveType
<1>3. ExceptionsNest'
  BY <1>2 DEF ExceptionsInv, ExceptionsNest
<1>4. UncaughtTells'
  BY UncaughtKept DEF ExceptionsInv
<1> QED
  BY <1>3, <1>4 DEF ExceptionsInv

\* The innermost exception goes one frame further.
LEMMA ExceptionsAfterUnwinding ==
    ASSUME TypeOK, TypeOK', LiveRecordsKept', ExceptionsInv, UnwindFrame,
           \A i \in 1..Len(frames') : /\ i \in 1..Len(frames)
                                      /\ frames'[i].uncaught = frames[i].uncaught
    PROVE  ExceptionsInv'
<1> DEFINE n == Len(real)
           u == Uncaught
<1>1. /\ UnwindingTop /\ n > 1 /\ (u > 1 => n - 1 > inflight[u - 1])
      /\ inflight' = [inflight EXCEPT ![u] = n - 1] /\ real' = RealWithoutTop
  BY DEF UnwindFrame
<1>2. /\ n \in Nat /\ u \in Nat /\ u = Len(inflight) /\ DOMAIN inflight = 1..u
      /\ \A i \in 1..u : inflight[i] \in 1..n /\ inflight[i] \in Nat
      /\ \A i, k \in 1..u : i < k => inflight[i] < inflight[k]
      /\ Throws /\ inflight[u] = n /\ u \in 1..u
  BY <1>1, LiveType, InflightType, UnwindingFrame DEF ExceptionsInv
<1>3. Len(real') = n - 1 /\ \A j \in 1..n - 1 : real'[j] = real[j]
  <2>1. real' = SubSeq(real, 1, n - 1) /\ n - 1 \in 0..n /\ real \in Seq(Activation)
    BY <1>1, <1>2 DEF RealWithoutTop, TypeOK
  <2> QED
    BY <2>1, PrefixProperty
<1>4. Len(inflight') = u /\ inflight'[u] = n - 1
      /\ \A i \in 1..u : i # u => inflight'[i] = inflight[i]
  <2>1. inflight \in Seq(Nat) /\ n - 1 \in Nat
    BY <1>1, <1>2 DEF TypeOK
  <2>2. inflight' \in Seq(Nat) /\ Len(inflight') = Len(inflight)
    BY <1>1, <1>2, <2>1, ExceptSeq
  <2> QED
    BY <1>1, <1>2, <2>2
<1> HIDE DEF n, u
<1>5. \A i \in 1..u : i # u => inflight[i] < n - 1
  <2> SUFFICES ASSUME NEW i \in 1..u, i # u PROVE inflight[i] < n - 1
    OBVIOUS
  <2>1. u > 1 /\ u - 1 \in 1..u /\ i <= u - 1
    BY <1>2
  <2>2. inflight[u - 1] < n - 1 /\ inflight[u - 1] \in Nat /\ inflight[i] \in Nat
    BY <1>1, <1>2, <2>1
  <2>3. i < u - 1 => inflight[i] < inflight[u - 1]
    BY <1>2, <2>1
  <2>4. CASE i = u - 1
    BY <2>2, <2>4
  <2>5. CASE i < u - 1
    BY <1>2, <2>2, <2>3, <2>5
  <2> QED
    BY <1>2, <2>1, <2>4, <2>5
<1>6. ExceptionsNest'
  <2>1. \A i \in 1..u : inflight'[i] \in 1..n - 1
    <3> TAKE i \in 1..u
    <3>1. n - 1 \in 1..n - 1
      BY <1>1, <1>2 DEF n
    <3>2. CASE i = u
      BY <1>4, <3>1, <3>2
    <3>3. CASE i # u
      BY <1>2, <1>4, <1>5, <3>3
    <3> QED
      BY <3>2, <3>3
  <2>2. \A i, k \in 1..u : i < k => inflight'[i] < inflight'[k]
    <3> SUFFICES ASSUME NEW i \in 1..u, NEW k \in 1..u, i < k
                 PROVE  inflight'[i] < inflight'[k]
      OBVIOUS
    <3>1. i # u
      BY <1>2
    <3>2. CASE k = u
      BY <1>4, <1>5, <3>1, <3>2
    <3>3. CASE k # u
      BY <1>2, <1>4, <3>1, <3>3
    <3> QED
      BY <3>2, <3>3
  <2> QED
    BY <1>2, <1>3, <1>4, <2>1, <2>2 DEF ExceptionsNest
<1>7. \A j \in 1..n - 1, c \in Nat : Tells(inflight, j, c) => Tells(inflight', j, c)
  <2> SUFFICES ASSUME NEW j \in 1..n - 1, NEW c \in Nat, Tells(inflight, j, c)
               PROVE  Tells(inflight', j, c)
    OBVIOUS
  <2>1. \A i \in 1..u : inflight'[i] < j <=> inflight[i] < j
    <3> TAKE i \in 1..u
    <3>1. CASE i = u
      BY <1>2, <1>4, <3>1
    <3>2. CASE i # u
      BY <1>4, <3>2
    <3> QED
      BY <3>1, <3>2
  <2> QED
    BY <1>2, <1>4, <2>1 DEF Tells
<1>8. UncaughtTells'
  <2>1. n - 1 \in 0..Len(real)
    BY <1>1, <1>2 DEF n
  <2> QED
    BY <1>3, <1>7, <2>1, UncaughtKept DEF ExceptionsInv
<1> QED
  BY <1>6, <1>8 DEF ExceptionsInv

\* A catch ends the innermost exception where it is.
LEMMA ExceptionsAfterCatch ==
    ASSUME TypeOK, TypeOK', LiveRecordsKept', ExceptionsInv,
           UnwindingTop, inflight' = InflightWithoutTop, UNCHANGED real,
           \A i \in 1..Len(frames') : /\ i \in 1..Len(frames)
                                      /\ frames'[i].uncaught = frames[i].uncaught
    PROVE  ExceptionsInv'
<1> DEFINE n == Len(real)
           u == Uncaught
<1>1. /\ u \in Nat /\ u = Len(inflight) /\ n \in Nat
      /\ \A i \in 1..u : inflight[i] \in 1..n /\ inflight[i] \in Nat
      /\ \A i, k \in 1..u : i < k => inflight[i] < inflight[k]
      /\ Throws /\ inflight[u] = n /\ u \in 1..u
  BY LiveType, InflightType, UnwindingFrame DEF ExceptionsInv
<1>2. Len(inflight') = u - 1 /\ \A i \in 1..u - 1 : inflight'[i] = inflight[i]
  <2>1. u - 1 \in 0..Len(inflight) /\ inflight \in Seq(Nat)
    BY <1>1 DEF TypeOK
  <2>2. inflight' = SubSeq(inflight, 1, u - 1)
    BY DEF InflightWithoutTop
  <2> QED
    BY <2>1, <2>2, PrefixProperty
<1> HIDE DEF n, u
<1>3. \A i \in 1..u - 1 : i \in 1..u
  BY <1>1
<1>4. ExceptionsNest'
  <2>1. \A i \in 1..u - 1 : inflight'[i] \in 1..n
    BY <1>1, <1>2, <1>3
  <2>2. \A i, k \in 1..u - 1 : i < k => inflight'[i] < inflight'[k]
    BY <1>1, <1>2, <1>3
  <2> QED
    BY <1>1, <1>2, <2>1, <2>2 DEF ExceptionsNest, n
<1>5. \A j \in 1..n, c \in Nat : Tells(inflight, j, c) => Tells(inflight', j, c)
  <2> SUFFICES ASSUME NEW j \in 1..n, NEW c \in Nat, Tells(inflight, j, c)
               PROVE  Tells(inflight', j, c)
    OBVIOUS
  <2>1. ~(inflight[u] < j)
    BY <1>1
  <2>2. c <= u /\ \A i \in 1..u : inflight[i] < j <=> i <= c
    BY <1>1 DEF Tells
  <2>3. c <= u - 1
    BY <1>1, <2>1, <2>2
  <2> QED
    BY <1>2, <1>3, <2>2, <2>3 DEF Tells
<1>6. UncaughtTells'
  <2>1. Len(real) \in 0..Len(real) /\ Len(real') = Len(real)
    BY <1>1 DEF n
  <2> QED
    BY <1>5, <2>1, UncaughtKept DEF ExceptionsInv, n
<1> QED
  BY <1>4, <1>6 DEF ExceptionsInv

LEMMA ExceptionsAfterThrow ==
    ASSUME TypeOK, TypeOK', LiveRecordsKept', ExceptionsInv, Throw
    PROVE  ExceptionsInv'
<1> DEFINE n == Len(real)
           u == Uncaught
<1>1. /\ Throws /\ n > Floor /\ inflight' = Append(inflight, n)
      /\ real' = real /\ frames' = frames
  BY DEF Throw
<1>2. /\ u \in Nat /\ u = Len(inflight) /\ Floor \in Nat /\ n \in Nat
      /\ \A i \in 1..u : inflight[i] <= Floor /\ inflight[i] \in 1..n
      /\ \A i, k \in 1..u : i < k => inflight[i] < inflight[k]
  BY InflightType, LiveType DEF ExceptionsInv
<1>3. Len(inflight') = u + 1 /\ inflight'[u + 1] = n
      /\ \A i \in 1..u : inflight'[i] = inflight[i]
  <2>1. inflight \in Seq(Nat) /\ n \in Nat
    BY <1>2 DEF TypeOK
  <2> QED
    BY <1>1, <1>2, <2>1, AppendProperties
<1> HIDE DEF n, u
<1>4. \A i : i \in 1..u + 1 <=> i \in 1..u \/ i = u + 1
  BY <1>2
<1>5. ExceptionsNest'
  <2>1. \A i \in 1..u + 1 : inflight'[i] \in 1..n
    BY <1>1, <1>2, <1>3, <1>4
  <2>2. \A i, k \in 1..u + 1 : i < k => inflight'[i] < inflight'[k]
    <3> SUFFICES ASSUME NEW i \in 1..u + 1, NEW k \in 1..u + 1, i < k
                 PROVE  inflight'[i] < inflight'[k]
      OBVIOUS
    <3>1. i \in 1..u
      BY <1>2
    <3>2. CASE k = u + 1
      BY <1>1, <1>2, <1>3, <3>1, <3>2
    <3>3. CASE k \in 1..u
      BY <1>2, <1>3, <3>1, <3>3
    <3> QED
      BY <1>4, <3>2, <3>3
  <2> QED
    BY <1>1, <1>3, <2>1, <2>2 DEF ExceptionsNest, n
<1>6. \A j \in 1..n, c \in Nat : Tells(inflight, j, c) => Tells(inflight', j, c)
  <2> SUFFICES ASSUME NEW j \in 1..n, NEW c \in Nat, Tells(inflight, j, c)
               PROVE  Tells(inflight', j, c)
    OBVIOUS
  <2>1. c <= u /\ \A i \in 1..u : inflight[i] < j <=> i <= c
    BY <1>2 DEF Tells
  <2>2. c <= u + 1 /\ ~(n < j) /\ ~(u + 1 <= c)
    BY <1>2, <2>1
  <2>3. \A i \in 1..u + 1 : inflight'[i] < j <=> i <= c
    BY <1>3, <1>4, <2>1, <2>2
  <2> QED
    BY <1>3, <2>2, <2>3 DEF Tells
<1>7. UncaughtTells'
  <2>1. Len(real) \in 0..Len(real) /\ Len(real') = Len(real)
    BY <1>1, <1>2 DEF n
  <2>2. \A i \in 1..Len(frames') : /\ i \in 1..Len(frames)
                                   /\ frames'[i].uncaught = frames[i].uncaught
    BY <1>1
  <2> QED
    BY <1>1, <1>6, <2>1, <2>2, UncaughtKept DEF ExceptionsInv, n
<1> QED
  BY <1>5, <1>7 DEF ExceptionsInv

\* A new frame is entered under every exception in flight.
LEMMA ExceptionsAfterEnter ==
    ASSUME TypeOK, TypeOK', LiveRecordsKept, LiveRecordsKept', ExceptionsInv,
           NEW s \in Sites,
           \/ EnterOverflowed(s) \/ EnterWithoutSlot(s)
           \/ \E o \in Outcomes : EnterRecorded(s, o)
    PROVE  ExceptionsInv'
<1> DEFINE n == Len(real)
<1>1. n \in Nat /\ Len(inflight) \in Nat
      /\ \A i \in 1..Len(inflight) : inflight[i] \in 1..n
  BY LiveType, LenProperties DEF ExceptionsInv, ExceptionsNest, TypeOK
<1>2. ASSUME Len(real') = n + 1, UNCHANGED inflight PROVE ExceptionsNest'
  <2> HIDE DEF n
  <2>1. \A i \in 1..Len(inflight) : inflight[i] \in 1..n + 1
    BY <1>1
  <2> QED
    BY <1>2, <2>1 DEF ExceptionsInv, ExceptionsNest
<1>3. CASE EnterOverflowed(s) \/ EnterWithoutSlot(s)
  <2>1. /\ real' = Append(real, Entered(s, 0)) /\ frames' = frames /\ inflight' = inflight
        /\ CanEnter(s) /\ 0 \in Nat
    BY <1>3 DEF EnterOverflowed, EnterWithoutSlot
  <2>2. real \in Seq(Activation) /\ Entered(s, 0) \in Activation
    BY <2>1, EnteredType DEF TypeOK
  <2>3. /\ Len(real') = n + 1 /\ \A j \in 1..n : real'[j] = real[j]
        /\ real'[n + 1] = Entered(s, 0)
    BY <2>1, <2>2, AppendProperties
  <2>4. real'[n + 1].rec = 0
    BY <2>3 DEF Entered
  <2>5. \A j \in 1..n + 1 : real'[j].rec # 0 => j \in 1..Len(real) /\ real'[j] = real[j]
    BY <1>1, <2>3, <2>4
  <2>6. UncaughtTells'
    BY <2>1, <2>3, <2>5 DEF ExceptionsInv, UncaughtTells
  <2> QED
    BY <1>2, <2>1, <2>3, <2>6 DEF ExceptionsInv
<1>4. ASSUME NEW o \in Outcomes, EnterRecorded(s, o)
      PROVE  ExceptionsInv'
  <2> DEFINE kept == EnterKeeps(s, o)
             record == NewRecord(Entered(s, 0), o)
  <2>1. /\ kept \in 0..Len(frames) /\ Len(frames') = kept + 1
        /\ \A i \in 1..kept : frames'[i] = frames[i]
        /\ frames'[kept + 1] = record
        /\ Len(real') = n + 1 /\ real' \in Seq(Activation)
        /\ \A j \in 1..n : real'[j] = real[j]
        /\ real'[n + 1] = Entered(s, kept + 1)
        /\ inflight' = inflight
    BY <1>4, EnterRecordedProperty
  <2>2. Len(frames) \in Nat /\ \A j \in 1..n : real[j].rec \in Nat
    BY LiveType, RecordType
  <2>3. real'[n + 1].rec = kept + 1 /\ record.uncaught = Len(inflight)
    BY <2>1 DEF Entered, NewRecord, Uncaught
  <2>4. ExceptionsNest'
    BY <1>2, <2>1
  <2> HIDE DEF n, kept, record
  <2>5. \A j : j \in 1..n + 1 <=> j \in 1..n \/ j = n + 1
    BY <1>1
  <2>6. \A j \in 1..n : real[j].rec <= kept
    <3>1. n + 1 \in DOMAIN real' /\ kept + 1 # 0
      BY <1>1, <2>1, <2>2, LenProperties
    <3>2. \A j \in 1 .. (n + 1) - 1 : real'[j].rec < real'[n + 1].rec
      <4> DEFINE top == n + 1
      <4>1. top \in DOMAIN real' /\ real'[top].rec # 0
        BY <2>1, <2>3, <3>1
      <4> HIDE DEF top
      <4>2. \A j \in 1 .. top - 1 : real'[j].rec < real'[top].rec
        BY <4>1 DEF LiveRecordsKept
      <4> QED
        BY <4>2 DEF top
    <3> TAKE j \in 1..n
    <3>3. real'[j] = real[j] /\ j \in 1 .. (n + 1) - 1
      BY <1>1, <2>1
    <3>4. real[j].rec < kept + 1
      BY <2>3, <3>2, <3>3
    <3> QED
      BY <2>1, <2>2, <3>4
  <2>7. UncaughtTells'
    <3> SUFFICES ASSUME NEW j \in 1..n + 1, real'[j].rec # 0
                 PROVE  Tells(inflight, j, frames'[real'[j].rec].uncaught)
      BY <2>1 DEF UncaughtTells
    <3>1. CASE j \in 1..n
      <4>1. real'[j] = real[j] /\ real[j].rec \in 1..kept
        BY <2>1, <2>2, <2>6, <3>1
      <4>2. frames'[real'[j].rec] = frames[real[j].rec]
        BY <2>1, <4>1
      <4>3. Tells(inflight, j, frames[real[j].rec].uncaught)
        BY <3>1, <4>1 DEF ExceptionsInv, UncaughtTells, n
      <4> QED
        BY <4>2, <4>3
    <3>2. CASE j = n + 1
      <4>1. frames'[real'[j].rec].uncaught = Len(inflight)
        BY <2>1, <2>3, <3>2
      <4>2. \A i \in 1..Len(inflight) : inflight[i] < j /\ i <= Len(inflight)
        BY <1>1, <3>2
      <4> QED
        BY <1>1, <4>1, <4>2 DEF Tells
    <3> QED
      BY <2>5, <3>1, <3>2
  <2> QED
    BY <2>4, <2>7 DEF ExceptionsInv
<1> QED
  BY <1>3, <1>4

\* What an exit writes on its own line: the frame saw every exception in flight
\* that has not reached it.
TrueMarks == {[fate |-> "returned", how |-> "|"],
              [fate |-> "unwound",  how |-> "!"],
              [fate |-> "jumped",   how |-> "~"]}

LEMMA OwnMarkIsTrue ==
    ASSUME TypeOK, LiveRecordsKept, ExceptionsInv, real # <<>>, Top.rec # 0, NEW why,
           \/ why = "returned" /\ Len(real) > Floor
           \/ why = "unwound" /\ UnwindingTop
    PROVE  [fate |-> why, how |-> IF LeftByException(Top.rec) THEN "!" ELSE "|"] \in TrueMarks
<1> DEFINE n == Len(real)
           u == Uncaught
           unc == frames[Top.rec].uncaught
<1>1. n \in Nat \ {0} /\ Top = real[n] /\ n \in 1..n
  BY TopType
<1>2. Top.rec \in 1..Len(frames)
  BY <1>1, LiveRecord
<1>3. unc \in Nat
  BY <1>2, RecordType DEF FrameRecord
<1>4. Tells(inflight, n, unc)
  BY <1>1 DEF ExceptionsInv, UncaughtTells
<1>5. /\ u \in Nat /\ u = Len(inflight)
      /\ \A i \in 1..u : inflight[i] <= Floor /\ inflight[i] \in Nat
      /\ Floor = IF u = 0 THEN 0 ELSE inflight[u]
      /\ Floor \in Nat /\ (u = 0 <=> inflight = <<>>)
  BY InflightType DEF ExceptionsInv
<1>6. unc <= u /\ \A i \in 1..u : inflight[i] < n <=> i <= unc
  BY <1>4, <1>5 DEF Tells
<1>7. LeftByException(Top.rec) <=> u > unc
  BY DEF LeftByException
<1>8. UnwindingTop <=> u # 0 /\ Floor = n
  BY <1>5 DEF UnwindingTop
<1> HIDE DEF n, u, unc
<1>9. CASE why = "returned" /\ n > Floor
  <2>1. u # 0 => u \in 1..u /\ inflight[u] < n
    BY <1>1, <1>5, <1>9
  <2>2. ~(u > unc)
    BY <1>3, <1>5, <1>6, <2>1
  <2> QED
    BY <1>7, <1>9, <2>2 DEF TrueMarks
<1>10. CASE why = "unwound" /\ UnwindingTop
  <2>1. u \in 1..u /\ ~(inflight[u] < n)
    BY <1>1, <1>5, <1>8, <1>10
  <2>2. u > unc
    BY <1>3, <1>5, <1>6, <2>1
  <2> QED
    BY <1>7, <1>10, <2>2 DEF TrueMarks
<1> QED
  BY <1>9, <1>10 DEF n

LEMMA ExceptionsInit == Init => ExceptionsInv
<1> SUFFICES ASSUME Init PROVE ExceptionsInv
  OBVIOUS
<1>1. inflight = <<>> /\ Len(real) = 0 /\ Len(inflight) = 0
  BY EmptySeq DEF Init
<1> QED
  BY <1>1 DEF ExceptionsInv, ExceptionsNest, UncaughtTells

LEMMA ExceptionsStep ==
    (TypeOK /\ TypeOK' /\ LiveRecordsKept /\ LiveRecordsKept' /\ ExceptionsInv
       /\ [Next]_vars) => ExceptionsInv'
<1> SUFFICES ASSUME TypeOK, TypeOK', LiveRecordsKept, LiveRecordsKept', ExceptionsInv,
                    [Next]_vars
             PROVE  ExceptionsInv'
  OBVIOUS
<1> DEFINE Known == \A i \in 1..Len(frames') : /\ i \in 1..Len(frames)
                                               /\ frames'[i].uncaught = frames[i].uncaught
<1>1. Len(real) \in Nat /\ Len(frames) \in Nat
  BY LiveType, RecordType
<1>2. ASSUME OtherStep PROVE Known
  <2>1. PICK kept \in 0..Len(frames) : /\ Len(frames') = kept
                                       /\ \A i \in 1..kept : SameRecord(frames'[i], frames[i])
    BY <1>2, OthersOnlyShorten
  <2> QED
    BY <1>1, <2>1 DEF SameRecord
<1> HIDE DEF Known
<1>3. ASSUME NEW s \in Sites,
             \/ EnterOverflowed(s) \/ EnterWithoutSlot(s)
             \/ \E o \in Outcomes : EnterRecorded(s, o)
      PROVE  ExceptionsInv'
  BY <1>3, ExceptionsAfterEnter
<1>4. ASSUME NEW k \in 0..Len(real), real' = SubSeq(real, 1, k), Floor <= k,
             UNCHANGED inflight, Known
      PROVE  ExceptionsInv'
  <2>1. Len(real') = k /\ \A j \in 1..k : real'[j] = real[j]
    BY <1>4, PrefixProperty DEF TypeOK
  <2> QED
    BY <1>4, <2>1, ExceptionsAfterLeaving DEF Known
<1>5. CASE Return
  <2>1. /\ real # <<>> /\ Len(real) > Floor /\ real' = SubSeq(real, 1, Len(real) - 1)
        /\ UNCHANGED inflight
    BY <1>5 DEF Return, RealWithoutTop
  <2>2. Len(real) - 1 \in 0..Len(real) /\ Floor <= Len(real) - 1
    BY <1>1, <2>1, TopType, InflightType DEF ExceptionsInv
  <2> QED
    BY <1>2, <1>4, <1>5, <2>1, <2>2 DEF OtherStep
<1>6. ASSUME NEW k \in 1..MaxDepth, Longjmp(k)
       PROVE  ExceptionsInv'
  <2>1. /\ k < Len(real) /\ k > Floor /\ real' = SubSeq(real, 1, k)
        /\ UNCHANGED inflight
    BY <1>6 DEF Longjmp
  <2>2. k \in 0..Len(real) /\ Floor <= k
    BY <1>1, <2>1, InflightType, ProgramAssumption DEF ExceptionsInv
  <2> QED
    BY <1>2, <1>4, <1>6, <2>1, <2>2 DEF OtherStep
<1>7. CASE UnwindFrame
  BY <1>2, <1>7, ExceptionsAfterUnwinding DEF OtherStep, Known
<1>8. CASE Throw
  BY <1>8, ExceptionsAfterThrow
<1>9. ASSUME UnwindingTop, inflight' = InflightWithoutTop, UNCHANGED real, Known
       PROVE  ExceptionsInv'
  BY <1>9, ExceptionsAfterCatch DEF Known
<1>10. CASE Catch
  BY <1>2, <1>9, <1>10 DEF OtherStep, Catch
<1>11. CASE CatchInTerminateStub
  BY <1>2, <1>9, <1>11 DEF OtherStep, CatchInTerminateStub
<1>12. CASE UNCHANGED vars
  <2>1. UNCHANGED <<real, frames, inflight>>
    BY <1>12 DEF vars
  <2> QED
    BY <2>1 DEF ExceptionsInv, ExceptionsNest, UncaughtTells
<1> QED
  BY <1>3, <1>5, <1>6, <1>7, <1>8, <1>10, <1>11, <1>12 DEF Next, Enter
-------------------------------------------------------------------------------
(***************************************************************************)
(* While every frame leaves through its exit hook, the frame stack mirrors *)
(* the call stack, and everything that is written from it is exact.        *)
(***************************************************************************)
\* The overflow counter counts the innermost frames, which have no record.
CountedFramesOnTop ==
    \A j \in 1..Len(real) : Len(real) - j < overflow => real[j].rec = 0

ExactInv ==
    /\ EveryRecordIsLive
    /\ CountedFramesOnTop
    /\ MarksTellHowFramesEnded

\* What spares the record of every live frame spares every record.
LEMMA NothingDead ==
    ASSUME TypeOK, EveryRecordIsLive, NEW kept \in 0..Len(frames),
           \A j \in 1..Len(real) : real[j].rec <= kept
    PROVE  kept = Len(frames) /\ \A how : MarkLines(kept, how) = {}
<1>1. Len(frames) \in Nat
  BY RecordType
<1>2. kept = Len(frames)
  <2>1. ASSUME kept < Len(frames) PROVE FALSE
    <3>1. Len(frames) \in 1..Len(frames)
      BY <1>1, <2>1
    <3>2. PICK j \in 1..Len(real) : real[j].rec = Len(frames)
      BY <3>1 DEF EveryRecordIsLive
    <3> QED
      BY <1>1, <2>1, <3>2
  <2> QED
    BY <1>1, <2>1
<1>3. LoggedAbove(kept) = {}
  <2>1. kept + 1 .. Len(frames) = {}
    BY <1>1, <1>2
  <2> QED
    BY <2>1 DEF LoggedAbove
<1> QED
  BY <1>2, <1>3 DEF MarkLines

\* The innermost frame's record is the top one, unless the frame is counted.
LEMMA TopIsExact ==
    ASSUME TypeOK, LiveRecordsKept, UntrackedFramesCounted, ExactInv,
           real # <<>>
    PROVE  /\ overflow > 0 => Top.rec = 0
           /\ overflow = 0 => /\ frames # <<>> /\ Len(frames) \in Nat \ {0}
                              /\ Top.rec = Len(frames)
<1>1. Len(real) \in Nat \ {0} /\ Len(real) \in 1..Len(real) /\ Top = real[Len(real)]
      /\ overflow \in Nat
  BY TopType DEF TypeOK
<1>2. CASE overflow > 0
  <2>1. Len(real) - Len(real) < overflow
    BY <1>1, <1>2
  <2> QED
    BY <1>1, <1>2, <2>1 DEF ExactInv, CountedFramesOnTop
<1>3. CASE overflow = 0
  <2>1. Top.rec # 0
    BY <1>1, <1>3, AllTracked
  <2>2. Top.rec \in 1..Len(frames) /\ Len(frames) \in Nat
    BY <1>1, <2>1, LiveRecord, RecordType
  <2>3. Len(frames) \in 1..Len(frames)
    BY <2>2
  <2>4. PICK j \in 1..Len(real) : real[j].rec = Len(frames)
    BY <2>3 DEF ExactInv, EveryRecordIsLive
  <2>5. Len(frames) <= Top.rec
    BY <2>1, <2>4, TopRecordIsHighest
  <2>6. frames # <<>>
    BY <2>3, EmptySeq
  <2> QED
    BY <1>3, <2>2, <2>5, <2>6
<1> QED
  BY <1>1, <1>2, <1>3

(***************************************************************************)
(* An exit hook settles the record of its own frame, and no other.         *)
(***************************************************************************)
LEMMA ExitIsExact ==
    ASSUME TypeOK, NEW outer, NEW nesting, LiveInv(outer, nesting),
           ExitsAndCatchesAreSafe, ExactInv,
           real # <<>>, NEW tailCalled \in BOOLEAN, tailCalled => Top.body \in TailExit,
           NEW why, ExitHook(tailCalled, why)
    PROVE  \/ /\ overflow > 0 /\ overflow' = overflow - 1 /\ Top.rec = 0
              /\ frames' = frames /\ ended' = {}
           \/ /\ overflow = 0 /\ overflow' = 0
              /\ Len(frames) \in Nat \ {0} /\ Top.rec = Len(frames)
              /\ frames' = SubSeq(frames, 1, Len(frames) - 1)
              /\ ended' \subseteq
                   {[fate |-> why, how |-> IF LeftByException(Len(frames)) THEN "!" ELSE "|"]}
<1>1. LiveRecordsKept /\ UntrackedFramesCounted /\ overflow \in Nat
  BY DEF LiveInv, TypeOK
<1>2. CASE overflow > 0
  <2>1. Top.rec = 0
    BY <1>1, <1>2, TopIsExact
  <2> QED
    BY <1>1, <1>2, <2>1 DEF ExitHook, Drained
<1>3. CASE overflow = 0
  <2> DEFINE index == ExitIndex(tailCalled)
             own == {[fate |-> IF index = Top.rec THEN why ELSE frames[index].fate,
                      how  |-> IF LeftByException(index) THEN "!" ELSE "|"]}
  <2>1. frames # <<>> /\ Len(frames) \in Nat \ {0} /\ Top.rec = Len(frames)
    BY <1>1, <1>3, TopIsExact
  <2>2. /\ frames' = SubSeq(frames, 1, index - 1) /\ overflow' = 0
        /\ ended' = MarkLines(index, "~") \cup
             IF LogExceptions /\ frames[index].logged THEN own ELSE {}
    BY <1>3, <2>1 DEF ExitHook, ExitIndex, Drained
  <2>3. index \in 1..Len(frames)
    BY <2>1, ExitIndexType
  <2>4. \A j \in 1..Len(real) - 1 : real[j].rec < index
    BY <1>3, <2>1, ExitKeepsLive
  <2> HIDE DEF index
  <2>5. index = Len(frames)
    <3>1. ASSUME index < Len(frames) PROVE FALSE
      <4>1. index \in 1..Len(frames) /\ index # Top.rec
        BY <2>1, <2>3, <3>1
      <4>2. PICK j \in 1..Len(real) : real[j].rec = index
        BY <4>1 DEF ExactInv, EveryRecordIsLive
      <4>3. Len(real) \in Nat \ {0} /\ Top = real[Len(real)]
        BY TopType
      <4>4. j \in 1..Len(real) - 1
        BY <4>1, <4>2, <4>3
      <4> QED
        BY <2>3, <2>4, <4>2, <4>4
    <3> QED
      BY <2>1, <2>3, <3>1
  <2>6. MarkLines(index, "~") = {}
    <3>1. index + 1 .. Len(frames) = {}
      BY <2>1, <2>5
    <3>2. LoggedAbove(index) = {}
      BY <3>1 DEF LoggedAbove
    <3> QED
      BY <3>2 DEF MarkLines
  <2>7. ended' \subseteq own
    <3> HIDE DEF own
    <3> QED
      BY <2>2, <2>6
  <2> QED
    BY <1>3, <2>1, <2>2, <2>5, <2>7
<1> QED
  BY <1>1, <1>2, <1>3

(***************************************************************************)
(* The invariant, step by step.                                            *)
(***************************************************************************)
LEMMA ExactAfterCounted ==
    ASSUME TypeOK, LiveRecordsKept, ExactInv, NEW s \in Sites,
           EnterOverflowed(s) \/ EnterWithoutSlot(s)
    PROVE  ExactInv'
<1> DEFINE n == Len(real)
<1>1. /\ real' = Append(real, Entered(s, 0)) /\ frames' = frames /\ inflight' = inflight
      /\ overflow' = overflow + 1 /\ ended' = {} /\ CanEnter(s)
  BY DEF EnterOverflowed, EnterWithoutSlot
<1>2. n \in Nat /\ real \in Seq(Activation) /\ Entered(s, 0) \in Activation /\ overflow \in Nat
  <2>1. 0 \in Nat
    OBVIOUS
  <2> QED
    BY <1>1, <2>1, LiveType, EnteredType DEF TypeOK
<1>3. /\ Len(real') = n + 1 /\ \A j \in 1..n : real'[j] = real[j]
      /\ real'[n + 1] = Entered(s, 0)
  BY <1>1, <1>2, AppendProperties
<1>4. real'[n + 1].rec = 0
  BY <1>3 DEF Entered
<1> HIDE DEF n
<1>5. \A j : j \in 1..n + 1 <=> j \in 1..n \/ j = n + 1
  BY <1>2
<1>6. EveryRecordIsLive'
  BY <1>1, <1>3, <1>5 DEF ExactInv, EveryRecordIsLive, n
<1>7. CountedFramesOnTop'
  <2>1. ASSUME NEW j \in 1..n + 1, (n + 1) - j < overflow + 1 PROVE real'[j].rec = 0
    <3>1. CASE j \in 1..n
      <4>1. n - j < overflow
        BY <1>2, <2>1, <3>1
      <4>2. real[j].rec = 0
        BY <3>1, <4>1 DEF ExactInv, CountedFramesOnTop, n
      <4> QED
        BY <1>3, <3>1, <4>2
    <3> QED
      BY <1>4, <1>5, <3>1
  <2>2. Len(real') = n + 1 /\ overflow' = overflow + 1
    BY <1>1, <1>3
  <2> QED
    BY <1>2, <2>1, <2>2 DEF CountedFramesOnTop
<1> QED
  BY <1>1, <1>6, <1>7 DEF ExactInv, MarksTellHowFramesEnded

LEMMA ExactAfterRecorded ==
    ASSUME TypeOK, LiveRecordsKept, LiveRecordsKept', ExactInv,
           NEW s \in Sites, NEW o \in Outcomes, EnterRecorded(s, o)
    PROVE  ExactInv'
<1> DEFINE n == Len(real)
           kept == EnterKeeps(s, o)
           record == NewRecord(Entered(s, 0), o)
<1>1. /\ overflow = 0 /\ kept \in 0..Len(frames)
      /\ Len(frames') = kept + 1
      /\ \A i \in 1..kept : frames'[i] = frames[i]
      /\ frames'[kept + 1] = record
      /\ Len(real') = n + 1 /\ real' \in Seq(Activation)
      /\ \A j \in 1..n : real'[j] = real[j]
      /\ real'[n + 1] = Entered(s, kept + 1)
      /\ ended' = MarkLines(kept, EnterMark)
      /\ inflight' = inflight /\ overflow' = overflow
  BY EnterRecordedProperty
<1>2. n \in Nat /\ Len(frames) \in Nat /\ Len(inflight) \in Nat
      /\ \A j \in 1..n : real[j].rec \in Nat
  BY LiveType, RecordType, LenProperties DEF TypeOK
<1>3. real'[n + 1].rec = kept + 1 /\ record.uncaught = Len(inflight)
  BY <1>1 DEF Entered, NewRecord, Uncaught
<1> HIDE DEF n, kept, record
<1>4. \A j : j \in 1..n + 1 <=> j \in 1..n \/ j = n + 1
  BY <1>2
<1>5. \A j \in 1..n : real[j].rec <= kept
  <2>1. n + 1 \in DOMAIN real' /\ kept + 1 # 0
    BY <1>1, <1>2, LenProperties
  <2>2. \A j \in 1 .. (n + 1) - 1 : real'[j].rec < real'[n + 1].rec
    <3> DEFINE top == n + 1
    <3>1. top \in DOMAIN real' /\ real'[top].rec # 0
      BY <1>3, <2>1, <1>1
    <3> HIDE DEF top
    <3>2. \A j \in 1 .. top - 1 : real'[j].rec < real'[top].rec
      BY <3>1 DEF LiveRecordsKept
    <3> QED
      BY <3>2 DEF top
  <2> TAKE j \in 1..n
  <2>3. real[j].rec < kept + 1
    BY <1>1, <1>2, <1>3, <2>2
  <2> QED
    BY <1>1, <1>2, <2>3
<1>6. kept = Len(frames) /\ \A how : MarkLines(kept, how) = {}
  <2>1. \A j \in 1..Len(real) : real[j].rec <= kept
    BY <1>5 DEF n
  <2> QED
    BY <1>1, <2>1, NothingDead DEF ExactInv
<1>7. EveryRecordIsLive'
  <2> SUFFICES ASSUME NEW i \in 1..kept + 1
               PROVE  \E j \in 1..n + 1 : real'[j].rec = i
    BY <1>1 DEF EveryRecordIsLive
  <2>1. CASE i = kept + 1
    BY <1>3, <1>4, <2>1
  <2>2. CASE i # kept + 1
    <3>1. i \in 1..Len(frames)
      BY <1>2, <1>6, <2>2
    <3>2. PICK j \in 1..n : real[j].rec = i
      BY <3>1 DEF ExactInv, EveryRecordIsLive, n
    <3> QED
      BY <1>1, <1>4, <3>2
  <2> QED
    BY <2>1, <2>2
<1>8. CountedFramesOnTop'
  <2>1. \A j \in 1..n + 1 : ~(n + 1 - j < 0)
    BY <1>2
  <2> QED
    BY <1>1, <2>1 DEF CountedFramesOnTop
<1> QED
  BY <1>1, <1>6, <1>7, <1>8 DEF ExactInv, MarksTellHowFramesEnded

\* What an exit leaves of the two stacks still mirrors each other.
LEMMA StacksAfterExit ==
    ASSUME TypeOK, NEW outer, NEW nesting, LiveInv(outer, nesting),
           ExitsAndCatchesAreSafe, ExactInv,
           real # <<>>, NEW tailCalled \in BOOLEAN, tailCalled => Top.body \in TailExit,
           NEW why, ExitHook(tailCalled, why), real' = RealWithoutTop
    PROVE  /\ EveryRecordIsLive' /\ CountedFramesOnTop'
           /\ Len(real') = Len(real) - 1
           /\ \A j \in 1..Len(real) - 1 :
                /\ real'[j] = real[j]
                /\ real[j].rec # 0 => frames'[real[j].rec] = frames[real[j].rec]
<1> DEFINE n == Len(real)
           N == Len(frames)
<1>1. n \in Nat \ {0} /\ N \in Nat /\ overflow \in Nat /\ Top = real[n] /\ LiveRecordsKept
  BY TopType, RecordType DEF TypeOK, LiveInv
<1>2. Len(real') = n - 1 /\ \A j \in 1..n - 1 : real'[j] = real[j]
  <2>1. n - 1 \in 0..n /\ real \in Seq(Activation) /\ real' = SubSeq(real, 1, n - 1)
    BY <1>1 DEF RealWithoutTop, TypeOK
  <2> QED
    BY <2>1, PrefixProperty
<1>3. \A j \in 1..n : real[j].rec # 0 => real[j].rec \in 1..N
  BY <1>1, LiveRecord
<1>4. \A j \in 1..n - 1 : j \in 1..n
  BY <1>1
<1>5. CASE overflow > 0 /\ overflow' = overflow - 1 /\ Top.rec = 0 /\ frames' = frames
  <2> HIDE DEF n, N
  <2>1. EveryRecordIsLive'
    <3> SUFFICES ASSUME NEW i \in 1..N PROVE \E j \in 1..n - 1 : real'[j].rec = i
      BY <1>2, <1>5 DEF EveryRecordIsLive, N
    <3>1. PICK j \in 1..n : real[j].rec = i
      BY DEF ExactInv, EveryRecordIsLive, n, N
    <3>2. j # n
      BY <1>1, <1>5, <3>1
    <3>3. j \in 1..n - 1
      BY <1>1, <3>2
    <3> QED
      BY <1>2, <3>1, <3>3
  <2>2. CountedFramesOnTop'
    <3> SUFFICES ASSUME NEW j \in 1..n - 1, n - 1 - j < overflow - 1
                 PROVE  real'[j].rec = 0
      BY <1>2, <1>5 DEF CountedFramesOnTop
    <3>1. n - j < overflow
      BY <1>1
    <3>2. real[j].rec = 0
      BY <1>4, <3>1 DEF ExactInv, CountedFramesOnTop, n
    <3> QED
      BY <1>2, <3>2
  <2> QED
    BY <1>2, <1>5, <2>1, <2>2 DEF n
<1>6. CASE /\ overflow = 0 /\ overflow' = 0 /\ N \in Nat \ {0} /\ Top.rec = N
           /\ frames' = SubSeq(frames, 1, N - 1)
  <2>1. Len(frames') = N - 1 /\ \A i \in 1..N - 1 : frames'[i] = frames[i]
    <3>1. N - 1 \in 0..N /\ frames \in Seq(FrameRecord)
      BY <1>6 DEF TypeOK
    <3> QED
      BY <1>6, <3>1, PrefixProperty
  <2>2. \A j \in 1..n - 1 : real[j].rec < N
    <3>1. n \in 1..n /\ real[n].rec # 0 /\ real[n].rec = N
      BY <1>1, <1>6
    <3> HIDE DEF N
    <3> QED
      BY <1>1, <3>1, LiveRecord DEF n
  <2> HIDE DEF n, N
  <2>3. EveryRecordIsLive'
    <3> SUFFICES ASSUME NEW i \in 1..N - 1 PROVE \E j \in 1..n - 1 : real'[j].rec = i
      BY <1>2, <2>1 DEF EveryRecordIsLive
    <3>1. i \in 1..N /\ i # N
      BY <1>1
    <3>2. PICK j \in 1..n : real[j].rec = i
      BY <3>1 DEF ExactInv, EveryRecordIsLive, n, N
    <3>3. j # n
      BY <1>1, <1>6, <3>1, <3>2
    <3>4. j \in 1..n - 1
      BY <1>1, <3>3
    <3> QED
      BY <1>2, <3>2, <3>4
  <2>4. CountedFramesOnTop'
    <3>1. \A j \in 1..n - 1 : ~(n - 1 - j < 0)
      BY <1>1
    <3> QED
      BY <1>2, <1>6, <3>1 DEF CountedFramesOnTop
  <2>5. \A j \in 1..n - 1 : real[j].rec # 0 => frames'[real[j].rec] = frames[real[j].rec]
    <3> TAKE j \in 1..n - 1
    <3>1. real[j].rec # 0 => real[j].rec \in 1..N /\ real[j].rec < N
      BY <1>3, <1>4, <2>2
    <3>2. real[j].rec # 0 => real[j].rec \in 1..N - 1
      BY <1>1, <3>1
    <3> QED
      BY <2>1, <3>2
  <2> QED
    BY <1>2, <2>3, <2>4, <2>5 DEF n
<1> QED
  BY <1>5, <1>6, ExitIsExact

LEMMA MarksAfterExit ==
    ASSUME TypeOK, NEW outer, NEW nesting, LiveInv(outer, nesting),
           ExitsAndCatchesAreSafe, ExceptionsInv, ExactInv,
           real # <<>>, NEW tailCalled \in BOOLEAN, tailCalled => Top.body \in TailExit,
           NEW why, ExitHook(tailCalled, why),
           \/ why = "returned" /\ Len(real) > Floor
           \/ why = "unwound" /\ UnwindingTop
    PROVE  MarksTellHowFramesEnded'
<1> DEFINE own == [fate |-> why, how |-> IF LeftByException(Len(frames)) THEN "!" ELSE "|"]
<1>1. \/ ended' = {}
      \/ Len(frames) # 0 /\ Top.rec = Len(frames) /\ ended' \subseteq {own}
  BY ExitIsExact
<1>2. Top.rec = Len(frames) /\ Len(frames) # 0 => own \in TrueMarks
  BY OwnMarkIsTrue DEF LiveInv
<1> HIDE DEF own
<1> QED
  BY <1>1, <1>2 DEF MarksTellHowFramesEnded, TrueMarks

LEMMA ExactAfterReturn ==
    ASSUME TypeOK, NEW outer, NEW nesting, LiveInv(outer, nesting),
           ExitsAndCatchesAreSafe, ExceptionsInv, ExactInv, Return
    PROVE  ExactInv'
<1>1. /\ real # <<>> /\ Len(real) > Floor /\ ExitHook(Top.body \in TailExit, "returned")
      /\ real' = RealWithoutTop /\ (Top.body \in TailExit) \in BOOLEAN
  BY DEF Return
<1>2. EveryRecordIsLive' /\ CountedFramesOnTop'
  BY <1>1, StacksAfterExit
<1>3. MarksTellHowFramesEnded'
  BY <1>1, MarksAfterExit
<1> QED
  BY <1>2, <1>3 DEF ExactInv

LEMMA ExactAfterUnwinding ==
    ASSUME TypeOK, NEW outer, NEW nesting, LiveInv(outer, nesting),
           ExitsAndCatchesAreSafe, ExceptionsInv, ExactInv,
           UnwindFrame, ExitHook(FALSE, "unwound")
    PROVE  ExactInv'
<1>1. UnwindingTop /\ real' = RealWithoutTop
  BY DEF UnwindFrame
<1>2. real # <<>>
  BY <1>1, UnwindingFrame DEF ExceptionsInv
<1>3. EveryRecordIsLive' /\ CountedFramesOnTop'
  BY <1>1, <1>2, StacksAfterExit
<1>4. MarksTellHowFramesEnded'
  BY <1>1, <1>2, MarksAfterExit
<1> QED
  BY <1>3, <1>4 DEF ExactInv

\* A catch logs its line and reclaims nothing.
LEMMA CatchReclaimsNothing ==
    ASSUME TypeOK, NEW outer, NEW nesting, LiveInv(outer, nesting),
           ExitsAndCatchesAreSafe, ExceptionsInv, ExactInv, Catch
    PROVE  frames' = frames /\ ended' = {} /\ UNCHANGED <<real, overflow>>
<1>1. UNCHANGED real /\ UnwindingTop
  BY DEF Catch
<1>2. real # <<>>
  BY <1>1, UnwindingFrame DEF ExceptionsInv
<1>3. CASE LogExceptions
  <2>1. PICK kept \in OnCatchKeeps(Top.level) : PopTo(kept, "!")
    BY <1>3 DEF Catch
  <2>2. \A j \in 1..Len(real) : real[j].rec <= kept
    BY <1>2, <1>3, CatchKeepsLive
  <2>3. kept \in 0..Len(frames)
    BY <1>2, OnCatchKeepsType
  <2>4. kept = Len(frames) /\ \A how : MarkLines(kept, how) = {}
    BY <2>2, <2>3, NothingDead DEF ExactInv
  <2>5. frames' = SubSeq(frames, 1, kept) /\ ended' = MarkLines(kept, "!") /\ UNCHANGED overflow
    BY <2>1 DEF PopTo
  <2>6. SubSeq(frames, 1, Len(frames)) = frames
    BY SubSeqFull DEF TypeOK
  <2> QED
    BY <1>1, <2>4, <2>5, <2>6
<1>4. CASE ~LogExceptions
  BY <1>1, <1>4 DEF Catch
<1> QED
  BY <1>3, <1>4

LEMMA ExactAfterCatch ==
    ASSUME TypeOK, NEW outer, NEW nesting, LiveInv(outer, nesting),
           ExitsAndCatchesAreSafe, ExceptionsInv, ExactInv, Catch
    PROVE  ExactInv'
<1>1. frames' = frames /\ ended' = {} /\ real' = real /\ overflow' = overflow
  BY CatchReclaimsNothing
<1> QED
  BY <1>1 DEF ExactInv, EveryRecordIsLive, CountedFramesOnTop, MarksTellHowFramesEnded

LEMMA ExactInit == Init => ExactInv
<1> SUFFICES ASSUME Init PROVE ExactInv
  OBVIOUS
<1>1. /\ real = <<>> /\ frames = <<>> /\ ended = {}
      /\ Len(real) = 0 /\ Len(frames) = 0
  BY DEF Init
<1>2. 1..Len(real) = {} /\ 1..Len(frames) = {}
  BY <1>1
<1> QED
  BY <1>1, <1>2 DEF ExactInv, EveryRecordIsLive, CountedFramesOnTop,
     MarksTellHowFramesEnded

\* Without a throw nothing is in flight, and Clang's steps need an exception.
LEMMA ClangNeverUnwinds ==
    ASSUME TypeOK, EveryFrameRunsItsExit, ExceptionsInv, UnwindingTop
    PROVE  Compiler = "gcc"
<1>1. Throws
  BY UnwindingFrame DEF ExceptionsInv
<1> QED
  BY <1>1 DEF EveryFrameRunsItsExit

LEMMA ExactStep ==
    ASSUME NEW outer, NEW nesting, NamesTellFramesApart(outer, nesting),
           ExitsAndCatchesAreSafe,
           EveryFrameRunsItsExit
    PROVE  (TypeOK /\ TypeOK' /\ LiveInv(outer, nesting) /\ LiveInv(outer, nesting)'
              /\ ExceptionsInv /\ ExactInv /\ [Next]_vars) => ExactInv'
<1> SUFFICES ASSUME TypeOK, TypeOK', LiveInv(outer, nesting), LiveInv(outer, nesting)',
                    ExceptionsInv, ExactInv, [Next]_vars
             PROVE  ExactInv'
  OBVIOUS
<1> USE DEF LiveInv
<1>1. ASSUME NEW s \in Sites, EnterOverflowed(s) \/ EnterWithoutSlot(s)
      PROVE  ExactInv'
  BY <1>1, ExactAfterCounted
<1>2. ASSUME NEW s \in Sites, NEW o \in Outcomes, EnterRecorded(s, o)
      PROVE  ExactInv'
  <2>1. LiveRecordsKept /\ LiveRecordsKept'
    OBVIOUS
  <2> QED
    BY <1>2, <2>1, ExactAfterRecorded
<1>3. CASE Return
  BY <1>3, ExactAfterReturn
<1>4. ASSUME NEW k \in 1..MaxDepth, Longjmp(k)
      PROVE  ExactInv'
  BY <1>4 DEF Longjmp, EveryFrameRunsItsExit
<1>5. CASE UnwindFrame
  <2>1. UnwindingTop
    BY <1>5 DEF UnwindFrame
  <2>2. Compiler = "gcc"
    BY <2>1, ClangNeverUnwinds
  <2>3. ExitHook(FALSE, "unwound")
    BY <1>5, <2>2 DEF UnwindFrame
  <2> QED
    BY <1>5, <2>3, ExactAfterUnwinding
<1>6. CASE Throw
  BY <1>6 DEF Throw, ExactInv, EveryRecordIsLive, CountedFramesOnTop,
     MarksTellHowFramesEnded
<1>7. CASE Catch
  BY <1>7, ExactAfterCatch
<1>8. CASE CatchInTerminateStub
  <2>1. UnwindingTop /\ Compiler = "clang"
    BY <1>8 DEF CatchInTerminateStub
  <2> QED
    BY <2>1, ClangNeverUnwinds
<1>9. CASE UNCHANGED vars
  BY <1>9 DEF vars, ExactInv, EveryRecordIsLive, CountedFramesOnTop,
     MarksTellHowFramesEnded
<1> QED
  BY <1>1, <1>2, <1>3, <1>4, <1>5, <1>6, <1>7, <1>8, <1>9 DEF Next, Enter

\* As many live frames are logged as there are logged records.
LEMMA LiveLoggedCount ==
    ASSUME TypeOK, LiveRecordsKept, ExactInv
    PROVE  Cardinality(LiveLogged) = Cardinality({i \in DOMAIN frames : frames[i].logged})
<1> DEFINE S == LiveLogged
           T == {i \in DOMAIN frames : frames[i].logged}
           f == [j \in S |-> real[j].rec]
<1>1. DOMAIN real = 1..Len(real) /\ DOMAIN frames = 1..Len(frames) /\ Len(real) \in Nat
  BY LiveType, RecordType
<1>2. S \subseteq 1..Len(real) /\ f \in [S -> T]
  BY <1>1 DEF LiveLogged
<1>3. IsFiniteSet(S)
  <2>1. IsFiniteSet(1..Len(real))
    BY <1>1, FS_Interval
  <2> QED
    BY <1>2, <2>1, FS_Subset
<1>4. \A j, k \in S : f[j] = f[k] => j = k
  <2> SUFFICES ASSUME NEW j \in S, NEW k \in S, j < k PROVE f[j] # f[k]
    BY <1>1, <1>2
  <2>1. /\ j \in 1..k - 1 /\ k \in 1..Len(real)
        /\ real[k].rec # 0 /\ real[j].rec \in Nat /\ real[k].rec \in Nat
    <3>1. real[k].rec \in 1..Len(frames)
      BY <1>1 DEF LiveLogged
    <3> QED
      BY <1>1, <1>2, <3>1, LiveType
  <2>2. real[j].rec < real[k].rec
    BY <2>1, LiveRecord
  <2> QED
    BY <2>1, <2>2
<1>5. \A i \in T : \E j \in S : f[j] = i
  <2> TAKE i \in T
  <2>1. PICK j \in 1..Len(real) : real[j].rec = i
    BY <1>1 DEF ExactInv, EveryRecordIsLive
  <2>2. j \in S
    BY <1>1, <2>1 DEF LiveLogged
  <2> QED
    BY <2>1, <2>2
<1> HIDE DEF S, T, f
<1>6. ExistsBijection(S, T)
  BY <1>2, <1>4, <1>5 DEF ExistsBijection, Bijection, Injection, Surjection, IsInjective
<1>7. Cardinality(T) = Cardinality(S)
  BY <1>3, <1>6, FS_Bijection
<1> QED
  BY <1>7 DEF S, T

LEMMA ExactCorrect ==
    ASSUME NEW CONSTANT outer, NEW CONSTANT nesting,
           NamesTellFramesApart(outer, nesting),
           ExitsAndCatchesAreSafe, EveryFrameRunsItsExit
    PROVE  Spec => [](TypeOK /\ LiveInv(outer, nesting) /\ ExceptionsInv /\ ExactInv)
<1>1. Init => LiveInv(outer, nesting) /\ ExceptionsInv /\ ExactInv
  BY LiveInit, ExceptionsInit, ExactInit
<1>2. (TypeOK /\ TypeOK' /\ LiveInv(outer, nesting) /\ ExactInv /\ [Next]_vars)
        => LiveInv(outer, nesting)'
  <2>1. ExactInv => EveryRecordIsLive
    BY DEF ExactInv
  <2> QED
    BY <2>1, LiveStep
<1>3. (TypeOK /\ TypeOK' /\ LiveInv(outer, nesting) /\ LiveInv(outer, nesting)'
         /\ ExceptionsInv /\ [Next]_vars) => ExceptionsInv'
  BY ExceptionsStep DEF LiveInv
<1>4. (TypeOK /\ TypeOK' /\ LiveInv(outer, nesting) /\ LiveInv(outer, nesting)'
         /\ ExceptionsInv /\ ExactInv /\ [Next]_vars) => ExactInv'
  BY ExactStep
<1> QED
  BY <1>1, <1>2, <1>3, <1>4, TypeCorrect, PTL DEF Spec

LEMMA LiveCorrect ==
    ASSUME NEW CONSTANT outer, NEW CONSTANT nesting,
           NamesTellFramesApart(outer, nesting), ExitsAndCatchesAreSafe
    PROVE  Spec => [](TypeOK /\ LiveInv(outer, nesting) /\ ExceptionsInv)
<1>1. CASE EveryFrameRunsItsExit
  BY <1>1, ExactCorrect, PTL
<1>2. CASE ~EveryFrameRunsItsExit
  <2>1. Init => LiveInv(outer, nesting) /\ ExceptionsInv
    BY LiveInit, ExceptionsInit
  <2>2. (TypeOK /\ TypeOK' /\ LiveInv(outer, nesting) /\ [Next]_vars)
          => LiveInv(outer, nesting)'
    BY <1>2, LiveStep
  <2>3. (TypeOK /\ TypeOK' /\ LiveInv(outer, nesting) /\ LiveInv(outer, nesting)'
           /\ ExceptionsInv /\ [Next]_vars) => ExceptionsInv'
    BY ExceptionsStep DEF LiveInv
  <2> QED
    BY <2>1, <2>2, <2>3, TypeCorrect, PTL DEF Spec
<1> QED
  BY <1>1, <1>2

(***************************************************************************)
(* For every program whose names tell the frames of a physical frame apart *)
(* no hook ever pops the record of a frame that is still alive, whatever   *)
(* longjmps, exceptions, cleanups, signal handlers and failed allocations  *)
(* came before.  Without either hypothesis there are programs for which it *)
(* is false (see README.md, "What the proofs need").                       *)
(***************************************************************************)
THEOREM LiveRecordsSafe ==
    ASSUME NEW CONSTANT outer, NEW CONSTANT nesting,
           NamesTellFramesApart(outer, nesting), ExitsAndCatchesAreSafe
    PROVE  Spec => []LiveRecordsKept
<1>1. LiveInv(outer, nesting) => LiveRecordsKept
  BY DEF LiveInv
<1> QED
  BY <1>1, LiveCorrect, PTL

(***************************************************************************)
(* In a program whose frames all leave through their exit hook every line  *)
(* is marked the way its frame ended: "|" when it returned, "!" when an    *)
(* exception left it, and no line is ever marked as skipped.               *)
(***************************************************************************)
THEOREM MarksAreTrue ==
    ASSUME NEW CONSTANT outer, NEW CONSTANT nesting,
           NamesTellFramesApart(outer, nesting), ExitsAndCatchesAreSafe,
           EveryFrameRunsItsExit
    PROVE  Spec => []MarksTellHowFramesEnded
<1>1. ExactInv => MarksTellHowFramesEnded
  BY DEF ExactInv
<1> QED
  BY <1>1, ExactCorrect, PTL

(***************************************************************************)
(* There every exit hook, a tail-called one and one run by the unwinder    *)
(* too, pops the record of its own frame and nothing else; the exit of a   *)
(* frame that was only counted pops nothing.                               *)
(***************************************************************************)
THEOREM ExitsAreExact ==
    ASSUME NEW CONSTANT outer, NEW CONSTANT nesting,
           NamesTellFramesApart(outer, nesting), ExitsAndCatchesAreSafe,
           EveryFrameRunsItsExit
    PROVE  Spec => ExitsPopTheirOwnRecord
<1> DEFINE Exact == Len(frames') = IF Top.rec = 0 THEN Len(frames) ELSE Top.rec - 1
<1>1. ASSUME TypeOK, LiveInv(outer, nesting), ExactInv, real # <<>>, NEW tailCalled \in BOOLEAN,
             tailCalled => Top.body \in TailExit, NEW why, ExitHook(tailCalled, why)
      PROVE  Exact
  <2>1. CASE Top.rec = 0 /\ frames' = frames
    BY <2>1
  <2>2. CASE /\ Len(frames) \in Nat \ {0} /\ Top.rec = Len(frames)
             /\ frames' = SubSeq(frames, 1, Len(frames) - 1)
    <3>1. Len(frames) - 1 \in 0..Len(frames) /\ frames \in Seq(FrameRecord)
      BY <1>1, <2>2 DEF TypeOK
    <3>2. Len(frames') = Len(frames) - 1
      BY <2>2, <3>1, PrefixProperty
    <3> QED
      BY <2>2, <3>2
  <2> QED
    BY <1>1, <2>1, <2>2, ExitIsExact
<1>2. ASSUME TypeOK, LiveInv(outer, nesting), ExactInv, Return
      PROVE  Exact
  <2>1. real # <<>> /\ ExitHook(Top.body \in TailExit, "returned")
        /\ (Top.body \in TailExit) \in BOOLEAN
    BY <1>2 DEF Return
  <2> HIDE DEF Exact
  <2> QED
    BY <1>1, <1>2, <2>1
<1>3. ASSUME TypeOK, LiveInv(outer, nesting), ExactInv, UnwindFrame, Compiler = "gcc"
      PROVE  Exact
  <2>1. ExitHook(FALSE, "unwound") /\ Len(real) > 1 /\ Len(real) \in Nat
    BY <1>3, LiveType DEF UnwindFrame
  <2>2. real # <<>>
    BY <1>3, <2>1, EmptySeq DEF TypeOK
  <2> HIDE DEF Exact
  <2> QED
    BY <1>1, <1>3, <2>1, <2>2
<1>4. TypeOK /\ LiveInv(outer, nesting) /\ ExactInv =>
        [Return \/ (UnwindFrame /\ Compiler = "gcc") => Exact]_vars
  BY <1>2, <1>3
<1> QED
  BY <1>4, ExactCorrect, PTL DEF ExitsPopTheirOwnRecord

\* The depth is always that of the live frames that were logged.
DepthIsTheCallDepth == depth = Cardinality(LiveLogged) - 1

LEMMA CallDepthCorrect ==
    ASSUME NEW CONSTANT outer, NEW CONSTANT nesting,
           NamesTellFramesApart(outer, nesting), ExitsAndCatchesAreSafe,
           EveryFrameRunsItsExit
    PROVE  Spec => []DepthIsTheCallDepth
<1>1. TypeOK /\ LiveInv(outer, nesting) /\ ExactInv /\ DepthCountsLoggedRecords =>
        DepthIsTheCallDepth
  <2> SUFFICES ASSUME TypeOK, LiveInv(outer, nesting), ExactInv, DepthCountsLoggedRecords
               PROVE  DepthIsTheCallDepth
    OBVIOUS
  <2>1. LiveRecordsKept
    BY DEF LiveInv
  <2>2. Cardinality(LiveLogged) = Cardinality({i \in DOMAIN frames : frames[i].logged})
    BY <2>1, LiveLoggedCount
  <2> QED
    BY <2>2 DEF DepthIsTheCallDepth, DepthCountsLoggedRecords
<1> QED
  BY <1>1, ExactCorrect, DepthIsExact, PTL

(***************************************************************************)
(* There every call line is written at the depth of the frames that are    *)
(* really alive and logged, whatever was counted instead of recorded.      *)
(***************************************************************************)
THEOREM CallLinesAreExact ==
    ASSUME NEW CONSTANT outer, NEW CONSTANT nesting,
           NamesTellFramesApart(outer, nesting), ExitsAndCatchesAreSafe,
           EveryFrameRunsItsExit
    PROVE  Spec => CallLinesAtTrueDepth
<1>1. DepthIsTheCallDepth' => [WritesCallLine => depth' = Cardinality(LiveLogged') - 1]_vars
  BY DEF DepthIsTheCallDepth
<1> QED
  BY <1>1, CallDepthCorrect, PTL DEF CallLinesAtTrueDepth

(***************************************************************************)
(* And every catch line is written under the frame that caught.            *)
(***************************************************************************)
THEOREM CatchLinesAreExact ==
    ASSUME NEW CONSTANT outer, NEW CONSTANT nesting,
           NamesTellFramesApart(outer, nesting), ExitsAndCatchesAreSafe,
           EveryFrameRunsItsExit
    PROVE  Spec => CatchLinesUnderTheCatcher
<1>1. DepthIsTheCallDepth' =>
        [Catch \/ CatchInTerminateStub => depth' = Cardinality(LiveLogged') - 1]_vars
  BY DEF DepthIsTheCallDepth
<1> QED
  BY <1>1, CallDepthCorrect, PTL DEF CatchLinesUnderTheCatcher
-------------------------------------------------------------------------------
(***************************************************************************)
(* Programs that skip exits.  Where nothing is inlined, every function has *)
(* debug information and the calls a function makes leave it at one level  *)
(* (none pushes arguments), an enter finds every record a jump or Clang's  *)
(* unwinding left behind: what is on the frame stack is always the record  *)
(* of each live frame in order, below those of one chain of dead calls.    *)
(***************************************************************************)
PlainProgram ==
    /\ SingleStack /\ ~MayRunOut
    /\ \A s \in Sites : /\ Kind[s] # "inline"
                        /\ Kind[s] = "call" => Parent[s] \in {NoName, BaseName[Host[s]]}
    /\ \A s, t \in Sites :
         Kind[s] = "call" /\ Kind[t] = "call" /\ Host[s] = Host[t] => Drop[s] = Drop[t]
    /\ \A b \in Bodies : b \in Dwarf /\ "chain_failed" \notin LogOutcomes[b]

\* Each body is a physical function of its own.
Apart == [b \in Bodies |-> b]
Flat == [b \in Bodies |-> 0]

\* The live frames' records are the lowest.
LiveRecordsFirst ==
    \A j \in 1..Len(real) : /\ real[j].rec = j
                            /\ real[j].body = Target[real[j].caller]

\* Live or dead, each record's frame was called by the one below it.
RecordsChain ==
    \A i \in 1..Len(frames) :
      /\ frames[i].callee = Fn[Target[frames[i].caller]]
      /\ i = 1 => frames[i].level = EntryLevel /\ Kind[frames[i].caller] = "entry"
      /\ i > 1 => /\ Kind[frames[i].caller] = "call"
                  /\ Host[frames[i].caller] = Target[frames[i - 1].caller]
                  /\ frames[i].level = frames[i - 1].level - Drop[frames[i].caller]

RecordsDescend ==
    \A i, k \in 1..Len(frames) : i < k => frames[k].level < frames[i].level

ChainInv == LiveRecordsFirst /\ RecordsChain /\ RecordsDescend

LEMMA PlainIsApart ==
    ASSUME PlainProgram
    PROVE  NamesTellFramesApart(Apart, Flat) /\ ExitsAndCatchesAreSafe
<1>1. \A b \in Bodies : Apart[b] = b
  BY DEF Apart
<1>2. Flat \in [Bodies -> Nat]
  BY DEF Flat
<1>3. \A s \in Sites : Kind[s] # "inline"
  BY DEF PlainProgram
<1>4. \A b \in Bodies : RetriesAreReclaimed(Apart, b)
  BY <1>1 DEF RetriesAreReclaimed, PlainProgram
<1>5. NamesTellFramesApart(Apart, Flat)
  BY <1>1, <1>2, <1>3, <1>4 DEF NamesTellFramesApart, PlainProgram
<1> QED
  BY <1>5 DEF ExitsAndCatchesAreSafe, PlainProgram

\* Exits, jumps and catches keep stretches of both stacks.
LEMMA ChainShorter ==
    ASSUME TypeOK, TypeOK', ChainInv,
           NEW k \in 0..Len(real), NEW kept \in 0..Len(frames),
           Len(real') = k, \A j \in 1..k : real'[j] = real[j],
           Len(frames') = kept,
           \A i \in 1..kept : SameRecord(frames'[i], frames[i])
    PROVE  ChainInv'
<1>1. Len(real) \in Nat /\ Len(frames) \in Nat
  BY LiveType, RecordType
<1>2. /\ \A j \in 1..k : j \in 1..Len(real)
      /\ \A i \in 1..kept : /\ i \in 1..Len(frames)
                            /\ i > 1 => i - 1 \in 1..kept
  BY <1>1
<1>3. \A i \in 1..kept : /\ frames'[i].callee = frames[i].callee
                         /\ frames'[i].caller = frames[i].caller
                         /\ frames'[i].level = frames[i].level
  BY DEF SameRecord
<1>4. LiveRecordsFirst'
  BY <1>2 DEF ChainInv, LiveRecordsFirst
<1>5. RecordsChain'
  <2> SUFFICES ASSUME NEW i \in 1..kept
               PROVE  /\ frames'[i].callee = Fn[Target[frames'[i].caller]]
                      /\ i = 1 => frames'[i].level = EntryLevel /\ Kind[frames'[i].caller] = "entry"
                      /\ i > 1 =>
                           /\ Kind[frames'[i].caller] = "call"
                           /\ Host[frames'[i].caller] = Target[frames'[i - 1].caller]
                           /\ frames'[i].level
                                = frames'[i - 1].level - Drop[frames'[i].caller]
    BY DEF RecordsChain
  <2>1. /\ frames[i].callee = Fn[Target[frames[i].caller]]
        /\ i = 1 => frames[i].level = EntryLevel /\ Kind[frames[i].caller] = "entry"
        /\ i > 1 => /\ Kind[frames[i].caller] = "call"
                    /\ Host[frames[i].caller] = Target[frames[i - 1].caller]
                    /\ frames[i].level = frames[i - 1].level - Drop[frames[i].caller]
    BY <1>2 DEF ChainInv, RecordsChain
  <2> QED
    BY <1>2, <1>3, <2>1
<1>6. RecordsDescend'
  BY <1>2, <1>3 DEF ChainInv, RecordsDescend
<1> QED
  BY <1>4, <1>5, <1>6 DEF ChainInv

\* What an enter may find above the innermost frame's record starts where the
\* new frame does.
LEMMA DeadCallsStartHere ==
    ASSUME TypeOK, PlainProgram, LiveInv(Apart, Flat), ChainInv,
           NEW s \in Sites, CanEnter(s)
    PROVE  /\ EnteredCaller(s) = s
           /\ real = <<>> => Kind[s] = "entry" /\ EnteredLevel(s) = EntryLevel
           /\ real # <<>> =>
                /\ Kind[s] = "call" /\ Host[s] = Target[frames[Len(real)].caller]
                /\ Len(real) \in 1..Len(frames)
                /\ EnteredLevel(s) = frames[Len(real)].level - Drop[s]
           /\ Len(real) + 1 <= Len(frames) =>
                frames[Len(real) + 1].level = EnteredLevel(s)
<1> DEFINE n == Len(real)
<1>1. n \in Nat /\ Len(frames) \in Nat /\ LiveRecordsKept
  BY LiveType, RecordType DEF LiveInv
<1>2. Kind[s] # "inline" /\ Kind[s] # "signal"
  BY DEF PlainProgram, SingleStack
<1>3. EnteredCaller(s) = s
  BY <1>2 DEF EnteredCaller
<1>4. CASE real = <<>>
  <2>1. Kind[s] = "entry" /\ EnteredLevel(s) = EntryLevel /\ n = 0
    BY <1>2, <1>4 DEF CanEnter, EnteredLevel
  <2>2. 1 <= Len(frames) => frames[1].level = EntryLevel
    BY <1>1 DEF ChainInv, RecordsChain
  <2> QED
    BY <1>3, <1>4, <2>1, <2>2
<1>5. CASE real # <<>>
  <2>1. Kind[s] = "call" /\ Top.body = Host[s] /\ EnteredLevel(s) = Top.level - Drop[s]
    BY <1>2, <1>5 DEF CanEnter, EnteredLevel
  <2>2. n \in 1..n /\ Top = real[n]
    BY <1>5, TopType
  <2>3. Top.rec = n /\ Top.body = Target[Top.caller] /\ n # 0
    BY <1>1, <2>2 DEF ChainInv, LiveRecordsFirst
  <2>4. /\ n \in 1..Len(frames) /\ frames[n].caller = Top.caller
        /\ frames[n].level = Top.level
    BY <1>1, <2>2, <2>3, LiveRecord
  <2>5. ASSUME n + 1 <= Len(frames) PROVE frames[n + 1].level = EnteredLevel(s)
    <3>1. n + 1 \in 1..Len(frames) /\ n + 1 > 1 /\ (n + 1) - 1 = n
      BY <1>1, <2>4, <2>5
    <3>2. /\ Kind[frames[n + 1].caller] = "call"
          /\ Host[frames[n + 1].caller] = Target[frames[n].caller]
          /\ frames[n + 1].level = frames[n].level - Drop[frames[n + 1].caller]
      <4> HIDE DEF n
      <4> QED
        BY <3>1 DEF ChainInv, RecordsChain
    <3>3. frames[n + 1].caller \in Sites
      BY <3>1, RecordType
    <3>4. Drop[frames[n + 1].caller] = Drop[s]
      <4> DEFINE t == frames[n + 1].caller
      <4>1. t \in Sites /\ Kind[t] = "call" /\ Host[t] = Host[s]
        BY <2>1, <2>3, <2>4, <3>2, <3>3
      <4> HIDE DEF t
      <4>2. Drop[t] = Drop[s]
        BY <2>1, <4>1 DEF PlainProgram
      <4> QED
        BY <4>2 DEF t
    <3> QED
      BY <2>1, <2>4, <3>2, <3>4
  <2> QED
    BY <1>3, <1>5, <2>1, <2>3, <2>4, <2>5
<1> QED
  BY <1>4, <1>5

(***************************************************************************)
(* An enter keeps the records of the live frames and no other: the level   *)
(* rule pops the dead records below the new frame's level, the retry rule  *)
(* the one at its level.                                                   *)
(***************************************************************************)
LEMMA EnterKeepsTheLive ==
    ASSUME TypeOK, PlainProgram, LiveInv(Apart, Flat), ChainInv,
           NEW s \in Sites, NEW o \in Outcomes, EnterRecorded(s, o)
    PROVE  EnterKeeps(s, o) = Len(real)
<1> DEFINE n == Len(real)
           kept == EnterKeeps(s, o)
           key == EnteredKey(s)
           count == KeptByLevel(key)
           L == EnteredLevel(s)
<1>1. /\ CanEnter(s) /\ o \in LogOutcomes[Target[s]] /\ o # "chain_failed"
      /\ Target[s] \in Dwarf /\ NamesTellFramesApart(Apart, Flat)
      /\ n \in Nat /\ Len(frames) \in Nat
  <2>1. CanEnter(s) /\ o \in LogOutcomes[Target[s]]
    BY EnterRecordedProperty
  <2>2. Target[s] \in Bodies
    BY ProgramAssumption
  <2> QED
    BY <2>1, <2>2, PlainIsApart, LiveType, RecordType DEF PlainProgram
<1>2. key.level = L /\ key.caller = s /\ key.callee = Fn[Target[s]] /\ key.level \in Int
  BY <1>1, DeadCallsStartHere, EnteredKeyProperty, EnteredKeyType
<1>3. OnThreadStack(L) /\ \A i \in 1..Len(frames) : OnThreadStack(frames[i].level)
  <2>1. SingleStack
    BY DEF PlainProgram
  <2> QED
    BY <1>1, <2>1, NewFrameProperty DEF LiveInv, TailCallersAbove
<1>4. kept \in 0..count /\ count \in 0..Len(frames) /\ n <= kept
  <2>1. kept \in 0..count /\ count \in 0..Len(frames)
    BY KeptOnEnterType DEF EnterKeeps, EnteredKey
  <2>2. CASE real = <<>>
    <3> HIDE DEF kept, count
    <3>1. n = 0
      BY <2>2
    <3> QED
      BY <2>1, <3>1
  <2>3. CASE real # <<>>
    <3>1. n \in 1..n /\ Top = real[n] /\ n # 0
      BY <1>1, <2>3, TopType
    <3>2. Top.rec = n
      BY <3>1 DEF ChainInv, LiveRecordsFirst
    <3>3. Top.rec <= kept
      BY <1>1, <2>3, <3>1, <3>2, EnterKeepsTop
    <3> QED
      BY <2>1, <3>2, <3>3
  <2> QED
    BY <2>2, <2>3
<1>5. Fits(count, key)
  BY <1>2, LevelFits
<1>6. n + 1 <= Len(frames) => frames[n + 1].level = L
  BY <1>1, DeadCallsStartHere
<1> HIDE DEF L, n
<1>7. count <= n + 1
  <2> HIDE DEF count, key
  <2> SUFFICES ASSUME count > n + 1 PROVE FALSE
    BY <1>1, <1>4
  <2>1. n + 1 \in 1..Len(frames) /\ count \in 1..Len(frames)
    BY <1>1, <1>4
  <2>2. frames[count].level < frames[n + 1].level
    BY <2>1 DEF ChainInv, RecordsDescend
  <2>3. L <= frames[count].level
    BY <1>2, <1>3, <1>5, <2>1 DEF Fits
  <2>4. frames[count].level \in Int /\ L \in Int
    BY <1>2, <2>1, RecordType
  <2> QED
    BY <1>6, <2>1, <2>2, <2>3, <2>4
<1>8. CASE count <= n
  <2> HIDE DEF count, kept
  <2> QED
    BY <1>1, <1>4, <1>8 DEF n, kept
<1>9. CASE count = n + 1
  <2> DEFINE again == {i \in 1..count : /\ SameActivationSite(frames[i], key)
                                        /\ frames[i].level = key.level}
             run == TopRun(count, again)
             chain == KeptByChain(count, key, s)
  <2>1. count \in 1..Len(frames) /\ frames[count].level = L
    <3> HIDE DEF count
    <3> QED
      BY <1>1, <1>4, <1>6, <1>9
  <2>2. frames[count].caller = s
    <3> HIDE DEF count, key
    <3> QED
      BY <1>2, <1>3, <1>5, <2>1 DEF Fits
  <2>3. frames[count].callee = Fn[Target[s]]
    <3> HIDE DEF count
    <3> QED
      BY <2>1, <2>2 DEF ChainInv, RecordsChain
  <2> HIDE DEF count, key
  <2>4. count \in again
    BY <1>2, <2>1, <2>2, <2>3 DEF SameActivationSite
  <2>5. run \in 0..count /\ count - run \notin again
    <3>1. count \in Nat /\ again \in SUBSET (1..count)
      BY <1>1, <1>4
    <3> HIDE DEF again
    <3> QED
      BY <3>1, TopRunProperty
  <2>6. count - run <= n
    <3>1. run # 0
      <4> HIDE DEF again, run
      <4>1. count - 0 = count
        BY <1>1, <1>4
      <4> QED
        BY <2>4, <2>5, <4>1
    <3> HIDE DEF run
    <3> QED
      BY <1>1, <1>9, <2>5, <3>1 DEF n
  <2>7. chain = count - run
    <3>1. count # 0 /\ Kind[s] # "inline"
      BY <2>1 DEF PlainProgram
    <3> QED
      BY <1>1, <1>2, <1>3, <2>1, <3>1 DEF KeptByChain
  <2>8. chain \in 0..Len(frames)
    <3> HIDE DEF run
    <3> QED
      BY <1>1, <1>4, <2>5, <2>7
  <2>9. kept \in {chain, KeptByParent(chain, key)}
    BY <1>1 DEF EnterKeeps, KeptOnEnter, EnteredKey, key, count
  <2> HIDE DEF chain, kept, run
  <2>10. KeptByParent(chain, key) \in 0..chain
    BY <2>8, KeptByParentType
  <2> QED
    BY <1>1, <1>4, <2>6, <2>7, <2>8, <2>9, <2>10 DEF n, kept
<1> HIDE DEF count
<1> QED
  BY <1>1, <1>4, <1>7, <1>8, <1>9

\* The new record goes right above the live ones.
LEMMA ChainAfterEnter ==
    ASSUME TypeOK, TypeOK', PlainProgram, LiveInv(Apart, Flat), ChainInv,
           NEW s \in Sites, NEW o \in Outcomes, EnterRecorded(s, o)
    PROVE  ChainInv' /\ Len(frames') = Len(real')
<1> DEFINE n == Len(real)
           L == EnteredLevel(s)
           record == NewRecord(Entered(s, 0), o)
<1>1. /\ CanEnter(s) /\ Entered(s, 0) \in Activation
      /\ EnterKeeps(s, o) \in 0..Len(frames)
      /\ Len(frames') = EnterKeeps(s, o) + 1
      /\ \A i \in 1..EnterKeeps(s, o) : frames'[i] = frames[i]
      /\ frames'[EnterKeeps(s, o) + 1] = record
      /\ Len(real') = n + 1 /\ \A j \in 1..n : real'[j] = real[j]
      /\ real'[n + 1] = Entered(s, EnterKeeps(s, o) + 1)
  BY EnterRecordedProperty
<1>2. EnterKeeps(s, o) = n
  BY EnterKeepsTheLive
<1>3. n \in Nat /\ n \in 0..Len(frames) /\ Len(frames) \in Nat
  BY <1>1, <1>2, LiveType, RecordType
<1>4. /\ EnteredCaller(s) = s
      /\ n = 0 => L = EntryLevel /\ Kind[s] = "entry"
      /\ n # 0 => /\ Kind[s] = "call" /\ Host[s] = Target[frames[n].caller]
                  /\ L = frames[n].level - Drop[s]
  <2>1. n = 0 <=> real = <<>>
    BY EmptySeq DEF TypeOK
  <2> QED
    BY <1>1, <2>1, DeadCallsStartHere
<1>5. record.callee = Fn[Target[s]] /\ record.caller = s /\ record.level = L
  <2>1. /\ Entered(s, 0).body = Target[s] /\ Entered(s, 0).caller = s
        /\ Entered(s, 0).level = L
    BY <1>4 DEF Entered
  <2> HIDE DEF L
  <2> QED
    BY <1>1, <2>1, NewRecordProperty
<1>6. /\ Entered(s, n + 1).rec = n + 1 /\ Entered(s, n + 1).caller = s
      /\ Entered(s, n + 1).body = Target[s]
  BY <1>4 DEF Entered
<1> HIDE DEF L, record
<1>7. /\ Len(frames') = n + 1 /\ frames'[n + 1] = record
      /\ \A i \in 1..n : frames'[i] = frames[i] /\ i \in 1..Len(frames)
      /\ real'[n + 1] = Entered(s, n + 1)
  BY <1>1, <1>2, <1>3
<1> HIDE DEF n
<1>8. Len(real') = n + 1 /\ \A j \in 1..n : real'[j] = real[j] /\ j \in 1..Len(real)
  BY <1>1, <1>3 DEF n
<1>9. LiveRecordsFirst'
  <2> SUFFICES ASSUME NEW j \in 1..n + 1
               PROVE  real'[j].rec = j /\ real'[j].body = Target[real'[j].caller]
    BY <1>8 DEF LiveRecordsFirst
  <2>1. CASE j \in 1..n
    BY <1>8, <2>1 DEF ChainInv, LiveRecordsFirst
  <2>2. CASE j = n + 1
    BY <1>6, <1>7, <2>2
  <2> QED
    BY <1>3, <2>1, <2>2
<1>10. RecordsChain'
  <2> SUFFICES ASSUME NEW i \in 1..n + 1
               PROVE  /\ frames'[i].callee = Fn[Target[frames'[i].caller]]
                      /\ i = 1 => frames'[i].level = EntryLevel /\ Kind[frames'[i].caller] = "entry"
                      /\ i > 1 =>
                           /\ Kind[frames'[i].caller] = "call"
                           /\ Host[frames'[i].caller] = Target[frames'[i - 1].caller]
                           /\ frames'[i].level
                                = frames'[i - 1].level - Drop[frames'[i].caller]
    BY <1>7 DEF RecordsChain
  <2>1. CASE i \in 1..n
    <3>1. frames'[i] = frames[i] /\ (i > 1 => frames'[i - 1] = frames[i - 1])
      BY <1>3, <1>7, <2>1
    <3>2. /\ frames[i].callee = Fn[Target[frames[i].caller]]
          /\ i = 1 => frames[i].level = EntryLevel /\ Kind[frames[i].caller] = "entry"
          /\ i > 1 => /\ Kind[frames[i].caller] = "call"
                      /\ Host[frames[i].caller] = Target[frames[i - 1].caller]
                      /\ frames[i].level = frames[i - 1].level - Drop[frames[i].caller]
      BY <1>7, <2>1 DEF ChainInv, RecordsChain
    <3> QED
      BY <3>1, <3>2
  <2>2. CASE i = n + 1
    <3>1. frames'[i] = record /\ (i > 1 => n # 0 /\ n \in 1..n /\ i - 1 = n)
      BY <1>3, <1>7, <2>2
    <3>2. i > 1 => frames'[i - 1] = frames[n]
      BY <1>7, <3>1
    <3>3. i = 1 => n = 0
      BY <1>3, <2>2
    <3> QED
      BY <1>4, <1>5, <3>1, <3>2, <3>3
  <2> QED
    BY <1>3, <2>1, <2>2
<1>11. RecordsDescend'
  <2>1. n # 0 => L < frames[n].level /\ frames[n].level \in Int /\ L \in Int
    <3>1. n # 0 => /\ Kind[s] = "call" /\ L = frames[n].level - Drop[s]
                   /\ n \in 1..Len(frames)
      BY <1>3, <1>4
    <3>2. Kind[s] = "call" => Drop[s] \in Nat /\ Up[s] \in 1..Drop[s]
      BY ProgramAssumption
    <3>3. n # 0 => frames[n].level \in Int
      BY <3>1, RecordType
    <3> QED
      BY <3>1, <3>2, <3>3
  <2> SUFFICES ASSUME NEW i \in 1..n + 1, NEW k \in 1..n + 1, i < k
               PROVE  frames'[k].level < frames'[i].level
    BY <1>7 DEF RecordsDescend
  <2>2. i \in 1..n
    BY <1>3
  <2>3. CASE k \in 1..n
    BY <1>7, <2>2, <2>3 DEF ChainInv, RecordsDescend
  <2>4. CASE k = n + 1
    <3>1. frames'[k].level = L /\ frames'[i].level = frames[i].level
      BY <1>5, <1>7, <2>2, <2>4
    <3>2. n # 0 /\ n \in 1..Len(frames) /\ i \in 1..Len(frames)
      BY <1>3, <1>7, <2>2
    <3>3. i < n => frames[n].level < frames[i].level
      BY <3>2 DEF ChainInv, RecordsDescend
    <3>4. frames[i].level \in Int
      BY <3>2, RecordType
    <3>5. i < n \/ i = n
      BY <1>3, <2>2
    <3> QED
      BY <2>1, <3>1, <3>2, <3>3, <3>4, <3>5
  <2> QED
    BY <1>3, <2>3, <2>4
<1> QED
  BY <1>7, <1>8, <1>9, <1>10, <1>11 DEF ChainInv

\* Memory never runs out.
LEMMA EveryEnterRecords ==
    ASSUME TypeOK, PlainProgram, LiveInv(Apart, Flat), [Next]_vars
    PROVE  OtherStep \/ \E s \in Sites, o \in Outcomes : EnterRecorded(s, o)
<1>1. overflow = 0 /\ ~MayRunOut
  BY DEF LiveInv, UntrackedFramesCounted, PlainProgram
<1>2. \A s \in Sites : ~EnterOverflowed(s) /\ ~EnterWithoutSlot(s)
  BY <1>1 DEF EnterOverflowed, EnterWithoutSlot
<1> QED
  BY <1>2 DEF Next, Enter, OtherStep

LEMMA ChainStep ==
    ASSUME PlainProgram
    PROVE  (TypeOK /\ TypeOK' /\ LiveInv(Apart, Flat) /\ ChainInv /\ [Next]_vars)
             => ChainInv'
<1> SUFFICES ASSUME TypeOK, TypeOK', LiveInv(Apart, Flat), ChainInv, [Next]_vars
             PROVE  ChainInv'
  OBVIOUS
<1>1. CASE OtherStep
  BY <1>1, OthersOnlyShorten, ChainShorter
<1>2. ASSUME NEW s \in Sites, NEW o \in Outcomes, EnterRecorded(s, o)
      PROVE  ChainInv'
  BY <1>2, ChainAfterEnter
<1> QED
  BY <1>1, <1>2, EveryEnterRecords

LEMMA ChainInit == Init => ChainInv
<1> SUFFICES ASSUME Init PROVE ChainInv
  OBVIOUS
<1>1. Len(real) = 0 /\ Len(frames) = 0
  BY EmptySeq DEF Init
<1> QED
  BY <1>1 DEF ChainInv, LiveRecordsFirst, RecordsChain, RecordsDescend

LEMMA ChainCorrect ==
    ASSUME PlainProgram
    PROVE  Spec => [](TypeOK /\ LiveInv(Apart, Flat) /\ ExceptionsInv /\ ChainInv)
<1> USE PlainIsApart
<1>1. Init => LiveInv(Apart, Flat) /\ ExceptionsInv /\ ChainInv
  BY LiveInit, ExceptionsInit, ChainInit
<1>2. (TypeOK /\ TypeOK' /\ LiveInv(Apart, Flat) /\ LiveInv(Apart, Flat)'
         /\ ExceptionsInv /\ [Next]_vars) => ExceptionsInv'
  BY ExceptionsStep DEF LiveInv
<1>3. (TypeOK /\ TypeOK' /\ LiveInv(Apart, Flat) /\ ChainInv /\ [Next]_vars) => ChainInv'
  BY ChainStep
<1>4. CASE EveryFrameRunsItsExit
  <2>1. Init => ExactInv
    BY ExactInit
  <2>2. (TypeOK /\ TypeOK' /\ LiveInv(Apart, Flat) /\ ExactInv /\ [Next]_vars)
          => LiveInv(Apart, Flat)'
    <3>1. ExactInv => EveryRecordIsLive
      BY DEF ExactInv
    <3> QED
      BY <3>1, LiveStep
  <2>3. (TypeOK /\ TypeOK' /\ LiveInv(Apart, Flat) /\ LiveInv(Apart, Flat)'
           /\ ExceptionsInv /\ ExactInv /\ [Next]_vars) => ExactInv'
    BY <1>4, ExactStep
  <2> QED
    BY <1>1, <1>2, <1>3, <2>1, <2>2, <2>3, TypeCorrect, PTL DEF Spec
<1>5. CASE ~EveryFrameRunsItsExit
  <2>1. (TypeOK /\ TypeOK' /\ LiveInv(Apart, Flat) /\ [Next]_vars) => LiveInv(Apart, Flat)'
    BY <1>5, LiveStep
  <2> QED
    BY <1>1, <1>2, <1>3, <2>1, TypeCorrect, PTL DEF Spec
<1> QED
  BY <1>4, <1>5

\* No record of a dead frame is left.
InStep == Len(frames) = Len(real)

LEMMA DepthInStep ==
    (TypeOK /\ ChainInv /\ DepthCountsLoggedRecords) => (InStep => DepthIsTheCallDepth)
<1> SUFFICES ASSUME TypeOK, ChainInv, DepthCountsLoggedRecords, InStep
             PROVE  DepthIsTheCallDepth
  OBVIOUS
<1>1. DOMAIN real = 1..Len(real) /\ DOMAIN frames = 1..Len(real)
  BY LiveType, RecordType DEF InStep
<1>2. \A j \in 1..Len(real) : real[j].rec = j
  BY DEF ChainInv, LiveRecordsFirst
<1>3. LiveLogged = {i \in DOMAIN frames : frames[i].logged}
  BY <1>1, <1>2 DEF LiveLogged
<1> QED
  BY <1>3 DEF DepthIsTheCallDepth, DepthCountsLoggedRecords

\* Only an enter makes the call stack taller, and leaves no dead record.
LEMMA CallLineInStep ==
    ASSUME PlainProgram
    PROVE  (TypeOK /\ TypeOK' /\ LiveInv(Apart, Flat) /\ ChainInv /\ [Next]_vars)
             => (WritesCallLine => InStep')
<1> SUFFICES ASSUME TypeOK, TypeOK', LiveInv(Apart, Flat), ChainInv, [Next]_vars,
                    Len(real') > Len(real)
             PROVE  InStep'
  BY DEF WritesCallLine
<1>1. CASE OtherStep
  <2>1. PICK k \in 0..Len(real) : Len(real') = k
    BY <1>1, OthersOnlyShorten
  <2> QED
    BY <2>1, LiveType
<1>2. ASSUME NEW s \in Sites, NEW o \in Outcomes, EnterRecorded(s, o)
      PROVE  InStep'
  BY <1>2, ChainAfterEnter DEF InStep
<1> QED
  BY <1>1, <1>2, EveryEnterRecords

(***************************************************************************)
(* In such a program every call line is written at its true depth, however *)
(* many frames a longjmp or Clang's unwinder left without an exit hook     *)
(* before it, and whichever exit left a dead record behind.                *)
(***************************************************************************)
THEOREM PlainCallLinesAreExact ==
    ASSUME PlainProgram
    PROVE  Spec => CallLinesAtTrueDepth
<1>1. TypeOK /\ ChainInv /\ DepthCountsLoggedRecords => (InStep => DepthIsTheCallDepth)
  BY DepthInStep
<1>2. (TypeOK /\ TypeOK' /\ LiveInv(Apart, Flat) /\ ChainInv /\ [Next]_vars)
        => (WritesCallLine => InStep')
  BY CallLineInStep
<1>3. (WritesCallLine => InStep') /\ (InStep => DepthIsTheCallDepth)' =>
        [WritesCallLine => depth' = Cardinality(LiveLogged') - 1]_vars
  BY DEF DepthIsTheCallDepth
<1> QED
  BY <1>1, <1>2, <1>3, ChainCorrect, DepthIsExact, PTL DEF CallLinesAtTrueDepth, Spec
-------------------------------------------------------------------------------
(***************************************************************************)
(* A catch reclaims every dead record.                                     *)
(***************************************************************************)
\* A noexcept function calls Clang's terminate stub as it calls any other.
StubsAreCalls ==
    \A s \in Sites : Kind[s] = "call" /\ Host[s] \in Noexcept => StubDrop <= Drop[s]

\* The first dead record's frame was called by the innermost live one.
LEMMA FirstDead ==
    ASSUME TypeOK, PlainProgram, LiveInv(Apart, Flat), ChainInv, real # <<>>
    PROVE  /\ Len(real) \in 1..Len(real) /\ Len(real) \in 1..Len(frames) /\ Top.rec = Len(real)
           /\ Len(real) + 1 <= Len(frames) =>
                \E s \in Sites : /\ Kind[s] = "call" /\ Host[s] = Top.body
                                 /\ frames[Len(real) + 1].caller = s
                                 /\ frames[Len(real) + 1].level = Top.level - Drop[s]
<1> DEFINE n == Len(real)
<1>1. n \in 1..n /\ n \in Nat \ {0} /\ Top = real[n] /\ Len(frames) \in Nat /\ LiveRecordsKept
  BY TopType, RecordType DEF LiveInv
<1>2. Top.rec = n /\ Top.body = Target[Top.caller]
  BY <1>1 DEF ChainInv, LiveRecordsFirst
<1>3. n \in 1..Len(frames) /\ frames[n].caller = Top.caller /\ frames[n].level = Top.level
  BY <1>1, <1>2, LiveRecord
<1>4. ASSUME n + 1 <= Len(frames)
      PROVE  \E s \in Sites : /\ Kind[s] = "call" /\ Host[s] = Top.body
                              /\ frames[n + 1].caller = s
                              /\ frames[n + 1].level = Top.level - Drop[s]
  <2>1. n + 1 \in 1..Len(frames) /\ n + 1 > 1 /\ (n + 1) - 1 = n
    BY <1>1, <1>4
  <2>2. frames[n + 1].caller \in Sites
    BY <2>1, RecordType
  <2> HIDE DEF n
  <2>3. /\ Kind[frames[n + 1].caller] = "call"
        /\ Host[frames[n + 1].caller] = Target[frames[n].caller]
        /\ frames[n + 1].level = frames[n].level - Drop[frames[n + 1].caller]
    BY <2>1 DEF ChainInv, RecordsChain
  <2> QED
    BY <1>2, <1>3, <2>2, <2>3
<1> QED
  BY <1>1, <1>2, <1>3, <1>4

LEMMA CatchFindsTheDead ==
    ASSUME TypeOK, PlainProgram, LiveInv(Apart, Flat), ChainInv, real # <<>>,
           NEW level \in Int, level <= Top.level, OnThreadStack(level),
           Len(real) + 1 <= Len(frames) => frames[Len(real) + 1].level < level
    PROVE  KeptOnCatch(level) = Len(real)
<1> DEFINE n == Len(real)
           N == Len(frames)
           D == {i \in 1..N : OnThreadStack(frames[i].level) /\ frames[i].level < level}
           run == TopRun(N, D)
<1>1. /\ n \in 1..n /\ n \in 1..N /\ real[n].rec = n /\ n \in Nat /\ N \in Nat
      /\ OnThreadStack(Top.level)
      /\ \A i \in 1..N : OnThreadStack(frames[i].level) /\ frames[i].level \in Int
  BY FirstDead, TopType, RecordType DEF LiveInv, TailCallersAbove, PlainProgram
<1>2. n <= KeptOnCatch(level)
  BY <1>1, CatchLevelKeepsLive
<1>3. KeptOnCatch(level) = N - run
  BY DEF KeptOnCatch, DeadRecordsOnCatch
<1>4. run \in 0..N /\ N - run \notin D
  <2>1. D \in SUBSET (1..N)
    OBVIOUS
  <2> HIDE DEF D
  <2> QED
    BY <1>1, <2>1, TopRunProperty
<1>5. ASSUME N - run > n PROVE FALSE
  <2> DEFINE k == N - run
  <2>1. k \in 1..N /\ n + 1 \in 1..N /\ (n + 1 < k \/ n + 1 = k)
    <3> HIDE DEF run, n, N
    <3> QED
      BY <1>1, <1>4, <1>5
  <2>2. k \notin D
    BY <1>4
  <2> HIDE DEF k
  <2>3. n + 1 < k => frames[k].level < frames[n + 1].level
    BY <2>1 DEF ChainInv, RecordsDescend
  <2>4. frames[n + 1].level < level
    BY <1>1, <2>1
  <2>5. frames[k].level < level
    BY <1>1, <2>1, <2>3, <2>4
  <2> QED
    BY <1>1, <2>1, <2>2, <2>5
<1>6. N - run = n
  <2>1. n <= N - run /\ ~(N - run > n)
    BY <1>2, <1>3, <1>5
  <2> HIDE DEF run, N, n, D
  <2>2. n \in Nat /\ N \in Nat /\ run \in Int
    BY <1>1, <1>4
  <2> QED
    BY <2>1, <2>2
<1> HIDE DEF run, N
<1> QED
  BY <1>3, <1>6

LEMMA CatchInStep ==
    ASSUME PlainProgram, LogExceptions, StubsAreCalls
    PROVE  (TypeOK /\ LiveInv(Apart, Flat) /\ ExceptionsInv /\ ChainInv)
             => (Catch \/ CatchInTerminateStub => InStep')
<1> SUFFICES ASSUME TypeOK, LiveInv(Apart, Flat), ExceptionsInv, ChainInv,
                    Catch \/ CatchInTerminateStub
             PROVE  InStep'
  OBVIOUS
<1>1. real # <<>> /\ Len(real) \in Nat /\ UNCHANGED real
  BY UnwindingFrame DEF ExceptionsInv, Catch, CatchInTerminateStub
<1>2. /\ Len(real) \in 1..Len(real) /\ Len(real) \in 1..Len(frames) /\ Top.rec = Len(real)
      /\ Top = real[Len(real)] /\ Top.level \in Int
  BY <1>1, FirstDead, TopType DEF Activation
<1>3. ~MayRunOut /\ ExitsAndCatchesAreSafe /\ OnThreadStack(Top.level)
  BY <1>2, PlainIsApart DEF PlainProgram, LiveInv, TailCallersAbove
<1>4. ASSUME PopTo(Len(real), "!") PROVE InStep'
  <2>1. Len(real) \in 0..Len(frames)
    BY <1>1, <1>2
  <2>2. Len(frames') = Len(real)
    BY <1>4, <2>1, PrefixProperty DEF PopTo, TypeOK
  <2> QED
    BY <1>1, <2>2 DEF InStep
<1>5. CASE Catch
  <2>1. KeptOnCatch(Top.level) = Len(real)
    <3>1. Len(real) + 1 <= Len(frames) => frames[Len(real) + 1].level < Top.level
      <4> SUFFICES ASSUME Len(real) + 1 <= Len(frames)
                   PROVE  frames[Len(real) + 1].level < Top.level
        OBVIOUS
      <4>1. PICK s \in Sites : /\ Kind[s] = "call"
                               /\ frames[Len(real) + 1].level = Top.level - Drop[s]
        BY <1>1, FirstDead
      <4>2. Drop[s] \in Nat /\ Drop[s] > 0
        BY <4>1, ProgramAssumption
      <4> QED
        BY <1>2, <4>1, <4>2
    <3>2. Top.level <= Top.level
      BY <1>2
    <3> QED
      BY <1>1, <1>2, <1>3, <3>1, <3>2, CatchFindsTheDead
  <2> DEFINE kept == KeptOnCatchByChain(Len(real), Top.level)
  <2>2. PopTo(kept, "!") /\ kept \in OnCatchKeeps(Top.level)
    BY <1>3, <1>5, <2>1 DEF Catch, OnCatchKeeps
  <2>3. Len(real) <= kept
    <3> HIDE DEF kept
    <3> QED
      BY <1>1, <1>2, <1>3, <2>2, CatchKeepsLive
  <2>4. kept \in 0..Len(real)
    <3> DEFINE dead == DeadRecordsAboveMatch(frames, Len(real), Top.level, BaseName[Top.body])
    <3>1. dead \in 0..Len(real)
      BY <1>1, DeadRecordsAboveMatchProperty
    <3>2. kept \in {Len(real), Len(real) - dead}
      BY DEF KeptOnCatchByChain
    <3> HIDE DEF dead, kept
    <3> QED
      BY <1>1, <3>1, <3>2
  <2>5. kept = Len(real)
    <3> HIDE DEF kept
    <3> QED
      BY <1>1, <2>3, <2>4
  <2> HIDE DEF kept
  <2> QED
    BY <1>4, <2>2, <2>5
<1>6. CASE CatchInTerminateStub
  <2> DEFINE level == Top.level - StubDrop + 1
  <2>1. Top.body \in Noexcept /\ PopTo(KeptOnCatch(level), "!") /\ OnThreadStack(level)
    BY <1>3, <1>6 DEF CatchInTerminateStub
  <2>2. level \in Int /\ level <= Top.level /\ StubDrop \in Nat
    BY <1>2, ProgramAssumption
  <2>3. Len(real) + 1 <= Len(frames) => frames[Len(real) + 1].level < level
    <3> SUFFICES ASSUME Len(real) + 1 <= Len(frames)
                 PROVE  frames[Len(real) + 1].level < level
      OBVIOUS
    <3>1. PICK s \in Sites : /\ Kind[s] = "call" /\ Host[s] = Top.body
                             /\ frames[Len(real) + 1].level = Top.level - Drop[s]
      BY <1>1, FirstDead
    <3>2. StubDrop <= Drop[s] /\ Drop[s] \in Nat
      BY <2>1, <3>1, ProgramAssumption DEF StubsAreCalls
    <3> QED
      BY <1>2, <2>2, <3>1, <3>2
  <2> HIDE DEF level
  <2>4. KeptOnCatch(level) = Len(real)
    BY <1>1, <2>1, <2>2, <2>3, CatchFindsTheDead
  <2> QED
    BY <1>4, <2>1, <2>4
<1> QED
  BY <1>5, <1>6

(***************************************************************************)
(* With LOG_EXCEPTIONS every catch line and terminate line of such a       *)
(* program is written under the frame that caught: whatever was unwound or *)
(* jumped over without an exit hook was reclaimed first.                   *)
(***************************************************************************)
THEOREM PlainCatchLinesAreExact ==
    ASSUME PlainProgram, LogExceptions, StubsAreCalls
    PROVE  Spec => CatchLinesUnderTheCatcher
<1>1. TypeOK /\ ChainInv /\ DepthCountsLoggedRecords => (InStep => DepthIsTheCallDepth)
  BY DepthInStep
<1>2. (TypeOK /\ LiveInv(Apart, Flat) /\ ExceptionsInv /\ ChainInv)
        => (Catch \/ CatchInTerminateStub => InStep')
  BY CatchInStep
<1>3. (Catch \/ CatchInTerminateStub => InStep') /\ (InStep => DepthIsTheCallDepth)' =>
        [Catch \/ CatchInTerminateStub => depth' = Cardinality(LiveLogged') - 1]_vars
  BY DEF DepthIsTheCallDepth
<1> QED
  BY <1>1, <1>2, <1>3, ChainCorrect, DepthIsExact, PTL DEF CatchLinesUnderTheCatcher
-------------------------------------------------------------------------------
(***************************************************************************)
(* When the exit hook finds the record of its own frame, whatever is above *)
(* that record is dead and goes with it.                                   *)
(***************************************************************************)
ExitsSettleTheTop ==
    \A tailCalled \in BOOLEAN :
      real # <<>> /\ (tailCalled => Top.body \in TailExit) => ExitIndex(tailCalled) = Len(real)

\* The records of dead frames, all of them left the same way.
DeadBy(how) == \A i \in Len(real) + 1 .. Len(frames) : frames[i].fate = how

LEMMA PlainExit ==
    ASSUME TypeOK, PlainProgram, LiveInv(Apart, Flat), ChainInv, ExitsSettleTheTop,
           real # <<>>, NEW tailCalled \in BOOLEAN, tailCalled => Top.body \in TailExit,
           NEW why, ExitHook(tailCalled, why)
    PROVE  /\ Top.rec = Len(real)
           /\ Len(frames') = Len(real) - 1
           /\ ended' \subseteq MarkLines(Len(real), "~") \cup
                {[fate |-> why, how |-> IF LeftByException(Top.rec) THEN "!" ELSE "|"]}
<1> DEFINE index == ExitIndex(tailCalled)
           own == {[fate |-> IF index = Top.rec THEN why ELSE frames[index].fate,
                    how  |-> IF LeftByException(index) THEN "!" ELSE "|"]}
<1>1. /\ Len(real) \in 1..Len(frames) /\ Top.rec = Len(real) /\ Len(real) \in Nat \ {0}
      /\ Len(frames) \in Nat
  BY FirstDead, TopType, RecordType
<1>2. overflow = 0 /\ frames # <<>>
  BY <1>1, EmptySeq DEF LiveInv, UntrackedFramesCounted, PlainProgram
<1>3. /\ frames' = SubSeq(frames, 1, index - 1)
      /\ ended' = MarkLines(index, "~") \cup
           IF LogExceptions /\ frames[index].logged THEN own ELSE {}
  BY <1>2 DEF ExitHook, ExitIndex
<1>4. index = Len(real)
  BY DEF ExitsSettleTheTop
<1> HIDE DEF index
<1>5. Len(frames') = Len(real) - 1
  <2>1. Len(real) - 1 \in 0..Len(frames) /\ frames \in Seq(FrameRecord)
    BY <1>1 DEF TypeOK
  <2> QED
    BY <1>3, <1>4, <2>1, PrefixProperty
<1>6. ended' \subseteq MarkLines(Len(real), "~") \cup own
  <2> HIDE DEF own
  <2> QED
    BY <1>3, <1>4
<1> QED
  BY <1>1, <1>4, <1>5, <1>6

LEMMA PlainExitsPop ==
    ASSUME TypeOK, PlainProgram, LiveInv(Apart, Flat), ChainInv, ExitsSettleTheTop
    PROVE  Return \/ (UnwindFrame /\ Compiler = "gcc") =>
             Len(frames') = IF Top.rec = 0 THEN Len(frames) ELSE Top.rec - 1
<1>1. ASSUME real # <<>>, NEW tailCalled \in BOOLEAN, tailCalled => Top.body \in TailExit,
             NEW why, ExitHook(tailCalled, why)
      PROVE  Len(frames') = IF Top.rec = 0 THEN Len(frames) ELSE Top.rec - 1
  <2>1. Top.rec = Len(real) /\ Len(frames') = Len(real) - 1 /\ Len(real) # 0
    BY <1>1, PlainExit, TopType
  <2> QED
    BY <2>1
<1>2. ASSUME Return
      PROVE  Len(frames') = IF Top.rec = 0 THEN Len(frames) ELSE Top.rec - 1
  <2>1. real # <<>> /\ ExitHook(Top.body \in TailExit, "returned")
        /\ (Top.body \in TailExit) \in BOOLEAN
    BY <1>2 DEF Return
  <2> QED
    BY <1>1, <2>1
<1>3. ASSUME UnwindFrame, Compiler = "gcc"
      PROVE  Len(frames') = IF Top.rec = 0 THEN Len(frames) ELSE Top.rec - 1
  <2>1. ExitHook(FALSE, "unwound") /\ Len(real) > 1 /\ Len(real) \in Nat
    BY <1>3, LiveType DEF UnwindFrame
  <2>2. real # <<>>
    BY <2>1, EmptySeq DEF TypeOK
  <2> QED
    BY <1>1, <2>1, <2>2
<1> QED
  BY <1>2, <1>3

\* The lines above the live records are marked as their frames ended.
LEMMA DeadLines ==
    ASSUME TypeOK, NEW fate, DeadBy(fate), NEW how
    PROVE  MarkLines(Len(real), how) \subseteq {[fate |-> fate, how |-> how]}
  BY DEF MarkLines, LoggedAbove, DeadBy

LEMMA DeadAfterBurial ==
    ASSUME TypeOK, ChainInv, NEW how \in {"jumped", "unwound"}, DeadBy(how),
           NEW k \in 0..Len(real), real' = SubSeq(real, 1, k), frames' = Buried(k, how)
    PROVE  Len(real') = k /\ Len(frames') = Len(frames) /\ DeadBy(how)'
<1>1. Len(real) \in Nat /\ Len(frames) \in Nat /\ DOMAIN frames = 1..Len(frames)
  BY LiveType, RecordType
<1>2. Len(real') = k /\ Len(frames') = Len(frames)
  BY <1>1, PrefixProperty, BuriedProperty DEF TypeOK
<1>3. ASSUME NEW i \in k + 1 .. Len(frames) PROVE Buried(k, how)[i].fate = how
  <2>1. i \in 1..Len(frames) /\ frames[i] \in FrameRecord
    BY <1>1, RecordType
  <2>2. WithFate(frames[i], how).fate = how
    BY <2>1 DEF WithFate, FrameRecord
  <2> DEFINE gone == {real[j].rec : j \in k + 1 .. Len(real)}
  <2>3. i \in gone \/ frames[i].fate = how
    <3>1. CASE i <= Len(real)
      <4>1. i \in k + 1 .. Len(real) /\ real[i].rec = i
        BY <1>1, <2>1, <3>1 DEF ChainInv, LiveRecordsFirst
      <4> QED
        BY <4>1
    <3>2. CASE i > Len(real)
      BY <1>1, <2>1, <3>2 DEF DeadBy
    <3> QED
      BY <1>1, <2>1, <3>1, <3>2
  <2>4. Buried(k, how)[i] = IF i \in gone THEN WithFate(frames[i], how) ELSE frames[i]
    BY <1>1, <2>1 DEF Buried
  <2> QED
    BY <2>2, <2>3, <2>4
<1> QED
  BY <1>2, <1>3 DEF DeadBy

\* An enter reclaims every dead record there is.
LEMMA PlainEnter ==
    ASSUME TypeOK, TypeOK', PlainProgram, LiveInv(Apart, Flat), ChainInv,
           NEW s \in Sites, NEW o \in Outcomes, EnterRecorded(s, o),
           NEW fate, DeadBy(fate)
    PROVE  /\ InStep' /\ DeadBy(fate)'
           /\ ended' \subseteq {[fate |-> fate, how |-> EnterMark]}
<1>1. InStep'
  BY ChainAfterEnter DEF InStep
<1>2. DeadBy(fate)'
  <2>1. Len(real') \in Nat
    BY LenProperties DEF TypeOK
  <2> QED
    BY <1>1, <2>1 DEF InStep, DeadBy
<1>3. ended' = MarkLines(Len(real), EnterMark)
  BY EnterRecordedProperty, EnterKeepsTheLive
<1>4. MarkLines(Len(real), EnterMark) \subseteq {[fate |-> fate, how |-> EnterMark]}
  BY DeadLines
<1> QED
  BY <1>1, <1>2, <1>3, <1>4
-------------------------------------------------------------------------------
(***************************************************************************)
(* Clang's unwinder: with LOG_EXCEPTIONS a dead record never outlives the  *)
(* exception that left it, and while that exception is being unwound       *)
(* nothing can exit.                                                       *)
(***************************************************************************)
UnwoundInv ==
    /\ InStep \/ UnwindingTop
    /\ DeadBy("unwound")
    /\ MarksTellHowFramesEnded

LEMMA ExitsInStep ==
    ASSUME TypeOK, PlainProgram, LiveInv(Apart, Flat), ChainInv, InStep
    PROVE  ExitsSettleTheTop
<1> SUFFICES ASSUME NEW tailCalled \in BOOLEAN, real # <<>>,
                    tailCalled => Top.body \in TailExit
             PROVE  ExitIndex(tailCalled) = Len(real)
  BY DEF ExitsSettleTheTop
<1> DEFINE n == Len(real)
           index == ExitIndex(tailCalled)
<1>1. /\ n \in 1..n /\ n \in Nat \ {0} /\ Len(frames) = n
      /\ overflow = 0 /\ frames # <<>> /\ ExitsAndCatchesAreSafe
  <2>1. n \in 1..Len(frames) /\ n \in Nat \ {0} /\ n \in 1..n
    BY FirstDead, TopType
  <2>2. frames # <<>>
    BY <2>1, EmptySeq
  <2> QED
    BY <2>1, <2>2, PlainIsApart DEF InStep, LiveInv, UntrackedFramesCounted, PlainProgram
<1>2. index \in 1..n
  BY <1>1, ExitIndexType
<1>3. \A j \in 1..n - 1 : real[j].rec < index
  BY <1>1, ExitKeepsLive
<1>4. n > 1 => n - 1 \in 1..n - 1 /\ real[n - 1].rec = n - 1
  <2>1. n > 1 => n - 1 \in 1..n - 1 /\ n - 1 \in 1..n
    BY <1>1
  <2> QED
    BY <2>1 DEF ChainInv, LiveRecordsFirst
<1> HIDE DEF n, index
<1>5. index = n
  BY <1>1, <1>2, <1>3, <1>4
<1> QED
  BY <1>5 DEF n, index

LEMMA UnwoundInit == Init => UnwoundInv
<1> SUFFICES ASSUME Init PROVE UnwoundInv
  OBVIOUS
<1>1. Len(real) = 0 /\ Len(frames) = 0 /\ ended = {}
  BY EmptySeq DEF Init
<1> QED
  BY <1>1 DEF UnwoundInv, InStep, DeadBy, MarksTellHowFramesEnded

LEMMA UnwoundStep ==
    ASSUME PlainProgram, StubsAreCalls, LogExceptions, Compiler = "clang", JumpTargets = {}
    PROVE  (TypeOK /\ TypeOK' /\ LiveInv(Apart, Flat) /\ ExceptionsInv /\ ChainInv
              /\ UnwoundInv /\ [Next]_vars) => UnwoundInv'
<1> SUFFICES ASSUME TypeOK, TypeOK', LiveInv(Apart, Flat), ExceptionsInv, ChainInv,
                    UnwoundInv, [Next]_vars
             PROVE  UnwoundInv'
  OBVIOUS
<1>1. /\ Len(real) \in Nat /\ Len(frames) \in Nat /\ Len(real') \in Nat
      /\ DeadBy("unwound") /\ (InStep \/ UnwindingTop)
  BY LiveType, RecordType, LenProperties DEF TypeOK, UnwoundInv
<1>2. ASSUME InStep', ended' \subseteq TrueMarks PROVE UnwoundInv'
  <2>1. DeadBy("unwound")'
    BY <1>1, <1>2 DEF InStep, DeadBy
  <2> QED
    BY <1>2, <2>1 DEF UnwoundInv, MarksTellHowFramesEnded, TrueMarks
<1>3. InStep => \A how : MarkLines(Len(real), how) = {}
  <2>1. InStep => LoggedAbove(Len(real)) = {}
    BY <1>1 DEF InStep, LoggedAbove
  <2> QED
    BY <2>1 DEF MarkLines
<1>4. ASSUME NEW s \in Sites, NEW o \in Outcomes, EnterRecorded(s, o)
      PROVE  UnwoundInv'
  <2>1. InStep' /\ ended' \subseteq {[fate |-> "unwound", how |-> EnterMark]}
    BY <1>1, <1>4, PlainEnter
  <2>2. ended' = MarkLines(Len(real), EnterMark)
    BY <1>4, EnterRecordedProperty, EnterKeepsTheLive
  <2>3. UnwindingTop => EnterMark = "!"
    <3>1. UnwindingTop => Uncaught \in 1..Uncaught
      BY UnwindingFrame DEF ExceptionsInv
    <3>2. Uncaught \in Nat
      BY InflightType DEF ExceptionsInv
    <3> QED
      BY <3>1, <3>2 DEF EnterMark
  <2>4. ended' \subseteq TrueMarks
    BY <1>1, <1>3, <2>1, <2>2, <2>3 DEF TrueMarks
  <2> QED
    BY <1>2, <2>1, <2>4
<1>5. CASE Return
  <2>1. /\ real # <<>> /\ Len(real) > Floor /\ real' = RealWithoutTop
        /\ ExitHook(Top.body \in TailExit, "returned")
        /\ (Top.body \in TailExit) \in BOOLEAN
    BY <1>5 DEF Return
  <2>2. InStep /\ ExitsSettleTheTop
    <3>1. InStep
      BY <1>1, <2>1 DEF UnwindingTop
    <3> QED
      BY <3>1, ExitsInStep
  <2>3. /\ Top.rec = Len(real) /\ Len(frames') = Len(real) - 1
        /\ ended' \subseteq MarkLines(Len(real), "~") \cup
             {[fate |-> "returned", how |-> IF LeftByException(Top.rec) THEN "!" ELSE "|"]}
    BY <2>1, <2>2, PlainExit
  <2>4. [fate |-> "returned", how |-> IF LeftByException(Top.rec) THEN "!" ELSE "|"]
          \in TrueMarks
    <3>1. LiveRecordsKept /\ Top.rec # 0
      BY <2>1, <2>3, TopType DEF LiveInv
    <3> QED
      BY <2>1, <3>1, OwnMarkIsTrue
  <2>5. Len(real') = Len(real) - 1
    <3>1. Len(real) - 1 \in 0..Len(real) /\ real \in Seq(Activation)
      BY <2>1, TopType DEF TypeOK
    <3> QED
      BY <2>1, <3>1, PrefixProperty DEF RealWithoutTop
  <2>6. ended' \subseteq TrueMarks
    BY <1>3, <2>2, <2>3, <2>4
  <2> QED
    BY <1>2, <2>3, <2>5, <2>6 DEF InStep
<1>6. ASSUME NEW k \in 1..MaxDepth, Longjmp(k)
      PROVE  FALSE
  BY <1>6 DEF Longjmp
<1>7. CASE Throw
  <2>1. Len(real) > Floor /\ ended' = {} /\ UNCHANGED <<real, frames>>
    BY <1>7 DEF Throw
  <2>2. InStep
    BY <1>1, <2>1 DEF UnwindingTop
  <2> QED
    BY <1>2, <2>1, <2>2 DEF InStep
<1>8. CASE UnwindFrame
  <2>1. /\ UnwindingTop /\ Len(real) > 1
        /\ inflight' = [inflight EXCEPT ![Uncaught] = Len(real) - 1]
        /\ real' = SubSeq(real, 1, Len(real) - 1)
        /\ frames' = Buried(Len(real) - 1, "unwound") /\ ended' = {}
    BY <1>8 DEF UnwindFrame, RealWithoutTop
  <2>2. Len(real') = Len(real) - 1 /\ DeadBy("unwound")'
    <3>1. Len(real) - 1 \in 0..Len(real)
      BY <1>1, <2>1
    <3> QED
      BY <1>1, <2>1, <3>1, DeadAfterBurial
  <2>3. UnwindingTop'
    <3>1. Uncaught \in 1..Uncaught /\ Uncaught = Len(inflight) /\ Uncaught \in Nat
          /\ DOMAIN inflight = 1..Uncaught
      BY <2>1, UnwindingFrame, InflightType DEF ExceptionsInv
    <3>2. inflight \in Seq(Nat) /\ Len(real) - 1 \in Nat
      BY <1>1, <2>1 DEF TypeOK
    <3>3. inflight' \in Seq(Nat) /\ Len(inflight') = Len(inflight)
          /\ inflight'[Uncaught] = Len(real) - 1
      BY <2>1, <3>1, <3>2, ExceptSeq
    <3>4. inflight' # <<>>
      BY <3>1, <3>3, EmptySeq
    <3> QED
      BY <2>2, <3>1, <3>3, <3>4 DEF UnwindingTop, Floor
  <2> QED
    BY <2>1, <2>2, <2>3 DEF UnwoundInv, MarksTellHowFramesEnded
<1>9. CASE Catch \/ CatchInTerminateStub
  <2>1. InStep'
    BY <1>9, CatchInStep
  <2>2. /\ UNCHANGED real /\ UnwindingTop
        /\ \E kept \in Nat : PopTo(kept, "!")
    <3>1. CASE Catch
      <4>1. PICK kept \in OnCatchKeeps(Top.level) : PopTo(kept, "!")
        BY <3>1 DEF Catch
      <4>2. kept \in 0..Len(frames)
        BY OnCatchKeepsType
      <4> QED
        BY <1>1, <3>1, <4>1, <4>2 DEF Catch
    <3>2. CASE CatchInTerminateStub
      <4>1. KeptOnCatch(Top.level - StubDrop + 1) \in 0..Len(frames)
        BY <1>1, DeadRecordsOnCatchProperty DEF KeptOnCatch
      <4>2. KeptOnCatch(Top.level - StubDrop + 1) \in Nat
        BY <1>1, <4>1
      <4> QED
        BY <1>1, <3>2, <4>2 DEF CatchInTerminateStub
    <3> QED
      BY <1>9, <3>1, <3>2
  <2>3. PICK kept \in Nat : PopTo(kept, "!")
    BY <2>2
  <2>4. kept <= Len(frames) => kept = Len(real)
    <3>1. kept <= Len(frames) => kept \in 0..Len(frames)
      BY <1>1
    <3>2. kept <= Len(frames) => Len(frames') = kept
      BY <2>3, <3>1, PrefixProperty DEF PopTo, TypeOK
    <3> QED
      BY <2>1, <2>2, <3>2 DEF InStep
  <2>5. ended' = MarkLines(kept, "!")
    BY <2>3 DEF PopTo
  <2>6. MarkLines(kept, "!") \subseteq {[fate |-> "unwound", how |-> "!"]}
    <3>1. CASE kept <= Len(frames)
      BY <1>1, <2>4, <3>1, DeadLines
    <3>2. CASE ~(kept <= Len(frames))
      <4>1. LoggedAbove(kept) = {}
        BY <1>1, <3>2 DEF LoggedAbove
      <4> QED
        BY <4>1 DEF MarkLines
    <3> QED
      BY <3>1, <3>2
  <2> QED
    BY <1>2, <2>1, <2>5, <2>6 DEF TrueMarks
<1>10. CASE UNCHANGED vars
  BY <1>10 DEF vars, UnwoundInv, InStep, DeadBy, MarksTellHowFramesEnded, UnwindingTop, Floor
<1> QED
  BY <1>4, <1>5, <1>6, <1>7, <1>8, <1>9, <1>10, EveryEnterRecords DEF OtherStep

LEMMA UnwoundCorrect ==
    ASSUME PlainProgram, StubsAreCalls, LogExceptions, Compiler = "clang", JumpTargets = {}
    PROVE  Spec => [](TypeOK /\ LiveInv(Apart, Flat) /\ ChainInv /\ UnwoundInv)
<1>1. Init => UnwoundInv
  BY UnwoundInit
<1>2. (TypeOK /\ TypeOK' /\ LiveInv(Apart, Flat) /\ ExceptionsInv /\ ChainInv
         /\ UnwoundInv /\ [Next]_vars) => UnwoundInv'
  BY UnwoundStep
<1> QED
  BY <1>1, <1>2, ChainCorrect, PTL DEF Spec

(***************************************************************************)
(* In such a program, built with Clang and LOG_EXCEPTIONS, throwing but    *)
(* never jumping, the mark of every line tells how its frame ended though  *)
(* no unwound frame runs its exit hook.                                    *)
(***************************************************************************)
THEOREM UnwoundMarksAreTrue ==
    ASSUME PlainProgram, StubsAreCalls, LogExceptions, Compiler = "clang", JumpTargets = {}
    PROVE  Spec => []MarksTellHowFramesEnded
<1>1. UnwoundInv => MarksTellHowFramesEnded
  BY DEF UnwoundInv
<1> QED
  BY <1>1, UnwoundCorrect, PTL

(***************************************************************************)
(* Nor does any exit hook pop a record that is not its own frame's.        *)
(***************************************************************************)
THEOREM UnwoundExitsAreExact ==
    ASSUME PlainProgram, StubsAreCalls, LogExceptions, Compiler = "clang", JumpTargets = {}
    PROVE  Spec => ExitsPopTheirOwnRecord
<1> DEFINE Exact == Len(frames') = IF Top.rec = 0 THEN Len(frames) ELSE Top.rec - 1
<1>1. TypeOK /\ LiveInv(Apart, Flat) /\ ChainInv /\ UnwoundInv =>
        [Return \/ (UnwindFrame /\ Compiler = "gcc") => Exact]_vars
  <2> SUFFICES ASSUME TypeOK, LiveInv(Apart, Flat), ChainInv, UnwoundInv, Return
               PROVE  Exact
    OBVIOUS
  <2>1. Len(real) > Floor /\ Len(real) \in Nat
    BY LiveType DEF Return
  <2>2. InStep
    BY <2>1 DEF UnwoundInv, UnwindingTop
  <2>3. ExitsSettleTheTop
    BY <2>2, ExitsInStep
  <2> QED
    BY <2>3, PlainExitsPop
<1> QED
  BY <1>1, UnwoundCorrect, PTL DEF ExitsPopTheirOwnRecord
-------------------------------------------------------------------------------
(***************************************************************************)
(* Jumps.  An exit looks for its record in one contiguous run of its call  *)
(* site's: that is the code's premise about recursion, and it holds where  *)
(* `order' ranks the call sites along the calls.  A function may then call *)
(* itself, from one place, but not through another.  And the code that     *)
(* starts a thread's first function is on the thread's stack.              *)
(***************************************************************************)
CallsAreOrdered(order) ==
    /\ order \in [Sites -> Nat]
    /\ \A s, t \in Sites :
         Kind[t] = "call" /\ Host[t] = Target[s] => s = t \/ order[s] < order[t]
    /\ \A s \in Sites :
         Kind[s] = "entry" /\ Target[s] \in TailExit => OnThreadStack(EntryLevel + Up[s])

SitesAscend(order) ==
    \A i, k \in 1..Len(frames) :
      i < k => \/ frames[i].caller = frames[k].caller
               \/ order[frames[i].caller] < order[frames[k].caller]

LEMMA AscendStep ==
    ASSUME PlainProgram, NEW order, CallsAreOrdered(order)
    PROVE  (TypeOK /\ TypeOK' /\ LiveInv(Apart, Flat) /\ ChainInv /\ SitesAscend(order)
              /\ [Next]_vars) => SitesAscend(order)'
<1> SUFFICES ASSUME TypeOK, TypeOK', LiveInv(Apart, Flat), ChainInv, SitesAscend(order),
                    [Next]_vars
             PROVE  SitesAscend(order)'
  OBVIOUS
<1>1. CASE OtherStep
  <2>1. PICK kept \in 0..Len(frames) : /\ Len(frames') = kept
                                       /\ \A i \in 1..kept : SameRecord(frames'[i], frames[i])
    BY <1>1, OthersOnlyShorten
  <2>2. \A i \in 1..kept : i \in 1..Len(frames) /\ frames'[i].caller = frames[i].caller
    BY <2>1, RecordType DEF SameRecord
  <2> QED
    BY <2>1, <2>2 DEF SitesAscend
<1>2. ASSUME NEW s \in Sites, NEW o \in Outcomes, EnterRecorded(s, o)
      PROVE  SitesAscend(order)'
  <2> DEFINE n == Len(real)
             record == NewRecord(Entered(s, 0), o)
  <2>1. /\ CanEnter(s) /\ Entered(s, 0) \in Activation
        /\ n \in 0..Len(frames) /\ Len(frames') = n + 1
        /\ \A i \in 1..n : frames'[i] = frames[i]
        /\ frames'[n + 1] = record
    BY <1>2, EnterRecordedProperty, EnterKeepsTheLive
  <2>2. n \in Nat /\ Len(frames) \in Nat /\ (n = 0 <=> real = <<>>)
    BY LiveType, RecordType, EmptySeq DEF TypeOK
  <2>3. record.caller = s
    <3>1. Entered(s, 0).caller = s
      BY <2>1, DeadCallsStartHere DEF Entered
    <3> QED
      BY <2>1, <3>1, NewRecordProperty
  <2>4. n # 0 => Kind[s] = "call" /\ Host[s] = Target[frames[n].caller]
    BY <2>1, <2>2, DeadCallsStartHere
  <2> HIDE DEF n, record
  <2>5. \A i \in 1..n : i \in 1..Len(frames) /\ n \in 1..Len(frames) /\ n # 0
    BY <2>1, <2>2
  <2>6. \A i \in 1..Len(frames) : frames[i].caller \in Sites
    BY RecordType
  <2>7. order \in [Sites -> Nat]
    BY DEF CallsAreOrdered
  <2> SUFFICES ASSUME NEW i \in 1..n + 1, NEW k \in 1..n + 1, i < k
               PROVE  \/ frames'[i].caller = frames'[k].caller
                      \/ order[frames'[i].caller] < order[frames'[k].caller]
    BY <2>1 DEF SitesAscend
  <2>8. i \in 1..n
    BY <2>2
  <2>9. CASE k \in 1..n
    BY <2>1, <2>5, <2>8, <2>9 DEF SitesAscend
  <2>10. CASE k = n + 1
    <3>1. frames'[i] = frames[i] /\ frames'[k].caller = s
      <4>1. frames'[k] = record
        BY <2>1, <2>10
      <4> QED
        BY <2>1, <2>3, <2>8, <4>1
    <3>2. frames[n].caller = s \/ order[frames[n].caller] < order[s]
      BY <2>4, <2>5, <2>6, <2>8 DEF CallsAreOrdered
    <3>3. i = n \/ frames[i].caller = frames[n].caller
                \/ order[frames[i].caller] < order[frames[n].caller]
      <4>1. i = n \/ i < n
        BY <2>2, <2>8
      <4>2. i \in 1..Len(frames) /\ n \in 1..Len(frames)
        BY <2>5, <2>8
      <4> QED
        BY <4>1, <4>2 DEF SitesAscend
    <3>4. order[frames[i].caller] \in Nat /\ order[frames[n].caller] \in Nat /\ order[s] \in Nat
      BY <2>5, <2>6, <2>7, <2>8
    <3> QED
      BY <3>1, <3>2, <3>3, <3>4
  <2> QED
    BY <2>2, <2>9, <2>10
<1> QED
  BY <1>1, <1>2, EveryEnterRecords

(***************************************************************************)
(* The run of an exit's call site then reaches down to its own record, and *)
(* that one's level tells it from the others.                              *)
(***************************************************************************)
LEMMA ExitsInOrder ==
    ASSUME TypeOK, PlainProgram, LiveInv(Apart, Flat), ChainInv,
           NEW order, CallsAreOrdered(order), SitesAscend(order)
    PROVE  ExitsSettleTheTop
<1> SUFFICES ASSUME NEW tailCalled \in BOOLEAN, real # <<>>,
                    tailCalled => Top.body \in TailExit
             PROVE  ExitIndex(tailCalled) = Len(real)
  BY DEF ExitsSettleTheTop
<1> DEFINE n == Len(real)
           N == Len(frames)
           c == Top.caller
           key == KeyAt(Top, IF tailCalled THEN Top.level + Up[c] ELSE Top.level)
           same == {i \in 1..N : SameActivationSite(frames[i], key)}
           first == Max(same)
           run == {i \in same : i..first \subseteq same}
           exact == {i \in run : frames[i].level = key.level}
           below == {i \in run : frames[i].level < key.level}
           closest == {i \in below : \A j \in below : frames[j].level <= frames[i].level}
<1>1. /\ n \in 1..N /\ n \in Nat \ {0} /\ N \in Nat /\ N \in 1..N /\ Top.rec = n
      /\ Top.level \in Int /\ c \in Sites
  <2>1. n \in 1..N /\ n \in Nat \ {0} /\ Top.rec = n /\ N \in Nat
    BY FirstDead, TopType, RecordType
  <2> HIDE DEF n, N
  <2> QED
    BY <2>1, TopType DEF Activation
<1>2. /\ frames[n].caller = c /\ frames[n].level = Top.level
      /\ Top.body = Target[c] /\ frames[n].callee = Fn[Target[c]]
  <2>1. n \in 1..n /\ Top = real[n] /\ Top.rec # 0 /\ LiveRecordsKept
    BY <1>1, TopType DEF LiveInv
  <2>2. frames[n].caller = c /\ frames[n].level = Top.level
    BY <1>1, <2>1, LiveRecord
  <2>3. Top.body = Target[c]
    BY <2>1 DEF ChainInv, LiveRecordsFirst
  <2>4. frames[n].callee = Fn[Target[frames[n].caller]]
    BY <1>1 DEF ChainInv, RecordsChain
  <2> QED
    BY <2>2, <2>3, <2>4
<1>3. /\ key.caller = c /\ key.callee = Fn[Target[c]]
      /\ key.level = IF tailCalled THEN Top.level + Up[c] ELSE Top.level
      /\ Up[c] \in Nat /\ key.level \in Int
  <2>1. Up[c] \in Nat
    BY <1>1, ProgramAssumption
  <2> QED
    BY <1>1, <1>2, <2>1 DEF KeyAt
<1>4. \A i \in 1..N : i \in same <=> frames[i].caller = c
  <2> SUFFICES ASSUME NEW i \in 1..N PROVE i \in same <=> frames[i].caller = c
    OBVIOUS
  <2>1. frames[i].callee = Fn[Target[frames[i].caller]]
    BY DEF ChainInv, RecordsChain
  <2> HIDE DEF key
  <2> QED
    BY <1>3, <2>1 DEF SameActivationSite
<1>5. \A i \in 1..N : frames[i].level \in Int /\ OnThreadStack(frames[i].level)
  BY RecordType DEF LiveInv, TailCallersAbove, PlainProgram
<1>6. \A i, k \in 1..N : i < k => frames[k].level < frames[i].level
  BY DEF ChainInv, RecordsDescend
<1> HIDE DEF n, c, key
<1>7. n \in same /\ same # {} /\ first \in same /\ \A i \in same : i <= first
  <2>1. n \in same
    BY <1>1, <1>2, <1>4
  <2>2. same \in SUBSET (0..N)
    OBVIOUS
  <2> HIDE DEF same
  <2> QED
    BY <1>1, <2>1, <2>2, MaxOfPositions
<1>8. same \subseteq 1..N
  OBVIOUS
<1>9. n \in run
  <2> SUFFICES ASSUME NEW i \in n..first PROVE i \in same
    BY <1>7
  <2> HIDE DEF same, first
  <2>1. i \in 1..N /\ first \in 1..N /\ n \in 1..N
    BY <1>1, <1>7, <1>8
  <2>2. frames[first].caller = c
    BY <1>4, <1>7, <2>1
  <2>3. i = n \/ frames[i].caller = c \/ order[c] < order[frames[i].caller]
    BY <1>1, <1>2, <2>1 DEF SitesAscend
  <2>4. i = first \/ frames[i].caller = c \/ order[frames[i].caller] < order[c]
    BY <1>1, <2>1, <2>2 DEF SitesAscend
  <2>5. order[c] \in Nat /\ order[frames[i].caller] \in Nat
    BY <1>1, <2>1, RecordType DEF CallsAreOrdered
  <2>6. frames[i].caller = c
    BY <1>2, <2>2, <2>3, <2>4, <2>5
  <2> QED
    BY <1>4, <2>1, <2>6
<1>10. /\ Kind[c] \in {"entry", "call"} /\ (Kind[c] = "entry" => n = 1)
       /\ Kind[c] = "call" => Up[c] \in 1..Drop[c] /\ Drop[c] \in Nat /\ n > 1
       /\ n > 1 => /\ n - 1 \in 1..N /\ n - 1 < n
                   /\ frames[n].level = frames[n - 1].level - Drop[c]
  <2>1. n = 1 => Kind[c] = "entry"
    BY <1>1, <1>2 DEF ChainInv, RecordsChain
  <2>2. n > 1 => Kind[c] = "call" /\ frames[n].level = frames[n - 1].level - Drop[c]
    BY <1>1, <1>2 DEF ChainInv, RecordsChain
  <2>3. Kind[c] = "call" => Up[c] \in 1..Drop[c] /\ Drop[c] \in Nat
    BY <1>1, ProgramAssumption
  <2> QED
    BY <1>1, <2>1, <2>2, <2>3
<1> HIDE DEF same, first, N
<1> DEFINE giveUp == \/ ~OnThreadStack(key.level)
                     \/ ~OnThreadStack(frames[N].level)
                     \/ same = {}
<1>11. ExitIndex(tailCalled)
         = IF giveUp THEN N
           ELSE IF tailCalled
                THEN IF below = {} THEN first ELSE Max(closest)
                ELSE IF exact = {} THEN first ELSE Max(exact)
  BY DEF ExitIndex, ExitingRecordIndex, same, first, N, key, c
<1>12. CASE ~tailCalled
  <2>1. key.level = frames[n].level
    BY <1>2, <1>3, <1>12
  <2>2. ~giveUp
    BY <1>1, <1>5, <1>7, <2>1
  <2>3. exact = {n}
    <3>1. n \in exact
      BY <1>9, <2>1
    <3>2. ASSUME NEW i \in exact PROVE i = n
      <4>1. i \in 1..N /\ frames[i].level = frames[n].level /\ frames[n].level \in Int
        BY <1>1, <1>5, <1>8, <2>1, <3>2
      <4> QED
        BY <1>1, <1>6, <4>1
    <3> QED
      BY <3>1, <3>2
  <2>4. Max(exact) = n
    <3> HIDE DEF exact
    <3>1. exact \in SUBSET (0..N) /\ exact # {}
      BY <1>1, <2>3
    <3> QED
      BY <1>1, <2>3, <3>1, MaxOfPositions
  <2> HIDE DEF exact, giveUp
  <2>5. exact # {}
    BY <2>3
  <2> QED
    BY <1>11, <1>12, <2>2, <2>4, <2>5 DEF n
<1>13. CASE tailCalled
  <2>1. key.level = Top.level + Up[c] /\ Top.level \in Int /\ Up[c] \in Nat
    BY <1>1, <1>3, <1>13
  <2>2. OnThreadStack(key.level)
    <3>1. CASE Kind[c] = "entry"
      <4>1. n = 1 /\ 1 \in 1..Len(frames)
        BY <1>1, <1>10, <3>1 DEF N
      <4>2. frames[1].level = EntryLevel
        BY <4>1 DEF ChainInv, RecordsChain
      <4>3. Top.level = EntryLevel /\ Top.body \in TailExit
        BY <1>2, <1>13, <4>1, <4>2
      <4> QED
        BY <1>1, <1>2, <2>1, <3>1, <4>3 DEF CallsAreOrdered
    <3>2. CASE Kind[c] = "call"
      <4>1. /\ frames[n].level = Top.level /\ frames[n - 1].level \in Int
            /\ OnThreadStack(frames[n].level) /\ OnThreadStack(frames[n - 1].level)
            /\ frames[n].level = frames[n - 1].level - Drop[c]
            /\ Up[c] \in 1..Drop[c] /\ Drop[c] \in Nat
        BY <1>1, <1>2, <1>5, <1>10, <3>2
      <4>2. frames[n].level <= key.level /\ key.level <= frames[n - 1].level
        BY <2>1, <4>1
      <4> HIDE DEF key
      <4> QED
        BY <1>3, <2>1, <4>1, <4>2, BoundsAssumption DEF OnThreadStack
    <3> QED
      BY <1>10, <3>1, <3>2
  <2>3. ~giveUp
    BY <1>1, <1>5, <1>7, <2>2
  <2>4. CASE Kind[c] = "entry"
    <3>1. \A i \in same : i = 1
      <4> SUFFICES ASSUME NEW i \in same, i # 1 PROVE FALSE
        OBVIOUS
      <4>1. i \in 1..N /\ i > 1 /\ frames[i].caller = c
        BY <1>1, <1>4, <1>8
      <4>2. Kind[frames[i].caller] = "call"
        BY <4>1 DEF ChainInv, RecordsChain, N
      <4> QED
        BY <2>4, <4>1, <4>2
    <3>2. first = n /\ n = 1
      BY <1>7, <3>1
    <3>3. closest \in SUBSET (0..N) /\ \A i \in closest : i = n
      <4>1. closest \subseteq same
        OBVIOUS
      <4> HIDE DEF closest
      <4> QED
        BY <1>1, <1>8, <3>1, <3>2, <4>1
    <3>4. below # {} => closest # {}
      <4> SUFFICES ASSUME NEW i \in below PROVE i \in closest
        OBVIOUS
      <4>1. i \in 1..N /\ \A j \in below : j = i
        <5>1. below \subseteq same
          OBVIOUS
        <5> HIDE DEF below
        <5> QED
          BY <1>8, <3>1, <5>1
      <4>2. frames[i].level <= frames[i].level
        BY <1>5, <4>1
      <4> QED
        BY <4>1, <4>2
    <3> HIDE DEF below, closest, giveUp
    <3>5. below # {} => Max(closest) = n
      BY <1>1, <3>3, <3>4, MaxOfPositions
    <3> QED
      BY <1>11, <1>13, <2>3, <3>2, <3>5 DEF n
  <2>5. CASE Kind[c] = "call"
    <3>1. /\ frames[n].level = Top.level
          /\ n - 1 \in 1..N /\ frames[n - 1].level \in Int
          /\ frames[n].level = frames[n - 1].level - Drop[c]
          /\ Up[c] \in 1..Drop[c] /\ Drop[c] \in Nat
      BY <1>1, <1>2, <1>5, <1>10, <2>5
    <3>2. frames[n].level < key.level /\ key.level <= frames[n - 1].level
      BY <2>1, <3>1
    <3>3. n \in below
      BY <1>9, <3>2
    <3>4. ASSUME NEW i \in below PROVE n <= i
      <4>1. i \in 1..N /\ frames[i].level < key.level /\ i \in Nat
        <5>1. i \in same /\ frames[i].level < key.level
          BY <3>4
        <5>2. N \in Nat /\ same \subseteq 1..N
          BY <1>1, <1>8
        <5> HIDE DEF below, key
        <5> QED
          BY <5>1, <5>2
      <4>2. i < n - 1 => frames[n - 1].level < frames[i].level
        <5> DEFINE host == n - 1
        <5>1. host \in 1..N /\ i \in 1..N
          BY <3>1, <4>1
        <5> HIDE DEF host, below
        <5>2. i < host => frames[host].level < frames[i].level
          BY <1>6, <5>1
        <5> QED
          BY <5>2 DEF host
      <4>3. frames[i].level \in Int /\ key.level \in Int
        BY <1>3, <1>5, <4>1
      <4>4. i # n - 1 /\ ~(i < n - 1)
        <5> HIDE DEF key
        <5> QED
          BY <3>1, <3>2, <4>1, <4>2, <4>3
      <4> QED
        BY <1>1, <4>1, <4>4
    <3>5. \A j \in below : frames[j].level <= frames[n].level
      <4> SUFFICES ASSUME NEW j \in below PROVE frames[j].level <= frames[n].level
        OBVIOUS
      <4>1. n <= j /\ j \in 1..N
        <5>1. j \in same
          OBVIOUS
        <5> QED
          BY <1>8, <3>4, <5>1
      <4>2. j = n \/ frames[j].level < frames[n].level
        BY <1>1, <1>6, <4>1
      <4> QED
        BY <1>1, <1>5, <4>1, <4>2
    <3>6. closest = {n}
      <4>1. n \in closest
        BY <3>3, <3>5
      <4>2. ASSUME NEW i \in closest PROVE i = n
        <5>1. i \in 1..N /\ n <= i /\ frames[n].level <= frames[i].level
          BY <1>8, <3>3, <3>4, <4>2
        <5>2. n < i => frames[i].level < frames[n].level
          BY <1>1, <1>6, <5>1
        <5> QED
          BY <1>1, <1>5, <5>1, <5>2
      <4> QED
        BY <4>1, <4>2
    <3>7. Max(closest) = n
      <4> HIDE DEF closest
      <4>1. closest \in SUBSET (0..N) /\ closest # {}
        BY <1>1, <3>6
      <4> QED
        BY <1>1, <3>6, <4>1, MaxOfPositions
    <3> HIDE DEF below, closest, giveUp
    <3>8. below # {}
      BY <3>3
    <3> QED
      BY <1>11, <1>13, <2>3, <3>7, <3>8 DEF n
  <2> QED
    BY <1>10, <2>4, <2>5
<1> QED
  BY <1>12, <1>13

LEMMA AscendInit == ASSUME NEW order PROVE Init => SitesAscend(order)
<1> SUFFICES ASSUME Init PROVE SitesAscend(order)
  OBVIOUS
<1>1. Len(frames) = 0
  BY EmptySeq DEF Init
<1> QED
  BY <1>1 DEF SitesAscend

(***************************************************************************)
(* In a plain program whose calls are ordered (a function may call itself, *)
(* but none calls itself through another) every exit hook takes its own    *)
(* record off the frame stack, whatever jumps and unwinding left above it. *)
(***************************************************************************)
THEOREM PlainExitsAreExact ==
    ASSUME PlainProgram, NEW CONSTANT order, CallsAreOrdered(order)
    PROVE  Spec => ExitsPopTheirOwnRecord
<1> DEFINE Exact == Len(frames') = IF Top.rec = 0 THEN Len(frames) ELSE Top.rec - 1
<1>1. Init => SitesAscend(order)
  BY AscendInit
<1>2. (TypeOK /\ TypeOK' /\ LiveInv(Apart, Flat) /\ ChainInv /\ SitesAscend(order)
         /\ [Next]_vars) => SitesAscend(order)'
  BY AscendStep
<1>3. TypeOK /\ LiveInv(Apart, Flat) /\ ChainInv /\ SitesAscend(order) =>
        [Return \/ (UnwindFrame /\ Compiler = "gcc") => Exact]_vars
  <2> SUFFICES ASSUME TypeOK, LiveInv(Apart, Flat), ChainInv, SitesAscend(order)
               PROVE  Return \/ (UnwindFrame /\ Compiler = "gcc") => Exact
    OBVIOUS
  <2>1. ExitsSettleTheTop
    BY ExitsInOrder
  <2> QED
    BY <2>1, PlainExitsPop
<1> QED
  BY <1>1, <1>2, <1>3, ChainCorrect, PTL DEF Spec, ExitsPopTheirOwnRecord

(***************************************************************************)
(* Without exceptions, what is dead was jumped over, and is marked so by   *)
(* the enter or the exit that reclaims it.                                 *)
(***************************************************************************)
JumpedInv == DeadBy("jumped") /\ MarksTellHowFramesEnded

LEMMA JumpedStep ==
    ASSUME PlainProgram, ~Throws
    PROVE  (TypeOK /\ TypeOK' /\ LiveInv(Apart, Flat) /\ ExceptionsInv /\ ChainInv
              /\ ExitsSettleTheTop /\ JumpedInv /\ [Next]_vars) => JumpedInv'
<1> SUFFICES ASSUME TypeOK, TypeOK', LiveInv(Apart, Flat), ExceptionsInv, ChainInv,
                    ExitsSettleTheTop, JumpedInv, [Next]_vars
             PROVE  JumpedInv'
  OBVIOUS
<1>1. /\ Len(real) \in Nat /\ Len(frames) \in Nat /\ Len(real') \in Nat
      /\ DeadBy("jumped")
  BY LiveType, RecordType, LenProperties DEF TypeOK, JumpedInv
<1>2. ASSUME DeadBy("jumped")', ended' \subseteq TrueMarks PROVE JumpedInv'
  BY <1>2 DEF JumpedInv, MarksTellHowFramesEnded, TrueMarks
<1>3. inflight = <<>> /\ Uncaught = 0 /\ ~UnwindingTop
  <2>1. inflight = <<>>
    BY DEF ExceptionsInv, ExceptionsNest
  <2> QED
    BY <2>1, EmptySeq DEF Uncaught, UnwindingTop
<1>4. ASSUME NEW s \in Sites, NEW o \in Outcomes, EnterRecorded(s, o)
      PROVE  JumpedInv'
  <2>1. DeadBy("jumped")' /\ ended' \subseteq {[fate |-> "jumped", how |-> EnterMark]}
    BY <1>1, <1>4, PlainEnter
  <2>2. EnterMark = "~"
    BY <1>3 DEF EnterMark
  <2> QED
    BY <1>2, <2>1, <2>2 DEF TrueMarks
<1>5. CASE Return
  <2>1. /\ real # <<>> /\ Len(real) > Floor /\ real' = RealWithoutTop
        /\ ExitHook(Top.body \in TailExit, "returned")
        /\ (Top.body \in TailExit) \in BOOLEAN
    BY <1>5 DEF Return
  <2>2. /\ Top.rec = Len(real) /\ Len(frames') = Len(real) - 1
        /\ ended' \subseteq MarkLines(Len(real), "~") \cup
             {[fate |-> "returned", how |-> IF LeftByException(Top.rec) THEN "!" ELSE "|"]}
    BY <2>1, PlainExit
  <2>3. [fate |-> "returned", how |-> IF LeftByException(Top.rec) THEN "!" ELSE "|"]
          \in TrueMarks
    <3>1. LiveRecordsKept /\ Top.rec # 0
      BY <2>1, <2>2, TopType DEF LiveInv
    <3> QED
      BY <2>1, <3>1, OwnMarkIsTrue
  <2>4. Len(real') = Len(real) - 1
    <3>1. Len(real) - 1 \in 0..Len(real) /\ real \in Seq(Activation)
      BY <2>1, TopType DEF TypeOK
    <3> QED
      BY <2>1, <3>1, PrefixProperty DEF RealWithoutTop
  <2>5. DeadBy("jumped")'
    BY <1>1, <2>2, <2>4 DEF DeadBy
  <2>6. MarkLines(Len(real), "~") \subseteq {[fate |-> "jumped", how |-> "~"]}
    BY <1>1, DeadLines
  <2> QED
    BY <1>2, <2>2, <2>3, <2>5, <2>6 DEF TrueMarks
<1>6. ASSUME NEW k \in 1..MaxDepth, Longjmp(k)
      PROVE  JumpedInv'
  <2>1. /\ k \in 0..Len(real) /\ real' = SubSeq(real, 1, k)
        /\ frames' = Buried(k, "jumped") /\ ended' = {}
    BY <1>1, <1>6, ProgramAssumption DEF Longjmp
  <2>2. DeadBy("jumped")'
    BY <1>1, <2>1, DeadAfterBurial
  <2> QED
    BY <1>2, <2>1, <2>2
<1>7. CASE Throw
  BY <1>7 DEF Throw
<1>8. CASE UnwindFrame \/ Catch \/ CatchInTerminateStub
  BY <1>3, <1>8 DEF UnwindFrame, Catch, CatchInTerminateStub
<1>9. CASE UNCHANGED vars
  BY <1>9 DEF vars, JumpedInv, DeadBy, MarksTellHowFramesEnded
<1> QED
  BY <1>4, <1>5, <1>6, <1>7, <1>8, <1>9, EveryEnterRecords DEF OtherStep

(***************************************************************************)
(* There, in a program that jumps but does not throw, the mark of every    *)
(* line tells how its frame ended.                                         *)
(***************************************************************************)
THEOREM JumpedMarksAreTrue ==
    ASSUME PlainProgram, ~Throws, NEW CONSTANT order, CallsAreOrdered(order)
    PROVE  Spec => []MarksTellHowFramesEnded
<1>1. Init => SitesAscend(order) /\ JumpedInv
  <2>1. Init => SitesAscend(order)
    BY AscendInit
  <2>2. ASSUME Init PROVE JumpedInv
    <3>1. Len(real) = 0 /\ Len(frames) = 0 /\ ended = {}
      BY <2>2, EmptySeq DEF Init
    <3> QED
      BY <3>1 DEF JumpedInv, DeadBy, MarksTellHowFramesEnded
  <2> QED
    BY <2>1, <2>2
<1>2. (TypeOK /\ TypeOK' /\ LiveInv(Apart, Flat) /\ ChainInv /\ SitesAscend(order)
         /\ [Next]_vars) => SitesAscend(order)'
  BY AscendStep
<1>3. (TypeOK /\ LiveInv(Apart, Flat) /\ ChainInv /\ SitesAscend(order))
        => ExitsSettleTheTop
  BY ExitsInOrder
<1>4. (TypeOK /\ TypeOK' /\ LiveInv(Apart, Flat) /\ ExceptionsInv /\ ChainInv
         /\ ExitsSettleTheTop /\ JumpedInv /\ [Next]_vars) => JumpedInv'
  BY JumpedStep
<1>5. JumpedInv => MarksTellHowFramesEnded
  BY DEF JumpedInv
<1> QED
  BY <1>1, <1>2, <1>3, <1>4, <1>5, ChainCorrect, PTL DEF Spec
===============================================================================
