-------------------------- MODULE FrameLevelsProofs --------------------------
(***************************************************************************)
(* Theorems about FrameLevels: for every program, stack and front cache,   *)
(* its types, and - where an unwinder that answers nonsense shows - that   *)
(* recorded levels order like frames and that the levels found for frames  *)
(* the unwinder describes are exact.                                       *)
(***************************************************************************)
EXTENDS FrameLevels, SequenceTheorems, WellFoundedInduction, TLAPS

(***************************************************************************)
(* The invariant: what frames look like, ...                               *)
(***************************************************************************)
Frames == [fn : Functions, cfa : Int, sp : Int, level : Int]

\* Where a frame lies, and how large it is.
Placed(f) ==
  /\ f.sp < f.cfa /\ f.cfa <= AltTop /\ Fits(f)
  /\ Layout[f.fn] # "frame_pointer" => f.cfa - f.sp - 1 \in Sizes[f.fn]

SameStack(a, b) == OnStack(a.cfa) <=> OnStack(b.cfa)

\* b was called, directly or not, from a.
Nested(a, b) ==
  \/ OnStack(a.cfa) /\ ~OnStack(b.cfa)
  \/ SameStack(a, b) /\ b.cfa <= a.sp

FramesInv(fs) ==
  /\ fs \in Seq(Frames)
  /\ \A i \in 1..Len(fs) : Placed(fs[i])
  /\ \A i, j \in 1..Len(fs) : i < j => Nested(fs[i], fs[j])

(***************************************************************************)
(* ... the types of the rest, ...                                          *)
(***************************************************************************)
RuleType == [distance : Nat, from_saved_frame_pointer : BOOLEAN]
SlotNames == {SlotOf[site] : site \in Sites}
SlotType == [site : Sites \cup {NoSite}, rule : RuleType]
Kinds == {"none", "enter", "exit", "catch"}

RulesTyped(known) ==
  /\ DOMAIN known \subseteq Sites
  /\ \A site \in DOMAIN known : known[site] \in RuleType

SlotsTyped(front) ==
  /\ front \in [SlotNames -> SlotType]
  /\ \A s \in SlotNames : front[s].site = NoSite \/ SlotOf[front[s].site] = s

TypeInv ==
  /\ FramesInv(frames)
  /\ RulesTyped(rules)
  /\ SlotsTyped(slots)
  /\ last.kind \in Kinds /\ last.level \in Int
  /\ offSites \subseteq Sites
  /\ hooks \in 0..MaxHooks

(***************************************************************************)
(* ... and what a rule kept for a site says of the frames of its function: *)
(* the minimum, or exactly where the level is - which it must be when the  *)
(* unwinder describes them and no hook ran there off the thread's stack.   *)
(***************************************************************************)
Described(f) ==
  Layout[f] # "undescribed" /\ (Layout[f] # "frame_pointer" => Representable(f))

PointerRule == [distance |-> TwoWords, from_saved_frame_pointer |-> TRUE]
FrameRule(size) == [distance |-> size + MinDistance, from_saved_frame_pointer |-> FALSE]

ExactRule(f, rule) ==
  \/ Layout[f] = "frame_pointer" /\ rule = PointerRule
  \/ Layout[f] = "fixed" /\ \E size \in Sizes[f] : rule = FrameRule(size)

SoundRule(f, rule) == Covered(f) => rule = MinimumRule \/ ExactRule(f, rule)

RuleFits(site, rule, off) ==
  /\ SoundRule(site[1], rule)
  /\ Covered(site[1]) /\ Described(site[1]) /\ site \notin off => ExactRule(site[1], rule)

RulesFit(known, off) == \A site \in DOMAIN known : RuleFits(site, known[site], off)

SlotsFit(front, off) ==
  \A s \in SlotNames : front[s].site # NoSite => RuleFits(front[s].site, front[s].rule, off)

\* The level recorded is inside the frame.
Leveled(f) == Covered(f.fn) => f.sp < f.level /\ f.level <= f.cfa

LevelInv ==
  /\ RulesFit(rules, offSites)
  /\ SlotsFit(slots, offSites)
  /\ \A i \in 1..Len(frames) : Leveled(frames[i])

(***************************************************************************)
(* The nonsense an unwinder answers for a frame it has no information of   *)
(* is recognised: by the bounds of the stack, or, when they are unknown,   *)
(* because no distance within the stack is as large.                       *)
(***************************************************************************)
NonsenseShows == BoundsKnown \/ MaxDistance < StackTop
-------------------------------------------------------------------------------
(***************************************************************************)
(* The register of the frame pointer.                                      *)
(***************************************************************************)
LEMMA SmallerNaturals == \A x, y \in Nat : x < y => <<x, y>> \in OpToRel(<, Nat)
<1> TAKE x, y \in Nat
<1> HAVE x < y
<1> DEFINE p == <<x, y>>
<1>1. p \in Nat \X Nat /\ p[1] < p[2]
  OBVIOUS
<1> QED
  BY <1>1, Zenon DEF OpToRel

LEMMA LeastNatural ==
    ASSUME NEW S \in SUBSET Nat, S # {}
    PROVE  \E x \in S : \A y \in S : x <= y
<1>1. PICK x \in S : \A y \in S : ~(<<y, x>> \in OpToRel(<, Nat))
  BY NatLessThanWellFounded, WFMin, Zenon
<1>2. \A y \in S : ~(y < x)
  BY <1>1, SmallerNaturals
<1> QED
  BY <1>2

\* The innermost of a set of frames.
LEMMA LargestIndex ==
    ASSUME NEW n \in Nat, NEW S \in SUBSET (1..n), S # {}
    PROVE  \E x \in S : \A y \in S : y <= x
<1> DEFINE mirror == {m \in Nat : n - m \in S}
<1>1. mirror \in SUBSET Nat /\ mirror # {}
  <2>1. PICK y \in S : TRUE
    OBVIOUS
  <2>2. n - y \in Nat /\ n - (n - y) = y
    BY <2>1
  <2> QED
    BY <2>1, <2>2
<1>2. PICK m \in mirror : \A k \in mirror : m <= k
  <2> HIDE DEF mirror
  <2> QED
    BY <1>1, LeastNatural
<1>3. n - m \in S
  BY <1>2
<1>4. ASSUME NEW y \in S PROVE y <= n - m
  <2>1. n - y \in Nat /\ n - (n - y) = y
    OBVIOUS
  <2>2. n - y \in mirror
    BY <2>1
  <2>3. m <= n - y
    BY <1>2, <2>2
  <2> QED
    BY <2>1, <2>3, <1>2
<1> QED
  BY <1>3, <1>4

Keeping(fs) == {i \in DOMAIN fs : Layout[fs[i].fn] \in {"frame_pointer", "realigned"}}

\* The register belongs to the innermost frame that keeps a frame pointer.
LEMMA RegisterOwner ==
    ASSUME NEW fs, FramesInv(fs)
    PROVE  \/ Keeping(fs) = {} /\ RegisterIn(fs) = 0
           \/ \E k \in Keeping(fs) :
                /\ \A j \in Keeping(fs) : j <= k
                /\ Layout[fs[k].fn] = "frame_pointer" => RegisterIn(fs) = fs[k].cfa - TwoWords
                /\ Layout[fs[k].fn] = "realigned" => RegisterIn(fs) = fs[k].sp
<1>1. CASE Keeping(fs) = {}
  BY <1>1 DEF RegisterIn, Keeping
<1>2. CASE Keeping(fs) # {}
  <2> DEFINE owner == CHOOSE k \in Keeping(fs) : \A j \in Keeping(fs) : j <= k
  <2>1. Len(fs) \in Nat /\ DOMAIN fs = 1..Len(fs)
    BY LenProperties DEF FramesInv
  <2>2. Keeping(fs) \in SUBSET (1..Len(fs))
    BY <2>1 DEF Keeping
  <2>3. \E k \in Keeping(fs) : \A j \in Keeping(fs) : j <= k
    BY <1>2, <2>1, <2>2, LargestIndex
  <2>4. owner \in Keeping(fs) /\ \A j \in Keeping(fs) : j <= owner
    BY <2>3, Zenon
  <2>5. RegisterIn(fs) = IF Layout[fs[owner].fn] = "frame_pointer" THEN fs[owner].cfa - TwoWords
                         ELSE fs[owner].sp
    BY <1>2, Zenon DEF RegisterIn, Keeping
  <2> HIDE DEF owner
  <2> QED
    BY <2>4, <2>5
<1> QED
  BY <1>1, <1>2

LEMMA Constants ==
  /\ MaxDistance \in Nat /\ MaxAlloca \in Nat /\ MaxFrames \in Nat /\ MaxHooks \in Nat
  /\ StackTop \in Nat /\ StackTop > 3 /\ AltTop \in Nat /\ AltTop > 2 * StackTop
  /\ BoundsKnown \in BOOLEAN
  /\ TailExits \subseteq Functions
  /\ DOMAIN SlotOf = Sites
  /\ \A f \in Functions :
       /\ Layout[f] \in {"fixed", "frame_pointer", "realigned", "undescribed"}
       /\ Sizes[f] \subseteq Nat
       /\ Layout[f] = "fixed" => \E size \in Sizes[f] : Sizes[f] = {size}
BY LevelsAssumption DEF LevelsAssumption, MinDistance

\* What the register holds in a hook called from the innermost frame.
RegisterFacts(f, saved) ==
  /\ saved \in Int /\ saved + TwoWords < AltTop + StackTop
  /\ Layout[f.fn] = "frame_pointer" => saved + TwoWords = f.cfa
  /\ Layout[f.fn] \in {"fixed", "undescribed"} => saved + TwoWords # f.cfa

LEMMA FrameTyped ==
    ASSUME NEW fs, FramesInv(fs), NEW i \in 1..Len(fs)
    PROVE  /\ fs[i] \in Frames /\ fs[i].fn \in Functions
           /\ fs[i].cfa \in Int /\ fs[i].sp \in Int /\ fs[i].level \in Int
           /\ Placed(fs[i])
<1>1. fs[i] \in Frames
  BY ElementOfSeq DEF FramesInv
<1> QED
  BY <1>1 DEF FramesInv, Frames

\* A frame lies above zero, on the alternate stack even above the other one.
LEMMA Room ==
    ASSUME NEW f \in Frames, Placed(f)
    PROVE  /\ f.cfa \in Int /\ f.sp \in Int
           /\ f.sp > 2 /\ f.cfa > f.sp
           /\ ~OnStack(f.cfa) => f.sp > StackTop + 2
<1>1. f.cfa \in Int /\ f.sp \in Int /\ StackTop \in Nat
  BY Constants DEF Frames
<1>2. f.sp - 2 > (IF OnStack(f.cfa) THEN 0 ELSE StackTop)
  BY DEF Placed, Fits, HookFrame
<1> QED
  BY <1>1, <1>2 DEF Placed

LEMMA Register ==
    ASSUME NEW fs, FramesInv(fs), fs # <<>>
    PROVE  RegisterFacts(Last(fs), RegisterIn(fs))
<1> DEFINE n == Len(fs)
           f == fs[n]
           saved == RegisterIn(fs)
<1>1. n \in Nat /\ n > 0 /\ DOMAIN fs = 1..n /\ n \in 1..n
  BY LenProperties, EmptySeq DEF FramesInv
<1>2. Last(fs) = f
  BY DEF Last
<1>3. /\ f \in Frames /\ f.fn \in Functions /\ Placed(f)
      /\ f.cfa \in Int /\ f.sp \in Int /\ f.sp > 2 /\ f.cfa > f.sp
      /\ ~OnStack(f.cfa) => f.sp > StackTop + 2
  <2>1. f \in Frames /\ f.fn \in Functions /\ Placed(f)
    BY <1>1, FrameTyped
  <2> HIDE DEF f
  <2> QED
    BY <2>1, Room
<1>4. StackTop \in Nat /\ StackTop > 3 /\ AltTop \in Nat
  BY Constants
<1>5. CASE Keeping(fs) = {} /\ saved = 0
  <2>1. Layout[f.fn] # "frame_pointer"
    BY <1>1, <1>5 DEF Keeping
  <2> HIDE DEF f, saved
  <2> QED
    BY <1>2, <1>3, <1>4, <1>5, <2>1 DEF RegisterFacts, TwoWords, saved
<1>6. ASSUME NEW k \in Keeping(fs),
             \A j \in Keeping(fs) : j <= k,
             Layout[fs[k].fn] = "frame_pointer" => saved = fs[k].cfa - TwoWords,
             Layout[fs[k].fn] = "realigned" => saved = fs[k].sp
      PROVE  RegisterFacts(Last(fs), saved)
  <2> DEFINE g == fs[k]
  <2>1. k \in 1..n /\ Layout[g.fn] \in {"frame_pointer", "realigned"}
    BY <1>1 DEF Keeping
  <2>2. /\ g \in Frames /\ g.fn \in Functions /\ Placed(g)
        /\ g.cfa \in Int /\ g.sp \in Int /\ g.sp < g.cfa /\ g.cfa <= AltTop
    <3>1. g \in Frames /\ g.fn \in Functions /\ Placed(g)
      BY <2>1, FrameTyped
    <3> QED
      BY <3>1 DEF Placed, Frames
  <2>3. saved = g.cfa - 2 \/ saved = g.sp
    BY <1>6, <2>1 DEF TwoWords
  <2>4. saved \in Int /\ saved + 2 < AltTop + StackTop
    <3> HIDE DEF g, saved
    <3> QED
      BY <2>2, <2>3, <1>4
  <2>5. CASE k = n
    <3>1. Layout[f.fn] \in {"frame_pointer", "realigned"}
      BY <2>1, <2>5
    <3>2. Layout[f.fn] = "frame_pointer" => saved = f.cfa - 2
      BY <1>6, <2>5 DEF TwoWords
    <3> HIDE DEF f, saved
    <3> QED
      BY <1>2, <1>3, <2>4, <3>1, <3>2 DEF RegisterFacts, TwoWords
  <2>6. CASE k # n
    <3>1. Layout[f.fn] # "frame_pointer"
      BY <1>1, <1>6, <2>1, <2>6 DEF Keeping
    <3>2. Nested(g, f)
      <4>1. k < n
        <5>1. k \in 1..n
          BY <2>1
        <5> HIDE DEF n
        <5> QED
          BY <1>1, <2>6, <5>1
      <4>2. \A i, j \in 1..Len(fs) : i < j => Nested(fs[i], fs[j])
        BY DEF FramesInv
      <4> QED
        BY <1>1, <2>1, <4>1, <4>2
    <3>3. saved + 2 # f.cfa
      <4> HIDE DEF f, g, saved
      <4>1. CASE OnStack(g.cfa) /\ ~OnStack(f.cfa)
        BY <1>3, <1>4, <2>2, <2>3, <4>1 DEF OnStack
      <4>2. CASE f.cfa <= g.sp
        BY <1>3, <2>2, <2>3, <4>2
      <4> QED
        BY <3>2, <4>1, <4>2 DEF Nested
    <3> HIDE DEF f, saved
    <3> QED
      BY <1>2, <2>4, <3>1, <3>3 DEF RegisterFacts, TwoWords
  <2> QED
    BY <2>5, <2>6
<1> QED
  BY RegisterOwner, <1>5, <1>6
-------------------------------------------------------------------------------
(***************************************************************************)
(* Rules: measuring and applying them.                                     *)
(***************************************************************************)
LEMMA RuleShapes ==
  /\ MinimumRule \in RuleType
  /\ PointerRule \in RuleType
  /\ \A distance \in Nat : [distance |-> distance, from_saved_frame_pointer |-> FALSE] \in RuleType
BY DEF MinimumRule, PointerRule, RuleType, MinDistance, TwoWords

LEMMA MeasuredType ==
    ASSUME NEW cfa \in Int, NEW frame \in Int, NEW saved \in Int
    PROVE  MeasuredRule(cfa, frame, saved) \in RuleType
<1>1. CASE cfa <= frame \/ ~OnThreadStack(cfa)
  BY <1>1, RuleShapes DEF MeasuredRule
<1>2. CASE ~(cfa <= frame \/ ~OnThreadStack(cfa))
  <2>1. cfa - frame \in Nat
    BY <1>2
  <2> QED
    BY <1>2, <2>1, RuleShapes DEF MeasuredRule, PointerRule
<1> QED
  BY <1>1, <1>2

LEMMA UnwoundType ==
    ASSUME NEW f \in Frames
    PROVE  Unwound(f) \subseteq Int
BY Constants DEF Unwound, Frames, HookFrame

\* The rule measured for a frame the unwinder describes.
LEMMA MeasuredOfDescribed ==
    ASSUME NEW f \in Frames, Placed(f), NEW saved, RegisterFacts(f, saved),
           NEW seen \in Unwound(f), Layout[f.fn] # "undescribed"
    PROVE  /\ ~OnThreadStack(f.cfa) => MeasuredRule(seen, HookFrame(f.sp), saved) = MinimumRule
           /\ OnThreadStack(f.cfa) /\ f.cfa = saved + TwoWords
                => MeasuredRule(seen, HookFrame(f.sp), saved) = PointerRule
           /\ OnThreadStack(f.cfa) /\ f.cfa # saved + TwoWords
                => MeasuredRule(seen, HookFrame(f.sp), saved)
                     = IF f.cfa - HookFrame(f.sp) > MaxDistance THEN MinimumRule
                       ELSE FrameRule(f.cfa - f.sp - 1)
<1>1. seen = f.cfa
  BY DEF Unwound
<1>2. f.cfa \in Int /\ f.sp \in Int /\ f.sp < f.cfa
  BY DEF Frames, Placed
<1>3. ~(f.cfa <= HookFrame(f.sp))
  BY <1>2 DEF HookFrame
<1>4. f.cfa - HookFrame(f.sp) = (f.cfa - f.sp - 1) + MinDistance
  BY <1>2 DEF HookFrame, MinDistance
<1> QED
  BY <1>1, <1>3, <1>4, Zenon DEF MeasuredRule, PointerRule, FrameRule

\* The rule measured for a frame the unwinder knows nothing of.
LEMMA MeasuredOfUndescribed ==
    ASSUME NonsenseShows,
           NEW f \in Frames, Placed(f), NEW saved, RegisterFacts(f, saved),
           NEW seen \in Unwound(f), Layout[f.fn] = "undescribed"
    PROVE  MeasuredRule(seen, HookFrame(f.sp), saved) = MinimumRule
<1> DEFINE frame == HookFrame(f.sp)
<1>1. /\ f.cfa \in Int /\ f.sp \in Int /\ f.sp < f.cfa /\ f.cfa <= AltTop /\ f.sp > 2
      /\ frame \in Int /\ frame < AltTop /\ frame > 0
  <2>1. f.cfa \in Int /\ f.sp \in Int /\ f.sp < f.cfa /\ f.cfa <= AltTop /\ f.sp > 2
    BY Room DEF Placed
  <2> QED
    BY <2>1, Constants DEF HookFrame
<1>2. seen \in {0, frame, AltTop + StackTop}
  BY DEF Unwound
<1>3. CASE seen \in {0, frame}
  <2>1. seen <= frame
    BY <1>1, <1>3
  <2> QED
    BY <2>1 DEF MeasuredRule
<1>4. CASE seen = AltTop + StackTop
  <2>1. CASE BoundsKnown
    <3>1. ~OnThreadStack(seen)
      BY <1>4, <2>1, Constants DEF OnThreadStack, OnStack
    <3> QED
      BY <3>1 DEF MeasuredRule
  <2>2. CASE ~BoundsKnown
    <3>1. MaxDistance < StackTop
      BY <2>2 DEF NonsenseShows
    <3>2. seen # saved + TwoWords
      BY <1>4, Constants DEF RegisterFacts, TwoWords
    <3>3. seen - frame > MaxDistance
      <4> HIDE DEF frame
      <4> QED
        BY <1>1, <1>4, <3>1, Constants
    <3> QED
      BY <3>2, <3>3, Zenon DEF MeasuredRule
  <2> QED
    BY <2>1, <2>2
<1> QED
  BY <1>2, <1>3, <1>4

\* A rule measured anew is sound, and exact for a frame that the unwinder
\* describes, on the thread's stack.
LEMMA Measured ==
    ASSUME NonsenseShows,
           NEW f \in Frames, Placed(f), NEW saved, RegisterFacts(f, saved),
           NEW seen \in Unwound(f), NEW rule, rule = MeasuredRule(seen, HookFrame(f.sp), saved)
    PROVE  /\ SoundRule(f.fn, rule)
           /\ Covered(f.fn) /\ Described(f.fn) /\ OnStack(f.cfa) => ExactRule(f.fn, rule)
<1>0. f.fn \in Functions /\ f.cfa \in Int /\ f.sp \in Int /\ saved \in Int
  BY DEF Frames, RegisterFacts
<1>1. CASE Layout[f.fn] = "undescribed"
  <2>1. rule = MinimumRule
    BY <1>1, MeasuredOfUndescribed
  <2> QED
    BY <1>1, <2>1 DEF SoundRule, Described
<1>2. CASE Layout[f.fn] = "realigned"
  BY <1>2 DEF SoundRule, Covered
<1>3. CASE Layout[f.fn] = "frame_pointer"
  <2>1. f.cfa = saved + TwoWords
    BY <1>3 DEF RegisterFacts
  <2>2. /\ ~OnThreadStack(f.cfa) => rule = MinimumRule
        /\ OnThreadStack(f.cfa) => rule = PointerRule
    BY <1>3, <2>1, MeasuredOfDescribed
  <2> QED
    BY <1>3, <2>2 DEF SoundRule, ExactRule, OnThreadStack
<1>4. CASE Layout[f.fn] = "fixed"
  <2> DEFINE size == f.cfa - f.sp - 1
  <2>1. size \in Sizes[f.fn]
    BY <1>4 DEF Placed
  <2>2. f.cfa - HookFrame(f.sp) = size + MinDistance
    BY <1>0 DEF HookFrame, MinDistance
  <2>3. f.cfa # saved + TwoWords
    BY <1>4 DEF RegisterFacts
  <2>4. /\ ~OnThreadStack(f.cfa) => rule = MinimumRule
        /\ OnThreadStack(f.cfa) => rule = IF size + MinDistance > MaxDistance THEN MinimumRule
                                          ELSE FrameRule(size)
    BY <1>4, <2>2, <2>3, MeasuredOfDescribed
  <2>5. Described(f.fn) => ~(size + MinDistance > MaxDistance)
    <3>1. Described(f.fn) => size + MinDistance <= MaxDistance
      BY <1>4, <2>1 DEF Described, Representable
    <3>2. size \in Int
      BY <1>0
    <3> HIDE DEF size
    <3> QED
      BY <3>1, <3>2, Constants DEF MinDistance
  <2>6. OnStack(f.cfa) => OnThreadStack(f.cfa)
    BY DEF OnThreadStack
  <2> HIDE DEF size
  <2>7. rule \in {MinimumRule, FrameRule(size)}
    BY <2>4
  <2>8. Described(f.fn) /\ OnStack(f.cfa) => rule = FrameRule(size)
    BY <2>4, <2>5, <2>6
  <2> QED
    BY <1>4, <2>1, <2>7, <2>8 DEF SoundRule, ExactRule
<1> QED
  BY <1>0, <1>1, <1>2, <1>3, <1>4, Constants

\* What a sound rule finds is inside the frame, what an exact one finds is
\* the level.
LEMMA Applied ==
    ASSUME NEW f \in Frames, Placed(f), NEW saved, RegisterFacts(f, saved), NEW rule
    PROVE  /\ rule = MinimumRule => Apply(rule, HookFrame(f.sp), saved) = f.sp + 1
           /\ ExactRule(f.fn, rule) => Apply(rule, HookFrame(f.sp), saved) = f.cfa
           /\ SoundRule(f.fn, rule) /\ Covered(f.fn) =>
                /\ f.sp < Apply(rule, HookFrame(f.sp), saved)
                /\ Apply(rule, HookFrame(f.sp), saved) <= f.cfa
<1> DEFINE level == Apply(rule, HookFrame(f.sp), saved)
<1>0. f.fn \in Functions /\ f.cfa \in Int /\ f.sp \in Int /\ saved \in Int /\ f.sp < f.cfa
  BY DEF Frames, RegisterFacts, Placed
<1>1. rule = MinimumRule => level = f.sp + 1
  BY <1>0 DEF MinimumRule, Apply, HookFrame, MinDistance
<1>2. ExactRule(f.fn, rule) => level = f.cfa
  <2>1. CASE Layout[f.fn] = "frame_pointer" /\ rule = PointerRule
    <3>1. level = saved + TwoWords
      BY <2>1 DEF PointerRule, Apply
    <3> QED
      BY <2>1, <3>1 DEF RegisterFacts
  <2>2. ASSUME Layout[f.fn] = "fixed", NEW size \in Sizes[f.fn], rule = FrameRule(size)
        PROVE  level = f.cfa
    <3>1. f.cfa - f.sp - 1 \in Sizes[f.fn] /\ size \in Nat
      BY <1>0, <2>2, Constants DEF Placed
    <3>2. f.cfa - f.sp - 1 = size
      BY <1>0, <2>2, <3>1, Constants
    <3>3. level = HookFrame(f.sp) + (size + MinDistance)
      BY <2>2 DEF FrameRule, Apply
    <3> QED
      BY <1>0, <3>1, <3>2, <3>3 DEF HookFrame, MinDistance
  <2> QED
    BY <2>1, <2>2 DEF ExactRule
<1> HIDE DEF level
<1>3. SoundRule(f.fn, rule) /\ Covered(f.fn) => f.sp < level /\ level <= f.cfa
  <2>1. SoundRule(f.fn, rule) /\ Covered(f.fn) => level = f.sp + 1 \/ level = f.cfa
    BY <1>1, <1>2 DEF SoundRule
  <2> QED
    BY <1>0, <2>1
<1> QED
  BY <1>1, <1>2, <1>3 DEF level

\* A catch measures afresh: exact for every frame the unwinder describes.
LEMMA MeasuredAtCatch ==
    ASSUME NEW f \in Frames, Placed(f), NEW saved, RegisterFacts(f, saved),
           NEW seen \in Unwound(f),
           OnStack(f.cfa), Described(f.fn)
    PROVE  Apply(MeasuredRule(seen, HookFrame(f.sp), saved), HookFrame(f.sp), saved) = f.cfa
<1> DEFINE rule == MeasuredRule(seen, HookFrame(f.sp), saved)
           size == f.cfa - f.sp - 1
<1>0. f.fn \in Functions /\ f.cfa \in Int /\ f.sp \in Int /\ saved \in Int /\ f.sp < f.cfa
  BY DEF Frames, RegisterFacts, Placed
<1>1. Layout[f.fn] # "undescribed" /\ OnThreadStack(f.cfa)
  BY DEF Described, OnThreadStack
<1>2. CASE f.cfa = saved + TwoWords
  <2>1. rule = PointerRule
    BY <1>1, <1>2, MeasuredOfDescribed
  <2>2. Apply(PointerRule, HookFrame(f.sp), saved) = saved + TwoWords
    BY DEF PointerRule, Apply
  <2> QED
    BY <1>2, <2>1, <2>2
<1>3. CASE f.cfa # saved + TwoWords
  <2>1. Layout[f.fn] # "frame_pointer"
    BY <1>3 DEF RegisterFacts
  <2>2. size \in Sizes[f.fn] /\ size + MinDistance <= MaxDistance
    BY <2>1 DEF Placed, Described, Representable
  <2>3. f.cfa - HookFrame(f.sp) = size + MinDistance
    BY <1>0 DEF HookFrame, MinDistance
  <2>4. ~(f.cfa - HookFrame(f.sp) > MaxDistance)
    <3>1. size \in Int /\ MaxDistance \in Int
      BY <1>0, Constants
    <3> HIDE DEF size
    <3> QED
      BY <2>2, <2>3, <3>1 DEF MinDistance
  <2>5. rule = FrameRule(size)
    BY <1>1, <1>3, <2>4, MeasuredOfDescribed
  <2>6. Apply(FrameRule(size), HookFrame(f.sp), saved) = HookFrame(f.sp) + (size + MinDistance)
    BY DEF FrameRule, Apply
  <2> QED
    BY <1>0, <2>5, <2>6 DEF HookFrame, MinDistance
<1> QED
  BY <1>2, <1>3

LEMMA ApplyType ==
    ASSUME NEW rule \in RuleType, NEW frame \in Int, NEW saved \in Int
    PROVE  Apply(rule, frame, saved) \in Int
BY DEF Apply, RuleType
-------------------------------------------------------------------------------
(***************************************************************************)
(* Frames come and go.                                                     *)
(***************************************************************************)
LEMMA Prefix ==
    ASSUME NEW fs, FramesInv(fs), NEW k \in 0..Len(fs)
    PROVE  /\ FramesInv(SubSeq(fs, 1, k))
           /\ Len(SubSeq(fs, 1, k)) = k
           /\ \A i \in 1..k : SubSeq(fs, 1, k)[i] = fs[i]
           /\ k > 0 => Last(SubSeq(fs, 1, k)) = fs[k] /\ SubSeq(fs, 1, k) # <<>>
<1> DEFINE n == Len(fs)
           cut == SubSeq(fs, 1, k)
<1>1. fs \in Seq(Frames) /\ n \in Nat /\ \A i \in 1..n : fs[i] \in Frames
  BY LenProperties, ElementOfSeq DEF FramesInv
<1>2. cut \in Seq(Frames) /\ Len(cut) = k /\ \A i \in 1..k : cut[i] = fs[i]
  <2>1. \A i \in 1..k : fs[i] \in Frames
    BY <1>1
  <2> QED
    BY <2>1, SubSeqProperties
<1> HIDE DEF cut
<1>3. FramesInv(cut)
  <2>1. \A i \in 1..k : i \in 1..n
    BY <1>1
  <2>2. \A i \in 1..Len(cut) : Placed(cut[i])
    BY <1>2, <2>1 DEF FramesInv
  <2>3. \A i, j \in 1..Len(cut) : i < j => Nested(cut[i], cut[j])
    <3> SUFFICES ASSUME NEW i \in 1..k, NEW j \in 1..k, i < j
                 PROVE  Nested(cut[i], cut[j])
      BY <1>2
    <3> QED
      BY <1>2, <2>1 DEF FramesInv
  <2> QED
    BY <1>2, <2>2, <2>3 DEF FramesInv
<1>4. k > 0 => Last(cut) = fs[k] /\ cut # <<>>
  BY <1>2, EmptySeq DEF Last
<1> QED
  BY <1>2, <1>3, <1>4 DEF cut

LEMMA NestedTransitive ==
    ASSUME NEW a \in Frames, NEW b \in Frames, NEW c \in Frames,
           Placed(a), Placed(b), Placed(c), Nested(a, b), Nested(b, c)
    PROVE  Nested(a, c)
<1>1. /\ a.sp \in Int /\ b.sp \in Int /\ b.cfa \in Int /\ c.cfa \in Int /\ b.sp < b.cfa
  BY DEF Frames, Placed
<1>2. CASE OnStack(a.cfa) /\ ~OnStack(b.cfa)
  BY <1>2 DEF Nested, SameStack
<1>3. CASE SameStack(a, b) /\ b.cfa <= a.sp
  <2>1. CASE OnStack(b.cfa) /\ ~OnStack(c.cfa)
    BY <1>3, <2>1 DEF Nested, SameStack
  <2>2. CASE SameStack(b, c) /\ c.cfa <= b.sp
    <3>1. c.cfa <= a.sp
      BY <1>1, <1>3, <2>2
    <3> QED
      BY <1>3, <2>2, <3>1 DEF Nested, SameStack
  <2> QED
    BY <2>1, <2>2 DEF Nested
<1> QED
  BY <1>2, <1>3 DEF Nested

LEMMA Pushed ==
    ASSUME NEW fs, FramesInv(fs), NEW new \in Frames, Placed(new),
           fs # <<>> => Nested(Last(fs), new)
    PROVE  /\ FramesInv(Append(fs, new))
           /\ Len(Append(fs, new)) = Len(fs) + 1
           /\ \A i \in 1..Len(fs) : Append(fs, new)[i] = fs[i]
           /\ Append(fs, new)[Len(fs) + 1] = new
           /\ Last(Append(fs, new)) = new
           /\ Append(fs, new) # <<>>
<1> DEFINE n == Len(fs)
           longer == Append(fs, new)
<1>1. fs \in Seq(Frames) /\ n \in Nat /\ \A i \in 1..n : fs[i] \in Frames /\ Placed(fs[i])
  BY LenProperties, ElementOfSeq DEF FramesInv
<1>2. /\ longer \in Seq(Frames) /\ longer # <<>> /\ Len(longer) = n + 1
      /\ \A i \in 1..n : longer[i] = fs[i]
      /\ longer[n + 1] = new
  BY <1>1, AppendProperties
<1>3. ASSUME NEW i \in 1..n PROVE Nested(fs[i], new)
  <2>1. fs # <<>> /\ Last(fs) = fs[n] /\ n \in 1..n
    BY <1>1, EmptySeq DEF Last
  <2>2. CASE i = n
    BY <2>1, <2>2
  <2>3. CASE i # n
    <3>1. i < n
      BY <1>1, <2>3
    <3>2. Nested(fs[i], fs[n])
      BY <2>1, <3>1 DEF FramesInv
    <3>3. fs[i] \in Frames /\ fs[n] \in Frames /\ Placed(fs[i]) /\ Placed(fs[n])
      BY <1>1, <2>1
    <3> QED
      BY <2>1, <3>2, <3>3, NestedTransitive
  <2> QED
    BY <2>2, <2>3
<1> HIDE DEF longer
<1>4. \A i \in 1..Len(longer) : Placed(longer[i])
  BY <1>1, <1>2
<1>5. \A i, j \in 1..Len(longer) : i < j => Nested(longer[i], longer[j])
  <2> SUFFICES ASSUME NEW i \in 1..Len(longer), NEW j \in 1..Len(longer), i < j
               PROVE  Nested(longer[i], longer[j])
    OBVIOUS
  <2>1. i \in 1..n /\ (j \in 1..n \/ j = n + 1)
    BY <1>1, <1>2
  <2>2. CASE j \in 1..n
    BY <1>2, <2>1, <2>2 DEF FramesInv
  <2>3. CASE j = n + 1
    BY <1>2, <1>3, <2>1, <2>3
  <2> QED
    BY <2>1, <2>2, <2>3
<1>6. Last(longer) = new
  BY <1>2 DEF Last
<1> QED
  BY <1>2, <1>4, <1>5, <1>6 DEF FramesInv, longer

\* The frame of a call, whatever level is recorded in it.
NewFrame(f, size, top, level) == [fn |-> f, cfa |-> top, sp |-> top - 1 - size, level |-> level]

LEMMA Called ==
    ASSUME NEW fs, FramesInv(fs), NEW f \in Functions, NEW size \in Sizes[f],
           NEW level \in Int, NEW top,
           \/ top = (IF fs = <<>> THEN StackTop ELSE Last(fs).sp)
           \/ fs # <<>> /\ OnStack(Last(fs).sp) /\ top = AltTop,
           Fits(NewFrame(f, size, top, 0))
    PROVE  /\ NewFrame(f, size, top, level) \in Frames
           /\ Placed(NewFrame(f, size, top, level))
           /\ fs # <<>> => Nested(Last(fs), NewFrame(f, size, top, level))
<1> DEFINE new == NewFrame(f, size, top, level)
<1>1. size \in Nat /\ StackTop \in Nat /\ AltTop \in Nat /\ AltTop > 2 * StackTop
  BY Constants
<1>2. fs # <<>> => /\ Last(fs) \in Frames /\ Placed(Last(fs))
                   /\ Last(fs).cfa \in Int /\ Last(fs).sp \in Int /\ Last(fs).sp < Last(fs).cfa
                   /\ Last(fs).cfa <= AltTop
                   /\ ~OnStack(Last(fs).cfa) => Last(fs).sp > StackTop + 2
  <2> SUFFICES ASSUME fs # <<>> PROVE
                   /\ Last(fs) \in Frames /\ Placed(Last(fs))
                   /\ Last(fs).cfa \in Int /\ Last(fs).sp \in Int /\ Last(fs).sp < Last(fs).cfa
                   /\ Last(fs).cfa <= AltTop
                   /\ ~OnStack(Last(fs).cfa) => Last(fs).sp > StackTop + 2
    OBVIOUS
  <2>1. Len(fs) \in 1..Len(fs)
    BY EmptySeq DEF FramesInv
  <2>2. Last(fs) \in Frames /\ Placed(Last(fs))
    BY <2>1, FrameTyped DEF Last
  <2> QED
    BY <2>2, Room DEF Placed
<1>3. top \in Int /\ top <= AltTop
  <2>1. CASE fs = <<>>
    BY <1>1, <2>1
  <2>2. CASE fs # <<>>
    BY <1>1, <1>2, <2>2
  <2> QED
    BY <2>1, <2>2
<1>4. /\ new.fn = f /\ new.cfa = top /\ new.sp = top - 1 - size
      /\ new.sp \in Int /\ new.sp < new.cfa /\ new.cfa - new.sp - 1 = size
  BY <1>1, <1>3 DEF NewFrame
<1>5. new \in Frames
  BY <1>3, <1>1 DEF NewFrame, Frames
<1>6. Fits(new)
  BY DEF Fits, NewFrame
<1> HIDE DEF new
<1>7. Placed(new)
  BY <1>3, <1>4, <1>6 DEF Placed
<1>8. ASSUME fs # <<>> PROVE Nested(Last(fs), new)
  <2> DEFINE caller == Last(fs)
  <2>1. CASE top = caller.sp
    <3>1. SameStack(caller, new)
      BY <1>1, <1>2, <1>4, <1>8, <2>1 DEF SameStack, OnStack
    <3> QED
      BY <1>2, <1>4, <1>8, <2>1, <3>1 DEF Nested
  <2>2. CASE OnStack(caller.sp) /\ top = AltTop
    <3>1. OnStack(caller.cfa)
      BY <1>1, <1>2, <1>8, <2>2 DEF OnStack
    <3>2. ~OnStack(new.cfa)
      BY <1>1, <1>4, <2>2 DEF OnStack
    <3> QED
      BY <3>1, <3>2 DEF Nested
  <2> QED
    BY <1>8, <2>1, <2>2
<1> QED
  BY <1>5, <1>7, <1>8 DEF new
-------------------------------------------------------------------------------
(***************************************************************************)
(* The rules a hook finds and keeps.                                       *)
(***************************************************************************)
LEMMA SiteTyped ==
    ASSUME NEW f \in Functions, NEW place \in Places
    PROVE  /\ <<f, place>> \in Sites /\ <<f, place>> # NoSite /\ <<f, place>>[1] = f
           /\ SlotOf[<<f, place>>] \in SlotNames
<1>1. <<f, place>> \in Sites /\ <<f, place>>[1] = f
  BY DEF Sites
<1>2. <<f, place>> # NoSite
  BY DEF NoSite, Places
<1> QED
  BY <1>1, <1>2 DEF SlotNames

LEMMA EmplacedKeeps ==
    ASSUME NEW site \in Sites, NEW rule,
           RulesTyped(rules)
    PROVE  /\ rule \in RuleType => RulesTyped(Emplaced(site, rule))
           /\ \A off : RulesFit(rules, off) /\ RuleFits(site, rule, off)
                       => RulesFit(Emplaced(site, rule), off)
<1>1. DOMAIN Emplaced(site, rule) = DOMAIN rules \cup {site}
  BY DEF Emplaced
<1>2. \A s \in DOMAIN Emplaced(site, rule) :
        \/ s = site /\ Emplaced(site, rule)[s] = rule
        \/ s \in DOMAIN rules /\ Emplaced(site, rule)[s] = rules[s]
  BY DEF Emplaced
<1> QED
  BY <1>1, <1>2 DEF RulesTyped, RulesFit

LEMMA FilledKeeps ==
    ASSUME NEW site \in Sites, site # NoSite, NEW rule \in RuleType, SlotsTyped(slots)
    PROVE  /\ SlotsTyped(Filled(site, rule))
           /\ \A off : SlotsFit(slots, off) /\ RuleFits(site, rule, off)
                       => SlotsFit(Filled(site, rule), off)
<1> DEFINE entry == [site |-> site, rule |-> rule]
           front == Filled(site, rule)
<1>1. entry \in SlotType /\ entry.site = site /\ entry.rule = rule
  BY DEF SlotType
<1>2. SlotOf[site] \in SlotNames /\ slots \in [SlotNames -> SlotType]
  BY DEF SlotNames, SlotsTyped
<1>3. front = [slots EXCEPT ![SlotOf[site]] = entry]
  BY DEF Filled
<1> HIDE DEF entry, front
<1>4. /\ front \in [SlotNames -> SlotType]
      /\ \A s \in SlotNames : front[s] = IF s = SlotOf[site] THEN entry ELSE slots[s]
  BY <1>1, <1>2, <1>3
<1>5. SlotsTyped(front)
  BY <1>1, <1>4 DEF SlotsTyped
<1>6. ASSUME NEW off, SlotsFit(slots, off), RuleFits(site, rule, off)
      PROVE  SlotsFit(front, off)
  <2> SUFFICES ASSUME NEW s \in SlotNames, front[s].site # NoSite
               PROVE  RuleFits(front[s].site, front[s].rule, off)
    BY DEF SlotsFit
  <2>1. CASE s = SlotOf[site]
    BY <1>1, <1>4, <1>6, <2>1
  <2>2. CASE s # SlotOf[site]
    BY <1>4, <1>6, <2>2 DEF SlotsFit
  <2> QED
    BY <2>1, <2>2
<1> QED
  BY <1>5, <1>6 DEF front

\* Where frame_level gets its rule, and what it keeps.

LEMMA Found ==
    ASSUME NEW site, NEW cfa, NEW frame, NEW saved,
           NEW found \in FrameLevel(site, cfa, frame, saved)
    PROVE  \E rule :
             /\ found.level = Apply(rule, frame, saved)
             /\ found.rules = rules \/ found.rules = Emplaced(site, rule)
             /\ found.slots = slots \/ found.slots = Filled(site, rule)
             /\ \/ FrontHit(site) /\ rule = slots[SlotOf[site]].rule
                \/ site \in DOMAIN rules /\ rule = rules[site]
                \/ rule = MeasuredRule(cfa, frame, saved)
<1> DEFINE measured == MeasuredRule(cfa, frame, saved)
           Answer(rule, known) ==
             [level |-> Apply(rule, frame, saved), rules |-> known,
              slots |-> IF FrontHit(site) THEN slots ELSE Filled(site, rule)]
<1>0. \A rule, known :
        /\ Answer(rule, known).level = Apply(rule, frame, saved)
        /\ Answer(rule, known).rules = known
        /\ Answer(rule, known).slots = slots \/ Answer(rule, known).slots = Filled(site, rule)
  OBVIOUS
<1>1. CASE FrontHit(site)
  <2>1. found = Answer(slots[SlotOf[site]].rule, rules)
    BY <1>1 DEF FrameLevel
  <2> HIDE DEF Answer
  <2> QED
    BY <1>0, <1>1, <2>1
<1>2. CASE ~FrontHit(site) /\ site \in DOMAIN rules
  <2>1. found = Answer(rules[site], rules)
    BY <1>2 DEF FrameLevel
  <2> HIDE DEF Answer
  <2> QED
    BY <1>0, <1>2, <2>1
<1>3. CASE ~FrontHit(site) /\ site \notin DOMAIN rules
  <2>1. found \in {Answer(measured, rules), Answer(measured, Emplaced(site, measured))}
    BY <1>3 DEF FrameLevel
  <2> HIDE DEF Answer
  <2> QED
    BY <1>0, <2>1
<1> QED
  BY <1>1, <1>2, <1>3

LEMMA Innermost ==
    ASSUME NEW live, FramesInv(live), live # <<>>
    PROVE  /\ Last(live) \in Frames /\ Placed(Last(live))
           /\ Last(live).cfa \in Int /\ Last(live).sp \in Int /\ HookFrame(Last(live).sp) \in Int
           /\ RegisterIn(live) \in Int
           /\ RegisterFacts(Last(live), RegisterIn(live))
<1>1. Len(live) \in 1..Len(live)
  BY EmptySeq DEF FramesInv
<1>2. Last(live) \in Frames /\ Placed(Last(live))
  BY <1>1, FrameTyped DEF Last
<1>3. RegisterFacts(Last(live), RegisterIn(live))
  BY Register
<1> HIDE DEF FramesInv
<1> QED
  BY <1>2, <1>3 DEF RegisterFacts, Frames, HookFrame

\* The rules kept fit all the more when more hooks ran off the thread's stack.
LEMMA MoreOff ==
    ASSUME NEW more, NEW off, off \subseteq more
    PROVE  /\ \A site, rule : RuleFits(site, rule, off) => RuleFits(site, rule, more)
           /\ RulesFit(rules, off) => RulesFit(rules, more)
           /\ SlotsFit(slots, off) => SlotsFit(slots, more)
<1>1. \A site, rule : RuleFits(site, rule, off) => RuleFits(site, rule, more)
  BY DEF RuleFits
<1> QED
  BY <1>1 DEF RulesFit, SlotsFit

HookTyped ==
  /\ RulesTyped(rules')
  /\ SlotsTyped(slots')
  /\ last'.kind \in Kinds /\ last'.level \in Int
  /\ offSites' \subseteq Sites
  /\ hooks' \in 0..MaxHooks

LEMMA HookedTyped ==
    ASSUME TypeInv, NEW site \in Sites, NEW cfa, Hooked(site, cfa)
    PROVE  /\ offSites' \subseteq Sites /\ offSites \subseteq offSites'
           /\ ~OnStack(cfa) => site \in offSites'
           /\ hooks' \in 0..MaxHooks
BY Constants DEF TypeInv, Hooked

LEMMA HookKeepsTypes ==
    ASSUME TypeInv, NEW kind \in Kinds, NEW place \in Places,
           NEW live, FramesInv(live), live # <<>>,
           HookRuns(kind, <<Last(live).fn, place>>, live)
    PROVE  HookTyped
<1> DEFINE f == Last(live)
           site == <<f.fn, place>>
           frame == HookFrame(f.sp)
           saved == RegisterIn(live)
<1>1. f \in Frames /\ f.fn \in Functions /\ frame \in Int /\ saved \in Int
  BY Innermost DEF Frames
<1>2. site \in Sites /\ site # NoSite /\ SlotOf[site] \in SlotNames
  BY <1>1, SiteTyped
<1>3. offSites' \subseteq Sites /\ hooks' \in 0..MaxHooks
  BY <1>2, HookedTyped DEF HookRuns
<1>0. PICK seen \in Unwound(f) :
        \E found \in FrameLevel(site, seen, frame, saved) :
          /\ last' = [kind |-> kind, fn |-> f.fn, level |-> found.level, cfa |-> f.cfa]
          /\ rules' = found.rules
          /\ slots' = found.slots
  BY DEF HookRuns
<1>4. PICK found \in FrameLevel(site, seen, frame, saved) :
        /\ last' = [kind |-> kind, fn |-> f.fn, level |-> found.level, cfa |-> f.cfa]
        /\ rules' = found.rules
        /\ slots' = found.slots
  BY <1>0
<1> HIDE DEF site, frame, saved, f
<1>5. PICK rule :
        /\ found.level = Apply(rule, frame, saved)
        /\ found.rules = rules \/ found.rules = Emplaced(site, rule)
        /\ found.slots = slots \/ found.slots = Filled(site, rule)
        /\ \/ FrontHit(site) /\ rule = slots[SlotOf[site]].rule
           \/ site \in DOMAIN rules /\ rule = rules[site]
           \/ rule = MeasuredRule(seen, frame, saved)
  BY Found
<1>6. rule \in RuleType
  <2>1. CASE FrontHit(site) /\ rule = slots[SlotOf[site]].rule
    BY <1>2, <2>1 DEF TypeInv, SlotsTyped, SlotType
  <2>2. CASE site \in DOMAIN rules /\ rule = rules[site]
    BY <2>2 DEF TypeInv, RulesTyped
  <2>3. CASE rule = MeasuredRule(seen, frame, saved)
    <3>1. seen \in Int
      BY <1>1, UnwoundType
    <3> QED
      BY <1>1, <2>3, <3>1, MeasuredType
  <2> QED
    BY <1>5, <2>1, <2>2, <2>3
<1>7. RulesTyped(rules')
  BY <1>2, <1>4, <1>5, <1>6, EmplacedKeeps DEF TypeInv
<1>8. SlotsTyped(slots')
  BY <1>2, <1>4, <1>5, <1>6, FilledKeeps DEF TypeInv
<1>9. last'.kind \in Kinds /\ last'.level \in Int
  BY <1>1, <1>4, <1>5, <1>6, ApplyType
<1> QED
  BY <1>3, <1>7, <1>8, <1>9 DEF HookTyped

\* What a hook finds for the innermost frame f.
HookFinds(f) ==
  /\ RulesFit(rules', offSites')
  /\ SlotsFit(slots', offSites')
  /\ Covered(f.fn) => f.sp < last'.level /\ last'.level <= f.cfa
  /\ DescribedLevelsAreExact'

LEMMA HookFindsLevels ==
    ASSUME NonsenseShows, TypeInv, LevelInv, NEW kind \in {"enter", "exit"}, NEW place \in Places,
           NEW live, FramesInv(live), live # <<>>,
           HookRuns(kind, <<Last(live).fn, place>>, live)
    PROVE  HookFinds(Last(live))
<1> DEFINE f == Last(live)
           site == <<f.fn, place>>
           frame == HookFrame(f.sp)
           saved == RegisterIn(live)
<1>1. /\ f \in Frames /\ f.fn \in Functions /\ Placed(f) /\ RegisterFacts(f, saved)
      /\ frame \in Int /\ saved \in Int
  BY Innermost DEF Frames
<1>2. site \in Sites /\ site # NoSite /\ site[1] = f.fn /\ SlotOf[site] \in SlotNames
  BY <1>1, SiteTyped
<1>3. offSites \subseteq offSites' /\ (~OnStack(f.cfa) => site \in offSites')
  BY <1>2, HookedTyped DEF HookRuns
<1>0. PICK seen \in Unwound(f) :
        \E found \in FrameLevel(site, seen, frame, saved) :
          /\ last' = [kind |-> kind, fn |-> f.fn, level |-> found.level, cfa |-> f.cfa]
          /\ rules' = found.rules
          /\ slots' = found.slots
  BY DEF HookRuns
<1>4. PICK found \in FrameLevel(site, seen, frame, saved) :
        /\ last' = [kind |-> kind, fn |-> f.fn, level |-> found.level, cfa |-> f.cfa]
        /\ rules' = found.rules
        /\ slots' = found.slots
  BY <1>0
<1>5. PICK rule :
        /\ found.level = Apply(rule, frame, saved)
        /\ found.rules = rules \/ found.rules = Emplaced(site, rule)
        /\ found.slots = slots \/ found.slots = Filled(site, rule)
        /\ \/ FrontHit(site) /\ rule = slots[SlotOf[site]].rule
           \/ site \in DOMAIN rules /\ rule = rules[site]
           \/ rule = MeasuredRule(seen, frame, saved)
  BY Found
<1>6. RulesFit(rules, offSites') /\ SlotsFit(slots, offSites')
  BY <1>3, MoreOff DEF LevelInv
<1>7. rule \in RuleType /\ RuleFits(site, rule, offSites')
  <2>1. CASE FrontHit(site) /\ rule = slots[SlotOf[site]].rule
    <3>1. slots[SlotOf[site]] \in SlotType /\ slots[SlotOf[site]].site = site
      BY <1>2, <2>1 DEF TypeInv, SlotsTyped, FrontHit
    <3> QED
      BY <1>2, <1>6, <2>1, <3>1 DEF SlotsFit, SlotType
  <2>2. CASE site \in DOMAIN rules /\ rule = rules[site]
    BY <1>6, <2>2 DEF TypeInv, RulesTyped, RulesFit
  <2>3. CASE rule = MeasuredRule(seen, frame, saved)
    <3>1. seen \in Int
      BY <1>1, UnwoundType
    <3>2. rule \in RuleType
      BY <1>1, <2>3, <3>1, MeasuredType
    <3>3. /\ SoundRule(f.fn, rule)
          /\ Covered(f.fn) /\ Described(f.fn) /\ OnStack(f.cfa) => ExactRule(f.fn, rule)
      BY <1>1, <2>3, Measured
    <3> QED
      BY <1>2, <1>3, <3>2, <3>3 DEF RuleFits
  <2> QED
    BY <1>5, <2>1, <2>2, <2>3
<1>8. RulesFit(rules', offSites')
  <2>1. CASE found.rules = rules
    BY <1>4, <1>6, <2>1
  <2>2. CASE found.rules = Emplaced(site, rule)
    <3>1. RulesFit(Emplaced(site, rule), offSites')
      <4> HIDE DEF site
      <4> QED
        BY <1>2, <1>6, <1>7, EmplacedKeeps DEF TypeInv
    <3> QED
      BY <1>4, <2>2, <3>1
  <2> QED
    BY <1>5, <2>1, <2>2
<1>9. SlotsFit(slots', offSites')
  <2>1. CASE found.slots = slots
    BY <1>4, <1>6, <2>1
  <2>2. CASE found.slots = Filled(site, rule)
    <3>1. SlotsFit(Filled(site, rule), offSites')
      <4> HIDE DEF site
      <4> QED
        BY <1>2, <1>6, <1>7, FilledKeeps DEF TypeInv
    <3> QED
      BY <1>4, <2>2, <3>1
  <2> QED
    BY <1>5, <2>1, <2>2
<1>10. /\ last'.kind = kind /\ last'.fn = f.fn /\ last'.cfa = f.cfa
       /\ last'.level = Apply(rule, frame, saved)
  BY <1>4, <1>5
<1>11. Covered(f.fn) => f.sp < last'.level /\ last'.level <= f.cfa
  BY <1>1, <1>2, <1>7, <1>10, Applied DEF RuleFits
<1>12. DescribedLevelsAreExact'
  <2>1. Covered(f.fn) /\ Described(f.fn) /\ site \notin offSites' => last'.level = f.cfa
    BY <1>1, <1>2, <1>7, <1>10, Applied DEF RuleFits
  <2>2. (\A p \in Places : <<f.fn, p>> \notin offSites') => site \notin offSites'
    OBVIOUS
  <2> HIDE DEF f, site, frame, saved
  <2> QED
    BY <1>10, <2>1, <2>2 DEF DescribedLevelsAreExact, Described
<1> QED
  BY <1>8, <1>9, <1>11, <1>12 DEF HookFinds
-------------------------------------------------------------------------------
(***************************************************************************)
(* The steps.                                                              *)
(***************************************************************************)
\* A call's frame is pushed with the level its enter hook finds.
LEMMA EnterStep ==
    ASSUME TypeInv, NEW f \in Functions, NEW size \in Sizes[f], NEW top,
           \/ top = (IF frames = <<>> THEN StackTop ELSE Last(frames).sp)
           \/ frames # <<>> /\ OnStack(Last(frames).sp) /\ top = AltTop,
           Enter(f, size, top)
    PROVE  /\ TypeInv'
           /\ NonsenseShows /\ LevelInv => LevelInv' /\ DescribedLevelsAreExact'
<1> DEFINE n == Len(frames)
           New(level) == NewFrame(f, size, top, level)
           live == Append(frames, New(0))
           pushed == New(last'.level)
<1>1. FramesInv(frames) /\ n \in Nat
  BY LenProperties DEF TypeInv, FramesInv
<1>2. /\ Fits(New(0))
      /\ HookRuns("enter", <<f, "enter">>, live)
      /\ frames' = Append(frames, pushed)
  BY DEF Enter, NewFrame
<1>3. \A level \in Int : /\ New(level) \in Frames
                         /\ Placed(New(level))
                         /\ frames # <<>> => Nested(Last(frames), New(level))
  BY <1>1, <1>2, Called
<1>4. FramesInv(live) /\ live # <<>> /\ Last(live) = New(0)
  <2>1. New(0) \in Frames /\ Placed(New(0)) /\ (frames # <<>> => Nested(Last(frames), New(0)))
    BY <1>3
  <2> HIDE DEF New
  <2> QED
    BY <1>1, <2>1, Pushed
<1>5. /\ \A level : /\ New(level).fn = f /\ New(level).sp = top - 1 - size
                    /\ New(level).cfa = top /\ New(level).level = level
      /\ "enter" \in Kinds /\ "enter" \in Places
  BY DEF NewFrame, Kinds, Places
<1> HIDE DEF New, live
<1>6. HookRuns("enter", <<Last(live).fn, "enter">>, live)
  BY <1>2, <1>4, <1>5
<1>7. HookTyped
  BY <1>4, <1>5, <1>6, HookKeepsTypes
<1>8. pushed \in Frames /\ Placed(pushed) /\ (frames # <<>> => Nested(Last(frames), pushed))
  BY <1>3, <1>7 DEF HookTyped
<1> HIDE DEF pushed
<1>9. /\ FramesInv(frames') /\ Len(frames') = n + 1
      /\ \A i \in 1..n : frames'[i] = frames[i]
      /\ frames'[n + 1] = pushed
  BY <1>1, <1>2, <1>8, Pushed
<1>10. TypeInv'
  BY <1>7, <1>9 DEF TypeInv, HookTyped
<1>11. ASSUME NonsenseShows, LevelInv PROVE LevelInv' /\ DescribedLevelsAreExact'
  <2>1. HookFinds(Last(live))
    BY <1>4, <1>5, <1>6, <1>11, HookFindsLevels
  <2>2. Leveled(pushed)
    BY <1>4, <1>5, <2>1 DEF HookFinds, Leveled, pushed
  <2>3. \A i \in 1..Len(frames') : Leveled(frames'[i])
    <3> SUFFICES ASSUME NEW i \in 1..n + 1 PROVE Leveled(frames'[i])
      BY <1>9
    <3>1. CASE i \in 1..n
      BY <1>9, <1>11, <3>1 DEF LevelInv
    <3>2. CASE i = n + 1
      BY <1>9, <2>2, <3>2
    <3> QED
      BY <1>1, <3>1, <3>2
  <2> QED
    BY <2>1, <2>3 DEF LevelInv, HookFinds
<1> QED
  BY <1>10, <1>11

\* The frames that a step leaves, from the outermost.
LEMMA Left ==
    ASSUME TypeInv, NEW k \in 0..Len(frames), frames' = SubSeq(frames, 1, k)
    PROVE  /\ FramesInv(frames')
           /\ LevelInv => \A i \in 1..Len(frames') : Leveled(frames'[i])
<1>1. FramesInv(frames) /\ Len(frames) \in Nat
  BY LenProperties DEF TypeInv, FramesInv
<1>2. FramesInv(frames') /\ Len(frames') = k /\ \A i \in 1..k : frames'[i] = frames[i]
  BY <1>1, Prefix
<1>3. \A i \in 1..k : i \in 1..Len(frames)
  BY <1>1
<1> QED
  BY <1>2, <1>3 DEF LevelInv

\* An exit hook, with the frame still there or gone already.
LEMMA ExitHook ==
    ASSUME TypeInv, NEW place \in Places, NEW live, FramesInv(live), live # <<>>,
           HookRuns("exit", <<Last(live).fn, place>>, live),
           NEW k \in 0..Len(frames), frames' = SubSeq(frames, 1, k)
    PROVE  /\ TypeInv'
           /\ NonsenseShows /\ LevelInv => LevelInv' /\ DescribedLevelsAreExact'
<1>1. HookTyped
  BY HookKeepsTypes DEF Kinds
<1>2. /\ FramesInv(frames')
      /\ LevelInv => \A i \in 1..Len(frames') : Leveled(frames'[i])
  BY Left
<1>3. TypeInv'
  BY <1>1, <1>2 DEF TypeInv, HookTyped
<1>4. ASSUME NonsenseShows, LevelInv PROVE LevelInv' /\ DescribedLevelsAreExact'
  <2>1. HookFinds(Last(live))
    BY <1>4, HookFindsLevels
  <2> QED
    BY <1>2, <1>4, <2>1 DEF LevelInv, HookFinds
<1> QED
  BY <1>3, <1>4

LEMMA ExitStep ==
    ASSUME TypeInv, Exit
    PROVE  /\ TypeInv'
           /\ NonsenseShows /\ LevelInv => LevelInv' /\ DescribedLevelsAreExact'
<1>1. FramesInv(frames) /\ frames # <<>> /\ Len(frames) \in Nat \ {0}
  BY EmptySeq DEF TypeInv, FramesInv, Exit
<1>2. Len(frames) - 1 \in 0..Len(frames) /\ frames' = SubSeq(frames, 1, Len(frames) - 1)
  BY <1>1 DEF Exit, Front
<1>3. HookRuns("exit", <<Last(frames).fn, "exit">>, frames) /\ "exit" \in Places
  BY DEF Exit, Places
<1> QED
  BY <1>1, <1>2, <1>3, ExitHook

LEMMA TailExitStep ==
    ASSUME TypeInv, TailExit
    PROVE  /\ TypeInv'
           /\ NonsenseShows /\ LevelInv => LevelInv' /\ DescribedLevelsAreExact'
<1> DEFINE k == Len(frames) - 1
           live == Front(frames)
<1>1. FramesInv(frames) /\ Len(frames) \in Nat /\ Len(frames) > 1
  BY LenProperties DEF TypeInv, FramesInv, TailExit
<1>2. k \in 0..Len(frames) /\ k > 0 /\ live = SubSeq(frames, 1, k)
  BY <1>1 DEF Front
<1>3. FramesInv(live) /\ live # <<>>
  <2> HIDE DEF k, live
  <2> QED
    BY <1>1, <1>2, Prefix
<1>4. /\ HookRuns("exit", <<Last(live).fn, "body">>, live) /\ "body" \in Places
      /\ frames' = live
  BY DEF TailExit, Places
<1> HIDE DEF k, live
<1> QED
  BY <1>2, <1>3, <1>4, ExitHook

\* A catch measures, and leaves the caches alone.
LEMMA CatchStep ==
    ASSUME TypeInv, NEW k \in 1..Len(frames), Catch(k)
    PROVE  /\ TypeInv'
           /\ NonsenseShows /\ LevelInv => LevelInv' /\ DescribedLevelsAreExact'
<1> DEFINE live == SubSeq(frames, 1, k)
           f == Last(live)
           frame == HookFrame(f.sp)
           saved == RegisterIn(live)
<1>0. FramesInv(frames) /\ Len(frames) \in Nat /\ k \in 0..Len(frames) /\ k > 0
  BY LenProperties DEF TypeInv, FramesInv
<1>1. FramesInv(live) /\ live # <<>>
  BY <1>0, Prefix
<1>2. /\ Hooked(<<f.fn, "body">>, f.cfa) /\ frames' = live
      /\ UNCHANGED <<rules, slots>>
  BY DEF Catch
<1>3. PICK seen \in Unwound(f) :
        last' = [kind |-> "catch", fn |-> f.fn, cfa |-> f.cfa,
                 level |-> Apply(MeasuredRule(seen, frame, saved), frame, saved)]
  BY DEF Catch
<1>4. /\ FramesInv(frames')
      /\ LevelInv => \A i \in 1..Len(frames') : Leveled(frames'[i])
  BY <1>0, <1>2, Left
<1> HIDE DEF live
<1>5. /\ f \in Frames /\ f.fn \in Functions /\ Placed(f) /\ RegisterFacts(f, saved)
      /\ frame \in Int /\ saved \in Int
  BY <1>1, Innermost DEF Frames
<1>6. <<f.fn, "body">> \in Sites
  BY <1>5, SiteTyped DEF Places
<1> HIDE DEF f, saved
<1>7. /\ offSites' \subseteq Sites /\ offSites \subseteq offSites'
      /\ hooks' \in 0..MaxHooks
  BY <1>2, <1>6, HookedTyped
<1>8. last'.kind = "catch" /\ last'.fn = f.fn /\ last'.cfa = f.cfa /\ last'.level \in Int
  <2>1. seen \in Int
    BY <1>5, UnwoundType
  <2>2. MeasuredRule(seen, frame, saved) \in RuleType
    BY <1>5, <2>1, MeasuredType
  <2>3. Apply(MeasuredRule(seen, frame, saved), frame, saved) \in Int
    BY <1>5, <2>2, ApplyType
  <2> QED
    BY <1>3, <2>3
<1>9. TypeInv'
  BY <1>2, <1>4, <1>7, <1>8 DEF TypeInv, Kinds
<1>10. LevelInv => LevelInv'
  <2>1. LevelInv => RulesFit(rules, offSites') /\ SlotsFit(slots, offSites')
    BY <1>7, MoreOff DEF LevelInv
  <2> QED
    BY <1>2, <1>4, <2>1 DEF LevelInv
<1>11. DescribedLevelsAreExact'
  <2>1. OnStack(f.cfa) /\ Described(f.fn) => last'.level = f.cfa
    BY <1>3, <1>5, MeasuredAtCatch
  <2> QED
    BY <1>8, <2>1 DEF DescribedLevelsAreExact, Described
<1> QED
  BY <1>9, <1>10, <1>11

LEMMA JumpStep ==
    ASSUME TypeInv, NEW k \in 1..Len(frames) - 1, Jump(k)
    PROVE  TypeInv' /\ (LevelInv => LevelInv') /\ (DescribedLevelsAreExact => DescribedLevelsAreExact')
<1>1. Len(frames) \in Nat
  BY LenProperties DEF TypeInv, FramesInv
<1>2. k \in 0..Len(frames) /\ frames' = SubSeq(frames, 1, k)
      /\ UNCHANGED <<rules, slots, last, offSites, hooks>>
  BY <1>1 DEF Jump
<1>3. /\ FramesInv(frames')
      /\ LevelInv => \A i \in 1..Len(frames') : Leveled(frames'[i])
  BY <1>2, Left
<1> QED
  BY <1>2, <1>3 DEF TypeInv, LevelInv, DescribedLevelsAreExact

LEMMA AllocaStep ==
    ASSUME TypeInv, Alloca
    PROVE  TypeInv' /\ (LevelInv => LevelInv') /\ (DescribedLevelsAreExact => DescribedLevelsAreExact')
<1> DEFINE n == Len(frames)
           f == frames[n]
           g == [f EXCEPT !.sp = @ - 1]
<1>1. FramesInv(frames) /\ n \in Nat \ {0} /\ n \in 1..n /\ frames \in Seq(Frames)
  BY EmptySeq DEF TypeInv, FramesInv, Alloca
<1>2. /\ Layout[f.fn] = "frame_pointer" /\ Fits(g)
      /\ frames' = [frames EXCEPT ![n] = g]
      /\ UNCHANGED <<rules, slots, last, offSites, hooks>>
  BY DEF Alloca, Last
<1>3. f \in Frames /\ f.sp \in Int /\ f.cfa \in Int /\ f.level \in Int /\ Placed(f)
  BY <1>1, FrameTyped
<1>4. /\ g \in Frames /\ g.fn = f.fn /\ g.cfa = f.cfa /\ g.level = f.level
      /\ g.sp = f.sp - 1
  BY <1>3 DEF Frames
<1> HIDE DEF f, g
<1>5. Placed(g)
  BY <1>2, <1>3, <1>4 DEF Placed
<1>6. /\ frames' \in Seq(Frames) /\ Len(frames') = n
      /\ \A i \in 1..n : frames'[i] = IF i = n THEN g ELSE frames[i]
  BY <1>1, <1>2, <1>4, ExceptSeq
<1>7. FramesInv(frames')
  <2>1. \A i \in 1..n : Placed(frames'[i])
    BY <1>1, <1>5, <1>6 DEF FramesInv
  <2>2. ASSUME NEW i \in 1..n, NEW j \in 1..n, i < j
        PROVE  Nested(frames'[i], frames'[j])
    <3>1. Nested(frames[i], frames[j]) /\ frames'[i] = frames[i]
      BY <1>1, <1>6, <2>2 DEF FramesInv
    <3>2. CASE j = n
      BY <1>4, <1>6, <3>1, <3>2 DEF Nested, SameStack, f
    <3>3. CASE j # n
      BY <1>6, <3>1, <3>3
    <3> QED
      BY <3>2, <3>3
  <2> QED
    BY <1>6, <2>1, <2>2 DEF FramesInv
<1>8. LevelInv => \A i \in 1..Len(frames') : Leveled(frames'[i])
  <2> SUFFICES ASSUME LevelInv, NEW i \in 1..n PROVE Leveled(frames'[i])
    BY <1>6
  <2>1. Leveled(frames[i])
    BY DEF LevelInv
  <2>2. CASE i = n
    BY <1>3, <1>4, <1>6, <2>1, <2>2 DEF Leveled, f
  <2>3. CASE i # n
    BY <1>6, <2>1, <2>3
  <2> QED
    BY <2>2, <2>3
<1> QED
  BY <1>2, <1>7, <1>8 DEF TypeInv, LevelInv, DescribedLevelsAreExact

\* Every step keeps the types and, where nonsense shows, the levels.
LEMMA Step ==
    ASSUME TypeInv, [Next]_vars
    PROVE  /\ TypeInv'
           /\ NonsenseShows /\ LevelInv /\ DescribedLevelsAreExact
                => LevelInv' /\ DescribedLevelsAreExact'
<1>1. ASSUME NEW f \in Functions, NEW size \in Sizes[f], Call(f, size)
      PROVE  /\ TypeInv'
             /\ NonsenseShows /\ LevelInv => LevelInv' /\ DescribedLevelsAreExact'
  <2> DEFINE top == IF frames = <<>> THEN StackTop ELSE Last(frames).sp
  <2>1. Enter(f, size, top)
    BY <1>1 DEF Call
  <2>2. top = IF frames = <<>> THEN StackTop ELSE Last(frames).sp
    OBVIOUS
  <2> HIDE DEF top
  <2> QED
    BY <2>1, <2>2, EnterStep
<1>2. ASSUME NEW f \in Functions, NEW size \in Sizes[f], Signal(f, size)
      PROVE  /\ TypeInv'
             /\ NonsenseShows /\ LevelInv => LevelInv' /\ DescribedLevelsAreExact'
  BY <1>2, EnterStep DEF Signal
<1>3. CASE UNCHANGED vars
  BY <1>3 DEF vars, TypeInv, LevelInv, DescribedLevelsAreExact
<1> QED
  BY <1>1, <1>2, <1>3, ExitStep, TailExitStep, CatchStep, JumpStep, AllocaStep DEF Next

LEMMA Start ==
    ASSUME Init
    PROVE  TypeInv /\ LevelInv /\ DescribedLevelsAreExact
<1>1. frames = <<>> /\ Len(frames) = 0 /\ frames \in Seq(Frames)
  BY EmptySeq DEF Init
<1>2. FramesInv(frames)
  BY <1>1 DEF FramesInv
<1>3. DOMAIN rules = {}
  <2>1. rules = <<>> /\ rules \in Seq(Frames) /\ Len(rules) = 0
    BY EmptySeq DEF Init
  <2>2. DOMAIN rules = 1..Len(rules)
    BY <2>1, LenProperties
  <2> QED
    BY <2>1, <2>2
<1>4. RulesTyped(rules) /\ RulesFit(rules, offSites)
  BY <1>3 DEF RulesTyped, RulesFit
<1>5. slots = [s \in SlotNames |-> [site |-> NoSite, rule |-> MinimumRule]]
  BY DEF Init, SlotNames
<1>6. [site |-> NoSite, rule |-> MinimumRule] \in SlotType
  BY RuleShapes DEF SlotType
<1>7. SlotsTyped(slots) /\ SlotsFit(slots, offSites)
  BY <1>5, <1>6 DEF SlotsTyped, SlotsFit
<1>8. /\ last.kind = "none" /\ last.level = 0 /\ offSites = {} /\ hooks = 0
  BY DEF Init
<1> QED
  BY <1>1, <1>2, <1>4, <1>7, <1>8, Constants DEF TypeInv, LevelInv, Kinds, DescribedLevelsAreExact
-------------------------------------------------------------------------------
\* Type correctness, whatever the unwinder says: frames stay inside their
\* stack, the rules kept are those of hook sites, and a front cache slot is
\* empty or holds a site that maps to it.
THEOREM TypeCorrect == Spec => []TypeOK
<1>1. TypeInv => TypeOK
  <2> SUFFICES ASSUME TypeInv PROVE TypeOK
    OBVIOUS
  <2>1. \A i \in DOMAIN frames : frames[i].fn \in Functions /\ frames[i].sp < frames[i].cfa
    <3>1. DOMAIN frames = 1..Len(frames) /\ FramesInv(frames)
      BY LenProperties DEF TypeInv, FramesInv
    <3> QED
      BY <3>1, FrameTyped DEF Placed
  <2>2. \A s \in DOMAIN slots : slots[s].site = NoSite \/ SlotOf[slots[s].site] = s
    BY DEF TypeInv, SlotsTyped
  <2> QED
    BY <2>1, <2>2 DEF TypeInv, TypeOK, RulesTyped, Kinds
<1>2. Init => TypeInv
  BY Start
<1>3. TypeInv /\ [Next]_vars => TypeInv'
  BY Step
<1> QED
  BY <1>1, <1>2, <1>3, PTL DEF Spec

LEMMA Invariance ==
    ASSUME NonsenseShows
    PROVE  Spec => [](TypeInv /\ LevelInv /\ DescribedLevelsAreExact)
<1> DEFINE IInv == TypeInv /\ LevelInv /\ DescribedLevelsAreExact
<1>1. Init => IInv
  BY Start
<1>2. IInv /\ [Next]_vars => IInv'
  BY Step
<1> QED
  BY <1>1, <1>2, PTL DEF Spec

\* trace.cpp and README.md rely on it wherever records are compared with the
\* running frame: a deeper frame of the same stack has a lower level, for any
\* mix of measured, cached, evicted and minimum rules, signal handlers on an
\* alternate stack, jumps, catches and alloca().
THEOREM LevelsOrder ==
    ASSUME NonsenseShows
    PROVE  Spec => []LevelsOrderLikeFrames
<1>1. ASSUME TypeInv, LevelInv PROVE LevelsOrderLikeFrames
  <2> SUFFICES ASSUME NEW i \in DOMAIN frames, NEW j \in DOMAIN frames, i < j,
                      OnStack(frames[i].cfa) <=> OnStack(frames[j].cfa),
                      Covered(frames[i].fn), Covered(frames[j].fn)
               PROVE  frames[i].level > frames[j].level
    BY DEF LevelsOrderLikeFrames
  <2>1. FramesInv(frames) /\ i \in 1..Len(frames) /\ j \in 1..Len(frames)
    BY <1>1, LenProperties DEF TypeInv, FramesInv
  <2>2. Nested(frames[i], frames[j]) /\ Leveled(frames[i]) /\ Leveled(frames[j])
    BY <1>1, <2>1 DEF FramesInv, LevelInv
  <2>3. frames[j].cfa <= frames[i].sp
    BY <2>2 DEF Nested
  <2>4. /\ frames[i].sp \in Int /\ frames[i].level \in Int
        /\ frames[j].cfa \in Int /\ frames[j].level \in Int
    BY <2>1, FrameTyped
  <2>5. frames[i].sp < frames[i].level /\ frames[j].level <= frames[j].cfa
    BY <2>2 DEF Leveled
  <2> QED
    BY <2>3, <2>4, <2>5
<1> QED
  BY <1>1, Invariance, PTL

\* measure_level_rule and frame_level: the level found for a frame that the
\* unwinder describes is its own, in every hook at a site never hooked off the
\* thread's stack and in every catch.
THEOREM LevelsExact ==
    ASSUME NonsenseShows
    PROVE  Spec => []DescribedLevelsAreExact
BY Invariance, PTL
=============================================================================
