---------------------------- MODULE FrameLevels ----------------------------
(***************************************************************************)
(* How the hooks find the level of the frame that called them              *)
(* (src/src/trace.cpp: LevelRule, measure_level_rule, frame_level and      *)
(* measured_frame_level).  The level is the frame's canonical frame        *)
(* address (CFA); the hook only sees its own frame, and derives one from   *)
(* the other by a rule measured with the unwinder once per hook site and   *)
(* kept in a per-thread map behind a direct-mapped front cache.  FrameStack *)
(* takes levels for granted; here they are computed.                       *)
(*                                                                         *)
(* One thread, downward stacks, addresses counted in words.  A function's  *)
(* layout says what its frames look like:                                  *)
(*   fixed         one size, no frame pointer                              *)
(*   frame_pointer any size, alloca() included; CFA two words above the    *)
(*                 saved frame pointer                                     *)
(*   realigned     a padding that differs between activations, and a frame *)
(*                 pointer set up below it                                 *)
(*   undescribed   no unwind information, or information gone wrong        *)
(***************************************************************************)
EXTENDS Integers, Sequences, SequencesExt

CONSTANTS
  Layout,        \* functions of the program, and the layout of their frames
  Sizes,         \* the sizes a function's frames can have
  TailExits,     \* functions whose exit hook is reached by a jump
  SlotOf,        \* front cache slot of each hook site
  MaxDistance,   \* numeric_limits<int32_t>::max(), in words
  StackTop,      \* the thread's stack is below this address
  AltTop,        \* an alternate stack is below this one
  BoundsKnown,   \* did pthread_getattr_np succeed
  MaxAlloca,     \* bound: size of a frame that grows by alloca()
  MaxFrames,     \* bound: live frames
  MaxHooks       \* bound: hooks and catches

Functions == DOMAIN Layout
Places == {"enter", "exit", "body"}
Sites == Functions \X Places
NoSite == <<"", "">>

MinDistance == 3
TwoWords == 2

ASSUME LevelsAssumption ==
  /\ \A f \in Functions :
       /\ Layout[f] \in {"fixed", "frame_pointer", "realigned", "undescribed"}
       /\ Sizes[f] \subseteq Nat
       /\ Layout[f] = "fixed" => \E size \in Sizes[f] : Sizes[f] = {size}
  /\ TailExits \subseteq Functions
  /\ DOMAIN SlotOf = Sites
  /\ {MaxDistance, MaxAlloca, MaxFrames, MaxHooks, StackTop, AltTop} \subseteq Nat
  /\ StackTop > MinDistance /\ AltTop > 2 * StackTop
  /\ BoundsKnown \in BOOLEAN

VARIABLES
  frames,   \* live frames, innermost last: function, CFA, stack pointer, level recorded
  rules,    \* t_state.level_rules
  slots,    \* t_state.level_cache
  last,     \* what the last hook found: kind, level, the CFA it was after
  offSites, \* history: sites hooked while running off the thread's stack
  hooks     \* number of hooks so far

vars == <<frames, rules, slots, last, offSites, hooks>>

----------------------------------------------------------------------------
\* The machine.

OnStack(p) == p <= StackTop

\* on_thread_stack: unknown bounds mean one stack.
OnThreadStack(p) == BoundsKnown => OnStack(p)

\* A hook called from a frame with stack pointer sp pushes a return address
\* and the frame pointer register.
HookFrame(sp) == sp - 2

\* No stack overflows: a frame leaves room for a hook's below it.
Fits(frame) == HookFrame(frame.sp) > (IF OnStack(frame.cfa) THEN 0 ELSE StackTop)

\* What that register holds: in a function without a frame pointer, that of
\* the innermost caller that has one.
RegisterIn(fs) ==
  LET keeping == {i \in DOMAIN fs : Layout[fs[i].fn] \in {"frame_pointer", "realigned"}}
      owner == CHOOSE k \in keeping : \A j \in keeping : j <= k IN
  IF keeping = {} THEN 0
  ELSE IF Layout[fs[owner].fn] = "frame_pointer" THEN fs[owner].cfa - TwoWords
  ELSE fs[owner].sp

\* The CFA the unwinder reports for a frame: none, nonsense or the true one.
Unwound(frame) ==
  IF Layout[frame.fn] = "undescribed" THEN {0, HookFrame(frame.sp), AltTop + StackTop} ELSE {frame.cfa}

----------------------------------------------------------------------------
\* The rules.

\* Mutant of MinimumRule: no allowance for the frame's own words.
ZeroRule == [distance |-> 0, from_saved_frame_pointer |-> FALSE]

\* The rule of a frame nobody can describe: at or below its level.
MinimumRule == [distance |-> MinDistance, from_saved_frame_pointer |-> FALSE]

\* Mutant of MeasuredRule: the frame pointer is not recognised.
FrameDistanceOnly(cfa, frame, saved) ==
  IF cfa <= frame \/ ~OnThreadStack(cfa) \/ cfa - frame > MaxDistance
    THEN MinimumRule
    ELSE [distance |-> cfa - frame, from_saved_frame_pointer |-> FALSE]

\* measure_level_rule, given the CFA the walk found (0: none).
MeasuredRule(cfa, frame, saved) ==
  IF cfa <= frame \/ ~OnThreadStack(cfa) THEN MinimumRule
  ELSE IF cfa = saved + TwoWords THEN [distance |-> TwoWords, from_saved_frame_pointer |-> TRUE]
  ELSE IF cfa - frame > MaxDistance THEN MinimumRule
  ELSE [distance |-> cfa - frame, from_saved_frame_pointer |-> FALSE]

\* apply_level_rule
Apply(rule, frame, saved) ==
  (IF rule.from_saved_frame_pointer THEN saved ELSE frame) + rule.distance

\* The front cache slot holds this very site.
FrontHit(site) == slots[SlotOf[site]].site = site

\* Mutant of Filled: every slot is taken over.
FilledEverywhere(site, rule) == [s \in DOMAIN slots |-> [site |-> site, rule |-> rule]]

\* The front cache with the site's slot taken over.
Filled(site, rule) == [slots EXCEPT ![SlotOf[site]] = [site |-> site, rule |-> rule]]

\* The map with the site's rule inserted.
Emplaced(site, rule) ==
  [s \in DOMAIN rules \cup {site} |-> IF s = site THEN rule ELSE rules[s]]

\* frame_level: front cache, map, measurement.  Inserting into the map may
\* run out of memory; the slot is filled all the same.
FrameLevel(site, cfa, frame, saved) ==
  LET Found(rule, known) ==
        [level |-> Apply(rule, frame, saved), rules |-> known,
         slots |-> IF FrontHit(site) THEN slots ELSE Filled(site, rule)]
      measured == MeasuredRule(cfa, frame, saved) IN
  IF FrontHit(site) THEN {Found(slots[SlotOf[site]].rule, rules)}
  ELSE IF site \in DOMAIN rules THEN {Found(rules[site], rules)}
  ELSE {Found(measured, rules), Found(measured, Emplaced(site, measured))}

----------------------------------------------------------------------------
\* Hooks and catches.

Hooked(site, cfa) ==
  /\ hooks < MaxHooks
  /\ hooks' = hooks + 1
  /\ offSites' = IF OnStack(cfa) THEN offSites ELSE offSites \cup {site}

\* A hook at `site`, called from the innermost of the frames `live`.
HookRuns(kind, site, live) ==
  LET f == Last(live) IN
  /\ Hooked(site, f.cfa)
  /\ \E seen \in Unwound(f) :
       \E found \in FrameLevel(site, seen, HookFrame(f.sp), RegisterIn(live)) :
         /\ last' = [kind |-> kind, fn |-> f.fn, level |-> found.level, cfa |-> f.cfa]
         /\ rules' = found.rules
         /\ slots' = found.slots

\* A call of f runs its enter hook: from the innermost frame, or from a
\* signal handler on the alternate stack.
Enter(f, size, top) ==
  LET new == [fn |-> f, cfa |-> top, sp |-> top - 1 - size, level |-> 0] IN
  /\ Len(frames) < MaxFrames /\ Fits(new)
  /\ HookRuns("enter", <<f, "enter">>, Append(frames, new))
  /\ frames' = Append(frames, [new EXCEPT !.level = last'.level])

Call(f, size) == Enter(f, size, IF frames = <<>> THEN StackTop ELSE Last(frames).sp)

Signal(f, size) == frames # <<>> /\ OnStack(Last(frames).sp) /\ Enter(f, size, AltTop)

\* The exit hook, called from the frame.
Exit ==
  /\ frames # <<>> /\ Last(frames).fn \notin TailExits
  /\ HookRuns("exit", <<Last(frames).fn, "exit">>, frames)
  /\ frames' = Front(frames)

\* The exit hook, jumped to once the frame is gone: its return address is in
\* the caller, and so is the frame it finds.
TailExit ==
  /\ Len(frames) > 1 /\ Last(frames).fn \in TailExits
  /\ Last(frames).cfa = Last(Front(frames)).sp
  /\ HookRuns("exit", <<Last(Front(frames)).fn, "body">>, Front(frames))
  /\ frames' = Front(frames)

\* An exception unwinds to frame k, whose landing pad calls the interposer;
\* measured_frame_level leaves the caches alone.
Catch(k) ==
  LET live == SubSeq(frames, 1, k)
      f == Last(live)
      frame == HookFrame(f.sp)
      saved == RegisterIn(live) IN
  /\ Hooked(<<f.fn, "body">>, f.cfa)
  /\ frames' = live
  /\ \E seen \in Unwound(f) :
       last' = [kind |-> "catch", fn |-> f.fn, cfa |-> f.cfa,
                level |-> Apply(MeasuredRule(seen, frame, saved), frame, saved)]
  /\ UNCHANGED <<rules, slots>>

\* longjmp back to frame k: no hook sees it.
Jump(k) ==
  /\ frames' = SubSeq(frames, 1, k)
  /\ UNCHANGED <<rules, slots, last, offSites, hooks>>

\* alloca() in the innermost frame.
Alloca ==
  /\ frames # <<>> /\ Layout[Last(frames).fn] = "frame_pointer"
  /\ LET f == Last(frames) IN
       /\ f.cfa - f.sp <= MaxAlloca /\ Fits([f EXCEPT !.sp = @ - 1])
       /\ frames' = [frames EXCEPT ![Len(frames)].sp = @ - 1]
  /\ UNCHANGED <<rules, slots, last, offSites, hooks>>

----------------------------------------------------------------------------
Init ==
  /\ frames = <<>>
  /\ rules = << >>
  /\ slots = [s \in {SlotOf[site] : site \in Sites} |-> [site |-> NoSite, rule |-> MinimumRule]]
  /\ last = [kind |-> "none", fn |-> "", level |-> 0, cfa |-> 0]
  /\ offSites = {}
  /\ hooks = 0

Next ==
  \/ \E f \in Functions : \E size \in Sizes[f] : Call(f, size) \/ Signal(f, size)
  \/ Exit
  \/ TailExit
  \/ \E k \in 1..Len(frames) : Catch(k)
  \/ \E k \in 1..Len(frames) - 1 : Jump(k)
  \/ Alloca

Spec == Init /\ [][Next]_vars

----------------------------------------------------------------------------
\* Type correctness; a front cache slot is either empty or holds a site that
\* maps to it.
TypeOK ==
  /\ \A i \in DOMAIN frames : frames[i].fn \in Functions /\ frames[i].sp < frames[i].cfa
  /\ DOMAIN rules \subseteq Sites
  /\ \A s \in DOMAIN slots : slots[s].site = NoSite \/ SlotOf[slots[s].site] = s
  /\ last.kind \in {"none", "enter", "exit", "catch"}
  /\ offSites \subseteq Sites
  /\ hooks \in 0..MaxHooks

\* Frames the per-site rule is meant for.
Covered(f) == Layout[f] # "realigned"
Representable(f) == \A size \in Sizes[f] : size + MinDistance <= MaxDistance

\* README.md, "a frame deeper than the one running now always has a lower
\* level": the levels recorded for live frames of one stack decrease with
\* depth, whatever mix of measured, cached, evicted and minimum rules they
\* come from and whatever was jumped over in between.
LevelsOrderLikeFrames ==
  \A i, j \in DOMAIN frames :
    /\ i < j
    /\ OnStack(frames[i].cfa) <=> OnStack(frames[j].cfa)
    /\ Covered(frames[i].fn) /\ Covered(frames[j].fn)
    => frames[i].level > frames[j].level

\* The level found is the frame's own for every frame the unwinder describes.
\* At a hook: alloca() since the enter, another activation's size, or a
\* colliding site must not show (a site first seen off the thread's stack, and
\* a frame beyond the range of the distance, keep the minimum).  At a catch,
\* which measures afresh, also for frames realigned at run time.
DescribedLevelsAreExact ==
  /\ last.kind # "none" /\ OnStack(last.cfa)
  /\ \/ last.kind = "catch"
     \/ /\ Covered(last.fn)
        /\ \A place \in Places : <<last.fn, place>> \notin offSites
  /\ Layout[last.fn] # "undescribed"
  /\ Layout[last.fn] # "frame_pointer" => Representable(last.fn)
  => last.level = last.cfa
=============================================================================
