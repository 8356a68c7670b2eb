----------------------------- MODULE MCFrameStack -----------------------------
(***************************************************************************)
(* Small traced programs for FrameStack.  A program is a graph             *)
(*    site |-> <<kind, containing body, entered body>>                     *)
(* from which the site functions of FrameStack are read off.               *)
(***************************************************************************)
EXTENDS FrameStack

Stack == [lo |-> 1, hi |-> 100, known |-> TRUE]

Identity(S) == [x \in S |-> x]
KindOf(g) == [s \in DOMAIN g |-> g[s][1]]
HostOf(g) == [s \in DOMAIN g |-> g[s][2]]
TargetOf(g) == [s \in DOMAIN g |-> g[s][3]]
\* Every call lowers the level by two: a frame and a word pushed by the call.
Two(g) == [s \in DOMAIN g |-> 2]
\* The resolver names the function containing a call site, except where the
\* call comes from code without debug information.
ParentOf(g, name, nameless) ==
    [s \in DOMAIN g |-> IF s \in nameless THEN "" ELSE name[g[s][2]]]

(***************************************************************************)
(* Calls: main calls the recursive `walk' and the void `leaf', whose exit  *)
(* hook is tail-called; `sort', a filtered library function, calls `leaf'  *)
(* back through one uninstrumented frame.  Before or after main runs       *)
(* `task' (a static constructor), which calls `host', directly and through *)
(* `wrap': `retry' is inlined into `host' and `step' into `retry'; `probe' *)
(* is inlined into `host' and, as `probe_w', into `wrap'.                  *)
(***************************************************************************)
CallsGraph ==
    [start     |-> <<"entry", "main", "main">>,
     m_walk    |-> <<"call", "main", "walk">>,
     m_leaf    |-> <<"call", "main", "leaf">>,
     m_cleanup |-> <<"call", "main", "leaf">>,
     w_walk    |-> <<"call", "walk", "walk">>,
     w_leaf    |-> <<"call", "walk", "leaf">>,
     w_sort    |-> <<"call", "walk", "sort">>,
     w_cleanup |-> <<"call", "walk", "leaf">>,
     s_leaf    |-> <<"call", "sort", "leaf">>,
     init      |-> <<"entry", "task", "task">>,
     t_host    |-> <<"call", "task", "host">>,
     t_wrap    |-> <<"call", "task", "wrap">>,
     t_cleanup |-> <<"call", "task", "leaf">>,
     a_host    |-> <<"call", "wrap", "host">>,
     a_probe   |-> <<"inline", "wrap", "probe_w">>,
     p_leaf    |-> <<"call", "probe_w", "leaf">>,
     h_retry   |-> <<"inline", "host", "retry">>,
     h_probe   |-> <<"inline", "host", "probe">>,
     h_leaf    |-> <<"call", "host", "leaf">>,
     h_cleanup |-> <<"inline", "host", "probe">>,
     r_step    |-> <<"inline", "retry", "step">>,
     r_cleanup |-> <<"call", "retry", "leaf">>,
     i_leaf    |-> <<"call", "step", "leaf">>]
CallsBodies == {"main", "walk", "leaf", "sort", "task", "wrap", "probe_w", "host",
                "retry", "step", "probe"}
CallsFn == [b \in CallsBodies |-> IF b = "probe_w" THEN "probe" ELSE b]
CallsOutcomes == [b \in CallsBodies |->
    CASE b = "sort" -> {"unlogged"}
      [] b \in {"walk", "step"} -> {"logged", "unlogged"}
      [] OTHER      -> {"logged"}]
CallsSites == DOMAIN CallsGraph
CallsKind == KindOf(CallsGraph)
CallsHost == HostOf(CallsGraph)
CallsTarget == TargetOf(CallsGraph)
CallsDrop == Two(CallsGraph)
CallsUp == [CallsDrop EXCEPT !["s_leaf"] = 1]
CallsParent == ParentOf(CallsGraph, CallsFn, {"start", "init", "s_leaf"})

(***************************************************************************)
(* Handler: main calls `walk', which calls itself; a signal handler runs   *)
(* on the alternate signal stack and calls `leaf' there.                   *)
(***************************************************************************)
SigGraph ==
    [start  |-> <<"entry", "main", "main">>,
     m_walk |-> <<"call", "main", "walk">>,
     w_walk |-> <<"call", "walk", "walk">>,
     m_cleanup |-> <<"call", "main", "leaf">>,
     w_cleanup |-> <<"call", "walk", "leaf">>,
     signal |-> <<"signal", "main", "handler">>,
     h_leaf |-> <<"call", "handler", "leaf">>]
SigBodies == {"main", "walk", "handler", "leaf"}
SigFn == Identity(SigBodies)
SigOutcomes == [b \in SigBodies |-> IF b = "walk" THEN Outcomes ELSE {"logged"}]
SigSites == DOMAIN SigGraph
SigKind == KindOf(SigGraph)
SigHost == HostOf(SigGraph)
SigTarget == TargetOf(SigGraph)
SigTwo == Two(SigGraph)
SigParent == ParentOf(SigGraph, SigFn, {"start", "signal"})

(***************************************************************************)
(* Namesake: the user's `swap' has std::swap inlined, a filtered function  *)
(* of the same base name, which calls the user's move constructor.         *)
(***************************************************************************)
SwapGraph ==
    [start  |-> <<"entry", "main", "main">>,
     m_swap |-> <<"call", "main", "swap">>,
     u_swap |-> <<"inline", "swap", "std_swap">>,
     s_move |-> <<"call", "std_swap", "move">>]
SwapBodies == {"main", "swap", "std_swap", "move"}
SwapFn == Identity(SwapBodies)
SwapName == [b \in SwapBodies |-> IF b = "std_swap" THEN "swap" ELSE b]
SwapOutcomes == [b \in SwapBodies |->
    IF b = "std_swap" THEN {"unlogged"} ELSE {"logged"}]
SwapSites == DOMAIN SwapGraph
SwapKind == KindOf(SwapGraph)
SwapHost == HostOf(SwapGraph)
SwapTarget == TargetOf(SwapGraph)
SwapTwo == Two(SwapGraph)
SwapParent == ParentOf(SwapGraph, SwapName, {"start"})
===============================================================================
