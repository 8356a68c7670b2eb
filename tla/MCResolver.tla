------------------------------ MODULE MCResolver ------------------------------
(***************************************************************************)
(* An executable and two plugins.  Plugin b is mapped into the range of    *)
(* plugin a, at another base.                                              *)
(***************************************************************************)
EXTENDS Resolver, TLC

E(function, file, line) == [function |-> function, file |-> file, line |-> line]
Says(entries, symbol, value) ==
    [entries |-> entries, symbol |-> symbol, symbol_value |-> value]

\* 12 is a call in main's cold part whose line row leaked in from f at 11, and
\* which lies in g, inlined into main; 14 is a std function.
ExeDebug ==
    11 :> Says(<<E("_Z1fv", "f.cpp", 10)>>, "_Z1fv", 11)
 @@ 12 :> Says(<<E("g", "f.cpp", 10), E("main", "main.cpp", 7)>>, "main.cold", 12)
 @@ 13 :> Says(<<E("h", "h.h", 3), E("main", "main.cpp", 8)>>, "main.cold", 12)
 @@ 14 :> Says(<<E("", "", 0)>>, "_ZSt1sv", 14)
PluginDebug(name, raw) ==
    4 :> Says(<<E("", name, 0)>>, "", 0) @@ 5 :> Says(<<E("", "", 0)>>, raw, 5)

MCDebug == [exe |-> ExeDebug, a |-> PluginDebug("a.c", "_Z1av"),
            b |-> PluginDebug("b.c", "_Z1bv")]
MCDynamicSymbol == [exe |-> 14 :> "_ZSt1sv", a |-> 4 :> "a_init", b |-> 4 :> "b_init"]
MCLinkageNames == {"_Z1fv"}
MCSameFunction == {<<"main.cold", "main">>}
MCStdNames == {"_ZSt1sv"}
MCDemangled == "_Z1fv" :> "f()" @@ "_Z1av" :> "a()" @@ "_Z1bv" :> "b()"
MCBaseOf == "f()" :> "f" @@ "a()" :> "a" @@ "b()" :> "b"

MCBase == [exe |-> 11, a |-> 3, b |-> 4]
MCCode == [exe |-> 11..14, a |-> 3..5, b |-> 4..5]
MCSlotOf == [address \in {4, 5, 12, 14, 99} |-> address % 3]

Key(c, address) == [cache |-> c, address |-> address]
Resolve(callee, caller) ==
    [op |-> "resolve", want |-> <<Key("name", callee), Key("location", caller)>>]
PhysicalFrame(address, caller) ==
    [op |-> "frame", want |-> <<Key("frame", address), Key("location", caller)>>]
Site(address) == [op |-> "site", want |-> <<Key("location", address)>>]
Chain(address) == [op |-> "chain", want |-> <<Key("chain", address)>>]

\* Address 99 is in no object.  The names of 5 and 14 share a slot; 12 is asked
\* for by a hook, as an event's site, for its inline chain and as a captured frame.
MCHookCalls == {Resolve(4, 12), Resolve(5, 4), Resolve(14, 12), Site(12), Chain(12)}
MCApiCalls == {PhysicalFrame(12, 99)}

\* A lookup loses nothing, or all it was told.
Asked == {4, 5, 11, 12, 13, 14}
MCLostSets == {{}, Asked \X {"dwarf", "symbol"}}
===============================================================================
