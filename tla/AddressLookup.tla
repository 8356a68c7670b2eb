---------------------------- MODULE AddressLookup ----------------------------
(***************************************************************************)
(* What src/callStack.cpp makes of one address, given the object dladdr    *)
(* found it in and the registered file that answers for that object: the   *)
(* callee name, the call site, the site of an exception event and the      *)
(* inline chain.  Names are atoms; demangling and base names are functions *)
(* on them.  An absent name or file is "", an absent line 0.               *)
(***************************************************************************)
EXTENDS Integers, Sequences

CONSTANTS
    Images,         \* the object files the process may map
    NoImage,        \* dladdr failed; also: no file answers for the object
    Debug,          \* [image -> [address -> what libbacktrace reports]]
    DynamicSymbol,  \* [image -> [address -> dli_sname]], partial
    LinkageNames,   \* the DWARF names that are mangled ("_Z...")
    SameFunction,   \* <<symbol, DWARF name>>: equal but for a clone suffix
    StdNames,       \* what is_std_library_symbol recognises (Clang)
    Demangled,      \* demangle_cxa, on the raw names that change
    BaseOf          \* function_base_name, on the names that change

ASSUME ImagesAssumption == NoImage \notin Images

Applied(f, x) == IF x \in DOMAIN f THEN f[x] ELSE x
demangle_cxa(raw) == Applied(Demangled, raw)
function_base_name(name) == Applied(BaseOf, name)
dli_sname(i, a) == IF a \in DOMAIN DynamicSymbol[i] THEN DynamicSymbol[i][a] ELSE ""
-------------------------------------------------------------------------------
NoInfo == [entries |-> <<>>, symbol |-> "", symbol_value |-> 0]
BlankEntry == [function |-> "", file |-> "", line |-> 0]

\* A collector that ran out of memory leaves its half of the answer empty:
\* `lost` holds the <<address, half>> pairs this happens to.
look_up(i, a, lost) ==
    LET says == IF a \in DOMAIN Debug[i] THEN Debug[i][a] ELSE NoInfo
        symbols == <<a, "symbol">> \notin lost
    IN  [entries |-> IF <<a, "dwarf">> \in lost \/ says.entries = <<BlankEntry>>
                     THEN <<>> ELSE says.entries,
         symbol |-> IF symbols THEN says.symbol ELSE "",
         symbol_value |-> IF symbols THEN says.symbol_value ELSE 0]

DwarfName(lookup, name_of) ==
    LET chain == lookup.entries
    IN  IF chain = <<>> THEN ""
        ELSE chain[IF name_of = "outermost_function" THEN Len(chain) ELSE 1].function

function_name_of(lookup, name_of) ==
    LET dwarf == DwarfName(lookup, name_of)
    IN  IF \/ dwarf \in LinkageNames
           \/ lookup.symbol = ""
           \/ dwarf # "" /\ <<lookup.symbol, dwarf>> \in SameFunction
        THEN dwarf ELSE lookup.symbol

innermost_base_name(lookup) ==
    LET dwarf == DwarfName(lookup, "innermost_function")
        name == IF dwarf = "" THEN function_name_of(lookup, "innermost_function")
                ELSE dwarf
    IN  IF name = "" THEN "" ELSE function_base_name(demangle_cxa(name))
-------------------------------------------------------------------------------
\* A callee that is not loggable: the cached nullopt.
Filtered == "(filtered)"

cache_name(name) ==
    [name |-> name, base |-> IF name = Filtered THEN "" ELSE function_base_name(name)]

FilteredByDynamicSymbol(i, a) == dli_sname(i, a) \in StdNames

\* i: the image dladdr found; object: the image whose file answers for it.
resolve_function_name(i, object, a, name_of, lost) ==
    IF i = NoImage THEN "<address to object not found>"
    ELSE IF FilteredByDynamicSymbol(i, a) THEN Filtered
    ELSE IF object = NoImage THEN "<could not open object file>"
    ELSE LET name == function_name_of(look_up(object, a, lost), name_of)
             shown == IF name = "" THEN dli_sname(i, a) ELSE name
         IN  IF shown = "" \/ (name # "" /\ name \in StdNames) THEN Filtered
             ELSE demangle_cxa(shown)

HasPosition(entry) == entry.file # "" /\ entry.line # 0

resolve_filename_and_line(i, object, a, lost) ==
    IF i = NoImage
    THEN [file |-> "<caller address to object not found>", line |-> 0, base |-> ""]
    ELSE
    LET dynamic == dli_sname(i, a)
        dynamicBase == IF dynamic = "" THEN ""
                       ELSE function_base_name(demangle_cxa(dynamic))
    IN  IF object = NoImage
        THEN [file |-> "<could not open caller object file>", line |-> 0,
              base |-> dynamicBase]
        ELSE
        LET lookup == look_up(object, a, lost)
            function == function_name_of(lookup, "innermost_function")
            base == innermost_base_name(lookup)
            At(file, line) == [file |-> file, line |-> line,
                               base |-> IF base = "" THEN dynamicBase ELSE base]
        IN  IF lookup.entries # <<>> /\ HasPosition(lookup.entries[1])
            THEN At(lookup.entries[1].file, lookup.entries[1].line)
            ELSE IF function # "" THEN At(demangle_cxa(function), 0)
            ELSE IF dynamic # "" THEN At(demangle_cxa(dynamic), 0)
            ELSE At("<unknown function>", 0)
-------------------------------------------------------------------------------
NoRow == [file |-> "", line |-> 0]
RowOf(entry) == [file |-> entry.file, line |-> entry.line]

line_row_at(lookup) ==
    IF lookup.entries = <<>> THEN NoRow ELSE RowOf(lookup.entries[1])

outermost_line_row_at(lookup) ==
    LET positioned == {n \in 1..Len(lookup.entries) : HasPosition(lookup.entries[n])}
    IN  IF line_row_at(lookup).line = 0 \/ positioned = {} THEN line_row_at(lookup)
        ELSE RowOf(lookup.entries[CHOOSE n \in positioned :
                                    \A m \in positioned : m <= n])

same_as(row, other) == row = other /\ row.line # 0 /\ row.file # ""

\* The row covering the site also covers the byte before its symbol: it
\* leaked in from the code before the landing pad.
RowLeaks(object, site, lost) ==
    /\ site.symbol # "" /\ site.symbol_value # 0
    /\ \A byte \in {site.symbol_value, site.symbol_value - 1} :
         same_as(line_row_at(site), line_row_at(look_up(object, byte, lost)))

resolve_event_site_location(i, object, a, lost) ==
    LET location == resolve_filename_and_line(i, object, a, lost)
        site == look_up(object, a, lost)
        after == outermost_line_row_at(look_up(object, a + 1, lost))
    IN  IF location.line = 0 \/ ~RowLeaks(object, site, lost) THEN location
        ELSE IF after.line = 0 \/ same_as(after, line_row_at(site))
             THEN [location EXCEPT !.line = 0]
             ELSE [location EXCEPT !.file = after.file, !.line = after.line]

read_inline_chain(i, object, a, lost) ==
    IF i = NoImage \/ object = NoImage THEN <<>>
    ELSE LET lookup == look_up(object, a, lost)
             hosts == SelectSeq(Tail(lookup.entries), LAMBDA e : e.function # "")
             base == innermost_base_name(lookup)
         IN  IF lookup.entries = <<>> \/ ~HasPosition(lookup.entries[1]) \/ base = ""
             THEN <<>>
             ELSE <<base>> \o [n \in 1..Len(hosts) |->
                               function_base_name(demangle_cxa(hosts[n].function))]
===============================================================================
