-------------------------- MODULE MCSequentialParts --------------------------
(***************************************************************************)
(* The sequential parts of the tracer, each over its own inputs: the       *)
(* duration column, base names, and the reading of object files.  A        *)
(* behavior is about one of them.                                          *)
(***************************************************************************)
EXTENDS ObjectFiles, DurationField, FunctionNames

CONSTANTS
    Scopes,     \* components that may enclose a name
    MaxScopes   \* bound: enclosing components

VARIABLES
    input,      \* the duration or the name in hand
    output      \* what it became

(***************************************************************************)
(* Durations around every power of ten.                                    *)
(***************************************************************************)
Durations ==
    {m * 10 ^ k + d : m \in 1..12, k \in 0..8, d \in {-1, 0, 1}} \cup {123456, 87654321}

\* Section indexes old binutils wrote too high.
MCOldXIndexes == 249 :> 1

(***************************************************************************)
(* Demangled names, put together from components.                          *)
(***************************************************************************)
Component ==
    [namespace |-> <<"ns">>,
     template |-> <<"A", "<", "ns", "::", "T", "<", "int", ">", " ", ">">>,
     callback |-> <<"B", "<", "void", " ", "(", "*", ")", "(", "int", ")", ">">>,
     anonymous |-> <<"(", "anonymous namespace", ")">>,
     function |-> <<"host", "(", "ns", "::", "T", "<", "int", ">", ")">>,
     pointers |-> <<"host", "(", "void", " ", "(", "*", ")", "(", "int", ")", ")">>,
     lambda |-> <<"{", "lambda", "(", "int", ")", "#1", "}">>,
     const_function |-> <<"host", "(", "int", ")", " ", "const">>]
BaseNames ==
    {<<"f">>, <<"cooperator">>, <<"f", "<", "ns", "::", "T", ">">>, <<"operator", "(", ")">>,
     <<"operator", "(", ")", "<", "int", ">">>, <<"operator", "<">>, <<"operator", "-", ">">>,
     <<"operator", "<", "<", " ", "<", "ns", "::", "T", ">">>, <<"operator", " ", "new", "[]">>}
Parameters ==
    {<<>>, <<"(", ")">>, <<"(", "ns", "::", "T", ")", " ", "const">>,
     <<"(", "void", " ", "(", "*", ")", "(", "int", ")", ")">>}

Names ==
    {[scopes |-> s, base |-> b, parameters |-> p] :
       s \in UNION {[1..n -> Scopes] : n \in 0..MaxScopes}, b \in BaseNames, p \in Parameters}
Text(name) ==
    FoldLeft(LAMBDA text, s : text \o Component[s] \o <<"::">>, <<>>, name.scopes)
        \o name.base \o name.parameters
-------------------------------------------------------------------------------
NoInput == [part |-> "none"]
Inputs ==
    {[part |-> "duration", ns |-> ns] : ns \in Durations}
      \cup {[part |-> "name", name |-> name] : name \in Names}
NoText == <<>>

Init == OFInit /\ input \in Inputs \cup {NoInput} /\ output = NoText

\* mark_frame_end: the field with the flag that says how the frame ended.
FlaggedDuration ==
    /\ input.part = "duration" /\ output = NoText
    /\ output' = set_duration_flag(format_duration_12chars(input.ns), "!")
    /\ UNCHANGED <<ofVars, input>>

TakeBaseName ==
    /\ input.part = "name" /\ output = NoText
    /\ output' = function_base_name(Text(input.name))
    /\ UNCHANGED <<ofVars, input>>

ReadObjectFiles == input = NoInput /\ OFNext /\ UNCHANGED <<input, output>>

Next == FlaggedDuration \/ TakeBaseName \/ ReadObjectFiles
Spec == Init /\ [][Next]_<<ofVars, input, output>>

\* The duration column keeps its width, its flag byte and its meaning at every
\* unit boundary: format_duration_12chars calls it "a hard invariant: every
\* path MUST produce exactly this many characters", with byte 1 free for the
\* flag, because the field is patched over the placeholder in the file.
DurationFieldsReadBack ==
    input.part = "duration" /\ output # NoText => TellsTheDuration(output, input.ns)

\* function_base_name gives the last component, "without namespaces, class
\* scope ... or parameter list": whatever encloses a function and whatever
\* brackets its scopes, its template arguments, its operator symbol and its
\* parameters hold.  Records are told apart by these names.
BaseNamesAreLastComponents ==
    input.part = "name" /\ output # NoText => output = input.name.base
===============================================================================
