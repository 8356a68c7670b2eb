---------------------------- MODULE FunctionNames ----------------------------
(***************************************************************************)
(* include/frameReconcile.h: matching_bracket and function_base_name.  A   *)
(* name is a sequence of tokens: brackets, "::", " ", "operator" and other *)
(* words, in which nothing the code looks at is hidden.                    *)
(***************************************************************************)
EXTENDS Integers, Sequences, FiniteSets, FiniteSetsExt

Npos == 0
Count(name, from, to, token) == Cardinality({j \in from..to : name[j] = token})

\* The first place where as many brackets are closed as opened.
matching_bracket(name, open, open_char, close_char) ==
    LET closing == {i \in open..Len(name) :
                      /\ name[i] = close_char
                      /\ Count(name, open, i, open_char) = Count(name, open, i, close_char)}
    IN  IF closing = {} THEN Npos ELSE Min(closing)

TokenAt(name, i) == IF i \in DOMAIN name THEN name[i] ELSE ""

IsOperator(name, i) ==
    name[i] = "operator" /\ (i = 1 \/ name[i - 1] \in {"::", " "})

\* An operator's own symbol runs up to the parameter list.
EndOfOperator(name, i) ==
    LET from == IF TokenAt(name, i + 1) = "(" /\ TokenAt(name, i + 2) = ")" THEN i + 3
                ELSE i + 1
        opening == {j \in from..Len(name) : name[j] = "("}
    IN  IF opening = {} THEN Len(name) + 1 ELSE Min(opening)

\* Mutant of OpensScope: a parameter list never opens a scope.
NeverOpensScope(name, close) == FALSE

\* The closed bracket is a scope component, not the parameter list.
OpensScope(name, close) == close # Npos /\ TokenAt(name, close + 1) = "::"

\* The first loop, from token i on: where the parameter list begins.
CutFrom(name) ==
    LET cut[i \in 1 .. Len(name) + 3, depth \in Int] ==
          LET c == TokenAt(name, i)
              brace == matching_bracket(name, i, "{", "}")
              close == matching_bracket(name, i, "(", ")")
          IN  IF i > Len(name) THEN Len(name) + 1
              ELSE IF c = "{" THEN IF brace = Npos THEN Len(name) + 1
                                   ELSE cut[brace + 1, depth]
              ELSE IF IsOperator(name, i) THEN EndOfOperator(name, i)
              ELSE IF c = "<" THEN cut[i + 1, depth + 1]
              ELSE IF c = ">" THEN cut[i + 1, depth - 1]
              ELSE IF c = "(" /\ depth = 0
                   THEN IF OpensScope(name, close) THEN cut[close + 2, depth] ELSE i
              ELSE cut[i + 1, depth]
    IN  cut[1, 0]

\* The second loop: where the last component begins.
LastScope(name) ==
    LET scope[i \in 1 .. Len(name) + 1, depth \in Int, found \in Nat] ==
          LET c == TokenAt(name, i)
              brace == matching_bracket(name, i, "{", "}")
          IN  IF i > Len(name) THEN found
              ELSE IF c = "{" THEN IF brace = Npos THEN found
                                   ELSE scope[brace + 1, depth, found]
              ELSE IF c = "<" THEN scope[i + 1, depth + 1, found]
              ELSE IF c = ">" THEN scope[i + 1, depth - 1, found]
              ELSE IF c = "::" /\ depth = 0 THEN scope[i + 1, depth, i + 1]
              ELSE scope[i + 1, depth, found]
    IN  scope[1, 0, 1]

function_base_name(name) ==
    LET kept == SubSeq(name, 1, CutFrom(name) - 1)
    IN  SubSeq(kept, LastScope(kept), Len(kept))
===============================================================================
