------------------------------ MODULE MemoTable ------------------------------
(***************************************************************************)
(* What the address resolver promises its callers, whatever its caches and *)
(* locks do: one table of answers.  A question is answered at most once,   *)
(* by an answer admissible for it, and whoever asks it, then or later, is  *)
(* given that very answer.                                                 *)
(***************************************************************************)
EXTENDS Integers, Sequences

CONSTANTS
    Askers,
    Questions,
    Admissible(_)   \* question -> the answers it may be given

VARIABLES
    memo,       \* [question -> its answer], on the questions answered so far
    asked,      \* asker -> the questions of its call in progress
    given       \* asker -> for each of them <<>>, or <<the answer>>

memoVars == <<memo, asked, given>>

Init ==
    /\ memo = <<>>
    /\ asked = [t \in Askers |-> <<>>]
    /\ given = [t \in Askers |-> <<>>]

\* Nothing yet, or what the table says.
Known(question) ==
    {<<>>} \cup IF question \in DOMAIN memo THEN {<<memo[question]>>} ELSE {}

\* A call begins, perhaps with some answers at hand.
Ask(t) ==
    /\ asked[t] = <<>>
    /\ asked' = [asked EXCEPT ![t] = asked'[t]]
    /\ asked'[t] \in Seq(Questions) \ {<<>>}
    /\ given' = [given EXCEPT ![t] = given'[t]]
    /\ DOMAIN given'[t] = DOMAIN asked'[t]
    /\ \A n \in DOMAIN asked'[t] : given'[t][n] \in Known(asked'[t][n])
    /\ UNCHANGED memo

\* Some questions turn out to be answered already.
Look(t) ==
    /\ given' = [given EXCEPT ![t] = given'[t]]
    /\ DOMAIN given'[t] = DOMAIN asked[t]
    /\ \A n \in DOMAIN asked[t] :
         given'[t][n] \in IF given[t][n] = <<>> THEN Known(asked[t][n])
                          ELSE {given[t][n]}
    /\ UNCHANGED <<memo, asked>>

\* A question nobody has answered is.
Settle(t, n) ==
    /\ asked[t][n] \notin DOMAIN memo
    /\ \E answer \in Admissible(asked[t][n]) :
         /\ memo' = [question \in DOMAIN memo \cup {asked[t][n]} |->
                      IF question \in DOMAIN memo THEN memo[question] ELSE answer]
         /\ given' = [given EXCEPT ![t][n] = <<answer>>]
    /\ UNCHANGED asked

\* The call ends; a filtered callee or a failed allocation cuts it short.
Reply(t) ==
    /\ asked[t] # <<>>
    /\ asked' = [asked EXCEPT ![t] = <<>>]
    /\ given' = [given EXCEPT ![t] = <<>>]
    /\ UNCHANGED memo

Next ==
    \E t \in Askers :
      \/ Ask(t) \/ Look(t) \/ Reply(t)
      \/ \E n \in DOMAIN asked[t] : Settle(t, n)

Spec == Init /\ [][Next]_memoVars
===============================================================================
