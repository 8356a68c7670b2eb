---------------------------- MODULE DurationField ----------------------------
(***************************************************************************)
(* include/durationFormat.h: the duration column of a call line, which is  *)
(* patched over the placeholder byte for byte.  A field is a sequence of   *)
(* characters.                                                             *)
(***************************************************************************)
EXTENDS Integers, Sequences, SequencesExt

CONSTANT Digits     \* decimal digits from one unit to the next: 3

ASSUME DigitsAssumption == Digits \in Nat \ {0, 1}

Kilo == 10 ^ Digits
Blank == " "
DigitChars == <<"0", "1", "2", "3", "4", "5", "6", "7", "8", "9">>

\* "[", a blank or the flag, the whole part, ".", the fraction, the unit, "]"
DURATION_FIELD_WIDTH == 1 + (1 + Digits) + 1 + Digits + 2 + 1
DURATION_SATURATION ==
    <<"[", Blank, Blank, ">">> \o [n \in 1..Digits |-> "9"] \o <<".">>
        \o [n \in 1 .. Digits - 2 |-> "9"] \o <<"s", Blank, "]">>

\* %u, %0nu: the decimal digits of n.
Decimal(n, width) ==
    [k \in 1..width |-> DigitChars[1 + ((n \div 10 ^ (width - k)) % 10)]]
DecimalWidth(n) == CHOOSE w \in 1..10 : n < 10 ^ w /\ (w = 1 \/ n >= 10 ^ (w - 1))
\* %4u
Padded(n) ==
    LET digits == Decimal(n, DecimalWidth(n))
    IN  [k \in 1 .. (Digits + 1 - Len(digits)) |-> Blank] \o digits

\* Mutant of InUnit: a unit's upper bound is taken for the unit's own.
InUnitInclusive(ns, k) == ns <= Kilo ^ (k + 1)

\* Whether the k-th unit (ns, us, ms, s) can hold the duration.
InUnit(ns, k) == ns < Kilo ^ (k + 1)

Units == <<<<"n", "s">>, <<"u", "s">>, <<"m", "s">>, <<"s", Blank>>>>

\* The first unit that holds the duration decides.
format_duration_12chars(ns) ==
    LET holding == {k \in 0..3 : InUnit(ns, k)}
        unit == CHOOSE k \in holding : \A j \in holding : k <= j
        whole == ns \div Kilo ^ unit
        frac == IF unit = 0 THEN 0 ELSE (ns % Kilo ^ unit) \div Kilo ^ (unit - 1)
        text == <<"[">> \o Padded(whole) \o <<".">> \o Decimal(frac, Digits)
                    \o Units[unit + 1] \o <<"]">>
    IN  IF holding = {} \/ Len(text) # DURATION_FIELD_WIDTH
        THEN DURATION_SATURATION ELSE text

set_duration_flag(field, flag) == [field EXCEPT ![2] = flag]
-------------------------------------------------------------------------------
(***************************************************************************)
(* Reading a field back, without knowing how it was written.               *)
(***************************************************************************)
DigitsOf(field) == SelectSeq(field, LAMBDA c : \E n \in 1..10 : c = DigitChars[n])
ValueOf(field) ==
    FoldLeft(LAMBDA sum, c : 10 * sum + (CHOOSE n \in 0..9 : c = DigitChars[n + 1]),
             0, DigitsOf(field))

\* The durations the digits of a field may stand for: from lowest to highest.
ReadBack(field) ==
    LET unit == SubSeq(field, Len(field) - 2, Len(field) - 1)
        step == CASE unit \in {Units[1], Units[2]} -> 1
                  [] unit = Units[3] -> Kilo
                  [] OTHER -> Kilo * Kilo
        shown == ValueOf(field) \div (IF unit = Units[1] THEN Kilo ELSE 1)
    IN  [lowest |-> shown * step, highest |-> shown * step + step - 1]

\* A field that has its flag set: it reads as the duration, truncated to the
\* digits shown, and the longest durations as saturated.
TellsTheDuration(field, ns) ==
    /\ Len(field) = DURATION_FIELD_WIDTH
    /\ IF ns >= Kilo ^ 4 THEN field = set_duration_flag(DURATION_SATURATION, field[2])
       ELSE ReadBack(field).lowest <= ns /\ ns <= ReadBack(field).highest
===============================================================================
