------------------------------ MODULE Numerals ------------------------------
(***************************************************************************)
(* Numbers as they are written: sequences of digits (strconv).             *)
(***************************************************************************)
EXTENDS Naturals, Sequences

\* The number that digits spell in base.
Value(digits, base) ==
    LET read[n \in 0..Len(digits)] ==
            IF n = 0 THEN 0 ELSE read[n - 1] * base + digits[n]
    IN  read[Len(digits)]

\* The digits that spell n in base 10.
Digits(n) ==
    LET spelled[m \in 0..n] ==
            IF m < 10 THEN <<m>> ELSE Append(spelled[m \div 10], m % 10)
    IN  spelled[n]
=============================================================================
