------------------------------ MODULE Versions ------------------------------
(***************************************************************************)
(* The order of versions (internal/registry/releases.go).                  *)
(*                                                                         *)
(* A version is what strings.Split finds between the dashes of its text: a *)
(* sequence of parts, of no fixed number, each a sequence of digits.  The  *)
(* code widens every part and compares the texts.                          *)
(***************************************************************************)
EXTENDS Integers, Sequences, Numerals
LOCAL INSTANCE SequencesExt

CONSTANT Width   \* versionPartWidth

ASSUME WidthType == Width \in Nat \ {0}

Dash == -1       \* sorts before every digit, as in ASCII

\* (Mutant: the zeros are appended.)
PadRight(part) == part \o [i \in 1..(Width - Len(part)) |-> 0]
Widened(part) == [i \in 1..(Width - Len(part)) |-> 0] \o part

\* padVersion: the parts widened and joined again.
PadVersion(v) ==
    FlattenSeq([k \in DOMAIN v |->
        IF k = 1 THEN Widened(v[1]) ELSE <<Dash>> \o Widened(v[k])])

\* strings.Compare: s sorts before t when t goes on after all of s, or has the
\* greater character where they first differ.
TextBefore(s, t) ==
    \E i \in DOMAIN t :
        /\ \A j \in 1..(i - 1) : j \in DOMAIN s /\ s[j] = t[j]
        /\ i \in DOMAIN s => s[i] < t[i]

\* compareVersions(a, b) < 0.
Older(a, b) == TextBefore(PadVersion(a), PadVersion(b))

-----------------------------------------------------------------------------
(* What the order is meant to be.                                          *)

\* The number a part spells.
Number(part) == Value(part, 10)

\* Part by part as numbers, a version before what continues it.
NumberedBefore(a, b) ==
    \E i \in DOMAIN b :
        /\ \A j \in 1..(i - 1) : j \in DOMAIN a /\ Number(a[j]) = Number(b[j])
        /\ i \in DOMAIN a => Number(a[i]) < Number(b[i])
=============================================================================
