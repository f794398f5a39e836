----------------------------- MODULE MCRegistry -----------------------------
(***************************************************************************)
(* A small registry for TLC: a board that is supported and one that is     *)
(* not, a distribution spelled in two ways and one release that names      *)
(* none, builds 9 and 10 of a day, and an archive with a bad checksum.     *)
(***************************************************************************)
EXTENDS Registry

CONSTANTS
    MaxEntries,   \* bound: releases in an index
    UsedDigits,   \* bound: the digits the parts of any version are made of
    Parts         \* bound: the parts of any version

ASSUME BoundsType == UsedDigits \subseteq 0..9 /\ Parts \in Nat

Boards2 == [l \in {"UNO Q", "VENTUNO Q"} |-> IF l = "UNO Q" THEN "unoq" ELSE "ventunoq"]
Defaults == [b \in {"unoq", "ventunoq"} |-> IF b = "unoq" THEN "debian" ELSE "ubuntu"]
Labels  == {"UNO Q", "VENTUNO Q", "NEW"}
Distros == [d \in {"Debian 12", "Debian 13", "none"} |-> IF d = "none" THEN Unnamed ELSE "debian"]

Build9   == <<<<1>>, <<9>>>>
Build10  == <<<<1>>, <<1, 0>>>>
Versions2 == {Build9, Build10}

Release1(v, l, d, a) == [version |-> v, label |-> l, distro |-> d, archive |-> a]

\* What an index holds is drawn from these.
Catalog ==
    { Release1(Build9,  "UNO Q",     "Debian 12", "a"),
      Release1(Build9,  "UNO Q",     "Debian 13", "b"),
      Release1(Build10, "UNO Q",     "Debian 13", "c"),
      Release1(Build10, "UNO Q",     "none",      "d"),
      Release1(Build9,  "VENTUNO Q", "Debian 13", "e"),
      Release1(Build10, "VENTUNO Q", "Debian 12", "bad"),
      Release1(Build10, "NEW",       "Debian 13", "f") }

Lists == UNION {[1..n -> Catalog] : n \in 0..MaxEntries}
SmallAnswers ==
    {[status |-> s, entries |-> <<>>] : s \in {"not found", "failed"}}
        \cup {[status |-> "ok", entries |-> l] : l \in Lists}

\* Versions of a bounded form, for the comparison alone.
Part            == UNION {[1..n -> UsedDigits] : n \in 0..Width}
BoundedVersions == UNION {[1..n -> Part] : n \in 1..Parts}

\* "What puts build 99 before 523": for versions of any number of parts, none wider
\* than the code assumes, the order of the padded texts is that of the numbers.
\* It depends on no index, so it is looked at once, before any is read.
OrderIsNumeric ==
    answered = <<>> =>
        \A a, b \in BoundedVersions : Older(a, b) <=> NumberedBefore(a, b)
=============================================================================
