---------------------------- MODULE MCImageCache ----------------------------
(***************************************************************************)
(* Small instances of ImageCache for TLC.                                  *)
(***************************************************************************)
EXTENDS ImageCache, TLC

CONSTANTS k1, k2, s1, s2, s3, r1, c1, c2

\* Every request asks for the same release.
OneRelease == [r \in Request |-> k1]

\* The second storer and the reader ask for another one.
TwoReleases == [r \in Request |-> IF r = s1 THEN k1 ELSE k2]

\* Under a key TLC tries whatever two files can be; where the size of the run
\* asks for it, what is left when at most one of them was damaged or lost,
AnyLeftover == [File -> Content]
OneDamaged  == {left \in AnyLeftover : \E f \in File : left[f] = "good"}

\* or an entry whose archive was damaged and perhaps one that can be used.
DamagedLeftover == {[archive |-> "bad", meta |-> "good"]}
TwoLeftovers == DamagedLeftover \cup {[archive |-> "good", meta |-> "good"]}

\* Storers of one release are interchangeable.
StorerSymmetry == Permutations(Storer)
=============================================================================
