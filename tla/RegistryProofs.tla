--------------------------- MODULE RegistryProofs ---------------------------
(***************************************************************************)
(* What holds of the registry client for any number of indexes of any      *)
(* length, releases and versions: the order of versions, and what is       *)
(* merged, listed, resolved and downloaded.                                *)
(***************************************************************************)
EXTENDS MCRegistry, SequenceLemmas
LOCAL INSTANCE SequencesExt

-----------------------------------------------------------------------------
(* Joining sequences.                                                      *)

\* f[n] is the first n of seqs, joined.
Joins(f, seqs, n) ==
    /\ f[0] = <<>>
    /\ \A i \in 1..n : f[i] = f[i - 1] \o seqs[i]

\* One more sequence joined.
LEMMA NextJoin ==
    ASSUME NEW f, NEW seqs, NEW n \in Nat, Joins(f, seqs, n), NEW i \in Nat, i + 1 <= n
    PROVE  f[i + 1] = f[i] \o seqs[i + 1]
<1>1. i + 1 \in 1..n /\ (i + 1) - 1 = i
    OBVIOUS
<1>2. f[i + 1] = f[(i + 1) - 1] \o seqs[i + 1]
    BY <1>1 DEF Joins
<1>3. QED
    BY <1>1, <1>2

\* The function that joins exists: what the recursive FlattenSeq needs.
LEMMA JoinExists ==
    ASSUME NEW seqs
    PROVE  \A n \in Nat : n >= 1 => \E f :
              f = [i \in 1..n |-> IF i = 1 THEN seqs[i] ELSE f[i - 1] \o seqs[i]]
<1> DEFINE Def(f, n) == f = [i \in 1..n |-> IF i = 1 THEN seqs[i] ELSE f[i - 1] \o seqs[i]]
           S == {n \in Nat : n >= 1 => \E f : Def(f, n)}
<1>1. 0 \in S
    OBVIOUS
<1>2. ASSUME NEW n \in Nat, n \in S
      PROVE  n + 1 \in S
    <2>1. CASE n = 0
        <3>1. Def([i \in 1..1 |-> seqs[i]], 1)
            OBVIOUS
        <3>2. \E f : Def(f, 1)
            BY <3>1
        <3> HIDE DEF Def
        <3>3. QED
            BY <2>1, <3>2
    <2>2. CASE n >= 1
        <3>1. PICK f : Def(f, n)
            BY <1>2, <2>2
        <3> DEFINE g == [i \in 1..(n + 1) |->
                            IF i = n + 1 THEN f[n] \o seqs[n + 1] ELSE f[i]]
        <3>2. Def(g, n + 1)
            <4>1. \A i \in 1..n : f[i] = IF i = 1 THEN seqs[i] ELSE f[i - 1] \o seqs[i]
                BY <3>1
            <4>2. ASSUME NEW i \in 1..(n + 1)
                  PROVE  g[i] = IF i = 1 THEN seqs[i] ELSE g[i - 1] \o seqs[i]
                <5>1. CASE i = n + 1
                    <6>1. i # 1 /\ i - 1 \in 1..n /\ i - 1 = n
                        BY <2>2, <5>1
                    <6>2. g[n] = f[n] /\ g[n + 1] = f[n] \o seqs[n + 1]
                        <7>1. n \in 1..(n + 1) /\ n + 1 \in 1..(n + 1) /\ n # n + 1
                            BY <2>2
                        <7>2. g[n] = f[n]
                            BY <7>1
                        <7>3. g[n + 1] = f[n] \o seqs[n + 1]
                            BY <7>1
                        <7>4. QED
                            BY <7>2, <7>3
                    <6> HIDE DEF g
                    <6>3. QED
                        BY <5>1, <6>1, <6>2
                <5>2. CASE i \in 1..n
                    <6>1. g[i] = f[i] /\ (i # 1 => i - 1 \in 1..n /\ g[i - 1] = f[i - 1])
                        BY <5>2
                    <6> HIDE DEF g
                    <6>2. QED
                        BY <4>1, <5>2, <6>1
                <5>3. QED
                    BY <5>1, <5>2
            <4>3. QED
                BY <4>2
        <3> HIDE DEF g
        <3>3. \E h : Def(h, n + 1)
            BY ONLY <3>2
        <3> HIDE DEF Def
        <3>4. QED
            BY <3>3
    <2> HIDE DEF S
    <2>3. QED
        BY <2>1, <2>2
<1> HIDE DEF S
<1>3. \A n \in Nat : n \in S
    BY <1>1, <1>2, Inductive
<1>4. QED
    BY <1>3 DEF S

\* FlattenSeq is the last of what is joined.
LEMMA FlattenJoins ==
    ASSUME NEW X, NEW seqs \in Seq(Seq(X))
    PROVE  \E f : Joins(f, seqs, Len(seqs)) /\ FlattenSeq(seqs) = f[Len(seqs)]
<1>1. CASE Len(seqs) = 0
    <2> DEFINE f == [i \in {0} |-> <<>>]
    <2>1. seqs = <<>>
        BY <1>1
    <2>2. FlattenSeq(seqs) = <<>>
        BY <1>1, <2>1 DEF FlattenSeq
    <2>3. Joins(f, seqs, Len(seqs)) /\ f[Len(seqs)] = <<>>
        BY <1>1 DEF Joins
    <2>4. QED
        BY <2>2, <2>3
<1>2. CASE Len(seqs) # 0
    <2> DEFINE N == Len(seqs)
               Def(f) == f = [i \in 1..N |-> IF i = 1 THEN seqs[i] ELSE f[i - 1] \o seqs[i]]
               flatten == CHOOSE f : Def(f)
               f == [i \in 0..N |-> IF i = 0 THEN <<>> ELSE flatten[i]]
    <2>1. FlattenSeq(seqs) = flatten[N]
        BY <1>2 DEF FlattenSeq
    <2>2. N \in Nat /\ N >= 1 /\ \A i \in 1..N : seqs[i] \in Seq(X)
        BY <1>2
    <2>3. Def(flatten)
        BY <2>2, JoinExists
    <2> HIDE DEF flatten, N
    <2>4. \A i \in 1..N : flatten[i] = IF i = 1 THEN seqs[i] ELSE flatten[i - 1] \o seqs[i]
        BY <2>3
    <2>5. ASSUME NEW i \in 1..N
          PROVE  f[i] = f[i - 1] \o seqs[i]
        <3>1. CASE i = 1
            <4>1. f[0] = <<>> /\ f[1] = seqs[1] /\ seqs[1] \in Seq(X)
                BY <2>2, <2>4
            <4>2. <<>> \o seqs[1] = seqs[1]
                BY <4>1
            <4>3. f[i] = seqs[1] /\ f[i - 1] = <<>>
                BY <3>1, <4>1
            <4> HIDE DEF f
            <4>4. QED
                BY <3>1, <4>2, <4>3
        <3>2. CASE i # 1
            <4>1. f[i] = flatten[i] /\ f[i - 1] = flatten[i - 1]
                BY <2>2, <3>2
            <4>2. flatten[i] = flatten[i - 1] \o seqs[i]
                BY <2>4, <3>2
            <4> HIDE DEF f
            <4>3. QED
                BY <4>1, <4>2
        <3>3. QED
            BY <3>1, <3>2
    <2>6. Joins(f, seqs, N) /\ f[N] = flatten[N]
        <3>1. f[0] = <<>> /\ f[N] = flatten[N]
            BY <2>2
        <3> HIDE DEF f
        <3>2. QED
            BY <2>5, <3>1 DEF Joins
    <2> HIDE DEF f
    <2>7. QED
        BY <2>1, <2>6 DEF N
<1>3. QED
    BY <1>1, <1>2

\* Equal sequences join to equal ones.
LEMMA JoinsAgree ==
    ASSUME NEW f, NEW g, NEW ss, NEW ts, NEW n \in Nat,
           Joins(f, ss, n), Joins(g, ts, n), \A i \in 1..n : ss[i] = ts[i]
    PROVE  f[n] = g[n]
<1> DEFINE S == {m \in Nat : m <= n => f[m] = g[m]}
<1>1. 0 \in S
    BY DEF Joins
<1>2. ASSUME NEW m \in Nat, m \in S
      PROVE  m + 1 \in S
    <2>1. CASE m + 1 <= n
        <3>1. f[m + 1] = f[m] \o ss[m + 1] /\ g[m + 1] = g[m] \o ts[m + 1]
            BY <2>1, NextJoin
        <3>2. f[m] = g[m] /\ ss[m + 1] = ts[m + 1]
            BY <1>2, <2>1
        <3>3. f[m + 1] = g[m + 1]
            BY ONLY <3>1, <3>2
        <3>4. QED
            BY <3>3
    <2>2. QED
        BY <2>1
<1> HIDE DEF S
<1>3. n \in S
    BY <1>1, <1>2, Inductive
<1>4. QED
    BY <1>3 DEF S

\* Joined sequences are over the set that each of them is over.
LEMMA JoinsType ==
    ASSUME NEW X, NEW f, NEW seqs, NEW n \in Nat, Joins(f, seqs, n),
           \A i \in 1..n : seqs[i] \in Seq(X)
    PROVE  \A i \in 0..n : f[i] \in Seq(X)
<1> DEFINE S == {m \in Nat : m <= n => f[m] \in Seq(X)}
<1>1. 0 \in S
    <2>1. f[0] = <<>> /\ <<>> \in Seq(X)
        BY DEF Joins
    <2>2. QED
        BY <2>1
<1>2. ASSUME NEW m \in Nat, m \in S
      PROVE  m + 1 \in S
    <2>1. CASE m + 1 <= n
        <3>1. f[m + 1] = f[m] \o seqs[m + 1]
            BY <2>1, NextJoin
        <3>2. f[m] \in Seq(X) /\ seqs[m + 1] \in Seq(X)
            BY <1>2, <2>1
        <3>3. f[m + 1] \in Seq(X)
            BY <3>1, <3>2
        <3>4. QED
            BY <3>3
    <2>2. QED
        BY <2>1
<1> HIDE DEF S
<1>3. \A m \in Nat : m \in S
    BY <1>1, <1>2, Inductive
<1>4. QED
    BY <1>3 DEF S

\* So is the sequence of sequences, flattened.
LEMMA FlattenType ==
    ASSUME NEW X, NEW seqs \in Seq(Seq(X))
    PROVE  FlattenSeq(seqs) \in Seq(X)
<1>1. PICK f : Joins(f, seqs, Len(seqs)) /\ FlattenSeq(seqs) = f[Len(seqs)]
    BY FlattenJoins
<1>2. Len(seqs) \in Nat /\ \A i \in 1..Len(seqs) : seqs[i] \in Seq(X)
    OBVIOUS
<1>3. \A i \in 0..Len(seqs) : f[i] \in Seq(X)
    BY <1>1, <1>2, JoinsType
<1>4. QED
    BY <1>1, <1>2, <1>3

\* One more sequence is joined at the end.
LEMMA FlattenOfAppend ==
    ASSUME NEW X, NEW seqs \in Seq(Seq(X)), NEW s \in Seq(X)
    PROVE  FlattenSeq(Append(seqs, s)) = FlattenSeq(seqs) \o s
<1> DEFINE more == Append(seqs, s)
           n == Len(seqs)
<1>1. /\ n \in Nat /\ more \in Seq(Seq(X)) /\ Len(more) = n + 1
      /\ more[n + 1] = s /\ \A i \in 1..n : seqs[i] = more[i]
    OBVIOUS
<1>2. PICK f : Joins(f, seqs, n) /\ FlattenSeq(seqs) = f[n]
    BY FlattenJoins
<1> HIDE DEF more, n
<1>3. PICK g : Joins(g, more, n + 1) /\ FlattenSeq(more) = g[n + 1]
    <2>1. \E g : Joins(g, more, Len(more)) /\ FlattenSeq(more) = g[Len(more)]
        BY <1>1, FlattenJoins
    <2>2. QED
        BY <1>1, <2>1
<1>4. Joins(g, more, n)
    <2>1. g[0] = <<>> /\ \A i \in 1..(n + 1) : g[i] = g[i - 1] \o more[i]
        BY <1>3 DEF Joins
    <2>2. \A i \in 1..n : g[i] = g[i - 1] \o more[i]
        <3>1. 1..n \subseteq 1..(n + 1)
            BY <1>1
        <3>2. QED
            BY ONLY <2>1, <3>1
    <2>3. QED
        BY <2>1, <2>2 DEF Joins
<1>5. f[n] = g[n]
    BY <1>1, <1>2, <1>4, JoinsAgree
<1>6. g[n + 1] = g[n] \o more[n + 1]
    <2>1. Joins(g, more, n + 1) /\ n + 1 \in Nat /\ n \in Nat /\ n + 1 <= n + 1
        BY <1>1, <1>3
    <2>2. QED
        BY ONLY <2>1, NextJoin
<1>7. QED
    BY <1>1, <1>2, <1>3, <1>5, <1>6 DEF more, n

-----------------------------------------------------------------------------
(* The order of versions.                                                  *)

\* No text is before itself.
LEMMA TextIrreflexive ==
    ASSUME NEW s \in Seq(Int)
    PROVE  ~TextBefore(s, s)
BY DEF TextBefore

\* What is before a text is before what that text is before.
LEMMA TextTransitive ==
    ASSUME NEW s \in Seq(Int), NEW t \in Seq(Int), NEW u \in Seq(Int),
           TextBefore(s, t), TextBefore(t, u)
    PROVE  TextBefore(s, u)
<1>1. PICK i \in DOMAIN t : /\ \A j \in 1..(i - 1) : j \in DOMAIN s /\ s[j] = t[j]
                            /\ i \in DOMAIN s => s[i] < t[i]
    BY DEF TextBefore
<1>2. PICK k \in DOMAIN u : /\ \A j \in 1..(k - 1) : j \in DOMAIN t /\ t[j] = u[j]
                            /\ k \in DOMAIN t => t[k] < u[k]
    BY DEF TextBefore
<1>3. /\ i \in 1..Len(t) /\ k \in 1..Len(u) /\ Len(s) \in Nat /\ Len(t) \in Nat /\ Len(u) \in Nat
      /\ DOMAIN s = 1..Len(s) /\ DOMAIN t = 1..Len(t) /\ DOMAIN u = 1..Len(u)
    OBVIOUS
<1>4. CASE i <= k
    <2>1. i \in DOMAIN u /\ \A j \in 1..(i - 1) : j \in 1..(k - 1)
        BY <1>3, <1>4
    <2>2. \A j \in 1..(i - 1) : j \in DOMAIN s /\ s[j] = u[j]
        BY <1>1, <1>2, <2>1
    <2>3. i \in DOMAIN s => s[i] < u[i]
        <3> HAVE i \in DOMAIN s
        <3>1. s[i] < t[i] /\ s[i] \in Int /\ t[i] \in Int /\ u[i] \in Int
            BY <1>1, <2>1
        <3>2. t[i] = u[i] \/ t[i] < u[i]
            <4>1. CASE i = k
                BY <1>2, <1>3, <4>1
            <4>2. CASE i # k
                <5>1. i \in 1..(k - 1)
                    BY <1>3, <1>4, <4>2
                <5>2. QED
                    BY <1>2, <5>1
            <4>3. QED
                BY <4>1, <4>2
        <3>3. QED
            BY <3>1, <3>2
    <2>4. QED
        BY <2>1, <2>2, <2>3 DEF TextBefore
<1>5. CASE k < i
    <2>1. k \in DOMAIN t /\ k \in 1..(i - 1) /\ \A j \in 1..(k - 1) : j \in 1..(i - 1)
        BY <1>3, <1>5
    <2>2. \A j \in 1..(k - 1) : j \in DOMAIN s /\ s[j] = u[j]
        BY <1>1, <1>2, <2>1
    <2>3. s[k] = t[k] /\ t[k] < u[k]
        BY <1>1, <1>2, <2>1
    <2>4. QED
        BY <2>2, <2>3 DEF TextBefore
<1>6. QED
    BY <1>3, <1>4, <1>5

\* Of two texts one is before the other.
LEMMA TextTotal ==
    ASSUME NEW s \in Seq(Int), NEW t \in Seq(Int)
    PROVE  s = t \/ TextBefore(s, t) \/ TextBefore(t, s)
<1> DEFINE D == {i \in Nat : ~(i \in DOMAIN s /\ i \in DOMAIN t /\ s[i] = t[i]) /\ i >= 1}
<1>1. /\ Len(s) \in Nat /\ Len(t) \in Nat /\ DOMAIN s = 1..Len(s) /\ DOMAIN t = 1..Len(t)
      /\ \A i \in DOMAIN s : s[i] \in Int
      /\ \A i \in DOMAIN t : t[i] \in Int
    OBVIOUS
<1>2. Len(s) + 1 \in D
    BY <1>1
<1>3. PICK i \in D : \A j \in D : i <= j
    <2>1. D # {} /\ D \subseteq Nat
        BY <1>2
    <2> HIDE DEF D
    <2>2. QED
        BY <2>1, Least
<1>4. /\ i \in Nat /\ i >= 1
      /\ ~(i \in DOMAIN s /\ i \in DOMAIN t /\ s[i] = t[i])
    BY <1>3
<1>5. \A j \in 1..(i - 1) : j \in DOMAIN s /\ j \in DOMAIN t /\ s[j] = t[j]
    <2> TAKE j \in 1..(i - 1)
    <2>1. j \in Nat /\ j >= 1 /\ j < i
        BY <1>4
    <2>2. j \notin D
        BY <1>3, <1>4, <2>1
    <2>3. QED
        BY <2>1, <2>2
<1> HIDE DEF D
<1>6. CASE i \in DOMAIN t /\ (i \in DOMAIN s => s[i] < t[i])
    BY <1>5, <1>6 DEF TextBefore
<1>7. CASE i \in DOMAIN s /\ (i \in DOMAIN t => t[i] < s[i])
    BY <1>5, <1>7 DEF TextBefore
<1>8. CASE i \notin DOMAIN s /\ i \notin DOMAIN t
    <2>1. Len(s) = i - 1 /\ Len(t) = i - 1
        <3>1. i > Len(s) /\ i > Len(t)
            BY <1>1, <1>4, <1>8
        <3>2. CASE i = 1
            BY <1>1, <3>1, <3>2
        <3>3. CASE i > 1
            <4>1. i - 1 \in 1..(i - 1)
                BY <1>4, <3>3
            <4>2. i - 1 <= Len(s) /\ i - 1 <= Len(t)
                BY <1>1, <1>5, <4>1
            <4>3. QED
                BY <1>1, <1>4, <3>1, <4>2
        <3>4. QED
            BY <1>4, <3>2, <3>3
    <2>2. \A j \in 1..Len(s) : s[j] = t[j]
        BY <1>5, <2>1
    <2>3. QED
        BY <1>1, <2>1, <2>2
<1>9. QED
    BY <1>1, <1>4, <1>6, <1>7, <1>8

\* The text of a padded version.
PartText(v, k) == IF k = 1 THEN Widened(v[1]) ELSE <<Dash>> \o Widened(v[k])

\* A part is padded with digits, to the width of all.
LEMMA WidenedType ==
    ASSUME NEW part \in Seq(0..9)
    PROVE  /\ Widened(part) \in Seq(0..9)
           /\ Len(part) <= Width => Len(Widened(part)) = Width
<1>1. Len(part) \in Nat /\ Width \in Nat
    BY WidthType
<1> DEFINE z == [i \in 1..(Width - Len(part)) |-> 0]
<1>2. CASE Len(part) <= Width
    <2>1. Width - Len(part) \in Nat
        BY <1>1, <1>2
    <2>2. z \in Seq(0..9) /\ Len(z) = Width - Len(part)
        BY <2>1
    <2> HIDE DEF z
    <2>3. z \o part \in Seq(0..9) /\ Len(z \o part) = Len(z) + Len(part)
        BY <2>2
    <2>4. Len(z \o part) = Width
        BY <1>1, <2>2, <2>3
    <2>5. QED
        BY <2>3, <2>4 DEF Widened, z
<1>3. CASE ~(Len(part) <= Width)
    <2>1. 1..(Width - Len(part)) = 1..0
        BY <1>1, <1>3
    <2>2. z = <<>>
        BY <2>1
    <2> HIDE DEF z
    <2>3. z \o part = part
        BY <2>2
    <2>4. QED
        BY <1>3, <2>3 DEF Widened, z
<1>4. QED
    BY <1>2, <1>3

\* The text of a part is a text.
LEMMA PartTextType ==
    ASSUME NEW v \in Seq(Seq(0..9)), NEW k \in DOMAIN v
    PROVE  PartText(v, k) \in Seq(Int)
<1>1. v[k] \in Seq(0..9) /\ Len(v) \in Nat /\ k \in 1..Len(v)
    OBVIOUS
<1>2. 1 \in DOMAIN v
    BY <1>1
<1>3. v[1] \in Seq(0..9)
    BY <1>2
<1>4. Widened(v[k]) \in Seq(Int) /\ Widened(v[1]) \in Seq(Int)
    <2>1. Widened(v[k]) \in Seq(0..9) /\ Widened(v[1]) \in Seq(0..9)
        BY <1>1, <1>3, WidenedType
    <2>2. QED
        BY <2>1, DigitsAreNumbers
<1>5. <<Dash>> \in Seq(Int)
    BY DEF Dash
<1>6. <<Dash>> \o Widened(v[k]) \in Seq(Int)
    BY <1>4, <1>5
<1>7. QED
    BY <1>4, <1>6 DEF PartText

\* f[k] is the text of the first k parts of v, padded.
Pads(f, v) ==
    /\ f[0] = <<>>
    /\ \A k \in 0..(Len(v) - 1) : f[k + 1] = f[k] \o PartText(v, k + 1)
    /\ \A k \in 0..Len(v) : f[k] \in Seq(Int)
    /\ PadVersion(v) = f[Len(v)]

\* The text of a version exists: what its recursive definition needs.
LEMMA PadVersionJoins ==
    ASSUME NEW v \in Seq(Seq(0..9))
    PROVE  \E f : Pads(f, v)
<1> DEFINE n == Len(v)
           seqs == [k \in 1..n |-> PartText(v, k)]
<1>1. n \in Nat /\ DOMAIN v = 1..n
    OBVIOUS
<1>2. \A k \in 1..n : PartText(v, k) \in Seq(Int)
    BY <1>1, PartTextType
<1>3. seqs \in Seq(Seq(Int)) /\ Len(seqs) = n
    <2> HIDE DEF n
    <2>1. QED
        BY <1>1, <1>2
<1>4. PadVersion(v) = FlattenSeq(seqs)
    BY <1>1 DEF PadVersion, PartText
<1> HIDE DEF n
<1>5. PICK f : Joins(f, seqs, n) /\ FlattenSeq(seqs) = f[n]
    <2> HIDE DEF seqs
    <2>1. QED
        BY <1>3, FlattenJoins
<1>6. \A k \in 0..(n - 1) : f[k + 1] = f[k] \o PartText(v, k + 1)
    <2> TAKE k \in 0..(n - 1)
    <2>1. k \in Nat /\ k + 1 <= n /\ k + 1 \in 1..n
        BY <1>1
    <2>2. seqs[k + 1] = PartText(v, k + 1)
        BY <2>1
    <2> HIDE DEF seqs
    <2>3. f[k + 1] = f[k] \o seqs[k + 1]
        BY <1>1, <1>5, <2>1, NextJoin
    <2>4. QED
        BY <2>2, <2>3
<1>7. \A k \in 1..n : seqs[k] \in Seq(Int)
    BY <1>2
<1> HIDE DEF seqs
<1>8. \A k \in 0..n : f[k] \in Seq(Int)
    BY <1>1, <1>5, <1>7, JoinsType
<1>9. f[0] = <<>>
    BY <1>5 DEF Joins
<1>10. QED
    BY <1>4, <1>5, <1>6, <1>8, <1>9 DEF n, Pads

\* A padded version is a text.
LEMMA PadVersionType ==
    ASSUME NEW v \in Seq(Seq(0..9))
    PROVE  PadVersion(v) \in Seq(Int)
<1>1. PICK f : (\A k \in 0..Len(v) : f[k] \in Seq(Int)) /\ PadVersion(v) = f[Len(v)]
    BY PadVersionJoins DEF Pads
<1>2. Len(v) \in 0..Len(v)
    OBVIOUS
<1>3. QED
    BY <1>1, <1>2

\* Versions are weakly ordered, whatever their parts.
LEMMA OlderIsOrder ==
    ASSUME NEW a \in Version, NEW b \in Version, NEW c \in Version
    PROVE  /\ ~Older(a, a)
           /\ Older(a, b) => ~Older(b, a)
           /\ Older(a, c) => Older(a, b) \/ Older(b, c)
<1> DEFINE s == PadVersion(a)
           t == PadVersion(b)
           u == PadVersion(c)
<1>1. s \in Seq(Int) /\ t \in Seq(Int) /\ u \in Seq(Int)
    BY VersionType, PadVersionType
<1> HIDE DEF s, t, u
<1>2. ~TextBefore(s, s)
    BY <1>1, TextIrreflexive
<1>3. TextBefore(s, t) => ~TextBefore(t, s)
    BY <1>1, <1>2, TextTransitive
<1>4. TextBefore(s, u) => TextBefore(s, t) \/ TextBefore(t, u)
    BY <1>1, TextTransitive, TextTotal
<1>5. QED
    BY <1>2, <1>3, <1>4 DEF Older, s, t, u

\* Texts that begin alike are compared by the rest.
LEMMA TextOfJoined ==
    ASSUME NEW s \in Seq(Int), NEW t \in Seq(Int), Len(s) = Len(t),
           NEW p \in Seq(Int), NEW q \in Seq(Int)
    PROVE  /\ s \o p = t \o q <=> s = t /\ p = q
           /\ TextBefore(s \o p, t \o q) <=> TextBefore(s, t) \/ (s = t /\ TextBefore(p, q))
<1>a. /\ Len(s) \in Nat /\ Len(p) \in Nat /\ Len(s \o p) = Len(s) + Len(p)
      /\ DOMAIN (s \o p) = 1..(Len(s) + Len(p))
      /\ \A i \in 1..Len(s) : (s \o p)[i] = s[i]
      /\ \A i \in 1..Len(p) : (s \o p)[Len(s) + i] = p[i]
    <2>1. Len(s) \in Nat /\ Len(p) \in Nat /\ Len(s \o p) = Len(s) + Len(p)
        BY Joined
    <2>2. DOMAIN (s \o p) = 1..(Len(s) + Len(p))
        BY Joined
    <2>3. \A i \in 1..Len(s) : (s \o p)[i] = s[i]
        BY Joined
    <2>4. \A i \in 1..Len(p) : (s \o p)[Len(s) + i] = p[i]
        BY Joined
    <2>5. QED
        BY <2>1, <2>2, <2>3, <2>4
<1>b. /\ Len(t) \in Nat /\ Len(q) \in Nat /\ Len(t \o q) = Len(t) + Len(q)
      /\ DOMAIN (t \o q) = 1..(Len(t) + Len(q))
      /\ \A i \in 1..Len(t) : (t \o q)[i] = t[i]
      /\ \A i \in 1..Len(q) : (t \o q)[Len(t) + i] = q[i]
    <2>1. Len(t) \in Nat /\ Len(q) \in Nat /\ Len(t \o q) = Len(t) + Len(q)
        BY Joined
    <2>2. DOMAIN (t \o q) = 1..(Len(t) + Len(q))
        BY Joined
    <2>3. \A i \in 1..Len(t) : (t \o q)[i] = t[i]
        BY Joined
    <2>4. \A i \in 1..Len(q) : (t \o q)[Len(t) + i] = q[i]
        BY Joined
    <2>5. QED
        BY <2>1, <2>2, <2>3, <2>4
<1> DEFINE x == s \o p
           y == t \o q
           n == Len(s)
<1>c. Len(t) = n /\ Len(x) = n + Len(p) /\ Len(y) = n + Len(q)
    BY <1>a, <1>b
<1>1. /\ n \in Nat /\ Len(t) = n /\ Len(p) \in Nat /\ Len(q) \in Nat
      /\ DOMAIN s = 1..n /\ DOMAIN t = 1..n /\ DOMAIN p = 1..Len(p) /\ DOMAIN q = 1..Len(q)
      /\ DOMAIN x = 1..(n + Len(p)) /\ DOMAIN y = 1..(n + Len(q))
      /\ \A i \in 1..n : x[i] = s[i] /\ y[i] = t[i]
      /\ \A i \in 1..Len(p) : x[n + i] = p[i]
      /\ \A i \in 1..Len(q) : y[n + i] = q[i]
    <2>1. DOMAIN s = 1..n /\ DOMAIN t = 1..n /\ DOMAIN p = 1..Len(p) /\ DOMAIN q = 1..Len(q)
        OBVIOUS
    <2>2. QED
        BY <1>a, <1>b, <1>c, <2>1
<1>2. s = t <=> \A i \in 1..n : s[i] = t[i]
    BY SameSequence
<1>3. x = y <=> s = t /\ p = q
    <2>1. ASSUME x = y
          PROVE  s = t /\ p = q
        <3>1. \A i \in 1..n : s[i] = t[i]
            BY <1>1, <2>1
        <3>2. Len(x) = n + Len(p) /\ Len(y) = n + Len(q)
            BY <1>c
        <3> HIDE DEF x, y, n
        <3>3. Len(p) = Len(q)
            <4>1. n + Len(p) = n + Len(q)
                BY <2>1, <3>2
            <4>2. n \in Nat /\ Len(p) \in Nat /\ Len(q) \in Nat
                BY <1>1
            <4>3. QED
                BY ONLY <4>1, <4>2
        <3> HIDE DEF x, y, n
        <3>4. \A i \in 1..Len(p) : p[i] = q[i]
            BY <1>1, <2>1, <3>3
        <3>5. p = q
            BY <3>3, <3>4, SameSequence
        <3>6. QED
            BY <1>2, <3>1, <3>5
    <2>2. QED
        BY <2>1
<1> HIDE DEF x, y, n
<1>4. ASSUME TextBefore(x, y)
      PROVE  TextBefore(s, t) \/ (s = t /\ TextBefore(p, q))
    <2>1. PICK i \in DOMAIN y : /\ \A j \in 1..(i - 1) : j \in DOMAIN x /\ x[j] = y[j]
                                /\ i \in DOMAIN x => x[i] < y[i]
        BY <1>4 DEF TextBefore
    <2>2. i \in Nat /\ i >= 1 /\ i <= n + Len(q)
        BY <1>1, <2>1
    <2>3. CASE i <= n
        <3>1. i \in DOMAIN t /\ i \in DOMAIN x /\ i \in 1..n
            BY <1>1, <2>2, <2>3
        <3>2. s[i] < t[i]
            BY <1>1, <2>1, <3>1
        <3>3. \A j \in 1..(i - 1) : j \in 1..n
            BY <1>1, <2>2, <2>3
        <3>4. \A j \in 1..(i - 1) : j \in DOMAIN s /\ s[j] = t[j]
            BY <1>1, <2>1, <3>3
        <3>5. QED
            BY <3>1, <3>2, <3>4 DEF TextBefore
    <2>4. CASE i > n
        <3> DEFINE k == i - n
        <3>1. k \in 1..Len(q) /\ n + k = i /\ k \in DOMAIN q /\ k \in Nat
            BY <1>1, <2>2, <2>4
        <3>2. \A j \in 1..n : j \in 1..(i - 1)
            BY <1>1, <2>2, <2>4
        <3>3. \A j \in 1..n : s[j] = t[j]
            BY <1>1, <2>1, <3>2
        <3>4. \A j \in 1..(k - 1) : n + j \in 1..(i - 1) /\ j \in 1..Len(q)
            BY <1>1, <2>2, <2>4
        <3>5. ASSUME NEW j \in 1..(k - 1)
              PROVE  j \in DOMAIN p /\ p[j] = q[j]
            <4>1. n + j \in DOMAIN x /\ x[n + j] = y[n + j]
                BY <2>1, <3>4
            <4>2. j \in 1..Len(p)
                BY <1>1, <4>1
            <4>3. p[j] = q[j]
                BY <1>1, <3>4, <4>1, <4>2
            <4>4. QED
                BY <1>1, <4>2, <4>3
        <3> HIDE DEF k
        <3>6. ASSUME k \in DOMAIN p
              PROVE  p[k] < q[k]
            <4>1. k \in 1..Len(p)
                BY <1>1, <3>6
            <4>2. n + k \in DOMAIN x
                BY <1>1, <4>1
            <4>3. x[i] < y[i]
                BY <2>1, <3>1, <4>2
            <4>4. x[n + k] = p[k] /\ y[n + k] = q[k]
                BY <1>1, <3>1, <4>1
            <4>5. QED
                BY <3>1, <4>3, <4>4
        <3>7. TextBefore(p, q)
            BY <3>1, <3>5, <3>6 DEF TextBefore
        <3>8. QED
            BY <1>2, <3>3, <3>7
    <2>5. QED
        BY <1>1, <2>2, <2>3, <2>4
<1>5. ASSUME TextBefore(s, t)
      PROVE  TextBefore(x, y)
    <2>1. PICK i \in DOMAIN t : /\ \A j \in 1..(i - 1) : j \in DOMAIN s /\ s[j] = t[j]
                                /\ i \in DOMAIN s => s[i] < t[i]
        BY <1>5 DEF TextBefore
    <2>2. i \in 1..n /\ i \in DOMAIN y /\ i \in DOMAIN x
        BY <1>1
    <2>3. x[i] < y[i]
        BY <1>1, <2>1, <2>2
    <2>4. \A j \in 1..(i - 1) : j \in 1..n
        BY <1>1, <2>2
    <2>5. \A j \in 1..(i - 1) : j \in DOMAIN x /\ x[j] = y[j]
        <3>1. \A j \in 1..n : j \in DOMAIN x
            BY <1>1
        <3>2. QED
            BY <1>1, <2>1, <2>4, <3>1
    <2>6. QED
        BY <2>2, <2>3, <2>5 DEF TextBefore
<1>6. ASSUME s = t, TextBefore(p, q)
      PROVE  TextBefore(x, y)
    <2>1. PICK i \in DOMAIN q : /\ \A j \in 1..(i - 1) : j \in DOMAIN p /\ p[j] = q[j]
                                /\ i \in DOMAIN p => p[i] < q[i]
        BY <1>6 DEF TextBefore
    <2>2. i \in 1..Len(q) /\ n + i \in DOMAIN y
        BY <1>1
    <2>3. ASSUME n + i \in DOMAIN x
          PROVE  x[n + i] < y[n + i]
        <3>1. i \in 1..Len(p)
            BY <1>1, <2>2, <2>3
        <3>2. p[i] < q[i]
            BY <1>1, <2>1, <3>1
        <3>3. QED
            BY <1>1, <2>2, <3>1, <3>2
    <2>4. ASSUME NEW j \in 1..(n + i - 1)
          PROVE  j \in DOMAIN x /\ x[j] = y[j]
        <3>1. CASE j <= n
            <4>1. j \in 1..n /\ j \in DOMAIN x
                BY <1>1, <2>2, <3>1
            <4>2. x[j] = s[j] /\ y[j] = t[j]
                BY <1>1, <4>1
            <4>3. QED
                BY <1>6, <4>1, <4>2
        <3>2. CASE j > n
            <4> DEFINE k == j - n
            <4>1. k \in 1..(i - 1) /\ k \in Nat /\ n + k = j /\ k \in 1..Len(q)
                BY <1>1, <2>2, <3>2
            <4> HIDE DEF k
            <4>2. k \in 1..Len(p) /\ p[k] = q[k]
                BY <1>1, <2>1, <4>1
            <4>3. x[n + k] = y[n + k]
                BY <1>1, <4>1, <4>2
            <4>4. n + k \in DOMAIN x
                BY <1>1, <4>2
            <4>5. QED
                BY <4>1, <4>3, <4>4
        <3>3. QED
            BY <1>1, <2>2, <3>1, <3>2
    <2>5. \A j \in 1..(n + i - 1) : j \in DOMAIN x /\ x[j] = y[j]
        BY <2>4
    <2>6. \A j \in 1..((n + i) - 1) : j \in DOMAIN x /\ x[j] = y[j]
        <3>1. (n + i) - 1 = n + i - 1
            BY <1>1, <2>2
        <3>2. QED
            BY <2>5, <3>1
    <2>7. QED
        BY ONLY <2>2, <2>3, <2>6 DEF TextBefore
<1>7. QED
    BY <1>3, <1>4, <1>5, <1>6 DEF x, y

\* A part no wider than the code assumes spells its number when it is padded, too,
LEMMA WidenedSpells ==
    ASSUME NEW part \in Seq(0..9), Len(part) <= Width
    PROVE  Number(Widened(part)) = Number(part)
<1>1. Len(part) \in Nat /\ Width \in Nat /\ Width - Len(part) \in Nat
    BY WidthType
<1>2. part \in Seq(Nat)
    BY DigitsAreNumbers
<1>3. Value([i \in 1..(Width - Len(part)) |-> 0] \o part, 10) = Value(part, 10)
    BY <1>1, <1>2, ValueOfZeros
<1>4. QED
    BY <1>3 DEF Number, Widened

\* and such parts are compared as the numbers they spell,
LEMMA PartsCompare ==
    ASSUME NEW p \in Seq(0..9), NEW q \in Seq(0..9), Len(p) <= Width, Len(q) <= Width
    PROVE  /\ Widened(p) = Widened(q) <=> Number(p) = Number(q)
           /\ TextBefore(Widened(p), Widened(q)) <=> Number(p) < Number(q)
<1> DEFINE s == Widened(p)
           t == Widened(q)
<1>1. s \in Seq(0..9) /\ t \in Seq(0..9) /\ Len(s) = Width /\ Len(t) = Width
    BY WidenedType
<1>2. Number(p) = Value(s, 10) /\ Number(q) = Value(t, 10)
    BY WidenedSpells DEF Number
<1> HIDE DEF s, t
<1>3. Width \in Nat /\ DOMAIN s = 1..Width /\ DOMAIN t = 1..Width
    BY <1>1, WidthType
<1>4. /\ Value(s, 10) = Value(t, 10) <=> s = t
      /\ Value(s, 10) < Value(t, 10)
            <=> \E i \in 1..Width : s[i] < t[i] /\ \A j \in 1..(i - 1) : s[j] = t[j]
    <2>1. /\ Value(s, 10) = Value(t, 10) <=> s = t
          /\ Value(s, 10) < Value(t, 10)
                <=> \E i \in 1..Len(s) : s[i] < t[i] /\ \A j \in 1..(i - 1) : s[j] = t[j]
        <3>1. Len(s) = Len(t)
            BY <1>1
        <3>2. QED
            BY <1>1, <3>1, ValuesCompare
    <2>2. QED
        BY <1>1, <2>1
<1>5. TextBefore(s, t) <=> \E i \in 1..Width : s[i] < t[i] /\ \A j \in 1..(i - 1) : s[j] = t[j]
    <2>1. \A i \in 1..Width : \A j \in 1..(i - 1) : j \in 1..Width
        BY <1>3
    <2>2. TextBefore(s, t) <=>
             \E i \in 1..Width : /\ \A j \in 1..(i - 1) : j \in 1..Width /\ s[j] = t[j]
                                 /\ i \in 1..Width => s[i] < t[i]
        BY <1>3 DEF TextBefore
    <2>3. QED
        BY <2>1, <2>2
<1>6. QED
    BY <1>2, <1>4, <1>5 DEF s, t

Narrow(v) == v \in Seq(Seq(0..9)) /\ \A k \in DOMAIN v : Len(v[k]) <= Width

\* So are the texts of two parts in one place, dash included.
LEMMA PartTextsCompare ==
    ASSUME NEW a, NEW b, Narrow(a), Narrow(b), NEW k \in DOMAIN a, k \in DOMAIN b
    PROVE  /\ Len(PartText(a, k)) = Len(PartText(b, k))
           /\ PartText(a, k) = PartText(b, k) <=> Number(a[k]) = Number(b[k])
           /\ TextBefore(PartText(a, k), PartText(b, k)) <=> Number(a[k]) < Number(b[k])
<1>1. /\ a[k] \in Seq(0..9) /\ b[k] \in Seq(0..9)
      /\ Len(a[k]) <= Width /\ Len(b[k]) <= Width
    BY DEF Narrow
<1> DEFINE s == Widened(a[k])
           t == Widened(b[k])
<1>2. /\ s = t <=> Number(a[k]) = Number(b[k])
      /\ TextBefore(s, t) <=> Number(a[k]) < Number(b[k])
    BY <1>1, PartsCompare
<1>3. s \in Seq(Int) /\ t \in Seq(Int) /\ Len(s) = Width /\ Len(t) = Width
    <2>1. s \in Seq(0..9) /\ t \in Seq(0..9) /\ Len(s) = Width /\ Len(t) = Width
        BY <1>1, WidenedType
    <2> HIDE DEF s, t
    <2>2. QED
        BY <2>1, DigitsAreNumbers
<1>4. CASE k = 1
    <2>1. PartText(a, k) = s /\ PartText(b, k) = t
        BY <1>4 DEF PartText
    <2> HIDE DEF s, t
    <2>2. QED
        BY <1>2, <1>3, <2>1
<1>5. CASE k # 1
    <2>1. PartText(a, k) = <<Dash>> \o s /\ PartText(b, k) = <<Dash>> \o t
        BY <1>5 DEF PartText
    <2> HIDE DEF s, t
    <2>2. <<Dash>> \in Seq(Int) /\ Len(<<Dash>>) = 1
        BY DEF Dash
    <2>3. Len(<<Dash>> \o s) = 1 + Width /\ Len(<<Dash>> \o t) = 1 + Width
        BY <1>3, <2>2
    <2>4. ~TextBefore(<<Dash>>, <<Dash>>)
        BY <2>2, TextIrreflexive
    <2> DEFINE d == <<Dash>>
    <2>5. d \in Seq(Int) /\ ~TextBefore(d, d)
        BY <2>2, <2>4
    <2> HIDE DEF d
    <2>6. /\ d \o s = d \o t <=> d = d /\ s = t
          /\ TextBefore(d \o s, d \o t) <=> TextBefore(d, d) \/ (d = d /\ TextBefore(s, t))
        <3>1. s \in Seq(Int) /\ t \in Seq(Int) /\ Len(d) = Len(d)
            BY <1>3
        <3>2. d \o s = d \o t <=> d = d /\ s = t
            <4>1. ASSUME d \o s = d \o t PROVE s = t
                <5>1. Len(s) = Len(t)
                    BY <1>3
                <5>2. \A i \in 1..Len(s) : s[i] = (d \o s)[Len(d) + i]
                    BY ONLY <2>5, <3>1, Joined
                <5>3. \A i \in 1..Len(t) : t[i] = (d \o t)[Len(d) + i]
                    BY ONLY <2>5, <3>1, Joined
                <5>4. \A i \in 1..Len(s) : s[i] = t[i]
                    BY ONLY <4>1, <5>1, <5>2, <5>3
                <5>5. QED
                    BY ONLY <3>1, <5>1, <5>4, SameSequence
            <4>2. QED
                BY ONLY <4>1
        <3>3. TextBefore(d \o s, d \o t) <=> TextBefore(d, d) \/ (d = d /\ TextBefore(s, t))
            BY ONLY <2>5, <3>1, TextOfJoined
        <3>4. QED
            BY ONLY <3>2, <3>3
    <2>7. /\ d \o s = d \o t <=> s = t
          /\ TextBefore(d \o s, d \o t) <=> TextBefore(s, t)
        BY ONLY <2>5, <2>6
    <2>8. QED
        BY <1>2, <2>1, <2>3, <2>7 DEF d
<1>6. QED
    BY <1>4, <1>5

\* and so are the versions they make up.
LEMMA TextsCompare ==
    ASSUME NEW a, NEW b, Narrow(a), Narrow(b), NEW f, NEW g, Pads(f, a), Pads(g, b),
           NEW n \in Nat, n <= Len(a), n <= Len(b)
    PROVE  /\ Len(f[n]) = Len(g[n])
           /\ f[n] = g[n] <=> \A i \in 1..n : Number(a[i]) = Number(b[i])
           /\ TextBefore(f[n], g[n]) <=>
                \E i \in 1..n : /\ Number(a[i]) < Number(b[i])
                                /\ \A j \in 1..(i - 1) : Number(a[j]) = Number(b[j])
<1>c. ~TextBefore(<<>>, <<>>)
    <2>1. <<>> \in Seq(Int)
        OBVIOUS
    <2>2. QED
        BY <2>1, TextIrreflexive
<1> DEFINE Same(m) == \A i \in 1..m : Number(a[i]) = Number(b[i])
           Before(m) == \E i \in 1..m : /\ Number(a[i]) < Number(b[i])
                                        /\ \A j \in 1..(i - 1) : Number(a[j]) = Number(b[j])
           Holds(m) == /\ Len(f[m]) = Len(g[m])
                       /\ f[m] = g[m] <=> Same(m)
                       /\ TextBefore(f[m], g[m]) <=> Before(m)
           S == {m \in Nat : m <= n => Holds(m)}
<1>1. Len(a) \in Nat /\ Len(b) \in Nat /\ DOMAIN a = 1..Len(a) /\ DOMAIN b = 1..Len(b)
    BY DEF Narrow
<1>a. /\ f[0] = <<>>
      /\ \A k \in 0..(Len(a) - 1) : f[k + 1] = f[k] \o PartText(a, k + 1)
      /\ \A k \in 0..Len(a) : f[k] \in Seq(Int)
    BY DEF Pads
<1>b. /\ g[0] = <<>>
      /\ \A k \in 0..(Len(b) - 1) : g[k + 1] = g[k] \o PartText(b, k + 1)
      /\ \A k \in 0..Len(b) : g[k] \in Seq(Int)
    BY DEF Pads
<1>2. 0 \in S
    <2>2. Same(0) /\ ~Before(0)
        OBVIOUS
    <2> HIDE DEF Same, Before
    <2>3. Holds(0)
        BY <1>a, <1>b, <1>c, <2>2
    <2> HIDE DEF Holds
    <2>4. QED
        BY <2>3
<1>3. ASSUME NEW m \in Nat, m \in S
      PROVE  m + 1 \in S
    <2>1. CASE m + 1 <= n
        <3> DEFINE p == PartText(a, m + 1)
                   q == PartText(b, m + 1)
        <3>1. /\ m \in 0..(Len(a) - 1) /\ m \in 0..(Len(b) - 1)
              /\ m \in 0..Len(a) /\ m \in 0..Len(b)
              /\ m + 1 \in 1..Len(a) /\ m + 1 \in 1..Len(b)
            BY <1>1, <2>1
        <3>2. f[m + 1] = f[m] \o p /\ g[m + 1] = g[m] \o q
            BY <1>a, <1>b, <3>1
        <3>3. f[m] \in Seq(Int) /\ g[m] \in Seq(Int)
            BY <1>a, <1>b, <3>1
        <3>4. p \in Seq(Int) /\ q \in Seq(Int)
            BY <1>1, <3>1, PartTextType DEF Narrow
        <3>5. /\ Len(p) = Len(q)
              /\ p = q <=> Number(a[m + 1]) = Number(b[m + 1])
              /\ TextBefore(p, q) <=> Number(a[m + 1]) < Number(b[m + 1])
            BY <1>1, <3>1, PartTextsCompare
        <3>6. Holds(m)
            BY <1>3, <2>1
        <3> HIDE DEF p, q
        <3>7. /\ f[m] \o p = g[m] \o q <=> f[m] = g[m] /\ p = q
              /\ TextBefore(f[m] \o p, g[m] \o q)
                    <=> TextBefore(f[m], g[m]) \/ (f[m] = g[m] /\ TextBefore(p, q))
            BY <3>3, <3>4, <3>6, TextOfJoined
        <3>8. Len(f[m] \o p) = Len(g[m] \o q)
            <4>1. Len(f[m]) = Len(g[m]) /\ Len(p) = Len(q)
                BY <3>5, <3>6
            <4>2. Len(f[m] \o p) = Len(f[m]) + Len(p)
                BY ONLY <3>3, <3>4, Joined
            <4>3. Len(g[m] \o q) = Len(g[m]) + Len(q)
                BY ONLY <3>3, <3>4, Joined
            <4>4. QED
                BY ONLY <4>1, <4>2, <4>3
        <3>a. 1..(m + 1) = 1..m \cup {m + 1} /\ (m + 1) - 1 = m
            OBVIOUS
        <3>9. Same(m + 1) <=> Same(m) /\ Number(a[m + 1]) = Number(b[m + 1])
            BY ONLY <3>a
        <3>10. Before(m + 1) <=> Before(m) \/ (Same(m) /\ Number(a[m + 1]) < Number(b[m + 1]))
            <4>1. Before(m + 1) <=>
                     \/ Before(m)
                     \/ /\ Number(a[m + 1]) < Number(b[m + 1])
                        /\ \A j \in 1..((m + 1) - 1) : Number(a[j]) = Number(b[j])
                BY ONLY <3>a
            <4>2. QED
                BY ONLY <3>a, <4>1
        <3> HIDE DEF Same, Before
        <3>11. Holds(m + 1)
            BY <3>2, <3>5, <3>6, <3>7, <3>8, <3>9, <3>10
        <3> HIDE DEF Holds
        <3>12. QED
            BY <3>11
    <2> HIDE DEF Holds
    <2>2. QED
        BY <2>1
<1> HIDE DEF S, Holds
<1>4. n \in S
    BY <1>2, <1>3, Inductive
<1>5. Holds(n)
    BY <1>4 DEF S
<1>6. QED
    BY <1>5 DEF Holds

\* Every part adds to the text.
LEMMA PartTextIsNotEmpty ==
    ASSUME NEW a, Narrow(a), NEW k \in DOMAIN a
    PROVE  PartText(a, k) \in Seq(Int) /\ PartText(a, k) # <<>>
<1>1. a \in Seq(Seq(0..9)) /\ a[k] \in Seq(0..9) /\ Len(a[k]) <= Width
    BY DEF Narrow
<1>2. PartText(a, k) \in Seq(Int)
    BY <1>1, PartTextType
<1> DEFINE s == Widened(a[k])
<1>3. s \in Seq(0..9) /\ Len(s) = Width /\ Width \in Nat \ {0}
    BY <1>1, WidenedType, WidthType
<1>4. k = 1 => PartText(a, k) = s
    BY DEF PartText
<1>5. k # 1 => PartText(a, k) = <<Dash>> \o s
    BY DEF PartText
<1> HIDE DEF s
<1>6. <<Dash>> \o s # <<>> /\ s # <<>>
    <2>1. s \in Seq(Int) /\ <<Dash>> \in Seq(Int) /\ Len(<<Dash>>) = 1
        BY <1>3, DigitsAreNumbers DEF Dash
    <2>2. Len(<<Dash>> \o s) = 1 + Width
        BY <1>3, <2>1
    <2>3. Len(<<>>) = 0
        OBVIOUS
    <2>4. Len(<<Dash>> \o s) # 0 /\ Len(s) # 0
        BY <1>3, <2>2
    <2>5. QED
        BY ONLY <2>3, <2>4
<1>7. QED
    BY <1>2, <1>4, <1>5, <1>6

\* The text of a version goes on after that of its first n parts.
LEMMA TextGoesOn ==
    ASSUME NEW a, Narrow(a), NEW f, Pads(f, a), NEW n \in Nat, n <= Len(a)
    PROVE  \E p \in Seq(Int) : f[Len(a)] = f[n] \o p /\ (p = <<>> <=> n = Len(a))
<1>1. /\ Len(a) \in Nat /\ DOMAIN a = 1..Len(a)
      /\ \A k \in 0..(Len(a) - 1) : f[k + 1] = f[k] \o PartText(a, k + 1)
      /\ \A k \in 0..Len(a) : f[k] \in Seq(Int)
    <2>1. Len(a) \in Nat /\ DOMAIN a = 1..Len(a)
        BY DEF Narrow
    <2>2. QED
        BY <2>1 DEF Pads
<1>2. \A x, y, z \in Seq(Int) : (x \o y) \o z = x \o (y \o z)
    BY ONLY Associative
<1> DEFINE Rest(m, p) == f[m] = f[n] \o p /\ (p = <<>> <=> n = m)
           S == {m \in Nat : n <= m /\ m <= Len(a) => \E p \in Seq(Int) : Rest(m, p)}
<1>3. \E p \in Seq(Int) : Rest(n, p)
    <2>1. f[n] \in Seq(Int)
        BY <1>1
    <2>2. f[n] = f[n] \o <<>> /\ <<>> \in Seq(Int)
        BY <2>1
    <2>3. QED
        BY <2>2
<1> HIDE DEF Rest
<1>4. 0 \in S
    <2>1. n <= 0 => n = 0
        OBVIOUS
    <2>2. QED
        BY <1>3, <2>1
<1>5. ASSUME NEW m \in Nat, m \in S
      PROVE  m + 1 \in S
    <2>1. CASE n <= m /\ m + 1 <= Len(a)
        <3>1. m \in 0..(Len(a) - 1) /\ m + 1 \in 1..Len(a) /\ m <= Len(a)
            BY <1>1, <2>1
        <3>2. PICK p \in Seq(Int) : Rest(m, p)
            BY <1>5, <2>1, <3>1
        <3> DEFINE d == PartText(a, m + 1)
        <3>3. f[m + 1] = f[m] \o d
            BY <1>1, <3>1
        <3>4. d \in Seq(Int) /\ d # <<>>
            BY <1>1, <3>1, PartTextIsNotEmpty
        <3> HIDE DEF d
        <3> DEFINE s == f[n]
        <3>5. s \in Seq(Int)
            BY <1>1
        <3>6. f[m] = s \o p
            BY <3>2 DEF Rest
        <3> HIDE DEF s
        <3>a. p \in Seq(Int) /\ d \in Seq(Int)
            BY <3>4
        <3>7. (s \o p) \o d = s \o (p \o d)
            BY ONLY <3>a, <3>5, <1>2
        <3>8. p \o d \in Seq(Int) /\ p \o d # <<>>
            BY ONLY <3>2, <3>4
        <3>9. n # m + 1
            BY <2>1
        <3>10. Rest(m + 1, p \o d)
            BY ONLY <3>3, <3>6, <3>7, <3>8, <3>9 DEF Rest, s
        <3>11. \E r \in Seq(Int) : Rest(m + 1, r)
            BY ONLY <3>8, <3>10
        <3>12. QED
            BY <3>11
    <2>2. CASE n = m + 1
        BY <1>3, <2>2
    <2>3. CASE ~(n <= m + 1) \/ ~(m + 1 <= Len(a))
        BY <2>3
    <2>4. QED
        BY <2>1, <2>2, <2>3
<1> HIDE DEF S
<1>6. Len(a) \in S
    BY <1>1, <1>4, <1>5, Inductive
<1>7. PICK p \in Seq(Int) : Rest(Len(a), p)
    BY <1>1, <1>6 DEF S
<1>8. f[Len(a)] = f[n] \o p /\ (p = <<>> <=> n = Len(a))
    BY <1>7 DEF Rest
<1>9. QED
    BY ONLY <1>8

\* The first parts that differ decide, or else how many there are.
LEMMA NumbersCompare ==
    ASSUME NEW a, NEW b, Narrow(a), Narrow(b), NEW n \in Nat,
           n <= Len(a), n <= Len(b), n = Len(a) \/ n = Len(b)
    PROVE  NumberedBefore(a, b) <=>
              \/ \E i \in 1..n : /\ Number(a[i]) < Number(b[i])
                                 /\ \A j \in 1..(i - 1) : Number(a[j]) = Number(b[j])
              \/ Len(a) < Len(b) /\ \A j \in 1..n : Number(a[j]) = Number(b[j])
<1> DEFINE la == Len(a)
           lb == Len(b)
<1>1. /\ la \in Nat /\ lb \in Nat /\ DOMAIN a = 1..la /\ DOMAIN b = 1..lb
      /\ n \in Nat /\ n <= la /\ n <= lb /\ (n = la \/ n = lb)
    BY DEF Narrow
<1> HIDE DEF la, lb
<1>2. ASSUME NEW i \in DOMAIN b,
             \A j \in 1..(i - 1) : j \in DOMAIN a /\ Number(a[j]) = Number(b[j]),
             i \in DOMAIN a => Number(a[i]) < Number(b[i])
      PROVE  \/ \E k \in 1..n : /\ Number(a[k]) < Number(b[k])
                                /\ \A j \in 1..(k - 1) : Number(a[j]) = Number(b[j])
             \/ la < lb /\ \A j \in 1..n : Number(a[j]) = Number(b[j])
    <2>1. CASE i \in DOMAIN a
        <3>1. i \in 1..n
            BY ONLY <1>1, <2>1
        <3>2. QED
            BY ONLY <1>1, <1>2, <2>1, <3>1
    <2>2. CASE i \notin DOMAIN a
        <3>1. i \in 1..lb /\ i > la
            BY ONLY <1>1, <2>2
        <3>2. n = la /\ la < lb
            BY ONLY <1>1, <3>1
        <3>3. \A j \in 1..n : j \in 1..(i - 1)
            BY ONLY <1>1, <3>1, <3>2
        <3>4. QED
            BY ONLY <1>1, <1>2, <3>2, <3>3
    <2>3. QED
        BY ONLY <1>1, <2>1, <2>2
<1>3. ASSUME NEW k \in 1..n, Number(a[k]) < Number(b[k]),
             \A j \in 1..(k - 1) : Number(a[j]) = Number(b[j])
      PROVE  NumberedBefore(a, b)
    <2>1. k \in DOMAIN b /\ \A j \in 1..(k - 1) : j \in DOMAIN a
        BY ONLY <1>1
    <2>2. QED
        BY ONLY <1>1, <1>3, <2>1 DEF NumberedBefore
<1>4. ASSUME la < lb, \A j \in 1..n : Number(a[j]) = Number(b[j])
      PROVE  NumberedBefore(a, b)
    <2> DEFINE i == la + 1
    <2>1. i \in DOMAIN b /\ i \notin DOMAIN a /\ i - 1 = n /\ 1..n = DOMAIN a
        BY ONLY <1>1, <1>4
    <2> HIDE DEF i
    <2>2. \A j \in 1..(i - 1) : j \in DOMAIN a /\ Number(a[j]) = Number(b[j])
        BY ONLY <1>1, <1>4, <2>1
    <2>3. QED
        BY ONLY <1>1, <2>1, <2>2 DEF NumberedBefore
<1>5. ASSUME NumberedBefore(a, b)
      PROVE  \E i \in DOMAIN b :
                /\ \A j \in 1..(i - 1) : j \in DOMAIN a /\ Number(a[j]) = Number(b[j])
                /\ i \in DOMAIN a => Number(a[i]) < Number(b[i])
    BY <1>5 DEF NumberedBefore
<1>6. QED
    BY <1>2, <1>3, <1>4, <1>5 DEF la, lb

\* Of versions whose parts are no wider than the code assumes, the order of the
\* padded texts is that of the numbers, part by part.
LEMMA PaddedOrderIsNumeric ==
    ASSUME NEW a, NEW b, Narrow(a), Narrow(b)
    PROVE  Older(a, b) <=> NumberedBefore(a, b)
<1> DEFINE n == IF Len(a) <= Len(b) THEN Len(a) ELSE Len(b)
           Same == \A j \in 1..n : Number(a[j]) = Number(b[j])
           Less == \E i \in 1..n : /\ Number(a[i]) < Number(b[i])
                                   /\ \A j \in 1..(i - 1) : Number(a[j]) = Number(b[j])
<1>1. Len(a) \in Nat /\ Len(b) \in Nat /\ a \in Seq(Seq(0..9)) /\ b \in Seq(Seq(0..9))
    BY DEF Narrow
<1>2. n \in Nat /\ n <= Len(a) /\ n <= Len(b) /\ (n = Len(a) \/ n = Len(b))
    BY <1>1
<1>3. NumberedBefore(a, b) <=> Less \/ (Len(a) < Len(b) /\ Same)
    <2> HIDE DEF n
    <2>1. QED
        BY <1>2, NumbersCompare
<1>4. PICK f : Pads(f, a)
    BY <1>1, PadVersionJoins
<1>5. PICK g : Pads(g, b)
    BY <1>1, PadVersionJoins
<1> HIDE DEF n
<1>a. Narrow(a) /\ Narrow(b)
    OBVIOUS
<1>6. /\ Len(f[n]) = Len(g[n])
      /\ f[n] = g[n] <=> Same
      /\ TextBefore(f[n], g[n]) <=> Less
    <2>1. Len(f[n]) = Len(g[n])
        BY ONLY <1>a, <1>2, <1>4, <1>5, TextsCompare
    <2>2. f[n] = g[n] <=> Same
        BY ONLY <1>a, <1>2, <1>4, <1>5, TextsCompare
    <2>3. TextBefore(f[n], g[n]) <=> Less
        BY ONLY <1>a, <1>2, <1>4, <1>5, TextsCompare
    <2>4. QED
        BY <2>1, <2>2, <2>3
<1> HIDE DEF Same, Less
<1>7. PICK p \in Seq(Int) : f[Len(a)] = f[n] \o p /\ (p = <<>> <=> n = Len(a))
    BY ONLY <1>a, <1>2, <1>4, TextGoesOn
<1>8. PICK q \in Seq(Int) : g[Len(b)] = g[n] \o q /\ (q = <<>> <=> n = Len(b))
    BY ONLY <1>a, <1>2, <1>5, TextGoesOn
<1>9. f[n] \in Seq(Int) /\ g[n] \in Seq(Int)
    BY <1>1, <1>2, <1>4, <1>5 DEF Pads
<1>10. TextBefore(f[n] \o p, g[n] \o q)
          <=> TextBefore(f[n], g[n]) \/ (f[n] = g[n] /\ TextBefore(p, q))
    <2> DEFINE s == f[n]
               t == g[n]
    <2>1. s \in Seq(Int) /\ t \in Seq(Int) /\ Len(s) = Len(t) /\ p \in Seq(Int) /\ q \in Seq(Int)
        BY <1>6, <1>9
    <2> HIDE DEF s, t
    <2>2. TextBefore(s \o p, t \o q) <=> TextBefore(s, t) \/ (s = t /\ TextBefore(p, q))
        BY ONLY <2>1, TextOfJoined
    <2>3. QED
        BY ONLY <2>2 DEF s, t
<1>11. TextBefore(p, q) <=> Len(a) < Len(b)
    <2>1. CASE n = Len(a)
        <3>1. p = <<>> /\ (q = <<>> <=> ~(Len(a) < Len(b)))
            BY <1>1, <1>2, <1>7, <1>8, <2>1
        <3>2. TextBefore(<<>>, q) <=> q # <<>>
            <4>1. Len(q) \in Nat /\ DOMAIN q = 1..Len(q) /\ (q = <<>> <=> Len(q) = 0)
                BY <1>8
            <4>2. q # <<>> => 1 \in DOMAIN q
                BY <4>1
            <4>3. DOMAIN <<>> = {} /\ 1..(1 - 1) = {}
                OBVIOUS
            <4>4. q # <<>> => TextBefore(<<>>, q)
                BY ONLY <4>2, <4>3 DEF TextBefore
            <4>5. TextBefore(<<>>, q) => q # <<>>
                BY <4>3 DEF TextBefore
            <4>6. QED
                BY <4>4, <4>5
        <3>3. QED
            BY <3>1, <3>2
    <2>2. CASE n = Len(b)
        <3>1. q = <<>> /\ ~(Len(a) < Len(b))
            BY <1>1, <1>2, <1>8, <2>2
        <3>2. ~TextBefore(p, <<>>)
            BY DEF TextBefore
        <3>3. QED
            BY <3>1, <3>2
    <2>3. QED
        BY <1>2, <2>1, <2>2
<1>12. Older(a, b) <=> TextBefore(f[n] \o p, g[n] \o q)
    BY <1>4, <1>5, <1>7, <1>8 DEF Older, Pads
<1>13. QED
    BY ONLY <1>3, <1>6, <1>10, <1>11, <1>12

\* "What puts build 99 before 523".
THEOREM OrderIsNumericHolds == Spec => []OrderIsNumeric
<1>1. ASSUME NEW v \in BoundedVersions
      PROVE  Narrow(v)
    <2>1. PICK n \in 1..Parts : v \in [1..n -> Part]
        BY DEF BoundedVersions
    <2>2. \A p \in Part : p \in Seq(0..9) /\ Len(p) <= Width
        <3> SUFFICES ASSUME NEW p \in Part
                     PROVE  p \in Seq(0..9) /\ Len(p) <= Width
            OBVIOUS
        <3>1. PICK m \in 0..Width : p \in [1..m -> UsedDigits]
            BY DEF Part
        <3>2. m \in Nat /\ m <= Width
            BY <3>1, WidthType
        <3>3. p \in [1..m -> 0..9]
            BY <3>1, BoundsType
        <3>4. QED
            BY ONLY <3>2, <3>3
    <2>3. v \in [1..n -> Seq(0..9)] /\ n \in Nat
        BY <2>1, <2>2
    <2>4. v \in Seq(Seq(0..9))
        BY <2>3
    <2>5. \A k \in DOMAIN v : v[k] \in Part
        BY <2>1
    <2>6. QED
        BY <2>2, <2>4, <2>5 DEF Narrow
<1>2. OrderIsNumeric
    BY <1>1, PaddedOrderIsNumeric DEF OrderIsNumeric
<1>3. OrderIsNumeric'
    BY <1>1, PaddedOrderIsNumeric DEF OrderIsNumeric
<1>4. QED
    BY <1>2, <1>3, PTL

-----------------------------------------------------------------------------
(* Sorting, keeping and flagging.                                          *)

\* What Kept keeps, in the order it was in.
Picks(at, s, K) ==
    /\ Cardinality(K) \in Nat
    /\ \A n \in 1..Cardinality(K) : at[n] \in K /\ Kept(s, K)[n] = s[at[n]]
    /\ \A m, n \in 1..Cardinality(K) : m < n <=> at[m] < at[n]
    /\ \A k \in K : \E n \in 1..Cardinality(K) : at[n] = k

\* There are such places.
LEMMA KeptPicks ==
    ASSUME NEW X, NEW s \in Seq(X), NEW K, K \subseteq DOMAIN s
    PROVE  \E at : Picks(at, s, K)
<1>1. Len(s) \in Nat /\ DOMAIN s = 1..Len(s)
    OBVIOUS
<1>2. IsFiniteSet(K)
    <2>1. IsFiniteSet(1..Len(s))
        BY <1>1, FS_Interval
    <2>2. QED
        BY <1>1, <2>1, FS_Subset
<1> DEFINE below == [k \in K |-> {j \in K : j < k}]
           at == [n \in 1..Cardinality(K) |->
                     CHOOSE k \in K : 1 + Cardinality({j \in K : j < k}) = n]
<1>3. \A k \in K : k \in Int
    BY <1>1
<1>4. /\ below \in [K -> SUBSET K]
      /\ \A i \in K : i \notin below[i]
      /\ \A i, j \in K : i \in below[j] => below[i] \subseteq below[j]
      /\ \A i, j \in K : i = j \/ i \in below[j] \/ j \in below[i]
      /\ \A i, j \in K : i \in below[j] <=> i < j
    <2>1. below \in [K -> SUBSET K] /\ \A i, j \in K : i \in below[j] <=> i < j
        OBVIOUS
    <2> HIDE DEF below
    <2>2. \A i, j \in K : i \in below[j] => below[i] \subseteq below[j]
        <3> SUFFICES ASSUME NEW i \in K, NEW j \in K, i \in below[j], NEW k \in below[i]
                     PROVE  k \in below[j]
            OBVIOUS
        <3>1. k \in K
            BY <2>1
        <3>2. k < i /\ i < j
            BY <2>1, <3>1
        <3>3. k < j
            BY <1>3, <3>1, <3>2
        <3>4. QED
            BY <2>1, <3>1, <3>3
    <2>3. QED
        BY <1>3, <2>1, <2>2
<1>5. ASSUME NEW n \in 1..Cardinality(K), \E i \in K : 1 + Cardinality(below[i]) = n
      PROVE  at[n] \in K /\ 1 + Cardinality(below[at[n]]) = n
    <2>1. \A k \in K : below[k] = {j \in K : j < k}
        OBVIOUS
    <2>2. \E k \in K : 1 + Cardinality({j \in K : j < k}) = n
        BY <1>5, <2>1
    <2>3. at[n] = CHOOSE k \in K : 1 + Cardinality({j \in K : j < k}) = n
        OBVIOUS
    <2> HIDE DEF at, below
    <2>4. at[n] \in K /\ 1 + Cardinality({j \in K : j < at[n]}) = n
        BY ONLY <2>2, <2>3
    <2>5. QED
        BY ONLY <2>1, <2>4
<1>6. \A n \in 1..Cardinality(K) : Kept(s, K)[n] = s[at[n]]
    BY DEF Kept
<1> HIDE DEF at, below
<1>7. /\ Cardinality(K) \in Nat
      /\ \A n \in 1..Cardinality(K) : at[n] \in K
      /\ \A m, n \in 1..Cardinality(K) : m < n <=> at[m] \in below[at[n]]
      /\ \A i \in K : \E n \in 1..Cardinality(K) : at[n] = i
    BY ONLY <1>2, <1>4, <1>5, Enumerated
<1>8. \A m, n \in 1..Cardinality(K) : m < n <=> at[m] < at[n]
    BY <1>4, <1>7
<1>9. Picks(at, s, K)
    BY <1>6, <1>7, <1>8 DEF Picks
<1>10. QED
    BY <1>9

\* As much is kept as is asked for.
LEMMA KeptType ==
    ASSUME NEW X, NEW s \in Seq(X), NEW K, K \subseteq DOMAIN s
    PROVE  /\ Kept(s, K) \in Seq(X)
           /\ Len(Kept(s, K)) = Cardinality(K)
           /\ Cardinality(K) \in Nat
           /\ Kept(s, K) = <<>> <=> K = {}
<1>1. PICK at : Picks(at, s, K)
    BY KeptPicks
<1>2. /\ Cardinality(K) \in Nat
      /\ \A n \in 1..Cardinality(K) : Kept(s, K)[n] \in X
      /\ \A k \in K : \E n \in 1..Cardinality(K) : at[n] = k
      /\ \A n \in 1..Cardinality(K) : at[n] \in K
    BY <1>1 DEF Picks
<1> DEFINE c == Cardinality(K)
           t == Kept(s, K)
<1>3. t = [n \in 1..c |-> s[CHOOSE k \in K : 1 + Cardinality({j \in K : j < k}) = n]]
    BY DEF Kept
<1>4. DOMAIN t = 1..c
    BY <1>3
<1>5. t = [n \in 1..c |-> t[n]]
    BY <1>3
<1> HIDE DEF t, c
<1>6. t \in Seq(X) /\ Len(t) = c
    BY <1>2, <1>4, <1>5 DEF c, t
<1>7. t = <<>> <=> c = 0
    BY <1>2, <1>6 DEF c
<1>8. c = 0 <=> K = {}
    BY <1>2 DEF c
<1>9. QED
    BY <1>2, <1>6, <1>7, <1>8 DEF c, t

\* FirstOf is the first of what is kept.
LEMMA FirstIs ==
    ASSUME NEW s, NEW K, K \subseteq Nat, K # {}
    PROVE  \E k \in K : FirstOf(s, K) = <<s[k]>> /\ \A j \in K : k <= j
<1>1. \E k \in K : \A j \in K : k <= j
    BY Least
<1> DEFINE k == CHOOSE k \in K : \A j \in K : k <= j
<1>2. k \in K /\ \A j \in K : k <= j
    BY <1>1
<1>3. FirstOf(s, K) = <<s[k]>>
    BY DEF FirstOf
<1> HIDE DEF k
<1>4. QED
    BY <1>2, <1>3

\* What is kept begins with the first of it.
LEMMA FirstKept ==
    ASSUME NEW X, NEW s \in Seq(X), NEW K, K \subseteq DOMAIN s, K # {}
    PROVE  \E k \in K : Kept(s, K)[1] = s[k] /\ \A j \in K : k <= j
<1>1. PICK at : Picks(at, s, K)
    BY KeptPicks
<1>2. PICK j \in K : TRUE
    OBVIOUS
<1>3. Cardinality(K) \in Nat /\ 1 \in 1..Cardinality(K)
    BY <1>1, <1>2 DEF Picks
<1>4. at[1] \in K /\ Kept(s, K)[1] = s[at[1]]
    BY <1>1, <1>3 DEF Picks
<1>5. ASSUME NEW i \in K
      PROVE  at[1] <= i
    <2>1. PICK n \in 1..Cardinality(K) : at[n] = i
        BY <1>1 DEF Picks
    <2>2. 1 < n <=> at[1] < at[n]
        BY <1>1, <1>3 DEF Picks
    <2>3. n \in Nat /\ (n = 1 \/ 1 < n)
        BY <1>3
    <2>4. K \subseteq Nat /\ at[1] \in Nat /\ i \in Nat
        BY <1>4
    <2>5. QED
        BY <2>1, <2>2, <2>3, <2>4
<1>6. QED
    BY <1>4, <1>5

Plain(r) == [r EXCEPT !.latest = FALSE]

Ordered(rs) == \A m, n \in DOMAIN rs : m < n => ~Older(rs[m].version, rs[n].version)

Flagged(rs) ==
    \A n \in DOMAIN rs : rs[n].latest <=> \A j \in 1..(n - 1) : Line(rs[j]) # Line(rs[n])

\* p says where the releases of rs are in ps: rs is ps in another order, except for
\* the flags, and releases of one version are in the order they were in.
Rearranges(p, rs, ps) ==
    /\ Len(rs) = Len(ps)
    /\ \A n \in 1..Len(rs) : p[n] \in 1..Len(rs) /\ Plain(rs[n]) = ps[p[n]]
    /\ \A m, n \in 1..Len(rs) : p[m] = p[n] => m = n
    /\ \A k \in 1..Len(rs) : \E n \in 1..Len(rs) : p[n] = k
    /\ \A m, n \in 1..Len(rs) : m < n /\ rs[m].version = rs[n].version => p[m] < p[n]

Rearranged(rs, ps) == \E p : Rearranges(p, rs, ps)

\* A release without its flag is a release, and the same in all else.
LEMMA PlainRelease ==
    ASSUME NEW r \in Release
    PROVE  /\ Plain(r) \in Release /\ Plain(r).version = r.version
           /\ Line(Plain(r)) = Line(r) /\ Plain(Plain(r)) = Plain(r)
           /\ Plain(r).board = r.board /\ Plain(r).os = r.os
           /\ ~Plain(r).latest
           /\ r.version \in Version /\ r.board \in Boards /\ r.os \in Oses
BY DEF Release, Plain, Line

\* Sorted puts every release in one place, none before a newer one, and releases of
\* one version in the order they were in (sort.SliceStable).
LEMMA SortedType ==
    ASSUME NEW rs \in Seq(Release)
    PROVE  \E at : /\ Sorted(rs) = [n \in 1..Len(rs) |-> rs[at[n]]]
                   /\ \A n \in 1..Len(rs) : at[n] \in 1..Len(rs)
                   /\ \A m, n \in 1..Len(rs) : at[m] = at[n] => m = n
                   /\ \A i \in 1..Len(rs) : \E n \in 1..Len(rs) : at[n] = i
                   /\ \A m, n \in 1..Len(rs) :
                         m < n => /\ ~Older(rs[at[m]].version, rs[at[n]].version)
                                  /\ rs[at[m]].version = rs[at[n]].version => at[m] < at[n]
<1> DEFINE N == Len(rs)
           S == DOMAIN rs
           ver == [i \in S |-> rs[i].version]
           below == [i \in S |-> {j \in S : \/ Older(ver[i], ver[j])
                                            \/ j < i /\ ~Older(ver[j], ver[i])}]
           at == [n \in S |-> CHOOSE i \in S : Place(rs, i) = n]
<1>1. N \in Nat /\ S = 1..N
    OBVIOUS
<1>2. IsFiniteSet(S) /\ Cardinality(S) = N
    BY <1>1, FS_Interval
<1>3. \A i \in S : ver[i] = rs[i].version /\ ver[i] \in Version
    BY PlainRelease
<1>4. \A i \in S : Place(rs, i) = 1 + Cardinality(below[i])
    BY <1>3 DEF Place
<1>5. Sorted(rs) = [n \in 1..N |-> rs[at[n]]]
    BY <1>1 DEF Sorted
<1> HIDE DEF ver
<1>6. \A i, j \in S : i \in below[j] <=> \/ Older(ver[j], ver[i])
                                         \/ i < j /\ ~Older(ver[i], ver[j])
    OBVIOUS
<1>7. below \in [S -> SUBSET S]
    OBVIOUS
<1>8. /\ \A i \in S : ~Older(ver[i], ver[i])
      /\ \A i, j \in S : Older(ver[i], ver[j]) => ~Older(ver[j], ver[i])
      /\ \A i, j, k \in S : Older(ver[i], ver[k]) => Older(ver[i], ver[j]) \/ Older(ver[j], ver[k])
    <2>1. \A a, b, c \in Version : /\ ~Older(a, a)
                                   /\ Older(a, b) => ~Older(b, a)
                                   /\ Older(a, c) => Older(a, b) \/ Older(b, c)
        BY ONLY OlderIsOrder
    <2>2. QED
        BY ONLY <1>3, <2>1
<1> DEFINE seen == at
<1>9. ASSUME NEW n \in 1..Cardinality(S), \E i \in S : 1 + Cardinality(below[i]) = n
      PROVE  seen[n] \in S /\ 1 + Cardinality(below[seen[n]]) = n
    <2>1. \E i \in S : Place(rs, i) = n
        BY <1>4, <1>9
    <2>2. seen[n] = CHOOSE i \in S : Place(rs, i) = n
        BY <1>1, <1>2
    <2>3. seen[n] \in S /\ Place(rs, seen[n]) = n
        BY ONLY <2>1, <2>2
    <2> HIDE DEF below, seen
    <2>4. QED
        BY ONLY <1>4, <2>3
<1> HIDE DEF below, seen
<1>10. \A i \in S : i \in Int
    BY <1>1
<1>11. \A i \in S : i \notin below[i]
    BY ONLY <1>6, <1>8, <1>10
<1>12. \A i, j \in S : i = j \/ i \in below[j] \/ j \in below[i]
    <2>1. \A i, j \in S : i = j \/ i < j \/ j < i
        BY ONLY <1>10
    <2>2. QED
        BY ONLY <1>6, <1>8, <2>1
<1>13. \A i, j \in S : i \in below[j] => below[i] \subseteq below[j]
    <2> SUFFICES ASSUME NEW i \in S, NEW j \in S, i \in below[j], NEW k \in below[i]
                 PROVE  k \in below[j]
        OBVIOUS
    <2>1. k \in S
        BY <1>7
    <2>2. Older(ver[j], ver[i]) \/ (i < j /\ ~Older(ver[i], ver[j]))
        BY <1>6
    <2>3. Older(ver[i], ver[k]) \/ (k < i /\ ~Older(ver[k], ver[i]))
        BY <1>6, <2>1
    <2>4. CASE Older(ver[j], ver[i])
        <3>1. Older(ver[j], ver[k]) \/ Older(ver[k], ver[i])
            BY ONLY <1>8, <2>1, <2>4
        <3>2. Older(ver[j], ver[k])
            BY ONLY <1>8, <2>1, <2>3, <3>1
        <3>3. QED
            BY <1>6, <2>1, <3>2
    <2>5. CASE i < j /\ ~Older(ver[i], ver[j]) /\ Older(ver[i], ver[k])
        <3>1. Older(ver[j], ver[k])
            BY ONLY <1>8, <2>1, <2>5
        <3>2. QED
            BY <1>6, <2>1, <3>1
    <2>6. CASE i < j /\ ~Older(ver[i], ver[j]) /\ k < i /\ ~Older(ver[k], ver[i])
        <3>1. ~Older(ver[k], ver[j])
            BY ONLY <1>8, <2>1, <2>6
        <3>2. k < j
            BY ONLY <1>10, <2>1, <2>6
        <3>3. QED
            BY <1>6, <2>1, <3>1, <3>2
    <2>7. QED
        BY <2>2, <2>3, <2>4, <2>5, <2>6
<1>14. /\ \A n \in 1..Cardinality(S) : seen[n] \in S
       /\ \A m, n \in 1..Cardinality(S) : m < n <=> seen[m] \in below[seen[n]]
       /\ \A i \in S : \E n \in 1..Cardinality(S) : seen[n] = i
    BY ONLY <1>2, <1>7, <1>9, <1>11, <1>12, <1>13, Enumerated
<1>15. ASSUME NEW m \in 1..N, NEW n \in 1..N, m < n
       PROVE  /\ ~Older(rs[seen[m]].version, rs[seen[n]].version)
              /\ rs[seen[m]].version = rs[seen[n]].version => seen[m] < seen[n]
    <2>1. seen[m] \in S /\ seen[n] \in S /\ seen[m] \in below[seen[n]]
        BY ONLY <1>2, <1>14, <1>15
    <2>2. \/ Older(ver[seen[n]], ver[seen[m]])
          \/ seen[m] < seen[n] /\ ~Older(ver[seen[m]], ver[seen[n]])
        BY ONLY <1>6, <2>1
    <2>3. ~Older(ver[seen[m]], ver[seen[n]])
        BY ONLY <1>8, <2>1, <2>2
    <2>4. ver[seen[m]] = ver[seen[n]] => seen[m] < seen[n]
        BY ONLY <1>8, <2>1, <2>2
    <2>5. QED
        BY ONLY <1>3, <2>1, <2>3, <2>4
<1>16. \A m, n \in 1..N : seen[m] = seen[n] => m = n
    <2>1. ASSUME NEW m \in 1..N, NEW n \in 1..N, m < n
          PROVE  seen[m] # seen[n]
        BY ONLY <1>2, <1>11, <1>14, <2>1
    <2>2. \A m, n \in 1..N : m = n \/ m < n \/ n < m
        BY <1>1
    <2>3. QED
        BY ONLY <2>1, <2>2
<1>17. /\ \A n \in 1..N : seen[n] \in 1..N
       /\ \A i \in 1..N : \E n \in 1..N : seen[n] = i
    BY ONLY <1>1, <1>2, <1>14
<1>18. Sorted(rs) = [n \in 1..N |-> rs[seen[n]]]
    BY <1>5 DEF seen
<1>19. QED
    BY ONLY <1>15, <1>16, <1>17, <1>18

\* What is sorted is rearranged, newest first.
LEMMA SortedRearranges ==
    ASSUME NEW rs \in Seq(Release), NEW ps, Rearranged(rs, ps)
    PROVE  /\ Sorted(rs) \in Seq(Release)
           /\ Rearranged(Sorted(rs), ps)
           /\ Ordered(Sorted(rs))
<1> DEFINE N == Len(rs)
           t == Sorted(rs)
<1>1. PICK at :
         /\ Sorted(rs) = [n \in 1..Len(rs) |-> rs[at[n]]]
         /\ \A n \in 1..Len(rs) : at[n] \in 1..Len(rs)
         /\ \A m, n \in 1..Len(rs) : at[m] = at[n] => m = n
         /\ \A i \in 1..Len(rs) : \E n \in 1..Len(rs) : at[n] = i
         /\ \A m, n \in 1..Len(rs) :
               m < n => /\ ~Older(rs[at[m]].version, rs[at[n]].version)
                        /\ rs[at[m]].version = rs[at[n]].version => at[m] < at[n]
    BY SortedType
<1>2. N \in Nat /\ \A i \in 1..N : rs[i] \in Release
    OBVIOUS
<1>a. /\ \A n \in 1..N : at[n] \in 1..N
      /\ \A m, n \in 1..N : at[m] = at[n] => m = n
      /\ \A i \in 1..N : \E n \in 1..N : at[n] = i
      /\ \A m, n \in 1..N :
            m < n => /\ ~Older(rs[at[m]].version, rs[at[n]].version)
                     /\ rs[at[m]].version = rs[at[n]].version => at[m] < at[n]
    BY <1>1
<1>3. t = [n \in 1..N |-> rs[at[n]]]
    BY <1>1
<1>4. t \in Seq(Release) /\ Len(t) = N /\ DOMAIN t = 1..N
    <2> HIDE DEF t, N
    <2>1. \A n \in 1..N : rs[at[n]] \in Release
        BY <1>1, <1>2 DEF N
    <2>2. t \in [1..N -> Release]
        BY <1>3, <2>1
    <2>3. QED
        BY <1>2, <2>2
<1>5. \A n \in 1..N : t[n] = rs[at[n]]
    BY <1>3
<1>6. Ordered(t)
    <2> HIDE DEF t, N
    <2>1. ASSUME NEW m \in 1..N, NEW n \in 1..N, m < n
          PROVE  ~Older(t[m].version, t[n].version)
        <3>1. t[m] = rs[at[m]] /\ t[n] = rs[at[n]]
            BY ONLY <1>5
        <3>2. ~Older(rs[at[m]].version, rs[at[n]].version)
            BY ONLY <1>a, <2>1
        <3>3. QED
            BY ONLY <3>1, <3>2
    <2>2. \A m, n \in DOMAIN t : m < n => ~Older(t[m].version, t[n].version)
        BY ONLY <1>4, <2>1
    <2>3. QED
        BY ONLY <2>2 DEF Ordered
<1>7. PICK p : Rearranges(p, rs, ps)
    BY DEF Rearranged
<1> DEFINE q == [n \in 1..N |-> p[at[n]]]
<1>8. \A n \in 1..N : q[n] = p[at[n]]
    OBVIOUS
<1>b. /\ Len(ps) = N
      /\ \A n \in 1..N : p[n] \in 1..N /\ Plain(rs[n]) = ps[p[n]]
      /\ \A m, n \in 1..N : p[m] = p[n] => m = n
      /\ \A k \in 1..N : \E n \in 1..N : p[n] = k
      /\ \A m, n \in 1..N : m < n /\ rs[m].version = rs[n].version => p[m] < p[n]
    BY <1>7 DEF Rearranges
<1> HIDE DEF t, q, N
<1>9. Rearranges(q, t, ps)
    <2>1. Len(t) = Len(ps)
        BY <1>4, <1>b
    <2>2. ASSUME NEW n \in 1..N
          PROVE  q[n] \in 1..N /\ Plain(t[n]) = ps[q[n]]
        <3>1. t[n] = rs[at[n]] /\ q[n] = p[at[n]] /\ at[n] \in 1..N
            BY ONLY <1>5, <1>8, <1>a
        <3>2. p[at[n]] \in 1..N /\ Plain(rs[at[n]]) = ps[p[at[n]]]
            BY ONLY <1>b, <3>1
        <3>3. QED
            BY ONLY <3>1, <3>2
    <2>3. ASSUME NEW m \in 1..N, NEW n \in 1..N, q[m] = q[n]
          PROVE  m = n
        <3>1. p[at[m]] = p[at[n]] /\ at[m] \in 1..N /\ at[n] \in 1..N
            BY ONLY <1>8, <1>a, <2>3
        <3>2. at[m] = at[n]
            BY ONLY <1>b, <3>1
        <3>3. QED
            BY ONLY <1>a, <3>2
    <2>4. ASSUME NEW k \in 1..N
          PROVE  \E n \in 1..N : q[n] = k
        <3>1. PICK i \in 1..N : p[i] = k
            BY ONLY <1>b
        <3>2. PICK n \in 1..N : at[n] = i
            BY ONLY <1>a
        <3>3. q[n] = k
            BY ONLY <1>8, <3>1, <3>2
        <3>4. QED
            BY <3>3
    <2>5. \A m, n \in 1..N : m < n /\ t[m].version = t[n].version => q[m] < q[n]
        <3> SUFFICES ASSUME NEW m \in 1..N, NEW n \in 1..N, m < n, t[m].version = t[n].version
                     PROVE  q[m] < q[n]
            OBVIOUS
        <3>1. rs[at[m]].version = rs[at[n]].version
            BY <1>5
        <3>2. at[m] < at[n] /\ at[m] \in 1..N /\ at[n] \in 1..N
            BY <1>a, <3>1
        <3>3. p[at[m]] < p[at[n]]
            BY <1>b, <3>1, <3>2
        <3>4. QED
            BY <1>8, <3>3
    <2>6. QED
        BY <1>4, <2>1, <2>2, <2>3, <2>4, <2>5 DEF Rearranges
<1>10. Rearranged(t, ps)
    BY <1>9 DEF Rearranged
<1>11. QED
    BY <1>4, <1>6, <1>10 DEF t, N

\* What is flagged is still rearranged, and its lines are flagged.
LEMMA MarkedRearranges ==
    ASSUME NEW rs \in Seq(Release), NEW ps, Rearranged(rs, ps), Ordered(rs)
    PROVE  /\ MarkLatest(rs) \in Seq(Release)
           /\ Rearranged(MarkLatest(rs), ps)
           /\ Ordered(MarkLatest(rs))
           /\ Flagged(MarkLatest(rs))
<1> DEFINE N == Len(rs)
           t == MarkLatest(rs)
           first == [i \in 1..N |-> \A j \in 1..(i - 1) : Line(rs[j]) # Line(rs[i])]
<1>1. N \in Nat /\ DOMAIN rs = 1..N /\ \A i \in 1..N : rs[i] \in Release
    OBVIOUS
<1>2. t = [i \in 1..N |-> [rs[i] EXCEPT !.latest = first[i]]]
    BY <1>1 DEF MarkLatest
<1>3. \A i \in 1..N : first[i] \in BOOLEAN
    OBVIOUS
<1>4. \A i \in 1..N : first[i] <=> \A j \in 1..(i - 1) : Line(rs[j]) # Line(rs[i])
    OBVIOUS
<1> HIDE DEF first, t
<1>5. ASSUME NEW i \in 1..N
      PROVE  /\ t[i] \in Release /\ Plain(t[i]) = Plain(rs[i]) /\ Line(t[i]) = Line(rs[i])
             /\ t[i].version = rs[i].version /\ t[i].latest = first[i]
    <2>1. rs[i] \in Release /\ first[i] \in BOOLEAN /\ t[i] = [rs[i] EXCEPT !.latest = first[i]]
        BY <1>1, <1>2, <1>3
    <2>2. QED
        BY ONLY <2>1 DEF Release, Plain, Line
<1>6. DOMAIN t = 1..N
    BY <1>2
<1>7. t \in Seq(Release) /\ Len(t) = N
    <2>1. t = [i \in 1..N |-> t[i]]
        BY <1>2
    <2>2. QED
        BY <1>1, <1>5, <2>1
<1>8. Ordered(t)
    BY <1>1, <1>5, <1>6 DEF Ordered
<1>9. Flagged(t)
    <2> SUFFICES ASSUME NEW n \in 1..N
                 PROVE  t[n].latest <=> \A j \in 1..(n - 1) : Line(t[j]) # Line(t[n])
        BY <1>6 DEF Flagged
    <2>1. \A j \in 1..(n - 1) : j \in 1..N
        BY <1>1
    <2>2. QED
        BY <1>4, <1>5, <2>1
<1>10. PICK p : Rearranges(p, rs, ps)
    BY DEF Rearranged
<1>11. Rearranges(p, t, ps)
    BY <1>5, <1>7, <1>10 DEF Rearranges
<1>12. Rearranged(t, ps)
    BY <1>11 DEF Rearranged
<1>13. QED
    BY <1>7, <1>8, <1>9, <1>12 DEF t

\* Releases without flags are a rearrangement of themselves.
LEMMA PlainRearranges ==
    ASSUME NEW ps \in Seq(Release), \A i \in DOMAIN ps : ~ps[i].latest
    PROVE  Rearranged(ps, ps)
<1> DEFINE p == [i \in 1..Len(ps) |-> i]
<1>1. Len(ps) \in Nat /\ \A i \in 1..Len(ps) : ps[i] \in Release /\ ~ps[i].latest
    OBVIOUS
<1>2. \A i \in 1..Len(ps) : Plain(ps[i]) = ps[i]
    BY <1>1 DEF Plain, Release
<1>3. \A i \in 1..Len(ps) : p[i] = i
    OBVIOUS
<1> HIDE DEF p
<1>4. Rearranges(p, ps, ps)
    BY <1>1, <1>2, <1>3 DEF Rearranges
<1>5. QED
    BY <1>4 DEF Rearranged

\* So is nothing.
LEMMA NothingRearranges == Rearranged(<<>>, <<>>)
<1>1. <<>> \in Seq(Release) /\ DOMAIN <<>> = {}
    OBVIOUS
<1>2. QED
    BY <1>1, PlainRearranges

\* Rearranged releases that are joined are rearranged.
LEMMA JoinedRearranges ==
    ASSUME NEW rs \in Seq(Release), NEW ps \in Seq(Release), Rearranged(rs, ps),
           NEW ss \in Seq(Release), NEW ts \in Seq(Release), Rearranged(ss, ts)
    PROVE  Rearranged(rs \o ss, ps \o ts)
<1>1. PICK p : Rearranges(p, rs, ps)
    BY DEF Rearranged
<1>2. PICK q : Rearranges(q, ss, ts)
    BY DEF Rearranged
<1> DEFINE M == Len(rs)
           N == Len(ss)
           r == [n \in 1..(M + N) |-> IF n <= M THEN p[n] ELSE M + q[n - M]]
           x == rs \o ss
           y == ps \o ts
<1>3. M \in Nat /\ N \in Nat /\ Len(ps) = M /\ Len(ts) = N
    BY <1>1, <1>2 DEF Rearranges
<1>4. /\ Len(x) = M + N
      /\ \A i \in 1..M : x[i] = rs[i]
      /\ \A i \in 1..N : x[M + i] = ss[i]
    <2>1. Len(x) = M + N
        BY Joined
    <2>2. \A i \in 1..M : x[i] = rs[i]
        BY Joined
    <2>3. \A i \in 1..N : x[M + i] = ss[i]
        BY Joined
    <2>4. QED
        BY <2>1, <2>2, <2>3
<1>5. /\ Len(y) = M + N
      /\ \A i \in 1..M : y[i] = ps[i]
      /\ \A i \in 1..N : y[M + i] = ts[i]
    <2>1. Len(y) = Len(ps) + Len(ts)
        BY Joined
    <2>2. \A i \in 1..Len(ps) : y[i] = ps[i]
        BY Joined
    <2>3. \A i \in 1..Len(ts) : y[Len(ps) + i] = ts[i]
        BY Joined
    <2>4. QED
        BY <1>3, <2>1, <2>2, <2>3
<1>6. \A n \in 1..(M + N) : n \in 1..M \/ \E i \in 1..N : n = M + i
    <2> SUFFICES ASSUME NEW n \in 1..(M + N), ~(n \in 1..M)
                 PROVE  \E i \in 1..N : n = M + i
        OBVIOUS
    <2>1. n - M \in 1..N /\ n = M + (n - M)
        BY <1>3
    <2>2. QED
        BY <2>1
<1>7. \A i \in 1..M : i \in 1..(M + N) /\ r[i] = p[i]
    BY <1>3
<1>8. \A i \in 1..N : M + i \in 1..(M + N) /\ r[M + i] = M + q[i]
    <2> SUFFICES ASSUME NEW i \in 1..N
                 PROVE  M + i \in 1..(M + N) /\ r[M + i] = M + q[i]
        OBVIOUS
    <2>1. M + i \in 1..(M + N) /\ ~(M + i <= M) /\ (M + i) - M = i
        BY <1>3
    <2>2. r[M + i] = M + q[(M + i) - M]
        BY <2>1
    <2>3. QED
        BY <2>1, <2>2
<1> HIDE DEF r, x, y
<1>a. /\ \A n \in 1..M : p[n] \in 1..M /\ Plain(rs[n]) = ps[p[n]]
      /\ \A m, n \in 1..M : p[m] = p[n] => m = n
      /\ \A k \in 1..M : \E n \in 1..M : p[n] = k
      /\ \A m, n \in 1..M : m < n /\ rs[m].version = rs[n].version => p[m] < p[n]
    BY <1>1 DEF Rearranges
<1>b. /\ \A n \in 1..N : q[n] \in 1..N /\ Plain(ss[n]) = ts[q[n]]
      /\ \A m, n \in 1..N : q[m] = q[n] => m = n
      /\ \A k \in 1..N : \E n \in 1..N : q[n] = k
      /\ \A m, n \in 1..N : m < n /\ ss[m].version = ss[n].version => q[m] < q[n]
    BY <1>2 DEF Rearranges
<1> HIDE DEF M, N
<1>9. ASSUME NEW n \in 1..(M + N)
      PROVE  r[n] \in 1..(M + N) /\ Plain(x[n]) = y[r[n]]
    <2>1. CASE n \in 1..M
        <3>1. r[n] = p[n] /\ p[n] \in 1..M /\ x[n] = rs[n] /\ Plain(rs[n]) = ps[p[n]]
            BY <1>4, <1>7, <1>a, <2>1
        <3>2. y[p[n]] = ps[p[n]]
            BY <1>5, <3>1
        <3>3. QED
            BY <1>7, <3>1, <3>2
    <2>2. ASSUME NEW i \in 1..N, n = M + i
          PROVE  r[n] \in 1..(M + N) /\ Plain(x[n]) = y[r[n]]
        <3>1. r[n] = M + q[i] /\ q[i] \in 1..N /\ x[n] = ss[i] /\ Plain(ss[i]) = ts[q[i]]
            BY <1>4, <1>8, <1>b, <2>2
        <3>2. y[M + q[i]] = ts[q[i]] /\ M + q[i] \in 1..(M + N)
            BY <1>5, <1>8, <3>1
        <3>3. QED
            BY <3>1, <3>2
    <2>3. QED
        BY <1>6, <2>1, <2>2
<1>10. ASSUME NEW m \in 1..(M + N), NEW n \in 1..(M + N), r[m] = r[n]
       PROVE  m = n
    <2>1. CASE m \in 1..M /\ n \in 1..M
        BY <1>7, <1>a, <1>10, <2>1
    <2>2. ASSUME NEW i \in 1..N, m = M + i, n \in 1..M
          PROVE  FALSE
        <3>1. r[m] = M + q[i] /\ q[i] \in 1..N /\ r[n] = p[n] /\ p[n] \in 1..M
            BY <1>7, <1>8, <1>a, <1>b, <2>2
        <3>2. r[m] # r[n]
            BY ONLY <1>3, <3>1
        <3>3. QED
            BY <1>10, <3>2
    <2>3. ASSUME NEW i \in 1..N, n = M + i, m \in 1..M
          PROVE  FALSE
        <3>1. r[n] = M + q[i] /\ q[i] \in 1..N /\ r[m] = p[m] /\ p[m] \in 1..M
            BY <1>7, <1>8, <1>a, <1>b, <2>3
        <3>2. r[m] # r[n]
            BY ONLY <1>3, <3>1
        <3>3. QED
            BY <1>10, <3>2
    <2>4. ASSUME NEW i \in 1..N, NEW j \in 1..N, m = M + i, n = M + j
          PROVE  i = j
        <3>1. M + q[i] = M + q[j] /\ q[i] \in 1..N /\ q[j] \in 1..N
            BY <1>8, <1>b, <1>10, <2>4
        <3>2. q[i] = q[j]
            BY <1>3, <3>1
        <3>3. QED
            BY <1>b, <3>2
    <2>5. QED
        BY <1>6, <2>1, <2>2, <2>3, <2>4
<1>11. ASSUME NEW k \in 1..(M + N)
       PROVE  \E n \in 1..(M + N) : r[n] = k
    <2>1. CASE k \in 1..M
        BY <1>7, <1>a, <2>1
    <2>2. ASSUME NEW i \in 1..N, k = M + i
          PROVE  \E n \in 1..(M + N) : r[n] = k
        <3>1. PICK j \in 1..N : q[j] = i
            BY <1>b
        <3>2. r[M + j] = k /\ M + j \in 1..(M + N)
            BY <1>8, <2>2, <3>1
        <3>3. QED
            BY <3>2
    <2>3. QED
        BY <1>6, <2>1, <2>2
<1>12. ASSUME NEW m \in 1..(M + N), NEW n \in 1..(M + N), m < n, x[m].version = x[n].version
       PROVE  r[m] < r[n]
    <2>1. CASE n \in 1..M
        <3>1. m \in 1..M
            BY <1>3, <1>12, <2>1
        <3>2. rs[m].version = rs[n].version
            BY <1>4, <1>12, <2>1, <3>1
        <3>3. p[m] < p[n]
            BY <1>a, <1>12, <2>1, <3>1, <3>2
        <3>4. QED
            BY <1>7, <2>1, <3>1, <3>3
    <2>2. ASSUME NEW j \in 1..N, n = M + j, m \in 1..M
          PROVE  r[m] < r[n]
        <3>1. r[n] = M + q[j] /\ q[j] \in 1..N /\ r[m] = p[m] /\ p[m] \in 1..M
            BY <1>7, <1>8, <1>a, <1>b, <2>2
        <3>2. QED
            BY <1>3, <3>1
    <2>3. ASSUME NEW i \in 1..N, NEW j \in 1..N, m = M + i, n = M + j
          PROVE  r[m] < r[n]
        <3>1. i < j
            BY <1>3, <1>12, <2>3
        <3>2. ss[i].version = ss[j].version
            BY <1>4, <1>12, <2>3
        <3>3. q[i] < q[j] /\ q[i] \in 1..N /\ q[j] \in 1..N
            BY <1>b, <3>1, <3>2
        <3>4. r[m] = M + q[i] /\ r[n] = M + q[j]
            BY <1>8, <2>3
        <3>5. QED
            BY <1>3, <3>3, <3>4
    <2>4. QED
        BY <1>6, <2>1, <2>2, <2>3
<1>13. Rearranges(r, x, y)
    BY <1>4, <1>5, <1>9, <1>10, <1>11, <1>12 DEF Rearranges
<1>14. QED
    BY <1>13 DEF Rearranged, x, y

\* So are those of any number of indexes.
LEMMA FlattenRearranges ==
    ASSUME NEW ss \in Seq(Seq(Release)), NEW ts \in Seq(Seq(Release)), Len(ss) = Len(ts),
           \A i \in 1..Len(ss) : Rearranged(ss[i], ts[i])
    PROVE  Rearranged(FlattenSeq(ss), FlattenSeq(ts))
<1> DEFINE N == Len(ss)
<1>1. PICK f : Joins(f, ss, Len(ss)) /\ FlattenSeq(ss) = f[Len(ss)]
    BY FlattenJoins
<1>2. PICK g : Joins(g, ts, Len(ts)) /\ FlattenSeq(ts) = g[Len(ts)]
    BY FlattenJoins
<1>3. N \in Nat /\ \A i \in 1..N : ss[i] \in Seq(Release) /\ ts[i] \in Seq(Release)
    OBVIOUS
<1>4. Joins(f, ss, N) /\ Joins(g, ts, N) /\ FlattenSeq(ss) = f[N] /\ FlattenSeq(ts) = g[N]
    BY <1>1, <1>2
<1>5. \A i \in 1..N : Rearranged(ss[i], ts[i])
    OBVIOUS
<1> HIDE DEF N
<1>6. (\A i \in 0..N : f[i] \in Seq(Release)) /\ (\A i \in 0..N : g[i] \in Seq(Release))
    BY <1>3, <1>4, JoinsType
<1> DEFINE S == {m \in Nat : m <= N => Rearranged(f[m], g[m])}
<1>7. 0 \in S
    <2>1. f[0] = <<>> /\ g[0] = <<>>
        BY <1>4 DEF Joins
    <2>2. QED
        BY <2>1, NothingRearranges
<1>8. ASSUME NEW m \in Nat, m \in S
      PROVE  m + 1 \in S
    <2>1. CASE m + 1 <= N
        <3>1. f[m + 1] = f[m] \o ss[m + 1] /\ g[m + 1] = g[m] \o ts[m + 1]
            BY <1>3, <1>4, <2>1, NextJoin
        <3>2. /\ f[m] \in Seq(Release) /\ g[m] \in Seq(Release)
              /\ ss[m + 1] \in Seq(Release) /\ ts[m + 1] \in Seq(Release)
            BY <1>3, <1>6, <2>1
        <3>3. Rearranged(f[m], g[m]) /\ Rearranged(ss[m + 1], ts[m + 1])
            BY <1>3, <1>5, <1>8, <2>1
        <3>4. Rearranged(f[m] \o ss[m + 1], g[m] \o ts[m + 1])
            BY ONLY <3>2, <3>3, JoinedRearranges
        <3>5. Rearranged(f[m + 1], g[m + 1])
            BY ONLY <3>1, <3>4
        <3>6. QED
            BY <3>5
    <2>2. QED
        BY <2>1
<1> HIDE DEF S
<1>9. N \in S
    BY <1>3, <1>7, <1>8, Inductive
<1>10. QED
    BY <1>3, <1>4, <1>9 DEF S

-----------------------------------------------------------------------------
(* What a snapshot answers.                                                *)

\* Of the places 1..N, p takes those in A to those in B and the others to others.
TakesTo(p, N, A, B) ==
    A \subseteq 1..N /\ B \subseteq 1..N /\ \A n \in 1..N : n \in A <=> p[n] \in B

\* A rearrangement has as many of one kind as there were.
LEMMA RearrangedCounts ==
    ASSUME NEW rs, NEW ps, Len(rs) \in Nat, NEW p, Rearranges(p, rs, ps),
           NEW A, NEW B, TakesTo(p, Len(rs), A, B)
    PROVE  Cardinality(A) = Cardinality(B)
<1>a. /\ A \subseteq 1..Len(rs) /\ B \subseteq 1..Len(rs)
      /\ \A n \in 1..Len(rs) : n \in A <=> p[n] \in B
    BY DEF TakesTo
<1>1. IsFiniteSet(A)
    <2>1. IsFiniteSet(1..Len(rs))
        BY FS_Interval
    <2>2. QED
        BY <1>a, <2>1, FS_Subset
<1>2. /\ \A m, n \in 1..Len(rs) : p[m] = p[n] => m = n
      /\ \A k \in 1..Len(rs) : \E n \in 1..Len(rs) : p[n] = k
    BY DEF Rearranges
<1>3. \A n \in A : p[n] \in B
    BY <1>a
<1>4. \A m, n \in A : p[m] = p[n] => m = n
    BY <1>a, <1>2
<1>5. \A k \in B : \E n \in A : p[n] = k
    BY <1>a, <1>2
<1>6. QED
    BY ONLY <1>1, <1>3, <1>4, <1>5, SameNumber

\* Sorting, merging and flagging neither drop nor repeat anything.
LEMMA OccursAsOften ==
    ASSUME NEW rs \in Seq(Release), NEW ps \in Seq(Release), Rearranged(rs, ps), NEW r
    PROVE  Occurrences(r, rs) = Occurrences(r, ps)
<1> DEFINE N == Len(rs)
           A == {n \in 1..N : Plain(rs[n]) = r}
           B == {n \in 1..N : Plain(ps[n]) = r}
<1>1. PICK p : Rearranges(p, rs, ps)
    BY DEF Rearranged
<1>2. N \in Nat /\ Len(ps) = N /\ DOMAIN rs = 1..N /\ DOMAIN ps = 1..N
    BY <1>1 DEF Rearranges
<1>3. Occurrences(r, rs) = Cardinality(A) /\ Occurrences(r, ps) = Cardinality(B)
    BY <1>2 DEF Occurrences, Plain
<1>4. \A n \in 1..N : p[n] \in 1..N /\ Plain(ps[p[n]]) = Plain(rs[n])
    <2> SUFFICES ASSUME NEW n \in 1..N
                 PROVE  p[n] \in 1..N /\ Plain(ps[p[n]]) = Plain(rs[n])
        OBVIOUS
    <2>1. p[n] \in 1..N /\ ps[p[n]] = Plain(rs[n]) /\ rs[n] \in Release
        BY <1>1, <1>2 DEF Rearranges
    <2>2. Plain(Plain(rs[n])) = Plain(rs[n])
        BY <2>1, PlainRelease
    <2>3. QED
        BY <2>1, <2>2
<1>5. \A n \in 1..N : n \in A <=> p[n] \in B
    BY <1>4
<1>6. A \subseteq 1..N /\ B \subseteq 1..N
    OBVIOUS
<1> HIDE DEF A, B
<1>7. Cardinality(A) = Cardinality(B)
    <2>1. Len(rs) \in Nat /\ TakesTo(p, Len(rs), A, B)
        BY <1>2, <1>5, <1>6 DEF TakesTo
    <2>2. QED
        BY ONLY <1>1, <2>1, RearrangedCounts
<1>8. QED
    BY <1>3, <1>7

\* The releases a request asks for.
Wanted(rs, os, board, version) ==
    {n \in DOMAIN rs : /\ Matches(rs[n], os, board)
                       /\ version = AnyVersion \/ rs[n].version = version}

FirstIn(W, n) == n \in W /\ \A m \in W : n <= m

\* A version that is asked for is answered with the first release that has it.
LEMMA ByVersionIsFirst ==
    ASSUME NEW rs \in Seq(Release), NEW os, NEW board, NEW version, version # AnyVersion
    PROVE  LET M == Filter(rs, os, board)
               L == {i \in DOMAIN M : M[i].version = version}
               W == Wanted(rs, os, board, version)
           IN  /\ M \in Seq(Release) /\ L \subseteq DOMAIN M
               /\ L = {} <=> W = {}
               /\ \A i \in L, n \in W : FirstIn(L, i) /\ FirstIn(W, n) => M[i] = rs[n]
<1> DEFINE K == {i \in DOMAIN rs : Matches(rs[i], os, board)}
           M == Filter(rs, os, board)
           L == {i \in DOMAIN M : M[i].version = version}
           W == Wanted(rs, os, board, version)
           c == Cardinality(K)
<1>1. M = Kept(rs, K) /\ K \subseteq DOMAIN rs
    BY DEF Filter
<1>2. W = {n \in K : rs[n].version = version}
    BY DEF Wanted
<1>3. Len(rs) \in Nat /\ DOMAIN rs = 1..Len(rs)
    OBVIOUS
<1> HIDE DEF K, M
<1>4. M \in Seq(Release) /\ Len(M) = c /\ c \in Nat
    BY <1>1, KeptType
<1>5. PICK at : Picks(at, rs, K)
    BY <1>1, KeptPicks
<1>6. DOMAIN M = 1..c
    BY <1>4
<1>7. /\ \A n \in 1..c : at[n] \in K /\ M[n] = rs[at[n]]
      /\ \A m, n \in 1..c : m < n <=> at[m] < at[n]
      /\ \A k \in K : \E n \in 1..c : at[n] = k
    BY <1>1, <1>5 DEF Picks
<1>8. \A i \in L : i \in 1..c /\ at[i] \in W /\ M[i] = rs[at[i]]
    BY <1>2, <1>6, <1>7
<1>9. \A n \in W : \E i \in L : at[i] = n
    <2> SUFFICES ASSUME NEW n \in W
                 PROVE  \E i \in L : at[i] = n
        OBVIOUS
    <2>1. n \in K /\ rs[n].version = version
        BY <1>2
    <2>2. PICK i \in 1..c : at[i] = n
        BY <1>7, <2>1
    <2>3. M[i].version = version
        BY <1>7, <2>1, <2>2
    <2>4. QED
        BY <1>6, <2>2, <2>3
<1>10. L \subseteq DOMAIN M
    OBVIOUS
<1>11. \A n \in W : n \in Nat
    BY <1>1, <1>2, <1>3
<1> HIDE DEF L, W, c
<1>12. L = {} <=> W = {}
    BY <1>8, <1>9
<1>13. ASSUME NEW i \in L, NEW n \in W, FirstIn(L, i), FirstIn(W, n)
       PROVE  M[i] = rs[n]
    <2>1. PICK k \in L : at[k] = n
        BY <1>9
    <2>2. i <= k /\ i \in 1..c /\ k \in 1..c
        BY <1>8, <1>13, <2>1 DEF FirstIn
    <2>3. at[i] \in W /\ n <= at[i] /\ at[i] \in Nat /\ n \in Nat
        BY <1>8, <1>11, <1>13 DEF FirstIn
    <2>4. ~(at[i] < at[k])
        BY <2>1, <2>3
    <2>5. ~(i < k)
        BY <1>7, <2>2, <2>4
    <2>6. i = k
        BY <1>4, <2>2, <2>5
    <2>7. QED
        BY <1>8, <2>1, <2>6
<1>14. QED
    BY <1>4, <1>10, <1>12, <1>13 DEF L, W, M

\* Resolve returns the first of what is asked for: in a sorted snapshot that is
\* the newest, when no version is named.
LEMMA ResolvedIsFirst ==
    ASSUME NEW rs \in Seq(Release), NEW os, NEW board, NEW version,
           Ordered(rs) \/ version # AnyVersion
    PROVE  LET W == Wanted(rs, os, board, version)
           IN  /\ W = {} => Resolved(rs, os, board, version) = <<>>
               /\ W # {} => \E n \in W : /\ FirstIn(W, n)
                                         /\ Resolved(rs, os, board, version) = <<rs[n]>>
<1> DEFINE M == Filter(rs, os, board)
           W == Wanted(rs, os, board, version)
<1>1. W \subseteq Nat
    BY DEF Wanted
<1>2. CASE version # AnyVersion
    <2> DEFINE L == {i \in DOMAIN M : M[i].version = version}
    <2>1. Resolved(rs, os, board, version) = FirstOf(M, L)
        BY <1>2 DEF Resolved, ByVersion
    <2>2. /\ M \in Seq(Release) /\ L \subseteq DOMAIN M
          /\ L = {} <=> W = {}
          /\ \A i \in L, n \in W : FirstIn(L, i) /\ FirstIn(W, n) => M[i] = rs[n]
        BY <1>2, ByVersionIsFirst
    <2> HIDE DEF M, L, W
    <2>3. CASE W = {}
        BY <2>1, <2>2, <2>3 DEF FirstOf, W
    <2>4. CASE W # {}
        <3>1. L # {} /\ L \subseteq Nat
            BY <2>2, <2>4
        <3>2. PICK i \in L : FirstOf(M, L) = <<M[i]>> /\ \A j \in L : i <= j
            BY <3>1, FirstIs
        <3>3. PICK n \in W : \A m \in W : n <= m
            BY <1>1, <2>4, Least
        <3>4. M[i] = rs[n] /\ FirstIn(W, n)
            BY <2>2, <3>2, <3>3 DEF FirstIn
        <3>5. QED
            BY <2>1, <2>4, <3>2, <3>4 DEF W
    <2>5. QED
        BY <2>3, <2>4
<1>3. CASE version = AnyVersion
    <2> DEFINE L == {i \in DOMAIN M : \A j \in DOMAIN M : ~Older(M[i].version, M[j].version)}
    <2>1. Resolved(rs, os, board, version) = FirstOf(M, L)
        BY <1>3 DEF Resolved, Newest
    <2>2. M = Kept(rs, W) /\ W \subseteq DOMAIN rs
        BY <1>3 DEF Filter, Wanted
    <2> HIDE DEF M, W
    <2>3. /\ M \in Seq(Release) /\ Len(M) = Cardinality(W) /\ Cardinality(W) \in Nat
          /\ (M = <<>> <=> W = {})
        BY <2>2, KeptType
    <2>4. CASE W = {}
        <3>1. L = {}
            BY <2>3, <2>4
        <3>2. QED
            BY <2>1, <2>4, <3>1 DEF FirstOf, W
    <2>5. CASE W # {}
        <3>1. PICK at : Picks(at, rs, W)
            BY <2>2, KeptPicks
        <3>2. Cardinality(W) # 0
            BY <2>3, <2>5
        <3>3. 1 \in DOMAIN M /\ DOMAIN M = 1..Cardinality(W) /\ 1 \in 1..Cardinality(W)
            BY <2>3, <3>2
        <3>4. /\ \A n \in 1..Cardinality(W) : at[n] \in W /\ M[n] = rs[at[n]]
              /\ \A m, n \in 1..Cardinality(W) : m < n <=> at[m] < at[n]
            BY <2>2, <3>1 DEF Picks
        <3>5. ASSUME NEW j \in DOMAIN M
              PROVE  ~Older(M[1].version, M[j].version)
            <4>1. M[1] \in Release /\ M[j] \in Release
                BY <2>3, <3>3
            <4>2. CASE j = 1
                BY <4>1, <4>2, PlainRelease, OlderIsOrder
            <4>3. CASE j # 1
                <5>1. 1 < j
                    BY <3>3, <4>3
                <5>2. at[1] < at[j] /\ at[1] \in DOMAIN rs /\ at[j] \in DOMAIN rs
                    BY <2>2, <3>3, <3>4, <5>1
                <5>3. ~Older(rs[at[1]].version, rs[at[j]].version)
                    BY <1>3, <5>2 DEF Ordered
                <5>4. QED
                    BY <3>3, <3>4, <5>3
            <4>4. QED
                BY <4>2, <4>3
        <3>6. 1 \in L /\ L # {} /\ L \subseteq Nat
            BY <3>3, <3>5
        <3> HIDE DEF L
        <3>7. PICK i \in L : FirstOf(M, L) = <<M[i]>> /\ \A j \in L : i <= j
            BY <3>6, FirstIs
        <3>8. i \in 1..Cardinality(W)
            BY <3>3 DEF L
        <3>9. i = 1
            BY <2>3, <3>6, <3>7, <3>8
        <3>10. PICK n \in W : M[1] = rs[n] /\ \A m \in W : n <= m
            <4>1. \E n \in W : Kept(rs, W)[1] = rs[n] /\ \A m \in W : n <= m
                BY ONLY <2>2, <2>5, rs \in Seq(Release), FirstKept
            <4>2. QED
                BY <2>2, <4>1
        <3>11. FirstIn(W, n) /\ Resolved(rs, os, board, version) = <<rs[n]>>
            BY <2>1, <3>7, <3>9, <3>10 DEF FirstIn
        <3>12. QED
            BY <2>5, <3>11 DEF W
    <2>6. QED
        BY <2>4, <2>5
<1>4. QED
    BY <1>2, <1>3

\* Of a version, what is asked for of the snapshot and what is asked for of the
\* published releases are the same releases in the same order.
LEMMA WantedArePublished ==
    ASSUME NEW rs \in Seq(Release), NEW ps \in Seq(Release), NEW p, Rearranges(p, rs, ps),
           NEW os, NEW board, NEW version
    PROVE  LET W == Wanted(rs, os, board, version)
               V == Wanted(ps, os, board, version)
           IN  /\ TakesTo(p, Len(rs), W, V)
               /\ W = {} <=> V = {}
               /\ version # AnyVersion =>
                    \A n \in W, k \in V : FirstIn(W, n) /\ FirstIn(V, k) => Plain(rs[n]) = ps[k]
<1> DEFINE N == Len(rs)
           W == Wanted(rs, os, board, version)
           V == Wanted(ps, os, board, version)
<1>1. /\ N \in Nat /\ DOMAIN rs = 1..N /\ DOMAIN ps = 1..N
      /\ \A n \in 1..N : rs[n] \in Release /\ ps[n] \in Release
    BY DEF Rearranges
<1>2. /\ \A n \in 1..N : p[n] \in 1..N /\ Plain(rs[n]) = ps[p[n]]
      /\ \A m, n \in 1..N : p[m] = p[n] => m = n
      /\ \A k \in 1..N : \E n \in 1..N : p[n] = k
      /\ \A m, n \in 1..N : m < n /\ rs[m].version = rs[n].version => p[m] < p[n]
    BY DEF Rearranges
<1> HIDE DEF N
<1>3. ASSUME NEW n \in 1..N
      PROVE  n \in W <=> p[n] \in V
    <2>1. rs[n] \in Release /\ p[n] \in 1..N /\ ps[p[n]] = Plain(rs[n])
        BY <1>1, <1>2
    <2>2. /\ ps[p[n]].version = rs[n].version
          /\ ps[p[n]].os = rs[n].os /\ ps[p[n]].board = rs[n].board
        BY <2>1, PlainRelease
    <2>3. QED
        BY <1>1, <2>1, <2>2 DEF Wanted, Matches
<1>4. W \subseteq 1..N /\ V \subseteq 1..N
    BY <1>1 DEF Wanted
<1>5. version # AnyVersion => \A n \in W : rs[n].version = version
    BY DEF Wanted
<1> HIDE DEF W, V
<1>6. TakesTo(p, N, W, V)
    BY <1>3, <1>4 DEF TakesTo
<1>7. W = {} <=> V = {}
    <2>1. ASSUME NEW n \in W PROVE V # {}
        BY <1>3, <1>4
    <2>2. ASSUME NEW k \in V PROVE W # {}
        <3>1. PICK n \in 1..N : p[n] = k
            BY <1>2, <1>4
        <3>2. n \in W
            BY <1>3, <3>1
        <3>3. QED
            BY <3>2
    <2>3. QED
        BY <2>1, <2>2
<1>8. ASSUME version # AnyVersion, NEW n \in W, NEW k \in V, FirstIn(W, n), FirstIn(V, k)
      PROVE  Plain(rs[n]) = ps[k]
    <2>1. n \in 1..N /\ k \in 1..N /\ p[n] \in V /\ p[n] \in 1..N
        BY <1>2, <1>3, <1>4
    <2>2. PICK m \in 1..N : p[m] = k
        BY <1>2, <2>1
    <2>3. m \in W
        BY <1>3, <2>2
    <2>4. n <= m /\ k <= p[n]
        BY <1>8, <2>1, <2>3 DEF FirstIn
    <2>5. rs[n].version = rs[m].version
        BY <1>5, <1>8, <2>3
    <2>6. ~(n < m)
        <3>1. n < m => p[n] < p[m]
            BY <1>2, <2>1, <2>5
        <3>2. QED
            BY <1>1, <2>1, <2>2, <2>4, <3>1
    <2>7. n = m
        BY <1>1, <2>1, <2>4, <2>6
    <2>8. QED
        BY <1>2, <2>1, <2>2, <2>7
<1>9. QED
    BY <1>6, <1>7, <1>8 DEF N, W, V

\* What a filter keeps of a merged snapshot is newest first, and begins every line
\* with the release flagged as its latest.
LEMMA FilterKeepsOrder ==
    ASSUME NEW rs \in Seq(Release), Ordered(rs), Flagged(rs), NEW os, NEW board
    PROVE  LET listed == Filter(rs, os, board)
           IN  /\ \A i, j \in DOMAIN listed :
                     i < j => ~Older(listed[i].version, listed[j].version)
               /\ \A i \in DOMAIN listed : \E j \in 1..i :
                     listed[j].latest /\ Line(listed[j]) = Line(listed[i])
<1> DEFINE K == {i \in DOMAIN rs : Matches(rs[i], os, board)}
           listed == Filter(rs, os, board)
           c == Cardinality(K)
<1>1. listed = Kept(rs, K) /\ K \subseteq DOMAIN rs
    BY DEF Filter
<1>2. Len(rs) \in Nat /\ DOMAIN rs = 1..Len(rs)
    OBVIOUS
<1>3. \A k \in K : \A n \in DOMAIN rs : Line(rs[n]) = Line(rs[k]) => n \in K
    BY DEF Matches, Line
<1> HIDE DEF K, listed
<1>4. listed \in Seq(Release) /\ Len(listed) = c /\ c \in Nat
    BY <1>1, KeptType
<1>5. PICK at : Picks(at, rs, K)
    BY <1>1, KeptPicks
<1>6. DOMAIN listed = 1..c
    BY <1>4
<1>7. /\ \A n \in 1..c : at[n] \in K /\ listed[n] = rs[at[n]]
      /\ \A m, n \in 1..c : m < n <=> at[m] < at[n]
      /\ \A k \in K : \E n \in 1..c : at[n] = k
    BY <1>1, <1>5 DEF Picks
<1> HIDE DEF c
<1>8. ASSUME NEW i \in 1..c, NEW j \in 1..c, i < j
      PROVE  ~Older(listed[i].version, listed[j].version)
    <2>1. at[i] < at[j] /\ at[i] \in DOMAIN rs /\ at[j] \in DOMAIN rs
        BY <1>1, <1>7, <1>8
    <2>2. ~Older(rs[at[i]].version, rs[at[j]].version)
        BY <2>1 DEF Ordered
    <2>3. QED
        BY <1>7, <2>2
<1>9. ASSUME NEW i \in 1..c
      PROVE  \E j \in 1..i : listed[j].latest /\ Line(listed[j]) = Line(listed[i])
    <2> DEFINE T == {n \in DOMAIN rs : Line(rs[n]) = Line(rs[at[i]])}
    <2>1. at[i] \in T /\ T \subseteq Nat /\ at[i] \in K
        BY <1>1, <1>2, <1>7
    <2>2. \A n \in T : n \in K /\ n \in DOMAIN rs /\ Line(rs[n]) = Line(rs[at[i]])
        BY <1>3, <2>1
    <2>3. \A n \in DOMAIN rs : Line(rs[n]) = Line(rs[at[i]]) => n \in T
        OBVIOUS
    <2> HIDE DEF T
    <2>4. PICK n \in T : \A m \in T : n <= m
        BY <2>1, Least
    <2>5. rs[n].latest
        <3>1. n \in DOMAIN rs /\ n \in Nat
            BY <2>1, <2>2
        <3>2. ASSUME NEW j \in 1..(n - 1)
              PROVE  Line(rs[j]) # Line(rs[n])
            <4>1. j \in DOMAIN rs /\ j < n /\ j \in Nat
                BY <1>2, <3>1
            <4>2. j \notin T
                BY <2>4, <3>1, <4>1
            <4>3. QED
                BY <2>2, <2>3, <4>1, <4>2
        <3>3. QED
            BY <3>1, <3>2 DEF Flagged
    <2>6. PICK j \in 1..c : at[j] = n
        BY <1>7, <2>2
    <2>7. at[j] <= at[i] /\ at[i] \in Nat /\ at[j] \in Nat
        BY <2>1, <2>4, <2>6
    <2>8. ~(i < j)
        BY <1>7, <2>7
    <2>9. j \in 1..i
        BY <1>4, <2>8
    <2>10. listed[j].latest /\ Line(listed[j]) = Line(listed[i])
        <3>1. listed[j] = rs[n] /\ listed[i] = rs[at[i]]
            BY <1>7, <2>6
        <3>2. Line(rs[n]) = Line(rs[at[i]])
            BY <2>2
        <3>3. QED
            BY ONLY <2>5, <3>1, <3>2
    <2>11. QED
        BY <2>9, <2>10
<1>10. QED
    BY <1>6, <1>8, <1>9 DEF listed

\* Of every line, the release flagged is the first, and none of the line is newer.
LEMMA OneIsLatest ==
    ASSUME NEW rs \in Seq(Release), Ordered(rs), Flagged(rs), NEW k \in DOMAIN rs
    PROVE  LET flagged == {n \in DOMAIN rs : rs[n].latest /\ Line(rs[n]) = Line(rs[k])}
           IN  /\ Cardinality(flagged) = 1
               /\ \A n \in flagged : ~Older(rs[n].version, rs[k].version)
<1> DEFINE T == {n \in DOMAIN rs : Line(rs[n]) = Line(rs[k])}
           flagged == {n \in DOMAIN rs : rs[n].latest /\ Line(rs[n]) = Line(rs[k])}
<1>1. Len(rs) \in Nat /\ DOMAIN rs = 1..Len(rs)
    OBVIOUS
<1>2. T \subseteq Nat /\ k \in T /\ T \subseteq DOMAIN rs
    BY <1>1
<1>3. PICK n \in T : \A m \in T : n <= m
    <2> HIDE DEF T
    <2>1. QED
        BY <1>2, Least
<1>4. \A i \in DOMAIN rs : rs[i].latest <=> \A j \in 1..(i - 1) : Line(rs[j]) # Line(rs[i])
    BY DEF Flagged
<1>5. rs[n].latest
    <2>1. ASSUME NEW j \in 1..(n - 1)
          PROVE  Line(rs[j]) # Line(rs[n])
        <3>1. j \in DOMAIN rs /\ ~(n <= j)
            BY <1>1, <1>2
        <3>2. j \notin T
            BY <1>3, <3>1
        <3>3. QED
            BY <3>1, <3>2
    <2>2. QED
        BY <1>2, <1>4, <2>1
<1>6. ASSUME NEW m \in flagged
      PROVE  m = n
    <2>1. m \in T /\ m \in Nat /\ n \in Nat /\ n <= m
        BY <1>2, <1>3
    <2>2. n \notin 1..(m - 1)
        BY <1>4
    <2>3. QED
        BY <2>1, <2>2
<1>7. flagged = {n}
    BY <1>5, <1>6
<1>8. Cardinality(flagged) = 1
    BY <1>7, FS_Singleton
<1>9. ~Older(rs[n].version, rs[k].version)
    <2>1. n <= k /\ n \in DOMAIN rs /\ n \in Nat /\ k \in Nat
        BY <1>2, <1>3
    <2>2. CASE n = k
        <3>1. rs[k].version \in Version
            BY PlainRelease
        <3>2. QED
            BY <2>2, <3>1, OlderIsOrder
    <2>3. CASE n # k
        <3>1. n < k
            BY <2>1, <2>3
        <3>2. QED
            BY <2>1, <3>1 DEF Ordered
    <2>4. QED
        BY <2>2, <2>3
<1>10. QED
    BY <1>7, <1>8, <1>9

-----------------------------------------------------------------------------
(* What is published and what is read.                                     *)

\* What can be read of an index are releases without flags.
LEMMA ReadableType ==
    ASSUME NEW entries \in Seq(Entry)
    PROVE  /\ Readable(entries) \in Seq(Release)
           /\ \A i \in DOMAIN Readable(entries) : ~Readable(entries)[i].latest
<1> DEFINE K == {i \in DOMAIN entries : Usable(entries[i])}
           usable == Kept(entries, K)
<1>1. K \subseteq DOMAIN entries
    OBVIOUS
<1>2. PICK at : Picks(at, entries, K)
    BY <1>1, KeptPicks
<1>3. usable \in Seq(Entry) /\ Len(usable) = Cardinality(K) /\ Cardinality(K) \in Nat
    BY <1>1, KeptType
<1>4. Readable(entries) = [i \in DOMAIN usable |-> Parsed(usable[i])]
    BY DEF Readable
<1>5. \A i \in 1..Cardinality(K) : usable[i] = entries[at[i]] /\ at[i] \in K
    BY <1>2 DEF Picks
<1>6. \A k \in K : Usable(entries[k])
    OBVIOUS
<1> HIDE DEF K, usable
<1>7. DOMAIN usable = 1..Cardinality(K)
    BY <1>3
<1>8. ASSUME NEW i \in DOMAIN usable
      PROVE  Parsed(usable[i]) \in Release /\ ~Parsed(usable[i]).latest
    <2>1. usable[i] \in Entry
        BY <1>3
    <2>2. Usable(usable[i])
        BY <1>5, <1>6, <1>7
    <2> DEFINE e == usable[i]
    <2>3. /\ e.version \in Version /\ e.archive \in Archive /\ e.distro \in DOMAIN OsOf
          /\ e.label \in DOMAIN BoardOf
        BY <2>1, <2>2 DEF Entry, Usable, KnownBoard
    <2>4. BoardOf[e.label] \in Boards /\ OsOf[e.distro] \in Oses
        BY <2>3 DEF Boards, Oses
    <2> HIDE DEF e
    <2>5. Parsed(e) \in Release /\ ~Parsed(e).latest
        BY ONLY <2>3, <2>4 DEF Parsed, Release
    <2>6. QED
        BY <2>5 DEF e
<1>9. Readable(entries) \in [1..Cardinality(K) -> Release]
    BY <1>4, <1>7, <1>8
<1>10. Readable(entries) \in Seq(Release)
    BY <1>3, <1>9
<1>11. QED
    BY <1>4, <1>8, <1>10

\* An index that is parsed is what can be read of it, rearranged.
LEMMA ParsedRearranges ==
    ASSUME NEW entries \in Seq(Entry)
    PROVE  /\ Parse(entries) \in Seq(Release)
           /\ Readable(entries) \in Seq(Release)
           /\ Rearranged(Parse(entries), Readable(entries))
<1>1. /\ Readable(entries) \in Seq(Release)
      /\ \A i \in DOMAIN Readable(entries) : ~Readable(entries)[i].latest
    BY ReadableType
<1>2. Rearranged(Readable(entries), Readable(entries))
    BY <1>1, PlainRearranges
<1>3. QED
    BY <1>1, <1>2, SortedRearranges DEF Parse, SortNewestFirst

PublishedBy(given) == FlattenSeq([i \in 1..Len(given) |-> Readable(given[i].entries)])

\* What several indexes publish are releases.
LEMMA PublishedType ==
    ASSUME NEW given \in Seq(Answers)
    PROVE  /\ [i \in 1..Len(given) |-> Readable(given[i].entries)] \in Seq(Seq(Release))
           /\ PublishedBy(given) \in Seq(Release)
<1>1. Len(given) \in Nat
    OBVIOUS
<1>2. \A i \in 1..Len(given) : given[i] \in Answers
    OBVIOUS
<1>3. \A i \in 1..Len(given) : Readable(given[i].entries) \in Seq(Release)
    BY <1>2, AnswersType, ReadableType
<1> DEFINE ts == [i \in 1..Len(given) |-> Readable(given[i].entries)]
           n == Len(given)
<1>4. ts \in [1..n -> Seq(Release)]
    BY <1>3
<1> HIDE DEF ts, n
<1>5. ts \in Seq(Seq(Release))
    BY <1>1, <1>4 DEF n
<1>6. FlattenSeq(ts) \in Seq(Release)
    BY <1>5, FlattenType
<1>7. QED
    BY <1>5, <1>6 DEF ts, PublishedBy

\* Without an index nothing is published.
LEMMA NothingPublished == PublishedBy(<<>>) = <<>>
<1>1. [i \in 1..Len(<<>>) |-> Readable(<<>>[i].entries)] = <<>>
    OBVIOUS
<1>2. FlattenSeq(<<>>) = <<>>
    BY DEF FlattenSeq
<1>3. QED
    BY <1>1, <1>2 DEF PublishedBy

\* One more index publishes what can be read of it after all others.
LEMMA PublishedGrows ==
    ASSUME NEW given \in Seq(Answers), NEW a \in Answers
    PROVE  PublishedBy(Append(given, a)) = PublishedBy(given) \o Readable(a.entries)
<1> DEFINE more == Append(given, a)
           n == Len(given)
<1>1. /\ more \in Seq(Answers) /\ n \in Nat /\ Len(more) = n + 1
      /\ \A i \in 1..n : more[i] = given[i]
      /\ more[n + 1] = a
    <2>1. more \in Seq(Answers) /\ n \in Nat /\ Len(more) = n + 1
        BY Appended
    <2>2. \A i \in 1..n : more[i] = given[i]
        BY Appended
    <2>3. more[n + 1] = a
        BY Appended
    <2>4. QED
        BY <2>1, <2>2, <2>3
<1> HIDE DEF more
<1> DEFINE ss == [i \in 1..Len(given) |-> Readable(given[i].entries)]
           ts == [i \in 1..Len(more) |-> Readable(more[i].entries)]
           s == Readable(a.entries)
<1>2. ss \in Seq(Seq(Release)) /\ ts \in Seq(Seq(Release))
    BY <1>1, PublishedType
<1>3. s \in Seq(Release)
    BY AnswersType, ReadableType
<1>4. \A i \in 1..n : ss[i] = Readable(given[i].entries)
    OBVIOUS
<1>5. \A i \in 1..(n + 1) : ts[i] = Readable(more[i].entries)
    BY <1>1
<1>6. DOMAIN ss = 1..n /\ DOMAIN ts = 1..(n + 1)
    BY <1>1
<1>a. s = Readable(a.entries)
    OBVIOUS
<1> HIDE DEF ss, ts, s, n
<1>7. Len(ss) = n /\ Len(ts) = n + 1
    BY <1>1, <1>2, <1>6
<1>8. ts = Append(ss, s)
    <2> DEFINE us == Append(ss, s)
    <2>1. us \in Seq(Seq(Release)) /\ Len(us) = Len(ss) + 1
        BY <1>2, <1>3, Appended
    <2>2. \A i \in 1..Len(ss) : us[i] = ss[i]
        BY <1>2, <1>3, Appended
    <2>3. us[Len(ss) + 1] = s
        BY <1>2, <1>3, Appended
    <2> HIDE DEF us
    <2>4. ASSUME NEW i \in 1..(n + 1)
          PROVE  ts[i] = us[i]
        <3>1. CASE i = n + 1
            <4>1. ts[i] = Readable(more[n + 1].entries) /\ us[i] = s
                BY <1>5, <1>7, <2>3, <3>1
            <4>2. QED
                BY <1>1, <1>a, <4>1
        <3>2. CASE i # n + 1
            <4>1. i \in 1..n
                BY <1>1, <3>2
            <4>2. us[i] = ss[i] /\ ts[i] = Readable(more[i].entries) /\ more[i] = given[i]
                BY <1>1, <1>5, <1>7, <2>2, <4>1
            <4>3. QED
                BY <1>4, <4>1, <4>2
        <3>3. QED
            BY <3>1, <3>2
    <2>5. Len(ts) = Len(us) /\ \A i \in 1..Len(ts) : ts[i] = us[i]
        BY ONLY <1>7, <2>1, <2>4
    <2>6. ts = us
        BY ONLY <1>2, <2>1, <2>5, SameSequence
    <2>7. QED
        BY <2>6 DEF us
<1>9. FlattenSeq(ts) = FlattenSeq(ss) \o s
    BY ONLY <1>2, <1>3, <1>8, FlattenOfAppend
<1>10. QED
    BY <1>9 DEF PublishedBy, more, ss, ts, s

-----------------------------------------------------------------------------
(* The inductive invariant.                                                *)

\* What was read is what was published, in another order.
ReadOf ==
    /\ answered \in Seq(Answers) /\ Len(answered) <= Indexes
    /\ errs = {i \in Indexed : answered[i].status = "failed"}
    /\ res \in Seq(Release)
    /\ Rearranged(res, Published)

\* The snapshot is of every index, newest first, and the first of every line is
\* its latest.
SnapshotOf ==
    phase # "fetching" => Len(answered) = Indexes /\ Ordered(res) /\ Flagged(res)

\* What is asked for names what was chosen.
ChosenAsked ==
    chosen # <<>> => \E r \in Release :
        /\ chosen = <<r>>
        /\ request.board = r.board /\ request.version = r.version
        /\ r.os # Unnamed => request.os = r.os

\* What was answered is what the snapshot answers still.
Answered ==
    /\ phase \in {"resolved", "downloaded"} =>
          LET rel == Resolved(res, request.os, request.board, request.version)
          IN  answer = [ok |-> rel # <<>>, releases |-> rel]
    /\ phase \in {"listed", "offered"} =>
          \/ NothingRead /\ answer = [ok |-> FALSE, releases |-> <<>>]
          \/ answer = [ok |-> TRUE, releases |-> Filter(res, request.os, request.board)]
    /\ phase = "downloaded" => chosen # <<>>

IInv == ReadOf /\ SnapshotOf /\ ChosenAsked /\ Answered

\* Published, of the model, in the terms of these proofs.
LEMMA PublishedIs == Published = PublishedBy(answered)
BY DEF Published, PublishedBy, Indexed

\* At the beginning nothing is read, asked or answered.
LEMMA InitIInv == Init => IInv
<1> SUFFICES ASSUME Init PROVE IInv
    OBVIOUS
<1>1. answered = <<>> /\ res = <<>> /\ errs = {} /\ phase = "fetching" /\ chosen = <<>>
    BY DEF Init
<1>2. Published = <<>>
    BY <1>1, PublishedIs, NothingPublished
<1>3. ReadOf
    <2>1. Rearranged(res, Published)
        BY <1>1, <1>2, NothingRearranges
    <2>2. answered \in Seq(Answers) /\ res \in Seq(Release) /\ Len(answered) = 0
        BY <1>1
    <2>3. Len(answered) <= Indexes
        BY <2>2, IndexesType
    <2>4. Indexed = {}
        BY <2>2 DEF Indexed
    <2>5. QED
        BY <1>1, <2>1, <2>2, <2>3, <2>4 DEF ReadOf
<1>4. SnapshotOf /\ ChosenAsked /\ Answered
    BY <1>1 DEF SnapshotOf, ChosenAsked, Answered
<1>5. QED
    BY <1>3, <1>4 DEF IInv

\* A step that reads nothing leaves what was read.
LEMMA ReadStays ==
    ASSUME ReadOf, UNCHANGED <<answered, res, errs>>
    PROVE  ReadOf'
<1>1. Published' = Published
    BY DEF Published, Indexed
<1>2. Indexed' = Indexed
    BY DEF Indexed
<1>3. QED
    BY <1>1, <1>2 DEF ReadOf

\* Load reads one more index, or records its error.
LEMMA LoadIInv ==
    ASSUME IInv, Load
    PROVE  IInv'
<1>1. PICK a \in Answers :
         /\ answered' = Append(answered, a)
         /\ res' = res \o Parse(a.entries)
         /\ IF a.status = "failed" THEN FailLater(Len(answered) + 1)
                                   ELSE UNCHANGED <<errs, phase>>
    BY DEF Load
<1>2. phase = "fetching" /\ Len(answered) < Indexes /\ UNCHANGED <<request, answer, chosen>>
    BY DEF Load
<1>3. /\ phase' = "fetching"
      /\ errs' = IF a.status = "failed" THEN errs \cup {Len(answered) + 1} ELSE errs
    BY <1>1, <1>2 DEF FailLater
<1>4. answered \in Seq(Answers) /\ res \in Seq(Release) /\ Rearranged(res, Published)
    BY DEF IInv, ReadOf
<1> DEFINE n == Len(answered)
<1>5. answered' \in Seq(Answers) /\ n \in Nat /\ Len(answered') = n + 1
    BY <1>1, <1>4, Appended
<1>6. \A i \in 1..n : answered'[i] = answered[i]
    BY <1>1, <1>4, Appended
<1>7. answered'[n + 1] = a
    BY <1>1, <1>4, Appended
<1> HIDE DEF n
<1>8. /\ Parse(a.entries) \in Seq(Release)
      /\ Readable(a.entries) \in Seq(Release)
      /\ Rearranged(Parse(a.entries), Readable(a.entries))
    BY AnswersType, ParsedRearranges
<1>9. Published \in Seq(Release)
    BY <1>4, PublishedIs, PublishedType
<1>10. Published' = Published \o Readable(a.entries)
    <2>1. Published' = PublishedBy(answered')
        BY DEF Published, PublishedBy, Indexed
    <2>2. PublishedBy(Append(answered, a)) = PublishedBy(answered) \o Readable(a.entries)
        BY <1>4, PublishedGrows
    <2>3. QED
        BY <1>1, <2>1, <2>2, PublishedIs
<1>11. Rearranged(res', Published')
    <2>1. Rearranged(res \o Parse(a.entries), Published \o Readable(a.entries))
        BY <1>4, <1>8, <1>9, JoinedRearranges
    <2>2. QED
        BY <1>1, <1>10, <2>1
<1>12. res' \in Seq(Release)
    BY <1>1, <1>4, <1>8
<1>13. errs' = {i \in Indexed' : answered'[i].status = "failed"}
    <2>1. errs = {i \in 1..n : answered[i].status = "failed"}
        BY DEF IInv, ReadOf, Indexed, n
    <2>2. Indexed' = 1..(n + 1) /\ 1..(n + 1) = 1..n \cup {n + 1}
        BY <1>5 DEF Indexed
    <2>3. errs' = IF a.status = "failed" THEN errs \cup {n + 1} ELSE errs
        BY <1>3 DEF n
    <2>4. QED
        BY ONLY <1>6, <1>7, <2>1, <2>2, <2>3
<1>14. Len(answered') <= Indexes
    BY <1>2, <1>5, IndexesType DEF n
<1>15. ReadOf'
    BY <1>5, <1>11, <1>12, <1>13, <1>14 DEF ReadOf
<1>16. SnapshotOf' /\ Answered'
    BY <1>3 DEF SnapshotOf, Answered
<1>17. ChosenAsked'
    BY <1>2 DEF IInv, ChosenAsked
<1>18. QED
    BY <1>15, <1>16, <1>17 DEF IInv

\* Merge sorts and flags what was read.
LEMMA MergeIInv ==
    ASSUME IInv, Merge
    PROVE  IInv'
<1>1. /\ Len(answered) = Indexes /\ res' = Merged(res) /\ phase' = "fetched"
      /\ UNCHANGED <<answered, errs, request, answer, chosen>>
    BY DEF Merge
<1>2. res \in Seq(Release) /\ Rearranged(res, Published)
    BY DEF IInv, ReadOf
<1> DEFINE s == Sorted(res)
<1>3. s \in Seq(Release) /\ Rearranged(s, Published) /\ Ordered(s)
    BY <1>2, SortedRearranges
<1>4. res' = MarkLatest(s)
    BY <1>1 DEF Merged, SortNewestFirst
<1> HIDE DEF s
<1>5. res' \in Seq(Release) /\ Rearranged(res', Published) /\ Ordered(res') /\ Flagged(res')
    BY <1>3, <1>4, MarkedRearranges
<1>6. Published' = Published /\ Indexed' = Indexed
    BY <1>1 DEF Published, Indexed
<1>7. ReadOf'
    BY <1>1, <1>5, <1>6 DEF IInv, ReadOf
<1>8. SnapshotOf'
    BY <1>1, <1>5 DEF SnapshotOf
<1>9. ChosenAsked'
    BY <1>1 DEF IInv, ChosenAsked
<1>10. Answered'
    BY <1>1 DEF Answered
<1>11. QED
    BY <1>7, <1>8, <1>9, <1>10 DEF IInv

\* What is answered changes nothing of the snapshot.
LEMMA SnapshotStays ==
    ASSUME IInv, phase # "fetching", UNCHANGED <<answered, res, errs>>
    PROVE  ReadOf' /\ SnapshotOf'
<1>1. ReadOf'
    BY ReadStays DEF IInv
<1>2. QED
    BY <1>1 DEF IInv, SnapshotOf, Ordered, Flagged

\* Resolve answers from the snapshot.
LEMMA ResolveIInv ==
    ASSUME IInv, Resolve
    PROVE  IInv'
<1>1. /\ phase = "fetched" /\ chosen = <<>> /\ phase' = "resolved"
      /\ UNCHANGED <<answered, res, errs, chosen>>
    BY DEF Resolve, Fresh
<1>2. ReadOf' /\ SnapshotOf'
    BY <1>1, SnapshotStays
<1>3. PICK os \in Oses \cup {Unnamed}, board \in Boards, version \in Version \cup {AnyVersion} :
         LET rel == Resolved(res, os, board, version)
         IN  /\ request' = [os |-> os, board |-> board, version |-> version]
             /\ answer' = [ok |-> rel # <<>>, releases |-> rel]
    BY DEF Resolve
<1>4. request'.os = os /\ request'.board = board /\ request'.version = version
    BY <1>3
<1>5. Answered'
    BY <1>1, <1>3, <1>4 DEF Answered
<1>6. ChosenAsked'
    BY <1>1 DEF ChosenAsked
<1>7. QED
    BY <1>2, <1>5, <1>6 DEF IInv

\* List answers from the snapshot.
LEMMA ListIInv ==
    ASSUME IInv, List
    PROVE  IInv'
<1>1. /\ phase = "fetched" /\ chosen = <<>> /\ phase' = "listed"
      /\ UNCHANGED <<answered, res, errs, chosen>>
    BY DEF List, Fresh
<1>2. ReadOf' /\ SnapshotOf'
    BY <1>1, SnapshotStays
<1>3. PICK os \in Oses \cup {Unnamed}, board \in Boards \cup {Unnamed} :
         /\ request' = [os |-> os, board |-> board, version |-> AnyVersion]
         /\ answer' = IF NothingRead THEN [ok |-> FALSE, releases |-> <<>>]
                      ELSE [ok |-> TRUE, releases |-> Filter(res, os, board)]
    BY DEF List
<1>4. request'.os = os /\ request'.board = board /\ (NothingRead' <=> NothingRead)
    BY <1>1, <1>3 DEF NothingRead
<1>5. Answered'
    BY <1>1, <1>3, <1>4 DEF Answered
<1>6. ChosenAsked'
    BY <1>1 DEF ChosenAsked
<1>7. QED
    BY <1>2, <1>5, <1>6 DEF IInv

\* The wizard offers what the snapshot holds.
LEMMA WizardIInv ==
    ASSUME IInv, Wizard
    PROVE  IInv'
<1>1. phase = "fetched" /\ chosen = <<>> /\ UNCHANGED <<answered, res, errs, chosen>>
    BY DEF Wizard, Fresh
<1>2. ReadOf' /\ SnapshotOf'
    BY <1>1, SnapshotStays
<1>3. Answered'
    <2>1. CASE phase' = "offered" /\ \E i \in DOMAIN res :
                  LET r == res[i]
                  IN  /\ request' = [os |-> r.os, board |-> r.board, version |-> AnyVersion]
                      /\ answer' = [ok |-> TRUE, releases |-> Filter(res, r.os, r.board)]
        <3>1. PICK i \in DOMAIN res :
                 /\ request' = [os |-> res[i].os, board |-> res[i].board, version |-> AnyVersion]
                 /\ answer' = [ok |-> TRUE, releases |-> Filter(res, res[i].os, res[i].board)]
            BY <2>1
        <3>2. request'.os = res[i].os /\ request'.board = res[i].board
            BY <3>1
        <3>3. QED
            BY <1>1, <2>1, <3>1, <3>2 DEF Answered
    <2>2. CASE phase' = "panicked"
        BY <2>2 DEF Answered
    <2>3. QED
        BY <2>1, <2>2 DEF Wizard
<1>4. ChosenAsked'
    BY <1>1 DEF ChosenAsked
<1>5. QED
    BY <1>2, <1>3, <1>4 DEF IInv

\* What is chosen in the form was offered.
LEMMA ChooseIInv ==
    ASSUME IInv, Choose
    PROVE  IInv'
<1>1. phase = "fetched" /\ phase' = "chosen" /\ UNCHANGED <<answered, res, errs, answer>>
    BY DEF Choose, Fresh
<1>2. ReadOf' /\ SnapshotOf'
    BY <1>1, SnapshotStays
<1>3. Answered'
    BY <1>1 DEF Answered
<1>4. PICK i \in DOMAIN res, flag \in Oses \cup {Unnamed} :
         /\ chosen' = <<res[i]>>
         /\ request' = [os      |-> OsAsked(res[i].os, flag, res[i].board),
                        board   |-> res[i].board,
                        version |-> res[i].version]
    BY DEF Choose
<1>5. res[i] \in Release
    BY DEF IInv, ReadOf
<1>6. /\ request'.board = res[i].board /\ request'.version = res[i].version
      /\ request'.os = OsAsked(res[i].os, flag, res[i].board)
    BY <1>4
<1>7. res[i].os # Unnamed => request'.os = res[i].os
    BY <1>6 DEF OsAsked
<1>8. ChosenAsked'
    BY <1>4, <1>5, <1>6, <1>7 DEF ChosenAsked
<1>9. QED
    BY <1>2, <1>3, <1>8 DEF IInv

\* The indexes are read anew, with what was chosen.
LEMMA FetchAgainIInv ==
    ASSUME IInv, FetchAgain
    PROVE  IInv'
<1>1. /\ res' = FlattenSeq([i \in DOMAIN answered |-> Parse(answered'[i].entries)])
      /\ errs' = {i \in DOMAIN answered : answered'[i].status = "failed"}
      /\ phase' = "fetching"
      /\ UNCHANGED <<request, answer, chosen>>
    BY DEF FetchAgain
<1>2. PICK i \in DOMAIN answered, a \in Answers : answered' = [answered EXCEPT ![i] = a]
    BY DEF FetchAgain
<1>3. answered \in Seq(Answers) /\ Len(answered) <= Indexes
    BY DEF IInv, ReadOf
<1> DEFINE n == Len(answered)
<1>4. n \in Nat /\ DOMAIN answered = 1..n
    BY <1>3
<1>5. answered' \in Seq(Answers) /\ Len(answered') = n
    BY <1>2, <1>3
<1>6. \A k \in 1..n : answered'[k] \in Answers
    BY <1>5
<1> DEFINE ss == [k \in 1..n |-> Parse(answered'[k].entries)]
           ts == [k \in 1..n |-> Readable(answered'[k].entries)]
<1>7. \A k \in 1..n : /\ ss[k] \in Seq(Release) /\ ts[k] \in Seq(Release)
                      /\ Rearranged(ss[k], ts[k])
    <2> SUFFICES ASSUME NEW k \in 1..n
                 PROVE  /\ Parse(answered'[k].entries) \in Seq(Release)
                        /\ Readable(answered'[k].entries) \in Seq(Release)
                        /\ Rearranged(Parse(answered'[k].entries), Readable(answered'[k].entries))
        OBVIOUS
    <2>1. answered'[k].entries \in Seq(Entry)
        BY <1>6, AnswersType
    <2>2. QED
        BY <2>1, ParsedRearranges
<1>8. DOMAIN ss = 1..n /\ DOMAIN ts = 1..n
    OBVIOUS
<1>9. ss = [k \in 1..n |-> ss[k]] /\ ts = [k \in 1..n |-> ts[k]]
    OBVIOUS
<1>10. FlattenSeq(ss) = res'
    BY <1>1, <1>4
<1>11. FlattenSeq(ts) = PublishedBy(answered')
    BY <1>5 DEF PublishedBy
<1>13. errs' = {j \in 1..n : answered'[j].status = "failed"}
    BY <1>1, <1>4
<1> HIDE DEF ss, ts
<1>14. ss \in Seq(Seq(Release)) /\ ts \in Seq(Seq(Release)) /\ Len(ss) = n /\ Len(ts) = n
    <2>1. ss \in [1..n -> Seq(Release)]
        BY ONLY <1>7, <1>8, <1>9
    <2>2. ts \in [1..n -> Seq(Release)]
        BY ONLY <1>7, <1>8, <1>9
    <2>3. n \in Nat
        BY <1>4
    <2> HIDE DEF n
    <2>4. QED
        BY ONLY <2>1, <2>2, <2>3
<1>15. Rearranged(FlattenSeq(ss), FlattenSeq(ts))
    <2>1. Len(ss) = Len(ts) /\ \A k \in 1..Len(ss) : Rearranged(ss[k], ts[k])
        BY <1>7, <1>14
    <2>2. QED
        BY ONLY <1>14, <2>1, FlattenRearranges
<1>16. FlattenSeq(ss) \in Seq(Release)
    BY <1>14, FlattenType
<1>17. Published' = PublishedBy(answered')
    BY DEF Published, PublishedBy, Indexed
<1>18. Indexed' = 1..n
    BY <1>5 DEF Indexed
<1>19. ReadOf'
    BY <1>3, <1>5, <1>10, <1>11, <1>13, <1>15, <1>16, <1>17, <1>18 DEF ReadOf
<1>20. SnapshotOf' /\ Answered'
    BY <1>1 DEF SnapshotOf, Answered
<1>21. ChosenAsked'
    BY <1>1 DEF IInv, ChosenAsked
<1>22. QED
    BY <1>19, <1>20, <1>21 DEF IInv

\* What was chosen is resolved again, in the new snapshot.
LEMMA DownloadIInv ==
    ASSUME IInv, Download
    PROVE  IInv'
<1>1. /\ phase = "fetched" /\ chosen # <<>> /\ phase' = "downloaded"
      /\ UNCHANGED <<answered, res, errs, request, chosen>>
    BY DEF Download
<1>2. ReadOf' /\ SnapshotOf'
    BY <1>1, SnapshotStays
<1>3. LET rel == Resolved(res, request.os, request.board, request.version)
      IN  answer' = [ok |-> rel # <<>>, releases |-> rel]
    BY DEF Download
<1>4. Answered'
    BY <1>1, <1>3 DEF Answered
<1>5. ChosenAsked'
    BY <1>1 DEF IInv, ChosenAsked
<1>6. QED
    BY <1>2, <1>4, <1>5 DEF IInv

\* Nothing changes by itself.
LEMMA StutterIInv ==
    ASSUME IInv, UNCHANGED vars
    PROVE  IInv'
<1>1. UNCHANGED <<answered, res, errs, phase, request, answer, chosen>>
    BY DEF vars
<1>2. ReadOf'
    BY <1>1, ReadStays DEF IInv
<1>3. SnapshotOf'
    BY <1>1 DEF IInv, SnapshotOf
<1>4. ChosenAsked' /\ Answered'
    BY <1>1 DEF IInv, ChosenAsked, Answered, NothingRead
<1>5. QED
    BY <1>2, <1>3, <1>4 DEF IInv

\* The inductive invariant holds of every behaviour.
LEMMA SnapshotInvariant == Spec => []IInv
<1>1. Init => IInv
    BY InitIInv
<1>2. IInv /\ [Next]_vars => IInv'
    <2> SUFFICES ASSUME IInv, [Next]_vars
                 PROVE  IInv'
        OBVIOUS
    <2>1. CASE Load
        BY <2>1, LoadIInv
    <2>2. CASE Merge
        BY <2>2, MergeIInv
    <2>3. CASE Resolve
        BY <2>3, ResolveIInv
    <2>4. CASE List
        BY <2>4, ListIInv
    <2>5. CASE Wizard
        BY <2>5, WizardIInv
    <2>6. CASE Choose
        BY <2>6, ChooseIInv
    <2>7. CASE FetchAgain
        BY <2>7, FetchAgainIInv
    <2>8. CASE Download
        BY <2>8, DownloadIInv
    <2>9. CASE UNCHANGED vars
        BY <2>9, StutterIInv
    <2>10. QED
        BY <2>1, <2>2, <2>3, <2>4, <2>5, <2>6, <2>7, <2>8, <2>9 DEF Next
<1>3. QED
    BY <1>1, <1>2, PTL DEF Spec

-----------------------------------------------------------------------------
(* The properties of the client.                                           *)

\* What the properties need of the invariant, in one place.
LEMMA SnapshotIs ==
    ASSUME IInv, phase # "fetching"
    PROVE  /\ res \in Seq(Release) /\ Published \in Seq(Release)
           /\ Rearranged(res, Published) /\ Len(res) = Len(Published)
           /\ Ordered(res) /\ Flagged(res)
<1>1. answered \in Seq(Answers) /\ res \in Seq(Release) /\ Rearranged(res, Published)
    BY DEF IInv, ReadOf
<1>2. Published \in Seq(Release)
    BY <1>1, PublishedIs, PublishedType
<1>3. Len(res) = Len(Published)
    BY <1>1 DEF Rearranged, Rearranges
<1>4. Ordered(res) /\ Flagged(res)
    BY DEF IInv, SnapshotOf
<1>5. QED
    BY <1>1, <1>2, <1>3, <1>4

\* "One index failing does not hide the rest": the snapshot is the published
\* releases, each as often as it is published, and the errors are those of the
\* indexes that failed.
THEOREM FailureIsContainedHolds == Spec => []FailureIsContained
<1>1. IInv => FailureIsContained
    <2> SUFFICES ASSUME IInv, phase # "fetching"
                 PROVE  /\ Len(answered) = Indexes
                        /\ Len(res) = Len(Published)
                        /\ \A i \in DOMAIN Published :
                             Occurrences(Published[i], res) = Occurrences(Published[i], Published)
                        /\ errs = {i \in Indexed : answered[i].status = "failed"}
        BY DEF FailureIsContained
    <2>1. Len(answered) = Indexes /\ errs = {i \in Indexed : answered[i].status = "failed"}
        BY DEF IInv, SnapshotOf, ReadOf
    <2>2. /\ res \in Seq(Release) /\ Published \in Seq(Release)
          /\ Rearranged(res, Published) /\ Len(res) = Len(Published)
        BY SnapshotIs
    <2>3. \A r : Occurrences(r, res) = Occurrences(r, Published)
        BY ONLY <2>2, OccursAsOften
    <2>4. QED
        BY <2>1, <2>2, <2>3
<1>2. QED
    BY <1>1, SnapshotInvariant, PTL

\* Of every line, of whichever indexes it spans, one release is the latest, and no
\* release that could be read is newer.
THEOREM LatestIsNewestHolds == Spec => []LatestIsNewest
<1>1. IInv => LatestIsNewest
    <2> SUFFICES ASSUME IInv, phase # "fetching", NEW i \in DOMAIN Published
                 PROVE  LET flagged == {n \in DOMAIN res : /\ res[n].latest
                                                           /\ Line(res[n]) = Line(Published[i])}
                        IN  /\ Cardinality(flagged) = 1
                            /\ \A n \in flagged : ~Older(res[n].version, Published[i].version)
        BY DEF LatestIsNewest
    <2>1. /\ res \in Seq(Release) /\ Published \in Seq(Release)
          /\ Rearranged(res, Published) /\ Len(res) = Len(Published)
          /\ Ordered(res) /\ Flagged(res)
        BY SnapshotIs
    <2>2. PICK p : Rearranges(p, res, Published)
        BY <2>1 DEF Rearranged
    <2>3. i \in 1..Len(res) /\ DOMAIN res = 1..Len(res)
        BY <2>1
    <2>4. PICK k \in 1..Len(res) : p[k] = i
        BY <2>2, <2>3 DEF Rearranges
    <2>5. Plain(res[k]) = Published[i] /\ res[k] \in Release
        BY <2>1, <2>2, <2>3, <2>4 DEF Rearranges
    <2>6. Line(res[k]) = Line(Published[i]) /\ res[k].version = Published[i].version
        BY <2>5, PlainRelease
    <2> DEFINE flagged == {n \in DOMAIN res : res[n].latest /\ Line(res[n]) = Line(res[k])}
    <2>7. /\ Cardinality(flagged) = 1
          /\ \A n \in flagged : ~Older(res[n].version, res[k].version)
        BY <2>1, <2>3, OneIsLatest
    <2>8. QED
        BY <2>6, <2>7
<1>2. QED
    BY <1>1, SnapshotInvariant, PTL

\* A version of a line is found if any index that could be read publishes it, and
\* it is the one the first of them published.
LEMMA ResolvesToFirst ==
    ASSUME IInv, phase # "fetching", NEW os, NEW board, NEW version, version # AnyVersion
    PROVE  LET V   == Wanted(Published, os, board, version)
               rel == Resolved(res, os, board, version)
           IN  /\ rel = <<>> <=> V = {}
               /\ V # {} => \E k \in V : FirstIn(V, k) /\ Plain(rel[1]) = Published[k]
<1> DEFINE W == Wanted(res, os, board, version)
           V == Wanted(Published, os, board, version)
           rel == Resolved(res, os, board, version)
<1>1. /\ res \in Seq(Release) /\ Published \in Seq(Release)
      /\ Rearranged(res, Published) /\ Ordered(res)
    BY SnapshotIs
<1>2. PICK p : Rearranges(p, res, Published)
    BY <1>1 DEF Rearranged
<1>3. /\ W = {} => rel = <<>>
      /\ W # {} => \E n \in W : FirstIn(W, n) /\ rel = <<res[n]>>
    BY <1>1, ResolvedIsFirst
<1>4. /\ W = {} <=> V = {}
      /\ \A n \in W, k \in V : FirstIn(W, n) /\ FirstIn(V, k) => Plain(res[n]) = Published[k]
    BY <1>1, <1>2, WantedArePublished
<1>5. V \subseteq Nat
    BY <1>1 DEF Wanted
<1> HIDE DEF W, V, rel
<1>6. rel = <<>> <=> V = {}
    BY <1>3, <1>4
<1>7. ASSUME V # {}
      PROVE  \E k \in V : FirstIn(V, k) /\ Plain(rel[1]) = Published[k]
    <2>1. PICK n \in W : FirstIn(W, n) /\ rel = <<res[n]>>
        BY <1>3, <1>4, <1>7
    <2>2. PICK k \in V : \A m \in V : k <= m
        BY <1>5, <1>7, Least
    <2>3. FirstIn(V, k)
        BY <2>2 DEF FirstIn
    <2>4. Plain(res[n]) = Published[k] /\ rel[1] = res[n]
        BY <1>4, <2>1, <2>3
    <2>5. QED
        BY <2>3, <2>4
<1>8. QED
    BY <1>6, <1>7 DEF V, rel

\* A request is answered with the newest release that matches it, or with the one
\* of its version that the first index to have it points at; it fails only if there
\* is none.
THEOREM ResolvedIsPublishedHolds == Spec => []ResolvedIsPublished
<1>1. IInv => ResolvedIsPublished
    <2> SUFFICES ASSUME IInv, phase = "resolved"
                 PROVE  ResolvedIsPublished
        BY DEF ResolvedIsPublished
    <2> DEFINE os == request.os
               board == request.board
               version == request.version
               matching == Filter(Published, os, board)
               L == {i \in DOMAIN matching : matching[i].version = version}
               carrying == Kept(matching, L)
               wanted == IF version = AnyVersion THEN matching ELSE carrying
               rel == answer.releases[1]
    <2>1. /\ res \in Seq(Release) /\ Published \in Seq(Release)
          /\ Rearranged(res, Published) /\ Len(res) = Len(Published)
          /\ Ordered(res) /\ Flagged(res)
        BY SnapshotIs
    <2>2. answer = [ok |-> Resolved(res, os, board, version) # <<>>,
                    releases |-> Resolved(res, os, board, version)]
        BY DEF IInv, Answered
    <2>3. ResolvedIsPublished <=>
            /\ answer.ok <=> wanted # <<>>
            /\ answer.ok /\ version = AnyVersion =>
                 /\ rel.latest /\ Matches(rel, os, board)
                 /\ \A i \in DOMAIN matching : ~Older(rel.version, matching[i].version)
            /\ answer.ok /\ version # AnyVersion => Plain(rel) = carrying[1]
        BY DEF ResolvedIsPublished, Plain
    <2> HIDE DEF os, board, version
    <2>4. CASE version # AnyVersion
        <3> DEFINE V == Wanted(Published, os, board, version)
                   found == Resolved(res, os, board, version)
        <3>1. /\ found = <<>> <=> V = {}
              /\ V # {} => \E k \in V : FirstIn(V, k) /\ Plain(found[1]) = Published[k]
            BY <2>4, ResolvesToFirst
        <3>2. /\ matching \in Seq(Release) /\ L \subseteq DOMAIN matching
              /\ L = {} <=> V = {}
              /\ \A i \in L, n \in V : FirstIn(L, i) /\ FirstIn(V, n) => matching[i] = Published[n]
            BY <2>1, <2>4, ByVersionIsFirst
        <3>3. answer.ok = (found # <<>>) /\ rel = found[1]
            BY <2>2
        <3>4. wanted = carrying
            BY <2>4
        <3> HIDE DEF matching, L, V, found, rel
        <3>5. carrying = <<>> <=> L = {}
            BY <3>2, KeptType
        <3>6. ASSUME V # {}
              PROVE  Plain(rel) = carrying[1]
            <4>1. PICK k \in V : FirstIn(V, k) /\ Plain(found[1]) = Published[k]
                BY <3>1, <3>6
            <4>2. L # {}
                BY <3>2, <3>6
            <4>3. PICK i \in L : Kept(matching, L)[1] = matching[i] /\ \A j \in L : i <= j
                BY <3>2, <4>2, FirstKept
            <4>4. FirstIn(L, i)
                BY <4>3 DEF FirstIn
            <4>5. matching[i] = Published[k]
                BY <3>2, <4>1, <4>4
            <4>6. QED
                BY <3>3, <4>1, <4>3, <4>5
        <3> HIDE DEF carrying, wanted
        <3>7. QED
            BY <2>3, <2>4, <3>1, <3>2, <3>3, <3>4, <3>5, <3>6
    <2>5. CASE version = AnyVersion
        <3> DEFINE W == Wanted(res, os, board, version)
                   V == Wanted(Published, os, board, version)
                   found == Resolved(res, os, board, version)
        <3>1. /\ W = {} => found = <<>>
              /\ W # {} => \E n \in W : FirstIn(W, n) /\ found = <<res[n]>>
            BY <2>1, ResolvedIsFirst
        <3>2. PICK p : Rearranges(p, res, Published)
            BY <2>1 DEF Rearranged
        <3>3. TakesTo(p, Len(res), W, V) /\ (W = {} <=> V = {})
            BY <2>1, <3>2, WantedArePublished
        <3>4. matching = Kept(Published, V) /\ V \subseteq DOMAIN Published
            BY <2>5 DEF Filter, Wanted
        <3>5. W = {n \in DOMAIN res : Matches(res[n], os, board)}
            BY <2>5 DEF Wanted
        <3>6. answer.ok = (found # <<>>) /\ rel = found[1] /\ wanted = matching
            BY <2>2, <2>5
        <3> HIDE DEF matching, W, V, found, rel, wanted, L, carrying
        <3>7. /\ (matching = <<>> <=> V = {})
              /\ Len(matching) = Cardinality(V) /\ matching \in Seq(Release)
            BY <2>1, <3>4, KeptType
        <3>8. ASSUME W # {}
              PROVE  /\ rel.latest /\ Matches(rel, os, board)
                     /\ \A i \in DOMAIN matching : ~Older(rel.version, matching[i].version)
            <4>1. PICK n \in W : FirstIn(W, n) /\ found = <<res[n]>>
                BY <3>1, <3>8
            <4>2. rel = res[n] /\ n \in DOMAIN res /\ Matches(res[n], os, board)
                BY <3>5, <3>6, <4>1
            <4>3. Len(res) \in Nat /\ DOMAIN res = 1..Len(res) /\ n \in 1..Len(res)
                BY <2>1, <4>2
            <4>4. res[n].latest
                <5>1. ASSUME NEW j \in 1..(n - 1)
                      PROVE  Line(res[j]) # Line(res[n])
                    <6>1. j \in DOMAIN res /\ ~(n <= j)
                        BY <4>3
                    <6>2. j \notin W
                        BY <4>1, <6>1 DEF FirstIn
                    <6>3. ~Matches(res[j], os, board)
                        BY <3>5, <6>1, <6>2
                    <6>4. QED
                        BY <4>2, <6>3 DEF Matches, Line
                <5>2. QED
                    BY <2>1, <4>2, <5>1 DEF Flagged
            <4>5. ASSUME NEW i \in DOMAIN matching
                  PROVE  ~Older(rel.version, matching[i].version)
                <5>1. PICK at : Picks(at, Published, V)
                    BY <2>1, <3>4, KeptPicks
                <5>2. i \in 1..Cardinality(V)
                    BY <3>7
                <5>3. at[i] \in V /\ matching[i] = Published[at[i]]
                    BY <3>4, <5>1, <5>2 DEF Picks
                <5>4. at[i] \in 1..Len(res)
                    BY <2>1, <3>4, <5>3
                <5>5. PICK m \in 1..Len(res) : p[m] = at[i]
                    BY <3>2, <5>4 DEF Rearranges
                <5>6. m \in W /\ Plain(res[m]) = Published[at[i]] /\ res[m] \in Release
                    <6>1. m \in W
                        BY <3>3, <5>3, <5>5 DEF TakesTo
                    <6>2. Plain(res[m]) = Published[p[m]]
                        BY ONLY <3>2, <5>5 DEF Rearranges
                    <6>3. res[m] \in Release
                        BY <2>1, <4>3
                    <6>4. QED
                        BY <5>5, <6>1, <6>2, <6>3
                <5>7. matching[i].version = res[m].version /\ res[m].version \in Version
                    BY <5>3, <5>6, PlainRelease
                <5>8. n <= m
                    BY <4>1, <5>6 DEF FirstIn
                <5>9. ~Older(res[n].version, res[m].version)
                    <6>1. CASE n = m
                        BY <5>7, <6>1, OlderIsOrder
                    <6>2. CASE n # m
                        <7>1. n < m /\ n \in DOMAIN res /\ m \in DOMAIN res
                            BY <4>3, <5>8, <6>2
                        <7>2. QED
                            BY <2>1, <7>1 DEF Ordered
                    <6>3. QED
                        BY <6>1, <6>2
                <5>10. QED
                    BY <4>2, <5>7, <5>9
            <4>6. QED
                BY <4>2, <4>4, <4>5
        <3>9. found # <<>> <=> W # {}
            BY <3>1
        <3>10. QED
            BY <2>3, <2>5, <3>3, <3>6, <3>7, <3>8, <3>9
    <2>6. QED
        BY <2>4, <2>5
<1>2. QED
    BY <1>1, SnapshotInvariant, PTL

\* List answers, and the wizard offers, everything that matches, newest first, and
\* every line begins with its latest; they fail only if there is nothing to show and
\* an index could not be read.
THEOREM ListIsCompleteHolds == Spec => []ListIsComplete
<1>1. IInv => ListIsComplete
    <2> SUFFICES ASSUME IInv, phase \in {"listed", "offered"}
                 PROVE  ListIsComplete
        BY DEF ListIsComplete
    <2> DEFINE os == request.os
               board == request.board
               matching == Filter(Published, os, board)
               shown == Filter(res, os, board)
               listed == answer.releases
    <2>1. /\ res \in Seq(Release) /\ Published \in Seq(Release)
          /\ Rearranged(res, Published) /\ Len(res) = Len(Published)
          /\ Ordered(res) /\ Flagged(res)
        BY SnapshotIs
    <2>2. \/ NothingRead /\ answer = [ok |-> FALSE, releases |-> <<>>]
          \/ answer = [ok |-> TRUE, releases |-> shown]
        BY DEF IInv, Answered
    <2>3. ListIsComplete <=>
            /\ ~answer.ok => Published = <<>> /\ errs # {}
            /\ answer.ok => Len(listed) = Len(matching)
            /\ \A i, j \in DOMAIN listed :
                 i < j => ~Older(listed[i].version, listed[j].version)
            /\ \A i \in DOMAIN listed : \E j \in 1..i :
                 listed[j].latest /\ Line(listed[j]) = Line(listed[i])
        BY DEF ListIsComplete
    <2>4. CASE NothingRead /\ answer = [ok |-> FALSE, releases |-> <<>>]
        <3>1. res = <<>> /\ errs # {}
            BY <2>4 DEF NothingRead
        <3>2. Published = <<>>
            BY <2>1, <3>1
        <3>3. ~answer.ok /\ listed = <<>>
            BY <2>4
        <3> HIDE DEF listed
        <3>4. DOMAIN listed = {}
            BY <3>3
        <3>5. QED
            BY <2>3, <3>1, <3>2, <3>3, <3>4
    <2>5. CASE answer = [ok |-> TRUE, releases |-> shown]
        <3>1. answer.ok /\ listed = shown
            BY <2>5
        <3>2. /\ \A i, j \in DOMAIN shown :
                    i < j => ~Older(shown[i].version, shown[j].version)
              /\ \A i \in DOMAIN shown : \E j \in 1..i :
                    shown[j].latest /\ Line(shown[j]) = Line(shown[i])
            BY <2>1, FilterKeepsOrder
        <3>3. Len(shown) = Len(matching)
            <4> DEFINE W == Wanted(res, os, board, AnyVersion)
                       V == Wanted(Published, os, board, AnyVersion)
            <4>1. PICK p : Rearranges(p, res, Published)
                BY <2>1 DEF Rearranged
            <4>2. TakesTo(p, Len(res), W, V)
                BY <2>1, <4>1, WantedArePublished
            <4>3. shown = Kept(res, W) /\ W \subseteq DOMAIN res
                BY DEF Filter, Wanted
            <4>4. matching = Kept(Published, V) /\ V \subseteq DOMAIN Published
                BY DEF Filter, Wanted
            <4> HIDE DEF W, V, shown, matching
            <4>5. Len(res) \in Nat
                BY <2>1
            <4>6. Cardinality(W) = Cardinality(V)
                BY ONLY <4>1, <4>2, <4>5, RearrangedCounts
            <4>7. Len(shown) = Cardinality(W)
                BY <2>1, <4>3, KeptType
            <4>8. Len(matching) = Cardinality(V)
                BY <2>1, <4>4, KeptType
            <4>9. QED
                BY <4>6, <4>7, <4>8
        <3> HIDE DEF listed, shown, matching
        <3>4. QED
            BY <2>3, <3>1, <3>2, <3>3
    <2>6. QED
        BY <2>2, <2>4, <2>5
<1>2. QED
    BY <1>1, SnapshotInvariant, PTL

\* The image picked in the form is the one downloaded, although the indexes are read
\* again, unless another of its version took its place in its line.
THEOREM ChosenIsDownloadedHolds == Spec => []ChosenIsDownloaded
<1>1. IInv => ChosenIsDownloaded
    <2> SUFFICES ASSUME IInv, phase = "downloaded", chosen[1].os # Unnamed
                 PROVE  ChosenIsDownloaded
        BY DEF ChosenIsDownloaded
    <2> DEFINE pick == Plain(chosen[1])
               A == {i \in DOMAIN Published : /\ Line(Published[i]) = Line(pick)
                                              /\ Published[i].version = pick.version}
               alike == Kept(Published, A)
               found == answer.releases
    <2>1. PICK r \in Release :
             /\ chosen = <<r>>
             /\ request.board = r.board /\ request.version = r.version
             /\ r.os # Unnamed => request.os = r.os
        BY DEF IInv, Answered, ChosenAsked
    <2>2. /\ r.os # Unnamed /\ request.os = r.os /\ pick = Plain(r)
          /\ request.version # AnyVersion /\ r.board # Unnamed
        <3>1. chosen[1] = r
            BY <2>1
        <3>2. r.version # AnyVersion
            BY PlainRelease, VersionType DEF AnyVersion
        <3>3. r.board # Unnamed
            BY PlainRelease, BoardOfType
        <3>4. QED
            BY <2>1, <3>1, <3>2, <3>3
    <2>3. Line(pick) = <<request.board, request.os>> /\ pick.version = request.version
        BY <2>1, <2>2, PlainRelease DEF Line
    <2>4. Published \in Seq(Release)
        BY SnapshotIs
    <2>5. answer = [ok |-> Resolved(res, request.os, request.board, request.version) # <<>>,
                    releases |-> Resolved(res, request.os, request.board, request.version)]
        BY DEF IInv, Answered
    <2>6. ChosenIsDownloaded <=>
            /\ answer.ok <=> alike # <<>>
            /\ answer.ok => \E i \in DOMAIN alike : Plain(found[1]) = alike[i]
            /\ alike = <<pick>> => Plain(found[1]) = pick
        BY DEF ChosenIsDownloaded, Plain
    <2> DEFINE V == Wanted(Published, request.os, request.board, request.version)
    <2>7. A = V
        <3>1. request.os # Unnamed /\ request.board # Unnamed
            BY <2>1, <2>2
        <3> HIDE DEF pick
        <3>2. ASSUME NEW i \in DOMAIN Published
              PROVE  i \in A <=> i \in V
            <4>1. i \in A <=> /\ Published[i].board = request.board /\ Published[i].os = request.os
                              /\ Published[i].version = request.version
                BY <2>3 DEF Line
            <4>2. i \in V <=> /\ Published[i].board = request.board /\ Published[i].os = request.os
                              /\ Published[i].version = request.version
                BY <2>2, <3>1 DEF Wanted, Matches
            <4>3. QED
                BY <4>1, <4>2
        <3>3. A \subseteq DOMAIN Published /\ V \subseteq DOMAIN Published
            BY DEF Wanted
        <3>4. QED
            BY <3>2, <3>3
    <2>8. /\ found = <<>> <=> V = {}
          /\ V # {} => \E k \in V : FirstIn(V, k) /\ Plain(found[1]) = Published[k]
        BY <2>2, <2>5, ResolvesToFirst
    <2>9. answer.ok <=> found # <<>>
        BY <2>5
    <2> HIDE DEF pick, A, V, found
    <2>10. V \subseteq DOMAIN Published
        BY DEF V, Wanted
    <2>11. /\ (alike = <<>> <=> V = {}) /\ Len(alike) = Cardinality(V) /\ Cardinality(V) \in Nat
           /\ alike \in Seq(Release)
        BY <2>4, <2>7, <2>10, KeptType
    <2>12. ASSUME V # {}
           PROVE  Plain(found[1]) = alike[1]
        <3>1. PICK k \in V : FirstIn(V, k) /\ Plain(found[1]) = Published[k]
            BY <2>8, <2>12
        <3>2. PICK j \in V : Kept(Published, V)[1] = Published[j] /\ \A i \in V : j <= i
            BY <2>4, <2>10, <2>12, FirstKept
        <3>3. j <= k /\ k <= j /\ j \in Nat /\ k \in Nat
            BY <2>4, <2>10, <3>1, <3>2 DEF FirstIn
        <3>4. j = k
            BY <3>3
        <3>5. QED
            BY <2>7, <3>1, <3>2, <3>4
    <2> HIDE DEF alike
    <2>13. alike # <<>> => 1 \in DOMAIN alike
        BY <2>11
    <2>14. alike = <<pick>> => alike # <<>> /\ alike[1] = pick
        OBVIOUS
    <2>15. QED
        BY <2>6, <2>8, <2>9, <2>11, <2>12, <2>13, <2>14
<1>2. QED
    BY <1>1, SnapshotInvariant, PTL

=============================================================================
