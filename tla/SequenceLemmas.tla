--------------------------- MODULE SequenceLemmas ---------------------------
(***************************************************************************)
(* Lemmas about sequences, finite sets and numbers as they are written     *)
(* that the proofs of several components need.  No induction theorem of    *)
(* the library can be used (it takes a predicate for a parameter): what is *)
(* proved for every length is proved of a set of naturals, by Inductive.   *)
(***************************************************************************)
EXTENDS Numerals, FiniteSetTheorems, TLAPS

-----------------------------------------------------------------------------
(* Induction.                                                              *)

\* A set of naturals has a least element: what stands in for induction where the
\* predicate cannot be a parameter.
LEMMA Least ==
    ASSUME NEW T, T \subseteq Nat, T # {}
    PROVE  \E x \in T : \A y \in T : x <= y
<1> DEFINE Lt == {p \in Nat \X Nat : p[1] < p[2]}
<1>1. IsWellFoundedOn(Lt, Nat)
    BY NatLessThanWellFounded DEF OpToRel
<1>2. \A x, y \in Nat : y < x => <<y, x>> \in Lt
    OBVIOUS
<1> HIDE DEF Lt
<1>3. PICK x \in T : \A y \in T : ~(<<y, x>> \in Lt)
    BY <1>1, WFMin
<1>4. \A y \in T : ~(y < x)
    BY <1>2, <1>3
<1>5. \A y \in T : x <= y
    BY <1>4
<1>6. QED
    BY <1>5

\* A set that has 0, and the next number with every one, has them all.
LEMMA Inductive ==
    ASSUME NEW S, 0 \in S, \A n \in Nat : n \in S => n + 1 \in S
    PROVE  \A n \in Nat : n \in S
<1>1. SUFFICES ASSUME Nat \ S # {} PROVE FALSE
    OBVIOUS
<1>2. PICK n \in Nat \ S : \A m \in Nat \ S : n <= m
    BY <1>1, Least
<1>3. n # 0 /\ n - 1 \in Nat /\ n - 1 \notin Nat \ S
    BY <1>2
<1>4. QED
    BY <1>2, <1>3

-----------------------------------------------------------------------------
(* Places in an order.                                                     *)

\* If below[i] is what comes before i in a strict total order of a finite set, then
\* the one place after all of them is taken by i and by no other, and every place is
\* taken: the set is enumerated in that order.
LEMMA PlaceIsTaken ==
    ASSUME NEW S, IsFiniteSet(S), NEW below \in [S -> SUBSET S],
           \A i \in S : i \notin below[i],
           \A i, j \in S : i \in below[j] => below[i] \subseteq below[j],
           \A i, j \in S : i = j \/ i \in below[j] \/ j \in below[i]
    PROVE  /\ \A i \in S : 1 + Cardinality(below[i]) \in 1..Cardinality(S)
           /\ \A i, j \in S : i \in below[j] <=> Cardinality(below[i]) < Cardinality(below[j])
           /\ \A n \in 1..Cardinality(S) : \E i \in S : 1 + Cardinality(below[i]) = n
<1> DEFINE N == Cardinality(S)
           size == [i \in S |-> 1 + Cardinality(below[i])]
<1>1. N \in Nat
    BY FS_CardinalityType
<1>2. ASSUME NEW i \in S
      PROVE  IsFiniteSet(below[i]) /\ Cardinality(below[i]) \in Nat /\ Cardinality(below[i]) < N
    <2>1. below[i] \in SUBSET S /\ below[i] # S
        OBVIOUS
    <2>2. IsFiniteSet(below[i]) /\ Cardinality(below[i]) <= N /\ Cardinality(below[i]) # N
        BY <2>1, FS_Subset
    <2>3. QED
        BY <1>1, <2>2, FS_CardinalityType
<1>3. ASSUME NEW i \in S, NEW j \in S, i \in below[j]
      PROVE  Cardinality(below[i]) < Cardinality(below[j])
    <2>1. below[i] \in SUBSET below[j] /\ below[i] # below[j]
        BY <1>3
    <2>2. Cardinality(below[i]) <= Cardinality(below[j]) /\ Cardinality(below[i]) # Cardinality(below[j])
        BY <1>2, <2>1, FS_Subset
    <2>3. QED
        BY <1>2, <2>2
<1>4. \A i, j \in S : i \in below[j] <=> Cardinality(below[i]) < Cardinality(below[j])
    <2> TAKE i, j \in S
    <2>1. CASE i = j
        BY <1>2, <2>1
    <2>2. CASE i \in below[j]
        BY <1>3, <2>2
    <2>3. CASE j \in below[i]
        <3>1. Cardinality(below[j]) < Cardinality(below[i])
            BY <1>3, <2>3
        <3>2. i \notin below[j]
            BY <2>3
        <3>3. QED
            BY <1>2, <3>1, <3>2
    <2>4. QED
        BY <2>1, <2>2, <2>3
<1>5. size \in [S -> 1..N]
    BY <1>1, <1>2
<1>6. size \in Injection(S, 1..N)
    <2>1. ASSUME NEW i \in S, NEW j \in S, size[i] = size[j]
          PROVE  i = j
        <3>1. Cardinality(below[i]) = Cardinality(below[j])
            BY <1>2, <2>1
        <3>2. QED
            BY <1>2, <1>4, <3>1
    <2>2. QED
        BY <1>5, <2>1 DEF Injection, IsInjective
<1>7. IsFiniteSet(1..N) /\ Cardinality(1..N) = N
    BY <1>1, FS_Interval
<1>8. size \in Surjection(S, 1..N)
    BY <1>6, <1>7, FS_Injection
<1>9. \A n \in 1..N : \E i \in S : 1 + Cardinality(below[i]) = n
    BY <1>8 DEF Surjection
<1>10. QED
    BY <1>4, <1>5, <1>9

\* The same, as the sequence of what stands at each place.
LEMMA Enumerated ==
    ASSUME NEW S, IsFiniteSet(S), NEW below \in [S -> SUBSET S],
           \A i \in S : i \notin below[i],
           \A i, j \in S : i \in below[j] => below[i] \subseteq below[j],
           \A i, j \in S : i = j \/ i \in below[j] \/ j \in below[i],
           NEW at, \A n \in 1..Cardinality(S) :
                      (\E i \in S : 1 + Cardinality(below[i]) = n)
                         => at[n] \in S /\ 1 + Cardinality(below[at[n]]) = n
    PROVE  /\ Cardinality(S) \in Nat
           /\ \A n \in 1..Cardinality(S) : at[n] \in S
           /\ \A m, n \in 1..Cardinality(S) : m < n <=> at[m] \in below[at[n]]
           /\ \A i \in S : \E n \in 1..Cardinality(S) : at[n] = i
<1> DEFINE N == Cardinality(S)
<1>1. N \in Nat
    BY FS_CardinalityType
<1>2. /\ \A i \in S : 1 + Cardinality(below[i]) \in 1..N
      /\ \A i, j \in S : i \in below[j] <=> Cardinality(below[i]) < Cardinality(below[j])
      /\ \A n \in 1..N : \E i \in S : 1 + Cardinality(below[i]) = n
    BY PlaceIsTaken
<1>3. ASSUME NEW i \in S
      PROVE  Cardinality(below[i]) \in Nat
    BY FS_Subset, FS_CardinalityType
<1>4. ASSUME NEW n \in 1..N
      PROVE  at[n] \in S /\ 1 + Cardinality(below[at[n]]) = n
    BY <1>2
<1>5. \A m, n \in 1..N : m < n <=> at[m] \in below[at[n]]
    <2> TAKE m, n \in 1..N
    <2>1. at[m] \in S /\ at[n] \in S
        BY <1>4
    <2>2. 1 + Cardinality(below[at[m]]) = m /\ 1 + Cardinality(below[at[n]]) = n
        BY <1>4
    <2>3. Cardinality(below[at[m]]) \in Nat /\ Cardinality(below[at[n]]) \in Nat
        BY <1>3, <2>1
    <2>4. m < n <=> Cardinality(below[at[m]]) < Cardinality(below[at[n]])
        BY <2>2, <2>3
    <2>5. QED
        BY <1>2, <2>1, <2>4
<1>6. ASSUME NEW i \in S
      PROVE  \E n \in 1..N : at[n] = i
    <2> DEFINE n == 1 + Cardinality(below[i])
    <2>1. n \in 1..N
        BY <1>2
    <2>2. at[n] \in S /\ 1 + Cardinality(below[at[n]]) = n
        BY <1>4, <2>1
    <2>3. Cardinality(below[i]) = Cardinality(below[at[n]])
        BY <1>3, <2>2
    <2>4. i = at[n]
        BY <1>2, <1>3, <2>2, <2>3
    <2>5. QED
        BY <2>1, <2>4
<1>7. QED
    BY <1>1, <1>4, <1>5, <1>6

-----------------------------------------------------------------------------
(* Sequences.                                                              *)

\* Sequences are the same if they have the same elements in the same places.
LEMMA SameSequence ==
    ASSUME NEW X, NEW s \in Seq(X), NEW t \in Seq(X)
    PROVE  s = t <=> Len(s) = Len(t) /\ \A i \in 1..Len(s) : s[i] = t[i]
OBVIOUS

\* What a joined sequence holds, and where.
LEMMA Joined ==
    ASSUME NEW X, NEW s \in Seq(X), NEW t \in Seq(X)
    PROVE  /\ s \o t \in Seq(X)
           /\ Len(s) \in Nat /\ Len(t) \in Nat /\ Len(s \o t) = Len(s) + Len(t)
           /\ DOMAIN (s \o t) = 1..(Len(s) + Len(t))
           /\ \A i \in 1..Len(s) : (s \o t)[i] = s[i]
           /\ \A i \in 1..Len(t) : (s \o t)[Len(s) + i] = t[i]
<1>1. /\ s \o t \in Seq(X)
      /\ Len(s) \in Nat /\ Len(t) \in Nat /\ Len(s \o t) = Len(s) + Len(t)
      /\ DOMAIN (s \o t) = 1..(Len(s) + Len(t))
    OBVIOUS
<1>2. \A i \in 1..Len(s) : (s \o t)[i] = s[i]
    OBVIOUS
<1>3. ASSUME NEW i \in 1..Len(t)
      PROVE  (s \o t)[Len(s) + i] = t[i]
    <2>1. Len(s) + i \in 1..(Len(s) + Len(t)) /\ ~(Len(s) + i <= Len(s)) /\ (Len(s) + i) - Len(s) = i
        BY <1>1
    <2>2. (s \o t)[Len(s) + i] = t[(Len(s) + i) - Len(s)]
        BY <2>1
    <2>3. QED
        BY <2>1, <2>2
<1>4. QED
    BY <1>1, <1>2, <1>3

\* How sequences are bracketed when they are joined does not matter.
LEMMA Associative ==
    ASSUME NEW X, NEW s \in Seq(X), NEW t \in Seq(X), NEW u \in Seq(X)
    PROVE  (s \o t) \o u = s \o (t \o u)
<1>1. (s \o t) \o u \in Seq(X) /\ s \o (t \o u) \in Seq(X) /\ s \o t \in Seq(X) /\ t \o u \in Seq(X)
    OBVIOUS
<1>2. Len((s \o t) \o u) = Len(s) + Len(t) + Len(u) /\ Len(s \o (t \o u)) = Len(s) + Len(t) + Len(u)
    OBVIOUS
<1>3. /\ Len(s) \in Nat /\ Len(t) \in Nat /\ Len(u) \in Nat
      /\ Len(s \o t) = Len(s) + Len(t) /\ Len(t \o u) = Len(t) + Len(u)
    OBVIOUS
<1>4. ASSUME NEW i \in 1..(Len(s) + Len(t) + Len(u))
      PROVE  ((s \o t) \o u)[i] = (s \o (t \o u))[i]
    <2>1. CASE i <= Len(s)
        <3>1. i \in 1..Len(s) /\ i \in 1..Len(s \o t)
            BY <1>3, <2>1
        <3>2. ((s \o t) \o u)[i] = (s \o t)[i]
            BY ONLY <1>1, <3>1, u \in Seq(X), Joined
        <3>3. (s \o t)[i] = s[i]
            BY <3>1, Joined
        <3>4. (s \o (t \o u))[i] = s[i]
            BY ONLY <1>1, <3>1, s \in Seq(X), Joined
        <3>5. QED
            BY <3>2, <3>3, <3>4
    <2>2. CASE Len(s) < i /\ i <= Len(s) + Len(t)
        <3> DEFINE k == i - Len(s)
        <3>1. k \in 1..Len(t) /\ Len(s) + k = i /\ i \in 1..Len(s \o t) /\ k \in 1..Len(t \o u)
            BY <1>3, <2>2
        <3> HIDE DEF k
        <3>2. ((s \o t) \o u)[i] = (s \o t)[i]
            BY ONLY <1>1, <3>1, u \in Seq(X), Joined
        <3>3. (s \o t)[Len(s) + k] = t[k]
            BY <3>1, Joined
        <3>4. (s \o (t \o u))[Len(s) + k] = (t \o u)[k]
            BY ONLY <1>1, <3>1, s \in Seq(X), Joined
        <3>5. (t \o u)[k] = t[k]
            BY <3>1, Joined
        <3>6. QED
            BY <3>1, <3>2, <3>3, <3>4, <3>5
    <2>3. CASE Len(s) + Len(t) < i
        <3> DEFINE k == i - (Len(s) + Len(t))
        <3>1. /\ k \in 1..Len(u) /\ Len(s \o t) + k = i
              /\ Len(t) + k \in 1..Len(t \o u) /\ Len(s) + (Len(t) + k) = i
            BY <1>3, <2>3
        <3> HIDE DEF k
        <3>2. ((s \o t) \o u)[Len(s \o t) + k] = u[k]
            BY ONLY <1>1, <3>1, u \in Seq(X), Joined
        <3>3. (s \o (t \o u))[Len(s) + (Len(t) + k)] = (t \o u)[Len(t) + k]
            BY ONLY <1>1, <3>1, s \in Seq(X), Joined
        <3>4. (t \o u)[Len(t) + k] = u[k]
            BY <3>1, Joined
        <3>5. QED
            BY <3>1, <3>2, <3>3, <3>4
    <2>4. QED
        BY <1>3, <2>1, <2>2, <2>3
<1>5. Len((s \o t) \o u) = Len(s \o (t \o u))
    BY <1>2
<1>6. QED
    BY ONLY <1>1, <1>2, <1>4, <1>5, SameSequence

-----------------------------------------------------------------------------
(* Numbers.                                                                *)

\* A sequence over a set is one over every larger set.
LEMMA SeqWidens ==
    ASSUME NEW X, NEW Y, X \subseteq Y, NEW s \in Seq(X)
    PROVE  s \in Seq(Y)
<1>1. s = [i \in 1..Len(s) |-> s[i]] /\ Len(s) \in Nat /\ \A i \in 1..Len(s) : s[i] \in Y
    OBVIOUS
<1>2. QED
    BY <1>1

\* Digits may be taken for numbers.
LEMMA DigitsAreNumbers ==
    ASSUME NEW s \in Seq(0..9)
    PROVE  s \in Seq(Nat) /\ s \in Seq(Int)
<1>1. 0..9 \subseteq Int /\ 0..9 \subseteq Nat
    OBVIOUS
<1>2. QED
    BY <1>1, SeqWidens

\* A function that reads digits from the left ends with their value.
Reads(f, digits, base, n) ==
    /\ f[0] = 0
    /\ \A i \in 1..n : f[i] = f[i - 1] * base + digits[i]

\* The function that reads digits exists: what its recursive definition needs.
LEMMA ReadExists ==
    ASSUME NEW digits, NEW base
    PROVE  \A n \in Nat : \E f :
              f = [i \in 0..n |-> IF i = 0 THEN 0 ELSE f[i - 1] * base + digits[i]]
<1> DEFINE Def(f, n) == f = [i \in 0..n |-> IF i = 0 THEN 0 ELSE f[i - 1] * base + digits[i]]
           S == {n \in Nat : \E f : Def(f, n)}
<1>1. 0 \in S
    <2>1. Def([i \in 0..0 |-> 0], 0)
        OBVIOUS
    <2>2. QED
        BY <2>1
<1>2. ASSUME NEW n \in Nat, n \in S
      PROVE  n + 1 \in S
    <2>1. PICK f : Def(f, n)
        BY <1>2
    <2> DEFINE g == [i \in 0..(n + 1) |-> IF i = n + 1 THEN f[n] * base + digits[n + 1] ELSE f[i]]
    <2>2. Def(g, n + 1)
        BY <2>1
    <2> HIDE DEF g
    <2>3. QED
        BY <2>2
<1> HIDE DEF S
<1>3. \A n \in Nat : n \in S
    BY <1>1, <1>2, Inductive
<1>4. QED
    BY <1>3 DEF S

\* Value is the last of what is read.
LEMMA ValueIsRead ==
    ASSUME NEW digits, Len(digits) \in Nat, NEW base
    PROVE  \E f : Reads(f, digits, base, Len(digits)) /\ Value(digits, base) = f[Len(digits)]
<1> DEFINE Def(f) ==
               f = [n \in 0..Len(digits) |-> IF n = 0 THEN 0 ELSE f[n - 1] * base + digits[n]]
           read == CHOOSE f : Def(f)
<1>1. Value(digits, base) = read[Len(digits)]
    BY DEF Value
<1>2. Def(read)
    BY ReadExists
<1> HIDE DEF read
<1>3. Reads(read, digits, base, Len(digits))
    BY <1>2 DEF Reads
<1>4. QED
    BY <1>1, <1>3

\* Digits that are the same are read as the same number.
LEMMA ReadUnique ==
    ASSUME NEW f, NEW g, NEW d, NEW e, NEW base, NEW n \in Nat,
           Reads(f, d, base, n), Reads(g, e, base, n), \A i \in 1..n : d[i] = e[i]
    PROVE  f[n] = g[n]
<1> DEFINE S == {m \in Nat : m <= n => f[m] = g[m]}
<1>1. 0 \in S
    BY DEF Reads
<1>2. ASSUME NEW m \in Nat, m \in S
      PROVE  m + 1 \in S
    BY <1>2 DEF Reads
<1> HIDE DEF S
<1>3. n \in S
    BY <1>1, <1>2, Inductive
<1>4. QED
    BY <1>3 DEF S

\* Nothing spells zero, and one more digit multiplies by the base.
LEMMA ValueOfEmpty ==
    ASSUME NEW base
    PROVE  Value(<<>>, base) = 0
<1>1. Len(<<>>) = 0
    OBVIOUS
<1>2. QED
    BY <1>1, ValueIsRead DEF Reads

\* One more digit multiplies by the base.
LEMMA ValueOfAppend ==
    ASSUME NEW s \in Seq(Nat), NEW d \in Nat, NEW base
    PROVE  Value(Append(s, d), base) = Value(s, base) * base + d
<1> DEFINE t == Append(s, d)
           n == Len(s)
<1>1. n \in Nat /\ Len(t) = n + 1 /\ t[n + 1] = d /\ \A i \in 1..n : t[i] = s[i]
    OBVIOUS
<1> HIDE DEF t, n
<1>2. PICK f : Reads(f, s, base, n) /\ Value(s, base) = f[n]
    BY <1>1, ValueIsRead DEF n
<1>3. PICK g : Reads(g, t, base, n + 1) /\ Value(t, base) = g[n + 1]
    BY <1>1, ValueIsRead
<1>4. Reads(g, t, base, n)
    BY <1>1, <1>3 DEF Reads
<1>5. g[n] = f[n]
    BY <1>1, <1>2, <1>4, ReadUnique
<1>6. g[n + 1] = g[n] * base + t[n + 1]
    BY <1>1, <1>3 DEF Reads
<1>7. QED
    BY <1>1, <1>2, <1>3, <1>5, <1>6 DEF t

\* Reading digits never leaves the naturals.
LEMMA ReadIsNat ==
    ASSUME NEW f, NEW s, NEW base \in Nat, NEW n \in Nat, Reads(f, s, base, n),
           \A i \in 1..n : s[i] \in Nat
    PROVE  \A i \in 0..n : f[i] \in Nat
<1> DEFINE S == {i \in Nat : i <= n => f[i] \in Nat}
<1>1. 0 \in S
    BY DEF Reads
<1>2. ASSUME NEW i \in Nat, i \in S
      PROVE  i + 1 \in S
    <2>1. CASE i + 1 <= n
        <3>1. f[i + 1] = f[i] * base + s[i + 1] /\ f[i] \in Nat /\ s[i + 1] \in Nat
            BY <1>2, <2>1 DEF Reads
        <3>2. f[i] * base \in Nat
            BY <3>1
        <3>3. QED
            BY <3>1, <3>2
    <2>2. QED
        BY <2>1
<1> HIDE DEF S
<1>3. \A i \in Nat : i \in S
    BY <1>1, <1>2, Inductive
<1>4. QED
    BY <1>3 DEF S

\* Digits spell a natural number.
LEMMA ValueIsNat ==
    ASSUME NEW s \in Seq(Nat), NEW base \in Nat
    PROVE  Value(s, base) \in Nat
<1>1. PICK f : Reads(f, s, base, Len(s)) /\ Value(s, base) = f[Len(s)]
    BY ValueIsRead
<1>2. QED
    BY <1>1, ReadIsNat

\* Zeros in front change nothing.
LEMMA ValueOfZeros ==
    ASSUME NEW s \in Seq(Nat), NEW k \in Nat, NEW base \in Nat
    PROVE  Value([i \in 1..k |-> 0] \o s, base) = Value(s, base)
<1> DEFINE z == [i \in 1..k |-> 0]
           t == z \o s
           n == Len(s)
<1>1. z \in Seq(Nat) /\ Len(z) = k /\ n \in Nat
    OBVIOUS
<1>2. /\ Len(t) = k + n
      /\ \A i \in 1..k : t[i] = 0
      /\ \A i \in 1..n : t[k + i] = s[i]
    BY <1>1
<1> HIDE DEF t, n, z
<1>3. PICK f : Reads(f, s, base, n) /\ Value(s, base) = f[n]
    BY <1>1, ValueIsRead DEF n
<1>4. PICK g : Reads(g, t, base, k + n) /\ Value(t, base) = g[k + n]
    <2>1. Len(t) \in Nat
        BY <1>1, <1>2
    <2>2. \E g : Reads(g, t, base, Len(t)) /\ Value(t, base) = g[Len(t)]
        BY <2>1, ValueIsRead
    <2>3. QED
        BY <1>2, <2>2
<1> DEFINE Z == {i \in Nat : i <= k => g[i] = 0}
<1>5. 0 \in Z
    BY <1>4 DEF Reads
<1>6. ASSUME NEW i \in Nat, i \in Z
      PROVE  i + 1 \in Z
    <2>1. CASE i + 1 <= k
        <3>1. g[i + 1] = g[i] * base + t[i + 1] /\ g[i] = 0 /\ t[i + 1] = 0
            BY <1>1, <1>2, <1>4, <1>6, <2>1 DEF Reads
        <3>2. QED
            BY <3>1
    <2>2. QED
        BY <2>1
<1> HIDE DEF Z
<1>7. g[k] = 0
    <2>1. k \in Z
        BY <1>5, <1>6, Inductive
    <2>2. QED
        BY <2>1 DEF Z
<1> DEFINE h == [i \in 0..n |-> g[k + i]]
<1>8. Reads(h, s, base, n)
    BY <1>1, <1>2, <1>4, <1>7 DEF Reads
<1> HIDE DEF h
<1>9. h[n] = f[n]
    BY <1>1, <1>3, <1>8, ReadUnique
<1>10. QED
    BY <1>1, <1>3, <1>4, <1>9 DEF h, t, z

\* Digits in base 10 are compared from the left.
LEMMA OneMoreDigit ==
    ASSUME NEW a \in Nat, NEW b \in Nat, NEW x \in 0..9, NEW y \in 0..9
    PROVE  /\ a * 10 + x = b * 10 + y <=> a = b /\ x = y
           /\ a * 10 + x < b * 10 + y <=> a < b \/ (a = b /\ x < y)
OBVIOUS

\* Digits are read in their order: the first that differ decide.
LEMMA ReadsCompare ==
    ASSUME NEW f, NEW g, NEW s, NEW t, NEW n \in Nat,
           Reads(f, s, 10, n), Reads(g, t, 10, n),
           \A i \in 1..n : s[i] \in 0..9 /\ t[i] \in 0..9
    PROVE  /\ f[n] = g[n] <=> \A i \in 1..n : s[i] = t[i]
           /\ f[n] < g[n] <=> \E i \in 1..n : s[i] < t[i] /\ \A j \in 1..(i - 1) : s[j] = t[j]
<1> DEFINE Same(m) == \A i \in 1..m : s[i] = t[i]
           Before(m) == \E i \in 1..m : s[i] < t[i] /\ \A j \in 1..(i - 1) : s[j] = t[j]
           S == {m \in Nat : m <= n => (f[m] = g[m] <=> Same(m)) /\ (f[m] < g[m] <=> Before(m))}
<1>1. 0 \in S
    BY DEF Reads
<1>2. ASSUME NEW m \in Nat, m \in S, m + 1 <= n
      PROVE  /\ f[m + 1] = g[m + 1] <=> Same(m + 1)
             /\ f[m + 1] < g[m + 1] <=> Before(m + 1)
    <2>1. f[m] \in Nat /\ g[m] \in Nat
        BY <1>2, ReadIsNat
    <2>2. s[m + 1] \in 0..9 /\ t[m + 1] \in 0..9
        BY <1>2
    <2>3. f[m + 1] = f[m] * 10 + s[m + 1] /\ g[m + 1] = g[m] * 10 + t[m + 1]
        BY <1>2 DEF Reads
    <2>4. /\ f[m + 1] = g[m + 1] <=> f[m] = g[m] /\ s[m + 1] = t[m + 1]
          /\ f[m + 1] < g[m + 1] <=> f[m] < g[m] \/ (f[m] = g[m] /\ s[m + 1] < t[m + 1])
        BY <2>1, <2>2, <2>3, OneMoreDigit
    <2>5. (f[m] = g[m] <=> Same(m)) /\ (f[m] < g[m] <=> Before(m))
        BY <1>2
    <2>6. Same(m + 1) <=> Same(m) /\ s[m + 1] = t[m + 1]
        OBVIOUS
    <2>7. Before(m + 1) <=> Before(m) \/ (Same(m) /\ s[m + 1] < t[m + 1])
        OBVIOUS
    <2>8. QED
        BY <2>4, <2>5, <2>6, <2>7
<1>3. ASSUME NEW m \in Nat, m \in S
      PROVE  m + 1 \in S
    BY <1>2, <1>3
<1> HIDE DEF S
<1>4. n \in S
    BY <1>1, <1>3, Inductive
<1>5. QED
    BY <1>4 DEF S

\* Of two numbers of as many digits the one is less that has the lesser digit where
\* they first differ.
LEMMA ValuesCompare ==
    ASSUME NEW s \in Seq(0..9), NEW t \in Seq(0..9), Len(s) = Len(t)
    PROVE  /\ Value(s, 10) = Value(t, 10) <=> s = t
           /\ Value(s, 10) < Value(t, 10)
                 <=> \E i \in 1..Len(s) : s[i] < t[i] /\ \A j \in 1..(i - 1) : s[j] = t[j]
<1> DEFINE n == Len(s)
<1>1. n \in Nat /\ \A i \in 1..n : s[i] \in 0..9 /\ t[i] \in 0..9
    OBVIOUS
<1>2. s = t <=> \A i \in 1..n : s[i] = t[i]
    OBVIOUS
<1>3. PICK f : Reads(f, s, 10, n) /\ Value(s, 10) = f[n]
    BY <1>1, ValueIsRead
<1>4. PICK g : Reads(g, t, 10, n) /\ Value(t, 10) = g[n]
    BY <1>1, ValueIsRead
<1> HIDE DEF n
<1>5. /\ f[n] = g[n] <=> \A i \in 1..n : s[i] = t[i]
      /\ f[n] < g[n] <=> \E i \in 1..n : s[i] < t[i] /\ \A j \in 1..(i - 1) : s[j] = t[j]
    <2>1. Reads(f, s, 10, n) /\ Reads(g, t, 10, n)
        BY <1>3, <1>4
    <2>2. n \in Nat
        BY <1>1
    <2>3. \A i \in 1..n : s[i] \in 0..9 /\ t[i] \in 0..9
        BY <1>1
    <2>4. QED
        BY ONLY <2>1, <2>2, <2>3, ReadsCompare
<1>6. QED
    BY <1>2, <1>3, <1>4, <1>5 DEF n

\* A number is its last digit and ten times the rest.
LEMMA LastDigit ==
    ASSUME NEW m \in Nat
    PROVE  /\ m \div 10 \in Nat /\ m % 10 \in 0..9
           /\ (m \div 10) * 10 + (m % 10) = m
           /\ m >= 10 => m \div 10 < m
OBVIOUS

\* What Digits spells is read back as it was, and in base 10.
LEMMA SpellExists ==
    \A n \in Nat : \E f :
        f = [m \in 0..n |-> IF m < 10 THEN <<m>> ELSE Append(f[m \div 10], m % 10)]
<1> DEFINE Def(f, n) ==
               f = [m \in 0..n |-> IF m < 10 THEN <<m>> ELSE Append(f[m \div 10], m % 10)]
           S == {n \in Nat : \E f : Def(f, n)}
<1>1. 0 \in S
    <2>1. Def([m \in 0..0 |-> <<m>>], 0)
        OBVIOUS
    <2>2. QED
        BY <2>1
<1>2. ASSUME NEW n \in Nat, n \in S
      PROVE  n + 1 \in S
    <2>1. PICK f : Def(f, n)
        BY <1>2
    <2> DEFINE k == n + 1
               g == [m \in 0..k |-> IF m # k THEN f[m]
                                    ELSE IF k < 10 THEN <<k>> ELSE Append(f[k \div 10], k % 10)]
    <2>2. \A m \in 0..k : m >= 10 => m \div 10 \in 0..n /\ m \div 10 < m
        BY LastDigit
    <2>3. \A m \in 0..n : f[m] = IF m < 10 THEN <<m>> ELSE Append(f[m \div 10], m % 10)
        BY <2>1
    <2>4. \A m \in 0..n : g[m] = f[m]
        OBVIOUS
    <2>5. ASSUME NEW m \in 0..k
          PROVE  g[m] = IF m < 10 THEN <<m>> ELSE Append(g[m \div 10], m % 10)
        <3>1. CASE m = k
            BY <2>2, <2>4, <3>1
        <3>2. CASE m # k
            <4>1. m \in 0..n
                BY <3>2
            <4>2. m >= 10 => m \div 10 \in 0..n
                BY <2>2
            <4> HIDE DEF g
            <4>3. QED
                BY <2>3, <2>4, <4>1, <4>2
        <3>3. QED
            BY <3>1, <3>2
    <2>6. Def(g, k)
        BY <2>5
    <2> HIDE DEF g
    <2>7. \E h : Def(h, k)
        BY ONLY <2>6
    <2> HIDE DEF Def
    <2>8. QED
        BY <2>7
<1> HIDE DEF S
<1>3. \A n \in Nat : n \in S
    BY <1>1, <1>2, Inductive
<1>4. QED
    BY <1>3 DEF S

\* The digits of a number spell it: what is formatted is parsed as what it was.
LEMMA DigitsSpell ==
    ASSUME NEW n \in Nat
    PROVE  /\ Digits(n) \in Seq(0..9)
           /\ Digits(n) # <<>>
           /\ Value(Digits(n), 10) = n
<1> DEFINE Def(f) ==
               f = [m \in 0..n |-> IF m < 10 THEN <<m>> ELSE Append(f[m \div 10], m % 10)]
           spelled == CHOOSE f : Def(f)
           Good(m) == spelled[m] \in Seq(0..9) /\ spelled[m] # <<>> /\ Value(spelled[m], 10) = m
           Bad == {m \in 0..n : ~Good(m)}
<1>1. Digits(n) = spelled[n]
    BY DEF Digits
<1>2. Def(spelled)
    BY SpellExists
<1> HIDE DEF spelled
<1>3. \A m \in 0..n : spelled[m] = IF m < 10 THEN <<m>> ELSE Append(spelled[m \div 10], m % 10)
    BY <1>2
<1>4. ASSUME Bad # {}
      PROVE  FALSE
    <2>1. Bad \subseteq Nat
        OBVIOUS
    <2> HIDE DEF Bad
    <2>2. PICK m \in Bad : \A k \in Bad : m <= k
        BY <1>4, <2>1, Least
    <2>3. m \in 0..n /\ ~Good(m) /\ \A k \in 0..(m - 1) : Good(k)
        BY <2>2 DEF Bad
    <2>4. CASE m < 10
        <3>1. spelled[m] = <<m>> /\ m \in 0..9
            <4>1. m \in 0..n
                BY <2>3
            <4>2. spelled[m] = IF m < 10 THEN <<m>> ELSE Append(spelled[m \div 10], m % 10)
                BY <1>3, <4>1
            <4>3. spelled[m] = <<m>>
                BY <4>2, <2>4
            <4>4. m \in 0..9
                BY <4>1, <2>4
            <4>5. QED
                BY <4>3, <4>4
        <3>2. <<m>> = Append(<<>>, m) /\ <<>> \in Seq(Nat) /\ m \in Nat
            BY <3>1
        <3>3. Value(<<m>>, 10) = Value(<<>>, 10) * 10 + m
            BY <3>2, ValueOfAppend
        <3>4. Value(<<m>>, 10) = m
            BY <3>2, <3>3, ValueOfEmpty
        <3>5. QED
            BY <2>3, <3>1, <3>4
    <2>5. CASE ~(m < 10)
        <3> DEFINE q == m \div 10
                   d == m % 10
        <3>1. q \in 0..(m - 1) /\ d \in 0..9 /\ q * 10 + d = m
            <4>1. m \in Nat /\ m >= 10
                BY <2>3, <2>5
            <4>2. q \in Nat /\ d \in 0..9 /\ q * 10 + d = m /\ q < m
                BY <4>1, LastDigit
            <4> HIDE DEF q, d
            <4>3. QED
                BY <4>1, <4>2
        <3>2. spelled[m] = Append(spelled[q], d)
            BY <1>3, <2>3, <2>5
        <3> HIDE DEF q, d
        <3>3. Good(q)
            BY <2>3, <3>1
        <3>4. spelled[q] \in Seq(Nat) /\ d \in Nat
            BY <3>1, <3>3
        <3>5. Value(spelled[m], 10) = Value(spelled[q], 10) * 10 + d
            BY <3>2, <3>4, ValueOfAppend
        <3>6. spelled[m] \in Seq(0..9) /\ spelled[m] # <<>>
            BY <3>1, <3>2, <3>3
        <3>7. QED
            BY <2>3, <3>1, <3>3, <3>5, <3>6
    <2>6. QED
        BY <2>4, <2>5
<1>5. Good(n)
    BY <1>4
<1>6. QED
    BY <1>1, <1>5
\* Sets that a function pairs off are of one size.
LEMMA SameNumber ==
    ASSUME NEW A, NEW B, IsFiniteSet(A), NEW p,
           \A a \in A : p[a] \in B,
           \A a, b \in A : p[a] = p[b] => a = b,
           \A b \in B : \E a \in A : p[a] = b
    PROVE  Cardinality(A) = Cardinality(B)
<1> DEFINE f == [a \in A |-> p[a]]
<1>1. f \in [A -> B] /\ \A a \in A : f[a] = p[a]
    OBVIOUS
<1> HIDE DEF f
<1>2. f \in Bijection(A, B)
    <2>1. f \in Injection(A, B)
        BY <1>1 DEF Injection, IsInjective
    <2>2. f \in Surjection(A, B)
        BY <1>1 DEF Surjection
    <2>3. QED
        BY <2>1, <2>2 DEF Bijection
<1>3. QED
    BY <1>2, FS_Bijection DEF ExistsBijection

\* What a sequence holds after one more element, and where.
LEMMA Appended ==
    ASSUME NEW X, NEW s \in Seq(X), NEW x \in X
    PROVE  /\ Append(s, x) \in Seq(X)
           /\ Len(s) \in Nat /\ Len(Append(s, x)) = Len(s) + 1
           /\ \A i \in 1..Len(s) : Append(s, x)[i] = s[i]
           /\ Append(s, x)[Len(s) + 1] = x
OBVIOUS


\* Digits mean more in base 16 than in base 10: a number that does not fit when it is read
\* as decimal does not fit as hexadecimal either.
LEMMA ValueGrows ==
    ASSUME NEW s \in Seq(Nat)
    PROVE  Value(s, 10) <= Value(s, 16)
<1> DEFINE n == Len(s)
<1>1. n \in Nat /\ \A i \in 1..n : s[i] \in Nat
    OBVIOUS
<1>2. PICK f : Reads(f, s, 10, n) /\ Value(s, 10) = f[n]
    BY <1>1, ValueIsRead
<1>3. PICK g : Reads(g, s, 16, n) /\ Value(s, 16) = g[n]
    BY <1>1, ValueIsRead
<1> HIDE DEF n
<1>4. \A i \in 0..n : f[i] \in Nat /\ g[i] \in Nat
    BY <1>1, <1>2, <1>3, ReadIsNat
<1> DEFINE S == {i \in Nat : i <= n => f[i] <= g[i]}
<1>5. 0 \in S
    BY <1>2, <1>3 DEF Reads
<1>6. ASSUME NEW i \in Nat, i \in S
      PROVE  i + 1 \in S
    <2>1. CASE i + 1 <= n
        <3>1. i \in 0..n /\ i + 1 \in 1..n /\ (i + 1) - 1 = i
            BY <1>1, <2>1
        <3>2. f[i + 1] = f[i] * 10 + s[i + 1] /\ g[i + 1] = g[i] * 16 + s[i + 1]
            BY <1>2, <1>3, <3>1 DEF Reads
        <3>3. f[i] \in Nat /\ g[i] \in Nat /\ s[i + 1] \in Nat /\ f[i] <= g[i]
            BY <1>1, <1>4, <1>6, <2>1, <3>1
        <3>4. QED
            BY <3>2, <3>3
    <2>2. QED
        BY <2>1
<1> HIDE DEF S
<1>7. n \in S
    BY <1>1, <1>5, <1>6, Inductive
<1>8. QED
    BY <1>1, <1>2, <1>3, <1>7 DEF S
=============================================================================
