--------------------------- MODULE FilterTheorems ----------------------------
(***************************************************************************)
(* What holds of lists, of what Retain leaves of them and of what is in    *)
(* them once, for every list.  Induction over lists is here a set of lists *)
(* that has the empty one and with each the ones that are longer by one.   *)
(***************************************************************************)
EXTENDS Filters, SequenceTheorems, NaturalsInduction, WellFoundedInduction, TLAPS

(***************************************************************************)
(* Induction, for numbers and for lists.                                   *)
(***************************************************************************)
\* A set of numbers that is not empty has a least one.
LEMMA LeastExists ==
    ASSUME NEW S \in SUBSET Nat, S # {}
    PROVE  \E m \in S : \A n \in S : m <= n
<1> DEFINE R == OpToRel(<, Nat)
<1>1. IsWellFoundedOn(R, Nat)
  BY NatLessThanWellFounded
<1>2. \A i, j \in Nat : <<i, j>> \in R <=> i < j
  BY DEF OpToRel
<1> HIDE DEF R
<1>3. PICK i \in S : \A j \in S : ~(<<j, i>> \in R)
  BY <1>1, WFMin
<1>4. ASSUME NEW j \in S PROVE i <= j
  <2>1. i \in Nat /\ j \in Nat
    OBVIOUS
  <2>2. ~(j < i)
    BY <1>2, <1>3, <2>1
  <2> QED BY <2>1, <2>2
<1> QED BY <1>4

\* A set of numbers that has 0 and, with each below N, the next, has all up to N.
LEMMA UpTo ==
    ASSUME NEW N \in Nat, NEW P, 0 \in P, \A n \in 0 .. N - 1 : n \in P => n + 1 \in P
    PROVE  0 .. N \subseteq P
<1> DEFINE Out == {n \in 0 .. N : n \notin P}
<1> SUFFICES ASSUME Out # {} PROVE FALSE
  OBVIOUS
<1>1. Out \in SUBSET Nat
  OBVIOUS
<1>2. PICK m \in Out : \A n \in Out : m <= n
  BY <1>1, LeastExists
<1>3. m \in 1 .. N /\ m - 1 \in 0 .. N - 1
  BY <1>2
<1>4. m - 1 \in P
  BY <1>2, <1>3
<1> QED BY <1>2, <1>3, <1>4

\* A set of sequences that has the empty one and, with each, those that are one longer.
LEMMA SequencesAll ==
    ASSUME NEW X, NEW P, <<>> \in P, \A s \in Seq(X), x \in X : s \in P => Append(s, x) \in P
    PROVE  Seq(X) \subseteq P
<1> SUFFICES ASSUME NEW s \in Seq(X) PROVE s \in P
  OBVIOUS
<1> DEFINE N == Len(s)
           Q == {n \in 0 .. N : SubSeq(s, 1, n) \in P}
<1>1. 0 \in Q
  <2>1. SubSeq(s, 1, 0) = <<>>
    BY SubSeqEmpty
  <2>2. 0 \in 0 .. N
    OBVIOUS
  <2> QED BY <2>1, <2>2, Zenon
<1>2. ASSUME NEW n \in 0 .. N - 1, n \in Q PROVE n + 1 \in Q
  <2> DEFINE t == SubSeq(s, 1, n)
  <2>1. s[n + 1] \in X /\ t \in Seq(X) /\ n + 1 \in 0 .. N
    BY SubSeqProperties
  <2>2. SubSeq(s, 1, n + 1) = Append(t, s[n + 1])
    <3>1. SubSeq(s, 1, n + 1) = Append(SubSeq(s, 1, (n + 1) - 1), s[n + 1])
      BY SubSeqRecursiveSecond
    <3>2. (n + 1) - 1 = n
      OBVIOUS
    <3> QED BY <3>1, <3>2
  <2>3. t \in P
    BY <1>2
  <2> HIDE DEF t
  <2>4. Append(t, s[n + 1]) \in P
    BY <2>1, <2>3
  <2> QED BY <2>1, <2>2, <2>4
<1>3. N \in 0 .. N /\ N \in Nat
  OBVIOUS
<1>4. 0 .. N \subseteq Q
  <2> HIDE DEF Q
  <2> QED BY <1>1, <1>2, <1>3, UpTo
<1>5. SubSeq(s, 1, N) = s
  BY SubSeqFull
<1> QED BY <1>3, <1>4, <1>5

(***************************************************************************)
(* Retain, by what it leaves of each prefix.                               *)
(***************************************************************************)
\* k[i] is what is left of the first i elements.
Leaves(k, s, S) ==
    /\ k[0] = <<>>
    /\ \A i \in 1 .. Len(s) : k[i] = IF s[i] \in S THEN Append(k[i - 1], s[i]) ELSE k[i - 1]

\* There are such k: the recursion of Retain comes to an end.
LEMMA LeavesExists ==
    ASSUME NEW X, NEW S, NEW s \in Seq(X)
    PROVE  \E k \in [0 .. Len(s) -> Seq(X)] : Leaves(k, s, S)
<1> DEFINE P == {t \in Seq(X) : \E k \in [0 .. Len(t) -> Seq(X)] : Leaves(k, t, S)}
<1>1. <<>> \in P
  <2>1. [i \in 0 .. 0 |-> <<>>] \in [0 .. Len(<<>>) -> Seq(X)]
    OBVIOUS
  <2>2. Leaves([i \in 0 .. 0 |-> <<>>], <<>>, S)
    BY DEF Leaves
  <2>3. <<>> \in Seq(X)
    OBVIOUS
  <2> QED BY <2>1, <2>2, <2>3, Zenon
<1>2. ASSUME NEW t \in Seq(X), NEW x \in X, t \in P PROVE Append(t, x) \in P
  <2> DEFINE u == Append(t, x)
  <2>1. PICK k \in [0 .. Len(t) -> Seq(X)] : Leaves(k, t, S)
    BY <1>2
  <2> DEFINE n == Len(t)
             last == IF x \in S THEN Append(k[n], x) ELSE k[n]
             l == [i \in 0 .. n + 1 |-> IF i = n + 1 THEN last ELSE k[i]]
  <2>2. /\ u \in Seq(X) /\ Len(u) = n + 1 /\ n \in Nat /\ u[n + 1] = x
        /\ \A i \in 1 .. n : u[i] = t[i]
    OBVIOUS
  <2>3. last \in Seq(X)
    BY <2>2
  <2>4. l \in [0 .. Len(u) -> Seq(X)]
    BY <2>2, <2>3
  <2>5. l[0] = <<>>
    BY <2>1, <2>2 DEF Leaves
  <2>6. ASSUME NEW i \in 1 .. n
        PROVE  l[i] = IF u[i] \in S THEN Append(l[i - 1], u[i]) ELSE l[i - 1]
    <3>1. l[i] = k[i] /\ l[i - 1] = k[i - 1] /\ u[i] = t[i]
      BY <2>2
    <3> QED BY <2>1, <3>1 DEF Leaves
  <2>7. l[n + 1] = IF u[n + 1] \in S THEN Append(l[n], u[n + 1]) ELSE l[n]
    BY <2>2
  <2> HIDE DEF l, u
  <2>8. Leaves(l, u, S)
    <3>1. \A i \in 1 .. Len(u) : i \in 1 .. n \/ i = n + 1
      BY <2>2
    <3>2. (n + 1) - 1 = n
      BY <2>2
    <3> QED BY <2>2, <2>5, <2>6, <2>7, <3>1, <3>2 DEF Leaves
  <2> QED BY <2>2, <2>4, <2>8 DEF u
<1> HIDE DEF P
<1>3. Seq(X) \subseteq P
  BY <1>1, <1>2, SequencesAll
<1> QED BY <1>3 DEF P

\* What Retain chooses is one of them.
LEMMA RetainIs ==
    ASSUME NEW X, NEW S, NEW s \in Seq(X)
    PROVE  \E k \in [0 .. Len(s) -> Seq(X)] : Leaves(k, s, S) /\ Retain(s, S) = k[Len(s)]
<1> DEFINE Step(k, i) == IF i = 0 THEN <<>>
                         ELSE IF s[i] \in S THEN Append(k[i - 1], s[i]) ELSE k[i - 1]
           F(k) == [i \in 0 .. Len(s) |-> Step(k, i)]
           kept == CHOOSE k : k = F(k)
<1> HIDE DEF Step
<1>1. PICK m \in [0 .. Len(s) -> Seq(X)] : Leaves(m, s, S)
  BY LeavesExists
<1>2. ASSUME NEW i \in 0 .. Len(s) PROVE m[i] = Step(m, i)
  <2>1. CASE i = 0
    BY <1>1, <2>1, Zenon DEF Leaves, Step
  <2>2. CASE i # 0
    <3>1. i \in 1 .. Len(s)
      BY <2>2
    <3> QED BY <1>1, <2>2, <3>1, Zenon DEF Leaves, Step
  <2> QED BY <2>1, <2>2
<1>3. kept = F(kept)
  <2>1. m = F(m)
    BY <1>2
  <2> HIDE DEF F
  <2> QED BY <2>1, Zenon
<1>4. DOMAIN kept = 0 .. Len(s) /\ (\A i \in 0 .. Len(s) : kept[i] = Step(kept, i))
      /\ kept = [i \in 0 .. Len(s) |-> kept[i]]
  <2> HIDE DEF kept
  <2> QED BY <1>3
<1> HIDE DEF kept
<1>5. Leaves(kept, s, S)
  <2>1. Len(s) \in Nat
    OBVIOUS
  <2>2. kept[0] = <<>>
    <3>1. 0 \in 0 .. Len(s)
      BY <2>1
    <3> QED BY <1>4, <3>1, Zenon DEF Step
  <2>3. ASSUME NEW i \in 1 .. Len(s)
        PROVE  kept[i] = IF s[i] \in S THEN Append(kept[i - 1], s[i]) ELSE kept[i - 1]
    <3>1. i \in 0 .. Len(s) /\ i # 0
      OBVIOUS
    <3>2. kept[i] = Step(kept, i)
      BY <1>4, <3>1
    <3> QED BY <3>1, <3>2 DEF Step
  <2> QED BY <2>2, <2>3 DEF Leaves
<1>6. kept \in [0 .. Len(s) -> Seq(X)]
  <2> DEFINE Q == {i \in 0 .. Len(s) : kept[i] \in Seq(X)}
  <2>1. 0 \in Q
    <3>1. 0 \in 0 .. Len(s) /\ <<>> \in Seq(X)
      OBVIOUS
    <3> QED BY <1>5, <3>1, Zenon DEF Leaves
  <2>2. ASSUME NEW n \in 0 .. Len(s) - 1, n \in Q PROVE n + 1 \in Q
    <3>1. n + 1 \in 1 .. Len(s) /\ (n + 1) - 1 = n /\ s[n + 1] \in X /\ n + 1 \in 0 .. Len(s)
      OBVIOUS
    <3>2. kept[n + 1] = IF s[n + 1] \in S THEN Append(kept[n], s[n + 1]) ELSE kept[n]
      BY <1>5, <3>1 DEF Leaves
    <3>3. kept[n] \in Seq(X)
      BY <2>2
    <3>4. Append(kept[n], s[n + 1]) \in Seq(X)
      BY <3>1, <3>3
    <3> QED BY <3>1, <3>2, <3>3, <3>4
  <2>3. 0 .. Len(s) \subseteq Q
    <3>1. Len(s) \in Nat
      OBVIOUS
    <3> HIDE DEF Q
    <3> QED BY <2>1, <2>2, <3>1, UpTo
  <2> QED BY <1>4, <2>3
<1>7. Retain(s, S) = kept[Len(s)]
  BY DEF Retain, kept, Step
<1> QED BY <1>5, <1>6, <1>7

\* What is left of the first elements does not depend on the others.
LEMMA LeavesAgree ==
    ASSUME NEW S, NEW n \in Nat, NEW s, NEW t, n <= Len(s), n <= Len(t), Len(s) \in Nat, Len(t) \in Nat,
           \A i \in 1 .. n : s[i] = t[i],
           NEW k, NEW l, Leaves(k, s, S), Leaves(l, t, S)
    PROVE  k[n] = l[n]
<1> DEFINE Q == {i \in 0 .. n : k[i] = l[i]}
<1>1. 0 \in Q
  BY DEF Leaves
<1>2. ASSUME NEW i \in 0 .. n - 1, i \in Q PROVE i + 1 \in Q
  <2>1. i + 1 \in 1 .. Len(s) /\ i + 1 \in 1 .. Len(t) /\ (i + 1) - 1 = i /\ i + 1 \in 1 .. n
    OBVIOUS
  <2> QED BY <1>2, <2>1 DEF Leaves
<1>3. 0 .. n \subseteq Q
  <2> HIDE DEF Q
  <2> QED BY <1>1, <1>2, UpTo
<1> QED BY <1>3

\* Of nothing nothing is left.
LEMMA RetainEmpty ==
    ASSUME NEW S
    PROVE  Retain(<<>>, S) = <<>>
<1>0. <<>> \in Seq({}) /\ Len(<<>>) = 0
  OBVIOUS
<1>1. PICK e \in Seq({}) : e = <<>> /\ Len(e) = 0
  BY <1>0, Zenon
<1>2. PICK k : Leaves(k, e, S) /\ Retain(e, S) = k[Len(e)]
  BY RetainIs
<1> QED BY <1>1, <1>2, Zenon DEF Leaves

\* One element more is kept or not, and changes nothing else.
LEMMA RetainStep ==
    ASSUME NEW X, NEW S, NEW s \in Seq(X), NEW x \in X
    PROVE  /\ x \in S => Retain(Append(s, x), S) = Append(Retain(s, S), x)
           /\ x \notin S => Retain(Append(s, x), S) = Retain(s, S)
<1> DEFINE t == Append(s, x)
           n == Len(s)
<1>1. t \in Seq(X) /\ Len(t) = n + 1 /\ n \in Nat /\ t[n + 1] = x /\ \A i \in 1 .. n : s[i] = t[i]
  OBVIOUS
<1> HIDE DEF t
<1>2. PICK k : Leaves(k, s, S) /\ Retain(s, S) = k[n]
  BY RetainIs
<1>3. PICK l : Leaves(l, t, S) /\ Retain(t, S) = l[n + 1]
  BY <1>1, RetainIs
<1>4. k[n] = l[n]
  BY <1>1, <1>2, <1>3, LeavesAgree
<1>5. l[n + 1] = IF x \in S THEN Append(l[n], x) ELSE l[n]
  <2>1. n + 1 \in 1 .. Len(t) /\ (n + 1) - 1 = n
    BY <1>1
  <2> QED BY <1>1, <1>3, <2>1 DEF Leaves
<1> QED BY <1>2, <1>3, <1>4, <1>5 DEF t

\* What is left are elements of the set, and no more than there were.
LEMMA RetainLeavesLess ==
    ASSUME NEW X, NEW S, NEW s \in Seq(X)
    PROVE  /\ Retain(s, S) \in Seq(X \cap S) /\ Retain(s, S) \in Seq(X)
           /\ Len(Retain(s, S)) <= Len(s)
<1> DEFINE P == {t \in Seq(X) : Retain(t, S) \in Seq(X \cap S) /\ Len(Retain(t, S)) <= Len(t)}
<1>1. <<>> \in P
  <2>1. <<>> \in Seq(X) /\ <<>> \in Seq(X \cap S) /\ Len(<<>>) <= Len(<<>>)
    OBVIOUS
  <2> QED BY <2>1, RetainEmpty, Zenon
<1>2. ASSUME NEW t \in Seq(X), NEW x \in X, t \in P PROVE Append(t, x) \in P
  <2> DEFINE r == Retain(t, S)
  <2>1. r \in Seq(X \cap S) /\ Len(r) <= Len(t)
    BY <1>2
  <2>2. Append(t, x) \in Seq(X) /\ Len(Append(t, x)) = Len(t) + 1 /\ Len(t) \in Nat
    OBVIOUS
  <2>3. CASE x \in S
    <3>1. Retain(Append(t, x), S) = Append(r, x)
      BY <2>3, RetainStep
    <3> HIDE DEF r
    <3>2. Append(r, x) \in Seq(X \cap S) /\ Len(Append(r, x)) = Len(r) + 1 /\ Len(r) \in Nat
      BY <2>1, <2>3
    <3> QED BY <2>1, <2>2, <3>1, <3>2
  <2>4. CASE x \notin S
    <3>1. Retain(Append(t, x), S) = r
      BY <2>4, RetainStep
    <3> HIDE DEF r
    <3>2. Len(r) \in Nat
      BY <2>1
    <3> QED BY <2>1, <2>2, <3>1, <3>2
  <2> QED BY <2>3, <2>4
<1> HIDE DEF P
<1>3. Seq(X) \subseteq P
  BY <1>1, <1>2, SequencesAll
<1>4. Retain(s, S) \in Seq(X \cap S) /\ Len(Retain(s, S)) <= Len(s)
  BY <1>3 DEF P
<1>5. Seq(X \cap S) \subseteq Seq(X)
  OBVIOUS
<1> QED BY <1>4, <1>5

\* Retaining twice is retaining what is in both: a list that is cleaned often, as those of
\* the rate limiter are, is as one that is cleaned once.
THEOREM RetainTwice ==
    ASSUME NEW X, NEW S, NEW T, NEW s \in Seq(X)
    PROVE  Retain(Retain(s, S), T) = Retain(s, S \cap T)
<1> DEFINE P == {t \in Seq(X) : Retain(Retain(t, S), T) = Retain(t, S \cap T)}
<1>1. <<>> \in P
  BY RetainEmpty
<1>2. ASSUME NEW t \in Seq(X), NEW x \in X, t \in P PROVE Append(t, x) \in P
  <2>1. Retain(t, S) \in Seq(X)
    BY RetainLeavesLess, Zenon
  <2>7. Append(t, x) \in Seq(X)
    OBVIOUS
  <2>2. Retain(Retain(t, S), T) = Retain(t, S \cap T)
    BY <1>2
  <2>3. CASE x \in S /\ x \in T
    <3>1. Retain(Append(t, x), S) = Append(Retain(t, S), x)
      BY <2>3, RetainStep
    <3>2. Retain(Append(Retain(t, S), x), T) = Append(Retain(Retain(t, S), T), x)
      BY <2>1, <2>3, RetainStep
    <3>3. Retain(Append(t, x), S \cap T) = Append(Retain(t, S \cap T), x)
      BY <2>3, RetainStep
    <3> QED BY <2>2, <2>7, <3>1, <3>2, <3>3
  <2>4. CASE x \in S /\ x \notin T
    <3>1. Retain(Append(t, x), S) = Append(Retain(t, S), x)
      BY <2>4, RetainStep
    <3>2. Retain(Append(Retain(t, S), x), T) = Retain(Retain(t, S), T)
      BY <2>1, <2>4, RetainStep
    <3>3. Retain(Append(t, x), S \cap T) = Retain(t, S \cap T)
      BY <2>4, RetainStep
    <3> QED BY <2>2, <2>7, <3>1, <3>2, <3>3
  <2>5. CASE x \notin S
    <3>1. Retain(Append(t, x), S) = Retain(t, S)
      BY <2>5, RetainStep
    <3>2. Retain(Append(t, x), S \cap T) = Retain(t, S \cap T)
      BY <2>5, RetainStep
    <3> QED BY <2>2, <2>7, <3>1, <3>2
  <2> QED BY <2>3, <2>4, <2>5
<1> HIDE DEF P
<1>3. Seq(X) \subseteq P
  BY <1>1, <1>2, SequencesAll
<1> QED BY <1>3 DEF P

\* Sets that agree on the elements leave the same.
LEMMA RetainSame ==
    ASSUME NEW X, NEW S, NEW T, S \cap X = T \cap X, NEW s \in Seq(X)
    PROVE  Retain(s, S) = Retain(s, T)
<1> DEFINE P == {t \in Seq(X) : Retain(t, S) = Retain(t, T)}
<1>1. <<>> \in P
  BY RetainEmpty
<1>2. ASSUME NEW t \in Seq(X), NEW x \in X, t \in P PROVE Append(t, x) \in P
  <2>1. CASE x \in S
    <3>1. Retain(Append(t, x), S) = Append(Retain(t, S), x)
      BY <2>1, RetainStep
    <3>2. Retain(Append(t, x), T) = Append(Retain(t, T), x)
      BY <2>1, RetainStep
    <3> QED BY <1>2, <3>1, <3>2
  <2>2. CASE x \notin S
    <3>1. Retain(Append(t, x), S) = Retain(t, S)
      BY <2>2, RetainStep
    <3>2. Retain(Append(t, x), T) = Retain(t, T)
      BY <2>2, RetainStep
    <3> QED BY <1>2, <3>1, <3>2
  <2> QED BY <2>1, <2>2
<1> HIDE DEF P
<1>3. Seq(X) \subseteq P
  BY <1>1, <1>2, SequencesAll
<1> QED BY <1>3 DEF P

\* Each element replaced by its image.
Mapped(s, f) == [i \in DOMAIN s |-> f[s[i]]]

\* The images are as many.
LEMMA MappedIsSeq ==
    ASSUME NEW X, NEW Y, NEW f, \A a \in X : f[a] \in Y, NEW s \in Seq(X)
    PROVE  Mapped(s, f) \in Seq(Y) /\ Len(Mapped(s, f)) = Len(s)
  BY DEF Mapped

\* They are made one by one.
LEMMA MappedAppend ==
    ASSUME NEW X, NEW f, NEW s \in Seq(X), NEW x \in X
    PROVE  Mapped(Append(s, x), f) = Append(Mapped(s, f), f[x])
<1> DEFINE Y == {f[a] : a \in X}
<1>1. \A a \in X : f[a] \in Y
  OBVIOUS
<1> HIDE DEF Y
<1>2. Mapped(s, f) \in Seq(Y) /\ Len(Mapped(s, f)) = Len(s)
  BY <1>1 DEF Mapped
<1> QED BY <1>1, <1>2 DEF Mapped

\* What is mapped and then retained is what is retained by its image and then mapped.
LEMMA RetainMapped ==
    ASSUME NEW X, NEW f, NEW S, NEW T, \A a \in X : a \in S <=> f[a] \in T, NEW s \in Seq(X)
    PROVE  Retain(Mapped(s, f), T) = Mapped(Retain(s, S), f)
<1> DEFINE Y == {f[a] : a \in X}
           P == {t \in Seq(X) : Retain(Mapped(t, f), T) = Mapped(Retain(t, S), f)}
<1>0. \A a \in X : f[a] \in Y
  OBVIOUS
<1> HIDE DEF Y
<1>1. <<>> \in P
  <2>1. Mapped(<<>>, f) = <<>>
    BY DEF Mapped
  <2> QED BY <2>1, RetainEmpty
<1>2. ASSUME NEW t \in Seq(X), NEW x \in X, t \in P PROVE Append(t, x) \in P
  <2>1. Append(t, x) \in Seq(X) /\ f[x] \in Y /\ (x \in S <=> f[x] \in T)
    BY <1>0
  <2>2. Retain(Mapped(t, f), T) = Mapped(Retain(t, S), f)
    BY <1>2
  <2>3. Retain(t, S) \in Seq(X)
    BY RetainLeavesLess, Zenon
  <2>4. Mapped(t, f) \in Seq(Y)
    BY <1>0, MappedIsSeq
  <2>7. Mapped(Append(t, x), f) = Append(Mapped(t, f), f[x])
    BY MappedAppend
  <2>5. CASE x \in S
    <3>1. Retain(Append(t, x), S) = Append(Retain(t, S), x)
      BY <2>5, RetainStep
    <3>2. Retain(Append(Mapped(t, f), f[x]), T) = Append(Retain(Mapped(t, f), T), f[x])
      BY <2>1, <2>4, <2>5, RetainStep
    <3>3. Mapped(Append(Retain(t, S), x), f) = Append(Mapped(Retain(t, S), f), f[x])
      BY <2>3, MappedAppend
    <3> QED BY <2>1, <2>2, <2>7, <3>1, <3>2, <3>3
  <2>6. CASE x \notin S
    <3>1. Retain(Append(t, x), S) = Retain(t, S)
      BY <2>6, RetainStep
    <3>2. Retain(Append(Mapped(t, f), f[x]), T) = Retain(Mapped(t, f), T)
      BY <2>1, <2>4, <2>6, RetainStep
    <3> QED BY <2>1, <2>2, <2>7, <3>1, <3>2
  <2> QED BY <2>5, <2>6
<1> HIDE DEF P
<1>3. Seq(X) \subseteq P
  BY <1>1, <1>2, SequencesAll
<1> QED BY <1>3 DEF P

(***************************************************************************)
(* What is in a list, and what is in it once.                              *)
(***************************************************************************)
OnlyOnce(s) == \A i, j \in DOMAIN s : s[i] = s[j] => i = j

\* What Append does, place by place.
LEMMA Appended ==
    ASSUME NEW X, NEW s \in Seq(X), NEW x \in X
    PROVE  /\ Append(s, x) \in Seq(X) /\ Len(Append(s, x)) = Len(s) + 1 /\ Len(s) \in Nat
           /\ DOMAIN s = 1 .. Len(s) /\ DOMAIN Append(s, x) = 1 .. Len(s) + 1
           /\ Append(s, x)[Len(s) + 1] = x
           /\ \A i \in 1 .. Len(s) : Append(s, x)[i] = s[i]
  OBVIOUS

\* What is new is in the list once.
LEMMA OnlyOnceAppended ==
    ASSUME NEW X, NEW s \in Seq(X), NEW x \in X, OnlyOnce(s), x \notin Elements(s)
    PROVE  OnlyOnce(Append(s, x))
  BY Appended DEF OnlyOnce, Elements

\* And adds itself to the elements.
LEMMA ElementsAppended ==
    ASSUME NEW X, NEW s \in Seq(X), NEW x \in X
    PROVE  Elements(Append(s, x)) = Elements(s) \cup {x}
<1> DEFINE t == Append(s, x)
<1>1. /\ DOMAIN s = 1 .. Len(s) /\ DOMAIN t = 1 .. Len(s) + 1 /\ Len(s) \in Nat
      /\ t[Len(s) + 1] = x /\ \A i \in 1 .. Len(s) : t[i] = s[i]
  BY Appended
<1> HIDE DEF t
<1>2. Elements(t) = Elements(s) \cup {x}
  BY <1>1 DEF Elements
<1> QED BY <1>2 DEF t

\* What is retained is what is in the set, once if it was there once, and what is at the
\* front stays there.
THEOREM RetainElements ==
    ASSUME NEW X, NEW S, NEW s \in Seq(X)
    PROVE  /\ Elements(Retain(s, S)) = Elements(s) \cap S
           /\ OnlyOnce(s) => OnlyOnce(Retain(s, S))
           /\ (s # <<>> /\ s[1] \in S) => (Retain(s, S) # <<>> /\ Retain(s, S)[1] = s[1])
<1> DEFINE Whole(t) == Elements(Retain(t, S)) = Elements(t) \cap S
           Once(t) == OnlyOnce(t) => OnlyOnce(Retain(t, S))
           Front(t) == (t # <<>> /\ t[1] \in S) => (Retain(t, S) # <<>> /\ Retain(t, S)[1] = t[1])
           P == {t \in Seq(X) : Whole(t) /\ Once(t) /\ Front(t)}
<1>1. <<>> \in P
  <2>1. <<>> \in Seq(X) /\ Elements(<<>>) = {}
    BY DEF Elements
  <2>2. Whole(<<>>)
    <3>1. {} \cap S = {}
      OBVIOUS
    <3> QED BY <2>1, <3>1, RetainEmpty, Zenon
  <2>3. Once(<<>>) /\ Front(<<>>)
    BY RetainEmpty, Zenon
  <2> QED BY <2>1, <2>2, <2>3
<1>2. ASSUME NEW t \in Seq(X), NEW x \in X, t \in P PROVE Append(t, x) \in P
  <2> DEFINE r == Retain(t, S)
             u == Append(t, x)
  <2>1. Whole(t) /\ Once(t) /\ Front(t) /\ r \in Seq(X)
    BY <1>2, RetainLeavesLess
  <2>2. Elements(u) = Elements(t) \cup {x} /\ u \in Seq(X)
    BY ElementsAppended
  <2>3. OnlyOnce(u) => OnlyOnce(t) /\ x \notin Elements(t)
    <3>1. /\ DOMAIN t = 1 .. Len(t) /\ DOMAIN u = 1 .. Len(t) + 1 /\ Len(t) \in Nat
          /\ u[Len(t) + 1] = x /\ \A i \in 1 .. Len(t) : u[i] = t[i]
      BY Appended
    <3> HIDE DEF u
    <3>2. ASSUME OnlyOnce(u) PROVE OnlyOnce(t)
      BY <3>1, <3>2 DEF OnlyOnce
    <3>3. ASSUME OnlyOnce(u), NEW i \in DOMAIN t, t[i] = x PROVE FALSE
      <4>1. i \in DOMAIN u /\ Len(t) + 1 \in DOMAIN u /\ u[i] = u[Len(t) + 1] /\ i # Len(t) + 1
        BY <3>1, <3>3
      <4> QED BY <3>3, <4>1 DEF OnlyOnce
    <3> QED BY <3>2, <3>3 DEF Elements
  <2>5. CASE x \in S
    <3>1. Retain(u, S) = Append(r, x)
      BY <2>5, RetainStep
    <3> HIDE DEF r
    <3>2. Elements(Append(r, x)) = Elements(r) \cup {x}
      BY <2>1, ElementsAppended
    <3>3. Elements(r) = Elements(t) \cap S
      BY <2>1 DEF r
    <3>4. Elements(Retain(u, S)) = Elements(u) \cap S
      BY <2>2, <2>5, <3>1, <3>2, <3>3
    <3>5. Once(u)
      <4> SUFFICES ASSUME OnlyOnce(u) PROVE OnlyOnce(Append(r, x))
        BY <3>1
      <4>1. OnlyOnce(r)
        BY <2>1, <2>3 DEF r
      <4>2. x \notin Elements(r)
        BY <2>3, <3>3
      <4> QED BY <2>1, <4>1, <4>2, OnlyOnceAppended
    <3>6. Front(u)
      <4> SUFFICES ASSUME u[1] \in S PROVE Append(r, x) # <<>> /\ Append(r, x)[1] = u[1]
        BY <3>1
      <4>1. CASE t = <<>>
        <5>1. r = <<>>
          BY <4>1, RetainEmpty DEF r
        <5>2. u = Append(r, x)
          BY <4>1, <5>1
        <5> QED BY <2>1, <5>2
      <4>2. CASE t # <<>>
        <5>1. u[1] = t[1]
          BY <4>2
        <5>2. r # <<>> /\ r[1] = t[1]
          BY <2>1, <4>2, <5>1 DEF r
        <5> QED BY <2>1, <5>1, <5>2
      <4> QED BY <4>1, <4>2
    <3> QED BY <2>2, <3>4, <3>5, <3>6
  <2>6. CASE x \notin S
    <3>1. Retain(u, S) = r
      BY <2>6, RetainStep
    <3>2. Whole(u)
      BY <2>1, <2>2, <2>6, <3>1
    <3>3. Once(u)
      BY <2>1, <2>3, <3>1
    <3>4. Front(u)
      <4> SUFFICES ASSUME u[1] \in S PROVE r # <<>> /\ r[1] = u[1]
        BY <3>1
      <4>1. t # <<>> /\ u[1] = t[1]
        <5>1. t = <<>> => u[1] = x
          OBVIOUS
        <5>2. t # <<>> => u[1] = t[1]
          OBVIOUS
        <5> HIDE DEF u
        <5> QED BY <2>6, <5>1, <5>2
      <4> QED BY <2>1, <4>1
    <3> QED BY <2>2, <3>2, <3>3, <3>4
  <2> QED BY <2>5, <2>6
<1> HIDE DEF P
<1>3. Seq(X) \subseteq P
  BY <1>1, <1>2, SequencesAll
<1> QED BY <1>3 DEF P
==============================================================================
