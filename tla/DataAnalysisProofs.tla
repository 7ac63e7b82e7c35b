-------------------------- MODULE DataAnalysisProofs --------------------------
(***************************************************************************)
(* Proofs about the analyses of a data frame, for every frame and every     *)
(* limit: OfatAnalysis, with the OfatTask it extends, and SubsetDiscovery.  *)
(* They share the facts about Lists, which come first.                      *)
(***************************************************************************)
EXTENDS OfatAnalysis, SubsetDiscovery, FiniteSetTheorems, SequenceTheorems,
        WellFoundedInduction, TLAPS


-----------------------------------------------------------------------------
(* Lists                                                                    *)

\* R orders S: of two elements one is before the other.
Orders(R, S) ==
  /\ \A x \in S : <<x, x>> \notin R
  /\ \A x, y \in S : x # y => <<x, y>> \in R \/ <<y, x>> \in R
  /\ \A x, y, z \in S : <<x, y>> \in R /\ <<y, z>> \in R => <<x, z>> \in R

\* Counting the elements before it gives each element of a finite set a place
\* of its own, and every place an element.
LEMMA EveryPlaceIsTaken ==
  ASSUME NEW S, IsFiniteSet(S), NEW R, Orders(R, S)
  PROVE  LET p == Ranked(S, R) IN
         /\ Cardinality(S) \in Nat
         /\ \A k \in 1 .. Cardinality(S) : p[k] \in S
         /\ \A x \in S : \E k \in 1 .. Cardinality(S) : p[k] = x
         /\ \A k, l \in 1 .. Cardinality(S) : k < l => <<p[k], p[l]>> \in R
<1> DEFINE n == Cardinality(S)
           Below(x) == {j \in S : <<j, x>> \in R}
           g == [x \in S |-> Cardinality(Below(x)) + 1]
           p == Ranked(S, R)
<1>1. n \in Nat
  BY FS_CardinalityType
<1>2. \A x \in S : IsFiniteSet(Below(x)) /\ Cardinality(Below(x)) \in Nat
  BY FS_Subset, FS_CardinalityType
<1>3. ASSUME NEW x \in S, NEW y \in S, <<x, y>> \in R
      PROVE  Cardinality(Below(x)) < Cardinality(Below(y))
  <2>1. Below(x) \subseteq Below(y)
    BY <1>3 DEF Orders
  <2>2. x \in Below(y) /\ x \notin Below(x)
    BY <1>3 DEF Orders
  <2> HIDE DEF Below
  <2> QED
    BY <1>2, <2>1, <2>2, FS_Subset
<1>4. \A x \in S : g[x] \in 1 .. n
  <2> SUFFICES ASSUME NEW x \in S PROVE g[x] \in 1 .. n
    OBVIOUS
  <2>1. Below(x) \subseteq S /\ x \notin Below(x)
    BY DEF Orders
  <2>2. Cardinality(Below(x)) <= n /\ Cardinality(Below(x)) # n
    BY <2>1, FS_Subset
  <2> HIDE DEF Below
  <2> QED
    BY <1>1, <1>2, <2>2
<1>5. \A x, y \in S : g[x] = g[y] => x = y
  <2> SUFFICES ASSUME NEW x \in S, NEW y \in S, x # y PROVE g[x] # g[y]
    OBVIOUS
  <2>1. <<x, y>> \in R \/ <<y, x>> \in R
    BY DEF Orders
  <2>2. Cardinality(Below(x)) # Cardinality(Below(y))
    <3> HIDE DEF Below
    <3> QED
      BY <1>2, <1>3, <2>1
  <2> HIDE DEF Below
  <2> QED
    BY <1>2, <2>2
<1>6. g \in Injection(S, 1 .. n)
  BY <1>4, <1>5 DEF Injection, IsInjective
<1>7. IsFiniteSet(1 .. n) /\ Cardinality(1 .. n) = n
  BY <1>1, FS_Interval
<1>8. g \in Surjection(S, 1 .. n)
  BY <1>6, <1>7, FS_Injection
<1>9. \A k \in 1 .. n : p[k] \in S /\ g[p[k]] = k
  <2> SUFFICES ASSUME NEW k \in 1 .. n PROVE p[k] \in S /\ g[p[k]] = k
    OBVIOUS
  <2>1. PICK x \in S : g[x] = k
    BY <1>8 DEF Surjection
  <2>2. Cardinality(Below(x)) = k - 1
    <3> HIDE DEF Below
    <3> QED
      BY <1>2, <2>1
  <2>3. p[k] = CHOOSE i \in S : Cardinality(Below(i)) = k - 1
    BY DEF Ranked
  <2>4. p[k] \in S /\ Cardinality(Below(p[k])) = k - 1
    <3> HIDE DEF Below, p
    <3> QED
      BY <2>2, <2>3
  <2> HIDE DEF Below, p
  <2> QED
    BY <1>1, <2>4
<1>10. \A x \in S : p[g[x]] = x
  <2> HIDE DEF p, g
  <2> QED
    BY <1>4, <1>5, <1>9
<1>11. \A k, l \in 1 .. n : k < l => <<p[k], p[l]>> \in R
  <2> SUFFICES ASSUME NEW k \in 1 .. n, NEW l \in 1 .. n, k < l, <<p[k], p[l]>> \notin R
               PROVE  FALSE
    OBVIOUS
  <2>1. p[k] \in S /\ p[l] \in S /\ g[p[k]] = k /\ g[p[l]] = l
    BY <1>9
  <2>2. p[k] # p[l]
    <3> HIDE DEF p, g
    <3> QED
      BY <2>1, <1>1
  <2>3. <<p[l], p[k]>> \in R
    BY <2>1, <2>2 DEF Orders
  <2>4. Cardinality(Below(p[l])) < Cardinality(Below(p[k]))
    <3> HIDE DEF p, Below
    <3> QED
      BY <1>3, <2>1, <2>3
  <2>5. g[p[l]] = Cardinality(Below(p[l])) + 1 /\ g[p[k]] = Cardinality(Below(p[k])) + 1
    BY <2>1
  <2> HIDE DEF p, Below, g
  <2> QED
    BY <1>1, <1>2, <2>1, <2>4, <2>5
<1> HIDE DEF g
<1>12. \A x \in S : \E k \in 1 .. n : p[k] = x
  BY <1>4, <1>10
<1> QED
  BY <1>1, <1>9, <1>11, <1>12

\* A comparison of the positions of a list that sorting may use: what it does
\* not tell apart is alike to everything else.
Compares(R, D) ==
  /\ \A x, y \in D : <<x, y>> \in R => <<y, x>> \notin R
  /\ \A x, y, z \in D : <<x, z>> \in R => <<x, y>> \in R \/ <<y, z>> \in R

\* t has the items of s, each once, position k that of p[k]; the order of R, and
\* for equals their own, is kept.
Sorts(p, s, R, t) ==
  LET D == DOMAIN s IN
  /\ p \in [D -> D] /\ t = [k \in D |-> s[p[k]]]
  /\ \A i \in D : \E k \in D : p[k] = i
  /\ \A k, l \in D : k < l => <<p[k], p[l]>> \in R \/ (<<p[l], p[k]>> \notin R /\ p[k] < p[l])

\* Sorting moves the items about and brings none before one it should follow,
\* nor one of two equals before the other.
LEMMA SortingIsStable ==
  ASSUME NEW s, NEW n \in Nat, DOMAIN s = 1 .. n, NEW R, Compares(R, DOMAIN s)
  PROVE  \E p : Sorts(p, s, R, Sorted(s, R))
<1> DEFINE D == 1 .. n
           Q == {q \in Pairs(D) : q \in R \/ (<<q[2], q[1]>> \notin R /\ q[1] < q[2])}
           r == Ranked(D, Q)
           p == [k \in D |-> r[k]]
<1>1. IsFiniteSet(D) /\ Cardinality(D) = n
  BY FS_Interval
<1>2. \A x, y \in D : <<x, y>> \in Q <=> <<x, y>> \in R \/ (<<y, x>> \notin R /\ x < y)
  BY DEF Pairs
<1>3. Orders(Q, D)
  <2> HIDE DEF Q
  <2>1. \A x \in D : <<x, x>> \notin Q
    BY <1>2 DEF Compares
  <2>2. \A x, y \in D : x # y => <<x, y>> \in Q \/ <<y, x>> \in Q
    BY <1>2
  <2>3. ASSUME NEW x \in D, NEW y \in D, NEW z \in D, <<x, y>> \in Q, <<y, z>> \in Q
        PROVE  <<x, z>> \in Q
    <3>1. x \in Int /\ y \in Int /\ z \in Int
      OBVIOUS
    <3> HIDE DEF D
    <3>2. <<z, x>> \in R => <<z, y>> \in R \/ <<y, x>> \in R
      BY DEF Compares, D
    <3>3. <<x, y>> \in R => <<x, z>> \in R \/ <<z, y>> \in R
      BY DEF Compares, D
    <3>4. <<y, z>> \in R => <<y, x>> \in R \/ <<x, z>> \in R
      BY DEF Compares, D
    <3>5. (<<x, y>> \in R => <<y, x>> \notin R) /\ (<<y, z>> \in R => <<z, y>> \notin R)
      BY DEF Compares, D
    <3> QED
      BY <1>2, <2>3, <3>1, <3>2, <3>3, <3>4, <3>5
  <2> QED
    BY <2>1, <2>2, <2>3 DEF Orders
<1>4. /\ \A k \in D : r[k] \in D
      /\ \A x \in D : \E k \in D : r[k] = x
      /\ \A k, l \in D : k < l => <<r[k], r[l]>> \in Q
  <2>1. /\ \A k \in 1 .. Cardinality(D) : r[k] \in D
        /\ \A x \in D : \E k \in 1 .. Cardinality(D) : r[k] = x
        /\ \A k, l \in 1 .. Cardinality(D) : k < l => <<r[k], r[l]>> \in Q
    <3> HIDE DEF D, Q
    <3> QED
      BY <1>1, <1>3, EveryPlaceIsTaken
  <2> HIDE DEF r, Q
  <2> QED
    BY <1>1, <2>1
<1>5. Sorted(s, R) = [k \in D |-> s[r[k]]]
  BY DEF Sorted
<1> HIDE DEF Q, r
<1>6. p \in [1 .. n -> 1 .. n]
  BY <1>4
<1>7. Sorted(s, R) = [k \in 1 .. n |-> s[p[k]]]
  BY <1>5
<1>8. \A i \in 1 .. n : \E k \in 1 .. n : p[k] = i
  BY <1>4
<1>9. \A k, l \in 1 .. n : k < l => <<p[k], p[l]>> \in R
                                  \/ (<<p[l], p[k]>> \notin R /\ p[k] < p[l])
  BY <1>2, <1>4
<1> HIDE DEF p, D
<1>10. Sorts(p, s, R, Sorted(s, R))
  BY <1>6, <1>7, <1>8, <1>9 DEF Sorts
<1> QED
  BY <1>10

\* t has the items of s at the positions I, each once, in their order.
Keeps(p, s, I, t) ==
  LET D == 1 .. Cardinality(I) IN
  /\ p \in [D -> I] /\ t = [k \in D |-> s[p[k]]]
  /\ \A i \in I : \E k \in D : p[k] = i
  /\ \A k, l \in D : k < l => p[k] < p[l]

\* The items kept are those at the positions given, in the order they had.
LEMMA KeepingIsOrdered ==
  ASSUME NEW s, NEW n \in Nat, NEW I \in SUBSET (1 .. n)
  PROVE  /\ IsFiniteSet(I) /\ Cardinality(I) \in Nat
         /\ \E p : Keeps(p, s, I, Kept(s, I))
<1> DEFINE m == Cardinality(I)
           Q == {q \in Pairs(I) : q[1] < q[2]}
           r == Ranked(I, Q)
           p == [k \in 1 .. m |-> r[k]]
<1>1. IsFiniteSet(I)
  <2>1. IsFiniteSet(1 .. n)
    BY FS_Interval
  <2> QED
    BY <2>1, FS_Subset
<1>2. \A x, y \in I : <<x, y>> \in Q <=> x < y
  BY DEF Pairs
<1>3. Orders(Q, I)
  <2> HIDE DEF Q
  <2> QED
    BY <1>2 DEF Orders
<1>4. /\ m \in Nat
      /\ \A k \in 1 .. m : r[k] \in I
      /\ \A x \in I : \E k \in 1 .. m : r[k] = x
      /\ \A k, l \in 1 .. m : k < l => <<r[k], r[l]>> \in Q
  <2> HIDE DEF Q
  <2> QED
    BY <1>1, <1>3, EveryPlaceIsTaken
<1>5. Kept(s, I) = [k \in 1 .. m |-> s[r[k]]]
  BY DEF Kept
<1>6. m \in Nat
  BY <1>4
<1> HIDE DEF Q, r, m
<1>7. p \in [1 .. m -> I]
  BY <1>4
<1>8. Kept(s, I) = [k \in 1 .. m |-> s[p[k]]]
  BY <1>5
<1>9. /\ \A i \in I : \E k \in 1 .. m : p[k] = i
      /\ \A k, l \in 1 .. m : k < l => p[k] < p[l]
  BY <1>2, <1>4
<1> HIDE DEF p
<1>10. Keeps(p, s, I, Kept(s, I))
  BY <1>7, <1>8, <1>9 DEF Keeps, m
<1> QED
  BY <1>1, <1>6, <1>10 DEF m

\* A set of natural numbers has a least one.
LEMMA LeastNatural ==
  ASSUME NEW S, S \subseteq Nat, S # {}
  PROVE \E n \in S : \A m \in S : n <= m
<1> DEFINE R == OpToRel(<, Nat)
<1>1. IsWellFoundedOn(R, Nat)
  BY NatLessThanWellFounded
<1>2. R = {ss \in Nat \X Nat : ss[1] < ss[2]}
  BY DEF OpToRel
<1> HIDE DEF R
<1>3. PICK n \in S : \A m \in S : ~(<<m, n>> \in R)
  BY <1>1, WFMin
<1>4. \A m \in S : ~(m < n)
  BY <1>2, <1>3
<1>5. \A m \in S : m \in Nat /\ n \in Nat
  OBVIOUS
<1>6. \A m \in S : n <= m
  BY <1>4, <1>5
<1> QED
  BY <1>6


\* What holds at the start and after every turn holds at the end.
LEMMA EveryTurn ==
  ASSUME NEW n \in Nat, NEW T, 0 \in T, \A k \in 1 .. n : k - 1 \in T => k \in T
  PROVE  \A k \in 0 .. n : k \in T
<1> SUFFICES ASSUME {k \in 0 .. n : k \notin T} # {} PROVE FALSE
  OBVIOUS
<1> DEFINE S == {i \in 0 .. n : i \notin T}
<1>1. PICK k \in S : \A m \in S : k <= m
  <2>1. S \subseteq Nat /\ S # {}
    OBVIOUS
  <2> HIDE DEF S
  <2> QED
    BY <2>1, LeastNatural
<1>2. k \in 1 .. n /\ k - 1 \in 0 .. n /\ ~(k <= k - 1)
  BY <1>1
<1>3. k - 1 \in T
  BY <1>1, <1>2
<1> QED
  BY <1>1, <1>2, <1>3

\* The values of a loop: each turn makes the next of the last one.
Runs(g, n, base, step) == g[0] = base /\ \A k \in 1 .. n : g[k] = step[<<k, g[k - 1]>>]

\* A loop of n turns has a run, and all its values are of the kind of the first.
LEMMA LoopRuns ==
  ASSUME NEW n \in Nat, NEW X, NEW base \in X, NEW step \in [(1 .. n) \X X -> X]
  PROVE  \E g \in [0 .. n -> X] : Runs(g, n, base, step)
<1> DEFINE T == {m \in 0 .. n : \E g \in [0 .. m -> X] : Runs(g, m, base, step)}
<1>1. 0 \in T
  <2> DEFINE g == [k \in 0 .. 0 |-> base]
  <2>1. g \in [0 .. 0 -> X] /\ Runs(g, 0, base, step) /\ 0 \in 0 .. n
    BY DEF Runs
  <2> HIDE DEF g
  <2> QED
    BY <2>1
<1>2. ASSUME NEW m \in 1 .. n, m - 1 \in T PROVE m \in T
  <2>1. PICK g \in [0 .. m - 1 -> X] : Runs(g, m - 1, base, step)
    BY <1>2
  <2> DEFINE h == [k \in 0 .. m |-> IF k = m THEN step[<<m, g[m - 1]>>] ELSE g[k]]
  <2>2. m \in 0 .. m /\ m - 1 \in 0 .. m - 1 /\ g[m - 1] \in X
    BY <2>1
  <2>3. step[<<m, g[m - 1]>>] \in X
    BY <2>2
  <2>4. h \in [0 .. m -> X]
    BY <2>1, <2>3
  <2>5. \A k \in 0 .. m - 1 : h[k] = g[k]
    OBVIOUS
  <2>6. Runs(h, m, base, step)
    <3>1. h[m] = step[<<m, h[m - 1]>>]
      <4>1. h[m] = step[<<m, g[m - 1]>>] /\ h[m - 1] = g[m - 1]
        BY <2>2, <2>5
      <4> HIDE DEF h
      <4> QED
        BY <4>1
    <3>2. \A k \in 1 .. m - 1 : h[k] = step[<<k, h[k - 1]>>]
      <4> SUFFICES ASSUME NEW k \in 1 .. m - 1 PROVE h[k] = step[<<k, h[k - 1]>>]
        OBVIOUS
      <4>1. k \in 0 .. m - 1 /\ k - 1 \in 0 .. m - 1
        OBVIOUS
      <4> HIDE DEF h
      <4> QED
        BY <2>1, <2>5, <4>1 DEF Runs
    <3>3. h[0] = base
      BY <2>1 DEF Runs
    <3>4. \A k \in 1 .. m : k = m \/ k \in 1 .. m - 1
      OBVIOUS
    <3> HIDE DEF h
    <3> QED
      BY <3>1, <3>2, <3>3, <3>4 DEF Runs
  <2> HIDE DEF h
  <2> QED
    BY <2>4, <2>6
<1> HIDE DEF T
<1>3. n \in T
  BY <1>1, <1>2, EveryTurn
<1> QED
  BY <1>3 DEF T

\* A list has finitely many items.
LEMMA ItemsAreFinite ==
  ASSUME NEW S, NEW s \in Seq(S)
  PROVE  /\ DOMAIN s = 1 .. Len(s) /\ Len(s) \in Nat
         /\ IsFiniteSet(DOMAIN s) /\ IsFiniteSet(ToSet(s)) /\ ToSet(s) \subseteq S
<1>1. DOMAIN s = 1 .. Len(s) /\ Len(s) \in Nat /\ \A i \in DOMAIN s : s[i] \in S
  OBVIOUS
<1>2. IsFiniteSet(1 .. Len(s))
  BY <1>1, FS_Interval
<1>3. s \in Surjection(DOMAIN s, ToSet(s))
  BY DEF Surjection, ToSet
<1>4. IsFiniteSet(ToSet(s))
  BY <1>1, <1>2, <1>3, FS_Surjection
<1> QED
  BY <1>1, <1>2, <1>4 DEF ToSet

\* What a list comprehension keeps is a list of some of the items, and of all
\* that were asked for.
LEMMA KeptIsList ==
  ASSUME NEW S, NEW s \in Seq(S), NEW I \in SUBSET (DOMAIN s)
  PROVE  /\ Kept(s, I) \in Seq(S)
         /\ ToSet(Kept(s, I)) = {s[i] : i \in I}
<1>1. DOMAIN s = 1 .. Len(s) /\ Len(s) \in Nat
  BY ItemsAreFinite
<1>2. PICK p : Keeps(p, s, I, Kept(s, I))
  BY <1>1, KeepingIsOrdered
<1>3. Cardinality(I) \in Nat
  BY <1>1, KeepingIsOrdered
<1> DEFINE n == Cardinality(I)
<1>4. /\ p \in [1 .. n -> I] /\ Kept(s, I) = [k \in 1 .. n |-> s[p[k]]]
      /\ \A i \in I : \E k \in 1 .. n : p[k] = i
  BY <1>2 DEF Keeps
<1> HIDE DEF n
<1>5. Kept(s, I) \in [1 .. n -> S] /\ n \in Nat
  BY <1>1, <1>3, <1>4 DEF n
<1>6. Kept(s, I) \in Seq(S)
  BY <1>5
<1>7. ToSet(Kept(s, I)) = {s[i] : i \in I}
  BY <1>4 DEF ToSet
<1> QED
  BY <1>6, <1>7

\* A sorted list has the items it had, as many of them.
LEMMA SortedIsList ==
  ASSUME NEW s, NEW n \in Nat, DOMAIN s = 1 .. n, NEW R
  PROVE  DOMAIN Sorted(s, R) = 1 .. n
BY DEF Sorted

\* The lists that are put one after another make one list.
LEMMA JoinedIsList ==
  ASSUME NEW S, NEW n \in Nat, NEW s \in [1 .. n -> Seq(S)]
  PROVE  Joined(s) \in Seq(S)
<1> DEFINE step == [q \in (1 .. n) \X Seq(S) |-> q[2] \o s[q[1]]]
           upTo == CHOOSE g : g = [k \in 0 .. n |-> IF k = 0 THEN <<>> ELSE g[k - 1] \o s[k]]
<1>1. step \in [(1 .. n) \X Seq(S) -> Seq(S)]
  OBVIOUS
<1>2. <<>> \in Seq(S)
  OBVIOUS
<1>3. PICK g \in [0 .. n -> Seq(S)] : Runs(g, n, <<>>, step)
  <2> HIDE DEF step
  <2> QED
    BY <1>1, <1>2, LoopRuns
<1>4. \A k \in 0 .. n : k = 0 \/ (k \in 1 .. n /\ k - 1 \in 0 .. n)
  OBVIOUS
<1>5. \A k \in 0 .. n : g[k] = IF k = 0 THEN <<>> ELSE g[k - 1] \o s[k]
  <2>1. \A k \in 1 .. n : g[k] = g[k - 1] \o s[k]
    <3> SUFFICES ASSUME NEW k \in 1 .. n PROVE g[k] = g[k - 1] \o s[k]
      OBVIOUS
    <3>1. g[k - 1] \in Seq(S)
      OBVIOUS
    <3>2. g[k] = step[<<k, g[k - 1]>>]
      BY <1>3 DEF Runs
    <3>3. step[<<k, g[k - 1]>>] = g[k - 1] \o s[k]
      BY <3>1
    <3> QED
      BY <3>2, <3>3
  <2>2. g[0] = <<>>
    BY <1>3 DEF Runs
  <2> QED
    BY <1>4, <2>1, <2>2
<1>6. g = [k \in 0 .. n |-> g[k]]
  BY <1>3
<1>7. g = [k \in 0 .. n |-> IF k = 0 THEN <<>> ELSE g[k - 1] \o s[k]]
  BY <1>5, <1>6
<1>8. upTo = [k \in 0 .. n |-> IF k = 0 THEN <<>> ELSE upTo[k - 1] \o s[k]]
  BY <1>7
<1>9. Len(s) = n
  OBVIOUS
<1>10. Joined(s) = upTo[n]
  BY <1>9 DEF Joined
<1> HIDE DEF upTo, step
<1> DEFINE T == {k \in 0 .. n : upTo[k] \in Seq(S)}
<1>11. 0 \in T
  BY <1>2, <1>8
<1>12. ASSUME NEW k \in 1 .. n, k - 1 \in T PROVE k \in T
  <2>1. k \in 0 .. n /\ k # 0 /\ upTo[k - 1] \in Seq(S) /\ s[k] \in Seq(S)
    BY <1>12
  <2>2. upTo[k] = upTo[k - 1] \o s[k]
    BY <1>8, <2>1
  <2>3. upTo[k - 1] \o s[k] \in Seq(S)
    BY <2>1
  <2> QED
    BY <2>1, <2>2, <2>3
<1> HIDE DEF T
<1>13. \A k \in 0 .. n : k \in T
  BY <1>11, <1>12, EveryTurn
<1>14. n \in T
  BY <1>13
<1> QED
  BY <1>10, <1>14 DEF T

\* The elements of a finite set in some order make a list.
LEMMA SetToSeqIsList ==
  ASSUME NEW S, IsFiniteSet(S)
  PROVE  Cardinality(S) \in Nat /\ SetToSeq(S) \in [1 .. Cardinality(S) -> S]
<1> DEFINE n == Cardinality(S)
<1>1. n \in Nat /\ \E f : f \in Bijection(1 .. n, S)
  BY FS_CardinalityType DEF ExistsBijection
<1>2. PICK f \in [1 .. n -> S] : \A i, j \in 1 .. n : f[i] = f[j] => i = j
  BY <1>1 DEF Bijection, Injection, IsInjective
<1>3. IsInjective(f)
  BY <1>2 DEF IsInjective
<1> HIDE DEF n
<1>4. (CHOOSE h \in [1 .. n -> S] : IsInjective(h)) \in [1 .. n -> S]
  BY <1>3
<1> QED
  BY <1>1, <1>4 DEF SetToSeq, n

\* One list after another has the items of both.
LEMMA ConcatIsList ==
  ASSUME NEW S, NEW s \in Seq(S), NEW t \in Seq(S)
  PROVE  s \o t \in Seq(S) /\ ToSet(s \o t) = ToSet(s) \cup ToSet(t)
<1>1. s \o t \in Seq(S)
  OBVIOUS
<1>2. Range(s \o t) = Range(s) \cup Range(t)
  BY RangeConcatenation
<1>3. \A u : Range(u) = ToSet(u)
  BY DEF Range, ToSet
<1> QED
  BY <1>1, <1>2, <1>3

-----------------------------------------------------------------------------
(* OfatTask and OfatAnalysis                                                *)

(***************************************************************************)
(* The inductive invariant.  CountInv bounds what the transaction may hold; *)
(* BeforeEnd says that nothing is visible or decided until the task begins  *)
(* to end; AfterEnd ties the commit to the only outcome that follows it.    *)
(***************************************************************************)
CountInv ==
  /\ TypeOK
  /\ stage \in {"entry", "loading", "grouped"} => created = 0 /\ plotted = 0
  /\ stage = "plotting" => created <= plotted + 1
  /\ stage \in {"entry", "loading"} => conn = "none"
  /\ stage = "ending" => outcome # "none"

BeforeEnd ==
  stage \in {"entry", "loading", "grouped", "plotting"} =>
    outcome = "none" /\ stored = 0

AfterEnd ==
  /\ stored > 0 => outcome = "completed"
  /\ outcome = "completed" =>
       stored = created /\ holder # "task" /\ stage \in {"ending", "over", "lost"}
  /\ jobRow = "completed" => outcome = "completed"

IInv == CountInv /\ BeforeEnd /\ AfterEnd

\* The flag is up in time, or the task has left the loop without a result.
Discarded ==
  /\ stored = 0 /\ outcome # "completed"
  /\ (stage = "plotting" /\ flag) \/ stage \in {"ending", "over", "lost"}

\* Every step keeps the types; a target adds one artifact, the rest two at most.
LEMMA CountStep == CountInv /\ [Next]_vars => CountInv'
<1> SUFFICES ASSUME CountInv, [Next]_vars PROVE CountInv'
  OBVIOUS
<1> USE TargetAssumption DEF vars, data, CountInv, TypeOK
<1>1. CASE MarkRunning
  BY <1>1 DEF MarkRunning, WriteJob
<1>2. CASE Load
  BY <1>2 DEF Load, End
<1>3. CASE InsertStep
  BY <1>3 DEF InsertStep, End
<1>4. CASE NoGroups
  BY <1>4 DEF NoGroups, End, CommitStep
<1>5. CASE FindGroups
  BY <1>5 DEF FindGroups, SaveArtifact
<1>6. CASE PlotTarget
  BY <1>6 DEF PlotTarget, End, SaveArtifact, Cancelled
<1>7. CASE Finish
  BY <1>7 DEF Finish, End, CommitStep, Cancelled
<1>8. CASE Return
  <2>1. jobRow' \in {jobRow, outcome} /\ outcome # "none"
    BY <1>8 DEF Return, WriteJob
  <2>2. flag' \in BOOLEAN
    BY <1>8 DEF Return
  <2>3. conn' \in {conn, "pinned", "garbage"} /\ stage' = "over"
    BY <1>8 DEF Return
  <2>4. UNCHANGED <<outcome, holder, plotted, created, stored>>
    BY <1>8 DEF Return
  <2> QED
    BY <2>1, <2>2, <2>3, <2>4
<1>9. CASE Collect
  BY <1>9 DEF Collect
<1>10. CASE CancelRunning
  BY <1>10 DEF CancelRunning
<1>11. CASE OtherBegins
  BY <1>11 DEF OtherBegins
<1>12. CASE OtherEnds
  BY <1>12 DEF OtherEnds
<1>13. CASE Restart
  BY <1>13 DEF Restart
<1>14. CASE UNCHANGED vars
  BY <1>14
<1> QED
  BY <1>1, <1>2, <1>3, <1>4, <1>5, <1>6, <1>7, <1>8, <1>9,
     <1>10, <1>11, <1>12, <1>13, <1>14 DEF Next, Task

\* Only a commit makes artifacts visible, and only completion follows it.
LEMMA EndStep == IInv /\ [Next]_vars => (BeforeEnd /\ AfterEnd)'
<1> SUFFICES ASSUME IInv, [Next]_vars PROVE (BeforeEnd /\ AfterEnd)'
  OBVIOUS
<1> USE TargetAssumption DEF vars, data, IInv, CountInv, TypeOK, BeforeEnd, AfterEnd
<1>1. CASE MarkRunning
  BY <1>1 DEF MarkRunning, WriteJob
<1>2. CASE Load
  BY <1>2 DEF Load, End
<1>3. CASE InsertStep
  BY <1>3 DEF InsertStep, End
<1>4. CASE NoGroups
  BY <1>4 DEF NoGroups, End, CommitStep
<1>5. CASE FindGroups
  BY <1>5 DEF FindGroups, SaveArtifact
<1>6. CASE PlotTarget
  BY <1>6 DEF PlotTarget, End, SaveArtifact, Cancelled
<1>7. CASE Finish
  BY <1>7 DEF Finish, End, CommitStep, Cancelled
<1>8. CASE Return
  BY <1>8 DEF Return, WriteJob
<1>9. CASE Collect
  BY <1>9 DEF Collect
<1>10. CASE CancelRunning
  BY <1>10 DEF CancelRunning
<1>11. CASE OtherBegins
  BY <1>11 DEF OtherBegins
<1>12. CASE OtherEnds
  BY <1>12 DEF OtherEnds
<1>13. CASE Restart
  BY <1>13 DEF Restart
<1>14. CASE UNCHANGED vars
  BY <1>14
<1> QED
  BY <1>1, <1>2, <1>3, <1>4, <1>5, <1>6, <1>7, <1>8, <1>9,
     <1>10, <1>11, <1>12, <1>13, <1>14 DEF Next, Task

\* The first state satisfies every part of the invariant.
LEMMA InvInit == Init => IInv
<1> SUFFICES ASSUME Init PROVE IInv
  OBVIOUS
<1> USE TargetAssumption DEF Init
<1>1. 0 \in 0 .. NTargets /\ 0 \in 0 .. NTargets + 2
  OBVIOUS
<1>2. TypeOK
  BY <1>1 DEF TypeOK
<1> QED
  BY <1>2 DEF IInv, CountInv, BeforeEnd, AfterEnd

\* Task, collector, other writers, cancels and restarts preserve it.
LEMMA InvStep == IInv /\ [Next]_vars => IInv'
  BY CountStep, EndStep DEF IInv

\* The inductive invariant holds in every reachable state.
THEOREM InvariantHolds == Spec => []IInv
  BY InvInit, InvStep, PTL DEF Spec

\* Every variable of run_ofat_task keeps its type: never more plots than
\* targets, nor more artifacts than the plots and two beside them.
THEOREM TypeCorrect == Spec => []TypeOK
<1>1. IInv => TypeOK
  BY DEF IInv, CountInv
<1> QED
  BY <1>1, InvariantHolds, PTL

\* The step and its artifacts become visible at once, and only with a completed
\* outcome.
THEOREM AtomicStep == Spec => []StepIsAtomic
<1>1. IInv => StepIsAtomic
  BY DEF IInv, CountInv, AfterEnd, StepIsAtomic
<1> QED
  BY <1>1, InvariantHolds, PTL

\* CompletedIsVisible: a completed row has all its artifacts, and no lock.
THEOREM CompletedRowIsVisible == Spec => []CompletedIsVisible
<1>1. IInv => CompletedIsVisible
  BY DEF IInv, AfterEnd, CompletedIsVisible
<1> QED
  BY <1>1, InvariantHolds, PTL

\* A flag that is up among the plots leaves the task no way to a commit.
LEMMA DiscardStep == IInv /\ Discarded /\ [Next]_vars => Discarded'
<1> SUFFICES ASSUME IInv /\ Discarded, [Next]_vars PROVE Discarded'
  OBVIOUS
<1> USE TargetAssumption DEF vars, data, IInv, CountInv, TypeOK, BeforeEnd, AfterEnd, Discarded
<1>1. CASE MarkRunning
  BY <1>1 DEF MarkRunning, WriteJob
<1>2. CASE Load
  BY <1>2 DEF Load, End
<1>3. CASE InsertStep
  BY <1>3 DEF InsertStep, End
<1>4. CASE NoGroups
  BY <1>4 DEF NoGroups, End, CommitStep
<1>5. CASE FindGroups
  BY <1>5 DEF FindGroups, SaveArtifact
<1>6. CASE PlotTarget
  BY <1>6 DEF PlotTarget, End, SaveArtifact, Cancelled
<1>7. CASE Finish
  BY <1>7 DEF Finish, End, CommitStep, Cancelled
<1>8. CASE Return
  BY <1>8 DEF Return, WriteJob
<1>9. CASE Collect
  BY <1>9 DEF Collect
<1>10. CASE CancelRunning
  BY <1>10 DEF CancelRunning
<1>11. CASE OtherBegins
  BY <1>11 DEF OtherBegins
<1>12. CASE OtherEnds
  BY <1>12 DEF OtherEnds
<1>13. CASE Restart
  BY <1>13 DEF Restart
<1>14. CASE UNCHANGED vars
  BY <1>14
<1> QED
  BY <1>1, <1>2, <1>3, <1>4, <1>5, <1>6, <1>7, <1>8, <1>9,
     <1>10, <1>11, <1>12, <1>13, <1>14 DEF Next, Task

\* CancelDiscards: such a cancel leaves no step and no artifact, ever.
THEOREM CancelledLeavesNothing == Spec => CancelDiscards
<1>1. IInv /\ flag /\ stage = "plotting" => Discarded
  BY DEF IInv, BeforeEnd, Discarded
<1>2. IInv /\ Discarded /\ [Next]_vars => Discarded'
  BY DiscardStep
<1>3. Discarded => stored = 0
  BY DEF Discarded
<1> QED
  BY <1>1, <1>2, <1>3, InvariantHolds, PTL DEF Spec, CancelDiscards

-----------------------------------------------------------------------------
(* The analysis with its data implements the task                           *)

\* Every step of the analysis is a step of the task without its data.
LEMMA StepImplements == [ANext]_<<vars, relaxed, table>> => [Next]_vars
<1> SUFFICES ASSUME [ANext]_<<vars, relaxed, table>> PROVE [Next]_vars
  OBVIOUS
<1> USE DEF Next, Task
<1>1. CASE ALoad
  BY <1>1 DEF ALoad
<1>2. CASE AnalysisFails \/ Diagnose \/ RelaxInVain
  BY <1>2 DEF AnalysisFails, Diagnose, RelaxInVain
<1>3. CASE Relax \/ GroupsHold
  BY <1>3 DEF Relax, GroupsHold
<1>4. CASE APlotTarget
  BY <1>4 DEF APlotTarget
<1>5. CASE AFinish
  BY <1>5 DEF AFinish
<1>6. CASE Others
  BY <1>6 DEF Others
<1>7. CASE UNCHANGED <<vars, relaxed, table>>
  BY <1>7
<1> QED
  BY <1>1, <1>2, <1>3, <1>4, <1>5, <1>6, <1>7 DEF ANext

\* run_ofat_task with its groups, its pruning and its reports does nothing
\* that OfatTask, on which the theorems above rest, leaves out.
THEOREM AnalysisImplementsTask == ASpec => Spec
<1>1. AInit => Init
  BY DEF AInit
<1> QED
  BY <1>1, StepImplements, PTL DEF ASpec, Spec

-----------------------------------------------------------------------------
(* What the search for groups finds                                         *)

\* A set has two elements just if its count is two or more.
LEMMA TwoOrMore ==
  ASSUME NEW S, IsFiniteSet(S)
  PROVE Cardinality(S) >= 2 <=> \E a, b \in S : a # b
<1>1. Cardinality(S) \in Nat
  BY FS_CardinalityType
<1>2. ASSUME NEW a \in S, NEW b \in S, a # b PROVE Cardinality(S) >= 2
  <2>1. IsFiniteSet(S \ {a}) /\ Cardinality(S \ {a}) = Cardinality(S) - 1
    BY FS_RemoveElement
  <2>2. Cardinality(S \ {a}) # 0
    BY <2>1, <1>2, FS_EmptySet
  <2>3. Cardinality(S \ {a}) \in Nat
    BY <2>1, FS_CardinalityType
  <2> QED
    BY <1>1, <2>1, <2>2, <2>3
<1>3. ASSUME Cardinality(S) >= 2 PROVE \E a, b \in S : a # b
  <2>1. S # {}
    BY <1>3, FS_EmptySet
  <2>2. PICK a \in S : TRUE
    BY <2>1
  <2>3. IsFiniteSet(S \ {a}) /\ Cardinality(S \ {a}) = Cardinality(S) - 1
    BY FS_RemoveElement
  <2>4. S \ {a} # {}
    BY <1>1, <1>3, <2>3, FS_EmptySet
  <2> QED
    BY <2>4
<1> QED
  BY <1>2, <1>3

\* The values of a column over finitely many rows are finitely many.
LEMMA UniqueIsFinite ==
  ASSUME NEW f, NEW x, NEW R, IsFiniteSet(R)
  PROVE IsFiniteSet(Unique(f, x, R))
<1> DEFINE T == {f[k][x] : k \in R}
           g == [k \in R |-> f[k][x]]
<1>1. g \in Surjection(R, T)
  BY DEF Surjection
<1> QED
  BY <1>1, FS_Surjection, FS_Subset DEF Unique

\* Two rows that agree on the other columns and have two values of x.
Supports(f, F, x) ==
  \E i, j \in DOMAIN f :
    /\ Missing \notin {f[i][x], f[j][x]} /\ f[i][x] # f[j][x]
    /\ \A c \in ToSet(F) \ {x} : f[i][c] = f[j][c]

LEMMA FramesAreFinite == \A f \in Frames : IsFiniteSet(DOMAIN f)
<1> SUFFICES ASSUME NEW f \in Frames PROVE IsFiniteSet(DOMAIN f)
  OBVIOUS
<1>1. Len(f) \in Nat /\ DOMAIN f = 1 .. Len(f)
  BY FrameAssumption
<1> QED
  BY <1>1, FS_Interval

\* _find_valid_ofat_groups: the rows that share the text of the other columns
\* vary in x somewhere, just if two rows support it.
LEMMA GroupsAreSupport ==
  ASSUME NEW f \in Frames, NEW F, NEW x, ToSet(F) \ {x} # {}
  PROVE ValidGroups(f, F, x) # {} <=> Supports(f, F, x)
<1> DEFINE others == ToSet(F) \ {x}
           With(i) == {j \in DOMAIN f : \A c \in others : f[j][c] = f[i][c]}
<1>1. ValidGroups(f, F, x) = {R \in {With(i) : i \in DOMAIN f} : Cardinality(Unique(f, x, R)) >= 2}
  BY DEF ValidGroups
<1>2. \A i \in DOMAIN f :
        Cardinality(Unique(f, x, With(i))) >= 2 <=> \E a, b \in Unique(f, x, With(i)) : a # b
  <2> SUFFICES ASSUME NEW i \in DOMAIN f
               PROVE Cardinality(Unique(f, x, With(i))) >= 2 <=> \E a, b \in Unique(f, x, With(i)) : a # b
    OBVIOUS
  <2>1. IsFiniteSet(With(i))
    BY FramesAreFinite, FS_Subset
  <2>2. IsFiniteSet(Unique(f, x, With(i)))
    <3> HIDE DEF With
    <3> QED
      BY <2>1, UniqueIsFinite
  <2> QED
    BY <2>2, TwoOrMore
<1>3. ASSUME Supports(f, F, x) PROVE ValidGroups(f, F, x) # {}
  <2>1. PICK i \in DOMAIN f, j \in DOMAIN f :
          /\ Missing \notin {f[i][x], f[j][x]} /\ f[i][x] # f[j][x]
          /\ \A c \in others : f[i][c] = f[j][c]
    BY <1>3 DEF Supports
  <2>2. i \in With(i) /\ j \in With(i)
    BY <2>1
  <2>3. f[i][x] \in Unique(f, x, With(i)) /\ f[j][x] \in Unique(f, x, With(i))
    BY <2>1, <2>2 DEF Unique
  <2>4. Cardinality(Unique(f, x, With(i))) >= 2
    <3> HIDE DEF With
    <3> QED
      BY <1>2, <2>1, <2>3
  <2>5. With(i) \in {With(k) : k \in DOMAIN f}
    OBVIOUS
  <2> QED
    <3> HIDE DEF With
    <3> QED
      BY <1>1, <2>4, <2>5
<1>4. ASSUME ValidGroups(f, F, x) # {} PROVE Supports(f, F, x)
  <2>1. PICK i \in DOMAIN f : Cardinality(Unique(f, x, With(i))) >= 2
    BY <1>1, <1>4
  <2>2. PICK a \in Unique(f, x, With(i)), b \in Unique(f, x, With(i)) : a # b
    BY <1>2, <2>1
  <2>3. PICK k \in With(i), l \in With(i) : a = f[k][x] /\ b = f[l][x] /\ Missing \notin {a, b}
    BY <2>2 DEF Unique
  <2> QED
    BY <2>2, <2>3 DEF Supports
<1> QED
  BY <1>3, <1>4

\* The columns found are those of the frame and the columns searched, and
\* nothing is plotted without one.
ValidIsFound ==
  /\ stage \in {"grouped", "plotting"} => frame \in Frames /\ valid = Found(frame, features)
  /\ stage = "plotting" => valid # {}

LEMMA FoundStep == ValidIsFound /\ [ANext]_<<vars, relaxed, table>> => ValidIsFound'
<1> SUFFICES ASSUME ValidIsFound, [ANext]_<<vars, relaxed, table>> PROVE ValidIsFound'
  OBVIOUS
<1> USE DEF ValidIsFound, table
<1>1. CASE ALoad
  BY <1>1 DEF ALoad, Load, End
<1>2. CASE AnalysisFails \/ Diagnose \/ RelaxInVain
  BY <1>2 DEF AnalysisFails, Diagnose, RelaxInVain, NoGroups, End
<1>3. CASE Relax
  BY <1>3 DEF Relax, FindGroups, CanContinue
<1>4. CASE GroupsHold
  BY <1>4 DEF GroupsHold, FindGroups
<1>5. CASE APlotTarget
  BY <1>5 DEF APlotTarget, PlotTarget, End
<1>6. CASE AFinish
  BY <1>6 DEF AFinish, Finish, End
<1>7. CASE Others /\ UNCHANGED <<relaxed, table>>
  BY <1>7 DEF Others, MarkRunning, InsertStep, Return, Collect, CancelRunning, OtherBegins,
              OtherEnds, Restart, End
<1>8. CASE UNCHANGED <<vars, relaxed, table>>
  BY <1>8 DEF vars
<1> QED
  BY <1>1, <1>2, <1>3, <1>4, <1>5, <1>6, <1>7, <1>8 DEF ANext

\* On every frame, strict or relaxed: the columns plotted are just those that
\* two rows support, and there is one.
THEOREM PlottedIsSupported == ASpec => []PlotsAreSupported
<1>1. AInit => ValidIsFound
  BY DEF AInit, Init, ValidIsFound
<1>2. ValidIsFound => PlotsAreSupported
  <2> SUFFICES ASSUME ValidIsFound, stage = "plotting"
               PROVE /\ valid # {}
                     /\ \A x \in ToSet(features) : x \in valid <=> Supports(frame, features, x)
    BY DEF PlotsAreSupported, Supports
  <2>1. frame \in Frames /\ valid = Found(frame, features) /\ valid # {}
    BY DEF ValidIsFound
  <2>2. PICK y \in ToSet(features) : ValidGroups(frame, features, y) # {}
    BY <2>1 DEF Found
  <2>3. ToSet(features) \ {y} # {}
    BY <2>2 DEF ValidGroups
  <2>4. \A x \in ToSet(features) : ToSet(features) \ {x} # {}
    BY <2>2, <2>3
  <2>5. \A x \in ToSet(features) :
          ValidGroups(frame, features, x) # {} <=> Supports(frame, features, x)
    BY <2>1, <2>4, GroupsAreSupport
  <2> QED
    BY <2>1, <2>5 DEF Found
<1> QED
  BY <1>1, <1>2, FoundStep, PTL DEF ASpec

-----------------------------------------------------------------------------
(* The relaxed analysis                                                     *)

\* list.remove takes one column out of a list that has it once.
LEMMA WithoutLeavesOthers ==
  ASSUME NEW S, NEW F \in Seq(S), IsInjective(F), NEW c \in ToSet(F)
  PROVE  /\ Without(F, c) \in Seq(S) /\ IsInjective(Without(F, c))
         /\ Len(Without(F, c)) = Len(F) - 1
         /\ ToSet(Without(F, c)) = ToSet(F) \ {c}
<1> DEFINE k == CHOOSE i \in DOMAIN F : F[i] = c
           n == Len(F)
           G == Without(F, c)
<1>1. n \in Nat /\ DOMAIN F = 1 .. n
  OBVIOUS
<1>2. k \in 1 .. n /\ F[k] = c
  BY <1>1 DEF ToSet
<1>3. G = SubSeq(F, 1, k - 1) \o SubSeq(F, k + 1, n)
  BY DEF Without, RemoveAt
<1> HIDE DEF k
<1>4. /\ G \in Seq(S) /\ Len(G) = n - 1
      /\ \A i \in 1 .. n - 1 : G[i] = IF i < k THEN F[i] ELSE F[i + 1]
  <2> DEFINE A == SubSeq(F, 1, k - 1)
             B == SubSeq(F, k + 1, n)
  <2>1. A \in Seq(S) /\ Len(A) = k - 1 /\ \A i \in 1 .. k - 1 : A[i] = F[i]
    BY <1>1, <1>2
  <2>2. B \in Seq(S) /\ Len(B) = n - k /\ \A i \in 1 .. n - k : B[i] = F[k + i]
    <3>1. k + 1 \in Int /\ n \in Int /\ \A i \in k + 1 .. n : F[i] \in S
      BY <1>1, <1>2
    <3>2. /\ B \in Seq(S)
          /\ Len(B) = IF k + 1 <= n THEN n - (k + 1) + 1 ELSE 0
          /\ \A i \in 1 .. n - (k + 1) + 1 : B[i] = F[(k + 1) + i - 1]
      BY <3>1, SubSeqProperties
    <3>3. /\ n - (k + 1) + 1 = n - k /\ (~(k + 1 <= n) => n - k = 0)
          /\ \A i \in 1 .. n - k : (k + 1) + i - 1 = k + i
      <4> HIDE DEF n
      <4> QED
        BY <1>1, <1>2
    <3> HIDE DEF B
    <3> QED
      BY <3>2, <3>3
  <2>3. G = A \o B
    BY <1>3
  <2> HIDE DEF A, B, G, n
  <2>4. G \in Seq(S) /\ Len(G) = n - 1
    <3>1. A \o B \in Seq(S) /\ Len(A \o B) = Len(A) + Len(B)
      BY <2>1, <2>2, ConcatProperties
    <3>2. Len(A) + Len(B) = n - 1
      BY <1>1, <1>2, <2>1, <2>2
    <3> QED
      BY <2>3, <3>1, <3>2
  <2>5. \A i \in 1 .. n - 1 : G[i] = IF i < k THEN F[i] ELSE F[i + 1]
    <3> SUFFICES ASSUME NEW i \in 1 .. n - 1 PROVE G[i] = IF i < k THEN F[i] ELSE F[i + 1]
      OBVIOUS
    <3>1. CASE i < k
      <4>1. i \in 1 .. k - 1 /\ i \in 1 .. Len(A) + Len(B)
        BY <1>1, <1>2, <2>1, <2>2, <3>1
      <4>2. G[i] = A[i]
        BY <2>1, <2>2, <2>3, <4>1
      <4> QED
        BY <2>1, <3>1, <4>1, <4>2
    <3>2. CASE ~(i < k)
      <4>1. i - (k - 1) \in 1 .. n - k /\ ~(i <= Len(A)) /\ i \in 1 .. Len(A) + Len(B)
        BY <1>1, <1>2, <2>1, <2>2, <3>2
      <4>2. G[i] = B[i - (k - 1)]
        BY <2>1, <2>2, <2>3, <4>1
      <4>3. k + (i - (k - 1)) = i + 1
        BY <1>1, <1>2
      <4> QED
        BY <2>2, <3>2, <4>1, <4>2, <4>3
    <3> QED
      BY <3>1, <3>2
  <2> QED
    BY <2>4, <2>5
<1> HIDE DEF G, n
<1>5. DOMAIN G = 1 .. n - 1
  BY <1>1, <1>4
<1>6. \A i, j \in 1 .. n : F[i] = F[j] => i = j
  BY <1>1 DEF IsInjective
<1>7. IsInjective(G)
  <2> SUFFICES ASSUME NEW i \in 1 .. n - 1, NEW j \in 1 .. n - 1, G[i] = G[j] PROVE i = j
    BY <1>5 DEF IsInjective
  <2> QED
    BY <1>1, <1>2, <1>4, <1>6
<1>8. ToSet(G) = ToSet(F) \ {c}
  <2>1. \A i \in 1 .. n - 1 : G[i] \in ToSet(F) \ {c}
    <3> SUFFICES ASSUME NEW i \in 1 .. n - 1 PROVE G[i] \in ToSet(F) \ {c}
      OBVIOUS
    <3>1. PICK j \in 1 .. n : G[i] = F[j] /\ j # k
      BY <1>1, <1>2, <1>4
    <3> QED
      BY <1>1, <1>2, <1>6, <3>1 DEF ToSet
  <2>2. \A x \in ToSet(F) \ {c} : \E i \in 1 .. n - 1 : x = G[i]
    <3> SUFFICES ASSUME NEW x \in ToSet(F), x # c PROVE \E i \in 1 .. n - 1 : x = G[i]
      OBVIOUS
    <3>1. PICK j \in 1 .. n : x = F[j] /\ j # k
      BY <1>1, <1>2 DEF ToSet
    <3>2. CASE j < k
      BY <1>1, <1>2, <1>4, <3>1, <3>2
    <3>3. CASE j > k
      <4>1. j - 1 \in 1 .. n - 1 /\ ~(j - 1 < k) /\ (j - 1) + 1 = j
        BY <1>1, <1>2, <3>3
      <4> QED
        BY <1>4, <3>1, <4>1
    <3> QED
      BY <1>1, <1>2, <3>1, <3>2, <3>3
  <2> QED
    BY <1>5, <2>1, <2>2 DEF ToSet
<1> QED
  BY <1>4, <1>7, <1>8 DEF G, n

\* The number of groups is one: they are sets of rows, one column's each.
LEMMA CountIsNatural ==
  ASSUME NEW f \in Frames, NEW F, IsFiniteSet(ToSet(F))
  PROVE  CountGroups(f, F) \in Nat
<1> DEFINE V == UNION {{x} \X ValidGroups(f, F, x) : x \in ToSet(F)}
           P == ToSet(F) \X SUBSET (DOMAIN f)
<1>1. \A x : ValidGroups(f, F, x) \subseteq SUBSET (DOMAIN f)
  BY DEF ValidGroups
<1>2. V \subseteq P
  BY <1>1
<1>3. IsFiniteSet(SUBSET (DOMAIN f))
  BY FramesAreFinite, FS_SUBSET
<1>4. IsFiniteSet(P)
  BY <1>3, FS_Product
<1>5. IsFiniteSet(V)
  <2> HIDE DEF V, P
  <2> QED
    BY <1>2, <1>4, FS_Subset
<1>6. Cardinality(V) \in Nat
  <2> HIDE DEF V
  <2> QED
    BY <1>5, FS_CardinalityType
<1> QED
  BY <1>6 DEF CountGroups

Reports == [column : ToSet(Features), unique : Nat, constant : BOOLEAN, groups : Nat]

\* Sorting by the scores tells apart what differs in them.
LEMMA AheadCompares ==
  ASSUME NEW s \in Reports, NEW t \in Reports, NEW u \in Reports
  PROVE  /\ Ahead(s, t) => ~Ahead(t, s)
         /\ Ahead(s, u) => Ahead(s, t) \/ Ahead(t, u)
<1>1. /\ s.constant \in BOOLEAN /\ t.constant \in BOOLEAN /\ u.constant \in BOOLEAN
      /\ s.groups \in Nat /\ t.groups \in Nat /\ u.groups \in Nat
      /\ s.unique \in Nat /\ t.unique \in Nat /\ u.unique \in Nat
  BY DEF Reports
<1> QED
  BY <1>1 DEF Ahead

\* A column's score tells the groups there are without it.
LEMMA ScoreIsReport ==
  ASSUME NEW f \in Frames, NEW F \in Seq(ToSet(Features)), IsInjective(F), NEW c \in ToSet(F)
  PROVE  Score(f, F, c) \in Reports
<1>1. c \in ToSet(Features)
  BY ItemsAreFinite
<1>2. Cardinality(Unique(f, c, DOMAIN f)) \in Nat
  BY FramesAreFinite, UniqueIsFinite, FS_CardinalityType
<1>3. Constant(f, c) \in BOOLEAN
  BY DEF Constant
<1>4. IsFiniteSet(ToSet(Without(F, c)))
  BY WithoutLeavesOthers, ItemsAreFinite
<1>5. CountGroups(f, Without(F, c)) \in Nat
  BY <1>4, CountIsNatural
<1> QED
  BY <1>1, <1>2, <1>3, <1>5 DEF Score, Reports

\* The first row of the table is the score of a column.
LEMMA BestIsColumn ==
  ASSUME NEW f \in Frames, NEW F \in Seq(ToSet(Features)), IsInjective(F), F # <<>>
  PROVE  \E c \in ToSet(F) : Head(Scores(f, F)) = Score(f, F, c)
<1> DEFINE n == Len(F)
           score == [i \in DOMAIN F |-> Score(f, F, F[i])]
           R == {q \in Pairs(DOMAIN F) : Ahead(score[q[1]], score[q[2]])}
<1>1. n \in Nat /\ n > 0 /\ DOMAIN F = 1 .. n /\ DOMAIN score = 1 .. n
  OBVIOUS
<1>2. \A i \in 1 .. n : F[i] \in ToSet(F) /\ score[i] = Score(f, F, F[i])
  BY <1>1 DEF ToSet
<1>3. \A i \in 1 .. n : score[i] \in Reports
  <2> HIDE DEF n, score
  <2> QED
    BY <1>2, ScoreIsReport
<1>4. \A x, y \in 1 .. n : <<x, y>> \in R <=> Ahead(score[x], score[y])
  BY <1>1 DEF Pairs
<1>5. Compares(R, DOMAIN score)
  <2> HIDE DEF score, R, n
  <2>1. \A x, y \in 1 .. n : Ahead(score[x], score[y]) => ~Ahead(score[y], score[x])
    BY <1>3, AheadCompares
  <2>2. \A x, y, z \in 1 .. n :
          Ahead(score[x], score[z]) => Ahead(score[x], score[y]) \/ Ahead(score[y], score[z])
    BY <1>3, AheadCompares
  <2> QED
    BY <1>1, <1>4, <2>1, <2>2 DEF Compares
<1>6. Scores(f, F) = Sorted(score, R)
  BY DEF Scores
<1> HIDE DEF n, score, R
<1>7. PICK p : Sorts(p, score, R, Sorted(score, R))
  BY <1>1, <1>5, SortingIsStable
<1>8. /\ Sorted(score, R) = [k \in 1 .. n |-> score[p[k]]] /\ p \in [1 .. n -> 1 .. n]
      /\ Sorted(score, R) \in Seq(Reports) /\ Sorted(score, R) # <<>>
  <2>1. Sorted(score, R) = [k \in 1 .. n |-> score[p[k]]] /\ p \in [1 .. n -> 1 .. n]
    BY <1>1, <1>7 DEF Sorts
  <2>2. [k \in 1 .. n |-> score[p[k]]] \in [1 .. n -> Reports]
    BY <1>3, <2>1
  <2> QED
    BY <1>1, <2>1, <2>2
<1>9. Head(Sorted(score, R)) = score[p[1]]
  BY <1>1, <1>8
<1> QED
  BY <1>1, <1>2, <1>6, <1>8, <1>9

Prunings ==
  {s \in [remaining : Seq(ToSet(Features)), report : Seq(Reports)] : IsInjective(s.remaining)}

\* What the report tells of what remains, after at most k turns.
Tells(f, s, k) ==
  LET n == Len(s.report) IN
  /\ n <= k
  /\ ToSet(Features) = ToSet(s.remaining) \cup {s.report[i].column : i \in 1 .. n}
  /\ \A i \in 1 .. n : i < n => s.report[i].groups = 0
  /\ n > 0 /\ Len(s.remaining) >= 2 => s.report[n].groups = CountGroups(f, s.remaining)

\* A turn leaves out one column that remained and reports it.
LEMMA PruneTells ==
  ASSUME NEW f \in Frames, NEW s \in Prunings
  PROVE  /\ Prune(f, s) \in Prunings
         /\ \A k \in Nat : Tells(f, s, k) => Tells(f, Prune(f, s), k + 1)
<1> DEFINE F == s.remaining
           n == Len(s.report)
<1>1. F \in Seq(ToSet(Features)) /\ IsInjective(F) /\ s.report \in Seq(Reports) /\ n \in Nat
      /\ Len(F) \in Nat
  BY DEF Prunings
<1>2. CountGroups(f, F) \in Nat
  BY <1>1, ItemsAreFinite, CountIsNatural
<1>3. CASE Len(F) < 2 \/ CountGroups(f, F) > 0
  <2>1. Prune(f, s) = s
    BY <1>3 DEF Prune
  <2> QED
    BY <1>1, <2>1 DEF Tells
<1>4. CASE ~(Len(F) < 2 \/ CountGroups(f, F) > 0)
  <2>1. Len(F) >= 2 /\ CountGroups(f, F) = 0 /\ F # <<>>
    BY <1>1, <1>2, <1>4
  <2>2. PICK c \in ToSet(F) : Head(Scores(f, F)) = Score(f, F, c)
    BY <1>1, <2>1, BestIsColumn
  <2> DEFINE best == Score(f, F, c)
             G == Without(F, c)
             t == [remaining |-> G, report |-> Append(s.report, best)]
  <2>3. best \in Reports /\ best.column = c
        /\ best.groups = IF Len(F) >= 3 THEN CountGroups(f, G) ELSE 0
    BY <1>1, ScoreIsReport DEF Score
  <2>4. Prune(f, s) = t
    BY <1>4, <2>2, <2>3 DEF Prune
  <2>5. /\ G \in Seq(ToSet(Features)) /\ IsInjective(G) /\ Len(G) = Len(F) - 1
        /\ ToSet(G) = ToSet(F) \ {c}
    BY <1>1, WithoutLeavesOthers
  <2> HIDE DEF best, G
  <2>6. t \in Prunings
    BY <1>1, <2>3, <2>5 DEF Prunings
  <2>7. ASSUME NEW k \in Nat, Tells(f, s, k) PROVE Tells(f, t, k + 1)
    <3> DEFINE r == Append(s.report, best)
    <3>1. Len(r) = n + 1 /\ r[n + 1] = best /\ \A i \in 1 .. n : r[i] = s.report[i]
      BY <1>1, <2>3
    <3>2. t.report = r /\ t.remaining = G
      OBVIOUS
    <3> HIDE DEF r, t
    <3>3. n <= k /\ n + 1 <= k + 1
      BY <1>1, <2>7 DEF Tells
    <3>4. \A i \in 1 .. n : s.report[i].groups = 0
      <4>1. n > 0 => s.report[n].groups = 0
        BY <2>1, <2>7 DEF Tells
      <4>2. \A i \in 1 .. n : i < n => s.report[i].groups = 0
        BY <2>7 DEF Tells
      <4> QED
        BY <1>1, <4>1, <4>2
    <3>5. \A i \in 1 .. n + 1 : i < n + 1 => r[i].groups = 0
      BY <1>1, <3>1, <3>4
    <3>6. Len(G) >= 2 => best.groups = CountGroups(f, G)
      BY <1>1, <2>3, <2>5
    <3>7. {r[i].column : i \in 1 .. n + 1} = {s.report[i].column : i \in 1 .. n} \cup {c}
      <4>1. \A i \in 1 .. n + 1 : i \in 1 .. n \/ i = n + 1
        BY <1>1
      <4>2. n + 1 \in 1 .. n + 1 /\ \A i \in 1 .. n : i \in 1 .. n + 1
        BY <1>1
      <4> QED
        BY <2>3, <3>1, <4>1, <4>2
    <3>8. ToSet(Features) = ToSet(F) \cup {s.report[i].column : i \in 1 .. n}
      BY <2>7 DEF Tells
    <3>9. ToSet(Features) = ToSet(G) \cup {r[i].column : i \in 1 .. n + 1}
      <4>1. ToSet(F) = ToSet(G) \cup {c}
        BY <2>5
      <4> HIDE DEF F, n
      <4> QED
        BY <3>7, <3>8, <4>1
    <3> HIDE DEF n
    <3> QED
      BY <1>1, <3>1, <3>2, <3>3, <3>5, <3>6, <3>9 DEF Tells
  <2> QED
    BY <2>4, <2>6, <2>7
<1> QED
  BY <1>3, <1>4

\* Every turn of the pruning tells the truth about what it left.
LEMMA PruningTells ==
  ASSUME NEW f \in Frames
  PROVE  /\ GreedyPrune(f) \in Prunings
         /\ Tells(f, GreedyPrune(f), MaxPrune)
<1> DEFINE base == [remaining |-> Features, report |-> <<>>]
           after == CHOOSE g : g = [k \in 0 .. MaxPrune |->
                                      IF k = 0 THEN base ELSE Prune(f, g[k - 1])]
<1>1. Features \in Seq(ToSet(Features)) /\ IsInjective(Features) /\ Len(Features) \in Nat
  BY FrameAssumption DEF ToSet, Range
<1>2. MaxPrune \in Nat
  BY <1>1 DEF MaxPrune
<1>3. base \in Prunings
  BY <1>1 DEF Prunings
<1> DEFINE step == [q \in (1 .. MaxPrune) \X Prunings |-> Prune(f, q[2])]
<1>4. step \in [(1 .. MaxPrune) \X Prunings -> Prunings]
  BY PruneTells
<1>5. PICK g \in [0 .. MaxPrune -> Prunings] : Runs(g, MaxPrune, base, step)
  <2> HIDE DEF base, step
  <2> QED
    BY <1>2, <1>3, <1>4, LoopRuns
<1>6. g = [k \in 0 .. MaxPrune |-> IF k = 0 THEN base ELSE Prune(f, g[k - 1])]
  <2>1. \A k \in 1 .. MaxPrune : g[k] = Prune(f, g[k - 1])
    <3> SUFFICES ASSUME NEW k \in 1 .. MaxPrune PROVE g[k] = Prune(f, g[k - 1])
      OBVIOUS
    <3>1. g[k - 1] \in Prunings
      BY <1>2
    <3>2. g[k] = step[<<k, g[k - 1]>>]
      BY <1>5 DEF Runs
    <3> QED
      BY <3>1, <3>2
  <2>2. g[0] = base
    BY <1>5 DEF Runs
  <2>3. g = [k \in 0 .. MaxPrune |-> g[k]]
    OBVIOUS
  <2>4. \A k \in 0 .. MaxPrune : k = 0 \/ k \in 1 .. MaxPrune
    BY <1>2
  <2> HIDE DEF base
  <2>5. \A k \in 0 .. MaxPrune : g[k] = IF k = 0 THEN base ELSE Prune(f, g[k - 1])
    BY <1>2, <2>1, <2>2, <2>4
  <2> QED
    BY <2>3, <2>5
<1>7. after = [k \in 0 .. MaxPrune |-> IF k = 0 THEN base ELSE Prune(f, after[k - 1])]
  <2> HIDE DEF base
  <2> QED
    BY <1>6
<1>8. GreedyPrune(f) = after[MaxPrune]
  BY DEF GreedyPrune
<1> HIDE DEF after, step
<1> DEFINE T == {k \in 0 .. MaxPrune : after[k] \in Prunings /\ Tells(f, after[k], k)}
<1>9. 0 \in T
  <2>1. Tells(f, base, 0)
    BY <1>1 DEF Tells
  <2>2. after[0] = base /\ 0 \in 0 .. MaxPrune
    <3> HIDE DEF base
    <3> QED
      BY <1>2, <1>7
  <2> HIDE DEF base
  <2> QED
    BY <1>3, <2>1, <2>2
<1>10. ASSUME NEW k \in 1 .. MaxPrune, k - 1 \in T PROVE k \in T
  <2>1. after[k] = Prune(f, after[k - 1])
    <3> HIDE DEF base
    <3> QED
      BY <1>2, <1>7
  <2>2. after[k - 1] \in Prunings /\ Tells(f, after[k - 1], k - 1) /\ k - 1 \in Nat
    BY <1>10
  <2>3. after[k] \in Prunings /\ Tells(f, after[k], (k - 1) + 1)
    BY <2>1, <2>2, PruneTells
  <2>4. (k - 1) + 1 = k /\ k \in 0 .. MaxPrune
    BY <1>2
  <2> QED
    BY <2>3, <2>4
<1> HIDE DEF T
<1>11. MaxPrune \in T
  BY <1>2, <1>9, <1>10, EveryTurn
<1> QED
  BY <1>8, <1>11 DEF T

\* A relaxed analysis that plots goes on with what the pruning left, under its
\* report; before the pruning there is none.
ReportIsPruning ==
  /\ stage \in {"entry", "loading", "grouped"} => report = <<>>
  /\ relaxed /\ report # <<>> /\ stage = "plotting" =>
       /\ frame \in Frames /\ Len(features) >= 2
       /\ features = GreedyPrune(frame).remaining /\ report = GreedyPrune(frame).report

\* Every step keeps what ReportIsPruning says.
LEMMA PruningStep ==
  ValidIsFound /\ ReportIsPruning /\ [ANext]_<<vars, relaxed, table>> => ReportIsPruning'
<1> SUFFICES ASSUME ValidIsFound, ReportIsPruning, [ANext]_<<vars, relaxed, table>>
             PROVE  ReportIsPruning'
  OBVIOUS
<1> USE DEF ReportIsPruning, table
<1>1. CASE ALoad
  BY <1>1 DEF ALoad, Load, End
<1>2. CASE AnalysisFails \/ Diagnose \/ RelaxInVain
  BY <1>2 DEF AnalysisFails, Diagnose, RelaxInVain, NoGroups, End
<1>3. CASE Relax
  BY <1>3 DEF Relax, FindGroups, CanContinue, ValidIsFound
<1>4. CASE GroupsHold
  BY <1>4 DEF GroupsHold, FindGroups
<1>5. CASE APlotTarget
  BY <1>5 DEF APlotTarget, PlotTarget, End
<1>6. CASE AFinish
  BY <1>6 DEF AFinish, Finish, End
<1>7. CASE Others /\ UNCHANGED <<relaxed, table>>
  BY <1>7 DEF Others, MarkRunning, InsertStep, Return, Collect, CancelRunning, OtherBegins,
              OtherEnds, Restart, End
<1>8. CASE UNCHANGED <<vars, relaxed, table>>
  BY <1>8 DEF vars
<1> QED
  BY <1>1, <1>2, <1>3, <1>4, <1>5, <1>6, <1>7, <1>8 DEF ANext

\* On every frame: a relaxed analysis reports at most half of the columns, none
\* left out while there were groups, and the number of groups that are plotted.
THEOREM ReportIsTrue == ASpec => []ReportTellsGroups
<1>1. AInit => ValidIsFound /\ ReportIsPruning
  BY DEF AInit, Init, ValidIsFound, ReportIsPruning
<1>2. ValidIsFound /\ ReportIsPruning /\ [ANext]_<<vars, relaxed, table>>
        => (ValidIsFound /\ ReportIsPruning)'
  BY FoundStep, PruningStep
<1>3. ReportIsPruning => ReportTellsGroups
  <2> SUFFICES ASSUME ReportIsPruning, relaxed /\ report # <<>> /\ stage = "plotting"
               PROVE  /\ Len(report) <= MaxPrune
                      /\ ToSet(Features) = ToSet(features) \cup {report[i].column : i \in DOMAIN report}
                      /\ \A i \in DOMAIN report : i < Len(report) => report[i].groups = 0
                      /\ report[Len(report)].groups = CountGroups(frame, features)
    BY DEF ReportTellsGroups
  <2> DEFINE s == GreedyPrune(frame)
  <2>1. frame \in Frames /\ Len(features) >= 2 /\ features = s.remaining /\ report = s.report
    BY DEF ReportIsPruning
  <2>2. s \in Prunings /\ Tells(frame, s, MaxPrune)
    BY <2>1, PruningTells
  <2> HIDE DEF s
  <2>3. report \in Seq(Reports) /\ DOMAIN report = 1 .. Len(report) /\ Len(report) \in Nat
        /\ Len(report) > 0
    BY <2>1, <2>2 DEF Prunings
  <2> QED
    BY <2>1, <2>2, <2>3 DEF Tells
<1> QED
  BY <1>1, <1>2, <1>3, PTL DEF ASpec

-----------------------------------------------------------------------------
(* SubsetDiscovery                                                          *)

\* Slicing takes the first n, or all there are.
LEMMA FirstOfIsPrefix ==
  ASSUME NEW S, NEW s \in Seq(S), NEW n \in Nat
  PROVE  LET m == IF Len(s) < n THEN Len(s) ELSE n IN
         /\ FirstOf(s, n) \in Seq(S) /\ Len(FirstOf(s, n)) = m
         /\ \A i \in 1 .. m : FirstOf(s, n)[i] = s[i]
<1> DEFINE m == IF Len(s) < n THEN Len(s) ELSE n
<1>1. m \in Nat /\ m <= Len(s) /\ Len(s) \in Nat
  OBVIOUS
<1>2. FirstOf(s, n) = SubSeq(s, 1, m)
  BY DEF FirstOf
<1> HIDE DEF m
<1>3. SubSeq(s, 1, m) \in Seq(S) /\ Len(SubSeq(s, 1, m)) = m
      /\ \A i \in 1 .. m : SubSeq(s, 1, m)[i] = s[i]
  BY <1>1
<1> QED
  BY <1>2, <1>3 DEF m

\* The subsets that a strategy may propose: a group of one signature and the
\* complete rows miss nothing of their columns, targets aside.
Proposals ==
  {c \in [strategy : Strategies, rows : SUBSET Rows, cols : Seq(Names)] :
     c.strategy \in {"row_signature", "complete_cases"} =>
       \A r \in c.rows, k \in ToSet(c.cols) \ ToSet(targets) : df[r][k] # NoValue}

\* The request names targets that it may name.
Selectable == targets \in TargetChoices

\* The columns that the strategies choose from are lists of the frame's columns.
LEMMA ColumnsAreLists ==
  ASSUME Selectable
  PROVE  /\ Columns \in Seq(Names) /\ IsFiniteSet(Names)
         /\ ValidTargets \in Seq(Names) /\ ToSet(ValidTargets) \subseteq ToSet(targets)
         /\ \A S : Classified(S) \in Seq(Names)
         /\ Usable \in Seq(Names)
<1>1. Columns \in Seq(Names) /\ targets \in Seq(ToSet(targets))
  BY SubsetAssumption DEF Selectable
<1>2. IsFiniteSet(Names)
  BY <1>1, ItemsAreFinite DEF Names
<1> DEFINE I == {i \in DOMAIN targets : targets[i] \in Names}
<1>3. ToSet(ValidTargets) = {targets[i] : i \in I} /\ ValidTargets \in Seq(ToSet(targets))
  BY <1>1, KeptIsList DEF ValidTargets
<1>4. ToSet(ValidTargets) \subseteq Names /\ ToSet(ValidTargets) \subseteq ToSet(targets)
  BY <1>3 DEF ToSet
<1>5. ValidTargets \in Seq(Names)
  BY <1>3, <1>4 DEF ToSet
<1>6. \A S : Classified(S) \in Seq(Names)
  BY <1>1, KeptIsList DEF Classified
<1>7. Usable \in Seq(Names)
  BY <1>1, <1>6 DEF Usable
<1> QED
  BY <1>1, <1>2, <1>4, <1>5, <1>6, <1>7

\* The rows of a signature's group have every column that is not of it.
LEMMA SignatureGroupIsComplete ==
  ASSUME Selectable, NEW g
  PROVE  SignatureGroup(g) \in Seq(Proposals)
<1> DEFINE I == {i \in DOMAIN Usable : Usable[i] \notin g}
           cols == Kept(Usable, I)
           c == Candidate("row_signature", Group(g), cols \o ValidTargets)
<1>1. /\ Usable \in Seq(Names) /\ ValidTargets \in Seq(Names)
      /\ ToSet(ValidTargets) \subseteq ToSet(targets)
  BY ColumnsAreLists
<1>2. cols \in Seq(Names) /\ ToSet(cols) = {Usable[i] : i \in I}
  BY <1>1, KeptIsList
<1>3. cols \o ValidTargets \in Seq(Names)
      /\ ToSet(cols \o ValidTargets) = ToSet(cols) \cup ToSet(ValidTargets)
  <2> HIDE DEF cols
  <2> QED
    BY <1>1, <1>2, ConcatIsList
<1>4. Group(g) \subseteq Rows
  BY DEF Group
<1>5. ASSUME NEW r \in Group(g), NEW k \in ToSet(cols \o ValidTargets) \ ToSet(targets)
      PROVE  df[r][k] # NoValue
  <2>1. k \in ToSet(cols)
    BY <1>1, <1>3, <1>5
  <2>2. PICK i \in I : k = Usable[i]
    <3> HIDE DEF I, cols
    <3> QED
      BY <1>2, <2>1
  <2>3. k \in ToSet(Usable) /\ k \notin g
    BY <2>2 DEF ToSet
  <2>4. SignatureOf(r, ToSet(Usable)) = g
    BY <1>5 DEF Group
  <2> QED
    BY <2>3, <2>4 DEF SignatureOf
<1>6. c \in Proposals
  <2> HIDE DEF cols
  <2> QED
    BY <1>3, <1>4, <1>5 DEF Proposals, Candidate, Strategies
<1>7. SignatureGroup(g) = IF Cardinality(Group(g)) >= MinGroup /\ cols # <<>> THEN <<c>> ELSE <<>>
  BY DEF SignatureGroup
<1> HIDE DEF c, cols
<1> QED
  BY <1>6, <1>7

DenseStrategies == {"low_cardinality_stratification", "hybrid_dense"}

\* A candidate of dense columns has rows and columns of the frame.
LEMMA DenseColumnsArePossible ==
  ASSUME Selectable, NEW strategy \in DenseStrategies, NEW R \in SUBSET Rows, NEW dense
  PROVE  DenseColumns(strategy, R, dense) \in Seq(Proposals)
<1> DEFINE good == Kept(Usable, {i \in DOMAIN Usable : Usable[i] \in dense})
           c == Candidate(strategy, R, good \o ValidTargets)
<1>1. Usable \in Seq(Names) /\ ValidTargets \in Seq(Names)
  BY ColumnsAreLists
<1>2. good \in Seq(Names)
  BY <1>1, KeptIsList
<1>3. good \o ValidTargets \in Seq(Names)
  <2> HIDE DEF good
  <2> QED
    BY <1>1, <1>2, ConcatIsList
<1>4. c \in Proposals
  <2> HIDE DEF good
  <2> QED
    BY <1>3 DEF Proposals, Candidate, Strategies, DenseStrategies
<1>5. DenseColumns(strategy, R, dense)
        = IF Cardinality(R) >= MinRows /\ Len(good) >= MinColumns THEN <<c>> ELSE <<>>
  BY DEF DenseColumns
<1> HIDE DEF c, good
<1> QED
  BY <1>4, <1>5

\* The complete rows miss nothing of the columns in use.
LEMMA CompleteRowsAreComplete ==
  ASSUME Selectable
  PROVE  CompleteRows \in Seq(Proposals)
<1> DEFINE R == {r \in Rows : SignatureOf(r, ToSet(Usable)) = {}}
           cols == Usable \o ValidTargets
           c == Candidate("complete_cases", R, cols)
<1>1. /\ Usable \in Seq(Names) /\ ValidTargets \in Seq(Names)
      /\ ToSet(ValidTargets) \subseteq ToSet(targets)
  BY ColumnsAreLists
<1>2. cols \in Seq(Names) /\ ToSet(cols) = ToSet(Usable) \cup ToSet(ValidTargets)
  BY <1>1, ConcatIsList
<1> HIDE DEF cols
<1>3. ASSUME NEW r \in R, NEW k \in ToSet(cols) \ ToSet(targets)
      PROVE  df[r][k] # NoValue
  <2>1. k \in ToSet(Usable)
    BY <1>1, <1>2
  <2> QED
    BY <1>3, <2>1 DEF SignatureOf
<1>4. c \in Proposals
  <2>1. R \subseteq Rows
    OBVIOUS
  <2> HIDE DEF R
  <2> QED
    BY <1>2, <1>3, <2>1 DEF Proposals, Candidate, Strategies
<1>5. CompleteRows = IF Cardinality(R) >= MinRows THEN <<c>> ELSE <<>>
  BY DEF CompleteRows, cols
<1> HIDE DEF c, R
<1> QED
  BY <1>4, <1>5

\* Every pair of limits proposes rows and columns of the frame.
LEMMA DenseSubsetsArePossible ==
  ASSUME Selectable
  PROVE  DenseSubsets \in Seq(Proposals)
<1> DEFINE usable == ToSet(Usable)
           Full(p) == {r \in Rows : 100 * Cardinality(SignatureOf(r, usable)) <= p * Cardinality(usable)}
           Under(p, q) == DenseColumns("hybrid_dense", Full(p), {c \in Names : ~SparseIn(c, Full(p), q)})
<1>1. \A p, q : Under(p, q) \in Seq(Proposals)
  <2> SUFFICES ASSUME NEW p, NEW q PROVE Under(p, q) \in Seq(Proposals)
    OBVIOUS
  <2>1. Full(p) \in SUBSET Rows /\ "hybrid_dense" \in DenseStrategies
    BY DEF DenseStrategies
  <2> HIDE DEF Full
  <2> QED
    BY <2>1, DenseColumnsArePossible
<1>2. DenseSubsets = Under(30, 20) \o Under(30, 40) \o Under(50, 20) \o Under(50, 40)
                       \o Under(70, 20) \o Under(70, 40)
  BY DEF DenseSubsets
<1> HIDE DEF Under
<1> QED
  BY <1>1, <1>2

\* A column has finitely many values.
LEMMA ValuesAreFinite ==
  ASSUME Selectable, NEW c
  PROVE  IsFiniteSet(Occurring(c))
<1> DEFINE V == {df[r][c] : r \in Rows}
           value == [r \in Rows |-> df[r][c]]
<1>1. value \in Surjection(Rows, V)
  BY DEF Surjection
<1>2. IsFiniteSet(V)
  <2> HIDE DEF V, value
  <2> QED
    BY <1>1, FS_Surjection, SubsetAssumption DEF Selectable
<1> QED
  BY <1>2, FS_Subset DEF Occurring

\* So does every value of a stratified column, whichever ones occur most.
LEMMA StrataArePossible ==
  ASSUME Selectable, NEW c
  PROVE  Strata(c) \in Seq(Proposals)
<1> DEFINE With(v) == {r \in Rows : df[r][c] = v}
           Dense(v) == {k \in Names : 2 * Cardinality(MissingIn(k, With(v))) < Cardinality(With(v))}
           values == SetToSeq(Occurring(c))
           D == DOMAIN values
           R == {q \in Pairs(D) : Cardinality(With(values[q[1]])) > Cardinality(With(values[q[2]]))}
           sorted == Sorted(values, R)
           most == FirstOf(sorted, MaxStrata)
           n == Cardinality(Occurring(c))
           subset == [i \in DOMAIN most |->
                        DenseColumns("low_cardinality_stratification", With(most[i]), Dense(most[i]))]
<1>1. Strata(c) = Joined(subset)
  BY DEF Strata
<1>2. n \in Nat /\ D = 1 .. n
  BY ValuesAreFinite, SetToSeqIsList
<1> HIDE DEF n, values, R
<1>3. DOMAIN sorted = 1 .. n
  BY <1>2, SortedIsList
<1>4. sorted \in Seq({sorted[i] : i \in 1 .. n})
  <2> HIDE DEF sorted
  <2>1. sorted = [i \in 1 .. n |-> sorted[i]]
    BY <1>3 DEF Sorted, sorted
  <2> QED
    BY <1>2, <1>3, <2>1
<1>5. MaxStrata \in Nat
  BY SubsetAssumption DEF Selectable
<1>6. Len(most) \in Nat /\ DOMAIN most = 1 .. Len(most)
  <2> HIDE DEF sorted
  <2>1. most \in Seq({sorted[i] : i \in 1 .. n})
    BY <1>4, <1>5, FirstOfIsPrefix
  <2> HIDE DEF most
  <2> QED
    BY <2>1
<1> HIDE DEF most
<1>7. subset \in [1 .. Len(most) -> Seq(Proposals)]
  <2>1. \A v : With(v) \in SUBSET Rows
    OBVIOUS
  <2> HIDE DEF With, Dense
  <2>2. \A v : DenseColumns("low_cardinality_stratification", With(v), Dense(v)) \in Seq(Proposals)
    BY <2>1, DenseColumnsArePossible DEF DenseStrategies
  <2> QED
    BY <1>6, <2>2
<1> HIDE DEF subset
<1> QED
  BY <1>1, <1>6, <1>7, JoinedIsList

\* And every column that is stratified.
LEMMA StratifiedSubsetsArePossible ==
  ASSUME Selectable
  PROVE  StratifiedSubsets \in Seq(Proposals)
<1> DEFINE cols == FirstOf(Classified({"low_cardinality"}), MaxStrata)
           subset == [i \in DOMAIN cols |-> Strata(cols[i])]
<1>1. MaxStrata \in Nat /\ Classified({"low_cardinality"}) \in Seq(Names)
  BY ColumnsAreLists, SubsetAssumption DEF Selectable
<1>2. cols \in Seq(Names)
  BY <1>1, FirstOfIsPrefix
<1>3. StratifiedSubsets = Joined(subset)
  BY DEF StratifiedSubsets
<1> HIDE DEF cols
<1>4. Len(cols) \in Nat /\ subset \in [1 .. Len(cols) -> Seq(Proposals)]
  BY <1>2, StrataArePossible
<1> HIDE DEF subset
<1> QED
  BY <1>3, <1>4, JoinedIsList

\* Whichever signatures are taken, their groups are complete.
LEMMA SignatureGroupsAreComplete ==
  ASSUME Selectable
  PROVE  SignatureGroups \in Seq(Proposals)
<1> DEFINE S == {SignatureOf(r, Analysed) : r \in Rows}
           sigs == SetToSeq(S)
           D == DOMAIN sigs
           R == {q \in Pairs(D) : GroupSize(sigs[q[1]]) > GroupSize(sigs[q[2]])}
           first == FirstOf(RowSignatures, MaxGroups)
           group == [i \in DOMAIN first |-> SignatureGroup(first[i])]
<1>1. IsFiniteSet(S)
  <2> DEFINE signature == [r \in Rows |-> SignatureOf(r, Analysed)]
  <2>1. signature \in Surjection(Rows, S)
    BY DEF Surjection
  <2> HIDE DEF S, signature
  <2> QED
    BY <2>1, FS_Surjection, SubsetAssumption DEF Selectable
<1>2. Cardinality(S) \in Nat /\ D = 1 .. Cardinality(S)
  <2> HIDE DEF S
  <2> QED
    BY <1>1, SetToSeqIsList
<1>3. RowSignatures = IF Analysed = {} THEN <<>> ELSE Sorted(sigs, R)
  BY DEF RowSignatures
<1> HIDE DEF S, sigs, R
<1>4. \E X : RowSignatures \in Seq(X)
  <2> DEFINE sorted == Sorted(sigs, R)
             X == {sorted[i] : i \in D}
  <2>1. DOMAIN sorted = D
    BY <1>2, SortedIsList
  <2>2. sorted = [i \in D |-> sorted[i]]
    BY <2>1 DEF Sorted
  <2> HIDE DEF sorted
  <2>3. sorted \in Seq(X)
    BY <1>2, <2>2
  <2>4. <<>> \in Seq(X)
    OBVIOUS
  <2> HIDE DEF X
  <2> QED
    BY <1>3, <2>3, <2>4 DEF sorted
<1>5. PICK X : RowSignatures \in Seq(X)
  BY <1>4
<1>6. MaxGroups \in Nat
  BY SubsetAssumption DEF Selectable
<1>7. first \in Seq(X)
  BY <1>5, <1>6, FirstOfIsPrefix
<1>8. SignatureGroups = Joined(group)
  BY DEF SignatureGroups
<1> HIDE DEF first
<1>9. Len(first) \in Nat /\ group \in [1 .. Len(first) -> Seq(Proposals)]
  BY <1>7, SignatureGroupIsComplete
<1> HIDE DEF group
<1> QED
  BY <1>8, <1>9, JoinedIsList

\* Leaving out what is like another leaves a list of the others.
LEMMA DeduplicatedIsList ==
  ASSUME NEW S, NEW s \in Seq(S)
  PROVE  Deduplicated(s) \in Seq(S)
<1> DEFINE With(kept, c) == IF \E i \in DOMAIN kept : Similar(c, kept[i]) THEN kept ELSE Append(kept, c)
           n == Len(s)
           step == [q \in (1 .. n) \X Seq(S) |-> With(q[2], s[q[1]])]
           unique == CHOOSE g : g = [k \in 0 .. n |-> IF k = 0 THEN <<>> ELSE With(g[k - 1], s[k])]
<1>1. n \in Nat /\ <<>> \in Seq(S) /\ \A k \in 1 .. n : s[k] \in S
  OBVIOUS
<1>2. \A kept \in Seq(S), c \in S : With(kept, c) \in Seq(S)
  OBVIOUS
<1>3. Deduplicated(s) = unique[n]
  BY DEF Deduplicated
<1> HIDE DEF With, n
<1>4. step \in [(1 .. n) \X Seq(S) -> Seq(S)]
  BY <1>1, <1>2
<1>5. PICK g \in [0 .. n -> Seq(S)] : Runs(g, n, <<>>, step)
  <2> HIDE DEF step
  <2> QED
    BY <1>1, <1>4, LoopRuns
<1>6. \A k \in 1 .. n : g[k] = With(g[k - 1], s[k])
  <2> SUFFICES ASSUME NEW k \in 1 .. n PROVE g[k] = With(g[k - 1], s[k])
    OBVIOUS
  <2>1. g[k - 1] \in Seq(S)
    BY <1>1
  <2>2. g[k] = step[<<k, g[k - 1]>>]
    BY <1>5 DEF Runs
  <2> QED
    BY <2>1, <2>2
<1>7. g[0] = <<>>
  BY <1>5 DEF Runs
<1>8. \A k \in 0 .. n : k = 0 \/ k \in 1 .. n
  BY <1>1
<1>9. g = [k \in 0 .. n |-> g[k]]
  OBVIOUS
<1>10. g = [k \in 0 .. n |-> IF k = 0 THEN <<>> ELSE With(g[k - 1], s[k])]
  <2>1. \A k \in 0 .. n : g[k] = IF k = 0 THEN <<>> ELSE With(g[k - 1], s[k])
    BY <1>1, <1>6, <1>7, <1>8
  <2> QED
    BY <1>9, <2>1
<1>11. unique = [k \in 0 .. n |-> IF k = 0 THEN <<>> ELSE With(unique[k - 1], s[k])]
  BY <1>10
<1> HIDE DEF unique, step
<1> DEFINE T == {k \in 0 .. n : unique[k] \in Seq(S)}
<1>12. 0 \in T
  BY <1>1, <1>11
<1>13. ASSUME NEW k \in 1 .. n, k - 1 \in T PROVE k \in T
  <2>1. k \in 0 .. n /\ k # 0 /\ unique[k - 1] \in Seq(S)
    BY <1>1, <1>13
  <2>2. unique[k] = With(unique[k - 1], s[k])
    BY <1>11, <2>1
  <2>3. With(unique[k - 1], s[k]) \in Seq(S)
    BY <1>1, <1>2, <2>1
  <2> QED
    BY <2>1, <2>2, <2>3
<1> HIDE DEF T
<1>14. \A k \in 0 .. n : k \in T
  BY <1>1, <1>12, <1>13, EveryTurn
<1>15. n \in T
  BY <1>1, <1>14
<1> QED
  BY <1>3, <1>15 DEF T

\* All strategies together, without those that are like another.
LEMMA CandidatesArePossible ==
  ASSUME Selectable
  PROVE  Candidates \in Seq(Proposals)
<1> DEFINE all == SignatureGroups \o StratifiedSubsets \o DenseSubsets \o CompleteRows
<1>1. all \in Seq(Proposals)
  BY SignatureGroupsAreComplete, StratifiedSubsetsArePossible, DenseSubsetsArePossible,
     CompleteRowsAreComplete
<1>2. Candidates = Deduplicated(all)
  BY DEF Candidates
<1> HIDE DEF all
<1> QED
  BY <1>1, <1>2, DeduplicatedIsList

\* A ratio whose divisor is not zero can be rounded.
LEMMA RoundedIsNumber ==
  ASSUME NEW a \in Nat, NEW b \in Nat \ {0}, NEW units \in Nat
  PROVE  Rounded(a, b, units) \in Nat
<1>1. 2 * units * a + b \in Nat /\ 2 * b \in Nat \ {0}
  OBVIOUS
<1> QED
  BY <1>1 DEF Rounded

\* A product of positive numbers is positive.
LEMMA ProductIsPositive ==
  ASSUME NEW a \in Nat \ {0}, NEW b \in Nat \ {0}
  PROVE  a * b \in Nat \ {0}
OBVIOUS

\* Some rows in some columns have cells, finitely many of them missing.
LEMMA CellsArePositive ==
  ASSUME Selectable, NEW R \in SUBSET Rows, R # {}, NEW cols \in Seq(Names), cols # <<>>
  PROVE  /\ Cardinality(R) \in Nat \ {0} /\ Len(cols) \in Nat \ {0}
         /\ Cells(R, cols) \in Nat \ {0}
<1>1. IsFiniteSet(R)
  BY FS_Subset, SubsetAssumption DEF Selectable
<1>2. Cardinality(R) \in Nat \ {0}
  BY <1>1, FS_CardinalityType, FS_EmptySet
<1>3. Len(cols) \in Nat \ {0}
  OBVIOUS
<1> QED
  BY <1>2, <1>3, ProductIsPositive DEF Cells

\* No more cells are missing than there are.
LEMMA MissingAreCells ==
  ASSUME Selectable, NEW R \in SUBSET Rows, NEW cols \in Seq(Names)
  PROVE  /\ MissingCells(R, cols) \in Nat /\ Cells(R, cols) \in Nat
         /\ MissingCells(R, cols) <= Cells(R, cols)
<1> DEFINE D == DOMAIN cols
           Q == {q \in R \X D : df[q[1]][cols[q[2]]] = NoValue}
<1>1. IsFiniteSet(R)
  BY FS_Subset, SubsetAssumption DEF Selectable
<1>2. D = 1 .. Len(cols) /\ Len(cols) \in Nat /\ IsFiniteSet(D)
  BY ItemsAreFinite
<1>3. Cardinality(D) = Len(cols)
  BY <1>2, FS_Interval
<1>4. Q \subseteq R \X D
  OBVIOUS
<1>5. MissingCells(R, cols) = Cardinality(Q)
  BY DEF MissingCells
<1> HIDE DEF D, Q
<1>6. IsFiniteSet(R \X D) /\ Cardinality(R \X D) = Cells(R, cols)
  BY <1>1, <1>2, <1>3, FS_Product DEF Cells
<1>7. IsFiniteSet(Q) /\ Cardinality(Q) <= Cardinality(R \X D)
  BY <1>4, <1>6, FS_Subset
<1> QED
  BY <1>5, <1>6, <1>7, FS_CardinalityType

\* A subset with rows and columns has a score.
LEMMA ScoreIsNumber ==
  ASSUME Selectable, NEW c \in Proposals, c.rows # {}, c.cols # <<>>
  PROVE  SubsetScore(c) \in Nat
<1> DEFINE other == Kept(c.cols, {i \in DOMAIN c.cols : c.cols[i] \notin ToSet(targets)})
           used == IF other = <<>> THEN c.cols ELSE other
           aims == IF ValidTargets = <<>> THEN 1 ELSE Cells(c.rows, ValidTargets)
           whole == Cardinality(Rows) * Len(Columns)
           part == Cardinality(c.rows) * Len(c.cols)
           cells == Cells(c.rows, used)
           used_missing == MissingCells(c.rows, used)
           targets_missing == MissingCells(c.rows, ValidTargets)
<1>1. c.rows \in SUBSET Rows /\ c.cols \in Seq(Names)
  BY DEF Proposals
<1>2. other \in Seq(Names)
  BY <1>1, KeptIsList
<1>3. used \in Seq(Names) /\ used # <<>>
  <2> HIDE DEF other
  <2> QED
    BY <1>1, <1>2
<1>4. ValidTargets \in Seq(Names) /\ Columns \in Seq(Names)
  BY ColumnsAreLists
<1>5. Columns # <<>>
  <2>1. c.cols[1] \in Names
    BY <1>1
  <2> QED
    BY <2>1 DEF Names, ToSet
<1> HIDE DEF used
<1>6. cells \in Nat \ {0} /\ part \in Nat
  BY <1>1, <1>3, CellsArePositive DEF Cells
<1>7. aims \in Nat \ {0}
  <2>1. CASE ValidTargets = <<>>
    BY <2>1
  <2>2. CASE ValidTargets # <<>>
    <3>1. Cells(c.rows, ValidTargets) \in Nat \ {0}
      BY <1>1, <1>4, <2>2, CellsArePositive
    <3> QED
      BY <2>2, <3>1
  <2> QED
    BY <2>1, <2>2
<1>8. cells - used_missing \in Nat /\ aims - targets_missing \in Nat
  <2>1. used_missing \in Nat /\ used_missing <= cells /\ cells \in Nat
    BY <1>1, <1>3, MissingAreCells
  <2>2. targets_missing \in Nat /\ targets_missing <= aims
    <3>1. /\ targets_missing \in Nat
          /\ targets_missing <= Cells(c.rows, ValidTargets)
      BY <1>1, <1>4, MissingAreCells
    <3>2. CASE ValidTargets = <<>>
      <4>1. Cells(c.rows, ValidTargets) = 0
        <5>1. Cardinality(c.rows) \in Nat /\ Len(ValidTargets) = 0
          BY <1>1, <3>2, CellsArePositive
        <5> QED
          BY <5>1 DEF Cells
      <4> QED
        BY <3>1, <3>2, <4>1
    <3> QED
      BY <3>1, <3>2
  <2> HIDE DEF cells, aims, used_missing, targets_missing
  <2> QED
    BY <1>7, <2>1, <2>2
<1>9. whole \in Nat \ {0}
  <2>1. Rows \in SUBSET Rows /\ Rows # {}
    BY SubsetAssumption DEF Selectable
  <2> QED
    BY <1>4, <1>5, <2>1, CellsArePositive DEF Cells
<1>10. SubsetScore(c) = Rounded(part * (cells - used_missing) * (aims - targets_missing),
                          whole * cells * aims, ScoreUnits)
  BY DEF SubsetScore, used
<1> HIDE DEF whole, part, cells, aims, used_missing, targets_missing
<1>11. part * (cells - used_missing) * (aims - targets_missing) \in Nat
  BY <1>6, <1>7, <1>8
<1>12. whole * cells * aims \in Nat \ {0}
  BY <1>6, <1>7, <1>9, ProductIsPositive
<1>13. ScoreUnits \in Nat
  BY SMT DEF ScoreUnits
<1> QED
  BY <1>10, <1>11, <1>12, <1>13, RoundedIsNumber

\* A proposal with its score.
Subsets ==
  {c \in [strategy : Strategies, rows : SUBSET Rows, cols : Seq(Names), score : Nat] :
     /\ c.rows # {} /\ c.cols # <<>>
     /\ c.strategy \in {"row_signature", "complete_cases"} =>
          \A r \in c.rows, k \in ToSet(c.cols) \ ToSet(targets) : df[r][k] # NoValue}

\* What has rows and columns is given a score, and stays what it was.
LEMMA MarkedTells ==
  ASSUME Selectable, NEW s \in Seq(Proposals)
  PROVE  Marked(s) \in Seq(Subsets)
<1> DEFINE I == {i \in DOMAIN s : s[i].rows # {} /\ s[i].cols # <<>>}
           whole == Kept(s, I)
           mark(c) == [strategy |-> c.strategy, rows |-> c.rows, cols |-> c.cols, score |-> SubsetScore(c)]
<1>1. whole \in Seq(Proposals) /\ ToSet(whole) = {s[i] : i \in I}
  BY KeptIsList
<1>2. \A i \in DOMAIN whole : whole[i] \in ToSet(whole)
  BY DEF ToSet
<1>3. \A c \in ToSet(whole) : c \in Proposals /\ c.rows # {} /\ c.cols # <<>>
  <2> HIDE DEF whole
  <2> QED
    BY <1>1
<1>4. \A c \in ToSet(whole) : mark(c) \in Subsets
  <2> SUFFICES ASSUME NEW c \in ToSet(whole) PROVE mark(c) \in Subsets
    OBVIOUS
  <2>1. c \in Proposals /\ SubsetScore(c) \in Nat /\ c.rows # {} /\ c.cols # <<>>
    <3> HIDE DEF whole
    <3> QED
      BY <1>3, ScoreIsNumber
  <2> HIDE DEF whole
  <2> QED
    BY <2>1 DEF Subsets, Proposals
<1>5. Marked(s) = [i \in DOMAIN whole |-> mark(whole[i])]
  BY DEF Marked
<1> HIDE DEF whole, mark
<1>6. \A i \in DOMAIN whole : mark(whole[i]) \in Subsets
  BY <1>2, <1>4
<1>7. DOMAIN whole = 1 .. Len(whole) /\ Len(whole) \in Nat
  BY <1>1
<1> QED
  BY <1>5, <1>6, <1>7

\* Each comes after what is better.
BestFirst(s) == \A i, j \in DOMAIN s : i < j => ~Better(s[j], s[i])

\* The scored subsets are in the order of their scores.
LEMMA ScoredTells ==
  ASSUME Selectable, NEW s \in Seq(Proposals)
  PROVE  Scored(s) \in Seq(Subsets) /\ BestFirst(Scored(s))
<1> DEFINE marked == Marked(s)
           n == Len(marked)
           R == {q \in Pairs(DOMAIN marked) : Better(marked[q[1]], marked[q[2]])}
<1>1. marked \in Seq(Subsets)
  BY MarkedTells
<1> HIDE DEF marked
<1>2. n \in Nat /\ DOMAIN marked = 1 .. n /\ \A i \in 1 .. n : marked[i] \in Subsets
  BY <1>1
<1>3. \A i \in 1 .. n : marked[i].score \in Int
  BY <1>2 DEF Subsets
<1>4. \A x, y \in 1 .. n : <<x, y>> \in R <=> Better(marked[x], marked[y])
  BY <1>2 DEF Pairs
<1>5. Compares(R, DOMAIN marked)
  <2> HIDE DEF R, n
  <2>1. \A x, y \in 1 .. n : Better(marked[x], marked[y]) => ~Better(marked[y], marked[x])
    BY <1>3 DEF Better
  <2>2. \A x, y, z \in 1 .. n : Better(marked[x], marked[z])
          => Better(marked[x], marked[y]) \/ Better(marked[y], marked[z])
    BY <1>3 DEF Better
  <2> QED
    BY <1>2, <1>4, <2>1, <2>2 DEF Compares
<1>6. Scored(s) = Sorted(marked, R)
  BY DEF Scored, marked
<1> HIDE DEF n, R
<1>7. PICK p : Sorts(p, marked, R, Scored(s))
  BY <1>2, <1>5, <1>6, SortingIsStable
<1>8. /\ p \in [1 .. n -> 1 .. n] /\ Scored(s) = [k \in 1 .. n |-> marked[p[k]]]
      /\ \A k, l \in 1 .. n : k < l => <<p[k], p[l]>> \in R
                                    \/ (<<p[l], p[k]>> \notin R /\ p[k] < p[l])
  BY <1>2, <1>7 DEF Sorts
<1>9. Scored(s) \in Seq(Subsets)
  <2>1. Scored(s) \in [1 .. n -> Subsets]
    BY <1>2, <1>8
  <2> QED
    BY <1>2, <2>1
<1>10. \A k, l \in 1 .. n : k < l => ~Better(marked[p[l]], marked[p[k]])
  <2> SUFFICES ASSUME NEW k \in 1 .. n, NEW l \in 1 .. n, k < l
               PROVE  ~Better(marked[p[l]], marked[p[k]])
    OBVIOUS
  <2>1. p[k] \in 1 .. n /\ p[l] \in 1 .. n
    BY <1>8
  <2>2. <<p[l], p[k]>> \notin R
    <3>1. <<p[k], p[l]>> \in R => <<p[l], p[k]>> \notin R
      BY <1>2, <1>5, <2>1 DEF Compares
    <3> QED
      BY <1>8, <3>1
  <2> QED
    BY <1>4, <2>1, <2>2
<1> QED
  BY <1>8, <1>9, <1>10 DEF BestFirst

\* Having the same columns is reflexive and transitive.
LEMMA SameColumnsIsEquivalence ==
  /\ \A c : SameColumns(c, c)
  /\ \A c, d, e : SameColumns(c, d) /\ SameColumns(d, e) => SameColumns(c, e)
BY DEF SameColumns

\* Leaving some out leaves the others in order.
LEMMA KeepingKeepsOrder ==
  ASSUME NEW s \in Seq(Subsets), BestFirst(s), NEW I \in SUBSET (DOMAIN s)
  PROVE  Kept(s, I) \in Seq(Subsets) /\ BestFirst(Kept(s, I))
<1> DEFINE n == Cardinality(I)
<1>1. DOMAIN s = 1 .. Len(s) /\ Len(s) \in Nat
  BY ItemsAreFinite
<1>2. PICK p : Keeps(p, s, I, Kept(s, I))
  BY <1>1, KeepingIsOrdered
<1>3. /\ p \in [1 .. n -> I] /\ Kept(s, I) = [k \in 1 .. n |-> s[p[k]]]
      /\ \A k, l \in 1 .. n : k < l => p[k] < p[l]
  BY <1>2 DEF Keeps
<1> HIDE DEF n
<1>4. BestFirst(Kept(s, I))
  BY <1>3 DEF BestFirst
<1> QED
  BY <1>4, KeptIsList

\* What is selected: no two of the same columns, the best first, and what is
\* not of them has the columns of one that is not worse, or k are not worse.
LEMMA SelectionIsBest ==
  ASSUME NEW s \in Seq(Subsets), BestFirst(s), NEW k \in Nat \ {0}
  PROVE  LET t == SelectTopK(s, k) IN
         /\ t \in Seq(Subsets) /\ Len(t) <= k
         /\ \A i, j \in DOMAIN t : i < j => ~Better(t[j], t[i]) /\ ~SameColumns(t[i], t[j])
         /\ \A i \in DOMAIN s :
              \/ \E j \in DOMAIN t : SameColumns(t[j], s[i]) /\ ~Better(s[i], t[j])
              \/ Len(t) = k /\ \A j \in DOMAIN t : ~Better(s[i], t[j])
<1> DEFINE I == {i \in DOMAIN s : \A j \in 1 .. i - 1 : ~SameColumns(s[j], s[i])}
           u == Kept(s, I)
           t == SelectTopK(s, k)
           n == Cardinality(I)
           m == IF n < k THEN n ELSE k
<1>1. DOMAIN s = 1 .. Len(s) /\ Len(s) \in Nat /\ \A i \in DOMAIN s : s[i] \in Subsets
  OBVIOUS
<1>2. n \in Nat /\ \E p : Keeps(p, s, I, u)
  <2>1. I \in SUBSET (1 .. Len(s))
    BY <1>1
  <2> HIDE DEF I
  <2> QED
    BY <1>1, <2>1, KeepingIsOrdered
<1>3. PICK p : Keeps(p, s, I, u)
  BY <1>2
<1>4. I \subseteq DOMAIN s
  OBVIOUS
<1>5. \A i \in I : \A j \in 1 .. i - 1 : ~SameColumns(s[j], s[i])
  OBVIOUS
<1>6. \A i \in DOMAIN s : \E l \in I : l <= i /\ SameColumns(s[l], s[i])
  <2> SUFFICES ASSUME NEW i \in DOMAIN s PROVE \E l \in I : l <= i /\ SameColumns(s[l], s[i])
    OBVIOUS
  <2> DEFINE E == {j \in DOMAIN s : SameColumns(s[j], s[i])}
  <2>1. i \in E /\ E \subseteq Nat
    BY <1>1, SameColumnsIsEquivalence
  <2>2. PICK l \in E : \A j \in E : l <= j
    <3> HIDE DEF E
    <3> QED
      BY <2>1, LeastNatural
  <2>3. l \in DOMAIN s /\ SameColumns(s[l], s[i]) /\ l <= i
    BY <2>1, <2>2
  <2>4. ASSUME NEW j \in 1 .. l - 1 PROVE ~SameColumns(s[j], s[l])
    <3>1. j \in DOMAIN s /\ ~(l <= j)
      BY <1>1, <2>3
    <3>2. ~SameColumns(s[j], s[i])
      BY <2>2, <3>1
    <3> QED
      BY <2>3, <3>2, SameColumnsIsEquivalence
  <2>5. l \in I
    BY <2>3, <2>4
  <2> HIDE DEF I
  <2> QED
    BY <2>3, <2>5
<1>7. t = FirstOf(u, k)
  BY DEF SelectTopK
<1> HIDE DEF I, u, t, n, m
<1>8. /\ p \in [1 .. n -> I] /\ u = [j \in 1 .. n |-> s[p[j]]]
      /\ \A i \in I : \E j \in 1 .. n : p[j] = i
      /\ \A i, j \in 1 .. n : i < j => p[i] < p[j]
  BY <1>3 DEF Keeps, n
<1>9. u \in Seq(Subsets) /\ Len(u) = n
  <2>1. u \in [1 .. n -> Subsets]
    BY <1>1, <1>4, <1>8
  <2> QED
    BY <1>2, <1>8, <2>1
<1>10. /\ t \in Seq(Subsets) /\ DOMAIN t = 1 .. m /\ Len(t) = m /\ m \in Nat
       /\ \A j \in 1 .. m : t[j] = s[p[j]]
       /\ m <= n /\ m <= k /\ (m < n => m = k)
  <2>1. m \in Nat /\ m <= n /\ m <= k /\ (m < n => m = k)
    BY <1>2 DEF m
  <2>2. t \in Seq(Subsets) /\ Len(t) = m /\ \A j \in 1 .. m : t[j] = u[j]
    BY <1>7, <1>9, FirstOfIsPrefix DEF m
  <2>3. DOMAIN t = 1 .. m
    BY <2>2
  <2>4. \A j \in 1 .. m : u[j] = s[p[j]]
    BY <1>2, <1>8, <2>1
  <2> QED
    BY <2>1, <2>2, <2>3, <2>4
<1>11. \A j \in 1 .. m : j \in 1 .. n /\ p[j] \in I /\ p[j] \in DOMAIN s
  <2>1. \A j \in 1 .. m : j \in 1 .. n
    BY <1>2, <1>10
  <2>2. \A j \in 1 .. n : p[j] \in I
    BY <1>8
  <2> QED
    BY <1>4, <2>1, <2>2
<1>12. \A i, j \in DOMAIN s : i <= j => ~Better(s[j], s[i])
  <2>1. \A i \in DOMAIN s : s[i].score \in Int
    BY <1>1 DEF Subsets
  <2>2. \A i \in DOMAIN s : ~Better(s[i], s[i])
    BY <2>1 DEF Better
  <2>3. \A i, j \in DOMAIN s : i < j => ~Better(s[j], s[i])
    BY DEF BestFirst
  <2> QED
    BY <1>1, <2>2, <2>3
<1>13. ASSUME NEW i \in 1 .. m, NEW j \in 1 .. m, i < j
       PROVE  ~Better(t[j], t[i]) /\ ~SameColumns(t[i], t[j])
  <2>1. p[i] < p[j] /\ p[i] \in DOMAIN s /\ p[j] \in DOMAIN s /\ p[j] \in I
    BY <1>8, <1>11, <1>13
  <2>2. p[i] \in 1 .. p[j] - 1 /\ p[i] <= p[j]
    BY <1>1, <2>1
  <2> QED
    BY <1>5, <1>10, <1>12, <2>1, <2>2
<1>14. ASSUME NEW i \in DOMAIN s
       PROVE  \/ \E j \in 1 .. m : SameColumns(t[j], s[i]) /\ ~Better(s[i], t[j])
              \/ m = k /\ \A j \in 1 .. m : ~Better(s[i], t[j])
  <2>1. PICK l \in I : l <= i /\ SameColumns(s[l], s[i])
    BY <1>6
  <2>2. PICK h \in 1 .. n : p[h] = l
    BY <1>8
  <2>3. CASE h <= m
    <3>1. h \in 1 .. m /\ t[h] = s[l]
      BY <1>2, <1>10, <2>2, <2>3
    <3>2. ~Better(s[i], s[l])
      BY <1>4, <1>12, <2>1
    <3> QED
      BY <2>1, <3>1, <3>2
  <2>4. CASE h > m
    <3>1. m = k
      BY <1>2, <1>10, <2>2, <2>4
    <3>2. ASSUME NEW j \in 1 .. m PROVE ~Better(s[i], t[j])
      <4>1. j < h /\ j \in 1 .. n
        BY <1>2, <1>10, <1>11, <2>2, <2>4
      <4>2. p[j] < l /\ p[j] \in DOMAIN s
        BY <1>8, <1>11, <2>2, <4>1
      <4>3. p[j] <= i
        BY <1>1, <1>4, <2>1, <4>2
      <4> QED
        BY <1>10, <1>12, <4>2, <4>3
    <3> QED
      BY <3>1, <3>2
  <2> QED
    BY <1>2, <1>10, <2>2, <2>3, <2>4
<1>15. \A i, j \in DOMAIN t : i < j => ~Better(t[j], t[i]) /\ ~SameColumns(t[i], t[j])
  BY <1>10, <1>13
<1>16. \A i \in DOMAIN s :
         \/ \E j \in DOMAIN t : SameColumns(t[j], s[i]) /\ ~Better(s[i], t[j])
         \/ Len(t) = k /\ \A j \in DOMAIN t : ~Better(s[i], t[j])
  BY <1>10, <1>14
<1> QED
  BY <1>10, <1>15, <1>16 DEF t

\* The scored subsets are what they are said to be, the best first.
ScoredInOrder ==
  /\ targets \in TargetChoices /\ limit \in Limits
  /\ scored \in Seq(Subsets) /\ BestFirst(scored)
  /\ pc = "start" => scored = <<>>

\* The selection from what differs from the whole, among all that was scored.
LEMMA ChoiceIsBest ==
  ASSUME ScoredInOrder
  PROVE  LET t == SelectTopK(MeaningfulOnes, limit) IN
    /\ t \in Seq(Subsets) /\ Len(t) <= limit
    /\ \A i, j \in DOMAIN t : i < j => ~Better(t[j], t[i]) /\ ~SameColumns(t[i], t[j])
    /\ \A i \in DOMAIN scored :
         \/ ~Meaningful(scored[i])
         \/ \E j \in DOMAIN t : SameColumns(t[j], scored[i]) /\ ~Better(scored[i], t[j])
         \/ Len(t) = limit /\ \A j \in DOMAIN t : ~Better(scored[i], t[j])
<1> DEFINE I == {i \in DOMAIN scored : Meaningful(scored[i])}
           s == MeaningfulOnes
           t == SelectTopK(s, limit)
<1>1. scored \in Seq(Subsets) /\ BestFirst(scored) /\ I \in SUBSET (DOMAIN scored)
  BY DEF ScoredInOrder
<1>2. s = Kept(scored, I)
  BY DEF MeaningfulOnes
<1>3. limit \in Nat \ {0}
  BY SubsetAssumption DEF ScoredInOrder
<1> HIDE DEF s, I
<1>4. s \in Seq(Subsets) /\ BestFirst(s)
  BY <1>1, <1>2, KeepingKeepsOrder
<1>5. ToSet(s) = {scored[i] : i \in I}
  BY <1>1, <1>2, KeptIsList
<1>6. /\ t \in Seq(Subsets) /\ Len(t) <= limit
      /\ \A i, j \in DOMAIN t : i < j => ~Better(t[j], t[i]) /\ ~SameColumns(t[i], t[j])
      /\ \A i \in DOMAIN s :
           \/ \E j \in DOMAIN t : SameColumns(t[j], s[i]) /\ ~Better(s[i], t[j])
           \/ Len(t) = limit /\ \A j \in DOMAIN t : ~Better(s[i], t[j])
  BY <1>3, <1>4, SelectionIsBest
<1> HIDE DEF t
<1>7. ASSUME NEW i \in DOMAIN scored, Meaningful(scored[i])
      PROVE  \/ \E j \in DOMAIN t : SameColumns(t[j], scored[i]) /\ ~Better(scored[i], t[j])
             \/ Len(t) = limit /\ \A j \in DOMAIN t : ~Better(scored[i], t[j])
  <2>1. scored[i] \in ToSet(s)
    BY <1>5, <1>7 DEF I
  <2>2. PICK j \in DOMAIN s : s[j] = scored[i]
    BY <2>1 DEF ToSet
  <2> QED
    BY <1>6, <2>2
<1> QED
  BY <1>6, <1>7 DEF t, s

\* What the tool returns belongs to a subset that was chosen, or to all.
PlanIsOfTop ==
  /\ top \in Seq(Subsets) /\ (top # <<>> => Len(top) <= limit)
  /\ \A i \in DOMAIN plan : plan[i].subset \in 0 .. Len(top)

\* Building the artifacts makes none of a subset that was not chosen.
LEMMA ArtifactsAreOfTop ==
  ASSUME NEW n \in Nat, DOMAIN top = 1 .. n, Len(top) = n, BuildArtifacts,
         \A i \in DOMAIN plan : plan[i].subset \in 0 .. n
  PROVE  \A i \in DOMAIN plan' : plan'[i].subset \in 0 .. n
<1> DEFINE Whole == {Artifact("columns", 0, [c \in Names |-> Class(c)]),
                     Artifact("missing", 0, <<RowSignatures, CoMissing>>),
                     Artifact("registry", 0, top), Artifact("scores", 0, top),
                     Artifact("summary", 0, top)}
           tables == <<Artifact("columns", 0, [c \in Names |-> Class(c)]),
                       Artifact("missing", 0, <<RowSignatures, CoMissing>>),
                       Artifact("registry", 0, top), Artifact("scores", 0, top)>>
           summary == <<Artifact("summary", 0, top)>>
           parts == [i \in DOMAIN top |-> Artifact("data", i, top[i])]
           index == [i \in DOMAIN top |-> i]
<1>1. CASE plan' = plan
  BY <1>1
<1>2. ASSUME NEW drawn \in SUBSET DOMAIN top, NEW map,
             plan' = [i \in DOMAIN Kept(index, drawn) |->
                        Artifact("heatmap", Kept(index, drawn)[i], map[Kept(index, drawn)[i]])]
                       \o tables \o parts \o summary
      PROVE  \A i \in DOMAIN plan' : plan'[i].subset \in 0 .. n
  <2> DEFINE order == Kept(index, drawn)
             plots == [i \in DOMAIN order |-> Artifact("heatmap", order[i], map[order[i]])]
             S == Whole \cup {Artifact("data", i, top[i]) : i \in 1 .. n}
                        \cup {Artifact("heatmap", i, map[i]) : i \in 1 .. n}
  <2>1. index \in Seq(1 .. n) /\ drawn \in SUBSET (DOMAIN index)
    OBVIOUS
  <2>2. order \in Seq(1 .. n)
    <3> HIDE DEF index
    <3> QED
      BY <2>1, KeptIsList
  <2>3. \A a \in S : a.subset \in 0 .. n
    BY DEF Artifact
  <2>4. tables \in Seq(S) /\ summary \in Seq(S)
    OBVIOUS
  <2>5. parts \in Seq(S)
    <3>1. \A i \in 1 .. n : Artifact("data", i, top[i]) \in S
      OBVIOUS
    <3> HIDE DEF S
    <3> QED
      BY <3>1
  <2>6. plan' = plots \o tables \o parts \o summary
    BY <1>2
  <2> HIDE DEF order, tables, parts, summary
  <2>7. plots \in Seq(S)
    <3>1. DOMAIN order = 1 .. Len(order) /\ Len(order) \in Nat
          /\ \A i \in DOMAIN order : order[i] \in 1 .. n
      BY <2>2
    <3>2. \A i \in DOMAIN order : Artifact("heatmap", order[i], map[order[i]]) \in S
      BY <3>1
    <3> HIDE DEF S
    <3> QED
      BY <3>1, <3>2
  <2> HIDE DEF plots, S
  <2>8. plan' \in Seq(S)
    BY <2>4, <2>5, <2>6, <2>7
  <2>9. \A i \in DOMAIN plan' : plan'[i] \in S
    BY <2>8
  <2> QED
    BY <2>3, <2>9
<1> QED
  BY <1>1, <1>2 DEF BuildArtifacts

\* The invariant: the order above, and what follows from it.
Chosen == ScoredInOrder /\ PlanIsOfTop /\ GroupsAreComplete /\ BestIsKept
          /\ pc \in {"start", "scored", "nothing", "chosen", "done", "failed"}
          /\ (pc \in {"start", "scored", "nothing"} => top = <<>>)
          /\ (pc \in {"start", "scored", "nothing", "chosen"} => plan = <<>>)

\* Every step keeps the invariant: discovering and choosing make it true.
LEMMA ChosenStep == Chosen /\ [SNext]_svars => Chosen'
<1> SUFFICES ASSUME Chosen, [SNext]_svars PROVE Chosen'
  OBVIOUS
<1> USE DEF Chosen
<1>1. CASE Discover
  <2>1. Selectable
    BY DEF ScoredInOrder, Selectable
  <2>2. Scored(Candidates) \in Seq(Subsets) /\ BestFirst(Scored(Candidates))
    BY <2>1, CandidatesArePossible, ScoredTells
  <2>3. /\ pc = "start" /\ scored' = Scored(Candidates) /\ pc' = "scored"
        /\ df' = df /\ targets' = targets /\ limit' = limit /\ top' = top /\ plan' = plan
    BY <1>1 DEF Discover
  <2>4. scored' \in Seq(Subsets) /\ BestFirst(scored')
    BY <2>2, <2>3
  <2>5. Subsets' = Subsets
    BY <2>3 DEF Subsets
  <2>6. ScoredInOrder'
    BY <2>3, <2>4, <2>5 DEF ScoredInOrder, BestFirst
  <2>7. GroupsAreComplete'
    <3>1. \A i \in DOMAIN scored' : scored'[i] \in Subsets
      BY <2>4
    <3> QED
      BY <2>3, <3>1 DEF GroupsAreComplete, Subsets
  <2>8. BestIsKept' /\ PlanIsOfTop'
    BY <2>3, <2>5 DEF BestIsKept, PlanIsOfTop
  <2> QED
    BY <2>3, <2>6, <2>7, <2>8
<1>2. CASE Choose
  <2> DEFINE t == SelectTopK(MeaningfulOnes, limit)
  <2>1. /\ pc = "scored" /\ top' = t /\ pc' = "chosen" /\ plan' = plan
        /\ df' = df /\ targets' = targets /\ limit' = limit /\ scored' = scored
    BY <1>2 DEF Choose
  <2>2. ScoredInOrder'
    BY <2>1 DEF ScoredInOrder, Subsets, BestFirst
  <2>3. GroupsAreComplete'
    BY <2>1 DEF GroupsAreComplete
  <2>4. /\ t \in Seq(Subsets) /\ Len(t) <= limit
        /\ \A i, j \in DOMAIN t : i < j => ~Better(t[j], t[i]) /\ ~SameColumns(t[i], t[j])
        /\ \A i \in DOMAIN scored :
             \/ ~Meaningful(scored[i])
             \/ \E j \in DOMAIN t : SameColumns(t[j], scored[i]) /\ ~Better(scored[i], t[j])
             \/ Len(t) = limit /\ \A j \in DOMAIN t : ~Better(scored[i], t[j])
    BY ChoiceIsBest
  <2> HIDE DEF t
  <2>5. BestIsKept'
    BY <2>1, <2>4 DEF BestIsKept
  <2>6. PlanIsOfTop'
    <3>1. Subsets' = Subsets /\ plan' = <<>>
      BY <2>1 DEF Subsets
    <3> QED
      BY <2>1, <2>4, <3>1 DEF PlanIsOfTop
  <2> QED
    BY <2>1, <2>2, <2>3, <2>5, <2>6
<1>3. CASE RecordNothing
  BY <1>3 DEF RecordNothing, ScoredInOrder, Subsets, BestFirst, GroupsAreComplete, BestIsKept, PlanIsOfTop
<1>4. CASE BuildArtifacts
  <2>1. /\ pc = "chosen" /\ pc' \in {"done", "failed"}
        /\ df' = df /\ targets' = targets /\ limit' = limit
        /\ scored' = scored /\ top' = top
    BY <1>4 DEF BuildArtifacts
  <2>2. Len(top) \in Nat /\ DOMAIN top = 1 .. Len(top)
        /\ \A i \in DOMAIN plan : plan[i].subset \in 0 .. Len(top)
    BY DEF PlanIsOfTop
  <2>3. \A i \in DOMAIN plan' : plan'[i].subset \in 0 .. Len(top)
    BY <1>4, <2>2, ArtifactsAreOfTop
  <2>4. PlanIsOfTop'
    BY <2>1, <2>3 DEF PlanIsOfTop, Subsets
  <2> QED
    BY <2>1, <2>4 DEF ScoredInOrder, Subsets, BestFirst, GroupsAreComplete, BestIsKept
<1>5. CASE UNCHANGED svars
  BY <1>5 DEF svars, ScoredInOrder, Subsets, BestFirst, GroupsAreComplete, BestIsKept, PlanIsOfTop
<1> QED
  BY <1>1, <1>2, <1>3, <1>4, <1>5 DEF SNext

\* The invariant holds from the start.
LEMMA ChosenAlways == SSpec => []Chosen
<1>1. SInit => Chosen
  BY DEF SInit, Chosen, ScoredInOrder, BestFirst, PlanIsOfTop, GroupsAreComplete, BestIsKept
<1>2. Chosen /\ [SNext]_svars => Chosen'
  BY ChosenStep
<1> QED
  BY <1>1, <1>2, PTL DEF SSpec

\* Every candidate has rows and columns of the frame and a score of at least
\* zero, whatever was missing, so that no ratio of score_subset has a divisor
\* of zero; and no more than max_subsets are chosen and written.
THEOREM SubsetsAreTyped == SSpec => []STypeOK
<1>1. Chosen => STypeOK
  <2> SUFFICES ASSUME Chosen PROVE STypeOK
    OBVIOUS
  <2>1. ASSUME NEW c \in Subsets PROVE IsSubset(c)
    BY DEF Subsets, IsSubset, ToSet
  <2>2. \A i \in DOMAIN scored : scored[i] \in Subsets
    BY DEF Chosen, ScoredInOrder
  <2>3. \A i \in DOMAIN top : top[i] \in Subsets /\ Len(top) <= limit
    BY DEF Chosen, PlanIsOfTop
  <2> QED
    BY <2>1, <2>2, <2>3 DEF Chosen, PlanIsOfTop, STypeOK
<1> QED
  BY <1>1, ChosenAlways, PTL

\* On every frame: a group of one signature and the complete rows miss no value
\* of their columns, targets aside.
THEOREM SubsetsAreComplete == SSpec => []GroupsAreComplete
<1>1. Chosen => GroupsAreComplete
  BY DEF Chosen
<1> QED
  BY <1>1, ChosenAlways, PTL

\* On every frame: no two of the chosen subsets have the same columns, the best
\* come first, and what was left out has the columns of one that is not worse
\* or finds max_subsets that are not.
THEOREM SubsetsAreBest == SSpec => []BestIsKept
<1>1. Chosen => BestIsKept
  BY DEF Chosen
<1> QED
  BY <1>1, ChosenAlways, PTL
=============================================================================
