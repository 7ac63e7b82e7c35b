--------------------------------- MODULE Lists ---------------------------------
(***************************************************************************)
(* What Python does to a list that keeps or changes the order of its items, *)
(* each stated by the place an item gets: the number of those before it.    *)
(* An order is a set of pairs, so that facts about it hold for any order.   *)
(***************************************************************************)
EXTENDS Integers, Sequences, FiniteSets

Pairs(D) == {<<i, j>> : i \in D, j \in D}

\* The elements of I, those with fewer elements before them first.
Ranked(I, R) ==
  [k \in 1 .. Cardinality(I) |->
     CHOOSE i \in I : Cardinality({j \in I : <<j, i>> \in R}) = k - 1]

\* A list comprehension with a condition: the items at the positions of I.
Kept(s, I) ==
  LET place == Ranked(I, {q \in Pairs(I) : q[1] < q[2]})
  IN [k \in 1 .. Cardinality(I) |-> s[place[k]]]

\* list.sort: by the pairs of positions in R, equals in the order they had.
Sorted(s, R) ==
  LET D == DOMAIN s
      place == Ranked(D, {q \in Pairs(D) : q \in R \/ (<<q[2], q[1]>> \notin R /\ q[1] < q[2])})
  IN [k \in D |-> s[place[k]]]

\* list.extend for each of a list of lists.
Joined(s) ==
  LET upTo[k \in 0 .. Len(s)] == IF k = 0 THEN <<>> ELSE upTo[k - 1] \o s[k] IN upTo[Len(s)]
================================================================================
