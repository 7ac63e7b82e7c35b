------------------------- MODULE ModelRegistryProofs -------------------------
(* Theorems about ModelRegistry for any targets, data frames, trainings and *)
(* scores.                                                                  *)
EXTENDS ModelRegistry, SequenceTheorems, WellFoundedInduction, TLAPS

-----------------------------------------------------------------------------
(* Least and greatest numbers                                               *)

LEMMA LeastNatural ==
  ASSUME NEW S, S \subseteq Nat, S # {}
  PROVE \E n \in S : \A m \in S : n <= m
<1> DEFINE R == OpToRel(<, Nat)
<1>1. IsWellFoundedOn(R, Nat)
  BY NatLessThanWellFounded
<1>2. R = {ss \in Nat \X Nat : ss[1] < ss[2]}
  BY DEF OpToRel
<1> HIDE DEF R
<1>3. PICK n \in S : \A m \in S : ~(<<m, n>> \in R)
  BY <1>1, WFMin
<1>4. \A m \in S : ~(m < n)
  BY <1>2, <1>3
<1>5. \A m \in S : m \in Nat /\ n \in Nat
  OBVIOUS
<1>6. \A m \in S : n <= m
  BY <1>4, <1>5
<1> QED
  BY <1>6

LEMMA GreatestNumber ==
  ASSUME NEW N \in Nat, NEW S, S \subseteq 1 .. N, S # {}
  PROVE \E n \in S : \A m \in S : m <= n
<1> DEFINE T == {N - n : n \in S}
<1>1. \A n \in S : n \in Int /\ N - n \in Nat
  OBVIOUS
<1>2. T \subseteq Nat /\ T # {}
  BY <1>1
<1>3. \A m \in S : N - m \in T
  OBVIOUS
<1>4. PICK t \in T : \A u \in T : t <= u
  <2> HIDE DEF T
  <2> QED
    BY <1>2, LeastNatural
<1>5. PICK n \in S : t = N - n
  OBVIOUS
<1>6. \A m \in S : N - n <= N - m
  BY <1>3, <1>4, <1>5
<1>7. \A m \in S : m <= n
  BY <1>1, <1>6
<1> QED
  BY <1>7

\* argmin exists: the first of the least scores.
LEMMA BestIsLeast ==
  ASSUME NEW m \in Nat \ {0}, NEW s \in [1 .. m -> Nat]
  PROVE  Best(s) \in 1 .. m /\ \A j \in 1 .. m : s[Best(s)] <= s[j]
<1> DEFINE V == {s[i] : i \in 1 .. m}
<1>1. V \subseteq Nat /\ V # {} /\ \A i \in 1 .. m : s[i] \in V
  OBVIOUS
<1>2. PICK v \in V : \A u \in V : v <= u
  <2> HIDE DEF V
  <2> QED
    BY <1>1, LeastNatural
<1> DEFINE I == {i \in 1 .. m : s[i] = v}
<1>3. I \subseteq Nat /\ I # {}
  OBVIOUS
<1>4. PICK k \in I : \A i \in I : k <= i
  <2> HIDE DEF I
  <2> QED
    BY <1>3, LeastNatural
<1>5. k \in 1 .. m /\ s[k] = v /\ \A j \in 1 .. m : s[k] <= s[j]
  BY <1>1, <1>2
<1>6. \A j \in 1 .. k - 1 : s[k] < s[j]
  <2> SUFFICES ASSUME NEW j \in 1 .. k - 1 PROVE s[k] < s[j]
    OBVIOUS
  <2>1. j \in 1 .. m /\ ~(k <= j)
    BY <1>5
  <2>2. j \notin I
    BY <1>4, <2>1
  <2>3. s[j] # v /\ s[k] <= s[j] /\ s[j] \in Nat /\ s[k] \in Nat
    BY <1>5, <2>1, <2>2
  <2> QED
    BY <1>5, <2>3
<1>7. DOMAIN s = 1 .. m
  OBVIOUS
<1>8. \E i \in DOMAIN s : /\ \A j \in DOMAIN s : s[i] <= s[j]
                          /\ \A j \in 1 .. i - 1 : s[i] < s[j]
  BY <1>5, <1>6, <1>7
<1> HIDE DEF V, I
<1>9. Best(s) \in DOMAIN s /\ \A j \in DOMAIN s : s[Best(s)] <= s[j]
  BY <1>8 DEF Best, Least
<1> QED
  BY <1>7, <1>9

\* ORDER BY created_at DESC LIMIT 1 returns a row of a nonempty selection.
LEMMA LatestIsIn ==
  ASSUME rows \in Seq(ModelRun), NEW S, S \subseteq DOMAIN rows, S # {}
  PROVE  Latest(S) \in S /\ \A j \in S : j <= Latest(S)
<1>1. Len(rows) \in Nat /\ DOMAIN rows = 1 .. Len(rows)
  OBVIOUS
<1>2. \E i \in S : \A j \in S : j <= i
  BY <1>1, GreatestNumber
<1> QED
  BY <1>2 DEF Latest

-----------------------------------------------------------------------------
(***************************************************************************)
(* The inductive invariant.  WorkInv: what a training under way will write. *)
(* RowInv: where the rows come from.  UserInv and DiskInv: the user speaks  *)
(* of a row, and the active data set exists.  ChampInv is the heart: a      *)
(* nonempty branch has a champion, and so has every target that was         *)
(* promised, together with a file to run its model on.                      *)
(***************************************************************************)
FromFile(path, source) ==
  IF source = NoSource THEN path \in Datasets ELSE path = FileOf(source)

WorkInv ==
  work # NoWork =>
    /\ work \in Work /\ trained \in 1 .. MaxTrainings
    /\ FromFile(work.path, work.source)

RowInv ==
  \A i \in DOMAIN rows :
    /\ FromFile(rows[i].path, rows[i].source)
    /\ rows[i].training <= trained
    /\ work # NoWork => rows[i].training < trained

UserInv == user # NoUser => user.model \in DOMAIN rows

DiskInv == active # NoPath => Normal(active) \in disk

HasChampion(r, t) == \E i \in DOMAIN r : r[i].champion /\ Of(r[i], t)

ChampInv ==
  /\ rows # <<>> => \E i \in DOMAIN rows : rows[i].champion
  /\ \A p \in promised : HasChampion(rows, p[1]) /\ (p[2] = NoSource => active # NoPath)

Inv == TypeOK /\ WorkInv /\ RowInv /\ UserInv /\ DiskInv /\ ChampInv

\* What a save leaves: older rows lose at most their flag, and none of another
\* target does; of the new rows one is champion, and it is the best of them.
IsSaved(r, w) ==
  LET n == Len(rows) IN
  /\ r \in Seq(ModelRun) /\ Len(r) > n
  /\ \A i \in 1 .. n :
       /\ r[i].column = rows[i].column /\ r[i].class = rows[i].class
       /\ r[i].path = rows[i].path /\ r[i].source = rows[i].source
       /\ r[i].training = rows[i].training
       /\ rows[i].champion /\ ~Of(rows[i], w.target) => r[i].champion
       /\ w.kind # "tree" /\ Of(rows[i], w.target) /\ rows[i].path = w.path /\ rows[i].source = w.source
            => ~r[i].champion
       /\ w.kind = "tree" => r[i] = rows[i]
  /\ \A i \in n + 1 .. Len(r) :
       /\ r[i].column = w.target /\ (r[i].class <=> w.kind = "tree")
       /\ r[i].path = w.path /\ r[i].source = w.source /\ r[i].training = trained
  /\ \E k \in n + 1 .. Len(r) :
       /\ r[k].champion
       /\ \A j \in n + 1 .. Len(r) : (r[j].champion => j = k) /\ r[k].rmse <= r[j].rmse

LEMMA RowIsRun ==
  ASSUME Inv, work # NoWork, NEW kind \in Kinds \cup {"direct"}, NEW rmse \in Scores,
         NEW champion \in BOOLEAN
  PROVE  Row(work, kind, rmse, champion) \in ModelRun
BY DEF Row, ModelRun, Inv, WorkInv, Work

\* The fields of a new row.
LEMMA RowFields ==
  \A kind, rmse : \A champion \in BOOLEAN :
    /\ Row(work, kind, rmse, champion).column = work.target
    /\ Row(work, kind, rmse, champion).class = (work.kind = "tree")
    /\ Row(work, kind, rmse, champion).path = work.path
    /\ Row(work, kind, rmse, champion).source = work.source
    /\ Row(work, kind, rmse, champion).training = trained
    /\ Row(work, kind, rmse, champion).rmse = rmse
    /\ Row(work, kind, rmse, champion).champion = champion
BY DEF Row

LEMMA ClearedRows ==
  ASSUME rows \in Seq(ModelRun), NEW hit
  PROVE  /\ Cleared(hit) \in Seq(ModelRun) /\ Len(Cleared(hit)) = Len(rows)
         /\ \A i \in DOMAIN rows :
              Cleared(hit)[i] = IF i \in hit THEN [rows[i] EXCEPT !.champion = FALSE] ELSE rows[i]
<1>1. \A i \in DOMAIN rows : rows[i] \in ModelRun
  OBVIOUS
<1>2. \A i \in DOMAIN rows : [rows[i] EXCEPT !.champion = FALSE] \in ModelRun
  BY <1>1 DEF ModelRun
<1>3. DOMAIN rows = 1 .. Len(rows) /\ Len(rows) \in Nat
  OBVIOUS
<1> QED
  BY <1>1, <1>2, <1>3 DEF Cleared

\* What a flag leaves of a row.
LEMMA FlagOnly ==
  ASSUME NEW r \in ModelRun
  PROVE  LET q == [r EXCEPT !.champion = FALSE] IN
           /\ q.column = r.column /\ q.class = r.class /\ q.path = r.path /\ q.source = r.source
           /\ q.rmse = r.rmse /\ q.training = r.training /\ q.champion = FALSE
BY DEF ModelRun

\* Scores of at least one model, once there are results.
LEMMA ResultsAreScores ==
  ASSUME Inv, work # NoWork, work.results # <<>>
  PROVE  \E m \in Nat \ {0} : m <= MaxModels /\ work.results \in [1 .. m -> Scores]
<1>1. PICK m \in 0 .. MaxModels : work.results \in [1 .. m -> Scores]
  BY DEF Inv, WorkInv, Work
<1>2. m \in Nat
  BY <1>1, RegistryAssumption
<1>3. m # 0
  <2> SUFFICES ASSUME m = 0 PROVE FALSE
    OBVIOUS
  <2>1. work.results = <<>>
    BY <1>1
  <2> QED
    BY <2>1
<1> QED
  BY <1>1, <1>2, <1>3, RegistryAssumption

\* Where the elements of two sequences are in the joined one.
LEMMA Joined ==
  \A s, t \in Seq(ModelRun) :
    /\ s \o t \in Seq(ModelRun) /\ Len(s \o t) = Len(s) + Len(t)
    /\ \A i \in 1 .. Len(s) : (s \o t)[i] = s[i]
    /\ \A i \in 1 .. Len(t) : (s \o t)[Len(s) + i] = t[i]
<1> SUFFICES ASSUME NEW s \in Seq(ModelRun), NEW t \in Seq(ModelRun)
             PROVE  /\ s \o t \in Seq(ModelRun) /\ Len(s \o t) = Len(s) + Len(t)
                    /\ \A i \in 1 .. Len(s) : (s \o t)[i] = s[i]
                    /\ \A i \in 1 .. Len(t) : (s \o t)[Len(s) + i] = t[i]
  OBVIOUS
<1> QED
  OBVIOUS

\* _save_model_results_sync and _save_modeling_artifacts.
LEMMA BaselineIsSaved ==
  ASSUME Inv, work # NoWork, work.results # <<>>, work.kind \in {"baseline", "agent"}
  PROVE  IsSaved(ClearedUnit(work) \o ResultRows(work), work)
<1> DEFINE n == Len(rows)
           hit == {i \in DOMAIN rows : Of(rows[i], work.target) /\ rows[i].path = work.path
                                         /\ rows[i].source = work.source}
           old == Cleared(hit)
           new == ResultRows(work)
           b == Best(work.results)
<1>1. rows \in Seq(ModelRun) /\ n \in Nat /\ DOMAIN rows = 1 .. n
  BY DEF Inv, TypeOK
<1>2. /\ old \in Seq(ModelRun) /\ Len(old) = n
      /\ \A i \in 1 .. n : old[i] = IF i \in hit THEN [rows[i] EXCEPT !.champion = FALSE] ELSE rows[i]
  <2> HIDE DEF hit
  <2> QED
    BY <1>1, ClearedRows
<1>3. PICK m \in Nat \ {0} : work.results \in [1 .. m -> Scores]
  BY ResultsAreScores
<1>4. b \in 1 .. m /\ \A j \in 1 .. m : work.results[b] <= work.results[j]
  <2>1. work.results \in [1 .. m -> Nat]
    BY <1>3, RegistryAssumption
  <2> QED
    BY <2>1, BestIsLeast
<1>5. work.kind \in Kinds /\ work.kind # "tree"
  BY DEF Kinds
<1>6. /\ new = [i \in 1 .. m |-> Row(work, work.kind, work.results[i], i = b)]
      /\ \A i \in 1 .. m : Row(work, work.kind, work.results[i], i = b) \in ModelRun
  BY <1>3, <1>5, RowIsRun DEF ResultRows
<1> HIDE DEF b
<1>7. /\ new \in Seq(ModelRun) /\ Len(new) = m
      /\ \A i \in 1 .. m : new[i] = Row(work, work.kind, work.results[i], i = b)
  BY <1>6
<1> HIDE DEF new, old
<1> DEFINE r == old \o new
<1>8. /\ r \in Seq(ModelRun) /\ Len(r) = n + m
      /\ \A i \in 1 .. n : r[i] = old[i]
      /\ \A i \in 1 .. m : r[n + i] = new[i]
  <2>1. old \in Seq(ModelRun) /\ new \in Seq(ModelRun) /\ Len(old) = n /\ Len(new) = m
    BY <1>2, <1>7
  <2> HIDE DEF n
  <2> QED
    BY <2>1, Joined
<1>9. ASSUME NEW i \in 1 .. n
      PROVE  /\ r[i].column = rows[i].column /\ r[i].class = rows[i].class
             /\ r[i].path = rows[i].path /\ r[i].source = rows[i].source
             /\ r[i].training = rows[i].training
             /\ rows[i].champion /\ ~Of(rows[i], work.target) => r[i].champion
             /\ Of(rows[i], work.target) /\ rows[i].path = work.path /\ rows[i].source = work.source
                  => ~r[i].champion
  <2>1. r[i] = IF i \in hit THEN [rows[i] EXCEPT !.champion = FALSE] ELSE rows[i]
    BY <1>2, <1>8
  <2>2. rows[i] \in ModelRun
    BY <1>1
  <2> QED
    BY <1>1, <2>1, <2>2, FlagOnly
<1>10. ASSUME NEW i \in n + 1 .. n + m
       PROVE  r[i] = Row(work, work.kind, work.results[i - n], i - n = b) /\ i - n \in 1 .. m
  <2>1. i - n \in 1 .. m /\ n + (i - n) = i
    BY <1>1, <1>3
  <2> QED
    BY <2>1, <1>7, <1>8
<1>11. ASSUME NEW i \in n + 1 .. n + m
       PROVE  /\ r[i].column = work.target /\ (r[i].class <=> work.kind = "tree")
              /\ r[i].path = work.path /\ r[i].source = work.source /\ r[i].training = trained
              /\ (r[i].champion <=> i - n = b) /\ r[i].rmse = work.results[i - n]
  <2>1. r[i] = Row(work, work.kind, work.results[i - n], i - n = b)
    BY <1>10
  <2> HIDE DEF r, n
  <2> DEFINE q == i - n = b
             x == work.results[i - n]
  <2>2. q \in BOOLEAN /\ r[i] = Row(work, work.kind, x, q)
    BY <2>1
  <2> HIDE DEF q, x
  <2>3. /\ r[i].column = work.target /\ r[i].class = (work.kind = "tree")
        /\ r[i].path = work.path /\ r[i].source = work.source /\ r[i].training = trained
        /\ r[i].champion = q /\ r[i].rmse = x
    BY <2>2, RowFields
  <2> QED
    BY <2>3 DEF q, x
<1>12. /\ n + b \in n + 1 .. n + m /\ r[n + b].champion
       /\ \A j \in n + 1 .. n + m : (r[j].champion => j = n + b) /\ r[n + b].rmse <= r[j].rmse
  <2>1. n + b \in n + 1 .. n + m /\ (n + b) - n = b
    BY <1>1, <1>4
  <2>2. \A j \in n + 1 .. n + m : j - n \in 1 .. m /\ (j - n = b => j = n + b)
    BY <1>1, <1>4
  <2> QED
    BY <2>1, <2>2, <1>11, <1>4
<1> HIDE DEF r
<1>13. IsSaved(r, work)
  <2>1. Len(r) > n /\ r \in Seq(ModelRun)
    BY <1>1, <1>3, <1>8
  <2>2. n + 1 .. Len(r) = n + 1 .. n + m
    BY <1>8
  <2>3. \E k \in n + 1 .. Len(r) :
          /\ r[k].champion
          /\ \A j \in n + 1 .. Len(r) : (r[j].champion => j = k) /\ r[k].rmse <= r[j].rmse
    BY <1>12, <2>2
  <2>4. \A i \in n + 1 .. Len(r) :
          /\ r[i].column = work.target /\ (r[i].class <=> work.kind = "tree")
          /\ r[i].path = work.path /\ r[i].source = work.source /\ r[i].training = trained
    BY <1>11, <2>2
  <2> QED
    BY <1>5, <1>9, <2>1, <2>3, <2>4 DEF IsSaved
<1> QED
  BY <1>13 DEF r, old, new, hit, ClearedUnit

\* _save_decision_tree_classification_artifacts.
LEMMA TreeIsSaved ==
  ASSUME Inv, work # NoWork, work.results # <<>>, work.kind = "tree"
  PROVE  IsSaved(SaveTree(work), work)
<1> DEFINE n == Len(rows)
           new == Row(work, "tree", work.results[1], TRUE)
           r == Append(rows, new)
<1>1. rows \in Seq(ModelRun) /\ n \in Nat /\ DOMAIN rows = 1 .. n
  BY DEF Inv, TypeOK
<1>2. work.results[1] \in Scores /\ work.results[1] \in Nat
  <2>1. PICK m \in Nat \ {0} : work.results \in [1 .. m -> Scores]
    BY ResultsAreScores
  <2>2. 1 \in 1 .. m
    OBVIOUS
  <2> QED
    BY <2>1, <2>2, RegistryAssumption
<1>3. new \in ModelRun
  BY <1>2, RowIsRun DEF Kinds
<1>4. /\ new.column = work.target /\ new.class = TRUE /\ new.path = work.path
      /\ new.source = work.source /\ new.training = trained /\ new.champion = TRUE
      /\ new.rmse = work.results[1]
  BY DEF Row
<1> HIDE DEF new
<1>5. /\ r \in Seq(ModelRun) /\ Len(r) = n + 1 /\ r[n + 1] = new
      /\ \A i \in 1 .. n : r[i] = rows[i]
  BY <1>1, <1>3
<1>6. \A i \in n + 1 .. n + 1 : i = n + 1
  BY <1>1
<1> HIDE DEF r
<1>7. IsSaved(r, work)
  BY <1>1, <1>2, <1>4, <1>5, <1>6 DEF IsSaved
<1> QED
  BY <1>7 DEF r, new, SaveTree

\* _save_hierarchical_artifacts.
LEMMA HierarchicalIsSaved ==
  ASSUME Inv, work # NoWork, work.results # <<>>, work.kind = "hierarchical"
  PROVE  IsSaved(SaveHierarchical(work), work)
<1> DEFINE n == Len(rows)
           hit == {i \in DOMAIN rows : Of(rows[i], work.target)}
           old == Cleared(hit)
           wins == HierarchicalWins(work)
           first == Row(work, "hierarchical", work.results[1], wins)
           second == Row(work, "direct", work.results[2], TRUE)
           r == IF wins THEN Append(old, first) ELSE Append(Append(old, first), second)
<1>1. rows \in Seq(ModelRun) /\ n \in Nat /\ DOMAIN rows = 1 .. n
  BY DEF Inv, TypeOK
<1>2. /\ old \in Seq(ModelRun) /\ Len(old) = n
      /\ \A i \in 1 .. n : old[i] = IF i \in hit THEN [rows[i] EXCEPT !.champion = FALSE] ELSE rows[i]
  <2> HIDE DEF hit
  <2> QED
    BY <1>1, ClearedRows
<1>3. PICK m \in Nat \ {0} : work.results \in [1 .. m -> Scores]
  BY ResultsAreScores
<1>4. Len(work.results) = m /\ work.results[1] \in Scores
  BY <1>3
<1>5. ASSUME ~wins
      PROVE  work.results[2] \in Scores /\ work.results[2] <= work.results[1]
  <2>1. m # 1 /\ ~(work.results[1] <= work.results[2])
    BY <1>4, <1>5 DEF HierarchicalWins
  <2>2. work.results[2] \in Scores
    BY <1>3, <2>1
  <2>3. work.results[1] \in Nat /\ work.results[2] \in Nat
    BY <1>4, <2>2, RegistryAssumption
  <2> QED
    BY <2>1, <2>2, <2>3
<1>6. wins \in BOOLEAN
  BY DEF HierarchicalWins
<1>7. first \in ModelRun
  <2> HIDE DEF wins
  <2> QED
    BY <1>4, <1>6, RowIsRun DEF Kinds
<1>8. ~wins => second \in ModelRun
  BY <1>5, RowIsRun
<1>9. /\ first.column = work.target /\ first.class = FALSE /\ first.path = work.path
      /\ first.source = work.source /\ first.training = trained /\ first.champion = wins
      /\ first.rmse = work.results[1]
  BY DEF Row
<1>10. /\ second.column = work.target /\ second.class = FALSE /\ second.path = work.path
       /\ second.source = work.source /\ second.training = trained /\ second.champion = TRUE
       /\ second.rmse = work.results[2]
  BY DEF Row
<1> HIDE DEF first, second, old, wins
<1>11. /\ r \in Seq(ModelRun) /\ Len(r) = (IF wins THEN n + 1 ELSE n + 2)
       /\ r[n + 1] = first /\ (~wins => r[n + 2] = second)
       /\ \A i \in 1 .. n : r[i] = old[i]
  BY <1>1, <1>2, <1>7, <1>8
<1>12. ASSUME NEW i \in 1 .. n
       PROVE  /\ r[i].column = rows[i].column /\ r[i].class = rows[i].class
              /\ r[i].path = rows[i].path /\ r[i].source = rows[i].source
              /\ r[i].training = rows[i].training
              /\ rows[i].champion /\ ~Of(rows[i], work.target) => r[i].champion
              /\ Of(rows[i], work.target) => ~r[i].champion
  <2>1. r[i] = IF i \in hit THEN [rows[i] EXCEPT !.champion = FALSE] ELSE rows[i]
    BY <1>2, <1>11
  <2>2. rows[i] \in ModelRun
    BY <1>1
  <2> QED
    BY <1>1, <2>1, <2>2, FlagOnly
<1>13. \A i \in n + 1 .. Len(r) : i = n + 1 \/ (~wins /\ i = n + 2)
  BY <1>1, <1>6, <1>11
<1> HIDE DEF r
<1>14. \A i \in n + 1 .. Len(r) :
         /\ r[i].column = work.target /\ r[i].class = FALSE
         /\ r[i].path = work.path /\ r[i].source = work.source /\ r[i].training = trained
  BY <1>9, <1>10, <1>11, <1>13
<1>15. \E k \in n + 1 .. Len(r) :
         /\ r[k].champion
         /\ \A j \in n + 1 .. Len(r) : (r[j].champion => j = k) /\ r[k].rmse <= r[j].rmse
  <2>1. CASE wins
    <3>1. Len(r) = n + 1 /\ n + 1 \in n + 1 .. Len(r)
      BY <2>1, <1>1, <1>11
    <3>4. r[n + 1].champion
      BY <2>1, <1>9, <1>11, Zenon
    <3>2. first.rmse \in Nat
      BY <1>4, <1>9, RegistryAssumption
    <3>3. r[n + 1].rmse <= r[n + 1].rmse
      BY <3>2, <1>11
    <3> QED
      BY <2>1, <3>1, <3>3, <3>4, <1>13
  <2>2. CASE ~wins
    <3>1. Len(r) = n + 2 /\ n + 2 \in n + 1 .. Len(r) /\ r[n + 2].champion /\ ~r[n + 1].champion
      BY <2>2, <1>1, <1>6, <1>9, <1>10, <1>11
    <3>2. r[n + 2].rmse <= r[n + 1].rmse /\ r[n + 2].rmse <= r[n + 2].rmse
      <4>1. work.results[2] \in Nat
        BY <1>5, <2>2, RegistryAssumption
      <4> QED
        BY <4>1, <2>2, <1>5, <1>9, <1>10, <1>11
    <3> QED
      BY <3>1, <3>2, <1>13
  <2> QED
    BY <2>1, <2>2
<1>16. Len(r) > n
  BY <1>1, <1>6, <1>11
<1>17. IsSaved(r, work)
  BY <1>11, <1>12, <1>14, <1>15, <1>16 DEF IsSaved
<1>18. SaveHierarchical(work) = r
  <2>1. wins => old \o <<first>> \o <<>> = Append(old, first)
    BY <1>2, <1>7
  <2>2. ~wins => old \o <<first>> \o <<second>> = Append(Append(old, first), second)
    BY <1>2, <1>7, <1>8
  <2>3. SaveHierarchical(work) = old \o <<first>> \o (IF wins THEN <<>> ELSE <<second>>)
    BY DEF SaveHierarchical, old, wins, first, second
  <2> QED
    BY <2>1, <2>2, <2>3 DEF r
<1> QED
  BY <1>17, <1>18

LEMMA SavedIsSaved ==
  ASSUME Inv, work # NoWork, work.results # <<>>
  PROVE  IsSaved(Saved(work), work)
<1>1. work.kind \in Kinds
  BY DEF Inv, WorkInv, Work
<1>2. CASE work.kind = "tree"
  BY <1>2, TreeIsSaved DEF Saved
<1>3. CASE work.kind = "hierarchical"
  BY <1>3, HierarchicalIsSaved DEF Saved
<1>4. CASE work.kind = "agent"
  <2>1. IsSaved(SaveAgent(work), work)
    BY <1>4, BaselineIsSaved DEF SaveAgent
  <2>2. Saved(work) = SaveAgent(work)
    BY <1>4 DEF Saved
  <2> QED
    BY <2>1, <2>2
<1>5. CASE work.kind = "baseline"
  <2>1. IsSaved(SaveBaseline(work), work)
    BY <1>5, BaselineIsSaved DEF SaveBaseline
  <2>2. Saved(work) = SaveBaseline(work)
    BY <1>5 DEF Saved
  <2> QED
    BY <2>1, <2>2
<1> QED
  BY <1>1, <1>2, <1>3, <1>4, <1>5 DEF Kinds

-----------------------------------------------------------------------------
(* Lookups                                                                  *)

\* The files of artifacts are no data sets, and neither is the absent path.
LEMMA Files ==
  /\ \A s \in Artifacts : FileOf(s) \in Paths /\ FileOf(s) \notin Datasets /\ FileOf(s) # NoPath
                          /\ s # NoSource
  /\ \A p \in Datasets : p \in Paths /\ p # NoPath
  /\ \A p \in Registered : p \in Datasets /\ p # NoPath
BY RegistryAssumption DEF Paths

\* _find_champion_model returns a candidate or None; None only without
\* candidates if it may fall back; and the newest exact match, if there is one.
LEMMA FindChampionFinds ==
  ASSUME rows \in Seq(ModelRun)
  PROVE  \A t, p, s : \A f \in BOOLEAN :
           /\ FindChampion(t, p, s, f) \in Candidates(t) \cup {0}
           /\ f /\ Candidates(t) # {} => FindChampion(t, p, s, f) \in Candidates(t)
           /\ (s # NoSource \/ p # NoPath) /\ Exact(t, p, s) # {} =>
                /\ FindChampion(t, p, s, f) = Latest(Exact(t, p, s))
                /\ FindChampion(t, p, s, f) \in Exact(t, p, s)
<1> SUFFICES ASSUME NEW t, NEW p, NEW s, NEW f \in BOOLEAN
             PROVE  /\ FindChampion(t, p, s, f) \in Candidates(t) \cup {0}
                    /\ f /\ Candidates(t) # {} => FindChampion(t, p, s, f) \in Candidates(t)
                    /\ (s # NoSource \/ p # NoPath) /\ Exact(t, p, s) # {} =>
                         /\ FindChampion(t, p, s, f) = Latest(Exact(t, p, s))
                         /\ FindChampion(t, p, s, f) \in Exact(t, p, s)
  OBVIOUS
<1> DEFINE exact == IF s = NoSource /\ p = NoPath THEN {} ELSE Exact(t, p, s)
           nearby == {i \in Candidates(t) : p # NoPath /\ Normal(rows[i].path) = Normal(p)}
           any == IF f THEN Candidates(t) ELSE {}
<1>1. Candidates(t) \subseteq DOMAIN rows /\ Exact(t, p, s) \subseteq Candidates(t)
  BY DEF Candidates, Exact
<1>2. exact \subseteq Candidates(t) /\ nearby \subseteq Candidates(t) /\ any \subseteq Candidates(t)
  BY <1>1
<1>3. FindChampion(t, p, s, f) =
        CASE exact # {}                  -> Latest(exact)
          [] exact = {} /\ nearby # {}   -> Latest(nearby)
          [] exact = {} /\ nearby = {} /\ any # {} -> Latest(any)
          [] OTHER                       -> 0
  BY DEF FindChampion
<1>4. f /\ Candidates(t) # {} => any # {}
  OBVIOUS
<1>5. (s # NoSource \/ p # NoPath) => exact = Exact(t, p, s)
  OBVIOUS
<1> HIDE DEF exact, nearby, any
<1>6. /\ exact # {} => Latest(exact) \in exact
      /\ nearby # {} => Latest(nearby) \in nearby
      /\ any # {} => Latest(any) \in any
  <2>1. exact \subseteq DOMAIN rows /\ nearby \subseteq DOMAIN rows /\ any \subseteq DOMAIN rows
    BY <1>1, <1>2
  <2> QED
    BY <2>1, LatestIsIn
<1>7. CASE exact # {}
  BY <1>2, <1>3, <1>5, <1>6, <1>7
<1>8. CASE exact = {}
  BY <1>2, <1>3, <1>4, <1>5, <1>6, <1>8
<1> QED
  BY <1>7, <1>8

\* A target with a champion has candidates, all of them rows of its own.
LEMMA CandidatesOfTarget ==
  ASSUME rows \in Seq(ModelRun), NEW t \in Targets
  PROVE  /\ HasChampion(rows, t) <=> Candidates(t) # {}
         /\ Candidates(t) \subseteq Candidates(NoTarget)
         /\ \A i \in Candidates(t) : i \in DOMAIN rows /\ i # 0 /\ Of(rows[i], t)
         /\ \A i \in Candidates(NoTarget) : i \in DOMAIN rows /\ i # 0
<1>1. t # NoTarget
  BY RegistryAssumption
<1>2. \A i \in DOMAIN rows : i # 0
  OBVIOUS
<1> QED
  BY <1>1, <1>2 DEF Candidates, HasChampion

-----------------------------------------------------------------------------
(* The invariant                                                            *)

LEMMA InitInv ==
  Init => Inv
<1> SUFFICES ASSUME Init PROVE Inv
  OBVIOUS
<1>1. TypeOK
  BY RegistryAssumption DEF Init, TypeOK, NoUser
<1>2. DiskInv
  BY RegistryAssumption DEF Init, DiskInv
<1>3. WorkInv /\ RowInv /\ UserInv /\ ChampInv
  BY DEF Init, WorkInv, RowInv, UserInv, ChampInv
<1> QED
  BY <1>1, <1>2, <1>3 DEF Inv

LEMMA StartTrainingInv ==
  ASSUME Inv, StartTraining
  PROVE  Inv'
<1> USE DEF Inv
<1>1. PICK kind \in KindsTrained, t \in Targets, s \in Sources, p \in Paths :
        /\ IF s # NoSource THEN p = FileOf(s)
           ELSE active # NoPath /\ p \in Datasets /\ Normal(p) = Normal(active)
        /\ work' = [kind |-> kind, target |-> t, source |-> s, path |-> p, results |-> <<>>]
  BY DEF StartTraining
<1>2. /\ work = NoWork /\ trained < MaxTrainings /\ trained' = trained + 1
      /\ UNCHANGED <<rows, active, disk, user, promised>>
  BY DEF StartTraining
<1>3. trained \in 0 .. MaxTrainings /\ MaxTrainings \in Nat
  BY RegistryAssumption DEF TypeOK
<1>4. trained' \in 1 .. MaxTrainings
  BY <1>2, <1>3
<1>5. work' \in Work
  <2>1. <<>> \in [1 .. 0 -> Scores] /\ 0 \in 0 .. MaxModels
    BY RegistryAssumption
  <2>2. <<>> \in UNION {[1 .. n -> Scores] : n \in 0 .. MaxModels}
    BY <2>1
  <2>3. kind \in Kinds
    BY RegistryAssumption
  <2> QED
    BY <1>1, <2>2, <2>3 DEF Work
<1>6. FromFile(work'.path, work'.source)
  BY <1>1 DEF FromFile
<1>7. TypeOK'
  BY <1>2, <1>4, <1>5 DEF TypeOK
<1>8. WorkInv'
  BY <1>4, <1>5, <1>6 DEF WorkInv
<1>9. RowInv'
  <2> SUFFICES ASSUME NEW i \in DOMAIN rows
               PROVE  /\ FromFile(rows[i].path, rows[i].source)
                      /\ rows[i].training <= trained'
                      /\ rows[i].training < trained'
    BY <1>2 DEF RowInv
  <2>1. rows[i] \in ModelRun
    BY DEF TypeOK
  <2>2. rows[i].training \in Nat /\ rows[i].training <= trained
    BY <2>1, <1>3 DEF ModelRun, RowInv
  <2> QED
    BY <2>2, <1>2, <1>3 DEF RowInv
<1>10. UserInv' /\ DiskInv' /\ ChampInv'
  BY <1>2 DEF UserInv, DiskInv, ChampInv
<1> QED
  BY <1>7, <1>8, <1>9, <1>10

LEMMA TrainModelsInv ==
  ASSUME Inv, TrainModels
  PROVE  Inv'
<1> USE DEF Inv
<1>1. work # NoWork /\ UNCHANGED <<rows, active, disk, user, promised, trained>>
  BY DEF TrainModels
<1>2. PICK r \in Results(work.kind) : work' = [work EXCEPT !.results = r]
  BY DEF TrainModels
<1>3. work \in Work
  BY <1>1 DEF WorkInv
<1>4. r \in UNION {[1 .. n -> Scores] : n \in 0 .. MaxModels}
  <2> DEFINE most == CASE work.kind = "baseline" -> MaxModels
                       [] work.kind = "hierarchical" -> 2
                       [] OTHER -> 1
  <2>1. most \in Nat /\ most <= MaxModels
    BY RegistryAssumption
  <2>2. r \in UNION {[1 .. n -> Scores] : n \in 1 .. most}
    BY <1>2 DEF Results
  <2> HIDE DEF most
  <2>3. \A n \in 1 .. most : n \in 0 .. MaxModels
    BY <2>1, RegistryAssumption
  <2> QED
    BY <2>2, <2>3
<1>5. /\ work' \in Work /\ work'.path = work.path /\ work'.source = work.source
  BY <1>2, <1>3, <1>4 DEF Work
<1>6. TypeOK' /\ WorkInv'
  BY <1>1, <1>5 DEF TypeOK, WorkInv
<1>7. RowInv' /\ UserInv' /\ DiskInv' /\ ChampInv'
  BY <1>1 DEF RowInv, UserInv, DiskInv, ChampInv
<1> QED
  BY <1>6, <1>7

LEMMA SaveResultsInv ==
  ASSUME Inv, SaveResults
  PROVE  Inv'
<1> USE DEF Inv
<1> DEFINE n == Len(rows)
<1>1. /\ work # NoWork /\ work' = NoWork /\ UNCHANGED <<active, disk, user, promised, trained>>
      /\ IsSaved(rows', work)
  BY SavedIsSaved DEF SaveResults
<1>2. /\ rows \in Seq(ModelRun) /\ n \in Nat /\ DOMAIN rows = 1 .. n
      /\ rows' \in Seq(ModelRun) /\ Len(rows') \in Nat /\ DOMAIN rows' = 1 .. Len(rows')
      /\ n < Len(rows')
  BY <1>1 DEF TypeOK, IsSaved
<1>3. 1 .. n \subseteq 1 .. Len(rows') /\ n + 1 .. Len(rows') \subseteq 1 .. Len(rows')
  BY <1>2
<1>4. \A i \in 1 .. Len(rows') : i \in 1 .. n \/ i \in n + 1 .. Len(rows')
  BY <1>2
<1>5. work \in Work /\ trained \in 1 .. MaxTrainings /\ FromFile(work.path, work.source)
  BY <1>1 DEF WorkInv
<1>6. TypeOK'
  <2>1. user.model \in 0 .. n /\ user.seen \subseteq 1 .. n
    BY <1>2 DEF TypeOK
  <2>2. user.model \in 0 .. Len(rows') /\ user.seen \subseteq 1 .. Len(rows')
    BY <2>1, <1>2, <1>3
  <2> QED
    BY <1>1, <1>2, <2>2 DEF TypeOK
<1>7. WorkInv' /\ DiskInv'
  BY <1>1 DEF WorkInv, DiskInv
<1>8. RowInv'
  <2> SUFFICES ASSUME NEW i \in 1 .. Len(rows')
               PROVE  FromFile(rows'[i].path, rows'[i].source) /\ rows'[i].training <= trained
    BY <1>1, <1>2 DEF RowInv
  <2>1. CASE i \in 1 .. n
    BY <2>1, <1>1, <1>2 DEF IsSaved, RowInv
  <2>2. CASE i \in n + 1 .. Len(rows')
    <3>1. rows'[i].path = work.path /\ rows'[i].source = work.source /\ rows'[i].training = trained
      BY <2>2, <1>1 DEF IsSaved
    <3> QED
      BY <3>1, <1>5, RegistryAssumption
  <2> QED
    BY <2>1, <2>2, <1>4
<1>9. UserInv'
  BY <1>1, <1>2, <1>3 DEF UserInv
<1>10. PICK k \in n + 1 .. Len(rows') : rows'[k].champion
  BY <1>1 DEF IsSaved
<1>11. k \in DOMAIN rows' /\ rows'[k].column = work.target /\ (rows'[k].class <=> work.kind = "tree")
  BY <1>1, <1>2, <1>3, <1>10 DEF IsSaved
<1>12. ASSUME NEW p \in promised
       PROVE  HasChampion(rows', p[1])
  <2>1. PICK i \in 1 .. n : rows[i].champion /\ Of(rows[i], p[1])
    BY <1>2 DEF ChampInv, HasChampion
  <2>2. i \in DOMAIN rows'
    BY <1>2, <1>3
  <2>3. rows'[i].column = rows[i].column /\ rows'[i].class = rows[i].class
    BY <2>1, <1>1 DEF IsSaved
  <2>4. CASE p[1] = work.target /\ work.kind # "tree"
    BY <2>4, <1>10, <1>11 DEF HasChampion, Of
  <2>5. CASE work.kind = "tree"
    <3>1. rows'[i] = rows[i]
      BY <2>5, <1>1 DEF IsSaved
    <3> QED
      BY <3>1, <2>1, <2>2 DEF HasChampion
  <2>6. CASE p[1] # work.target
    <3>1. ~Of(rows[i], work.target)
      BY <2>1, <2>6 DEF Of
    <3>2. rows'[i].champion
      BY <3>1, <2>1, <1>1 DEF IsSaved
    <3>3. Of(rows'[i], p[1])
      BY <2>1, <2>3 DEF Of
    <3> QED
      BY <3>2, <3>3, <2>2 DEF HasChampion
  <2> QED
    BY <2>4, <2>5, <2>6
<1>13. ChampInv'
  BY <1>1, <1>10, <1>11, <1>12 DEF ChampInv
<1> QED
  BY <1>6, <1>7, <1>8, <1>9, <1>13

LEMMA WriteChampionInv ==
  ASSUME Inv, WriteChampion
  PROVE  Inv'
<1> USE DEF Inv
<1>1. user # NoUser /\ user' = NoUser /\ UNCHANGED <<active, disk, work, trained>>
  BY DEF WriteChampion
<1>2. CASE UNCHANGED <<rows, promised>>
  <2>1. TypeOK'
    BY <1>1, <1>2 DEF TypeOK, NoUser
  <2> QED
    BY <2>1, <1>1, <1>2 DEF WorkInv, RowInv, UserInv, DiskInv, ChampInv
<1>3. CASE /\ rows' = [i \in DOMAIN rows |->
                 [rows[i] EXCEPT !.champion = i = user.model \/ (@ /\ i \notin user.seen)]]
           /\ promised' = {}
  <2>1. DOMAIN rows = 1 .. Len(rows) /\ Len(rows) \in Nat /\ \A i \in DOMAIN rows : rows[i] \in ModelRun
    BY DEF TypeOK
  <2>2. ASSUME NEW i \in DOMAIN rows
        PROVE  /\ rows'[i] \in ModelRun
               /\ rows'[i].path = rows[i].path /\ rows'[i].source = rows[i].source
               /\ rows'[i].training = rows[i].training
               /\ i = user.model => rows'[i].champion = TRUE
    <3> DEFINE q == i = user.model \/ (rows[i].champion /\ i \notin user.seen)
    <3>1. rows'[i] = [rows[i] EXCEPT !.champion = q]
      BY <1>3
    <3>2. q \in BOOLEAN /\ (i = user.model => q = TRUE)
      OBVIOUS
    <3>3. rows[i] \in ModelRun
      BY <2>1
    <3> HIDE DEF q
    <3> QED
      BY <3>1, <3>2, <3>3 DEF ModelRun
  <2>3. DOMAIN rows' = 1 .. Len(rows) /\ rows' \in [1 .. Len(rows) -> ModelRun]
    BY <1>3, <2>1, <2>2
  <2>4. rows' \in Seq(ModelRun) /\ Len(rows') = Len(rows)
    BY <2>1, <2>3
  <2>5. TypeOK'
    <3>1. user'.model \in 0 .. Len(rows') /\ user'.seen \subseteq DOMAIN rows'
      BY <1>1, <2>1, <2>4 DEF NoUser
    <3>2. promised' \subseteq Targets \X Sources
      BY <1>3
    <3> QED
      BY <1>1, <2>4, <3>1, <3>2 DEF TypeOK
  <2>6. RowInv'
    BY <1>1, <2>1, <2>2, <2>3 DEF RowInv
  <2>7. user.model \in DOMAIN rows
    BY <1>1 DEF UserInv
  <2>8. rows'[user.model].champion /\ user.model \in DOMAIN rows'
    BY <2>7, <2>2, <2>1, <2>3
  <2>9. ChampInv'
    BY <1>3, <2>8 DEF ChampInv
  <2> QED
    BY <2>5, <2>6, <2>9, <1>1 DEF WorkInv, UserInv, DiskInv
<1> QED
  BY <1>2, <1>3 DEF WriteChampion

LEMMA AskAvailabilityInv ==
  ASSUME Inv, AskAvailability
  PROVE  Inv'
<1> USE DEF Inv
<1>1. UNCHANGED <<rows, active, disk, work, user, trained>>
  BY DEF AskAvailability
<1>2. PICK t \in Targets, s \in Sources :
        Availability(t, s).code = "OK" /\ promised' = promised \cup {<<t, s>>}
  BY DEF AskAvailability
<1>3. HasChampion(rows, t) /\ (s = NoSource => active # NoPath)
  <2> DEFINE path == IF s # NoSource THEN FileOf(s) ELSE active
             i == FindChampion(t, path, s, TRUE)
  <2>1. Availability(t, s) = CASE path = NoPath -> Refused("NO_DATASET")
                               [] path # NoPath /\ i = 0 -> Refused("missing_champion")
                               [] OTHER -> Served(i)
    BY DEF Availability
  <2>2. path # NoPath /\ i # 0
    <3> HIDE DEF path, i
    <3> QED
      BY <1>2, <2>1 DEF Refused
  <2>3. i \in Candidates(t)
    BY <2>2, FindChampionFinds DEF TypeOK
  <2> QED
    BY <2>2, <2>3, CandidatesOfTarget DEF TypeOK
<1>4. TypeOK'
  BY <1>1, <1>2 DEF TypeOK
<1>5. ChampInv'
  BY <1>1, <1>2, <1>3 DEF ChampInv
<1> QED
  BY <1>1, <1>4, <1>5 DEF WorkInv, RowInv, UserInv, DiskInv

\* The steps that touch neither the rows nor what was promised, or forget it.
LEMMA OtherInv ==
  ASSUME Inv, DropTraining \/ ReadChampions \/ DeleteDataset \/ SelectDataset \/ UNCHANGED vars
  PROVE  Inv'
<1> USE DEF Inv
<1>1. CASE DropTraining
  <2>1. work' = NoWork /\ UNCHANGED <<rows, active, disk, user, promised, trained>>
    BY <1>1 DEF DropTraining
  <2>2. TypeOK'
    BY <2>1 DEF TypeOK
  <2> QED
    BY <2>1, <2>2 DEF WorkInv, RowInv, UserInv, DiskInv, ChampInv
<1>2. CASE ReadChampions
  <2>1. PICK i \in DOMAIN rows : user' = [model |-> i, seen |-> Candidates(NoTarget)]
    BY <1>2 DEF ReadChampions
  <2>2. UNCHANGED <<rows, active, disk, work, promised, trained>>
    BY <1>2 DEF ReadChampions
  <2>3. i \in 0 .. Len(rows) /\ Candidates(NoTarget) \subseteq DOMAIN rows
    BY DEF TypeOK, Candidates
  <2>4. TypeOK' /\ UserInv'
    BY <2>1, <2>2, <2>3 DEF TypeOK, UserInv
  <2> QED
    BY <2>2, <2>4 DEF WorkInv, RowInv, DiskInv, ChampInv
<1>3. CASE DeleteDataset
  <2>1. /\ disk' = disk \ {Normal(active)} /\ active' = NoPath /\ promised' = {}
        /\ UNCHANGED <<rows, work, user, trained>>
    BY <1>3 DEF DeleteDataset
  <2>2. TypeOK'
    BY <2>1 DEF TypeOK
  <2> QED
    BY <2>1, <2>2 DEF WorkInv, RowInv, UserInv, DiskInv, ChampInv
<1>4. CASE SelectDataset
  <2>1. PICK p \in Registered : Normal(p) \in disk /\ active' = p
    BY <1>4 DEF SelectDataset
  <2>2. UNCHANGED <<rows, disk, work, user, promised, trained>>
    BY <1>4 DEF SelectDataset
  <2>3. active' # NoPath
    BY <2>1, Files
  <2>4. TypeOK'
    BY <2>1, <2>2 DEF TypeOK
  <2> QED
    BY <2>1, <2>2, <2>3, <2>4 DEF WorkInv, RowInv, UserInv, DiskInv, ChampInv
<1>5. CASE UNCHANGED vars
  BY <1>5 DEF vars, TypeOK, WorkInv, RowInv, UserInv, DiskInv, ChampInv
<1> QED
  BY <1>1, <1>2, <1>3, <1>4, <1>5

LEMMA NextInv ==
  Inv /\ [Next]_vars => Inv'
BY StartTrainingInv, TrainModelsInv, SaveResultsInv, WriteChampionInv, AskAvailabilityInv, OtherInv
   DEF Next

THEOREM Invariance ==
  Spec => []Inv
BY InitInv, NextInv, PTL DEF Spec

\* Rows, champion flags, trainings and promises have their types throughout.
THEOREM TypeCorrect ==
  Spec => []TypeOK
<1>1. Inv => TypeOK
  BY DEF Inv
<1> QED
  BY <1>1, Invariance, PTL

-----------------------------------------------------------------------------
(* What the endpoints find                                                  *)

\* Whatever is trained, cleared and chosen, a branch with a model has a
\* champion that /shap and /simplify find.
THEOREM BranchKeepsChampion ==
  Spec => []BranchHasChampion
<1>1. Inv => BranchHasChampion
  <2> SUFFICES ASSUME Inv, rows # <<>>
               PROVE  ShapRun.code = "OK" /\ SimplifyRun.code \in {"OK", "NO_ACTIVE_DATASET"}
    BY DEF BranchHasChampion
  <2>1. Candidates(NoTarget) # {}
    BY DEF Inv, ChampInv, Candidates
  <2>2. ShapRun = Served(Latest(Candidates(NoTarget)))
    BY <2>1 DEF ShapRun
  <2> QED
    BY <2>2 DEF SimplifyRun, Served, Refused
<1> QED
  BY <1>1, Invariance, PTL

\* What model-availability called ready is served by the endpoints that use it,
\* with a model of the target asked for.
THEOREM PromisesAreKept ==
  Spec => []PromiseKept
<1>1. Inv => PromiseKept
  <2> SUFFICES ASSUME Inv, NEW p \in promised
               PROVE  LET good(a) == a.code = "OK" /\ Of(rows[a.model], p[1])
                      IN /\ good(NullImportance(p[1], p[2]))
                         /\ good(ConstrainedRun(p[1], p[2]))
                         /\ good(BcmPretrain(p[1], p[2]))
    BY DEF PromiseKept
  <2> DEFINE t == p[1]
             s == p[2]
             i == FindChampion(t, SourcePath(s), s, TRUE)
  <2>1. t \in Targets /\ s \in Sources /\ rows \in Seq(ModelRun) /\ t # NoTarget
    BY RegistryAssumption DEF Inv, TypeOK
  <2>2. HasChampion(rows, t) /\ (s = NoSource => active # NoPath)
    BY DEF Inv, ChampInv
  <2>3. /\ Candidates(t) # {} /\ Candidates(t) \subseteq Candidates(NoTarget)
        /\ \A j \in Candidates(t) : j # 0 /\ Of(rows[j], t)
        /\ \A j \in Candidates(NoTarget) : j # 0
    <3> HIDE DEF t
    <3> QED
      BY <2>1, <2>2, CandidatesOfTarget
  <2>4. i \in Candidates(t) /\ i # 0 /\ Of(rows[i], t)
    <3>1. i \in Candidates(t)
      BY <2>1, <2>3, FindChampionFinds
    <3> QED
      BY <3>1, <2>3
  <2>5. FindChampion(NoTarget, SourcePath(s), s, TRUE) # 0
    BY <2>1, <2>3, FindChampionFinds
  <2>6. \E q \in {SourcePath(s), rows[i].path, active} : PathExists(q)
    <3>1. CASE s # NoSource
      BY <3>1, <2>1, Files DEF Sources, SourcePath, PathExists
    <3>2. CASE s = NoSource
      BY <3>2, <2>2 DEF Inv, DiskInv, PathExists
    <3> QED
      BY <3>1, <3>2
  <2>7. NullImportance(t, s) = Served(i)
    BY <2>1, <2>4, <2>5 DEF NullImportance
  <2>8. ConstrainedRun(t, s) = Served(i)
    <3> HIDE DEF t, s
    <3> QED
      BY <2>4, <2>6 DEF ConstrainedRun
  <2>9. BcmPretrain(t, s) = Served(i)
    <3> HIDE DEF t, s
    <3> QED
      BY <2>1, <2>4 DEF BcmPretrain
  <2>10. Served(i).code = "OK" /\ Served(i).model = i
    BY DEF Served
  <2> HIDE DEF i
  <2> QED
    BY <2>4, <2>7, <2>8, <2>9, <2>10
<1> QED
  BY <1>1, Invariance, PTL

\* All steps of the wizard use the newest champion of the target on the
\* artifact's data frame, if there is one: with or without a fallback, by the
\* artifact or by its path.
THEOREM StepsAgree ==
  Spec => []EndpointsAgree
<1>1. Inv => EndpointsAgree
  <2> DEFINE E(t, s) == Exact(t, NoPath, s)
  <2> SUFFICES ASSUME Inv, NEW t \in Targets, NEW s \in Artifacts, E(t, s) # {}
               PROVE  LET a == Served(Latest(E(t, s))) IN
                      /\ Availability(t, s) = a /\ NullImportance(t, s) = a
                      /\ InverseRun(t, s) = a /\ ConstrainedRun(t, s) = a
                      /\ BcmPretrain(t, s) = a /\ HierarchicalStats(t, s) = a
                      /\ HierarchicalPredict(t, s) \in {a, Refused("NOT_HIERARCHICAL")}
    BY DEF EndpointsAgree
  <2> DEFINE L == Latest(E(t, s))
             path == FileOf(s)
  <2>1. rows \in Seq(ModelRun) /\ t # NoTarget
    BY RegistryAssumption DEF Inv, TypeOK
  <2>2. s # NoSource /\ path # NoPath /\ path \notin Datasets /\ SourcePath(s) = path
    BY Files DEF SourcePath
  <2>3. Exact(t, path, s) = E(t, s)
    BY <2>2 DEF Exact
  <2>4. /\ FindChampion(t, path, s, TRUE) = L
        /\ FindChampion(t, path, s, FALSE) = L
        /\ L \in E(t, s)
    BY <2>1, <2>2, <2>3, FindChampionFinds
  <2>5. E(t, s) \subseteq Candidates(t)
    BY DEF Exact
  <2>6. L # 0 /\ L \in DOMAIN rows /\ L \in Candidates(t) /\ L \in Candidates(NoTarget)
    BY <2>1, <2>4, <2>5, CandidatesOfTarget
  <2>7. rows[L].path = path
    <3>1. rows[L].source = s
      BY <2>2, <2>4 DEF Exact
    <3> QED
      BY <3>1, <2>2, <2>6 DEF Inv, RowInv, FromFile
  <2>8. FindChampion(NoTarget, path, s, TRUE) # 0
    <3>1. FindChampion(NoTarget, path, s, TRUE) \in Candidates(NoTarget)
      BY <2>1, <2>6, FindChampionFinds
    <3> QED
      BY <3>1, <2>1, CandidatesOfTarget
  <2>9. PathExists(path)
    BY <2>2 DEF PathExists
  <2> HIDE DEF E, L, path
  <2>10. Availability(t, s) = Served(L)
    BY <2>2, <2>4, <2>6 DEF Availability, path
  <2>11. NullImportance(t, s) = Served(L)
    BY <2>1, <2>2, <2>4, <2>6, <2>8 DEF NullImportance
  <2>12. InverseRun(t, s) = Served(L)
    <3>1. (t = NoTarget /\ s = NoSource) = FALSE
      BY <2>1
    <3> QED
      BY <3>1, <2>2, <2>4, <2>6, <2>7, <2>9 DEF InverseRun
  <2>13. ConstrainedRun(t, s) = Served(L)
    BY <2>2, <2>4, <2>6, <2>9 DEF ConstrainedRun
  <2>14. BcmPretrain(t, s) = Served(L)
    BY <2>1, <2>2, <2>4, <2>6 DEF BcmPretrain
  <2>15. HierarchicalStats(t, s) = Served(L)
    BY <2>2, <2>4, <2>6 DEF HierarchicalStats
  <2>16. HierarchicalPredict(t, s) \in {Served(L), Refused("NOT_HIERARCHICAL")}
    <3>1. (t = NoTarget /\ s = NoSource) = FALSE
      BY <2>1
    <3> QED
      BY <3>1, <2>2, <2>4, <2>6 DEF HierarchicalPredict
  <2> QED
    BY <2>10, <2>11, <2>12, <2>13, <2>14, <2>15, <2>16 DEF L
<1> QED
  BY <1>1, Invariance, PTL

\* Right after a training is saved a lookup for its target and data frame
\* returns the best of its models, whatever champions there were.
THEOREM BestIsFound ==
  Spec => LookupFindsBest
<1> DEFINE P(t, p, s) == /\ FindChampion(t, p, s, FALSE)' # 0
                         /\ rows'[FindChampion(t, p, s, FALSE)'].training = trained
                         /\ \A j \in DOMAIN rows' :
                              rows'[j].training = trained
                                => rows'[FindChampion(t, p, s, FALSE)'].rmse <= rows'[j].rmse
<1>1. ASSUME Inv, SaveResults, work.kind # "tree", NEW t, NEW p, NEW s,
             t \in Targets, p \in Paths, s \in Sources,
             t = work.target, p = work.path, s = work.source
      PROVE  P(t, p, s)
  <2> DEFINE n == Len(rows)
             m == Len(rows')
  <2>1. work # NoWork /\ IsSaved(rows', work)
    BY <1>1, SavedIsSaved DEF SaveResults
  <2>2. /\ rows \in Seq(ModelRun) /\ n \in Nat /\ DOMAIN rows = 1 .. n
        /\ rows' \in Seq(ModelRun) /\ m \in Nat /\ DOMAIN rows' = 1 .. m /\ n < m
    BY <1>1, <2>1 DEF Inv, TypeOK, IsSaved
  <2>3. PICK k \in n + 1 .. m :
          /\ rows'[k].champion
          /\ \A j \in n + 1 .. m : (rows'[j].champion => j = k) /\ rows'[k].rmse <= rows'[j].rmse
    BY <2>1 DEF IsSaved
  <2>4. /\ k \in 1 .. m /\ rows'[k].column = t /\ ~rows'[k].class /\ rows'[k].path = p
        /\ rows'[k].source = s /\ rows'[k].training = trained
    BY <1>1, <2>1, <2>2, <2>3 DEF IsSaved
  <2>5. t # NoTarget /\ p # NoPath /\ FromFile(p, s) /\ trained \in Nat
    <3>1. p # NoPath /\ t # NoTarget
      BY <1>1, RegistryAssumption
    <3>2. FromFile(p, s) /\ trained \in 1 .. MaxTrainings
      BY <1>1, <2>1 DEF Inv, WorkInv
    <3> QED
      BY <3>1, <3>2, RegistryAssumption
  <2>6. ASSUME NEW i \in 1 .. n
        PROVE  /\ rows'[i].training # trained
               /\ /\ Of(rows'[i], t)
                  /\ IF s # NoSource THEN rows'[i].source = s ELSE rows'[i].path = p
                  => ~rows'[i].champion
    <3>1. /\ rows'[i].column = rows[i].column /\ rows'[i].class = rows[i].class
          /\ rows'[i].path = rows[i].path /\ rows'[i].source = rows[i].source
          /\ rows'[i].training = rows[i].training
          /\ Of(rows[i], t) /\ rows[i].path = p /\ rows[i].source = s => ~rows'[i].champion
      BY <1>1, <2>1 DEF IsSaved
    <3>2. FromFile(rows[i].path, rows[i].source) /\ rows[i].training < trained
      BY <1>1, <2>1, <2>2 DEF Inv, RowInv
    <3>3. rows[i] \in ModelRun
      BY <2>2
    <3>4. rows[i].training \in Nat /\ rows[i].source \in Sources
      BY <3>3, RegistryAssumption DEF ModelRun
    <3>5. s # NoSource /\ rows[i].source = s => rows[i].path = p
      BY <2>5, <3>2 DEF FromFile
    <3>6. s = NoSource /\ rows[i].path = p => rows[i].source = s
      BY <2>5, <3>2, <3>4, Files DEF FromFile, Sources
    <3>7. Of(rows'[i], t) <=> Of(rows[i], t)
      BY <3>1 DEF Of
    <3>8. rows[i].training # trained
      BY <3>2, <3>4, <2>5
    <3>9. rows'[i].training # trained
      BY <3>1, <3>8
    <3>10. ASSUME Of(rows'[i], t), IF s # NoSource THEN rows'[i].source = s ELSE rows'[i].path = p
           PROVE  ~rows'[i].champion
      <4>1. rows[i].path = p /\ rows[i].source = s
        BY <3>1, <3>5, <3>6, <3>10
      <4> QED
        BY <4>1, <3>1, <3>7, <3>10
    <3> QED
      BY <3>9, <3>10
  <2>7. Exact(t, p, s)' = {k}
    <3>1. Exact(t, p, s)' = {i \in DOMAIN rows' : rows'[i].champion /\ Of(rows'[i], t)
                              /\ IF s # NoSource THEN rows'[i].source = s ELSE rows'[i].path = p}
      BY <2>5 DEF Exact, Candidates
    <3>2. \A i \in 1 .. m : i \in 1 .. n \/ i \in n + 1 .. m
      BY <2>2
    <3> QED
      BY <2>2, <2>3, <2>4, <2>6, <3>1, <3>2 DEF Of
  <2>8. Latest({k}) = k
    <3>1. k <= k
      BY <2>2, <2>3
    <3>2. \E i \in {k} : \A j \in {k} : j <= i
      BY <3>1
    <3> QED
      BY <3>2 DEF Latest
  <2>9. FindChampion(t, p, s, FALSE)' = k
    <3>1. FindChampion(t, p, s, FALSE)' = Latest(Exact(t, p, s)')
      BY <2>5, <2>7 DEF FindChampion
    <3> QED
      BY <3>1, <2>7, <2>8
  <2>10. k # 0
    BY <2>2, <2>3
  <2>11. \A j \in DOMAIN rows' : rows'[j].training = trained => rows'[k].rmse <= rows'[j].rmse
    <3>1. \A j \in DOMAIN rows' : rows'[j].training = trained => j \in n + 1 .. m
      BY <2>2, <2>6
    <3> QED
      BY <3>1, <2>3
  <2> QED
    BY <2>4, <2>9, <2>10, <2>11
<1>2. Inv /\ [Next]_vars =>
        [\A t \in Targets, p \in Paths, s \in Sources :
           (SaveResults /\ work.kind # "tree" /\ t = work.target /\ p = work.path /\ s = work.source)
             => P(t, p, s)]_vars
  BY <1>1
<1>3. Inv /\ [Next]_vars =>
        [\A t \in Targets, p \in Paths, s \in Sources :
           (SaveResults /\ work.kind # "tree" /\ t = work.target /\ p = work.path /\ s = work.source)
             => LET i == FindChampion(t, p, s, FALSE)'
                IN /\ i # 0 /\ rows'[i].training = trained
                   /\ \A j \in DOMAIN rows' :
                        rows'[j].training = trained => rows'[i].rmse <= rows'[j].rmse]_vars
  BY <1>2
<1> QED
  BY <1>3, Invariance, PTL DEF Spec, LookupFindsBest
=============================================================================
