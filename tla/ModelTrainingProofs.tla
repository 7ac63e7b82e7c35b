-------------------------- MODULE ModelTrainingProofs --------------------------
(* The columns of the stages and what a save leaves, for any data frame and *)
(* any request.                                                             *)
EXTENDS ModelTraining, FiniteSetTheorems, TLAPS

(***************************************************************************)
(* The inductive invariant: which columns each model was trained on, by the *)
(* kind of the training; before a kind is chosen there is no model.         *)
(***************************************************************************)
Fresh == kind = "none" /\ base = {} /\ left = {} /\ DOMAIN stage1 = {}

StageInv ==
  /\ left \subseteq ValidY1 /\ DOMAIN stage1 \subseteq ValidY1
  /\ DOMAIN stage1 # {} => kind = "hierarchical"
  /\ \A y \in DOMAIN stage1 : stage1[y] # {} /\ stage1[y] = Features(y, StageSelection, Needed)

BaseInv ==
  base # {} =>
    \/ kind = "none"
    \/ kind = "tree" /\ base = TreeFeatures(target, req.allowed)
    \/ kind = "single" /\ base = Features(target, req.allowed, {target})
    \/ kind = "hierarchical" /\ base = Features(target, StageSelection, Needed)

Inv ==
  /\ pc = "start" => Fresh
  /\ pc = "stage1" => kind = "hierarchical"
  /\ pc = "stage2" => kind = "hierarchical"
  /\ StageInv /\ BaseInv

\* With a column that is neither the target nor an intermediate variable, the
\* choice for each of these is the same.
LEMMA ChosenAlike ==
  ASSUME NEW S, NEW c \in S, NEW allowed, (allowed \cap Frame) \ S # {}
  PROVE  Chosen(c, allowed \ S) = (allowed \cap Frame) \ S
<1>1. ((allowed \ S) \cap Frame) \ {c} = (allowed \cap Frame) \ S
  OBVIOUS
<1> QED
  BY <1>1 DEF Chosen

LEMMA FeaturesAlike ==
  ASSUME NEW S, NEW c \in S, NEW allowed, (allowed \cap Frame) \ S # {},
         Features(c, allowed \ S, S) # {}
  PROVE  Features(c, allowed \ S, S) = ((allowed \cap Frame) \ S) \ Useless(S)
  BY ChosenAlike DEF Features

LEMMA InvImplies == Inv => StagesShareColumns
<1> SUFFICES ASSUME Inv, kind # "none", base # {},
                    NEW useful,
                    useful = (req.allowed \cap Frame)
                               \ ({target} \cup (IF kind = "hierarchical" THEN ValidY1 ELSE {})),
                    useful # {}
             PROVE  base \subseteq useful /\ \A y \in DOMAIN stage1 : stage1[y] = base
  BY DEF StagesShareColumns
<1>1. CASE kind = "hierarchical"
  <2> DEFINE S == Needed
  <2>1. useful = (req.allowed \cap Frame) \ S /\ StageSelection = req.allowed \ S
    BY <1>1 DEF StageSelection, Needed
  <2>2. base = Features(target, StageSelection, Needed)
    BY <1>1 DEF Inv, BaseInv
  <2>3. base = useful \ Useless(S)
    <3>1. target \in S /\ base # {} /\ base = Features(target, req.allowed \ S, S)
      BY <2>1, <2>2 DEF Needed
    <3>2. useful # {} /\ useful = (req.allowed \cap Frame) \ S
      BY <2>1
    <3> HIDE DEF S
    <3> QED
      BY <3>1, <3>2, FeaturesAlike
  <2>4. ASSUME NEW y \in DOMAIN stage1 PROVE stage1[y] = useful \ Useless(S)
    <3>1. y \in S /\ stage1[y] # {} /\ stage1[y] = Features(y, req.allowed \ S, S)
      BY <2>1 DEF Inv, StageInv, Needed
    <3>2. (req.allowed \cap Frame) \ S # {}
      BY <2>1
    <3> HIDE DEF S
    <3> QED
      BY <2>1, <3>1, <3>2, FeaturesAlike
  <2> QED
    BY <2>3, <2>4
<1>2. CASE kind # "hierarchical"
  <2>1. DOMAIN stage1 = {}
    BY <1>2 DEF Inv, StageInv
  <2>2. useful = (req.allowed \cap Frame) \ {target}
    BY <1>2
  <2>3. Chosen(target, req.allowed) = useful
    BY <2>2 DEF Chosen
  <2>4. base \subseteq Chosen(target, req.allowed)
    BY <1>2 DEF Inv, BaseInv, TreeFeatures, Features
  <2> QED
    BY <2>1, <2>3, <2>4
<1> QED
  BY <1>1, <1>2

LEMMA InvInit == Init => Inv
  BY DEF Init, Inv, Fresh, StageInv, BaseInv

LEMMA InvStep == Inv /\ [Next]_vars => Inv'
<1> SUFFICES ASSUME Inv, [Next]_vars PROVE Inv'
  OBVIOUS
<1>0. ASSUME UNCHANGED <<req, kind, target, left, stage1, base>>, pc' \in {pc, "ready", "save", "done"}
      PROVE  Inv'
  BY <1>0 DEF Inv, Fresh, StageInv, BaseInv, StageSelection, Needed, ValidY1
<1>1. ASSUME NEW code, Refuse(code) PROVE Inv'
  BY <1>0, <1>1 DEF Refuse, Finish
<1>2. CASE RequestCancel \/ BeginSave \/ SaveItem \/ SkipItem
  BY <1>0, <1>2 DEF RequestCancel, BeginSave, SaveItem, SkipItem
<1>3. CASE Rollback \/ Commit
  BY <1>0, <1>3 DEF Rollback, Commit, Finish
<1>4. CASE Interrupt
  BY <1>1, <1>4 DEF Interrupt
<1>5. ASSUME pc = "start", UNCHANGED <<req, left, stage1, base>>, pc' = "chosen"
      PROVE  Inv'
  BY <1>5 DEF Inv, Fresh, StageInv, BaseInv
<1>6. CASE BeginGraph
  BY <1>1, <1>5, <1>6 DEF BeginGraph
<1>7. CASE BeginTool
  BY <1>1, <1>5, <1>7 DEF BeginTool
<1>8. CASE TrainTree
  <2>1. ASSUME Trained(TreeFeatures(target, req.allowed), TreePlan, "save"), kind = "tree" PROVE Inv'
    BY <2>1 DEF Trained, Inv, StageInv, BaseInv, StageSelection, Needed, ValidY1
  <2> QED
    BY <1>1, <1>8, <2>1 DEF TrainTree
<1>9. CASE TrainSingle
  <2>1. ASSUME Trained(Features(target, req.allowed, {target}), SinglePlan, "ready"), kind = "single" PROVE Inv'
    BY <2>1 DEF Trained, Inv, StageInv, BaseInv, StageSelection, Needed, ValidY1
  <2> QED
    BY <1>1, <1>9, <2>1 DEF TrainSingle
<1>10. CASE PrepareStages
  <2>1. ASSUME left' = ValidY1, pc' = "stage1", kind = "hierarchical",
               UNCHANGED <<req, kind, target, stage1, base>>
        PROVE  Inv'
    BY <2>1 DEF Inv, StageInv, BaseInv, StageSelection, Needed, ValidY1
  <2> QED
    BY <1>1, <1>10, <2>1 DEF PrepareStages
<1>11. CASE TrainStage1
  <2>0. pc = "stage1" /\ kind = "hierarchical"
    BY <1>11 DEF TrainStage1, Inv
  <2>1. SUFFICES ASSUME NEW y \in left, left' = left \ {y},
                        UNCHANGED <<req, kind, target, pc, base>>,
                        \/ /\ Features(y, StageSelection, Needed) # {}
                           /\ stage1' = [z \in DOMAIN stage1 \cup {y} |->
                                           IF z = y THEN Features(y, StageSelection, Needed) ELSE stage1[z]]
                        \/ UNCHANGED stage1
                 PROVE  Inv'
    BY <1>1, <1>11 DEF TrainStage1
  <2>2. y \in ValidY1
    BY DEF Inv, StageInv
  <2>3. ValidY1' = ValidY1 /\ Needed' = Needed /\ StageSelection' = StageSelection
    BY <2>1 DEF ValidY1, Needed, StageSelection
  <2>4. StageInv'
    BY <2>0, <2>1, <2>2, <2>3 DEF Inv, StageInv
  <2> QED
    BY <2>0, <2>1, <2>3, <2>4 DEF Inv, BaseInv
<1>12. CASE EndStage1
  <2>1. ASSUME pc = "stage1", pc' = "stage2", UNCHANGED <<req, kind, target, left, stage1, base>> PROVE Inv'
    BY <2>1 DEF Inv, StageInv, BaseInv, StageSelection, Needed, ValidY1
  <2> QED
    BY <1>1, <1>12, <2>1 DEF EndStage1
<1>13. CASE TrainStage2
  <2>1. ASSUME pc = "stage2", NEW wins, Trained(Features(target, StageSelection, Needed), HierarchicalPlan(wins), "ready")
        PROVE  Inv'
    BY <2>1 DEF Trained, Inv, StageInv, BaseInv, StageSelection, Needed, ValidY1
  <2> QED
    BY <1>1, <1>13, <2>1 DEF TrainStage2
<1>14. CASE UNCHANGED vars
  BY <1>0, <1>14 DEF vars
<1> QED
  BY <1>2, <1>3, <1>4, <1>6, <1>7, <1>8, <1>9, <1>10, <1>11, <1>12, <1>13, <1>14 DEF Next

\* _run_hierarchical_modeling applies a Stage 1 model to the columns it was
\* trained on whenever the selection has one that is neither the target nor an
\* intermediate variable, on every data frame and for every request.
THEOREM StagesMatch == Spec => []StagesShareColumns
  BY InvInit, InvStep, InvImplies, PTL DEF Spec

-----------------------------------------------------------------------------
(* Plans                                                                    *)

LEMMA JoinedItems ==
  \A s, t \in Seq(Items) : s \o t \in Seq(Items) /\ ToSet(s \o t) = ToSet(s) \cup ToSet(t)
<1> SUFFICES ASSUME NEW s \in Seq(Items), NEW t \in Seq(Items)
             PROVE  s \o t \in Seq(Items) /\ ToSet(s \o t) = ToSet(s) \cup ToSet(t)
  OBVIOUS
<1>1. /\ s \o t \in Seq(Items) /\ Len(s \o t) = Len(s) + Len(t)
      /\ DOMAIN s = 1 .. Len(s) /\ DOMAIN t = 1 .. Len(t) /\ DOMAIN (s \o t) = 1 .. Len(s) + Len(t)
      /\ Len(s) \in Nat /\ Len(t) \in Nat
  OBVIOUS
<1>2. \A i \in 1 .. Len(s) : i \in DOMAIN (s \o t) /\ (s \o t)[i] = s[i]
  BY <1>1
<1>3. \A i \in 1 .. Len(t) : Len(s) + i \in DOMAIN (s \o t) /\ (s \o t)[Len(s) + i] = t[i]
  BY <1>1
<1>4. \A i \in DOMAIN (s \o t) : \/ i \in 1 .. Len(s)
                                 \/ i - Len(s) \in 1 .. Len(t) /\ Len(s) + (i - Len(s)) = i
  BY <1>1
<1>5. ToSet(s \o t) \subseteq ToSet(s) \cup ToSet(t)
  <2> SUFFICES ASSUME NEW i \in DOMAIN (s \o t)
               PROVE  (s \o t)[i] \in ToSet(s) \cup ToSet(t)
    BY DEF ToSet
  <2> HIDE <1>1
  <2>1. CASE i \in 1 .. Len(s)
    BY <1>1, <1>2, <2>1 DEF ToSet
  <2>2. CASE i - Len(s) \in 1 .. Len(t) /\ Len(s) + (i - Len(s)) = i
    <3>1. (s \o t)[i] = t[i - Len(s)]
      BY <1>3, <2>2
    <3> QED
      BY <1>1, <2>2, <3>1 DEF ToSet
  <2> QED
    BY <1>4, <2>1, <2>2
<1>6. ToSet(s) \cup ToSet(t) \subseteq ToSet(s \o t)
  BY <1>1, <1>2, <1>3 DEF ToSet
<1> QED
  BY <1>1, <1>5, <1>6

LEMMA JoinedThree ==
  \A s, t, u \in Seq(Items) : /\ (s \o t) \o u \in Seq(Items)
                             /\ ToSet((s \o t) \o u) = ToSet(s) \cup ToSet(t) \cup ToSet(u)
<1> SUFFICES ASSUME NEW s \in Seq(Items), NEW t \in Seq(Items), NEW u \in Seq(Items)
             PROVE  /\ (s \o t) \o u \in Seq(Items)
                    /\ ToSet((s \o t) \o u) = ToSet(s) \cup ToSet(t) \cup ToSet(u)
  OBVIOUS
<1> DEFINE st == s \o t
<1>1. st \in Seq(Items) /\ ToSet(st) = ToSet(s) \cup ToSet(t)
  BY JoinedItems
<1> HIDE DEF st
<1>2. st \o u \in Seq(Items) /\ ToSet(st \o u) = ToSet(st) \cup ToSet(u)
  BY <1>1, JoinedItems
<1> QED
  BY <1>1, <1>2 DEF st

\* Every model of Stage 1 has its place in the plan.
LEMMA EnumerationCovers ==
  ASSUME NEW S, IsFiniteSet(S)
  PROVE  /\ SetToSeq(S) \in Seq(S)
         /\ \A x \in S : \E i \in DOMAIN SetToSeq(S) : SetToSeq(S)[i] = x
<1> DEFINE n == Cardinality(S)
<1>1. n \in Nat /\ ExistsBijection(1 .. n, S)
  BY FS_CardinalityType
<1>2. \E f \in [1 .. n -> S] : IsInjective(f)
  BY <1>1 DEF ExistsBijection, Bijection, Injection
<1> DEFINE g == SetToSeq(S)
<1>3. g \in [1 .. n -> S] /\ IsInjective(g)
  BY <1>2 DEF SetToSeq
<1> HIDE DEF g
<1>4. g \in Injection(1 .. n, S)
  BY <1>3 DEF Injection
<1>5. IsFiniteSet(1 .. n) /\ Cardinality(1 .. n) = n
  BY <1>1, FS_Interval
<1>6. g \in Surjection(1 .. n, S)
  BY <1>4, <1>5, FS_Injection
<1>7. \A x \in S : \E i \in 1 .. n : g[i] = x
  BY <1>6 DEF Surjection
<1>8. DOMAIN g = 1 .. n /\ g \in Seq(S)
  BY <1>1, <1>3
<1> QED
  BY <1>7, <1>8 DEF g

\* The elements of short tuples.
LEMMA Tuples ==
  /\ <<>> \in Seq(Items) /\ ToSet(<<>>) = {}
  /\ \A a \in Items : <<a>> \in Seq(Items) /\ ToSet(<<a>>) = {a}
  /\ \A a, b \in Items : <<a, b>> \in Seq(Items) /\ ToSet(<<a, b>>) = {a, b}
  /\ \A a, b, c \in Items : <<a, b, c>> \in Seq(Items) /\ ToSet(<<a, b, c>>) = {a, b, c}
  /\ \A a, b, c, d \in Items : <<a, b, c, d>> \in Seq(Items) /\ ToSet(<<a, b, c, d>>) = {a, b, c, d}
<1>1. ToSet(<<>>) = {}
  BY DEF ToSet
<1>2. ASSUME NEW a \in Items PROVE <<a>> \in Seq(Items) /\ ToSet(<<a>>) = {a}
  BY DEF ToSet
<1>3. ASSUME NEW a \in Items, NEW b \in Items
      PROVE  <<a, b>> \in Seq(Items) /\ ToSet(<<a, b>>) = {a, b}
  BY DEF ToSet
<1>4. ASSUME NEW a \in Items, NEW b \in Items, NEW c \in Items
      PROVE  <<a, b, c>> \in Seq(Items) /\ ToSet(<<a, b, c>>) = {a, b, c}
  BY DEF ToSet
<1>5. ASSUME NEW a \in Items, NEW b \in Items, NEW c \in Items, NEW d \in Items
      PROVE  <<a, b, c, d>> \in Seq(Items) /\ ToSet(<<a, b, c, d>>) = {a, b, c, d}
  BY DEF ToSet
<1> QED
  BY <1>1, <1>2, <1>3, <1>4, <1>5

Kinds == {"step", "model", "leaderboard", "importance", "report", "model_run", "plot",
          "metrics", "residuals", "champion", "stage1_table", "stage1_model",
          "direct_model", "direct_run"}

LEMMA ItemFields ==
  \A what \in Kinds :
    /\ Must(what) \in Items /\ Must(what).what = what /\ Must(what).optional = FALSE
    /\ May(what) \in Items /\ May(what).what = what /\ May(what).optional = TRUE
BY DEF Must, May, Item, Items, Kinds

LEMMA BranchItems ==
  \A what \in Kinds : /\ OfBranch(what) \in Seq(Items)
                      /\ ToSet(OfBranch(what)) = IF req.branch THEN {Must(what)} ELSE {}
BY Tuples, ItemFields DEF OfBranch

\* What every plan contains: the model, and a row of model_runs just if there
\* is a branch.
Whole(P) ==
  /\ Must("model") \in P
  /\ req.branch => Must("model_run") \in P
  /\ ~req.branch => \A i \in P : i.what # "model_run"

LEMMA TreePlanIsWhole == TreePlan \in Seq(Items) /\ Whole(ToSet(TreePlan))
<1> DEFINE a == OfBranch("step")
           b == <<Must("model"), Must("leaderboard"), Must("importance"), Must("report")>>
           c == OfBranch("model_run")
<1>0. {"step", "model", "leaderboard", "importance", "report", "model_run"} \subseteq Kinds
  BY DEF Kinds
<1>1. /\ a \in Seq(Items) /\ ToSet(a) = IF req.branch THEN {Must("step")} ELSE {}
      /\ c \in Seq(Items) /\ ToSet(c) = IF req.branch THEN {Must("model_run")} ELSE {}
  BY <1>0, BranchItems
<1>2. /\ b \in Seq(Items)
      /\ ToSet(b) = {Must("model"), Must("leaderboard"), Must("importance"), Must("report")}
  <2>1. Must("model") \in Items /\ Must("leaderboard") \in Items /\ Must("importance") \in Items
        /\ Must("report") \in Items
    BY <1>0, ItemFields
  <2> QED
    BY <2>1, Tuples
<1> HIDE DEF a, b, c
<1>3. (a \o b) \o c \in Seq(Items) /\ ToSet((a \o b) \o c) = ToSet(a) \cup ToSet(b) \cup ToSet(c)
  BY <1>1, <1>2, JoinedThree
<1>4. TreePlan = (a \o b) \o c
  BY DEF TreePlan, a, b, c
<1>5. /\ Must("model").what = "model" /\ Must("leaderboard").what = "leaderboard"
      /\ Must("importance").what = "importance" /\ Must("report").what = "report"
      /\ Must("step").what = "step"
  BY <1>0, ItemFields
<1> QED
  BY <1>1, <1>2, <1>3, <1>4, <1>5 DEF Whole

LEMMA ModelPlanItems ==
  /\ ModelPlan \in Seq(Items)
  /\ ToSet(ModelPlan) = {Must("model"), May("plot"), May("metrics")}
<1>0. {"model", "plot", "metrics"} \subseteq Kinds
  BY DEF Kinds
<1>1. Must("model") \in Items /\ May("plot") \in Items /\ May("metrics") \in Items
  BY <1>0, ItemFields
<1> QED
  BY <1>1, Tuples DEF ModelPlan

LEMMA SinglePlanIsWhole == SinglePlan \in Seq(Items) /\ Whole(ToSet(SinglePlan))
<1> DEFINE a == OfBranch("step")
           b == <<Must("leaderboard")>>
           c == ModelPlan
           d == <<Must("residuals"), Must("importance")>>
           e == OfBranch("model_run")
           f == <<Must("champion")>>
<1>0. {"step", "model", "leaderboard", "importance", "residuals", "model_run", "champion",
       "plot", "metrics"} \subseteq Kinds
  BY DEF Kinds
<1>1. /\ a \in Seq(Items) /\ ToSet(a) = IF req.branch THEN {Must("step")} ELSE {}
      /\ e \in Seq(Items) /\ ToSet(e) = IF req.branch THEN {Must("model_run")} ELSE {}
  BY <1>0, BranchItems
<1>2. /\ Must("leaderboard") \in Items /\ Must("residuals") \in Items
      /\ Must("importance") \in Items /\ Must("champion") \in Items
  BY <1>0, ItemFields
<1>3. /\ b \in Seq(Items) /\ ToSet(b) = {Must("leaderboard")}
      /\ d \in Seq(Items) /\ ToSet(d) = {Must("residuals"), Must("importance")}
      /\ f \in Seq(Items) /\ ToSet(f) = {Must("champion")}
  BY <1>2, Tuples
<1>4. c \in Seq(Items) /\ ToSet(c) = {Must("model"), May("plot"), May("metrics")}
  BY ModelPlanItems
<1>5. SinglePlan = ((((a \o b) \o c) \o d) \o e) \o f
  BY DEF SinglePlan
<1> HIDE DEF a, b, c, d, e, f
<1> DEFINE abc == (a \o b) \o c
           abcde == (abc \o d) \o e
<1>parts. /\ a \in Seq(Items) /\ b \in Seq(Items) /\ c \in Seq(Items)
          /\ d \in Seq(Items) /\ e \in Seq(Items) /\ f \in Seq(Items)
  BY <1>1, <1>3, <1>4
<1>6. abc \in Seq(Items) /\ ToSet(abc) = ToSet(a) \cup ToSet(b) \cup ToSet(c)
  BY <1>parts, JoinedThree
<1> HIDE DEF abc
<1>7. abcde \in Seq(Items) /\ ToSet(abcde) = ToSet(abc) \cup ToSet(d) \cup ToSet(e)
  BY <1>parts, <1>6, JoinedThree
<1> HIDE DEF abcde
<1>8. abcde \o f \in Seq(Items) /\ ToSet(abcde \o f) = ToSet(abcde) \cup ToSet(f)
  BY <1>parts, <1>7, JoinedItems
<1>9. SinglePlan = abcde \o f
  BY <1>5 DEF abcde, abc
<1>10. /\ Must("step").what = "step" /\ Must("leaderboard").what = "leaderboard"
       /\ Must("residuals").what = "residuals" /\ Must("importance").what = "importance"
       /\ Must("champion").what = "champion" /\ Must("model").what = "model"
       /\ May("plot").what = "plot" /\ May("metrics").what = "metrics"
  BY <1>0, ItemFields
<1> QED
  BY <1>1, <1>3, <1>4, <1>6, <1>7, <1>8, <1>9, <1>10 DEF Whole

Stage1Items == {Item("stage1_model", y, FALSE) : y \in DOMAIN stage1}

LEMMA Stage1PlanItems ==
  ASSUME DOMAIN stage1 \subseteq Frame
  PROVE  Stage1Plan \in Seq(Items) /\ ToSet(Stage1Plan) = Stage1Items
<1> DEFINE S == DOMAIN stage1
           order == SetToSeq(S)
<1>1. IsFiniteSet(S)
  BY TrainingAssumption, FS_Subset
<1>2. order \in Seq(S) /\ \A x \in S : \E i \in DOMAIN order : order[i] = x
  <2> HIDE DEF S
  <2> QED
    BY <1>1, EnumerationCovers
<1>3. Stage1Plan = [i \in DOMAIN order |-> Item("stage1_model", order[i], FALSE)]
  BY DEF Stage1Plan
<1> HIDE DEF order
<1>4. DOMAIN order = 1 .. Len(order) /\ Len(order) \in Nat /\ \A i \in DOMAIN order : order[i] \in S
  BY <1>2
<1>5. \A y \in S : Item("stage1_model", y, FALSE) \in Items
  BY DEF Item, Items
<1>6. Stage1Plan \in Seq(Items)
  <2>1. Stage1Plan \in [1 .. Len(order) -> Items]
    BY <1>3, <1>4, <1>5
  <2> QED
    BY <1>4, <2>1
<1>7. ToSet(Stage1Plan) = Stage1Items
  BY <1>2, <1>3, <1>4 DEF ToSet, Stage1Items
<1> QED
  BY <1>6, <1>7

LEMMA HierarchicalPlanIsWhole ==
  ASSUME NEW wins \in BOOLEAN, DOMAIN stage1 \subseteq Frame
  PROVE  /\ HierarchicalPlan(wins) \in Seq(Items) /\ Whole(ToSet(HierarchicalPlan(wins)))
         /\ Stage1Items \subseteq ToSet(HierarchicalPlan(wins))
<1> DEFINE a == OfBranch("step")
           b == <<Must("stage1_table"), Must("leaderboard")>>
           c == Stage1Plan
           d == ModelPlan
           e == <<Must("importance")>>
           f == OfBranch("model_run")
           g == DirectPlan(wins)
           h == <<Must("report")>>
<1>0. {"step", "model", "stage1_table", "leaderboard", "importance", "direct_model", "direct_run",
       "model_run", "report", "plot", "metrics"} \subseteq Kinds
  BY DEF Kinds
<1>1. /\ a \in Seq(Items) /\ ToSet(a) = IF req.branch THEN {Must("step")} ELSE {}
      /\ f \in Seq(Items) /\ ToSet(f) = IF req.branch THEN {Must("model_run")} ELSE {}
  BY <1>0, BranchItems
<1>2. /\ Must("stage1_table") \in Items /\ Must("leaderboard") \in Items
      /\ Must("importance") \in Items /\ Must("report") \in Items
      /\ Must("direct_model") \in Items /\ Must("direct_run") \in Items
  BY <1>0, ItemFields
<1>3. /\ b \in Seq(Items) /\ ToSet(b) = {Must("stage1_table"), Must("leaderboard")}
      /\ e \in Seq(Items) /\ ToSet(e) = {Must("importance")}
      /\ h \in Seq(Items) /\ ToSet(h) = {Must("report")}
  BY <1>2, Tuples
<1>4. d \in Seq(Items) /\ ToSet(d) = {Must("model"), May("plot"), May("metrics")}
  BY ModelPlanItems
<1>5. g \in Seq(Items) /\ ToSet(g) \subseteq {Must("direct_model"), Must("direct_run")}
  <2>1. g \in {<<>>, <<Must("direct_model"), Must("direct_run")>>}
    BY DEF DirectPlan
  <2>2. /\ <<>> \in Seq(Items) /\ ToSet(<<>>) = {}
        /\ <<Must("direct_model"), Must("direct_run")>> \in Seq(Items)
        /\ ToSet(<<Must("direct_model"), Must("direct_run")>>) = {Must("direct_model"), Must("direct_run")}
    BY <1>2, Tuples
  <2> HIDE DEF g
  <2>3. CASE g = <<>>
    BY <2>2, <2>3
  <2>4. CASE g = <<Must("direct_model"), Must("direct_run")>>
    BY <2>2, <2>4
  <2> QED
    BY <2>1, <2>3, <2>4
<1>6. c \in Seq(Items) /\ ToSet(c) = Stage1Items
  BY Stage1PlanItems
<1>7. HierarchicalPlan(wins) = ((((((a \o b) \o c) \o d) \o e) \o f) \o g) \o h
  BY DEF HierarchicalPlan
<1> HIDE DEF a, b, c, d, e, f, g, h
<1> DEFINE abc == (a \o b) \o c
           abcde == (abc \o d) \o e
           all == (abcde \o f) \o g
<1>8. abc \in Seq(Items) /\ ToSet(abc) = ToSet(a) \cup ToSet(b) \cup ToSet(c)
  BY <1>1, <1>3, <1>6, JoinedThree
<1> HIDE DEF abc
<1>9. abcde \in Seq(Items) /\ ToSet(abcde) = ToSet(abc) \cup ToSet(d) \cup ToSet(e)
  BY <1>3, <1>4, <1>8, JoinedThree
<1> HIDE DEF abcde
<1>10. all \in Seq(Items) /\ ToSet(all) = ToSet(abcde) \cup ToSet(f) \cup ToSet(g)
  BY <1>1, <1>5, <1>9, JoinedThree
<1> HIDE DEF all
<1>11. all \o h \in Seq(Items) /\ ToSet(all \o h) = ToSet(all) \cup ToSet(h)
  BY <1>3, <1>10, JoinedItems
<1>12. HierarchicalPlan(wins) = all \o h
  BY <1>7 DEF all, abcde, abc
<1>13. /\ Must("step").what = "step" /\ Must("leaderboard").what = "leaderboard"
       /\ Must("stage1_table").what = "stage1_table" /\ Must("importance").what = "importance"
       /\ Must("direct_model").what = "direct_model" /\ Must("direct_run").what = "direct_run"
       /\ Must("report").what = "report" /\ Must("model").what = "model"
       /\ May("plot").what = "plot" /\ May("metrics").what = "metrics"
  BY <1>0, ItemFields
<1>14. \A i \in Stage1Items : i.what = "stage1_model"
  BY DEF Stage1Items, Item
<1> QED
  BY <1>1, <1>3, <1>4, <1>5, <1>6, <1>8, <1>9, <1>10, <1>11, <1>12, <1>13, <1>14 DEF Whole

-----------------------------------------------------------------------------
(***************************************************************************)
(* The save, inductively: what the transaction must still write is in the   *)
(* rest of the plan, everything else is in the rows and files written, and  *)
(* nobody sees a row before the commit.                                     *)
(***************************************************************************)
OnTheWay ==
  /\ Whole(ToSet(plan) \cup rows)
  /\ kind = "hierarchical" => Stage1Items \subseteq ToSet(plan) \cup files
  /\ \A i \in rows : HasFile(i) => i \in files

SaveInv ==
  /\ req \in Request /\ plan \in Seq(Items)
  /\ pc # "done" => saved = {}
  /\ pc \notin {"save", "done"} => rows = {}
  /\ pc \in {"ready", "save"} => OnTheWay
  /\ SavedOrError

LEMMA HeadAndTail ==
  ASSUME plan \in Seq(Items), plan # <<>>
  PROVE  /\ Head(plan) \in Items /\ Tail(plan) \in Seq(Items)
         /\ ToSet(plan) = {Head(plan)} \cup ToSet(Tail(plan))
<1> DEFINE n == Len(plan)
           t == Tail(plan)
<1>1. /\ n \in Nat /\ n >= 1 /\ DOMAIN plan = 1 .. n
      /\ Head(plan) = plan[1] /\ t \in Seq(Items) /\ Head(plan) \in Items
      /\ DOMAIN t = 1 .. n - 1
      /\ \A i \in 1 .. n - 1 : t[i] = plan[i + 1]
  OBVIOUS
<1> HIDE DEF n, t
<1>2. \A i \in 1 .. n : i = 1 \/ (i - 1 \in 1 .. n - 1 /\ (i - 1) + 1 = i)
  BY <1>1
<1>3. 1 \in 1 .. n /\ \A i \in 1 .. n - 1 : i + 1 \in 1 .. n
  BY <1>1
<1>4. ToSet(plan) = {plan[i] : i \in 1 .. n} /\ ToSet(t) = {t[i] : i \in 1 .. n - 1}
  BY <1>1 DEF ToSet
<1>5. ToSet(plan) \subseteq {Head(plan)} \cup ToSet(t)
  <2> SUFFICES ASSUME NEW i \in 1 .. n
               PROVE  plan[i] = Head(plan) \/ \E j \in 1 .. n - 1 : plan[i] = t[j]
    BY <1>4
  <2>1. CASE i = 1
    BY <1>1, <2>1
  <2>2. CASE i - 1 \in 1 .. n - 1 /\ (i - 1) + 1 = i
    BY <1>1, <2>2
  <2> QED
    BY <1>2, <2>1, <2>2
<1>6. {Head(plan)} \cup ToSet(t) \subseteq ToSet(plan)
  BY <1>1, <1>3, <1>4
<1> QED
  BY <1>1, <1>5, <1>6 DEF t

\* What has to be there is not optional, and where it goes.
LEMMA Obligations ==
  /\ \A what \in {"model", "model_run"} : Must(what).optional = FALSE /\ HasRow(Must(what))
  /\ \A i \in Stage1Items : i.optional = FALSE /\ HasFile(i) /\ i.what # "model_run"
BY DEF Must, Item, HasRow, HasFile, Stage1Items

LEMMA SaveInit == Init => SaveInv
  BY Tuples DEF Init, SaveInv, SavedOrError

LEMMA SaveStep == Inv /\ SaveInv /\ [Next]_vars => SaveInv'
<1> SUFFICES ASSUME Inv, SaveInv, [Next]_vars PROVE SaveInv'
  OBVIOUS
<1> USE DEF SaveInv
<1>0. DOMAIN stage1 \subseteq Frame
  BY TrainingAssumption DEF Inv, StageInv, ValidY1
<1>1. ASSUME NEW code, code # "OK", pc # "done", Refuse(code) PROVE SaveInv'
  <2>1. plan' = <<>> /\ pc' = "done" /\ answer' = code /\ saved' = {} /\ req' = req
    BY <1>1 DEF Refuse, Finish
  <2> QED
    BY <1>1, <2>1, Tuples DEF SavedOrError
<1>2. ASSUME UNCHANGED <<req, plan, rows, saved>>, pc \notin {"ready", "save", "done"},
             pc' \notin {"ready", "save", "done"}
      PROVE  SaveInv'
  BY <1>2 DEF SavedOrError
<1>3. ASSUME UNCHANGED <<req, kind, plan, files, rows, saved, stage1>>, pc \in {"ready", "save"},
             pc' \in {"ready", "save"}, pc = "save" => pc' = "save"
      PROVE  SaveInv'
  BY <1>3 DEF SavedOrError, OnTheWay, Whole, Stage1Items
<1>4. ASSUME NEW columns, NEW steps, NEW next \in {"ready", "save"}, pc \in {"chosen", "stage2"},
             Trained(columns, steps, next), steps \in Seq(Items), Whole(ToSet(steps)),
             kind = "hierarchical" => Stage1Items \subseteq ToSet(steps)
      PROVE  SaveInv'
  <2>1. /\ UNCHANGED <<req, kind, stage1, files, rows, saved>> /\ plan' = steps /\ pc' = next
        /\ rows = {} /\ saved = {}
    BY <1>4 DEF Trained
  <2>2. OnTheWay'
    BY <1>4, <2>1 DEF OnTheWay, Whole, Stage1Items
  <2> QED
    BY <1>4, <2>1, <2>2 DEF SavedOrError
<1>5. CASE RequestCancel
  <2>1. UNCHANGED <<req, kind, pc, stage1, plan, files, rows, saved, answer>> /\ pc # "done"
    BY <1>5 DEF RequestCancel
  <2> QED
    BY <2>1 DEF SavedOrError, OnTheWay, Whole, Stage1Items
<1>6. CASE Interrupt
  BY <1>1, <1>6 DEF Interrupt
<1>7. \A column : TargetRefusal(column) # "OK"
  BY DEF TargetRefusal
<1>8. CASE BeginGraph
  BY <1>1, <1>2, <1>7, <1>8 DEF BeginGraph
<1>9. CASE BeginTool
  BY <1>1, <1>2, <1>7, <1>9 DEF BeginTool
<1>10. CASE TrainTree
  <2>1. pc = "chosen" /\ kind = "tree"
    BY <1>10 DEF TrainTree
  <2>2. \/ \E code \in {"INSUFFICIENT_DATA", "CONSTANT_CLASS_TARGET", "NO_TRAINING_DATA", "MODELING_ERROR"} :
             Refuse(code)
        \/ Trained(TreeFeatures(target, req.allowed), TreePlan, "save")
    BY <1>10 DEF TrainTree
  <2> QED
    BY <1>1, <1>4, <2>1, <2>2, TreePlanIsWhole
<1>11. CASE TrainSingle
  <2>1. pc = "chosen" /\ kind = "single"
    BY <1>11 DEF TrainSingle
  <2>2. \/ \E code \in {"NO_TRAINING_DATA", "ALL_TRAINING_FAILED", "MODELING_ERROR"} : Refuse(code)
        \/ Trained(Features(target, req.allowed, {target}), SinglePlan, "ready")
    BY <1>11 DEF TrainSingle
  <2> QED
    BY <1>1, <1>4, <2>1, <2>2, SinglePlanIsWhole
<1>12. CASE PrepareStages
  BY <1>1, <1>2, <1>12 DEF PrepareStages
<1>13. CASE TrainStage1
  <2>1. pc = "stage1"
    BY <1>13 DEF TrainStage1
  <2>2. Refuse("MODELING_ERROR") \/ UNCHANGED <<req, pc, plan, rows, saved>>
    BY <1>13 DEF TrainStage1
  <2> QED
    BY <1>1, <1>2, <2>1, <2>2
<1>14. CASE EndStage1
  BY <1>1, <1>2, <1>14 DEF EndStage1
<1>15. CASE TrainStage2
  <2>1. pc = "stage2"
    BY <1>15 DEF TrainStage2
  <2>2. \/ \E code \in {"NO_TRAINING_DATA", "MODELING_ERROR", "STAGE2_FAILED"} : Refuse(code)
        \/ \E wins \in BOOLEAN :
             Trained(Features(target, StageSelection, Needed), HierarchicalPlan(wins), "ready")
    BY <1>15 DEF TrainStage2
  <2> QED
    BY <1>0, <1>1, <1>4, <2>1, <2>2, HierarchicalPlanIsWhole
<1>16. CASE BeginSave
  BY <1>3, <1>16 DEF BeginSave
<1>17. CASE SaveItem
  <2>1. /\ pc = "save" /\ plan # <<>> /\ plan' = Tail(plan)
        /\ files' = files \cup {i \in {Head(plan)} : HasFile(i)}
        /\ rows' = rows \cup {i \in {Head(plan)} : HasRow(i)}
        /\ UNCHANGED <<req, kind, pc, stage1, saved>>
    BY <1>17 DEF SaveItem
  <2>2. Head(plan) \in Items /\ plan' \in Seq(Items) /\ ToSet(plan) = {Head(plan)} \cup ToSet(plan')
    BY <2>1, HeadAndTail
  <2>3. ToSet(plan)' = ToSet(plan') /\ Stage1Items' = Stage1Items
    BY <2>1 DEF ToSet, Stage1Items
  <2>4. Whole(ToSet(plan') \cup rows')
    BY <2>1, <2>2, Obligations DEF OnTheWay, Whole
  <2>5. kind = "hierarchical" => Stage1Items \subseteq ToSet(plan') \cup files'
    BY <2>1, <2>2, Obligations DEF OnTheWay
  <2>6. \A i \in rows' : HasFile(i) => i \in files'
    BY <2>1 DEF OnTheWay
  <2>7. OnTheWay'
    BY <2>1, <2>3, <2>4, <2>5, <2>6 DEF OnTheWay, Whole, HasFile
  <2> QED
    BY <2>1, <2>2, <2>7 DEF SavedOrError
<1>18. CASE SkipItem
  <2>1. /\ pc = "save" /\ plan # <<>> /\ plan' = Tail(plan) /\ Head(plan).optional
        /\ files \subseteq files' /\ UNCHANGED <<req, kind, pc, stage1, rows, saved>>
    BY <1>18 DEF SkipItem
  <2>2. Head(plan) \in Items /\ plan' \in Seq(Items) /\ ToSet(plan) = {Head(plan)} \cup ToSet(plan')
    BY <2>1, HeadAndTail
  <2>3. Stage1Items' = Stage1Items
    BY <2>1 DEF Stage1Items
  <2>4. Whole(ToSet(plan') \cup rows)
    BY <2>1, <2>2, Obligations DEF OnTheWay, Whole
  <2>5. kind = "hierarchical" => Stage1Items \subseteq ToSet(plan') \cup files'
    BY <2>1, <2>2, Obligations DEF OnTheWay
  <2>6. OnTheWay'
    BY <2>1, <2>3, <2>4, <2>5 DEF OnTheWay, Whole, HasFile, ToSet
  <2> QED
    BY <2>1, <2>2, <2>6 DEF SavedOrError
<1>19. CASE Rollback
  <2>1. plan' = <<>> /\ pc' = "done" /\ answer' = "MODELING_ERROR" /\ saved' = {} /\ req' = req
    BY <1>19 DEF Rollback, Finish
  <2> QED
    BY <2>1, Tuples DEF SavedOrError
<1>20. CASE Commit
  <2>1. /\ plan = <<>> /\ plan' = <<>> /\ pc = "save" /\ pc' = "done" /\ saved' = rows
        /\ UNCHANGED <<req, kind, stage1, files>>
    BY <1>20 DEF Commit, Finish
  <2>2. ToSet(plan) = {}
    BY <2>1, Tuples
  <2>3. Must("model") \in rows /\ (req.branch => Must("model_run") \in rows)
        /\ (~req.branch => \A i \in rows : i.what # "model_run")
        /\ (kind = "hierarchical" => Stage1Items \subseteq files)
        /\ \A i \in rows : HasFile(i) => i \in files
    BY <2>1, <2>2 DEF OnTheWay, Whole
  <2>4. Must("model").what = "model" /\ Must("model_run").what = "model_run"
    BY DEF Must, Item
  <2>5. req.branch <=> \E i \in rows : i.what = "model_run"
    BY <2>3, <2>4 DEF Request
  <2>6. SavedOrError'
    <3>1. \E i \in saved' : i.what = "model"
      BY <2>1, <2>3, <2>4
    <3>2. \A i \in saved' : HasFile(i) => i \in files'
      BY <2>1, <2>3
    <3>3. kind' = "hierarchical" => \A y \in DOMAIN stage1' : Item("stage1_model", y, FALSE) \in files'
      BY <2>1, <2>3 DEF Stage1Items
    <3>4. req'.branch <=> \E i \in saved' : i.what = "model_run"
      BY <2>1, <2>5
    <3>5. answer' = "OK"
      BY <1>20 DEF Commit, Finish
    <3> QED
      BY <3>1, <3>2, <3>3, <3>4, <3>5 DEF SavedOrError, HasFile
  <2> QED
    BY <2>1, <2>6, Tuples
<1>21. CASE UNCHANGED vars
  BY <1>21 DEF vars, SavedOrError, OnTheWay, Whole, Stage1Items
<1> QED
  BY <1>5, <1>6, <1>8, <1>9, <1>10, <1>11, <1>12, <1>13, <1>14, <1>15, <1>16, <1>17, <1>18, <1>19,
     <1>20, <1>21 DEF Next

\* A training that fails, is refused or interrupted leaves no row, and one that
\* answers OK has committed its model with every file behind it, whatever fit,
\* plot, INSERT or commit fails.
THEOREM SaveIsAtomic == Spec => []SavedOrError
<1>1. Init => Inv /\ SaveInv
  BY InvInit, SaveInit
<1>2. Inv /\ SaveInv /\ [Next]_vars => Inv' /\ SaveInv'
  BY InvStep, SaveStep
<1>3. SaveInv => SavedOrError
  BY DEF SaveInv
<1> QED
  BY <1>1, <1>2, <1>3, PTL DEF Spec
=============================================================================
