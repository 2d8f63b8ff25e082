---------------------------- MODULE WalkForward ----------------------------
(***************************************************************************)
(* Walk-forward validation: the folds, the hyperparameter search inside    *)
(* each, and the stacked ensemble built over them.  What a model computes  *)
(* is abstracted to the rows whose labels it was computed from.            *)
(***************************************************************************)
EXTENDS Integers, Sequences, FiniteSetsExt

CONSTANTS
    Sizes, FoldCounts, Embargoes,   \* the calls that are made
    Stacks                          \* the base models of an ensemble, in order

\* "net": LSTM and GRU, whose fit() does not learn and which predict without it;
\* "trees": GBMBaseline, which learns and cannot predict before; "custom": any other
\* model, which _clone_base() cannot copy.
ASSUME WalkForwardAssumption ==
    /\ Sizes \subseteq Nat /\ FoldCounts \subseteq Nat \ {0, 1} /\ Embargoes \subseteq Nat \ {0}
    /\ Stacks \subseteq Seq({"net", "trees", "custom"}) \ {<<>>}

VARIABLES
    setup,      \* [n, folds, embargo, stack] of the run
    place,      \* the fold in work and the base model in it
    meta,       \* for each base and row, the rows its meta-feature was computed from
    failed,     \* the bases that failed in some fold
    learnt,     \* the rows the base objects themselves were fitted on
    tuned,      \* the rows the best parameters of each fold were scored on
    stage       \* "folds" or "fitted"

walkVars == <<setup, place, meta, failed, learnt, tuned, stage>>

Bases == 1..Len(setup.stack)
Observations == 0..(setup.n - 1)
Edge(i) == (setup.n * i) \div setup.folds
AllFolds == 1..(setup.folds - 1)

TestOf(i) == Edge(i)..(Edge(i + 1) - 1)
TrainUpToTest(i) == 0..(Edge(i) - 1)
\* purged_walk_forward(): everything before the test window but the embargo.
TrainOf(i) == 0..(Max({0, Edge(i) - setup.embargo}) - 1)

\* nested_optuna_driver(): four fifths of the outer training rows, and at least one of them.
InnerTrainOf(i) == {j \in TrainOf(i) : j < Max({1, (4 * Cardinality(TrainOf(i))) \div 5})}
InnerValidationOf(i) == TrainOf(i) \ InnerTrainOf(i)

WalkInit ==
    /\ setup \in [n : Sizes, folds : FoldCounts, embargo : Embargoes, stack : Stacks]
    /\ place = [fold |-> 1, base |-> 1]
    /\ meta = [b \in Bases |-> [i \in Observations |-> {}]]
    /\ failed = {} /\ learnt = [b \in Bases |-> {}]
    /\ tuned = [i \in AllFolds |-> {}]
    /\ stage = "folds"

NextPlace ==
    IF place.base < Len(setup.stack) THEN [place EXCEPT !.base = @ + 1]
    ELSE [fold |-> place.fold + 1, base |-> 1]

Working == stage = "folds" /\ place.fold \in AllFolds
Kind == setup.stack[place.base]

\* A window of no rows, when there are fewer rows than folds.
SkipFold ==
    /\ Working /\ TestOf(place.fold) = {}
    /\ place' = [fold |-> place.fold + 1, base |-> 1]
    /\ UNCHANGED <<setup, meta, failed, learnt, tuned, stage>>

\* A clone is fitted on the training rows and predicts the test rows.
FitBase ==
    /\ Working /\ TestOf(place.fold) # {}
    /\ Kind = "net" \/ TrainOf(place.fold) # {}
    /\ meta' = [meta EXCEPT ![place.base] =
                  [i \in Observations |-> IF i \notin TestOf(place.fold) THEN @[i]
                                          ELSE IF Kind = "net" THEN {} ELSE TrainOf(place.fold)]]
    /\ learnt' = [learnt EXCEPT ![place.base] = IF Kind = "custom" THEN TrainOf(place.fold) ELSE @]
    /\ place' = NextPlace
    /\ UNCHANGED <<setup, failed, tuned, stage>>

\* fit() or predict() raises: the whole column becomes the mean of what stands in it.
BaseFails ==
    /\ Working /\ TestOf(place.fold) # {}
    /\ meta' = [meta EXCEPT ![place.base] = [i \in Observations |-> UNION {@[j] : j \in Observations}]]
    /\ failed' = failed \cup {place.base}
    /\ place' = NextPlace
    /\ UNCHANGED <<setup, learnt, tuned, stage>>

\* The meta-learner is fitted on the stacked columns.
FitMeta ==
    /\ stage = "folds" /\ place.fold \notin AllFolds
    /\ stage' = "fitted"
    /\ UNCHANGED <<setup, place, meta, failed, learnt, tuned>>

\* The best of a fold's trials: the objective is given the inner training rows.  Without
\* any every trial fails, and with it the search.
SearchFold ==
    /\ Working /\ place.base = 1 /\ TrainOf(place.fold) # {}
    /\ \A i \in AllFolds : tuned[i] = {} <=> i >= place.fold
    /\ tuned' = [tuned EXCEPT ![place.fold] = InnerTrainOf(place.fold)]
    /\ UNCHANGED <<setup, place, meta, failed, learnt, stage>>

\* leakage_proof_assertion() of what the search returned.
LeakageProof ==
    \A i \in AllFolds :
        LET lastTrained == IF TrainOf(i) = {} THEN 0 ELSE Max(TrainOf(i))
        IN /\ TestOf(i) # {} /\ TrainOf(i) \cap TestOf(i) = {}
           /\ Min(TestOf(i)) - lastTrained >= setup.embargo
           /\ tuned[i] # {}

\* The base objects that predict(): one that was never fitted raises, and its column is 0.
Predicting == {b \in Bases : setup.stack[b] = "net" \/ learnt[b] # {}}

WalkNext == SkipFold \/ FitBase \/ BaseFails \/ FitMeta \/ SearchFold

WalkSpec == WalkInit /\ [][WalkNext]_walkVars
-----------------------------------------------------------------------------
(* Properties.                                                             *)

Before(rows, i) == \A j \in rows : j + setup.embargo <= i

\* The embargo separates what was learnt from what it is judged on, in the folds, in the
\* search inside them and in the meta-features of every base that did not fail; no
\* observation is judged twice; and the assertion kept for it accepts every search that
\* found parameters for its last fold.
OutOfFold ==
    /\ \A i, j \in AllFolds : i # j => TestOf(i) \cap TestOf(j) = {}
    /\ \A b \in Bases \ failed, i \in Observations : Before(meta[b][i], i)
    /\ \A i \in AllFolds, j \in Observations : j \in TestOf(i) => Before(tuned[i], j)
    /\ tuned[setup.folds - 1] # {} => LeakageProof

\* "no prediction in the meta-training set comes from a model fitted on data overlapping
\* that meta-row" (StackedEnsemble), whatever happens in a fold.
MetaRowsAreOutOfFold == \A b \in Bases, i \in Observations : i \notin meta[b][i]

\* "Predict using stacked predictions from base models": after a fit without a failure
\* every base model predicts.
EveryBasePredicts == stage = "fitted" /\ failed = {} => Predicting = Bases

\* "Each Optuna trial scores ONLY on the validation split" of its fold.
ScoredOnValidation == \A i \in AllFolds : tuned[i] \subseteq InnerValidationOf(i)
=============================================================================
