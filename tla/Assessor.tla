------------------------------ MODULE Assessor ------------------------------
(***************************************************************************)
(* core/quality/assessor.py: SelfSupervisedQualityAssessor, its four       *)
(* validators and its FeedbackLoop. Only the calibration validator and the *)
(* feedback loop remember anything between two assessments.                *)
(*                                                                         *)
(* Scores and confidences are in hundredths, rounded down. Abstracted: the *)
(* content, of which only what the validators measure is kept (how many    *)
(* contradictions, which share of the required fields, ...), and the       *)
(* confidence interval.                                                    *)
(***************************************************************************)
EXTENDS Integers, Sequences, FiniteSetsExt

CONSTANTS
    Contents,        \* what may be assessed, see Content
    None,
    Enough,          \* predictions it takes to compute a calibration error: 10 in the code
    Amounts, Rate,   \* a signal's adjustment, and the learning rate in hundredths
    MaxAssessed, MaxSignals     \* bounds of the model

Dimensions == {"consistency", "calibration", "structure", "semantics"}

VARIABLES
    predictions,   \* CalibrationValidator._predictions: sequence of [confidence, right]
    adjustments,   \* FeedbackLoop._adjustments
    signals,       \* FeedbackLoop._signals: sequence of [dimension, amount]
    history,       \* the assessments: sequence of [scores, risk, advice]
    undone         \* ghost: how many signals came before the last reset

vars == <<predictions, adjustments, signals, history, undone>>

Init ==
    /\ predictions = << >> /\ signals = << >> /\ history = << >> /\ undone = 0
    /\ adjustments = [d \in Dimensions |-> 0]

Clamp(score) == IF score < 0 THEN 0 ELSE IF score > 100 THEN 100 ELSE score
Abs(x) == IF x < 0 THEN -x ELSE x

(* ----------------------------- the validators -------------------------- *)
(* the share of the keys of the steps that all of them have                *)
StepsConsistent(x) == (100 * x.common) \div x.keys

Consistency(x) ==
    CASE x.kind = "text" -> Clamp(((100 - 30 * x.contradictions) * x.alignment) \div 100)
      [] x.kind = "dict" ->
            ((IF x.confidence = None \/ x.confidence \in 0 .. 100 THEN 100 ELSE 80)
                * StepsConsistent(x)) \div 100
      [] x.kind = "list" -> StepsConsistent(x)

(* every outcome goes to the bin of its confidence, cut to a tenth; one    *)
(* that is at or below minus a tenth has none                              *)
Bin(confidence) ==
    CASE confidence >= 100 -> 9
      [] confidence \in -9 .. -1 -> 0
      [] OTHER -> confidence \div 10
Bins == 0 .. 9

(* Mutant: a bin stands for its lowest confidence. *)
ExpectedLow(b) == 10 * b

Expected(b) == 10 * b + 5

InBin(made, b) == {i \in DOMAIN made : Bin(made[i].confidence) = b}
Right(made, b) == Cardinality({i \in InBin(made, b) : made[i].right})

(* the sum over the bins, before it is divided by the number of predictions *)
TotalError(made) ==
    MapThenSumSet(LAMBDA b : Abs(Cardinality(InBin(made, b)) * Expected(b)
                                 - 100 * Right(made, b)), Bins)

CalibrationError(made) ==
    IF Len(made) < Enough THEN 10 ELSE TotalError(made) \div Len(made)

Calibration(x, made) == IF x.confidence = None THEN 50 ELSE Clamp(100 - CalibrationError(made))

Structure(x) ==
    IF x.kind # "dict" THEN 50
    ELSE IF x.required = 0 THEN 100 ELSE (100 * x.present) \div x.required

Semantics(x) ==
    IF ~ x.readable THEN 50
    ELSE 100 - (IF x.short THEN 20 ELSE 0) - (IF x.dull THEN 10 ELSE 0) - (IF x.irrelevant THEN 20 ELSE 0)

(* ----------------------------- an assessment --------------------------- *)
Adjusted(d, score) == Clamp(score + adjustments[d])

Scores(x, made) ==
    [d \in Dimensions |-> Adjusted(d, CASE d = "consistency" -> Consistency(x)
                                        [] d = "calibration" -> Calibration(x, made)
                                        [] d = "structure" -> Structure(x)
                                        [] d = "semantics" -> Semantics(x))]

LowIn(scores) == {d \in Dimensions : scores[d] < 50}

(* four times the mean *)
Overall(scores) == MapThenSumSet(LAMBDA d : scores[d], Dimensions)

(* Mutant: the risk is high only if exactly two scores are low. *)
RiskOfTwo(scores) ==
    CASE Overall(scores) < 120 -> 3
      [] Overall(scores) \in 120 .. 199 -> 2
      [] Overall(scores) \in 200 .. 279 -> IF Cardinality(LowIn(scores)) = 2 THEN 2 ELSE 1
      [] OTHER -> 0

(* critical, high, medium, low *)
Risk(scores) ==
    CASE Overall(scores) < 120 -> 3
      [] Overall(scores) \in 120 .. 199 -> 2
      [] Overall(scores) \in 200 .. 279 -> IF Cardinality(LowIn(scores)) >= 2 THEN 2 ELSE 1
      [] OTHER -> 0

Assessment(scores) == [scores |-> scores, risk |-> Risk(scores), advice |-> LowIn(scores)]

(* the calibration validator remembers the outcome it is told, and raises  *)
(* from then on if it has no bin: the assessment is lost, the prediction   *)
(* is not                                                                  *)
Assess(x, outcome) ==
    /\ Len(history) < MaxAssessed /\ Len(predictions) < MaxAssessed
    /\ outcome # None => x.confidence # None
    /\ LET made == IF outcome = None THEN predictions
                   ELSE Append(predictions, [confidence |-> x.confidence, right |-> outcome])
           binless == \E i \in DOMAIN made : Bin(made[i].confidence) \notin Bins
       IN  /\ predictions' = made
           /\ history' = IF x.confidence # None /\ Len(made) >= Enough /\ binless THEN history
                         ELSE Append(history, Assessment(Scores(x, made)))
    /\ UNCHANGED <<adjustments, signals, undone>>

(* ------------------------------- feedback ------------------------------ *)
(* Mutant: the adjustment is kept within the range of a score. *)
ApplyClamped(d, amount) ==
    adjustments' = [adjustments EXCEPT ![d] = Clamp(@ + (amount * Rate) \div 100)]

ApplyAdjustment(d, amount) ==
    adjustments' = [adjustments EXCEPT ![d] = @ + (amount * Rate) \div 100]

RecordFeedback(d, amount) ==
    /\ Len(signals) < MaxSignals
    /\ signals' = Append(signals, [dimension |-> d, amount |-> amount])
    /\ ApplyAdjustment(d, amount)
    /\ UNCHANGED <<predictions, history, undone>>

(* the signals stay *)
ResetAdjustments ==
    /\ adjustments' = [d \in Dimensions |-> 0]
    /\ undone' = Len(signals)
    /\ UNCHANGED <<predictions, signals, history>>

Next ==
    \/ \E x \in Contents, outcome \in BOOLEAN \cup {None} : Assess(x, outcome)
    \/ \E d \in Dimensions, amount \in Amounts : RecordFeedback(d, amount)
    \/ ResetAdjustments

Spec == Init /\ [][Next]_vars
-----------------------------------------------------------------------------
TypeOK ==
    /\ \A i \in DOMAIN history : history[i].scores \in [Dimensions -> 0 .. 100]
    /\ undone <= Len(signals) /\ Len(signals) <= MaxSignals

(* Of two assessments, the one that is no worse in any dimension is of no  *)
(* higher risk, and gets no advice that the other was spared.              *)
RiskFollowsScores ==
    \A i, j \in DOMAIN history :
        (\A d \in Dimensions : history[i].scores[d] <= history[j].scores[d]) =>
            history[j].risk <= history[i].risk /\ history[j].advice \subseteq history[i].advice

(* Feedback that is withdrawn has no effect, however far it took a score   *)
(* below zero or above one.                                                *)
Net(d) == MapThenSumSet(LAMBDA i : IF signals[i].dimension = d THEN signals[i].amount ELSE 0,
                        undone + 1 .. Len(signals))
FeedbackUndone == \A d \in Dimensions : Net(d) = 0 => adjustments[d] = 0

(* The ten bins cost at most five hundredths: the calibration error is     *)
(* that close to the one computed with the confidences themselves.         *)
Stated(b) == MapThenSumSet(LAMBDA i : predictions[i].confidence, InBin(predictions, b))
CalibrationClose ==
    (\A i \in DOMAIN predictions : predictions[i].confidence \in 0 .. 100) =>
        LET exact == MapThenSumSet(LAMBDA b : Abs(Stated(b) - 100 * Right(predictions, b)), Bins)
        IN  Abs(TotalError(predictions) - exact) <= 5 * Len(predictions)
=============================================================================
