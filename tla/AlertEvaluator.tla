---------------------------- MODULE AlertEvaluator ----------------------------
(***************************************************************************)
(* evaluateAlerts (notifications/evaluator.ts): which rules fire for an    *)
(* event, given the flags of the event and the counts of its issue.        *)
(***************************************************************************)
EXTENDS Integers

CONSTANT Null  \* a nullable column without a value

Conditions == {"new_issue", "regression", "event_threshold", "event_spike"}

\* Percent of a multiplier of 1: spikeMultiplier has two decimals in the
\* database, so a rule holds it as a whole number of hundredths.
One == 100

\* Mutant of SpikeRatio: the baseline rate is taken over the whole baseline
\* interval, although its last windowMinutes are not counted in it.
SpikeRatioWholeInterval(rule, recent, baseline) ==
  recent * rule.baselineMinutes * One
    - baseline * rule.windowMinutes * rule.spikeMultiplier

\* recentRate - baselineRate * spikeMultiplier, brought to one denominator.
SpikeRatio(rule, recent, baseline) ==
  recent * (rule.baselineMinutes - rule.windowMinutes) * One
    - baseline * rule.windowMinutes * rule.spikeMultiplier

SpikeConfigured(rule) ==
  /\ Null \notin {rule.windowMinutes, rule.baselineMinutes,
                  rule.spikeMultiplier, rule.minEvents}
  /\ rule.baselineMinutes > rule.windowMinutes

\* The answers event_spike can give.  The code compares floating-point
\* quotients: where both sides are equal on paper, rounding decides.
SpikeAnswers(rule, recent, baseline) ==
  IF ~SpikeConfigured(rule) \/ recent < rule.minEvents THEN {FALSE}
  ELSE IF baseline = 0 \/ SpikeRatio(rule, recent, baseline) > 0 THEN {TRUE}
  ELSE IF SpikeRatio(rule, recent, baseline) = 0 THEN BOOLEAN
  ELSE {FALSE}

ThresholdFires(rule, recent) ==
  /\ Null \notin {rule.threshold, rule.windowMinutes}
  /\ recent >= rule.threshold

\* The answers the evaluation of one rule can give.
Answers(rule, isNew, regressed, recent, baseline) ==
  CASE rule.condition = "new_issue"       -> {isNew}
    [] rule.condition = "regression"      -> {regressed}
    [] rule.condition = "event_threshold" -> {ThresholdFires(rule, recent)}
    [] rule.condition = "event_spike"     -> SpikeAnswers(rule, recent, baseline)
=============================================================================
