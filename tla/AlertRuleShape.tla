--------------------------- MODULE AlertRuleShape ---------------------------
(***************************************************************************)
(* The shape of an alert rule (modules/alert-rules): which inputs the       *)
(* schemas accept, how a patch is merged with the stored row, and which     *)
(* columns the row keeps for its condition.  A rule is a function from its  *)
(* columns to values; an input is a function from the fields it names.      *)
(***************************************************************************)
EXTENDS Integers

CONSTANT NoValue    \* a column that is null, a field that is not sent

Columns ==
  {"channel", "target", "condition", "threshold", "windowMinutes",
   "cooldownMinutes", "baselineMinutes", "spikeMultiplier", "minEvents",
   "isActive"}

Measured == {"event_threshold", "event_spike"}

\* What the schemas hand to the service: isActive has a default, which zod
\* also applies to a field that .partial() has made optional.
ParsedInput(body) ==
  [c \in DOMAIN body \cup {"isActive"} |->
     IF c \in DOMAIN body THEN body[c] ELSE TRUE]

\* The row before it is checked: what the input names, else what is stored.
\* A create has no stored row.
Merged(row, input) == [c \in Columns |->
                         IF c \in DOMAIN input THEN input[c] ELSE row[c]]

NoRow == [c \in Columns |-> NoValue]

\* mergedAlertRuleSchema.  A target is an address or a webhook, by its form.
ValidShape(rule) ==
  /\ rule["target"] = IF rule["channel"] = "email" THEN "address" ELSE "webhook"
  /\ rule["condition"] = "event_threshold" =>
       NoValue \notin {rule["threshold"], rule["windowMinutes"]}
  /\ rule["condition"] = "event_spike" =>
       /\ NoValue \notin {rule["windowMinutes"], rule["baselineMinutes"],
                          rule["spikeMultiplier"], rule["minEvents"]}
       /\ rule["baselineMinutes"] > rule["windowMinutes"]

\* The columns each condition keeps of those that are measurements.
ThresholdColumns(condition) ==
  {c \in {"threshold", "windowMinutes"} :
     /\ condition \in Measured
     /\ c = "threshold" => condition = "event_threshold"}

SpikeColumns(condition) ==
  IF condition = "event_spike"
  THEN {"baselineMinutes", "spikeMultiplier", "minEvents"} ELSE {}

CooldownColumns(condition) ==
  IF condition \in Measured \cup {"regression"} THEN {"cooldownMinutes"} ELSE {}

\* parseMergedAlertRule, for a rule of a valid shape.
Normalized(rule) ==
  LET kept == {"channel", "target", "condition", "isActive"}
                \cup ThresholdColumns(rule["condition"])
                \cup SpikeColumns(rule["condition"])
                \cup CooldownColumns(rule["condition"])
  IN  [c \in Columns |-> IF c \in kept THEN rule[c] ELSE NoValue]

WellFormed(rule) == ValidShape(rule) /\ Normalized(rule) = rule
=============================================================================
