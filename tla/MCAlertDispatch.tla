--------------------------- MODULE MCAlertDispatch ---------------------------
(* AlertDispatch for TLC: two overlapping jobs about one issue, and a spike  *)
(* rule with a cooldown of its own, which users may turn into a new-issue    *)
(* rule and back.  The worker has no SMTP credentials: the message to Slack  *)
(* of the spike rule can arrive, the mail of the new-issue rule cannot.      *)
EXTENDS AlertDispatch

NewIssue ==
  [channel |-> "email", condition |-> "new_issue", isActive |-> TRUE,
   threshold |-> Null, windowMinutes |-> Null, baselineMinutes |-> Null,
   spikeMultiplier |-> Null, minEvents |-> Null, cooldownMinutes |-> Null]

Spike ==
  [NewIssue EXCEPT !.channel = "slack", !.condition = "event_spike",
     !.windowMinutes = 1, !.baselineMinutes = 2, !.spikeMultiplier = 150,
     !.minEvents = 1, !.cooldownMinutes = 1]

MCConfigs == {NewIssue, Spike}
=============================================================================
