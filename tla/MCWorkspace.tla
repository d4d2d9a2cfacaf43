----------------------------- MODULE MCWorkspace -----------------------------
(* Constants for model-checking Workspace.                                  *)
EXTENDS Workspace

SlackRule ==
  [channel |-> "slack", target |-> "webhook", condition |-> "new_issue",
   isActive |-> FALSE]
SpikeRule ==
  [channel |-> "email", target |-> "address", condition |-> "event_spike",
   windowMinutes |-> 1, baselineMinutes |-> 3, spikeMultiplier |-> 2,
   minEvents |-> 1, cooldownMinutes |-> 1]
MCBodies == {SlackRule, SpikeRule}

MCPatches ==
  {[condition |-> "regression"], [windowMinutes |-> 2],
   [baselineMinutes |-> 2], [channel |-> "slack"]}

MemberKinds == {"addMember", "updateMemberRole", "removeMember"}
MCAreas ==
  {MemberKinds \cup {"deleteProject", "updateProject", "createProjectKey",
                     "rotateProjectKey", "updateProjectKey"},
   MemberKinds \cup {"createAlertRule", "updateAlertRule", "deleteAlertRule"},
   MemberKinds \cup {"setIssueAssignee", "createIssueComment",
                     "deleteIssueComment"},
   {"createProject", "deleteProject", "createAlertRule", "setIssueAssignee",
    "createIssueComment"}}
=============================================================================
