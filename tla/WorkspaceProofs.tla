--------------------------- MODULE WorkspaceProofs ---------------------------
(***************************************************************************)
(* For any number of users, requests, rules and slugs: the founder stays an *)
(* owner, a rotation never takes a project's last active key, what a check  *)
(* that is not repeated at the write can miss is accounted for by the       *)
(* requests that came in between, and whatever is written was allowed at    *)
(* some time since its request arrived.                                     *)
(*                                                                         *)
(* FounderStaysOwner is not inductive: the write does not look at the       *)
(* founder again.  It is enough that a membership request is at its write   *)
(* only if it passed the check of the founder, which no other request can   *)
(* undo because it depends on the request alone (Screened).                 *)
(***************************************************************************)
EXTENDS Workspace, FiniteSetTheorems, TLAPS

MembershipKinds == {"addMember", "updateMemberRole", "removeMember"}

Labels ==
  {"new", "check", "project", "keyProject", "key", "count", "member",
   "comment", "moderate", "write", "done"}

Control ==
  /\ pc \in [RequestIds -> Labels]
  /\ req \in [RequestIds -> Requests \cup {NoRequest}]

\* What the check of a membership request has established when it is passed.
Cleared(r, label) ==
  label = "check" \/ (label = "write" /\ ProtectsFounder(req[r]))

Screened ==
  \A r \in RequestIds : Kind(r) \in MembershipKinds => Cleared(r, pc[r])

IInv ==
  /\ Control /\ Screened
  /\ role \in [Users -> Roles]
  /\ FounderStaysOwner

-----------------------------------------------------------------------------
(* The control of a request: where it goes, and what it carries.           *)

LEMMA InitInv == Init => IInv
<1> SUFFICES ASSUME Init PROVE IInv
  OBVIOUS
<1>1. Control
  BY DEF Init, Control, Labels
<1>2. Screened
  BY DEF Init, Screened, Kind, MembershipKinds
<1>3. role \in [Users -> Roles] /\ role[Founder] = "owner"
  BY WorkspaceAssumption DEF Init, Roles
<1> QED
  BY <1>1, <1>2, <1>3 DEF IInv, FounderStaysOwner

\* A request that has been answered is no membership request any more.
LEMMA AnsweredKeeps ==
  ASSUME Control, Screened, NEW r \in RequestIds, Answered(r)
  PROVE  Control' /\ Screened'
<1>1. Control'
  BY DEF Control, Answered, Labels
<1>2. \A s \in RequestIds : s # r => pc'[s] = pc[s] /\ req'[s] = req[s]
  BY DEF Control, Answered
<1>3. req'[r] = NoRequest
  BY DEF Control, Answered
<1> QED
  BY <1>1, <1>2, <1>3 DEF Screened, Cleared, Kind, ProtectsFounder,
                          MembershipKinds

\* A membership request goes on only where its check lets it.
LEMMA GotoKeeps ==
  ASSUME Control, Screened, NEW r \in RequestIds, NEW label \in Labels,
         Goto(r, label), Kind(r) \in MembershipKinds => Cleared(r, label)
  PROVE  Control' /\ Screened'
<1>1. Control'
  BY DEF Control, Goto
<1>2. \A s \in RequestIds : s # r => pc'[s] = pc[s]
  BY DEF Control, Goto
<1>3. pc'[r] = label /\ req' = req
  BY DEF Control, Goto
<1> QED
  BY <1>1, <1>2, <1>3 DEF Screened, Cleared, Kind, ProtectsFounder

\* A request arrives at its check.
LEMMA ArriveKeeps ==
  ASSUME Control, Screened, NEW r \in RequestIds, NEW q \in Requests,
         Arrive(r, q)
  PROVE  Control' /\ Screened'
<1>1. Control'
  BY DEF Control, Arrive, Labels
<1>2. \A s \in RequestIds : s # r => pc'[s] = pc[s] /\ req'[s] = req[s]
  BY DEF Control, Arrive
<1>3. pc'[r] = "check"
  BY DEF Control, Arrive
<1> QED
  BY <1>1, <1>2, <1>3 DEF Screened, Cleared, Kind, ProtectsFounder

\* A statement that only decides leaves the tables alone.
Decides(r) ==
  \/ EnsureProjectAdmin(r) \/ GetAdminProject(r) \/ GetOwnedProject(r)
  \/ GetOwnedProjectKey(r) \/ EnsureFounder(r) \/ EnsureOwnedProject(r)
  \/ CountAlertRules(r) \/ ReadAlertRule(r) \/ EnsureOwnedIssue(r)
  \/ ReadAssignee(r) \/ ReadComment(r) \/ Moderate(r) \/ LookUpSlug(r)
  \/ SlugConflict(r)

LEMMA CheckKeeps ==
  ASSUME Control, Screened, NEW r \in RequestIds, NEW kinds,
         NEW allowed \in BOOLEAN, NEW label \in Labels,
         Check(r, kinds, allowed, label),
         allowed /\ Kind(r) \in kinds \cap MembershipKinds => Cleared(r, label)
  PROVE  Control' /\ Screened' /\ UNCHANGED tables
<1>1. CASE allowed /\ Goto(r, label) /\ UNCHANGED tables
  <2>1. Kind(r) \in MembershipKinds => Cleared(r, label)
    BY <1>1 DEF Check
  <2> QED
    BY <1>1, <2>1, GotoKeeps
<1>2. CASE Reject(r)
  BY <1>2, AnsweredKeeps DEF Reject
<1> QED
  BY <1>1, <1>2 DEF Check

LEMMA DecidesKeeps ==
  ASSUME Control, Screened, NEW r \in RequestIds, Decides(r)
  PROVE  Control' /\ Screened' /\ UNCHANGED tables
<1> USE DEF MembershipKinds, Labels, Cleared
<1>1. CASE EnsureProjectAdmin(r)
  <2> DEFINE allowed ==
        IsAdmin(req[r].caller) /\ ProtectsFounder(req[r])
  <2>1. allowed \in BOOLEAN
    BY DEF IsAdmin, IsMember, ProtectsFounder
  <2>2. Check(r, MembershipKinds, allowed, "write")
    BY <1>1 DEF EnsureProjectAdmin
  <2>3. allowed => ProtectsFounder(req[r])
    OBVIOUS
  <2> HIDE DEF allowed
  <2> QED
    BY <2>1, <2>2, <2>3, CheckKeeps
<1>2. CASE GetAdminProject(r)
  <2> DEFINE allowed == role[req[r].caller] = "owner"
             kinds == {"updateProject", "createProjectKey",
                       "rotateProjectKey", "updateProjectKey"}
  <2>1. Check(r, kinds, allowed, "project")
    BY <1>2 DEF GetAdminProject
  <2>2. allowed \in BOOLEAN /\ kinds \cap MembershipKinds = {}
    OBVIOUS
  <2> HIDE DEF allowed, kinds
  <2> QED
    BY <2>1, <2>2, CheckKeeps
<1>3. CASE GetOwnedProject(r)
  <2>1. Kind(r) \notin MembershipKinds
    BY <1>3 DEF GetOwnedProject, Screened
  <2>2. CASE Reject(r)
    BY <2>2, AnsweredKeeps DEF Reject
  <2>3. ASSUME NEW label \in Labels, Goto(r, label), UNCHANGED tables
        PROVE  Control' /\ Screened' /\ UNCHANGED tables
    BY <2>1, <2>3, GotoKeeps
  <2> QED
    BY <1>3, <2>2, <2>3 DEF GetOwnedProject
<1>4. CASE GetOwnedProjectKey(r)
  <2>1. Kind(r) \notin MembershipKinds
    BY <1>4 DEF GetOwnedProjectKey, Screened
  <2>2. CASE Reject(r)
    BY <2>2, AnsweredKeeps DEF Reject
  <2>3. CASE Goto(r, "write") /\ UNCHANGED tables
    BY <2>1, <2>3, GotoKeeps
  <2> QED
    BY <1>4, <2>2, <2>3 DEF GetOwnedProjectKey
<1>5. CASE EnsureFounder(r)
  <2> DEFINE allowed == IsMember(req[r].caller) /\ req[r].caller = Founder
  <2>1. Check(r, {"deleteProject"}, allowed, "write")
    BY <1>5 DEF EnsureFounder
  <2>2. allowed \in BOOLEAN /\ {"deleteProject"} \cap MembershipKinds = {}
    BY DEF IsMember
  <2> HIDE DEF allowed
  <2> QED
    BY <2>1, <2>2, CheckKeeps
<1>6. CASE EnsureOwnedProject(r)
  <2> DEFINE allowed == IsMember(req[r].caller)
             kinds == {"createAlertRule", "deleteAlertRule"}
             label == IF Kind(r) = "createAlertRule" THEN "count" ELSE "write"
  <2>1. Check(r, kinds, allowed, label)
    BY <1>6 DEF EnsureOwnedProject
  <2>2. allowed \in BOOLEAN /\ kinds \cap MembershipKinds = {}
        /\ label \in Labels
    BY DEF IsMember
  <2> HIDE DEF allowed, kinds, label
  <2> QED
    BY <2>1, <2>2, CheckKeeps
<1>7. CASE EnsureOwnedIssue(r)
  <2> DEFINE allowed == IsMember(req[r].caller)
             kinds == {"setIssueAssignee", "createIssueComment",
                       "deleteIssueComment"}
             label ==
               CASE Kind(r) = "setIssueAssignee" /\ req[r].user # NoUser ->
                      "member"
                 [] Kind(r) = "deleteIssueComment" -> "comment"
                 [] OTHER -> "write"
  <2>1. Check(r, kinds, allowed, label)
    BY <1>7 DEF EnsureOwnedIssue
  <2>2. allowed \in BOOLEAN /\ kinds \cap MembershipKinds = {}
        /\ label \in Labels
    BY DEF IsMember
  <2> HIDE DEF allowed, kinds, label
  <2> QED
    BY <2>1, <2>2, CheckKeeps
<1>8. CASE CountAlertRules(r)
  <2>1. Kind(r) \notin MembershipKinds
    BY <1>8 DEF CountAlertRules, Screened
  <2>2. CASE Reject(r)
    BY <2>2, AnsweredKeeps DEF Reject
  <2>3. CASE Goto(r, "write") /\ UNCHANGED tables
    BY <2>1, <2>3, GotoKeeps
  <2> QED
    BY <1>8, <2>2, <2>3 DEF CountAlertRules
<1>9. CASE ReadAlertRule(r)
  <2>1. Kind(r) \notin MembershipKinds
    BY <1>9 DEF ReadAlertRule
  <2>2. CASE Reject(r)
    BY <2>2, AnsweredKeeps DEF Reject
  <2>3. CASE Goto(r, "write") /\ UNCHANGED tables
    BY <2>1, <2>3, GotoKeeps
  <2> QED
    BY <1>9, <2>2, <2>3 DEF ReadAlertRule
<1>10. CASE ReadAssignee(r)
  <2>1. Kind(r) \notin MembershipKinds
    BY <1>10 DEF ReadAssignee, Screened
  <2>2. CASE Reject(r)
    BY <2>2, AnsweredKeeps DEF Reject
  <2>3. CASE Goto(r, "write") /\ UNCHANGED tables
    BY <2>1, <2>3, GotoKeeps
  <2> QED
    BY <1>10, <2>2, <2>3 DEF ReadAssignee
<1>11. CASE ReadComment(r)
  <2>1. Kind(r) \notin MembershipKinds
    BY <1>11 DEF ReadComment, Screened
  <2>2. CASE Reject(r)
    BY <2>2, AnsweredKeeps DEF Reject
  <2>3. ASSUME NEW label \in Labels, Goto(r, label), UNCHANGED tables
        PROVE  Control' /\ Screened' /\ UNCHANGED tables
    BY <2>1, <2>3, GotoKeeps
  <2> QED
    BY <1>11, <2>2, <2>3 DEF ReadComment
<1>12. CASE Moderate(r)
  <2>1. Kind(r) \notin MembershipKinds
    BY <1>12 DEF Moderate, Screened
  <2>2. CASE Reject(r)
    BY <2>2, AnsweredKeeps DEF Reject
  <2>3. CASE Goto(r, "write") /\ UNCHANGED tables
    BY <2>1, <2>3, GotoKeeps
  <2> QED
    BY <1>12, <2>2, <2>3 DEF Moderate
<1>13. CASE LookUpSlug(r)
  <2>1. Kind(r) \notin MembershipKinds
    BY <1>13 DEF LookUpSlug
  <2>2. CASE UNCHANGED <<pc, req, tables>>
    BY <2>2 DEF Control, Screened, Kind, ProtectsFounder
  <2>3. CASE Goto(r, "write") /\ UNCHANGED tables
    BY <2>1, <2>3, GotoKeeps
  <2> QED
    BY <1>13, <2>2, <2>3 DEF LookUpSlug
<1>14. CASE SlugConflict(r)
  <2>1. Kind(r) \notin MembershipKinds
    BY <1>14 DEF SlugConflict, Writes
  <2>2. CASE Reject(r)
    BY <2>2, AnsweredKeeps DEF Reject
  <2>3. CASE Goto(r, "check") /\ UNCHANGED tables
    BY <2>1, <2>3, GotoKeeps
  <2> QED
    BY <1>14, <2>2, <2>3 DEF SlugConflict
<1> QED
  BY <1>1, <1>2, <1>3, <1>4, <1>5, <1>6, <1>7, <1>8, <1>9, <1>10, <1>11,
     <1>12, <1>13, <1>14 DEF Decides

-----------------------------------------------------------------------------
(* The writes.                                                             *)

WritesRoles(r) == AddMember(r) \/ UpdateMemberRole(r) \/ RemoveMember(r)

WritesKeys(r) ==
  CreateProjectKey(r) \/ RotateProjectKey(r) \/ UpdateProjectKey(r)

WritesElse(r) ==
  \/ UpdateProject(r) \/ CreateAlertRule(r) \/ UpdateAlertRule(r)
  \/ DeleteAlertRule(r) \/ SetIssueAssignee(r) \/ CreateIssueComment(r)
  \/ DeleteIssueComment(r) \/ CreateProject(r)

Write(r) ==
  WritesRoles(r) \/ WritesKeys(r) \/ WritesElse(r) \/ DeleteProject(r)

LEMMA StepCases ==
  ASSUME NEW r \in RequestIds, Step(r) PROVE Decides(r) \/ Write(r)
BY DEF Step, Decides, Write, WritesRoles, WritesKeys, WritesElse

\* Each write, also one that finds its row lost, is the end of its request.
LEMMA WriteAnswers ==
  ASSUME NEW r \in RequestIds, Write(r) PROVE Answered(r)
<1>1. ASSUME NEW kind, NEW found, RowLost(r, kind, found)
      PROVE  Answered(r)
  BY <1>1 DEF RowLost, Reject
<1>2. CASE WritesRoles(r)
  BY <1>1, <1>2 DEF WritesRoles, AddMember, UpdateMemberRole, RemoveMember,
                    RolesBecome
<1>3. CASE WritesKeys(r)
  BY <1>1, <1>3 DEF WritesKeys, CreateProjectKey, RotateProjectKey,
                    UpdateProjectKey, KeysBecome
<1>4. CASE WritesElse(r)
  BY <1>1, <1>4 DEF WritesElse, UpdateProject, CreateAlertRule,
                    UpdateAlertRule, DeleteAlertRule, SetIssueAssignee,
                    CreateIssueComment, DeleteIssueComment, CreateProject,
                    RulesBecome, IssueBecomes
<1>5. CASE DeleteProject(r)
  BY <1>1, <1>5 DEF DeleteProject
<1> QED
  BY <1>2, <1>3, <1>4, <1>5 DEF Write

LEMMA RowLostKeeps ==
  ASSUME NEW r \in RequestIds, NEW kind, NEW found, RowLost(r, kind, found)
  PROVE  UNCHANGED tables
BY DEF RowLost, Reject

\* Only the membership writes and the deletion touch the roles.
LEMMA RolesUntouched ==
  ASSUME NEW r \in RequestIds, WritesKeys(r) \/ WritesElse(r)
  PROVE  UNCHANGED <<live, role>>
<1>1. UNCHANGED tables => UNCHANGED <<live, role>>
  BY DEF tables
<1>2. CASE WritesKeys(r)
  BY <1>1, <1>2, RowLostKeeps
     DEF WritesKeys, CreateProjectKey, RotateProjectKey, UpdateProjectKey,
         KeysBecome
<1>3. CASE WritesElse(r)
  BY <1>1, <1>3, RowLostKeeps
     DEF WritesElse, UpdateProject, CreateAlertRule, UpdateAlertRule,
         DeleteAlertRule, SetIssueAssignee, CreateIssueComment,
         DeleteIssueComment, CreateProject, RulesBecome, IssueBecomes
<1> QED
  BY <1>2, <1>3

\* The kind of a request that is at its write is that of its parameters.
LEMMA KindAtWrite ==
  ASSUME NEW r \in RequestIds, NEW kind \in MembershipKinds, Writes(r, kind)
  PROVE  req[r].kind = kind
BY DEF Writes, Kind, MembershipKinds

LEMMA MembershipParameters ==
  ASSUME Control, NEW r \in RequestIds, NEW kind \in MembershipKinds,
         Writes(r, kind)
  PROVE  /\ req[r].kind = kind /\ req[r].user \in Users
         /\ kind # "removeMember" => req[r].role \in {"member", "owner"}
<1>1. req[r].kind = kind
  BY KindAtWrite
<1>2. req[r] \in Requests
  BY DEF Control, Writes, Kind, MembershipKinds
<1> QED
  BY <1>1, <1>2 DEF Requests, MemberRequests, ProjectRequests, RuleRequests,
                    IssueRequests, MembershipKinds

\* The founder remains an owner through each of the membership writes.
LEMMA RolesKeep ==
  ASSUME IInv, NEW r \in RequestIds, WritesRoles(r)
  PROVE  role' \in [Users -> Roles] /\ FounderStaysOwner'
<1> USE DEF IInv, MembershipKinds, Roles
<1>1. UNCHANGED tables => role' \in [Users -> Roles] /\ FounderStaysOwner'
  BY DEF tables, FounderStaysOwner
<1>2. CASE Writes(r, "addMember") /\ live /\ role[req[r].user] = "none"
           /\ RolesBecome(r, [role EXCEPT ![req[r].user] = req[r].role])
  <2>1. req[r].user # Founder /\ live' = live
    BY <1>2 DEF FounderStaysOwner, RolesBecome
  <2>2. req[r].role \in Roles /\ req[r].user \in Users
    BY <1>2, MembershipParameters
  <2> QED
    BY <1>2, <2>1, <2>2, WorkspaceAssumption DEF FounderStaysOwner, RolesBecome
<1>3. CASE Writes(r, "updateMemberRole")
           /\ RolesBecome(r, [role EXCEPT ![req[r].user] = req[r].role])
  <2>1. req[r].kind = "updateMemberRole" /\ req[r].user \in Users
    BY <1>3, MembershipParameters
  <2>2. req[r].role \in Roles
    BY <1>3, MembershipParameters
  <2>3. req[r].user # Founder \/ req[r].role = "owner"
    BY <1>3, <2>1 DEF Screened, Cleared, ProtectsFounder, Writes
  <2>4. live' = live
    BY <1>3 DEF RolesBecome
  <2> QED
    BY <1>3, <2>1, <2>2, <2>3, <2>4, WorkspaceAssumption
       DEF FounderStaysOwner, RolesBecome
<1>4. CASE Writes(r, "removeMember")
           /\ RolesBecome(r, [role EXCEPT ![req[r].user] = "none"])
  <2>1. req[r].kind = "removeMember" /\ req[r].user \in Users
    BY <1>4, MembershipParameters
  <2>2. req[r].user # Founder
    BY <1>4, <2>1 DEF Screened, Cleared, ProtectsFounder, Writes
  <2>3. live' = live
    BY <1>4 DEF RolesBecome
  <2> QED
    BY <1>4, <2>1, <2>2, <2>3, WorkspaceAssumption
       DEF FounderStaysOwner, RolesBecome
<1> QED
  BY <1>1, <1>2, <1>3, <1>4, RowLostKeeps
     DEF WritesRoles, AddMember, UpdateMemberRole, RemoveMember

\* Every step keeps the inductive invariant.
LEMMA NextInv == IInv /\ [Next]_vars => IInv'
<1> SUFFICES ASSUME IInv, [Next]_vars PROVE IInv'
  OBVIOUS
<1> USE DEF IInv
<1>1. CASE UNCHANGED vars
  BY <1>1 DEF vars, tables, Control, Screened, Cleared, Kind, ProtectsFounder,
              FounderStaysOwner
<1>2. ASSUME NEW r \in RequestIds, NEW q \in Requests, Arrive(r, q)
      PROVE  IInv'
  <2>1. Control' /\ Screened'
    BY <1>2, ArriveKeeps
  <2>2. UNCHANGED <<live, role>>
    BY <1>2 DEF Arrive, tables
  <2> QED
    BY <2>1, <2>2 DEF FounderStaysOwner
<1>3. ASSUME NEW r \in RequestIds, Decides(r) PROVE IInv'
  BY <1>3, DecidesKeeps DEF tables, FounderStaysOwner
<1>4. ASSUME NEW r \in RequestIds, Write(r) PROVE IInv'
  <2>1. Control' /\ Screened'
    BY <1>4, WriteAnswers, AnsweredKeeps
  <2>2. CASE WritesRoles(r)
    BY <2>1, <2>2, RolesKeep
  <2>3. CASE WritesKeys(r) \/ WritesElse(r)
    BY <2>1, <2>3, RolesUntouched DEF FounderStaysOwner
  <2>4. CASE DeleteProject(r)
    <3>1. CASE UNCHANGED tables
      BY <2>1, <3>1 DEF tables, FounderStaysOwner
    <3>2. CASE live' = FALSE /\ role' = [u \in Users |-> "none"]
      BY <2>1, <3>2 DEF FounderStaysOwner, Roles
    <3> QED
      BY <2>4, <3>1, <3>2, RowLostKeeps DEF DeleteProject
  <2> QED
    BY <1>4, <2>2, <2>3, <2>4 DEF Write
<1> QED
  BY <1>1, <1>2, <1>3, <1>4, StepCases DEF Next

THEOREM InductiveInvariant == Spec => []IInv
BY InitInv, NextInv, PTL DEF Spec

\* The founder of a project is an owner of it as long as it exists, for any
\* number of users and of requests in flight (members.service.ts:33-36, :134):
\* the check of a request that names the founder need not be repeated at its
\* write.
THEOREM FounderSafe == Spec => []FounderStaysOwner
<1>1. IInv => FounderStaysOwner
  BY DEF IInv
<1> QED
  BY <1>1, InductiveInvariant, PTL

-----------------------------------------------------------------------------
(* The keys.                                                               *)

SomeActive(f) == \E k \in DOMAIN f : f[k]

SwitchesOff(r) ==
  Writes(r, "updateProjectKey") /\ ~ req[r].isActive /\ pc'[r] = "done"

\* A row that is added active leaves an active row, whatever the others are.
LEMMA AddedActive ==
  ASSUME NEW k, NEW f PROVE SomeActive(WithRow(f, k, TRUE))
BY DEF SomeActive, WithRow

\* What a request that is written as a key patch asks for is a Boolean.
LEMMA KeyParameters ==
  ASSUME Control, NEW r \in RequestIds, Writes(r, "updateProjectKey")
  PROVE  req[r].isActive \in BOOLEAN
<1>1. req[r].kind = "updateProjectKey"
  BY DEF Writes, Kind
<1>2. req[r] \in Requests
  BY DEF Control, Writes, Kind
<1> QED
  BY <1>1, <1>2 DEF Requests, MemberRequests, ProjectRequests, RuleRequests,
                    IssueRequests

\* The writes that touch the keys leave one active, or switch one off.
LEMMA KeysKeep ==
  ASSUME Control, NEW r \in RequestIds, WritesKeys(r), SomeActive(keys)
  PROVE  SomeActive(keys') \/ SwitchesOff(r)
<1>1. CASE UNCHANGED tables
  BY <1>1 DEF tables, SomeActive
<1>2. CASE KeysBecome(r, WithRow(keys, r, TRUE))
  BY <1>2, AddedActive DEF KeysBecome
<1>3. CASE KeysBecome(r, RotatedKeys(req[r].row, r))
  BY <1>3, AddedActive DEF KeysBecome, RotatedKeys
<1>4. CASE /\ Writes(r, "updateProjectKey") /\ req[r].row \in DOMAIN keys
           /\ KeysBecome(r, [keys EXCEPT ![req[r].row] = req[r].isActive])
  <2>1. CASE req[r].isActive = FALSE
    BY <1>4, <2>1 DEF SwitchesOff, KeysBecome, Answered, Control
  <2>2. CASE req[r].isActive = TRUE
    <3>1. keys' = [keys EXCEPT ![req[r].row] = TRUE]
      BY <1>4, <2>2 DEF KeysBecome
    <3>2. req[r].row \in DOMAIN keys' /\ keys'[req[r].row]
      BY <1>4, <3>1
    <3> QED
      BY <3>2 DEF SomeActive
  <2> QED
    BY <1>4, <2>1, <2>2, KeyParameters
<1> QED
  BY <1>1, <1>2, <1>3, <1>4, RowLostKeeps
     DEF WritesKeys, CreateProjectKey, RotateProjectKey, UpdateProjectKey

\* Nothing else touches the keys of a project that is there.
LEMMA KeysUntouched ==
  ASSUME NEW r \in RequestIds,
         WritesRoles(r) \/ WritesElse(r) \/ DeleteProject(r)
  PROVE  UNCHANGED keys \/ ~ live'
<1>1. UNCHANGED tables => UNCHANGED keys
  BY DEF tables
<1>2. CASE WritesRoles(r)
  BY <1>1, <1>2, RowLostKeeps
     DEF WritesRoles, AddMember, UpdateMemberRole, RemoveMember, RolesBecome
<1>3. CASE WritesElse(r)
  BY <1>1, <1>3, RowLostKeeps
     DEF WritesElse, UpdateProject, CreateAlertRule, UpdateAlertRule,
         DeleteAlertRule, SetIssueAssignee, CreateIssueComment,
         DeleteIssueComment, CreateProject, RulesBecome, IssueBecomes
<1>4. CASE DeleteProject(r)
  BY <1>1, <1>4, RowLostKeeps DEF DeleteProject
<1> QED
  BY <1>2, <1>3, <1>4

\* A project with an active DSN key keeps one through every rotation and
\* creation of keys, for any number of keys and of requests in flight
\* (projects/service.ts:646-672): a new active row comes with the old one
\* switched off.
THEOREM RotationsKeepAKey == Spec => ActiveKeyKept
<1> DEFINE Kept ==
      (live' /\ \E k \in DOMAIN keys : keys[k])
        => \/ \E k \in DOMAIN keys' : keys'[k]
           \/ \E r \in RequestIds : /\ Writes(r, "updateProjectKey")
                                    /\ ~ req[r].isActive
                                    /\ pc'[r] = "done"
<1>1. IInv /\ [Next]_vars => [Kept]_vars
  <2> SUFFICES ASSUME IInv, Next, live', SomeActive(keys)
               PROVE  SomeActive(keys')
                        \/ \E r \in RequestIds : SwitchesOff(r)
    BY DEF SomeActive, SwitchesOff
  <2>1. CASE UNCHANGED tables
    BY <2>1 DEF tables, SomeActive
  <2>2. ASSUME NEW r \in RequestIds, NEW q, Arrive(r, q)
        PROVE  UNCHANGED tables
    BY <2>2 DEF Arrive
  <2>3. ASSUME NEW r \in RequestIds, Decides(r) PROVE UNCHANGED tables
    BY <2>3, DecidesKeeps DEF IInv
  <2>4. ASSUME NEW r \in RequestIds, WritesKeys(r)
        PROVE  SomeActive(keys') \/ SwitchesOff(r)
    BY <2>4, KeysKeep DEF IInv
  <2>5. ASSUME NEW r \in RequestIds, Write(r), ~ WritesKeys(r)
        PROVE  SomeActive(keys')
    BY <2>5, KeysUntouched DEF Write, SomeActive
  <2> QED
    BY <2>1, <2>2, <2>3, <2>4, <2>5, StepCases DEF Next
<1>2. [][Kept]_vars => ActiveKeyKept
  BY PTL DEF ActiveKeyKept
<1> HIDE DEF Kept
<1> QED
  BY <1>1, <1>2, InductiveInvariant, PTL DEF Spec

-----------------------------------------------------------------------------
(***************************************************************************)
(* The limits.                                                             *)
(*                                                                         *)
(* A creation has had a rival for each attempt it has lost (NeverAhead), and*)
(* one more when it is about to insert a slug that is taken (Outrun), which *)
(* is what ConflictNeedsRivals says of the step.  LimitUnlessRacing is not  *)
(* about the stored rules alone: rules that have been counted for and not   *)
(* been inserted count as stored (Held).  RulesWellFormed needs that a      *)
(* request at its write has validated what it is going to write (Validated).*)
(***************************************************************************)

\* Where a creation can be.
Phased ==
  \A r \in RequestIds :
    /\ Kind(r) = "createProject" => pc[r] \in {"check", "write"}
    /\ Kind(r) = "createAlertRule" => pc[r] \in {"check", "count", "write"}

IsLocal(x) == DOMAIN x = {"try", "lost", "rule"} /\ x.lost \in Nat

LocalType ==
  /\ local = [r \in RequestIds |-> local[r]]
  /\ \A r \in RequestIds : IsLocal(local[r])
  /\ rivals \in [RequestIds -> Nat]

NeverAhead == \A r \in RequestIds : local[r].lost <= rivals[r]

Outrun ==
  \A r \in RequestIds :
    Writes(r, "createProject") /\ local[r].try \in slugs
      => local[r].lost < rivals[r]

SlugInv == LocalType /\ NeverAhead /\ Outrun

\* The rules stored and those that will be.
Held == DOMAIN rules \cup CreatingRule

Answerable ==
  /\ DOMAIN rules \subseteq RowIds /\ racing \subseteq RequestIds
  /\ \A r \in RequestIds : r \in DOMAIN rules => pc[r] = "done"

Spare == Cardinality(Held) > RuleLimit
           => Cardinality(Held) < RuleLimit + Cardinality(racing)

RuleInv == Answerable /\ Spare

BInv == Control /\ Phased /\ SlugInv /\ RuleInv

-----------------------------------------------------------------------------
(* Sets of rows and of requests.                                           *)

LEMMA SmallSets ==
  /\ RuleLimit \in Nat
  /\ \A S : S \subseteq RequestIds =>
              IsFiniteSet(S) /\ Cardinality(S) \in Nat
  /\ \A S : S \subseteq RowIds =>
              IsFiniteSet(S) /\ Cardinality(S) \in Nat
<1>1. RuleLimit \in Nat /\ MaxRequests \in Nat
  BY WorkspaceAssumption
<1>2. IsFiniteSet(RequestIds) /\ IsFiniteSet(RowIds)
  BY <1>1, FS_Interval DEF RequestIds, RowIds
<1> QED
  BY <1>1, <1>2, FS_Subset, FS_CardinalityType

LEMMA HeldRows ==
  ASSUME Answerable
  PROVE  Held \subseteq RowIds /\ CreatingRule \subseteq RequestIds
<1>1. RequestIds \subseteq RowIds
  BY WorkspaceAssumption DEF RequestIds, RowIds
<1> QED
  BY <1>1 DEF Answerable, Held, CreatingRule, InFlight

\* Fewer rules held, and no fewer that raced.
LEMMA SpareKept ==
  ASSUME Answerable, Spare, Held' \subseteq Held, racing' = racing
  PROVE  Spare'
<1>1. Held \subseteq RowIds /\ Held' \subseteq RowIds
  BY HeldRows
<1>2. Cardinality(Held') <= Cardinality(Held)
  BY <1>1, SmallSets, FS_Subset
<1>3. /\ Cardinality(Held) \in Nat /\ Cardinality(Held') \in Nat
      /\ Cardinality(racing) \in Nat /\ RuleLimit \in Nat
  BY <1>1, SmallSets DEF Answerable
<1> QED
  BY <1>2, <1>3 DEF Spare

-----------------------------------------------------------------------------
(* Steps that end a request and insert no slug, and steps that take one on. *)

LEMMA BInit == Init => BInv
<1> SUFFICES ASSUME Init PROVE BInv
  OBVIOUS
<1>1. Control
  BY DEF Init, Control, Labels
<1>2. Phased /\ CreatingRule = {} /\ Outrun
  BY DEF Init, Phased, Kind, CreatingRule, InFlight, Outrun, Writes
<1>3. LocalType /\ NeverAhead
  BY DEF Init, LocalType, IsLocal, NoLocal, NeverAhead
<1>4. DOMAIN rules = {} /\ racing = {}
  BY DEF Init
<1>5. Held = {}
  BY <1>2, <1>4 DEF Held
<1> QED
  BY <1>1, <1>2, <1>3, <1>4, <1>5, SmallSets, FS_EmptySet
     DEF BInv, SlugInv, RuleInv, Answerable, Spare

LEMMA EndedKeeps ==
  ASSUME BInv, NEW r \in RequestIds, Answered(r),
         rivals' = [rivals EXCEPT ![r] = 0], slugs' \subseteq slugs,
         racing' = racing,
         DOMAIN rules' \subseteq
           DOMAIN rules \cup (IF r \in CreatingRule THEN {r} ELSE {})
  PROVE  BInv'
<1> USE DEF BInv
<1>1. Control'
  BY DEF Control, Answered, Labels
<1>2. /\ \A s \in RequestIds : s # r =>
           pc'[s] = pc[s] /\ req'[s] = req[s] /\ local'[s] = local[s]
      /\ pc'[r] = "done" /\ req'[r] = NoRequest /\ local'[r] = NoLocal
  BY DEF Control, Answered, SlugInv, LocalType
<1>3. /\ \A s \in RequestIds : s # r => rivals'[s] = rivals[s]
      /\ rivals'[r] = 0 /\ rivals' \in [RequestIds -> Nat]
  BY DEF SlugInv, LocalType
<1>4. Phased'
  BY <1>2 DEF Phased, Kind
<1>5. LocalType'
  <2>1. local' = [s \in RequestIds |-> local'[s]]
    BY DEF SlugInv, LocalType, Answered
  <2>2. IsLocal(NoLocal)
    BY DEF IsLocal, NoLocal
  <2>3. \A s \in RequestIds : IsLocal(local'[s])
    BY <1>2, <2>2 DEF SlugInv, LocalType
  <2> QED
    BY <1>3, <2>1, <2>3 DEF LocalType, IsLocal
<1>6. NeverAhead' /\ Outrun'
  BY <1>2, <1>3 DEF SlugInv, NeverAhead, Outrun, NoLocal, Writes, Kind
<1>7. CreatingRule' \subseteq CreatingRule /\ r \notin CreatingRule'
  BY <1>2 DEF CreatingRule, InFlight, Writes, Kind
<1>8. Answerable'
  BY <1>2, HeldRows DEF RuleInv, Answerable, Held
<1>9. Held' \subseteq Held
  BY <1>7 DEF Held
<1> QED
  BY <1>1, <1>4, <1>5, <1>6, <1>8, <1>9, SpareKept DEF SlugInv, RuleInv

LEMMA WentKeeps ==
  ASSUME BInv, NEW r \in RequestIds, NEW label \in Labels, Goto(r, label),
         UNCHANGED <<rules, slugs, rivals, racing>>,
         pc[r] # "done", Kind(r) # "createProject",
         Kind(r) = "createAlertRule" => label = "count",
         \A s \in RequestIds :
           Kind(s) = "createProject" => local'[s] = local[s],
         local' = [s \in RequestIds |-> local'[s]],
         \A s \in RequestIds :
           IsLocal(local'[s]) /\ local'[s].lost = local[s].lost
  PROVE  BInv'
<1> USE DEF BInv
<1>1. Control'
  BY DEF Control, Goto
<1>2. /\ \A s \in RequestIds : s # r => pc'[s] = pc[s]
      /\ pc'[r] = label /\ req' = req
  BY DEF Control, Goto
<1>3. Phased'
  BY <1>2 DEF Phased, Kind
<1>4. LocalType'
  BY DEF SlugInv, LocalType, IsLocal
<1>5. NeverAhead' /\ Outrun'
  BY <1>2 DEF SlugInv, NeverAhead, Outrun, Writes, Kind
<1>6. CreatingRule' \subseteq CreatingRule
  BY <1>2 DEF CreatingRule, InFlight, Writes, Kind
<1>7. Answerable'
  BY <1>2 DEF RuleInv, Answerable
<1>8. Held' \subseteq Held
  BY <1>6 DEF Held
<1> QED
  BY <1>1, <1>3, <1>4, <1>5, <1>7, <1>8, SpareKept DEF SlugInv, RuleInv

LEMMA RejectKeeps ==
  ASSUME BInv, NEW r \in RequestIds, Reject(r) PROVE BInv'
BY EndedKeeps DEF Reject, Forget, tables

LEMMA ArrivalKeeps ==
  ASSUME BInv, NEW r \in RequestIds, NEW q \in Requests, Arrive(r, q)
  PROVE  BInv'
<1> USE DEF BInv
<1>1. Control'
  BY DEF Control, Arrive, Labels
<1>2. /\ \A s \in RequestIds : s # r => pc'[s] = pc[s] /\ req'[s] = req[s]
      /\ pc[r] = "new" /\ pc'[r] = "check"
      /\ UNCHANGED <<rules, slugs, local, rivals, racing>>
  BY DEF Control, Arrive, tables
<1>3. Phased'
  BY <1>2 DEF Phased, Kind
<1>4. LocalType'
  BY <1>2 DEF SlugInv, LocalType, IsLocal
<1>5. NeverAhead' /\ Outrun'
  BY <1>2 DEF SlugInv, NeverAhead, Outrun, Writes, Kind
<1>6. CreatingRule' \subseteq CreatingRule
  BY <1>2 DEF CreatingRule, InFlight, Writes, Kind
<1>7. Answerable'
  BY <1>2 DEF RuleInv, Answerable
<1>8. Held' \subseteq Held
  BY <1>2, <1>6 DEF Held
<1> QED
  BY <1>1, <1>2, <1>3, <1>4, <1>5, <1>7, <1>8, SpareKept
     DEF SlugInv, RuleInv

-----------------------------------------------------------------------------
(* The statements that only decide.                                        *)

\* A request goes on and keeps its local variables.
Passes(r, label) == Goto(r, label) /\ UNCHANGED <<tables, local, checking>>

LEMMA PassKeeps ==
  ASSUME BInv, NEW r \in RequestIds, NEW label \in Labels, Passes(r, label),
         pc[r] # "done", Kind(r) # "createProject",
         Kind(r) = "createAlertRule" => label = "count"
  PROVE  BInv'
<1>1. UNCHANGED <<rules, slugs, rivals, racing, local>>
  BY DEF Passes, tables, checking
<1>2. Goto(r, label)
  BY DEF Passes
<1>3. /\ local' = [s \in RequestIds |-> local'[s]]
      /\ \A s \in RequestIds :
           /\ local'[s] = local[s]
           /\ IsLocal(local'[s]) /\ local'[s].lost = local[s].lost
  BY <1>1 DEF BInv, SlugInv, LocalType, IsLocal
<1> QED
  BY <1>1, <1>2, <1>3, WentKeeps

LEMMA CheckingKeeps ==
  ASSUME BInv, NEW r \in RequestIds, NEW kinds, NEW allowed,
         NEW label \in Labels, Check(r, kinds, allowed, label),
         "createProject" \notin kinds,
         "createAlertRule" \in kinds /\ Kind(r) = "createAlertRule"
           => label = "count"
  PROVE  BInv'
<1>1. pc[r] = "check" /\ Kind(r) \in kinds
  BY DEF Check
<1>2. CASE Passes(r, label)
  BY <1>1, <1>2, PassKeeps
<1>3. CASE Reject(r)
  BY <1>3, RejectKeeps
<1> QED
  BY <1>2, <1>3 DEF Check, Passes

\* The checks that Check describes.
Permits(r) ==
  \/ EnsureProjectAdmin(r) \/ GetAdminProject(r) \/ EnsureFounder(r)
  \/ EnsureOwnedProject(r) \/ EnsureOwnedIssue(r)

LEMMA PermitsKeep ==
  ASSUME BInv, NEW r \in RequestIds, Permits(r) PROVE BInv'
<1> USE DEF Labels
<1>1. CASE EnsureProjectAdmin(r)
  BY <1>1, CheckingKeeps DEF EnsureProjectAdmin
<1>2. CASE GetAdminProject(r)
  BY <1>2, CheckingKeeps DEF GetAdminProject
<1>3. CASE EnsureFounder(r)
  BY <1>3, CheckingKeeps DEF EnsureFounder
<1>4. CASE EnsureOwnedProject(r)
  <2> DEFINE label == IF Kind(r) = "createAlertRule" THEN "count" ELSE "write"
             kinds == {"createAlertRule", "deleteAlertRule"}
  <2>1. Check(r, kinds, IsMember(req[r].caller), label)
    BY <1>4 DEF EnsureOwnedProject
  <2>2. label \in Labels /\ "createProject" \notin kinds
        /\ (Kind(r) = "createAlertRule" => label = "count")
    OBVIOUS
  <2> HIDE DEF label, kinds
  <2> QED
    BY <2>1, <2>2, CheckingKeeps
<1>5. CASE EnsureOwnedIssue(r)
  <2> DEFINE kinds == {"setIssueAssignee", "createIssueComment",
                       "deleteIssueComment"}
             label ==
               CASE Kind(r) = "setIssueAssignee" /\ req[r].user # NoUser ->
                      "member"
                 [] Kind(r) = "deleteIssueComment" -> "comment"
                 [] OTHER -> "write"
  <2>1. Check(r, kinds, IsMember(req[r].caller), label)
    BY <1>5 DEF EnsureOwnedIssue
  <2>2. label \in Labels /\ {"createProject", "createAlertRule"} \cap kinds = {}
    OBVIOUS
  <2> HIDE DEF label, kinds
  <2> QED
    BY <2>1, <2>2, CheckingKeeps
<1> QED
  BY <1>1, <1>2, <1>3, <1>4, <1>5 DEF Permits

\* The reads that follow a check.
Looks(r) ==
  \/ GetOwnedProject(r) \/ GetOwnedProjectKey(r)
  \/ ReadAssignee(r) \/ ReadComment(r) \/ Moderate(r)

LEMMA LooksKeep ==
  ASSUME BInv, NEW r \in RequestIds, Looks(r) PROVE BInv'
<1>1. pc[r] \in {"project", "keyProject", "key", "member", "comment",
                 "moderate"}
  BY DEF Looks, GetOwnedProject, GetOwnedProjectKey, ReadAssignee,
         ReadComment, Moderate
<1>2. Kind(r) \notin {"createProject", "createAlertRule"}
  BY <1>1 DEF BInv, Phased
<1>3. ASSUME NEW label \in Labels, Passes(r, label) PROVE BInv'
  BY <1>1, <1>2, <1>3, PassKeeps
<1>4. CASE Reject(r)
  BY <1>4, RejectKeeps
<1> QED
  BY <1>3, <1>4
     DEF Looks, GetOwnedProject, GetOwnedProjectKey, ReadAssignee,
         ReadComment, Moderate, Passes, Labels

LEMMA ReadRuleKeeps ==
  ASSUME BInv, NEW r \in RequestIds, ReadAlertRule(r) PROVE BInv'
<1>1. CASE Reject(r)
  BY <1>1, RejectKeeps
<1>2. ASSUME NEW merged,
             local' = [local EXCEPT ![r].rule = merged], Goto(r, "write"),
             UNCHANGED <<tables, checking>>
      PROVE  BInv'
  <2>1. Kind(r) = "updateAlertRule" /\ pc[r] = "check" /\ "write" \in Labels
    BY DEF ReadAlertRule, Labels
  <2>2. UNCHANGED <<rules, slugs, rivals, racing>>
    BY <1>2 DEF tables, checking
  <2>3. /\ local' = [s \in RequestIds |-> local'[s]]
        /\ \A s \in RequestIds : s # r => local'[s] = local[s]
        /\ local'[r] = [local[r] EXCEPT !.rule = merged]
    BY <1>2 DEF BInv, SlugInv, LocalType
  <2>4. IsLocal(local'[r]) /\ local'[r].lost = local[r].lost
    BY <2>3 DEF BInv, SlugInv, LocalType, IsLocal
  <2>5. \A s \in RequestIds :
          IsLocal(local'[s]) /\ local'[s].lost = local[s].lost
    BY <2>3, <2>4 DEF BInv, SlugInv, LocalType
  <2>6. \A s \in RequestIds :
          Kind(s) = "createProject" => local'[s] = local[s]
    BY <2>1, <2>3
  <2> QED
    BY <1>2, <2>1, <2>2, <2>3, <2>5, <2>6, WentKeeps
<1> QED
  BY <1>1, <1>2 DEF ReadAlertRule

-----------------------------------------------------------------------------
(* The count of rules.                                                     *)

LEMMA CountKeeps ==
  ASSUME BInv, NEW r \in RequestIds, CountAlertRules(r) PROVE BInv'
<1>1. CASE Reject(r)
  BY <1>1, RejectKeeps
<1>2. CASE /\ UnderLimit /\ Goto(r, "write")
           /\ racing' = IF CreatingRule = {} THEN racing
                        ELSE racing \cup CreatingRule \cup {r}
           /\ UNCHANGED <<tables, local, standing, rivals>>
  <2> USE DEF BInv
  <2>1. Control'
    BY <1>2 DEF Control, Goto, Labels
  <2>2. /\ \A s \in RequestIds : s # r => pc'[s] = pc[s]
        /\ pc'[r] = "write" /\ req' = req /\ pc[r] = "count"
        /\ UNCHANGED <<rules, slugs, local, rivals>>
    BY <1>2 DEF Control, Goto, CountAlertRules, tables
  <2>3. Phased'
    BY <2>2 DEF Phased, Kind
  <2>4. LocalType'
    BY <2>2 DEF SlugInv, LocalType, IsLocal
  <2>5. NeverAhead' /\ Outrun'
    BY <2>2 DEF SlugInv, NeverAhead, Outrun, Writes, Kind, Phased
  <2>6. CreatingRule' \subseteq CreatingRule \cup {r}
    BY <2>2 DEF CreatingRule, InFlight, Writes, Kind
  <2>7. CreatingRule \subseteq RequestIds /\ Held \subseteq RowIds
    BY HeldRows DEF RuleInv
  <2>8. Answerable'
    BY <1>2, <2>2, <2>7 DEF RuleInv, Answerable
  <2>9. Spare'
    <3> DEFINE N == Cardinality(Held')
               stored == Cardinality(DOMAIN rules)
               new == CreatingRule \cup {r}
    <3>1. Held' \subseteq DOMAIN rules \cup new
      BY <2>2, <2>6 DEF Held
    <3>2. /\ IsFiniteSet(DOMAIN rules) /\ stored \in Nat
          /\ IsFiniteSet(new) /\ Cardinality(new) \in Nat
          /\ RuleLimit \in Nat /\ stored < RuleLimit
      BY <1>2, <2>7, SmallSets DEF RuleInv, Answerable, UnderLimit
    <3>3. /\ IsFiniteSet(Held') /\ N \in Nat
          /\ N <= stored + Cardinality(new)
      <4>1. /\ IsFiniteSet(DOMAIN rules \cup new)
            /\ Cardinality(DOMAIN rules \cup new) =
                 stored + Cardinality(new) - Cardinality(DOMAIN rules \cap new)
        BY <3>2, FS_Union
      <4>2. Cardinality(DOMAIN rules \cap new) \in Nat
        BY <3>2, FS_Subset, FS_CardinalityType
      <4>3. /\ IsFiniteSet(Held')
            /\ N <= Cardinality(DOMAIN rules \cup new)
        BY <3>1, <4>1, FS_Subset
      <4>4. N \in Nat
        BY <4>3, FS_CardinalityType
      <4> QED
        BY <3>2, <4>1, <4>2, <4>3, <4>4
    <3>4. Cardinality(racing') \in Nat
      BY <2>8, SmallSets DEF Answerable
    <3>5. CASE CreatingRule = {}
      <4>1. Cardinality(new) = 1
        BY <3>5, FS_Singleton
      <4>2. N <= RuleLimit
        BY <3>2, <3>3, <4>1
      <4> QED
        BY <3>2, <3>3, <4>2 DEF Spare
    <3>6. CASE CreatingRule # {}
      <4>1. new \subseteq racing' /\ IsFiniteSet(racing')
        BY <1>2, <2>8, <3>6, SmallSets DEF Answerable
      <4>2. Cardinality(new) <= Cardinality(racing')
        BY <4>1, FS_Subset
      <4>3. N < RuleLimit + Cardinality(racing')
        BY <3>2, <3>3, <3>4, <4>2
      <4>4. RuleLimit' = RuleLimit
        OBVIOUS
      <4> QED
        BY <4>3, <4>4 DEF Spare
    <3> QED
      BY <3>5, <3>6
  <2> QED
    BY <2>1, <2>3, <2>4, <2>5, <2>8, <2>9 DEF SlugInv, RuleInv
<1> QED
  BY <1>1, <1>2 DEF CountAlertRules
-----------------------------------------------------------------------------
(* The slugs.                                                              *)

\* A step of the loop of createProject or getUniqueSlug, which has the next
\* slug tried, or one attempt lost when a rival has taken the slug.
LEMMA LoopKeeps ==
  ASSUME BInv, NEW r \in RequestIds, NEW label \in Labels, NEW loc,
         Kind(r) = "createProject", pc[r] \in {"check", "write"},
         label \in {"check", "write"},
         pc' = [pc EXCEPT ![r] = label], UNCHANGED <<req, tables, checking>>,
         local' = [local EXCEPT ![r] = loc], IsLocal(loc),
         loc.lost <= rivals[r], label = "write" => loc.try \notin slugs
  PROVE  BInv'
<1> USE DEF BInv
<1>1. Control'
  BY DEF Control
<1>2. /\ \A s \in RequestIds : s # r =>
           pc'[s] = pc[s] /\ local'[s] = local[s]
      /\ pc'[r] = label /\ local'[r] = loc
      /\ UNCHANGED <<req, rules, slugs, rivals, racing>>
  BY DEF Control, SlugInv, LocalType, tables, checking
<1>3. Phased'
  BY <1>2 DEF Phased, Kind
<1>4. LocalType'
  <2>1. local' = [s \in RequestIds |-> local'[s]]
    BY DEF SlugInv, LocalType
  <2>2. \A s \in RequestIds : IsLocal(local'[s])
    BY <1>2 DEF SlugInv, LocalType
  <2> QED
    BY <1>2, <2>1, <2>2 DEF SlugInv, LocalType, IsLocal
<1>5. NeverAhead' /\ Outrun'
  BY <1>2 DEF SlugInv, NeverAhead, Outrun, Writes, Kind
<1>6. CreatingRule' \subseteq CreatingRule
  BY <1>2 DEF CreatingRule, InFlight, Writes, Kind
<1>7. Answerable'
  BY <1>2 DEF RuleInv, Answerable
<1>8. Held' \subseteq Held
  BY <1>2, <1>6 DEF Held
<1> QED
  BY <1>1, <1>2, <1>3, <1>4, <1>5, <1>7, <1>8, SpareKept
     DEF SlugInv, RuleInv

LEMMA LookUpKeeps ==
  ASSUME BInv, NEW r \in RequestIds, LookUpSlug(r) PROVE BInv'
<1> USE DEF Labels
<1>1. /\ Kind(r) = "createProject" /\ pc[r] = "check"
      /\ IsLocal(local[r]) /\ local[r].lost <= rivals[r]
      /\ local = [s \in RequestIds |-> local[s]]
  BY DEF LookUpSlug, BInv, SlugInv, LocalType, NeverAhead
<1>2. CASE /\ local' = [local EXCEPT ![r].try = local[r].try + 1]
           /\ UNCHANGED <<pc, req, tables, checking>>
  <2> DEFINE loc == [local[r] EXCEPT !.try = local[r].try + 1]
  <2>1. IsLocal(loc) /\ loc.lost = local[r].lost
    BY <1>1 DEF IsLocal
  <2>2. local' = [local EXCEPT ![r] = loc]
    BY <1>2
  <2>3. pc' = [pc EXCEPT ![r] = "check"]
    BY <1>1, <1>2 DEF BInv, Control
  <2> HIDE DEF loc
  <2> QED
    BY <1>1, <1>2, <2>1, <2>2, <2>3, LoopKeeps
<1>3. CASE /\ IsFree(local[r].try) /\ Goto(r, "write")
           /\ UNCHANGED <<tables, local, checking>>
  <2>1. local' = [local EXCEPT ![r] = local[r]]
    BY <1>1, <1>3
  <2> QED
    BY <1>1, <1>3, <2>1, LoopKeeps DEF IsFree, Goto
<1> QED
  BY <1>2, <1>3 DEF LookUpSlug

LEMMA ConflictKeeps ==
  ASSUME BInv, NEW r \in RequestIds, SlugConflict(r) PROVE BInv'
<1> DEFINE lost == local[r].lost + 1
           loc == [NoLocal EXCEPT !.lost = lost]
<1>1. CASE Reject(r)
  BY <1>1, RejectKeeps
<1>2. CASE /\ local' = [local EXCEPT ![r] = loc]
           /\ Goto(r, "check") /\ UNCHANGED <<tables, checking>>
  <2>1. Kind(r) = "createProject" /\ pc[r] = "write"
    BY DEF SlugConflict, Writes
  <2>2. local[r].lost \in Nat /\ rivals[r] \in Nat
        /\ local[r].lost < rivals[r]
    BY DEF SlugConflict, BInv, SlugInv, LocalType, IsLocal, Outrun
  <2>3. IsLocal(loc) /\ loc.lost <= rivals[r]
    BY <2>2 DEF IsLocal, NoLocal
  <2> HIDE DEF loc
  <2> QED
    BY <1>2, <2>1, <2>3, LoopKeeps DEF Goto, Labels
<1> QED
  BY <1>1, <1>2 DEF SlugConflict

\* The one write that makes slugs scarcer tells every rival.
LEMMA CreateKeeps ==
  ASSUME BInv, NEW r \in RequestIds, CreateProject(r) PROVE BInv'
<1> USE DEF BInv
<1>1. Control'
  BY DEF CreateProject, Control, Answered, Labels
<1>2. /\ \A s \in RequestIds : s # r =>
           pc'[s] = pc[s] /\ req'[s] = req[s] /\ local'[s] = local[s]
      /\ pc'[r] = "done" /\ req'[r] = NoRequest /\ local'[r] = NoLocal
      /\ UNCHANGED <<rules, racing>>
  BY DEF CreateProject, Control, Answered, SlugInv, LocalType
<1>3. /\ rivals' \in [RequestIds -> Nat] /\ rivals'[r] = 0
      /\ \A s \in RequestIds : s # r =>
           /\ rivals'[s] >= rivals[s]
           /\ Kind(s) = "createProject" => rivals'[s] = rivals[s] + 1
  BY DEF CreateProject, SlugInv, LocalType
<1>4. Phased'
  BY <1>2 DEF Phased, Kind
<1>5. LocalType'
  <2>1. local' = [s \in RequestIds |-> local'[s]]
    BY DEF SlugInv, LocalType, CreateProject, Answered
  <2>2. IsLocal(NoLocal)
    BY DEF IsLocal, NoLocal
  <2>3. \A s \in RequestIds : IsLocal(local'[s])
    BY <1>2, <2>2 DEF SlugInv, LocalType
  <2> QED
    BY <1>3, <2>1, <2>3 DEF LocalType, IsLocal
<1>6. \A s \in RequestIds :
        local[s].lost \in Nat /\ rivals[s] \in Nat
          /\ local[s].lost <= rivals[s]
  BY DEF SlugInv, LocalType, IsLocal, NeverAhead
<1>7. NeverAhead' /\ Outrun'
  BY <1>2, <1>3, <1>6 DEF NeverAhead, Outrun, NoLocal, Writes, Kind
<1>8. CreatingRule' \subseteq CreatingRule
  BY <1>2 DEF CreatingRule, InFlight, Writes, Kind
<1>9. Answerable'
  BY <1>2 DEF RuleInv, Answerable
<1>10. Held' \subseteq Held
  BY <1>2, <1>8 DEF Held
<1> QED
  BY <1>1, <1>2, <1>4, <1>5, <1>7, <1>9, <1>10, SpareKept
     DEF SlugInv, RuleInv

-----------------------------------------------------------------------------
(* The other writes.                                                       *)

\* What each of them leaves of the limits.
Ends(r) ==
  /\ Answered(r) /\ rivals' = [rivals EXCEPT ![r] = 0]
  /\ slugs' \subseteq slugs /\ racing' = racing

LEMMA RejectEnds ==
  ASSUME NEW r \in RequestIds, NEW kind, NEW found, RowLost(r, kind, found)
  PROVE  Ends(r) /\ UNCHANGED rules
BY DEF RowLost, Reject, Forget, Ends, tables

LEMMA OthersEnd ==
  ASSUME NEW r \in RequestIds,
         \/ WritesRoles(r) \/ WritesKeys(r) \/ UpdateProject(r)
         \/ SetIssueAssignee(r) \/ CreateIssueComment(r)
         \/ DeleteIssueComment(r)
  PROVE  Ends(r) /\ UNCHANGED rules
<1> USE RejectEnds
<1>1. CASE WritesRoles(r)
  BY <1>1 DEF WritesRoles, AddMember, UpdateMemberRole, RemoveMember,
              RolesBecome, Witness, Ends
<1>2. CASE WritesKeys(r)
  BY <1>2 DEF WritesKeys, CreateProjectKey, RotateProjectKey,
              UpdateProjectKey, KeysBecome, Forget, Ends
<1>3. CASE UpdateProject(r)
  BY <1>3 DEF UpdateProject, Forget, Ends
<1>4. CASE SetIssueAssignee(r) \/ CreateIssueComment(r) \/ DeleteIssueComment(r)
  BY <1>4 DEF SetIssueAssignee, CreateIssueComment, DeleteIssueComment,
              IssueBecomes, Forget, Ends
<1> QED
  BY <1>1, <1>2, <1>3, <1>4

LEMMA RulesEnd ==
  ASSUME NEW r \in RequestIds,
         \/ CreateAlertRule(r) \/ UpdateAlertRule(r) \/ DeleteAlertRule(r)
         \/ DeleteProject(r)
  PROVE  /\ Ends(r)
         /\ DOMAIN rules' \subseteq
              DOMAIN rules \cup (IF r \in CreatingRule THEN {r} ELSE {})
<1> USE RejectEnds
<1>1. CASE CreateAlertRule(r)
  <2>1. CASE RowLost(r, "createAlertRule", live)
    BY <2>1
  <2>2. CASE /\ Writes(r, "createAlertRule")
             /\ RulesBecome(r, WithRow(rules, r,
                  Normalized(Merged(NoRow, ParsedInput(req[r].body)))))
    <3>1. r \in CreatingRule
      BY <2>2 DEF CreatingRule, InFlight, Writes
    <3>2. DOMAIN rules' = DOMAIN rules \cup {r}
      BY <2>2 DEF RulesBecome, WithRow
    <3> QED
      BY <2>2, <3>1, <3>2 DEF RulesBecome, Forget, Ends
  <2> QED
    BY <1>1, <2>1, <2>2 DEF CreateAlertRule
<1>2. CASE UpdateAlertRule(r)
  BY <1>2 DEF UpdateAlertRule, RulesBecome, Forget, Ends
<1>3. CASE DeleteAlertRule(r)
  BY <1>3 DEF DeleteAlertRule, RulesBecome, Forget, Ends
<1>4. CASE DeleteProject(r)
  BY <1>4 DEF DeleteProject, Witness, Ends
<1> QED
  BY <1>1, <1>2, <1>3, <1>4

LEMMA WriteKeeps ==
  ASSUME BInv, NEW r \in RequestIds, Write(r) PROVE BInv'
<1>1. CASE CreateProject(r)
  BY <1>1, CreateKeeps
<1>2. CASE ~ CreateProject(r)
  <2>1. Ends(r) /\ DOMAIN rules' \subseteq
          DOMAIN rules \cup (IF r \in CreatingRule THEN {r} ELSE {})
    BY <1>2, OthersEnd, RulesEnd DEF Write, WritesElse
  <2> QED
    BY <2>1, EndedKeeps DEF Ends
<1> QED
  BY <1>1, <1>2

LEMMA BNext == BInv /\ [Next]_vars => BInv'
<1> SUFFICES ASSUME BInv, [Next]_vars PROVE BInv'
  OBVIOUS
<1>1. CASE UNCHANGED vars
  BY <1>1
     DEF vars, tables, checking, BInv, Control, Phased, Kind, SlugInv,
         LocalType, IsLocal, NeverAhead, Outrun, Writes, RuleInv,
         Answerable, Spare, Held, CreatingRule, InFlight
<1>2. ASSUME NEW r \in RequestIds, NEW q \in Requests, Arrive(r, q)
      PROVE  BInv'
  BY <1>2, ArrivalKeeps
<1>3. ASSUME NEW r \in RequestIds, Decides(r) PROVE BInv'
  BY <1>3, PermitsKeep, LooksKeep, ReadRuleKeeps, CountKeeps, LookUpKeeps,
     ConflictKeeps DEF Decides, Permits, Looks
<1>4. ASSUME NEW r \in RequestIds, Write(r) PROVE BInv'
  BY <1>4, WriteKeeps
<1> QED
  BY <1>1, <1>2, <1>3, <1>4, StepCases DEF Next

THEOREM BoundsInvariant == Spec => []BInv
BY BInit, BNext, PTL DEF Spec

-----------------------------------------------------------------------------
\* The rules of a project exceed their limit only by creations that overlapped
\* and by fewer than there were of those, whatever the limit
\* (alert-rules/service.ts:219).
THEOREM LimitHoldsUnlessRacing == Spec => []LimitUnlessRacing
<1>1. ASSUME BInv PROVE LimitUnlessRacing
  <2>1. Answerable /\ Spare
    BY <1>1 DEF BInv, RuleInv
  <2>2. DOMAIN rules \subseteq Held /\ Held \subseteq RowIds
    BY <2>1, HeldRows DEF Held
  <2>3. Cardinality(DOMAIN rules) <= Cardinality(Held)
    BY <2>2, SmallSets, FS_Subset
  <2>4. /\ Cardinality(Held) \in Nat /\ Cardinality(DOMAIN rules) \in Nat
        /\ Cardinality(racing) \in Nat /\ RuleLimit \in Nat
    BY <2>1, <2>2, SmallSets DEF Answerable
  <2> QED
    BY <2>1, <2>3, <2>4 DEF Spare, LimitUnlessRacing
<1> QED
  BY <1>1, BoundsInvariant, PTL

-----------------------------------------------------------------------------
(* The shape of rules.                                                     *)

\* Clearing the columns a condition does not use keeps a valid rule valid, and
\* clearing them again changes nothing (parseMergedAlertRule).
LEMMA NormalizedIsWellFormed ==
  ASSUME NEW rule, ValidShape(rule) PROVE WellFormed(Normalized(rule))
<1> DEFINE condition == rule["condition"]
           kept == {"channel", "target", "condition", "isActive"}
                     \cup ThresholdColumns(condition)
                     \cup SpikeColumns(condition)
                     \cup CooldownColumns(condition)
           n == Normalized(rule)
<1>1. n = [c \in Columns |-> IF c \in kept THEN rule[c] ELSE NoValue]
  BY DEF Normalized
<1>2. "condition" \in Columns /\ "condition" \in kept
  BY DEF Columns
<1>3. n["condition"] = condition
  BY <1>1, <1>2
<1>4. Normalized(n) = [c \in Columns |-> IF c \in kept THEN n[c] ELSE NoValue]
  BY <1>3 DEF Normalized
<1>5. \A c \in Columns : c \in kept => n[c] = rule[c]
  BY <1>1
<1>6. Normalized(n) = n
  <2>1. \A c \in Columns : (IF c \in kept THEN n[c] ELSE NoValue) = n[c]
    BY <1>1
  <2>2. n = [c \in Columns |-> n[c]]
    BY <1>1
  <2> HIDE DEF n, kept
  <2> QED
    BY <1>4, <2>1, <2>2
<1>7. n["target"] = rule["target"] /\ n["channel"] = rule["channel"]
  BY <1>5 DEF Columns
<1>8. condition = "event_threshold" =>
        /\ n["threshold"] = rule["threshold"]
        /\ n["windowMinutes"] = rule["windowMinutes"]
  BY <1>5 DEF Columns, ThresholdColumns, Measured
<1>9. condition = "event_spike" =>
        /\ n["windowMinutes"] = rule["windowMinutes"]
        /\ n["baselineMinutes"] = rule["baselineMinutes"]
        /\ n["spikeMultiplier"] = rule["spikeMultiplier"]
        /\ n["minEvents"] = rule["minEvents"]
  BY <1>5 DEF Columns, ThresholdColumns, SpikeColumns, Measured
<1>10. ValidShape(n)
  <2> HIDE DEF n, kept
  <2> QED
    BY <1>3, <1>7, <1>8, <1>9 DEF ValidShape
<1> QED
  BY <1>6, <1>10 DEF WellFormed

\* A patch keeps every column that it does not name, but for isActive, as long as
\* it does not change the condition; if it does, it may clear a column and no more
\* (service.ts:320-335).
THEOREM PatchKeepsOtherColumns ==
  ASSUME NEW row, WellFormed(row), NEW body,
         NEW c \in Columns \ (DOMAIN body \cup {"isActive"})
  PROVE  LET stored == Normalized(Merged(row, ParsedInput(body))) IN
         /\ stored[c] \in {row[c], NoValue}
         /\ \/ "condition" \notin DOMAIN body
            \/ body["condition"] = row["condition"]
            => stored[c] = row[c]
<1> DEFINE kept(condition) ==
             {"channel", "target", "condition", "isActive"}
               \cup ThresholdColumns(condition) \cup SpikeColumns(condition)
               \cup CooldownColumns(condition)
           parsed == ParsedInput(body)
           merged == Merged(row, parsed)
           stored == Normalized(merged)
<1>1. /\ DOMAIN parsed = DOMAIN body \cup {"isActive"}
      /\ \A d \in DOMAIN body : parsed[d] = body[d]
  BY DEF ParsedInput
<1> HIDE DEF parsed
<1>2. merged = [d \in Columns |-> IF d \in DOMAIN parsed
                                  THEN parsed[d] ELSE row[d]]
  BY DEF Merged
<1>3. merged[c] = row[c]
  BY <1>1, <1>2
<1>4. "condition" \in Columns /\ "condition" # "isActive"
  BY DEF Columns
<1>5. merged["condition"] =
        IF "condition" \in DOMAIN body THEN body["condition"]
                                       ELSE row["condition"]
  BY <1>1, <1>2, <1>4
<1>6. stored[c] = IF c \in kept(merged["condition"]) THEN merged[c]
                                                     ELSE NoValue
  BY DEF Normalized
\* A well-formed row has no value in a column that its condition does not use.
<1>7. row[c] = IF c \in kept(row["condition"]) THEN row[c] ELSE NoValue
  <2>1. row = Normalized(row)
    BY DEF WellFormed
  <2>2. Normalized(row)[c] = IF c \in kept(row["condition"]) THEN row[c]
                                                             ELSE NoValue
    BY DEF Normalized
  <2> QED
    BY <2>1, <2>2
<1> HIDE DEF kept, merged, stored
<1>8. stored[c] \in {row[c], NoValue}
  BY <1>3, <1>6
<1>9. ASSUME \/ "condition" \notin DOMAIN body
             \/ body["condition"] = row["condition"]
      PROVE  stored[c] = row[c]
  <2>1. merged["condition"] = row["condition"]
    BY <1>5, <1>9
  <2> QED
    BY <1>3, <1>6, <1>7, <2>1
<1> QED
  BY <1>8, <1>9 DEF stored, merged, parsed

\* What a request about to write a rule has validated.
Validated(r) ==
  /\ Kind(r) = "updateAlertRule" =>
       /\ pc[r] \in {"check", "write"}
       /\ pc[r] = "write" => WellFormed(local[r].rule)
  /\ Writes(r, "createAlertRule") =>
       ValidShape(Merged(NoRow, ParsedInput(req[r].body)))

\* Stored rules are well-formed, and those about to be stored.
ShapeInv ==
  /\ RulesWellFormed
  /\ \A r \in RequestIds : Validated(r)

\* A step of one request leaves the others where they are.
LEMMA OthersStay ==
  ASSUME IInv, BInv, NEW r \in RequestIds,
         \/ \E q \in Requests : Arrive(r, q)
         \/ Decides(r) \/ Write(r),
         NEW s \in RequestIds, s # r
  PROVE  pc'[s] = pc[s] /\ req'[s] = req[s] /\ local'[s] = local[s]
<1> DEFINE Stays == pc'[s] = pc[s] /\ req'[s] = req[s] /\ local'[s] = local[s]
<1>1. /\ pc \in [RequestIds -> Labels]
      /\ req \in [RequestIds -> Requests \cup {NoRequest}]
      /\ local = [x \in RequestIds |-> local[x]]
  BY DEF BInv, Control, SlugInv, LocalType
<1>2. CASE \E q \in Requests : Arrive(r, q)
  BY <1>1, <1>2 DEF Arrive
<1>3. CASE Answered(r)
  BY <1>1, <1>3 DEF Answered
<1>4. ASSUME NEW label, Goto(r, label), NEW loc, local' = local
      PROVE  Stays
  BY <1>1, <1>4 DEF Goto
<1>5. ASSUME NEW kinds, NEW allowed, NEW label, Check(r, kinds, allowed, label)
      PROVE  Stays
  BY <1>3, <1>4, <1>5 DEF Check, Reject
<1>6. CASE Permits(r)
  BY <1>5, <1>6 DEF Permits, EnsureProjectAdmin, GetAdminProject,
     EnsureFounder, EnsureOwnedProject, EnsureOwnedIssue
<1>7. CASE Looks(r)
  BY <1>3, <1>4, <1>7 DEF Looks, GetOwnedProject, GetOwnedProjectKey,
     ReadAssignee, ReadComment, Moderate, Reject
<1>8. CASE CountAlertRules(r)
  BY <1>3, <1>4, <1>8 DEF CountAlertRules, Reject
<1>9. CASE ReadAlertRule(r) \/ SlugConflict(r) \/ LookUpSlug(r)
  BY <1>1, <1>3, <1>9 DEF ReadAlertRule, SlugConflict, LookUpSlug, Goto, Reject
<1>10. CASE Write(r)
  BY <1>3, <1>10, WriteAnswers
<1> QED
  BY <1>2, <1>6, <1>7, <1>8, <1>9, <1>10 DEF Decides, Permits, Looks

\* A request validates before it goes to its write.
LEMMA DecidesValidates ==
  ASSUME IInv, BInv, NEW r \in RequestIds, Validated(r), Decides(r)
  PROVE  Validated(r)'
<1> USE DEF BInv
<1>1. CASE Answered(r)
  <2>1. req'[r] = NoRequest
    BY <1>1 DEF Answered, Control
  <2> QED
    BY <2>1 DEF Validated, Writes, Kind
<1>2. ASSUME NEW label, Goto(r, label),
             Kind(r) # "updateAlertRule",
             Kind(r) = "createAlertRule" => label # "write"
      PROVE  Validated(r)'
  <2>1. pc'[r] = label /\ req'[r] = req[r]
    BY <1>2 DEF Goto, Control
  <2> QED
    BY <1>2, <2>1 DEF Validated, Writes, Kind
<1>3. ASSUME NEW kinds, NEW allowed, NEW label, Check(r, kinds, allowed, label),
             "updateAlertRule" \notin kinds,
             Kind(r) = "createAlertRule" => label # "write"
      PROVE  Validated(r)'
  BY <1>1, <1>2, <1>3 DEF Check, Reject
<1>4. CASE EnsureProjectAdmin(r) \/ GetAdminProject(r) \/ EnsureFounder(r)
  <2>1. Kind(r) \notin {"updateAlertRule", "createAlertRule"}
    BY <1>4 DEF EnsureProjectAdmin, GetAdminProject, EnsureFounder, Check
  <2> QED
    BY <1>3, <1>4, <2>1 DEF EnsureProjectAdmin, GetAdminProject, EnsureFounder
<1>5. CASE EnsureOwnedProject(r)
  BY <1>3, <1>5 DEF EnsureOwnedProject
<1>6. CASE EnsureOwnedIssue(r)
  <2>1. Kind(r) \notin {"updateAlertRule", "createAlertRule"}
    BY <1>6 DEF EnsureOwnedIssue, Check
  <2> QED
    BY <1>3, <1>6, <2>1 DEF EnsureOwnedIssue
<1>7. CASE Looks(r)
  <2>1. pc[r] \in {"project", "keyProject", "key", "member", "comment",
                   "moderate"}
    BY <1>7 DEF Looks, GetOwnedProject, GetOwnedProjectKey, ReadAssignee,
           ReadComment, Moderate
  <2>2. Kind(r) \notin {"updateAlertRule", "createAlertRule"}
    BY <2>1 DEF Validated, Phased
  <2> QED
    BY <1>1, <1>2, <1>7, <2>2 DEF Looks, GetOwnedProject, GetOwnedProjectKey,
       ReadAssignee, ReadComment, Moderate, Reject
<1>8. CASE CountAlertRules(r)
  <2>1. CASE Reject(r)
    BY <1>1, <2>1 DEF Reject
  <2>2. CASE Goto(r, "write")
             /\ ValidShape(Merged(NoRow, ParsedInput(req[r].body)))
    <3>1. pc'[r] = "write" /\ req'[r] = req[r]
      BY <2>2 DEF Goto, Control
    <3>2. Kind(r) # "updateAlertRule"
      BY <1>8 DEF CountAlertRules, Validated
    <3> QED
      BY <2>2, <3>1, <3>2 DEF Validated, Writes, Kind
  <2> QED
    BY <1>8, <2>1, <2>2 DEF CountAlertRules
<1>9. CASE ReadAlertRule(r)
  <2>1. CASE Reject(r)
    BY <1>1, <2>1 DEF Reject
  <2>2. ASSUME NEW merged, ValidShape(merged), Goto(r, "write"),
               local' = [local EXCEPT ![r].rule = Normalized(merged)],
               Kind(r) = "updateAlertRule"
        PROVE  Validated(r)'
    <3>1. pc'[r] = "write" /\ req'[r] = req[r]
      BY <2>2 DEF Goto, Control
    <3>2. local'[r].rule = Normalized(merged)
      <4>1. local'[r] = [local[r] EXCEPT !.rule = Normalized(merged)]
        BY <2>2 DEF SlugInv, LocalType
      <4> QED
        BY <4>1 DEF SlugInv, LocalType, IsLocal
    <3>3. WellFormed(Normalized(merged))
      BY <2>2, NormalizedIsWellFormed
    <3> QED
      BY <2>2, <3>1, <3>2, <3>3 DEF Validated, Writes, Kind
  <2> QED
    BY <1>9, <2>1, <2>2 DEF ReadAlertRule
<1>10. CASE LookUpSlug(r) \/ SlugConflict(r)
  <2>1. Kind(r) = "createProject"
    BY <1>10 DEF LookUpSlug, SlugConflict, Writes
  <2>2. req'[r] = req[r] \/ req'[r] = NoRequest
    BY <1>10 DEF LookUpSlug, SlugConflict, Goto, Reject, Answered, Control
  <2> QED
    BY <2>1, <2>2 DEF Validated, Writes, Kind
<1> QED
  BY <1>4, <1>5, <1>6, <1>7, <1>8, <1>9, <1>10 DEF Decides, Looks

\* What is written has been validated.
LEMMA WritesWellFormed ==
  ASSUME IInv, BInv, ShapeInv, NEW r \in RequestIds, Write(r)
  PROVE  RulesWellFormed'
<1>1. CASE UNCHANGED rules
  BY <1>1 DEF ShapeInv, RulesWellFormed
<1>2. ASSUME NEW kind, NEW found, RowLost(r, kind, found)
      PROVE  RulesWellFormed'
  BY <1>1, <1>2, RejectEnds
<1>3. CASE CreateAlertRule(r)
  <2>1. CASE /\ Writes(r, "createAlertRule")
             /\ RulesBecome(r, WithRow(rules, r,
                  Normalized(Merged(NoRow, ParsedInput(req[r].body)))))
    <3>1. PICK row :
            row = Normalized(Merged(NoRow, ParsedInput(req[r].body)))
      OBVIOUS
    <3>2. WellFormed(row)
      BY <2>1, <3>1, NormalizedIsWellFormed DEF ShapeInv, Validated
    <3>3. rules' = [x \in DOMAIN rules \cup {r} |->
                      IF x = r THEN row ELSE rules[x]]
      BY <2>1, <3>1 DEF RulesBecome, WithRow
    <3>4. ASSUME NEW k \in DOMAIN rules' PROVE WellFormed(rules'[k])
      BY <3>2, <3>3 DEF ShapeInv, RulesWellFormed
    <3> QED
      BY <3>4 DEF RulesWellFormed
  <2> QED
    BY <1>2, <1>3, <2>1 DEF CreateAlertRule
<1>4. CASE UpdateAlertRule(r)
  <2>1. CASE /\ Writes(r, "updateAlertRule")
             /\ RulesBecome(r, [rules EXCEPT ![req[r].row] = WrittenRule(r)])
    <3>1. PICK row : row = WrittenRule(r)
      OBVIOUS
    <3>2. WellFormed(row)
      BY <2>1, <3>1 DEF ShapeInv, Validated, Writes, WrittenRule
    <3>3. rules' = [rules EXCEPT ![req[r].row] = row]
      BY <2>1, <3>1 DEF RulesBecome
    <3>4. DOMAIN rules' = DOMAIN rules
          /\ \A k \in DOMAIN rules : rules'[k] \in {row, rules[k]}
      BY <3>3
    <3> QED
      BY <3>2, <3>4 DEF ShapeInv, RulesWellFormed
  <2> QED
    BY <1>2, <1>4, <2>1 DEF UpdateAlertRule
<1>5. CASE DeleteAlertRule(r)
  <2>1. CASE RulesBecome(r, [k \in DOMAIN rules \ {req[r].row} |-> rules[k]])
    BY <2>1 DEF RulesBecome, ShapeInv, RulesWellFormed
  <2> QED
    BY <1>2, <1>5, <2>1 DEF DeleteAlertRule
<1>6. CASE DeleteProject(r)
  <2>1. CASE rules' = [k \in {} |-> NoRow]
    BY <2>1 DEF RulesWellFormed
  <2> QED
    BY <1>2, <1>6, <2>1 DEF DeleteProject
<1>7. CASE CreateProject(r)
  BY <1>1, <1>7 DEF CreateProject
<1> QED
  BY <1>1, <1>3, <1>4, <1>5, <1>6, <1>7, OthersEnd DEF Write, WritesElse

\* Every step keeps the stored rules and those about to be stored well-formed.
LEMMA ShapeNext == IInv /\ BInv /\ ShapeInv /\ [Next]_vars => ShapeInv'
<1> SUFFICES ASSUME IInv, BInv, ShapeInv, [Next]_vars PROVE ShapeInv'
  OBVIOUS
<1>1. CASE UNCHANGED vars
  BY <1>1 DEF vars, tables, checking, ShapeInv, RulesWellFormed, Validated,
              Kind, Writes
<1>2. ASSUME NEW r \in RequestIds, NEW s \in RequestIds, s # r,
             pc'[s] = pc[s] /\ req'[s] = req[s] /\ local'[s] = local[s]
      PROVE  Validated(s)'
  BY <1>2 DEF ShapeInv, Validated, Kind, Writes
<1>3. ASSUME NEW r \in RequestIds, NEW q \in Requests, Arrive(r, q)
      PROVE  ShapeInv'
  <2>1. pc'[r] = "check" /\ UNCHANGED rules
    BY <1>3 DEF Arrive, BInv, Control, tables
  <2>2. Validated(r)'
    BY <2>1 DEF Validated, Writes
  <2>3. \A s \in RequestIds : Validated(s)'
    BY <1>2, <1>3, <2>2, OthersStay
  <2> QED
    BY <2>1, <2>3 DEF ShapeInv, RulesWellFormed
<1>4. ASSUME NEW r \in RequestIds, Decides(r) PROVE ShapeInv'
  <2>1. UNCHANGED rules
    BY <1>4, DecidesKeeps DEF IInv, tables
  <2>2. Validated(r)'
    BY <1>4, DecidesValidates DEF ShapeInv
  <2>3. \A s \in RequestIds : Validated(s)'
    BY <1>2, <1>4, <2>2, OthersStay
  <2> QED
    BY <2>1, <2>3 DEF ShapeInv, RulesWellFormed
<1>5. ASSUME NEW r \in RequestIds, Write(r) PROVE ShapeInv'
  <2>1. req'[r] = NoRequest
    BY <1>5, WriteAnswers DEF Answered, BInv, Control
  <2>2. Validated(r)'
    BY <2>1 DEF Validated, Writes, Kind
  <2>3. \A s \in RequestIds : Validated(s)'
    BY <1>2, <1>5, <2>2, OthersStay
  <2> QED
    BY <1>5, <2>3, WritesWellFormed DEF ShapeInv
<1> QED
  BY <1>1, <1>3, <1>4, <1>5, StepCases DEF Next

LEMMA ShapeInvariant == Spec => []ShapeInv
<1>1. Init => ShapeInv
  BY DEF Init, ShapeInv, RulesWellFormed, Validated, Kind, Writes
<1> QED
  BY <1>1, ShapeNext, InductiveInvariant, BoundsInvariant, PTL DEF Spec

\* Every stored rule has passed validation as a whole, whatever bodies and
\* patches occur and however they overlap (alert-rules/service.ts:129-345): a
\* patch writes the row it was merged with and checked against, never a mixture.
THEOREM RulesStayWellFormed == Spec => []RulesWellFormed
<1>1. ShapeInv => RulesWellFormed
  BY DEF ShapeInv
<1> QED
  BY <1>1, ShapeInvariant, PTL

-----------------------------------------------------------------------------
(* The attempts to create a project.                                       *)

\* A creation about to insert a slug that is taken can only lose the attempt.
LEMMA TakenSlugConflicts ==
  ASSUME NEW r \in RequestIds, Decides(r) \/ Write(r),
         Writes(r, "createProject"), local[r].try \in slugs
  PROVE  SlugConflict(r)
<1>1. pc[r] = "write" /\ Kind(r) = "createProject"
  BY DEF Writes
<1>2. ASSUME NEW kind, NEW found, RowLost(r, kind, found)
      PROVE  kind = "createProject"
  BY <1>1, <1>2 DEF RowLost, Writes
<1>3. CASE Decides(r)
  BY <1>1, <1>3
     DEF Decides, Check, EnsureProjectAdmin, GetAdminProject, GetOwnedProject,
         GetOwnedProjectKey, EnsureFounder, EnsureOwnedProject,
         CountAlertRules, ReadAlertRule, EnsureOwnedIssue, ReadAssignee,
         ReadComment, Moderate, LookUpSlug
<1>4. CASE Write(r)
  <2>1. ~ CreateProject(r)
    BY DEF CreateProject
  <2> QED
    BY <1>1, <1>2, <1>4, <2>1
       DEF Write, WritesRoles, WritesKeys, WritesElse, Writes,
           AddMember, UpdateMemberRole, RemoveMember, CreateProjectKey,
           RotateProjectKey, UpdateProjectKey, UpdateProject, CreateAlertRule,
           UpdateAlertRule, DeleteAlertRule, SetIssueAssignee,
           CreateIssueComment, DeleteIssueComment, DeleteProject
<1> QED
  BY <1>3, <1>4

\* A creation loses each attempt at a slug, the last one included, to another
\* creation, whatever the number of slugs and of attempts: alone it never
\* answers 409, and with fewer than MaxAttempts rivals neither
\* (projects/service.ts:221-273).
THEOREM ConflictsNeedRivals == Spec => ConflictNeedsRivals
<1> DEFINE Beaten ==
      \A r \in RequestIds :
        Writes(r, "createProject") /\ local[r].try \in slugs =>
          /\ pc'[r] = "check" => rivals[r] > local[r].lost
          /\ pc'[r] = "done" => rivals[r] >= MaxAttempts
<1>1. IInv /\ BInv /\ [Next]_vars => [Beaten]_vars
  <2> SUFFICES ASSUME IInv, BInv, Next, NEW r \in RequestIds,
                      Writes(r, "createProject"), local[r].try \in slugs
               PROVE  /\ pc'[r] = "check" => rivals[r] > local[r].lost
                      /\ pc'[r] = "done" => rivals[r] >= MaxAttempts
    OBVIOUS
  <2>1. pc[r] = "write" /\ pc \in [RequestIds -> Labels]
    BY DEF Writes, BInv, Control
  <2>2. local[r].lost \in Nat /\ rivals[r] \in Nat /\ local[r].lost < rivals[r]
    BY DEF BInv, SlugInv, LocalType, IsLocal, Outrun
  <2>3. PICK s \in RequestIds : (\E q \in Requests : Arrive(s, q)) \/ Step(s)
    BY DEF Next
  <2>4. CASE s # r
    <3>1. pc'[r] = pc[r]
      BY <2>3, <2>4, OthersStay, StepCases
    <3> QED
      BY <2>1, <3>1
  <2>5. CASE s = r
    <3>1. SlugConflict(r)
      BY <2>1, <2>3, <2>5, StepCases, TakenSlugConflicts DEF Arrive
    <3>2. CASE Goto(r, "check")
      BY <2>1, <2>2, <3>2 DEF Goto
    <3>3. CASE local[r].lost + 1 = Attempts /\ Reject(r)
      BY <2>1, <2>2, <3>3, WorkspaceAssumption DEF Attempts, Reject, Answered
    <3> QED
      BY <3>1, <3>2, <3>3 DEF SlugConflict
  <2> QED
    BY <2>4, <2>5
<1>2. [][Beaten]_vars => ConflictNeedsRivals
  BY PTL DEF ConflictNeedsRivals
<1> HIDE DEF Beaten
<1> QED
  BY <1>1, <1>2, InductiveInvariant, BoundsInvariant, PTL DEF Spec

-----------------------------------------------------------------------------
(***************************************************************************)
(* Who may write.                                                          *)
(*                                                                         *)
(* The invariant says at each statement of a request which of its checks    *)
(* it has passed (Allowed).  What it has passed stays true because the      *)
(* roles seen since it arrived only grow (Witnessed), and because the       *)
(* author of a comment that is found never changes (Own).                   *)
(***************************************************************************)

AdminKinds ==
  {"addMember", "updateMemberRole", "removeMember", "updateProject",
   "createProjectKey", "rotateProjectKey", "updateProjectKey"}

Belongs(r) == Had(r, req[r].caller, {"member", "owner"})
Manages(r) == Had(r, req[r].caller, {"owner"})

\* The comment is the caller's own, and its row not to be written any more.
Own(r) ==
  /\ req[r].row \in DOMAIN comments => comments[req[r].row] = req[r].caller
  /\ req[r].row \in RequestIds => pc[req[r].row] = "done"

Allowed(r, label) ==
  \/ label = "check"
  \/ /\ req[r].kind \in AdminKinds /\ Manages(r)
     /\ label \in {"project", "keyProject", "key", "write"}
  \/ req[r].kind = "createProject" /\ label = "write"
  \/ /\ req[r].kind = "deleteProject" /\ label = "write"
     /\ req[r].caller = Founder /\ Belongs(r)
  \/ /\ req[r].kind = "createAlertRule" /\ label \in {"count", "write"}
     /\ Belongs(r)
  \/ /\ req[r].kind \in {"updateAlertRule", "deleteAlertRule",
                         "createIssueComment"}
     /\ label = "write" /\ Belongs(r)
  \/ /\ req[r].kind = "setIssueAssignee" /\ Belongs(r)
     /\ \/ label = "member" /\ req[r].user # NoUser
        \/ /\ label = "write"
           /\ req[r].user # NoUser =>
                Had(r, req[r].user, {"member", "owner"})
  \/ /\ req[r].kind = "deleteIssueComment" /\ Belongs(r)
     /\ \/ label \in {"comment", "moderate"}
        \/ label = "write" /\ (Own(r) \/ Manages(r))

Witnessed == \A r \in InFlight, u \in Users : role[u] \in standing[r][u]

Written ==
  \A k \in RequestIds : k \in DOMAIN comments => pc[k] = "done"

AInv ==
  /\ IInv
  /\ DOMAIN standing = RequestIds
  /\ Witnessed /\ Written
  /\ \A r \in InFlight : req[r] # NoRequest /\ Allowed(r, pc[r])

-----------------------------------------------------------------------------
(* What a request finds of a user is among the roles it has seen.          *)

LEMMA RequestType ==
  ASSUME AInv, NEW r \in InFlight
  PROVE  /\ req[r] \in Requests /\ req[r].caller \in Users
         /\ Kind(r) = req[r].kind
         /\ req[r].kind = "setIssueAssignee" =>
              req[r].user \in Users \cup {NoUser}
<1>1. r \in RequestIds /\ req[r] # NoRequest
  BY DEF AInv, InFlight
<1>2. req[r] \in Requests
  BY <1>1 DEF AInv, IInv, Control
<1> QED
  BY <1>1, <1>2
     DEF Requests, MemberRequests, ProjectRequests, RuleRequests,
         IssueRequests, Kind

LEMMA SeesRole ==
  ASSUME AInv, NEW r \in InFlight, NEW u \in Users
  PROVE  /\ role[u] = "owner" => Had(r, u, {"owner"})
         /\ role[u] # "none" => Had(r, u, {"member", "owner"})
<1>1. role[u] \in standing[r][u] /\ role[u] \in Roles
  BY DEF AInv, IInv, Witnessed
<1> QED
  BY <1>1 DEF Had, Roles

LEMMA AInit == Init => AInv
<1> SUFFICES ASSUME Init PROVE AInv
  OBVIOUS
<1>1. InFlight = {}
  BY DEF Init, InFlight
<1>2. Written /\ DOMAIN standing = RequestIds
  BY DEF Init, Written, RequestIds
<1> QED
  BY <1>1, <1>2, InitInv DEF AInv, Witnessed

-----------------------------------------------------------------------------
(* A step of one request, as the others see it.                            *)

Aside(r) ==
  /\ \A s \in RequestIds : s # r => pc'[s] = pc[s] /\ req'[s] = req[s]
  /\ pc[r] # "done" /\ DOMAIN standing' = RequestIds
  /\ \A s \in InFlight, u \in Users :
       s # r => /\ standing[s][u] \subseteq standing'[s][u]
                /\ role'[u] \in standing'[s][u]
  /\ DOMAIN comments' \subseteq
       DOMAIN comments \cup (IF pc'[r] = "done" THEN {r} ELSE {})
  /\ \A k \in DOMAIN comments \cap DOMAIN comments' :
       comments'[k] = comments[k] \/ k = r

\* What the others have passed they have passed.
LEMMA OthersKeep ==
  ASSUME AInv, NEW r \in RequestIds, Aside(r), NEW s \in InFlight, s # r
  PROVE  Allowed(s, pc[s])'
<1>1. /\ s \in RequestIds /\ Allowed(s, pc[s])
      /\ pc'[s] = pc[s] /\ req'[s] = req[s]
  BY DEF AInv, InFlight, Aside
<1>2. \A u \in Users : \A roles : Had(s, u, roles) => Had(s, u, roles)'
  BY DEF Aside, Had
<1>3. req[s].caller \in Users
      /\ (req[s].kind = "setIssueAssignee" =>
            req[s].user \in Users \cup {NoUser})
  BY RequestType
<1>4. (Belongs(s) => Belongs(s)') /\ (Manages(s) => Manages(s)')
  BY <1>1, <1>2, <1>3 DEF Belongs, Manages
<1>5. Own(s) => Own(s)'
  BY <1>1 DEF Own, Aside
<1>6. req[s].kind = "setIssueAssignee" /\ req[s].user # NoUser
        /\ Had(s, req[s].user, {"member", "owner"})
        => Had(s, req[s].user, {"member", "owner"})'
  BY <1>1, <1>2, <1>3
<1> QED
  BY <1>1, <1>4, <1>5, <1>6 DEF Allowed

LEMMA AsideKeeps ==
  ASSUME AInv, IInv', NEW r \in RequestIds, Aside(r),
         r \in InFlight' =>
           /\ req'[r] # NoRequest /\ Allowed(r, pc[r])'
           /\ \A u \in Users : role'[u] \in standing'[r][u]
  PROVE  AInv'
<1>1. \A s \in InFlight' : s # r => s \in InFlight
  BY DEF InFlight, Aside
<1>2. Witnessed'
  BY <1>1 DEF Witnessed, Aside
<1>3. Written'
  BY DEF AInv, Written, Aside
<1>4. \A s \in InFlight' : req'[s] # NoRequest /\ Allowed(s, pc[s])'
  <2> TAKE s \in InFlight'
  <2>1. CASE s = r
    BY <2>1
  <2>2. CASE s # r
    BY <1>1, <2>2, OthersKeep DEF AInv, Aside, InFlight
  <2> QED
    BY <2>1, <2>2
<1> QED
  BY <1>2, <1>3, <1>4 DEF AInv, Aside

\* A request goes on to a statement that its checks so far allow.
LEMMA OnKeeps ==
  ASSUME AInv, IInv', NEW r \in InFlight, NEW label, Goto(r, label),
         UNCHANGED <<role, comments, standing>>, Allowed(r, label)
  PROVE  AInv'
<1>1. /\ r \in RequestIds /\ pc[r] # "done" /\ req[r] # NoRequest
      /\ pc \in [RequestIds -> Labels]
  BY DEF AInv, InFlight, IInv, Control
<1>2. /\ \A s \in RequestIds : s # r => pc'[s] = pc[s]
      /\ pc'[r] = label /\ req' = req
  BY <1>1 DEF Goto
<1>3. Aside(r)
  BY <1>1, <1>2 DEF Aside, AInv, Witnessed
<1>4. Allowed(r, pc[r])'
  <2>1. (Belongs(r) => Belongs(r)') /\ (Manages(r) => Manages(r)')
    BY <1>2 DEF Belongs, Manages, Had
  <2>2. Own(r) => Own(r)'
    BY <1>1, <1>2 DEF Own
  <2>3. Had(r, req[r].user, {"member", "owner"})
          => Had(r, req[r].user, {"member", "owner"})'
    BY <1>2 DEF Had
  <2> QED
    BY <1>2, <2>1, <2>2, <2>3 DEF Allowed
<1>5. \A u \in Users : role'[u] \in standing'[r][u]
  BY DEF AInv, Witnessed
<1> QED
  BY <1>1, <1>2, <1>3, <1>4, <1>5, AsideKeeps

\* A request ends; the roles are as they were, or the others are told.
LEMMA EndKeeps ==
  ASSUME AInv, IInv', NEW r \in InFlight, Answered(r),
         \/ role' = role /\ standing' = [standing EXCEPT ![r] = NoStanding]
         \/ Witness(r),
         DOMAIN comments' \subseteq DOMAIN comments \cup {r},
         \A k \in DOMAIN comments \cap DOMAIN comments' :
           comments'[k] = comments[k] \/ k = r
  PROVE  AInv'
<1>1. r \in RequestIds /\ pc[r] # "done" /\ pc \in [RequestIds -> Labels]
  BY DEF AInv, InFlight, IInv, Control
<1>2. /\ \A s \in RequestIds : s # r => pc'[s] = pc[s] /\ req'[s] = req[s]
      /\ pc'[r] = "done"
  BY <1>1 DEF Answered, AInv, IInv, Control
<1>3. DOMAIN standing' = RequestIds
  BY DEF Witness, AInv
<1>4. \A s \in InFlight, u \in Users :
        s # r => /\ standing[s][u] \subseteq standing'[s][u]
                 /\ role'[u] \in standing'[s][u]
  <2>1. CASE role' = role /\ standing' = [standing EXCEPT ![r] = NoStanding]
    BY <2>1 DEF AInv, Witnessed, InFlight
  <2>2. CASE Witness(r)
    BY <2>2 DEF Witness, InFlight
  <2> QED
    BY <2>1, <2>2
<1>5. Aside(r)
  BY <1>1, <1>2, <1>3, <1>4 DEF Aside
<1>6. r \notin InFlight'
  BY <1>2 DEF InFlight
<1> QED
  BY <1>1, <1>5, <1>6, AsideKeeps

LEMMA TurnedAway ==
  ASSUME AInv, IInv', NEW r \in InFlight, Reject(r) PROVE AInv'
BY EndKeeps DEF Reject, Forget, tables

LEMMA Arrives ==
  ASSUME AInv, IInv', NEW r \in RequestIds, NEW q \in Requests, Arrive(r, q)
  PROVE  AInv'
<1>1. /\ \A s \in RequestIds : s # r => pc'[s] = pc[s] /\ req'[s] = req[s]
      /\ pc[r] = "new" /\ pc'[r] = "check" /\ req'[r] = q
      /\ UNCHANGED <<role, comments>>
  BY DEF Arrive, AInv, IInv, Control, tables
<1>2. /\ \A s \in RequestIds : s # r => standing'[s] = standing[s]
      /\ standing'[r] = [u \in Users |-> {role[u]}]
      /\ DOMAIN standing' = RequestIds
  BY DEF Arrive, AInv
<1>3. Aside(r)
  BY <1>1, <1>2 DEF Aside, AInv, Witnessed, InFlight
<1>4. Allowed(r, pc[r])'
  BY <1>1 DEF Allowed
<1> QED
  BY <1>1, <1>2, <1>3, <1>4, AsideKeeps, NoRequestAssumption
-----------------------------------------------------------------------------
(* The statements that decide: a request passes one only with what it asks  *)
(* for.                                                                    *)

LEMMA CheckKeepsAccess ==
  ASSUME AInv, IInv', NEW r \in InFlight, NEW kinds, NEW allowed, NEW label,
         Check(r, kinds, allowed, label),
         allowed /\ Kind(r) \in kinds => Allowed(r, label)
  PROVE  AInv'
BY OnKeeps, TurnedAway DEF Check, tables, checking

\* Statements of the routes that check the role of the caller first.
LEMMA ChecksKeepAccess ==
  ASSUME AInv, IInv', NEW r \in InFlight,
         \/ EnsureProjectAdmin(r) \/ GetAdminProject(r) \/ EnsureFounder(r)
         \/ EnsureOwnedProject(r) \/ EnsureOwnedIssue(r)
  PROVE  AInv'
<1>1. req[r].caller \in Users /\ Kind(r) = req[r].kind
  BY RequestType
<1>2. /\ role[req[r].caller] = "owner" => Manages(r)
      /\ IsMember(req[r].caller) => Belongs(r)
  BY <1>1, SeesRole DEF Manages, Belongs, IsMember
<1>3. CASE EnsureProjectAdmin(r)
  <2> DEFINE allowed ==
        IsAdmin(req[r].caller) /\ ProtectsFounder(req[r])
      kinds == {"addMember", "updateMemberRole", "removeMember"}
  <2>1. Check(r, kinds, allowed, "write")
    BY <1>3 DEF EnsureProjectAdmin
  <2>2. allowed /\ Kind(r) \in kinds => Allowed(r, "write")
    BY <1>1, <1>2 DEF IsAdmin, Allowed, AdminKinds
  <2> HIDE DEF allowed, kinds
  <2> QED
    BY <2>1, <2>2, CheckKeepsAccess
<1>4. CASE GetAdminProject(r)
  <2> DEFINE allowed == role[req[r].caller] = "owner"
             kinds == {"updateProject", "createProjectKey",
                       "rotateProjectKey", "updateProjectKey"}
  <2>1. Check(r, kinds, allowed, "project")
    BY <1>4 DEF GetAdminProject
  <2>2. allowed /\ Kind(r) \in kinds => Allowed(r, "project")
    BY <1>1, <1>2 DEF Allowed, AdminKinds
  <2> HIDE DEF allowed, kinds
  <2> QED
    BY <2>1, <2>2, CheckKeepsAccess
<1>5. CASE EnsureFounder(r)
  <2> DEFINE allowed == IsMember(req[r].caller) /\ req[r].caller = Founder
  <2>1. Check(r, {"deleteProject"}, allowed, "write")
    BY <1>5 DEF EnsureFounder
  <2>2. allowed /\ Kind(r) \in {"deleteProject"} => Allowed(r, "write")
    BY <1>1, <1>2 DEF Allowed
  <2> HIDE DEF allowed
  <2> QED
    BY <2>1, <2>2, CheckKeepsAccess
<1>6. CASE EnsureOwnedProject(r)
  <2> DEFINE allowed == IsMember(req[r].caller)
             kinds == {"createAlertRule", "deleteAlertRule"}
             label == IF Kind(r) = "createAlertRule" THEN "count" ELSE "write"
  <2>1. Check(r, kinds, allowed, label)
    BY <1>6 DEF EnsureOwnedProject
  <2>2. allowed /\ Kind(r) \in kinds => Allowed(r, label)
    BY <1>1, <1>2 DEF Allowed
  <2> HIDE DEF allowed, kinds, label
  <2> QED
    BY <2>1, <2>2, CheckKeepsAccess
<1>7. CASE EnsureOwnedIssue(r)
  <2> DEFINE allowed == IsMember(req[r].caller)
             kinds == {"setIssueAssignee", "createIssueComment",
                       "deleteIssueComment"}
             label ==
               CASE Kind(r) = "setIssueAssignee" /\ req[r].user # NoUser ->
                      "member"
                 [] Kind(r) = "deleteIssueComment" -> "comment"
                 [] OTHER -> "write"
  <2>1. Check(r, kinds, allowed, label)
    BY <1>7 DEF EnsureOwnedIssue
  <2>2. allowed /\ Kind(r) \in kinds => Allowed(r, label)
    <3>1. CASE req[r].kind = "setIssueAssignee" /\ req[r].user # NoUser
      BY <1>1, <1>2, <3>1 DEF Allowed
    <3>2. CASE req[r].kind = "setIssueAssignee" /\ req[r].user = NoUser
      BY <1>1, <1>2, <3>2 DEF Allowed
    <3>3. CASE req[r].kind = "deleteIssueComment"
      BY <1>1, <1>2, <3>3 DEF Allowed
    <3>4. CASE req[r].kind = "createIssueComment"
      BY <1>1, <1>2, <3>4 DEF Allowed
    <3> QED
      BY <1>1, <3>1, <3>2, <3>3, <3>4
  <2> HIDE DEF allowed, kinds, label
  <2> QED
    BY <2>1, <2>2, CheckKeepsAccess
<1> QED
  BY <1>3, <1>4, <1>5, <1>6, <1>7

\* The statements after it.
LEMMA DecidesKeepsAccess ==
  ASSUME AInv, IInv', NEW r \in InFlight, Decides(r)
  PROVE  AInv'
<1> DEFINE Quiet == UNCHANGED <<role, comments, standing>>
           Onward == \E label : Goto(r, label) /\ Quiet /\ Allowed(r, label)
<1>0. Onward => AInv'
  BY OnKeeps
<1>1. /\ req[r].caller \in Users /\ Kind(r) = req[r].kind
      /\ req[r].kind = "setIssueAssignee" =>
           req[r].user \in Users \cup {NoUser}
  BY RequestType
<1>2. /\ role[req[r].caller] = "owner" => Manages(r)
      /\ IsMember(req[r].caller) => Belongs(r)
  BY <1>1, SeesRole DEF Manages, Belongs, IsMember
<1>3. Allowed(r, pc[r]) /\ Written /\ r \in RequestIds
  BY DEF AInv, InFlight
<1>4. UNCHANGED <<tables, local, checking>> => Quiet
  BY DEF tables, checking
<1>5. CASE GetOwnedProject(r)
  <2>1. ASSUME NEW label \in {"key", "keyProject", "write"}
        PROVE  Allowed(r, label)
    BY <1>3, <1>5 DEF GetOwnedProject, Allowed
  <2>2. Onward \/ Reject(r)
    BY <1>4, <1>5, <2>1 DEF GetOwnedProject
  <2> QED
    BY <1>0, <2>2, TurnedAway
<1>6. CASE GetOwnedProjectKey(r)
  <2>1. Allowed(r, "write")
    BY <1>3, <1>6 DEF GetOwnedProjectKey, Allowed
  <2>2. Onward \/ Reject(r)
    BY <1>4, <1>6, <2>1 DEF GetOwnedProjectKey
  <2> QED
    BY <1>0, <2>2, TurnedAway
<1>7. CASE CountAlertRules(r)
  <2>1. Allowed(r, "write")
    BY <1>3, <1>7 DEF CountAlertRules, Allowed
  <2>2. Onward \/ Reject(r)
    BY <1>7, <2>1 DEF CountAlertRules, tables
  <2> QED
    BY <1>0, <2>2, TurnedAway
<1>8. CASE ReadAlertRule(r)
  <2>1. IsMember(req[r].caller) => Allowed(r, "write")
    BY <1>1, <1>2, <1>8 DEF ReadAlertRule, Allowed
  <2>2. Onward \/ Reject(r)
    BY <1>8, <2>1 DEF ReadAlertRule, tables, checking
  <2> QED
    BY <1>0, <2>2, TurnedAway
<1>9. CASE ReadAssignee(r)
  <2>1. req[r].kind = "setIssueAssignee" /\ Belongs(r) /\ req[r].user \in Users
    BY <1>1, <1>3, <1>9 DEF ReadAssignee, Allowed
  <2>2. role[req[r].user] # "none" => Allowed(r, "write")
    BY <2>1, SeesRole DEF Allowed
  <2>3. Onward \/ Reject(r)
    BY <1>4, <1>9, <2>2 DEF ReadAssignee
  <2> QED
    BY <1>0, <2>3, TurnedAway
<1>10. CASE ReadComment(r)
  <2>1. req[r].kind = "deleteIssueComment" /\ Belongs(r)
    BY <1>3, <1>10 DEF ReadComment, Allowed
  <2>2. req[r].row \in DOMAIN comments /\ comments[req[r].row] = req[r].caller
          => Allowed(r, "write")
    BY <1>3, <2>1 DEF Allowed, Own, Written
  <2>3. Allowed(r, "moderate")
    BY <2>1 DEF Allowed
  <2>4. Onward \/ Reject(r)
    BY <1>4, <1>10, <2>2, <2>3 DEF ReadComment
  <2> QED
    BY <1>0, <2>4, TurnedAway
<1>11. CASE Moderate(r)
  <2>1. role[req[r].caller] = "owner" => Allowed(r, "write")
    BY <1>2, <1>3, <1>11 DEF Moderate, Allowed
  <2>2. Onward \/ Reject(r)
    BY <1>4, <1>11, <2>1 DEF Moderate
  <2> QED
    BY <1>0, <2>2, TurnedAway
<1>12. CASE LookUpSlug(r)
  <2>1. Allowed(r, "write") /\ Allowed(r, "check")
    BY <1>1, <1>12 DEF LookUpSlug, Allowed
  <2>2. CASE UNCHANGED <<pc, req, tables, checking>>
    <3>1. pc' = [pc EXCEPT ![r] = "check"]
      BY <1>3, <1>12, <2>2 DEF LookUpSlug, AInv, IInv, Control
    <3>2. Goto(r, "check") /\ Quiet
      BY <2>2, <3>1 DEF Goto, tables, checking
    <3> QED
      BY <1>0, <2>1, <3>2
  <2>3. CASE Goto(r, "write") /\ UNCHANGED <<tables, local, checking>>
    BY <1>0, <1>4, <2>1, <2>3
  <2> QED
    BY <1>12, <2>2, <2>3 DEF LookUpSlug
<1>13. CASE SlugConflict(r)
  <2>1. Allowed(r, "check")
    BY DEF Allowed
  <2>2. Onward \/ Reject(r)
    BY <1>13, <2>1 DEF SlugConflict, tables, checking
  <2> QED
    BY <1>0, <2>2, TurnedAway
<1> QED
  BY <1>5, <1>6, <1>7, <1>8, <1>9, <1>10, <1>11, <1>12, <1>13,
     ChecksKeepAccess DEF Decides
-----------------------------------------------------------------------------
(* The writes.                                                             *)

LEMMA WritesKeepAccess ==
  ASSUME AInv, IInv', NEW r \in InFlight, Write(r)
  PROVE  AInv'
<1>1. Answered(r)
  BY WriteAnswers DEF InFlight
<1>2. ASSUME NEW kind, NEW found, RowLost(r, kind, found) PROVE AInv'
  BY <1>2, TurnedAway DEF RowLost
<1>3. CASE WritesRoles(r)
  <2>1. ASSUME NEW newRole, RolesBecome(r, newRole) PROVE AInv'
    BY <1>1, <2>1, EndKeeps DEF RolesBecome
  <2> QED
    BY <1>2, <1>3, <2>1
       DEF WritesRoles, AddMember, UpdateMemberRole, RemoveMember
<1>4. CASE WritesKeys(r)
  <2>1. ASSUME NEW newKeys, KeysBecome(r, newKeys) PROVE AInv'
    BY <1>1, <2>1, EndKeeps DEF KeysBecome, Forget
  <2> QED
    BY <1>2, <1>4, <2>1
       DEF WritesKeys, CreateProjectKey, RotateProjectKey, UpdateProjectKey
<1>5. CASE DeleteProject(r)
  <2>1. CASE comments' = [k \in {} |-> Founder] /\ Witness(r)
    BY <1>1, <2>1, EndKeeps
  <2> QED
    BY <1>2, <1>5, <2>1 DEF DeleteProject
<1>6. CASE WritesElse(r)
  <2>1. CASE Forget(r) /\ UNCHANGED <<role, comments>>
    BY <1>1, <2>1, EndKeeps DEF Forget
  <2>2. CASE /\ role' = role /\ standing' = [standing EXCEPT ![r] = NoStanding]
             /\ comments' = WithRow(comments, r, req[r].caller)
    BY <1>1, <2>2, EndKeeps DEF WithRow
  <2>3. CASE /\ role' = role /\ standing' = [standing EXCEPT ![r] = NoStanding]
             /\ comments' = [k \in DOMAIN comments \ {req[r].row} |->
                              comments[k]]
    BY <1>1, <2>3, EndKeeps
  <2>4. CASE CreateProject(r)
    BY <1>1, <2>4, EndKeeps DEF CreateProject
  <2> QED
    BY <1>2, <1>6, <2>1, <2>2, <2>3, <2>4
       DEF WritesElse, UpdateProject, CreateAlertRule, UpdateAlertRule,
           DeleteAlertRule, SetIssueAssignee, CreateIssueComment,
           DeleteIssueComment, RulesBecome, IssueBecomes, Forget
<1> QED
  BY <1>3, <1>4, <1>5, <1>6 DEF Write

LEMMA StepInFlight ==
  ASSUME NEW r \in RequestIds, Step(r) PROVE r \in InFlight
<1>1. ASSUME NEW kind, NEW found, RowLost(r, kind, found)
      PROVE  r \in InFlight
  BY <1>1 DEF RowLost, Writes, InFlight
<1>2. CASE Decides(r)
  BY <1>2 DEF Decides, InFlight, Check, EnsureProjectAdmin, GetAdminProject,
              GetOwnedProject, GetOwnedProjectKey, EnsureFounder,
              EnsureOwnedProject, CountAlertRules, ReadAlertRule,
              EnsureOwnedIssue, ReadAssignee, ReadComment, Moderate,
              LookUpSlug, SlugConflict, Writes
<1>3. CASE Write(r)
  BY <1>1, <1>3
     DEF Write, WritesRoles, WritesKeys, WritesElse, InFlight, Writes,
         AddMember, UpdateMemberRole, RemoveMember, CreateProjectKey,
         RotateProjectKey, UpdateProjectKey, UpdateProject, CreateAlertRule,
         UpdateAlertRule, DeleteAlertRule, SetIssueAssignee,
         CreateIssueComment, DeleteIssueComment, CreateProject, DeleteProject
<1> QED
  BY <1>2, <1>3, StepCases

LEMMA ANext == AInv /\ [Next]_vars => AInv'
<1> SUFFICES ASSUME AInv, [Next]_vars PROVE AInv'
  OBVIOUS
<1>1. IInv'
  BY NextInv DEF AInv
<1>2. CASE UNCHANGED vars
  <2>1. UNCHANGED <<role, comments, standing, pc, req>>
    BY <1>2 DEF vars, tables, checking
  <2> QED
    BY <1>1, <2>1
       DEF AInv, Witnessed, Written, InFlight, Allowed, Belongs, Manages, Own,
           Had
<1>3. ASSUME NEW r \in RequestIds, NEW q \in Requests, Arrive(r, q)
      PROVE  AInv'
  BY <1>1, <1>3, Arrives
<1>4. ASSUME NEW r \in RequestIds, Step(r) PROVE AInv'
  BY <1>1, <1>4, StepCases, StepInFlight, DecidesKeepsAccess, WritesKeepAccess
<1> QED
  BY <1>2, <1>3, <1>4 DEF Next

-----------------------------------------------------------------------------
(* What is allowed at the write is what the property asks for.             *)

LEMMA AccessInvariant == Spec => []AInv
BY AInit, ANext, PTL DEF Spec

LEMMA AuthorizedAtWrite ==
  ASSUME AInv, NEW r \in InFlight, Write(r), pc[r] = "write",
         tables' # tables
  PROVE  Authorized(r)
<1>1. Kind(r) = req[r].kind
  BY RequestType
<1>2. Allowed(r, "write")
  BY DEF AInv
<1>3. req[r].kind = "deleteIssueComment" => req[r].row \in DOMAIN comments
  <2>1. ASSUME NEW kind, NEW found, RowLost(r, kind, found) PROVE FALSE
    BY <2>1, RowLostKeeps DEF InFlight
  <2> SUFFICES ASSUME Kind(r) = "deleteIssueComment"
               PROVE  req[r].row \in DOMAIN comments
    BY <1>1
  <2>2. DeleteIssueComment(r)
    BY <2>1
       DEF Write, WritesRoles, WritesKeys, WritesElse, Writes,
           AddMember, UpdateMemberRole, RemoveMember, CreateProjectKey,
           RotateProjectKey, UpdateProjectKey, UpdateProject,
           CreateAlertRule, UpdateAlertRule, DeleteAlertRule,
           SetIssueAssignee, CreateIssueComment, CreateProject, DeleteProject
  <2> QED
    BY <2>1, <2>2 DEF DeleteIssueComment
<1>4. CASE req[r].kind \in AdminKinds
  BY <1>2, <1>4 DEF Allowed, Authorized, AdminKinds, Manages
<1>5. CASE req[r].kind = "createProject"
  BY <1>5 DEF Authorized
<1>6. CASE req[r].kind = "deleteProject"
  BY <1>2, <1>6 DEF Allowed, Authorized, AdminKinds, Belongs
<1>7. CASE req[r].kind = "setIssueAssignee"
  BY <1>2, <1>7 DEF Allowed, Authorized, AdminKinds, Belongs
<1>8. CASE req[r].kind = "deleteIssueComment"
  BY <1>2, <1>3, <1>8 DEF Allowed, Authorized, AdminKinds, Belongs, Manages, Own
<1>9. CASE req[r].kind \in {"createAlertRule", "updateAlertRule",
                            "deleteAlertRule", "createIssueComment"}
  BY <1>2, <1>9 DEF Allowed, Authorized, AdminKinds, Belongs
<1> QED
  BY <1>2, <1>4, <1>5, <1>6, <1>7, <1>8, <1>9 DEF Allowed

\* For any number of users and of requests in flight, whatever a request
\* writes its caller, and the user it assigns, were allowed at some time
\* between its arrival and the write (ensureProjectAdmin, getAdminProject,
\* getOwnedProject, ensureOwnedIssue, deleteIssueComment): no sequence of
\* statements leads round a check.
THEOREM WritesAreAuthorized == Spec => OnlyAuthorizedWrites
<1> DEFINE Justified ==
      \A r \in RequestIds :
        (pc[r] = "write" /\ pc'[r] = "done" /\ tables' # tables)
          => Authorized(r)
<1>1. AInv /\ [Next]_vars => [Justified]_vars
  <2> SUFFICES ASSUME AInv, Next, NEW r \in RequestIds, pc[r] = "write",
                      pc'[r] = "done", tables' # tables
               PROVE  Authorized(r)
    OBVIOUS
  <2>1. IInv /\ pc \in [RequestIds -> Labels]
    BY DEF AInv, IInv, Control
  <2>2. ASSUME NEW s \in RequestIds, NEW q, Arrive(s, q) PROVE FALSE
    BY <2>2 DEF Arrive
  <2>3. ASSUME NEW s \in RequestIds, Decides(s) PROVE FALSE
    BY <2>1, <2>3, DecidesKeeps DEF IInv
  <2>4. ASSUME NEW s \in RequestIds, Step(s) PROVE s = r /\ Write(r)
    <3>1. Write(s) /\ Answered(s)
      BY <2>3, <2>4, StepCases, WriteAnswers
    <3>2. s = r
      BY <2>1, <3>1 DEF Answered
    <3> QED
      BY <3>1, <3>2
  <2>5. Write(r) /\ r \in InFlight
    BY <2>2, <2>4, StepInFlight DEF Next, InFlight
  <2> QED
    BY <2>5, AuthorizedAtWrite
<1>2. [][Justified]_vars => OnlyAuthorizedWrites
  BY PTL DEF OnlyAuthorizedWrites
<1> HIDE DEF Justified
<1> QED
  BY <1>1, <1>2, AccessInvariant, PTL DEF Spec

-----------------------------------------------------------------------------
(***************************************************************************)
(* Types.                                                                  *)
(*                                                                         *)
(* The roles, the requests and where they are come from IInv, the rows of   *)
(* rules from BInv and ShapeInv.  That a count of rivals stays below        *)
(* MaxRequests is not a matter of one step: each rival is a request that    *)
(* has been answered (Counted).                                            *)
(***************************************************************************)
TablesOK ==
  /\ live \in BOOLEAN /\ settings \in RowIds
  /\ DOMAIN keys \subseteq RowIds
  /\ \A k \in DOMAIN keys : keys[k] \in BOOLEAN
  /\ assignee \in Users \cup {NoUser}
  /\ DOMAIN comments \subseteq RowIds
  /\ \A k \in DOMAIN comments : comments[k] \in Users
  /\ slugs \subseteq 1 .. SlugTries

InLoop(x) == x.try \in 1 .. SlugTries + 1 /\ x.lost \in 0 .. MaxAttempts - 1

LocalsOK == \A r \in RequestIds : InLoop(local[r])

StandingOK == standing \in [RequestIds -> [Users -> SUBSET Roles]]

Ended == {r \in RequestIds : pc[r] = "done"}

Counted == \A r \in RequestIds : rivals[r] <= Cardinality(Ended)

TInv == TablesOK /\ LocalsOK /\ StandingOK /\ Counted /\ area \in Areas

LEMMA RowRange == RequestIds \subseteq RowIds /\ 0 \in RowIds
BY WorkspaceAssumption DEF RequestIds, RowIds

LEMMA TInit == Init => TInv
<1> SUFFICES ASSUME Init PROVE TInv
  OBVIOUS
<1>1. TablesOK
  BY RowRange, WorkspaceAssumption DEF Init, TablesOK
<1>2. LocalsOK
  BY WorkspaceAssumption DEF Init, LocalsOK, InLoop, NoLocal
<1>3. StandingOK
  BY DEF Init, StandingOK, NoStanding
<1>4. Ended = {} /\ \A r \in RequestIds : rivals[r] = 0
  BY DEF Init, Ended
<1> QED
  BY <1>1, <1>2, <1>3, <1>4, FS_EmptySet DEF TInv, Counted, Init

\* What a request names when it is written.
LEMMA Parameters ==
  ASSUME AInv, NEW r \in InFlight
  PROVE  /\ r \in RequestIds /\ r \in RowIds /\ req[r].caller \in Users
         /\ Writes(r, "setIssueAssignee") =>
              req[r].user \in Users \cup {NoUser}
         /\ Writes(r, "updateProjectKey") => req[r].isActive \in BOOLEAN
<1>1. r \in RequestIds /\ r \in RowIds
  BY RowRange DEF InFlight
<1>2. Writes(r, "updateProjectKey") => req[r].isActive \in BOOLEAN
  BY <1>1, KeyParameters DEF AInv, IInv
<1> QED
  BY <1>1, <1>2, RequestType DEF Writes

\* Each write keeps the tables in their types.
LEMMA TablesKeep ==
  ASSUME AInv, TablesOK, NEW r \in InFlight, Write(r)
  PROVE  TablesOK'
<1>1. CASE UNCHANGED tables
  BY <1>1 DEF tables, TablesOK
<1>2. ASSUME NEW kind, NEW found, RowLost(r, kind, found) PROVE TablesOK'
  BY <1>1, <1>2, RowLostKeeps, Parameters
<1>3. CASE WritesRoles(r)
  <2>1. ASSUME NEW newRole, RolesBecome(r, newRole) PROVE TablesOK'
    BY <2>1 DEF RolesBecome, TablesOK
  <2> QED
    BY <1>2, <1>3, <2>1
       DEF WritesRoles, AddMember, UpdateMemberRole, RemoveMember
<1>4. CASE WritesKeys(r)
  <2>1. ASSUME NEW newKeys, KeysBecome(r, newKeys),
               DOMAIN newKeys \subseteq RowIds,
               \A k \in DOMAIN newKeys : newKeys[k] \in BOOLEAN
        PROVE  TablesOK'
    BY <2>1 DEF KeysBecome, TablesOK
  <2>2. CASE KeysBecome(r, WithRow(keys, r, TRUE))
    <3>1. /\ DOMAIN WithRow(keys, r, TRUE) \subseteq RowIds
          /\ \A k \in DOMAIN WithRow(keys, r, TRUE) :
               WithRow(keys, r, TRUE)[k] \in BOOLEAN
      BY Parameters DEF WithRow, TablesOK
    <3> QED
      BY <2>1, <2>2, <3>1
  <2>3. ASSUME NEW k \in DOMAIN keys, KeysBecome(r, RotatedKeys(k, r))
        PROVE  TablesOK'
    <3> DEFINE new == RotatedKeys(k, r)
    <3>1. DOMAIN new = DOMAIN keys \cup {r}
      BY DEF RotatedKeys, WithRow
    <3>2. \A x \in DOMAIN new : new[x] \in BOOLEAN
      <4>1. ASSUME NEW x \in DOMAIN keys \cup {r} PROVE new[x] \in BOOLEAN
        <5>1. CASE x = r
          BY <5>1 DEF RotatedKeys, WithRow
        <5>2. CASE x # r
          <6>1. x \in DOMAIN keys /\ keys[x] \in BOOLEAN
            BY <5>2 DEF TablesOK
          <6>2. new[x] = [keys EXCEPT ![k] = FALSE][x]
            BY <5>2, <6>1 DEF RotatedKeys, WithRow
          <6> QED
            BY <6>1, <6>2
        <5> QED
          BY <5>1, <5>2
      <4> QED
        BY <3>1, <4>1
    <3>3. DOMAIN new \subseteq RowIds
      BY <3>1, Parameters DEF TablesOK
    <3> HIDE DEF new
    <3> QED
      BY <2>1, <2>3, <3>2, <3>3 DEF new
  <2>4. CASE /\ Writes(r, "updateProjectKey") /\ req[r].row \in DOMAIN keys
             /\ KeysBecome(r, [keys EXCEPT ![req[r].row] = req[r].isActive])
    <3>1. PICK b \in BOOLEAN : b = req[r].isActive
      BY <2>4, Parameters
    <3>2. KeysBecome(r, [keys EXCEPT ![req[r].row] = b])
      BY <2>4, <3>1
    <3>3. \A k \in DOMAIN keys :
            [keys EXCEPT ![req[r].row] = b][k] \in BOOLEAN
      BY DEF TablesOK
    <3> QED
      BY <2>1, <3>2, <3>3 DEF TablesOK
  <2> QED
    BY <1>2, <1>4, <2>2, <2>3, <2>4
       DEF WritesKeys, CreateProjectKey, RotateProjectKey, UpdateProjectKey
<1>5. CASE DeleteProject(r)
  <2>1. CASE /\ live' = FALSE /\ settings' = 0 /\ keys' = [k \in {} |-> TRUE]
             /\ assignee' = NoUser /\ comments' = [k \in {} |-> Founder]
             /\ slugs' = slugs \ {1}
    BY <2>1, RowRange DEF TablesOK
  <2> QED
    BY <1>2, <1>5, <2>1 DEF DeleteProject
<1>6. CASE WritesElse(r)
  <2>1. CASE UpdateProject(r)
    <3>1. CASE settings' = r /\ UNCHANGED <<live, keys, assignee, comments,
                                            slugs>>
      BY <3>1, Parameters DEF TablesOK
    <3> QED
      BY <1>2, <2>1, <3>1 DEF UpdateProject
  <2>2. CASE CreateAlertRule(r) \/ UpdateAlertRule(r) \/ DeleteAlertRule(r)
    <3>1. ASSUME NEW newRules, RulesBecome(r, newRules) PROVE TablesOK'
      BY <3>1 DEF RulesBecome, TablesOK
    <3> QED
      BY <1>2, <2>2, <3>1
         DEF CreateAlertRule, UpdateAlertRule, DeleteAlertRule
  <2>3. CASE SetIssueAssignee(r) \/ CreateIssueComment(r)
               \/ DeleteIssueComment(r)
    <3>1. ASSUME NEW newAssignee \in Users \cup {NoUser}, NEW newComments,
                 IssueBecomes(r, newAssignee, newComments),
                 DOMAIN newComments \subseteq RowIds,
                 \A k \in DOMAIN newComments : newComments[k] \in Users
          PROVE  TablesOK'
      BY <3>1 DEF IssueBecomes, TablesOK
    <3>2. CASE IssueBecomes(r, assignee, WithRow(comments, r, req[r].caller))
      <4>1. /\ DOMAIN WithRow(comments, r, req[r].caller) \subseteq RowIds
            /\ \A k \in DOMAIN WithRow(comments, r, req[r].caller) :
                 WithRow(comments, r, req[r].caller)[k] \in Users
        BY Parameters DEF WithRow, TablesOK
      <4> QED
        BY <3>1, <3>2, <4>1 DEF TablesOK
    <3>3. CASE Writes(r, "setIssueAssignee")
               /\ IssueBecomes(r, req[r].user, comments)
      BY <3>1, <3>3, Parameters DEF TablesOK
    <3>4. CASE IssueBecomes(r, assignee,
                 [k \in DOMAIN comments \ {req[r].row} |-> comments[k]])
      BY <3>1, <3>4 DEF TablesOK
    <3> QED
      BY <1>2, <2>3, <3>2, <3>3, <3>4
         DEF SetIssueAssignee, CreateIssueComment, DeleteIssueComment
  <2>4. CASE CreateProject(r)
    BY <2>4 DEF CreateProject, TablesOK
  <2> QED
    BY <1>6, <2>1, <2>2, <2>3, <2>4 DEF WritesElse
<1> QED
  BY <1>3, <1>4, <1>5, <1>6 DEF Write

\* Each statement keeps the counters of the loop of createProject in range: a
\* slug that is taken is one of the numbered ones.
LEMMA LocalsKeep ==
  ASSUME BInv, TablesOK, LocalsOK, NEW r \in RequestIds,
         Decides(r) \/ Write(r)
  PROVE  LocalsOK'
<1>1. local = [s \in RequestIds |-> local[s]]
      /\ DOMAIN local[r] = {"try", "lost", "rule"}
  BY DEF BInv, SlugInv, LocalType, IsLocal
<1>2. ASSUME NEW loc, InLoop(loc), local' = [local EXCEPT ![r] = loc]
      PROVE  LocalsOK'
  BY <1>1, <1>2 DEF LocalsOK
<1>3. InLoop(NoLocal)
  BY WorkspaceAssumption DEF InLoop, NoLocal
<1>4. CASE Answered(r)
  BY <1>2, <1>3, <1>4 DEF Answered
<1>5. CASE UNCHANGED local
  BY <1>5 DEF LocalsOK
<1>6. CASE Permits(r) \/ Looks(r) \/ CountAlertRules(r)
  BY <1>4, <1>5, <1>6
     DEF Permits, Looks, Check, EnsureProjectAdmin, GetAdminProject,
         EnsureFounder, EnsureOwnedProject, EnsureOwnedIssue,
         GetOwnedProject, GetOwnedProjectKey, ReadAssignee, ReadComment,
         Moderate, CountAlertRules, Reject
<1>7. CASE ReadAlertRule(r)
  <2>1. ASSUME NEW merged, local' = [local EXCEPT ![r].rule = merged]
        PROVE  LocalsOK'
    <3> DEFINE loc == [local[r] EXCEPT !.rule = merged]
    <3>1. InLoop(loc)
      BY <1>1 DEF LocalsOK, InLoop
    <3>2. local' = [local EXCEPT ![r] = loc]
      BY <2>1
    <3> HIDE DEF loc
    <3> QED
      BY <1>2, <3>1, <3>2
  <2> QED
    BY <1>4, <1>7, <2>1 DEF ReadAlertRule, Reject
<1>8. CASE LookUpSlug(r)
  <2>1. CASE /\ ~ IsFree(local[r].try)
             /\ local' = [local EXCEPT ![r].try = local[r].try + 1]
    <3> DEFINE loc == [local[r] EXCEPT !.try = local[r].try + 1]
    <3>1. local[r].try \in 1 .. SlugTries
      BY <2>1 DEF IsFree, TablesOK
    <3>2. InLoop(loc)
      BY <1>1, <3>1, WorkspaceAssumption DEF LocalsOK, InLoop
    <3>3. local' = [local EXCEPT ![r] = loc]
      BY <2>1
    <3> HIDE DEF loc
    <3> QED
      BY <1>2, <3>2, <3>3
  <2> QED
    BY <1>5, <1>8, <2>1 DEF LookUpSlug
<1>9. CASE SlugConflict(r)
  <2>1. CASE /\ local[r].lost + 1 < Attempts
             /\ local' = [local EXCEPT ![r] =
                            [NoLocal EXCEPT !.lost = local[r].lost + 1]]
    <3> DEFINE loc == [NoLocal EXCEPT !.lost = local[r].lost + 1]
    <3>1. InLoop(loc)
      BY <2>1, WorkspaceAssumption DEF LocalsOK, InLoop, NoLocal, Attempts
    <3> HIDE DEF loc
    <3> QED
      BY <1>2, <2>1, <3>1 DEF loc
  <2> QED
    BY <1>4, <1>9, <2>1 DEF SlugConflict, Reject
<1>10. CASE Write(r)
  BY <1>4, <1>10, WriteAnswers
<1> QED
  BY <1>6, <1>7, <1>8, <1>9, <1>10 DEF Decides, Permits, Looks

\* Each statement adds to the roles seen only roles.
LEMMA StandingKeeps ==
  ASSUME IInv, IInv', StandingOK, NEW r \in RequestIds,
         Decides(r) \/ Write(r)
  PROVE  StandingOK'
<1>1. CASE UNCHANGED standing
  BY <1>1 DEF StandingOK
<1>2. CASE standing' = [standing EXCEPT ![r] = NoStanding]
  BY <1>2 DEF StandingOK, NoStanding
<1>3. CASE Witness(r)
  <2>1. \A u \in Users : role'[u] \in Roles
    BY DEF IInv
  <2> QED
    BY <1>3, <2>1 DEF Witness, StandingOK, NoStanding
<1>4. ASSUME NEW kind, NEW found, RowLost(r, kind, found)
      PROVE  StandingOK'
  BY <1>2, <1>4 DEF RowLost, Reject, Forget
<1>5. CASE Decides(r)
  BY <1>1, <1>2, <1>5
     DEF Decides, Check, EnsureProjectAdmin, GetAdminProject,
         EnsureFounder, EnsureOwnedProject, EnsureOwnedIssue,
         GetOwnedProject, GetOwnedProjectKey, ReadAssignee, ReadComment,
         Moderate, CountAlertRules, ReadAlertRule, LookUpSlug, SlugConflict,
         Reject, Forget, checking
<1>6. CASE WritesRoles(r)
  BY <1>3, <1>4, <1>6 DEF WritesRoles, AddMember, UpdateMemberRole,
     RemoveMember, RolesBecome
<1>7. CASE WritesKeys(r)
  BY <1>2, <1>4, <1>7 DEF WritesKeys, CreateProjectKey, RotateProjectKey,
     UpdateProjectKey, KeysBecome, Forget
<1>8. CASE WritesElse(r)
  BY <1>2, <1>4, <1>8
     DEF WritesElse, UpdateProject, CreateAlertRule, UpdateAlertRule,
         DeleteAlertRule, SetIssueAssignee, CreateIssueComment,
         DeleteIssueComment, CreateProject, RulesBecome, IssueBecomes, Forget
<1>9. CASE DeleteProject(r)
  BY <1>3, <1>4, <1>9 DEF DeleteProject
<1> QED
  BY <1>5, <1>6, <1>7, <1>8, <1>9 DEF Write

\* A rival is counted by the step that answers it.
LEMMA CountKept ==
  ASSUME BInv, Counted, NEW r \in InFlight, Decides(r) \/ Write(r), IInv
  PROVE  Counted'
<1>1. r \in RequestIds /\ r \notin Ended
  BY DEF InFlight, Ended
<1>2. \A s \in RequestIds : s # r => pc'[s] = pc[s]
  BY <1>1, OthersStay
<1>3. /\ Ended \subseteq RequestIds /\ Ended' \subseteq RequestIds
      /\ Ended \subseteq Ended'
  BY <1>1, <1>2 DEF Ended
<1>4. /\ IsFiniteSet(Ended) /\ IsFiniteSet(Ended')
      /\ Cardinality(Ended) \in Nat /\ Cardinality(Ended') \in Nat
  BY <1>3, SmallSets
<1>5. Cardinality(Ended) <= Cardinality(Ended')
  BY <1>3, <1>4, FS_Subset
<1>6. rivals \in [RequestIds -> Nat]
  BY DEF BInv, SlugInv, LocalType
<1>7. ASSUME \A s \in RequestIds : rivals'[s] \in {0, rivals[s]}
      PROVE  Counted'
  BY <1>4, <1>5, <1>6, <1>7 DEF Counted
<1>8. CASE rivals' = [rivals EXCEPT ![r] = 0]
  BY <1>6, <1>7, <1>8
<1>9. CASE Decides(r)
  <2>1. UNCHANGED rivals \/ rivals' = [rivals EXCEPT ![r] = 0]
    BY <1>9
       DEF Decides, Check, EnsureProjectAdmin, GetAdminProject,
           EnsureFounder, EnsureOwnedProject, EnsureOwnedIssue,
           GetOwnedProject, GetOwnedProjectKey, ReadAssignee, ReadComment,
           Moderate, CountAlertRules, ReadAlertRule, LookUpSlug,
           SlugConflict, Reject, Forget, checking
  <2> QED
    BY <1>7, <1>8, <2>1
<1>10. CASE Write(r) /\ ~ CreateProject(r)
  BY <1>1, <1>8, <1>10, OthersEnd, RulesEnd DEF Write, WritesElse, Ends
<1>11. CASE CreateProject(r)
  <2>1. Ended' = Ended \cup {r}
    <3>1. pc'[r] = "done"
      BY <1>1, <1>11 DEF CreateProject, Answered, BInv, Control
    <3> QED
      BY <1>1, <1>2, <3>1 DEF Ended
  <2>2. Cardinality(Ended') = Cardinality(Ended) + 1
    BY <1>1, <1>4, <2>1, FS_AddElement
  <2>3. \A s \in RequestIds : rivals'[s] \in {0, rivals[s], rivals[s] + 1}
    BY <1>6, <1>11 DEF CreateProject
  <2> QED
    BY <1>4, <1>6, <2>2, <2>3 DEF Counted
<1> QED
  BY <1>9, <1>10, <1>11

LEMMA TNext ==
  IInv /\ IInv' /\ AInv /\ BInv /\ TInv /\ [Next]_vars => TInv'
<1> SUFFICES ASSUME IInv, IInv', AInv, BInv, TInv, [Next]_vars PROVE TInv'
  OBVIOUS
<1> USE DEF TInv
<1>1. CASE UNCHANGED vars
  BY <1>1 DEF vars, tables, checking, TablesOK, LocalsOK, StandingOK, Counted,
              Ended
<1>2. ASSUME NEW r \in RequestIds, NEW q \in Requests, Arrive(r, q),
             UNCHANGED area
      PROVE  TInv'
  <2>1. TablesOK' /\ LocalsOK'
    BY <1>2 DEF Arrive, tables, TablesOK, LocalsOK
  <2>2. StandingOK'
    BY <1>2 DEF Arrive, StandingOK, IInv
  <2>3. Ended' = Ended
    BY <1>2 DEF Arrive, Ended, IInv, Control
  <2>4. Counted'
    BY <1>2, <2>3 DEF Arrive, Counted
  <2> QED
    BY <1>2, <2>1, <2>2, <2>4
<1>3. ASSUME NEW r \in RequestIds, Step(r), UNCHANGED area PROVE TInv'
  <2>1. r \in InFlight /\ (Decides(r) \/ Write(r))
    BY <1>3, StepInFlight, StepCases
  <2>2. TablesOK'
    <3>1. Decides(r) => UNCHANGED tables
      BY DecidesKeeps DEF IInv
    <3>2. UNCHANGED tables => TablesOK'
      BY DEF tables, TablesOK
    <3> QED
      BY <2>1, <3>1, <3>2, TablesKeep
  <2> QED
    BY <1>3, <2>1, <2>2, LocalsKeep, StandingKeeps, CountKept
<1> QED
  BY <1>1, <1>2, <1>3 DEF Next

\* Every variable keeps its type, for any number of users, requests, rules and
\* slugs: in particular a row names a request that created it, and a request
\* that creates a project stays within its attempts
\* (projects/service.ts:222-274).
THEOREM WorkspaceTypes == Spec => []TypeOK
<1>1. ASSUME IInv, BInv, ShapeInv, TInv PROVE TypeOK
  <2>1. /\ role \in [Users -> Roles] /\ pc \in [RequestIds -> Labels]
        /\ req \in [RequestIds -> Requests \cup {NoRequest}]
    BY <1>1 DEF IInv, Control
  <2>2. DOMAIN rules \subseteq RowIds /\ racing \subseteq RequestIds
        /\ rivals \in [RequestIds -> Nat]
    BY <1>1 DEF BInv, RuleInv, Answerable, SlugInv, LocalType
  <2>3. \A k \in DOMAIN rules : DOMAIN rules[k] = Columns
    <3>1. ASSUME NEW rule, WellFormed(rule) PROVE DOMAIN rule = Columns
      BY <3>1 DEF WellFormed, Normalized
    <3> QED
      BY <1>1, <3>1 DEF ShapeInv, RulesWellFormed
  <2>4. rivals \in [RequestIds -> 0 .. MaxRequests]
    <3>1. Cardinality(Ended) <= MaxRequests
      <4>1. MaxRequests \in Nat
        BY WorkspaceAssumption
      <4>2. IsFiniteSet(RequestIds) /\ Cardinality(RequestIds) = MaxRequests
        BY <4>1, FS_Interval DEF RequestIds
      <4>3. Ended \subseteq RequestIds
        BY DEF Ended
      <4> QED
        BY <4>2, <4>3, FS_Subset
    <3>2. Cardinality(Ended) \in Nat /\ MaxRequests \in Nat
      BY SmallSets, WorkspaceAssumption DEF Ended
    <3>3. \A r \in RequestIds : rivals[r] \in 0 .. MaxRequests
      BY <1>1, <2>2, <3>1, <3>2 DEF TInv, Counted
    <3> QED
      BY <2>2, <3>3
  <2> QED
    BY <1>1, <2>1, <2>2, <2>3, <2>4
       DEF TypeOK, TInv, TablesOK, LocalsOK, InLoop, StandingOK, Labels
<1>2. Spec => []TInv
  BY TInit, TNext, AccessInvariant, InductiveInvariant, BoundsInvariant, PTL
     DEF Spec
<1> QED
  BY <1>1, <1>2, ShapeInvariant, InductiveInvariant, BoundsInvariant, PTL
=============================================================================
