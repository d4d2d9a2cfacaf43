------------------------------ MODULE Workspace ------------------------------
(***************************************************************************)
(* One project and the requests of its members: membership, settings, DSN   *)
(* keys, alert rules, the assignee and the comments of an issue             *)
(* (modules/projects, modules/alert-rules, modules/issues), and the         *)
(* creation of further projects, which compete for slugs.                   *)
(*                                                                         *)
(* Every handler first checks, in statements of their own, that the caller  *)
(* may do what it asks, and then writes.  Nothing is locked in between, so  *)
(* the requests in flight interleave at every statement.                    *)
(***************************************************************************)
EXTENDS AlertRuleShape, FiniteSets

CONSTANTS
  Users, Founder, NoUser,
  InitialRoles,   \* the roles the other users may start with
  RuleBodies,     \* bodies of POST alert-rules that occur
  RulePatches,    \* bodies of PATCH alert-rules that occur
  RuleLimit,      \* MAX_ALERT_RULES_PER_PROJECT
  SlugTries,      \* numbered slugs getUniqueSlug looks up (25)
  MaxAttempts,    \* maxProjectCreateAttempts (5)
  Areas,          \* bound: the sets of kinds of requests that arrive together
  MaxRequests,    \* bound: requests that arrive
  MaxInFlight,    \* bound: requests in flight at a time
  NoRequest

ASSUME WorkspaceAssumption ==
  /\ Founder \in Users /\ NoUser \notin Users
  /\ InitialRoles \subseteq {"none", "member", "owner"}
  /\ {RuleLimit, SlugTries, MaxAttempts, MaxRequests, MaxInFlight}
       \subseteq Nat \ {0}

Roles == {"none", "member", "owner"}
RequestIds == 1 .. MaxRequests
\* A row is known by the request that created it; row 0 is there from the start.
RowIds == 0 .. MaxRequests

(***************************************************************************)
(* The requests of the routes, with the parameters that matter.             *)
(***************************************************************************)
MemberRequests ==
  [kind : {"addMember", "updateMemberRole"}, caller : Users, user : Users,
   role : {"member", "owner"}]
    \cup [kind : {"removeMember"}, caller : Users, user : Users]

ProjectRequests ==
  [kind : {"createProject", "updateProject", "deleteProject",
           "createProjectKey"}, caller : Users]
    \cup [kind : {"rotateProjectKey"}, caller : Users, row : RowIds]
    \cup [kind : {"updateProjectKey"}, caller : Users, row : RowIds,
          isActive : BOOLEAN]

RuleRequests ==
  [kind : {"createAlertRule"}, caller : Users, body : RuleBodies]
    \cup [kind : {"updateAlertRule"}, caller : Users, row : RowIds,
          body : RulePatches]
    \cup [kind : {"deleteAlertRule"}, caller : Users, row : RowIds]

IssueRequests ==
  [kind : {"setIssueAssignee"}, caller : Users, user : Users \cup {NoUser}]
    \cup [kind : {"createIssueComment"}, caller : Users]
    \cup [kind : {"deleteIssueComment"}, caller : Users, row : RowIds]

Requests == MemberRequests \cup ProjectRequests \cup RuleRequests
              \cup IssueRequests

ASSUME NoRequestAssumption == NoRequest \notin Requests

VARIABLES
  live,       \* the project exists
  role,       \* ProjectMember: the role of each user, or "none"
  settings,   \* the request that last wrote the project's name or platform
  keys,       \* ProjectKey: isActive of each row
  rules,      \* AlertRule rows
  assignee,   \* Issue.assigneeId of the project's issue
  comments,   \* IssueComment: the author of each row
  slugs,      \* the numbered forms of one base slug that are taken
  pc, req,    \* of each request, the statement it is at and its parameters
  local,      \* its local variables: slug number, failed attempts, row read
  standing,   \* for checking: the roles each user has had since it arrived
  rivals,     \* for checking: projects that others created since it arrived
  racing,     \* for checking: rule creations that overlapped another one
  area        \* the element of Areas this behaviour is about

tables == <<live, role, settings, keys, rules, assignee, comments, slugs>>
checking == <<standing, rivals, racing>>
vars == <<tables, pc, req, local, checking, area>>

NoLocal == [try |-> 1, lost |-> 0, rule |-> NoRow]
NoStanding == [u \in Users |-> {}]

Init ==
  /\ live = TRUE
  /\ role \in {f \in [Users -> InitialRoles \cup {"owner"}] :
                 f[Founder] = "owner"}
  /\ settings = 0
  /\ keys = [k \in {0} |-> TRUE]
  /\ rules = [k \in {} |-> NoRow]
  /\ assignee = NoUser
  /\ comments = [k \in {0} |-> Founder]
  /\ slugs = {1}
  /\ pc = [r \in RequestIds |-> "new"]
  /\ req = [r \in RequestIds |-> NoRequest]
  /\ local = [r \in RequestIds |-> NoLocal]
  /\ standing = [r \in RequestIds |-> NoStanding]
  /\ rivals = [r \in RequestIds |-> 0]
  /\ racing = {}
  /\ area \in Areas

InFlight == {r \in RequestIds : pc[r] \notin {"new", "done"}}

Kind(r) == IF req[r] = NoRequest THEN "none" ELSE req[r].kind

\* Requests arrive in the order of their numbers.  Rows that are named exist
\* or will: any other row only answers 404.
Arrive(r, q) ==
  /\ pc[r] = "new"
  /\ \A s \in RequestIds : s < r => pc[s] # "new"
  /\ Cardinality(InFlight) < MaxInFlight
  /\ q.kind \in area
  /\ "row" \in DOMAIN q => q.row < r
  /\ pc' = [pc EXCEPT ![r] = "check"]
  /\ req' = [req EXCEPT ![r] = q]
  /\ standing' = [standing EXCEPT ![r] = [u \in Users |-> {role[u]}]]
  /\ UNCHANGED <<tables, local, rivals, racing>>

WithRow(table, k, row) ==
  [x \in DOMAIN table \cup {k} |-> IF x = k THEN row ELSE table[x]]

Goto(r, label) ==
  /\ pc' = [pc EXCEPT ![r] = label]
  /\ UNCHANGED req

\* The answer is sent, with success or an error.
Answered(r) ==
  /\ pc' = [pc EXCEPT ![r] = "done"]
  /\ req' = [req EXCEPT ![r] = NoRequest]
  /\ local' = [local EXCEPT ![r] = NoLocal]

Forget(r) ==
  /\ standing' = [standing EXCEPT ![r] = NoStanding]
  /\ rivals' = [rivals EXCEPT ![r] = 0]

\* The roles users have had, after a step that may have changed them.
Witness(r) ==
  /\ standing' = [s \in RequestIds |->
       IF s \in InFlight \ {r}
       THEN [u \in Users |-> standing[s][u] \cup {role'[u]}]
       ELSE NoStanding]
  /\ rivals' = [rivals EXCEPT ![r] = 0]

Reject(r) ==
  /\ Answered(r)
  /\ Forget(r)
  /\ UNCHANGED <<tables, racing>>

-----------------------------------------------------------------------------
(* The checks.  A statement that finds nothing to allow answers 404 or 403. *)

IsMember(u) == live /\ role[u] # "none"

Check(r, kinds, allowed, next) ==
  /\ pc[r] = "check"
  /\ Kind(r) \in kinds
  /\ \/ /\ allowed
        /\ Goto(r, next)
        /\ UNCHANGED <<tables, local, checking>>
     \/ /\ ~ allowed
        /\ Reject(r)

\* Mutant of IsAdmin: any member may manage members.
IsAnyMember(u) == IsMember(u)

IsAdmin(u) == IsMember(u) /\ role[u] = "owner"

ProtectsFounder(q) ==
  q.kind = "addMember" \/ q.user # Founder
    \/ (q.kind = "updateMemberRole" /\ q.role = "owner")

\* ensureProjectAdmin and the caller's own check of the founder.
EnsureProjectAdmin(r) ==
  Check(r, {"addMember", "updateMemberRole", "removeMember"},
        IsAdmin(req[r].caller) /\ ProtectsFounder(req[r]),
        "write")

\* getAdminProject: the caller's role, then the project through
\* getOwnedProject (GetOwnedProject).
GetAdminProject(r) ==
  Check(r, {"updateProject", "createProjectKey", "rotateProjectKey",
            "updateProjectKey"},
        role[req[r].caller] = "owner", "project")

\* getOwnedProject, called by getAdminProject and again by getOwnedProjectKey.
GetOwnedProject(r) ==
  /\ pc[r] \in {"project", "keyProject"}
  /\ \/ /\ IsMember(req[r].caller)
        /\ Goto(r, IF pc[r] = "keyProject" THEN "key"
                   ELSE IF Kind(r) = "rotateProjectKey" THEN "keyProject"
                   ELSE "write")
        /\ UNCHANGED <<tables, local, checking>>
     \/ ~ IsMember(req[r].caller) /\ Reject(r)

GetOwnedProjectKey(r) ==
  /\ pc[r] = "key"
  /\ \/ /\ req[r].row \in DOMAIN keys
        /\ Goto(r, "write")
        /\ UNCHANGED <<tables, local, checking>>
     \/ req[r].row \notin DOMAIN keys /\ Reject(r)

EnsureFounder(r) ==
  Check(r, {"deleteProject"},
        IsMember(req[r].caller) /\ req[r].caller = Founder, "write")

EnsureOwnedProject(r) ==
  Check(r, {"createAlertRule", "deleteAlertRule"},
        IsMember(req[r].caller),
        IF Kind(r) = "createAlertRule" THEN "count" ELSE "write")

EnsureOwnedIssue(r) ==
  Check(r, {"setIssueAssignee", "createIssueComment", "deleteIssueComment"},
        IsMember(req[r].caller),
        CASE Kind(r) = "setIssueAssignee" /\ req[r].user # NoUser -> "member"
          [] Kind(r) = "deleteIssueComment" -> "comment"
          [] OTHER -> "write")

-----------------------------------------------------------------------------
(* The writes.                                                             *)

Writes(r, kind) == pc[r] = "write" /\ Kind(r) = kind

\* The row to write is gone or already there: P2025, P2002 or P2003.
RowLost(r, kind, found) == Writes(r, kind) /\ ~ found /\ Reject(r)

RolesBecome(r, newRole) ==
  /\ role' = newRole
  /\ Answered(r)
  /\ Witness(r)
  /\ UNCHANGED <<live, settings, keys, rules, assignee, comments, slugs,
                 racing>>

AddMember(r) ==
  LET free == live /\ role[req[r].user] = "none" IN
  \/ /\ Writes(r, "addMember")
     /\ free
     /\ RolesBecome(r, [role EXCEPT ![req[r].user] = req[r].role])
  \/ RowLost(r, "addMember", free)

UpdateMemberRole(r) ==
  LET found == role[req[r].user] # "none" IN
  \/ /\ Writes(r, "updateMemberRole")
     /\ found
     /\ RolesBecome(r, [role EXCEPT ![req[r].user] = req[r].role])
  \/ RowLost(r, "updateMemberRole", found)

RemoveMember(r) ==
  LET found == role[req[r].user] # "none" IN
  \/ /\ Writes(r, "removeMember")
     /\ found
     /\ RolesBecome(r, [role EXCEPT ![req[r].user] = "none"])
  \/ RowLost(r, "removeMember", found)

UpdateProject(r) ==
  \/ /\ Writes(r, "updateProject")
     /\ live
     /\ settings' = r
     /\ Answered(r)
     /\ Forget(r)
     /\ UNCHANGED <<live, role, keys, rules, assignee, comments, slugs, racing>>
  \/ RowLost(r, "updateProject", live)

\* The foreign keys cascade over everything the project owns.
DeleteProject(r) ==
  \/ /\ Writes(r, "deleteProject")
     /\ live
     /\ live' = FALSE
     /\ role' = [u \in Users |-> "none"]
     /\ settings' = 0
     /\ keys' = [k \in {} |-> TRUE]
     /\ rules' = [k \in {} |-> NoRow]
     /\ assignee' = NoUser
     /\ comments' = [k \in {} |-> Founder]
     /\ slugs' = slugs \ {1}
     /\ Answered(r)
     /\ Witness(r)
     /\ UNCHANGED racing
  \/ RowLost(r, "deleteProject", live)

KeysBecome(r, newKeys) ==
  /\ keys' = newKeys
  /\ Answered(r)
  /\ Forget(r)
  /\ UNCHANGED <<live, role, settings, rules, assignee, comments, slugs,
                 racing>>

CreateProjectKey(r) ==
  \/ /\ Writes(r, "createProjectKey")
     /\ live
     /\ KeysBecome(r, WithRow(keys, r, TRUE))
  \/ RowLost(r, "createProjectKey", live)

\* Mutant of RotatedKeys: the new key is a copy of the old row, isActive too.
CopiedKeys(old, new) ==
  LET off == [keys EXCEPT ![old] = FALSE] IN WithRow(off, new, off[old])

RotatedKeys(old, new) == WithRow([keys EXCEPT ![old] = FALSE], new, TRUE)

\* One transaction that reads nothing: the old key off, a new one in its place.
RotateProjectKey(r) ==
  LET found == req[r].row \in DOMAIN keys IN
  \/ /\ Writes(r, "rotateProjectKey")
     /\ found
     /\ KeysBecome(r, RotatedKeys(req[r].row, r))
  \/ RowLost(r, "rotateProjectKey", found)

UpdateProjectKey(r) ==
  LET found == req[r].row \in DOMAIN keys IN
  \/ /\ Writes(r, "updateProjectKey")
     /\ found
     /\ KeysBecome(r, [keys EXCEPT ![req[r].row] = req[r].isActive])
  \/ RowLost(r, "updateProjectKey", found)

RulesBecome(r, newRules) ==
  /\ rules' = newRules
  /\ Answered(r)
  /\ Forget(r)
  /\ UNCHANGED <<live, role, settings, keys, assignee, comments, slugs, racing>>

CreatingRule == {r \in InFlight : Writes(r, "createAlertRule")}

\* Mutant of UnderLimit: one rule too many.
UpToLimit == Cardinality(DOMAIN rules) <= RuleLimit

UnderLimit == Cardinality(DOMAIN rules) < RuleLimit

\* createAlertRule counts, then checks the shape, then inserts.
CountAlertRules(r) ==
  LET allowed == UnderLimit
                   /\ ValidShape(Merged(NoRow, ParsedInput(req[r].body))) IN
  /\ pc[r] = "count"
  /\ \/ /\ allowed
        /\ Goto(r, "write")
        /\ racing' = IF CreatingRule = {} THEN racing
                     ELSE racing \cup CreatingRule \cup {r}
        /\ UNCHANGED <<tables, local, standing, rivals>>
     \/ ~ allowed /\ Reject(r)

CreateAlertRule(r) ==
  \/ /\ Writes(r, "createAlertRule")
     /\ live
     /\ RulesBecome(r, WithRow(rules, r,
                          Normalized(Merged(NoRow, ParsedInput(req[r].body)))))
  \/ RowLost(r, "createAlertRule", live)

\* The first statement of the transaction in updateAlertRule, and the merge
\* with the row it returned.
ReadAlertRule(r) ==
  LET k == req[r].row
      merged == Merged(rules[k], ParsedInput(req[r].body))
      allowed == /\ IsMember(req[r].caller)
                 /\ k \in DOMAIN rules
                 /\ ValidShape(merged) IN
  /\ pc[r] = "check"
  /\ Kind(r) = "updateAlertRule"
  /\ \/ /\ allowed
        /\ local' = [local EXCEPT ![r].rule = Normalized(merged)]
        /\ Goto(r, "write")
        /\ UNCHANGED <<tables, checking>>
     \/ ~ allowed /\ Reject(r)

\* Mutant of WrittenRule: the patch is laid over the row as it is now.
PatchedRow(r) == Merged(rules[req[r].row], req[r].body)

\* The whole row, as it was merged and validated.
WrittenRule(r) == local[r].rule

UpdateAlertRule(r) ==
  LET found == req[r].row \in DOMAIN rules IN
  \/ /\ Writes(r, "updateAlertRule")
     /\ found
     /\ RulesBecome(r, [rules EXCEPT ![req[r].row] = WrittenRule(r)])
  \/ RowLost(r, "updateAlertRule", found)

DeleteAlertRule(r) ==
  LET found == req[r].row \in DOMAIN rules IN
  \/ /\ Writes(r, "deleteAlertRule")
     /\ found
     /\ RulesBecome(r, [k \in DOMAIN rules \ {req[r].row} |-> rules[k]])
  \/ RowLost(r, "deleteAlertRule", found)

IssueBecomes(r, newAssignee, newComments) ==
  /\ assignee' = newAssignee
  /\ comments' = newComments
  /\ Answered(r)
  /\ Forget(r)
  /\ UNCHANGED <<live, role, settings, keys, rules, slugs, racing>>

\* The two statements of the transaction in setIssueAssignee.
ReadAssignee(r) ==
  /\ pc[r] = "member"
  /\ \/ /\ role[req[r].user] # "none"
        /\ Goto(r, "write")
        /\ UNCHANGED <<tables, local, checking>>
     \/ role[req[r].user] = "none" /\ Reject(r)

SetIssueAssignee(r) ==
  \/ /\ Writes(r, "setIssueAssignee")
     /\ live
     /\ IssueBecomes(r, req[r].user, comments)
  \/ RowLost(r, "setIssueAssignee", live)

CreateIssueComment(r) ==
  \/ /\ Writes(r, "createIssueComment")
     /\ live
     /\ IssueBecomes(r, assignee, WithRow(comments, r, req[r].caller))
  \/ RowLost(r, "createIssueComment", live)

\* deleteIssueComment: its author may, and else the caller's role decides.
ReadComment(r) ==
  LET k == req[r].row IN
  /\ pc[r] = "comment"
  /\ \/ /\ k \in DOMAIN comments
        /\ Goto(r, IF comments[k] = req[r].caller THEN "write" ELSE "moderate")
        /\ UNCHANGED <<tables, local, checking>>
     \/ k \notin DOMAIN comments /\ Reject(r)

Moderate(r) ==
  /\ pc[r] = "moderate"
  /\ \/ /\ role[req[r].caller] = "owner"
        /\ Goto(r, "write")
        /\ UNCHANGED <<tables, local, checking>>
     \/ role[req[r].caller] # "owner" /\ Reject(r)

DeleteIssueComment(r) ==
  LET found == req[r].row \in DOMAIN comments IN
  \/ /\ Writes(r, "deleteIssueComment")
     /\ found
     /\ IssueBecomes(r, assignee, [k \in DOMAIN comments \ {req[r].row} |->
                                     comments[k]])
  \/ RowLost(r, "deleteIssueComment", found)

-----------------------------------------------------------------------------
(* createProject.  After SlugTries lookups the slug is random and free.     *)

\* Mutant of IsFree: the base slug is tried without a lookup.
AssumedFree(try) == TRUE

IsFree(try) == try \notin slugs

LookUpSlug(r) ==
  LET try == local[r].try IN
  /\ pc[r] = "check"
  /\ Kind(r) = "createProject"
  /\ \/ /\ ~ IsFree(try)
        /\ local' = [local EXCEPT ![r].try = try + 1]
        /\ UNCHANGED <<pc, req, tables, checking>>
     \/ /\ IsFree(try)
        /\ Goto(r, "write")
        /\ UNCHANGED <<tables, local, checking>>

CreateProject(r) ==
  LET try == local[r].try IN
  /\ Writes(r, "createProject")
  /\ try \notin slugs
  /\ slugs' = slugs \cup ({try} \cap 1 .. SlugTries)
  /\ rivals' = [s \in RequestIds |->
                  IF s = r THEN 0
                  ELSE IF Kind(s) = "createProject" THEN rivals[s] + 1
                  ELSE rivals[s]]
  /\ standing' = [standing EXCEPT ![r] = NoStanding]
  /\ Answered(r)
  /\ UNCHANGED <<live, role, settings, keys, rules, assignee, comments, racing>>

\* Mutant of Attempts: the loop ends one attempt too late.
OneMoreAttempt == MaxAttempts + 1

Attempts == MaxAttempts

SlugConflict(r) ==
  LET lost == local[r].lost + 1 IN
  /\ Writes(r, "createProject")
  /\ local[r].try \in slugs
  /\ \/ /\ lost < Attempts
        /\ local' = [local EXCEPT ![r] = [NoLocal EXCEPT !.lost = lost]]
        /\ Goto(r, "check")
        /\ UNCHANGED <<tables, checking>>
     \/ lost = Attempts /\ Reject(r)

-----------------------------------------------------------------------------
Step(r) ==
  \/ EnsureProjectAdmin(r) \/ AddMember(r) \/ UpdateMemberRole(r)
  \/ RemoveMember(r)
  \/ GetAdminProject(r) \/ GetOwnedProject(r) \/ GetOwnedProjectKey(r)
  \/ UpdateProject(r) \/ EnsureFounder(r) \/ DeleteProject(r)
  \/ CreateProjectKey(r) \/ RotateProjectKey(r) \/ UpdateProjectKey(r)
  \/ EnsureOwnedProject(r) \/ CountAlertRules(r) \/ CreateAlertRule(r)
  \/ ReadAlertRule(r) \/ UpdateAlertRule(r) \/ DeleteAlertRule(r)
  \/ EnsureOwnedIssue(r) \/ ReadAssignee(r) \/ SetIssueAssignee(r)
  \/ CreateIssueComment(r) \/ ReadComment(r) \/ Moderate(r)
  \/ DeleteIssueComment(r)
  \/ LookUpSlug(r) \/ CreateProject(r) \/ SlugConflict(r)

Next ==
  /\ \E r \in RequestIds : (\E q \in Requests : Arrive(r, q)) \/ Step(r)
  /\ UNCHANGED area

Spec == Init /\ [][Next]_vars

-----------------------------------------------------------------------------
\* Every variable keeps its type.
TypeOK ==
  /\ live \in BOOLEAN
  /\ role \in [Users -> Roles]
  /\ settings \in RowIds
  /\ DOMAIN keys \subseteq RowIds
  /\ \A k \in DOMAIN keys : keys[k] \in BOOLEAN
  /\ DOMAIN rules \subseteq RowIds
  /\ \A k \in DOMAIN rules : DOMAIN rules[k] = Columns
  /\ assignee \in Users \cup {NoUser}
  /\ DOMAIN comments \subseteq RowIds
  /\ \A k \in DOMAIN comments : comments[k] \in Users
  /\ slugs \subseteq 1 .. SlugTries
  /\ pc \in [RequestIds -> {"new", "check", "project", "keyProject", "key",
                           "count", "member", "comment", "moderate", "write",
                           "done"}]
  /\ \A r \in RequestIds : req[r] \in Requests \cup {NoRequest}
  /\ \A r \in RequestIds : /\ local[r].try \in 1 .. SlugTries + 1
                            /\ local[r].lost \in 0 .. MaxAttempts - 1
  /\ standing \in [RequestIds -> [Users -> SUBSET Roles]]
  /\ rivals \in [RequestIds -> 0 .. MaxRequests]
  /\ racing \subseteq RequestIds
  /\ area \in Areas

\* The founder of a project is an owner of it as long as it exists, whatever
\* requests of other owners are in flight (comments members.service.ts:33-36
\* and :134).
FounderStaysOwner == live => role[Founder] = "owner"

Had(r, u, roles) == standing[r][u] \cap roles # {}

\* Who may do what, by the roles the caller has had since the request came.
Authorized(r) ==
  LET q == req[r]
      belongs == Had(r, q.caller, {"member", "owner"}) IN
  CASE q.kind \in {"addMember", "updateMemberRole", "removeMember",
                   "updateProject", "createProjectKey", "rotateProjectKey",
                   "updateProjectKey"} -> Had(r, q.caller, {"owner"})
    [] q.kind = "createProject" -> TRUE
    [] q.kind = "deleteProject" -> q.caller = Founder /\ belongs
    [] q.kind = "setIssueAssignee" ->
         /\ belongs
         /\ q.user # NoUser => Had(r, q.user, {"member", "owner"})
    [] q.kind = "deleteIssueComment" ->
         /\ belongs
         /\ comments[q.row] = q.caller \/ Had(r, q.caller, {"owner"})
    [] OTHER -> belongs

\* Every write was allowed by the roles its caller, and the user assigned,
\* had at some time between the arrival of the request and the write: what
\* is true of a check that is followed by the write without a lock.  Of the
\* user assigned the code promises more (AssigneeIsMember).
OnlyAuthorizedWrites ==
  [][\A r \in RequestIds :
       (pc[r] = "write" /\ pc'[r] = "done" /\ tables' # tables)
         => Authorized(r)]_vars

\* Every stored alert rule has passed validation as a whole, also when
\* overlapping patches were merged with the same earlier row.
RulesWellFormed == \A k \in DOMAIN rules : WellFormed(rules[k])

\* The limit of rules is exceeded only by creations that overlapped, and by
\* fewer rules than there were of those (alert-rules/service.ts:219).
LimitUnlessRacing ==
  Cardinality(DOMAIN rules) > RuleLimit
    => Cardinality(DOMAIN rules) < RuleLimit + Cardinality(racing)

\* Each attempt to create a project that fails for its slug is the work of
\* another creation, the last one included: creating alone never answers 409,
\* and there were MaxAttempts rivals when a request does
\* (projects/service.ts:222-276).
ConflictNeedsRivals ==
  [][\A r \in RequestIds :
       Writes(r, "createProject") /\ local[r].try \in slugs =>
         /\ pc'[r] = "check" => rivals[r] > local[r].lost
         /\ pc'[r] = "done" => rivals[r] >= MaxAttempts]_vars

\* The SDKs of a project are never left without an active key by a rotation,
\* whatever it overlaps: only the step that switches a key off, or deletes
\* the project, can do that (projects/service.ts:639-693).
ActiveKeyKept ==
  [][(live' /\ \E k \in DOMAIN keys : keys[k])
       => \/ \E k \in DOMAIN keys' : keys'[k]
          \/ \E r \in RequestIds : /\ Writes(r, "updateProjectKey")
                                   /\ ~ req[r].isActive
                                   /\ pc'[r] = "done"]_vars

-----------------------------------------------------------------------------
(* What comments and documentation say and the code does not do.            *)

\* "so a member removed in between can't slip through (TOCTOU)"
\* (issues/service.ts:610-611): whom an issue is assigned to is a member when
\* the assignment is written.
AssigneeIsMember ==
  [][\A r \in RequestIds :
       (/\ Writes(r, "setIssueAssignee") /\ pc'[r] = "done"
        /\ req[r].user # NoUser /\ assignee' = req[r].user)
         => role[req[r].user] # "none"]_vars

\* "Send only the fields to change": a patch that does not name isActive
\* leaves a rule on or off as it found it.
PatchKeepsIsActive ==
  [][\A r \in RequestIds :
       (/\ Writes(r, "updateAlertRule") /\ pc'[r] = "done"
        /\ req[r].row \in DOMAIN rules
        /\ "isActive" \notin DOMAIN req[r].body)
         => rules'[req[r].row]["isActive"] = rules[req[r].row]["isActive"]]_vars
=============================================================================
