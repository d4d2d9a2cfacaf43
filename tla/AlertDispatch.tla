---------------------------- MODULE AlertDispatch ----------------------------
(***************************************************************************)
(* processAlertsForEvent (notifications/service.ts) run by concurrent      *)
(* worker jobs: read the active rules, evaluate them, then one branch per  *)
(* fired rule, all under one Promise.all: reserve the notification under a *)
(* Postgres advisory lock, send it, record the outcome.                    *)
(*                                                                         *)
(* Meanwhile users change and delete rules, a delivery can fail or time    *)
(* out after it was accepted, and a worker process can die at any point.   *)
(* A branch claims at most one notification, so <<job, rule>> names it.    *)
(***************************************************************************)
EXTENDS AlertEvaluator, FiniteSets, FiniteSetsExt

CONSTANTS
  hasSmtpCredentials,  \* SMTP_HOST, _PORT, _USER and _PASSWORD are all set
  Jobs,      \* executions of processAlertsForEvent
  Rules,     \* alert rules of the project
  Issues,    \* issues of the project
  Configs,   \* the configurations users give to rules
  MaxTime    \* bound: the last tick of the clock (in minutes)

DEFAULT_REGRESSION_COOLDOWN_MINUTES == 60

Channels == {"email", "slack"}

Config ==
  [channel : Channels, condition : Conditions, isActive : BOOLEAN,
   threshold : Nat \union {Null}, windowMinutes : Nat \union {Null},
   baselineMinutes : Nat \union {Null}, spikeMultiplier : Nat \union {Null},
   minEvents : Nat \union {Null}, cooldownMinutes : Nat \union {Null}]

Times == 0 .. MaxTime

\* A Notification row; its rule is in its name.  gap is the dedupe interval it
\* was claimed with, Null for "once and for all" (a history field).
Notification ==
  [issue : Issues, channel : Channels, status : {"pending", "sent", "failed"},
   sentAt : Times, gap : Nat \union {Null}]

\* The event a job is about, as processEvent returned it.
Result == [issue : Issues, isNew : BOOLEAN, regressed : BOOLEAN]

Branches == Jobs \X Rules

ASSUME ConfigsAssumption == Configs \subseteq Config
ASSUME NullAssumption ==
  /\ Null \notin Nat /\ Null \notin Config /\ Null \notin Result
  /\ Null \notin Notification
ASSUME SmtpAssumption == hasSmtpCredentials \in BOOLEAN
ASSUME MaxTimeAssumption == MaxTime \in Nat

VARIABLES
  clock,       \* the time, as workers and Postgres read it
  projectLive, \* the project and its issues exist
  rule,        \* AlertRule rows; Null once deleted
  received,    \* received[i][t]: events of issue i received at time t
  notified,    \* Notification rows, by the branch that claimed them
  phase,       \* where each job stands
  event,       \* the event of each job
  snapshot,    \* the rules each job read; Null for those it did not see
  stage,       \* where each branch stands
  start,       \* when each branch computed `since` and began its transaction
  delivered    \* history: how often each notification reached its target

dbVars  == <<projectLive, rule, received, notified>>
jobVars == <<phase, event, snapshot>>
vars    == <<clock, projectLive, rule, received, notified, phase, event,
             snapshot, stage, start, delivered>>

Phases == {"idle", "begun", "ruled", "dispatching", "done", "failed", "dead"}
Stages == {"none", "fired", "prepared", "locked", "claimed", "sent", "unsent",
           "covered", "done", "rejected", "dead"}

\* A branch that is still going to do something.
Live == {"fired", "prepared", "locked", "claimed", "sent", "unsent"}

Init ==
  /\ clock       = 0
  /\ projectLive = TRUE
  /\ rule       \in [Rules -> Configs]
  /\ received    = [i \in Issues |-> [t \in Times |-> 0]]
  /\ notified    = [b \in Branches |-> Null]
  /\ phase       = [j \in Jobs |-> "idle"]
  /\ event       = [j \in Jobs |-> Null]
  /\ snapshot    = [b \in Branches |-> Null]
  /\ stage       = [b \in Branches |-> "none"]
  /\ start       = [b \in Branches |-> 0]
  /\ delivered   = [b \in Branches |-> 0]

-----------------------------------------------------------------------------
(* What the queries return *)

\* Events of issue i received in [from, to).
Count(i, from, to) ==
  MapThenSumSet(LAMBDA t : received[i][t], {t \in Times : from <= t /\ t < to})

\* Events in the rule's window, and in its baseline before the window.
Recent(r, i, now) ==
  IF r.windowMinutes = Null THEN 0
  ELSE Count(i, now - r.windowMinutes, MaxTime + 1)

Baseline(r, i, now) ==
  IF Null \in {r.windowMinutes, r.baselineMinutes} THEN 0
  ELSE Count(i, now - r.baselineMinutes, now - r.windowMinutes)

\* The interval within which an earlier notification suppresses the next one;
\* Null: any earlier one does.
DedupeGap(r) ==
  CASE r.condition = "new_issue"    -> Null
    [] r.condition # "new_issue" /\ r.cooldownMinutes # Null ->
         r.cooldownMinutes
    [] r.condition = "regression" /\ r.cooldownMinutes = Null ->
         DEFAULT_REGRESSION_COOLDOWN_MINUTES
    [] OTHER -> r.windowMinutes

\* The notifications findFirst looks for on behalf of branch b.
IssueOf(b) == event[b[1]].issue

Earlier(b) ==
  {x \in Branches :
     /\ x[2] = b[2] /\ notified[x] # Null
     /\ notified[x].issue = IssueOf(b)
     /\ \/ DedupeGap(snapshot[b]) = Null
        \/ notified[x].sentAt >= start[b] - DedupeGap(snapshot[b])}

\* Mutants of LockFree: the lock is not taken; it is taken for good, as by
\* pg_advisory_lock, and only the end of the process gives it back.
LockSkipped(b) == TRUE

LockForSession(b) ==
  \A x \in Branches :
    x[2] = b[2] /\ stage[x] \in {"locked", "claimed", "sent", "unsent", "done",
                                "covered", "rejected"}
      => IssueOf(x) # IssueOf(b)

\* pg_advisory_xact_lock on (rule, issue) can be granted to branch b.
LockFree(b) ==
  \A x \in Branches : x[2] = b[2] /\ stage[x] = "locked"
                    => IssueOf(x) # IssueOf(b)

-----------------------------------------------------------------------------
(* The job up to the fan-out *)

\* processEvent has recorded an event and the job goes on to the alerts.  Only
\* the first event of an issue is new (IssueGrouping).
Begin(j, i) ==
  /\ phase[j] = "idle" /\ projectLive
  /\ LET isNew == \A t \in Times : received[i][t] = 0 IN
     \E regressed \in BOOLEAN :
       /\ isNew => ~regressed
       /\ event' = [event EXCEPT ![j] =
            [issue |-> i, isNew |-> isNew, regressed |-> regressed]]
  /\ received' = [received EXCEPT ![i][clock] = @ + 1]
  /\ phase'    = [phase EXCEPT ![j] = "begun"]
  /\ UNCHANGED <<clock, projectLive, rule, notified, snapshot, stage, start,
                 delivered>>

ReadRules(j) ==
  LET seen == [r \in Rules |->
                 IF rule[r] # Null /\ rule[r].isActive THEN rule[r] ELSE Null]
  IN
  /\ phase[j] = "begun"
  /\ IF \A r \in Rules : seen[r] = Null
       THEN /\ phase' = [phase EXCEPT ![j] = "done"]
            /\ UNCHANGED snapshot
       ELSE /\ phase' = [phase EXCEPT ![j] = "ruled"]
            /\ snapshot' = [b \in Branches |->
                              IF b[1] = j THEN seen[b[2]] ELSE snapshot[b]]
  /\ UNCHANGED <<clock, dbVars, event, stage, start, delivered>>

\* The counts, the evaluation and the message, which needs the issue to exist.
Evaluate(j) ==
  LET e == event[j] IN
  /\ phase[j] = "ruled"
  /\ \E fired \in SUBSET Rules :
       /\ \A r \in Rules :
            LET s == snapshot[<<j, r>>] IN
            IF s = Null THEN r \notin fired
            ELSE (r \in fired) \in Answers(s, e.isNew, e.regressed,
                                           Recent(s, e.issue, clock),
                                           Baseline(s, e.issue, clock))
       /\ stage' = [b \in Branches |->
                      IF b[1] = j /\ b[2] \in fired /\ projectLive
                        THEN "fired" ELSE stage[b]]
       /\ phase' = [phase EXCEPT ![j] =
                      IF fired = {} THEN "done"
                      ELSE IF projectLive THEN "dispatching" ELSE "failed"]
  /\ UNCHANGED <<clock, dbVars, event, snapshot, start, delivered>>

-----------------------------------------------------------------------------
(* One branch of Promise.all; a rejected branch fails the job while the      *)
(* other branches of the job go on                                           *)

Move(b, to) == stage' = [stage EXCEPT ![b] = to]

\* getDedupeSince, before the transaction
Prepare(b) ==
  /\ stage[b] = "fired"
  /\ start' = [start EXCEPT ![b] = clock]
  /\ Move(b, "prepared")
  /\ UNCHANGED <<clock, dbVars, jobVars, delivered>>

\* claimNotification: the lock, and the search under it
Lock(b) ==
  /\ stage[b] = "prepared" /\ LockFree(b)
  /\ Move(b, IF Earlier(b) # {} THEN "covered" ELSE "locked")
  /\ UNCHANGED <<clock, dbVars, jobVars, start, delivered>>

\* Mutant of SentAt: the row carries `since`.
SentAtSince(b) ==
  LET gap == DedupeGap(snapshot[b]) IN
  {IF gap = Null THEN start[b] ELSE start[b] - gap}

\* sentAt defaults to a now() between the start of the transaction and the
\* insert.
SentAt(b) == start[b] .. clock

\* claimNotification: the insert and the commit, which releases the lock.
\* A rule or project deleted meanwhile breaks the foreign key.  The answer to
\* a commit can get lost, which looks like a failure.
Insert(b) ==
  /\ stage[b] = "locked"
  /\ IF rule[b[2]] # Null
       THEN /\ \E t \in SentAt(b) :
                 notified' = [notified EXCEPT ![b] =
                   [issue |-> IssueOf(b), channel |-> snapshot[b].channel,
                    status |-> "pending", sentAt |-> t,
                    gap |-> DedupeGap(snapshot[b])]]
            /\ Move(b, "claimed") \/ Move(b, "rejected")
       ELSE /\ Move(b, "rejected")
            /\ UNCHANGED notified
  /\ UNCHANGED <<clock, projectLive, rule, received, jobVars, start, delivered>>

\* The transaction fails, or times out waiting for the lock.
ClaimFails(b) ==
  /\ stage[b] \in {"prepared", "locked"}
  /\ Move(b, "rejected")
  /\ UNCHANGED <<clock, dbVars, jobVars, start, delivered>>

Finalize(b, status) ==
  notified' = [notified EXCEPT ![b].status = status]

\* Mutant of Send: the row says `sent` before the message is handed over.
SendAfterRecording(b) ==
  /\ stage[b] = "claimed"
  /\ notified[b] # Null
  /\ Finalize(b, "sent")
  /\ \/ Move(b, "done") /\ delivered' = [delivered EXCEPT ![b] = @ + 1]
     \/ Move(b, "unsent") /\ UNCHANGED delivered
  /\ UNCHANGED <<clock, projectLive, rule, received, jobVars, start>>

\* Without the credentials the mail transport is nodemailer's jsonTransport:
\* sendMail resolves and nothing leaves the process.
Reaches(channel) == channel = "slack" \/ hasSmtpCredentials

\* notifier.send: it resolves, and the message is at its target if it can
\* reach it; it is refused; or it is accepted by the target and yet reported as
\* an error (the 10 s timeout, a lost answer).
Send(b) ==
  LET arrives == Reaches(snapshot[b].channel)
      once    == [delivered EXCEPT ![b] = @ + 1]
  IN
  /\ stage[b] = "claimed"
  /\ \/ Move(b, "sent") /\ delivered' = (IF arrives THEN once ELSE delivered)
     \/ Move(b, "unsent") /\ UNCHANGED delivered
     \/ arrives /\ Move(b, "unsent") /\ delivered' = once
  /\ UNCHANGED <<clock, dbVars, jobVars, start>>

\* finalizeNotification(sent); an error there (the row went with its rule, the
\* database failed or its answer got lost) is caught together with the errors
\* of the delivery.
RecordSent(b) ==
  /\ stage[b] = "sent"
  /\ \/ notified[b] # Null /\ Finalize(b, "sent") /\ Move(b, "done")
     \/ notified[b] # Null /\ Finalize(b, "sent") /\ Move(b, "unsent")
     \/ UNCHANGED notified /\ Move(b, "unsent")
  /\ UNCHANGED <<clock, projectLive, rule, received, jobVars, start, delivered>>

\* Mutant of RecordFailed: the catch block only logs.
FailureOnlyLogged(b) ==
  /\ stage[b] = "unsent" /\ Move(b, "done")
  /\ UNCHANGED <<clock, dbVars, jobVars, start, delivered>>

\* finalizeNotification(failed) in the catch block; an error here rejects.
RecordFailed(b) ==
  /\ stage[b] = "unsent"
  /\ \/ notified[b] # Null /\ Finalize(b, "failed") /\ Move(b, "done")
     \/ notified[b] # Null /\ Finalize(b, "failed") /\ Move(b, "rejected")
     \/ UNCHANGED notified /\ Move(b, "rejected")
  /\ UNCHANGED <<clock, projectLive, rule, received, jobVars, start, delivered>>

\* The worker process dies.
Crash(j) ==
  /\ phase[j] \in {"begun", "ruled", "dispatching"}
  /\ phase' = [phase EXCEPT ![j] = "dead"]
  /\ stage' = [b \in Branches |->
                 IF b[1] = j /\ stage[b] \in Live THEN "dead" ELSE stage[b]]
  /\ UNCHANGED <<clock, dbVars, event, snapshot, start, delivered>>

-----------------------------------------------------------------------------
(* Users and time *)

\* updateAlertRule, whatever the change
UpdateRule(r, c) ==
  /\ rule[r] # Null
  /\ rule' = [rule EXCEPT ![r] = c]
  /\ UNCHANGED <<clock, projectLive, received, notified, jobVars, stage, start,
                 delivered>>

\* deleteAlertRule takes the rule's notifications with it.
DeleteRule(r) ==
  /\ rule[r] # Null
  /\ rule'     = [rule EXCEPT ![r] = Null]
  /\ notified' = [b \in Branches |-> IF b[2] = r THEN Null ELSE notified[b]]
  /\ UNCHANGED <<clock, projectLive, received, jobVars, stage, start, delivered>>

\* deleteProject takes rules, issues, events and notifications with it.
DeleteProject ==
  /\ projectLive
  /\ projectLive' = FALSE
  /\ rule'        = [r \in Rules |-> Null]
  /\ received'    = [i \in Issues |-> [t \in Times |-> 0]]
  /\ notified'    = [b \in Branches |-> Null]
  /\ UNCHANGED <<clock, jobVars, stage, start, delivered>>

Tick ==
  /\ clock < MaxTime
  /\ clock' = clock + 1
  /\ UNCHANGED <<dbVars, jobVars, stage, start, delivered>>

-----------------------------------------------------------------------------

Run(j)      == ReadRules(j) \/ Evaluate(j)
Continue(b) ==
  \/ Prepare(b) \/ Lock(b) \/ Insert(b) \/ Send(b)
  \/ RecordSent(b) \/ RecordFailed(b)

Next ==
  \/ \E j \in Jobs : (\E i \in Issues : Begin(j, i)) \/ Run(j) \/ Crash(j)
  \/ \E b \in Branches : Continue(b) \/ ClaimFails(b)
  \/ \E r \in Rules : (\E c \in Configs : UpdateRule(r, c)) \/ DeleteRule(r)
  \/ DeleteProject \/ Tick

Spec == Init /\ [][Next]_vars

\* Jobs and branches that can go on do; the lock is granted in order.
Fairness ==
  /\ \A j \in Jobs : WF_vars(Run(j))
  /\ \A b \in Branches : SF_vars(Continue(b))

FairSpec == Spec /\ Fairness

-----------------------------------------------------------------------------
(* Correctness *)

TypeOK ==
  /\ clock \in Times
  /\ projectLive \in BOOLEAN
  /\ rule \in [Rules -> Configs \union {Null}]
  /\ received \in [Issues -> [Times -> Nat]]
  /\ notified \in [Branches -> Notification \union {Null}]
  /\ phase \in [Jobs -> Phases]
  /\ event \in [Jobs -> Result \union {Null}]
  /\ snapshot \in [Branches -> Configs \union {Null}]
  /\ stage \in [Branches -> Stages]
  /\ start \in [Branches -> Times]
  /\ delivered \in [Branches -> Nat]

\* n was claimed when every row of the same rule and issue that m is stood
\* further back than n's dedupe interval.
After(n, m) == notified[n].gap # Null
                 /\ notified[n].sentAt > notified[m].sentAt + notified[n].gap

\* Of two notifications of one rule about one issue, one was claimed after the
\* whole dedupe interval it was claimed with had passed since the other; none
\* ever follows another "once and for all".  This holds whatever jobs overlap,
\* wait for each other or crash (service.ts:123-168).
Spaced ==
  \A n, m \in Branches :
    /\ n # m /\ n[2] = m[2] /\ notified[n] # Null /\ notified[m] # Null
    /\ notified[n].issue = notified[m].issue
    => After(n, m) \/ After(m, n)

\* The status is honest: no notification is delivered twice, and `sent` is
\* recorded only of a message its target accepted, mail sent by a worker
\* without SMTP credentials excepted, which is recorded as `sent` and delivered
\* to nobody (service.ts:314-331, notifier.ts:28-33,79-85).
SentMeansDelivered ==
  \A b \in Branches :
    /\ delivered[b] <= 1
    /\ notified[b] # Null /\ notified[b].status = "sent" =>
         delivered[b] = IF Reaches(notified[b].channel) THEN 1 ELSE 0

\* A row stays `pending` only while its branch is at work, or because the
\* worker died or the database refused the final update; a branch that returns
\* normally has settled its row (service.ts:314-331).
PendingExplained ==
  \A b \in Branches :
    /\ notified[b] # Null /\ notified[b].status = "pending" =>
         stage[b] \in {"claimed", "sent", "unsent", "rejected", "dead"}
    /\ stage[b] = "done" /\ rule[b[2]] # Null =>
         notified[b] # Null /\ notified[b].status # "pending"

\* Every branch settles unless its worker dies: a branch never waits for a lock
\* or an answer for ever (service.ts:302-333).
BranchesSettle == \A b \in Branches : []<>(stage[b] \notin Live)

(* What the documentation says and the code does not do *)

\* knowledge/api/alerts-api.md:68: an alert is suppressed if a notification
\* was already sent within the dedupe interval.
SuppressedOnlyIfSent ==
  \A b \in Branches :
    stage[b] = "covered" /\ rule[b[2]] # Null =>
      \E x \in Earlier(b) : notified[x].status # "failed" \/ delivered[x] > 0

\* knowledge/database/data-model.md:101: the row is updated to `sent` or
\* `failed` by the result of the delivery, so what it calls sent was delivered.
SentIsDelivered ==
  \A b \in Branches :
    notified[b] # Null /\ notified[b].status = "sent" => delivered[b] = 1
=============================================================================
