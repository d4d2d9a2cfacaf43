---------------------------- MODULE IssueGrouping ----------------------------
(***************************************************************************)
(* processEvent (events/process.ts) run by concurrent queue workers against *)
(* one Postgres database, with users changing issue status and deleting the *)
(* project meanwhile.                                                      *)
(*                                                                         *)
(* The interactive transaction runs at READ COMMITTED, so each statement   *)
(* is a step of its own: findUnique reads the committed row (Read), the    *)
(* update or create locks the row or the unique key until the transaction  *)
(* ends (WriteUpdate, WriteCreate), and the event insert becomes visible   *)
(* with the commit (Commit).  A statement that needs a row another open    *)
(* transaction has written waits for that transaction.                     *)
(***************************************************************************)
EXTENDS Naturals, FiniteSets

CONSTANTS
  Workers,       \* executions of processEvent that may overlap
  Fingerprints,  \* the (project, fingerprint) keys the payloads map to
  Levels,        \* the payload levels that occur
  Shapes,        \* the kinds of payload that occur
  None,          \* no payload
  NoIssue,       \* findUnique's null, and the absence of a row
  MaxJobs        \* bound: jobs begun before workers stop taking more

SeverityRank ==
  [debug |-> 0, info |-> 1, warning |-> 2, error |-> 3, fatal |-> 4]

Statuses == {"unresolved", "resolved", "ignored"}

\* An Issue row.  Times are ticks of `clock`.
IssueRow ==
  [level : Levels, status : Statuses, timesSeen : Nat,
   firstSeen : Nat, lastSeen : Nat]

JobIds == 1 .. MaxJobs

\* What grouping looks at in a queue job: an identity, its fingerprint, its
\* level and whether it carries a DOM snapshot.
Payload ==
  [id : JobIds, fp : Fingerprints, level : Levels, replay : BOOLEAN]

Shape == [fp : Fingerprints, level : Levels, replay : BOOLEAN]

\* An Event row, identified by the job that produced it.  isNew is not a
\* column: it is the flag processEvent returns for this event.
EventRow ==
  [id : JobIds, fp : Fingerprints, level : Levels, receivedAt : Nat,
   isRegression : BOOLEAN, isNew : BOOLEAN]

ASSUME LevelsAssumption == Levels \subseteq DOMAIN SeverityRank
ASSUME ShapesAssumption == Shapes \subseteq Shape
ASSUME NoIssueAssumption == NoIssue \notin IssueRow
ASSUME NoneAssumption == None \notin Payload
ASSUME MaxJobsAssumption == MaxJobs \in Nat

VARIABLES
  issue,       \* committed Issue rows, by fingerprint
  events,      \* committed Event rows
  snapshots,   \* ids of the events that have an EventSnapshot row
  projectLive, \* the project row exists
  clock,       \* `new Date()`, advancing with every job that begins
  resolvedAt,  \* history: the clock when a user last resolved the issue
  pc,          \* where each worker stands in processEvent
  payload,     \* the job each worker holds
  now,         \* `now` of each worker's current attempt
  seen,        \* the row findUnique returned to the current attempt
  draft,       \* the row the open transaction has written
  retried      \* the attempt is the one after a fingerprint conflict

dbVars     == <<issue, events, snapshots, projectLive, resolvedAt>>
workerVars == <<pc, payload, now, seen, draft, retried>>
vars       == <<issue, events, snapshots, projectLive, clock, resolvedAt,
                pc, payload, now, seen, draft, retried>>

Init ==
  /\ issue       = [f \in Fingerprints |-> NoIssue]
  /\ events      = {}
  /\ snapshots   = {}
  /\ projectLive = TRUE
  /\ clock       = 0
  /\ resolvedAt  = [f \in Fingerprints |-> 0]
  /\ pc          = [w \in Workers |-> "idle"]
  /\ payload     = [w \in Workers |-> None]
  /\ now         = [w \in Workers |-> 0]
  /\ seen        = [w \in Workers |-> NoIssue]
  /\ draft       = [w \in Workers |-> NoIssue]
  /\ retried     = [w \in Workers |-> FALSE]

-----------------------------------------------------------------------------
(* What the statements of the transaction write *)

PayloadLevelWins(current, next) == next  \* mutant of MaxSeverity

MaxSeverity(current, next) ==
  IF SeverityRank[next] > SeverityRank[current] THEN next ELSE current

\* Only a row that was read as resolved regresses.
Regressed(read) == read # NoIssue /\ read.status = "resolved"

\* Mutants of UpdatedRow: timesSeen written as a value computed from the row
\* read earlier; a resolved issue not reopened.
UpdatedFromRead(row, read, level, t) ==
  [level     |-> MaxSeverity(read.level, level),
   status    |-> IF Regressed(read) THEN "unresolved" ELSE row.status,
   timesSeen |-> read.timesSeen + 1,
   firstSeen |-> row.firstSeen,
   lastSeen  |-> t]

UpdatedNotReopened(row, read, level, t) ==
  [level     |-> MaxSeverity(read.level, level),
   status    |-> row.status,
   timesSeen |-> row.timesSeen + 1,
   firstSeen |-> row.firstSeen,
   lastSeen  |-> t]

\* issue.update on the latest committed row: the increment is relative, the
\* level and the status are literals computed from the row read earlier.
UpdatedRow(row, read, level, t) ==
  [level     |-> MaxSeverity(read.level, level),
   status    |-> IF Regressed(read) THEN "unresolved" ELSE row.status,
   timesSeen |-> row.timesSeen + 1,
   firstSeen |-> row.firstSeen,
   lastSeen  |-> t]

\* Mutant of NewRow: firstSeen and lastSeen, which have no column default,
\* are left out.
NewRowDefaults(level, t) ==
  [level |-> level, status |-> "unresolved", timesSeen |-> 1]

NewRow(level, t) ==
  [level |-> level, status |-> "unresolved", timesSeen |-> 1,
   firstSeen |-> t, lastSeen |-> t]

\* event.create, with what processEvent returns about it
EventOf(w) ==
  [id |-> payload[w].id, fp |-> payload[w].fp, level |-> payload[w].level,
   receivedAt |-> now[w], isRegression |-> Regressed(seen[w]),
   isNew |-> (seen[w] = NoIssue)]

\* The row, or the unique key of a row about to exist, is held by the open
\* transaction that wrote it.
Locked(f) == \E w \in Workers : pc[w] = "written" /\ payload[w].fp = f

-----------------------------------------------------------------------------
(* Workers *)

\* processEvent has returned or thrown; the worker may take another job.
Finish(w) ==
  /\ pc'      = [pc EXCEPT ![w] = "idle"]
  /\ payload' = [payload EXCEPT ![w] = None]
  /\ now'     = [now EXCEPT ![w] = 0]
  /\ seen'    = [seen EXCEPT ![w] = NoIssue]
  /\ draft'   = [draft EXCEPT ![w] = NoIssue]
  /\ retried' = [retried EXCEPT ![w] = FALSE]

Begin(w) ==
  /\ pc[w] = "idle"
  /\ clock < MaxJobs
  /\ clock' = clock + 1
  /\ \E s \in Shapes :
       payload' = [payload EXCEPT ![w] =
         [id |-> clock + 1, fp |-> s.fp, level |-> s.level, replay |-> s.replay]]
  /\ now'   = [now EXCEPT ![w] = clock + 1]
  /\ pc'    = [pc EXCEPT ![w] = "begun"]
  /\ UNCHANGED <<dbVars, seen, draft, retried>>

Read(w) ==
  /\ pc[w] = "begun"
  /\ seen' = [seen EXCEPT ![w] = issue[payload[w].fp]]
  /\ pc'   = [pc EXCEPT ![w] = "read"]
  /\ UNCHANGED <<dbVars, clock, payload, now, draft, retried>>

\* The worker's write statement can run: nobody else holds the row or key.
CanWrite(w) == pc[w] = "read" /\ ~Locked(payload[w].fp)

Written(w, row) ==
  /\ draft' = [draft EXCEPT ![w] = row]
  /\ pc'    = [pc EXCEPT ![w] = "written"]
  /\ UNCHANGED <<dbVars, clock, payload, now, seen, retried>>

WriteUpdate(w) ==
  LET row == issue[payload[w].fp] IN
  /\ CanWrite(w)
  /\ seen[w] # NoIssue /\ row # NoIssue
  /\ Written(w, UpdatedRow(row, seen[w], payload[w].level, now[w]))

WriteCreate(w) ==
  /\ CanWrite(w)
  /\ seen[w] = NoIssue /\ issue[payload[w].fp] = NoIssue /\ projectLive
  /\ Written(w, NewRow(payload[w].level, now[w]))

\* The project went away after the read: the update finds no row, or the
\* create has no project to refer to.  The error leaves processEvent.
WriteOrphan(w) ==
  /\ CanWrite(w)
  /\ issue[payload[w].fp] = NoIssue
  /\ seen[w] # NoIssue \/ ~projectLive
  /\ Finish(w)
  /\ UNCHANGED <<dbVars, clock>>

\* Mutant of FingerprintConflict: only the create is repeated, again and again,
\* on the read that found no issue.
ConflictRepeatsCreate(w) ==
  /\ CanWrite(w)
  /\ seen[w] = NoIssue /\ issue[payload[w].fp] # NoIssue
  /\ pc' = [pc EXCEPT ![w] = "read"]
  /\ retried' = [retried EXCEPT ![w] = TRUE]
  /\ UNCHANGED <<dbVars, clock, payload, now, seen, draft>>

\* P2002 on (projectId, fingerprint): someone committed the issue after the
\* read.  processEventOnce runs again, once, from its first line; a second
\* conflict is thrown.
FingerprintConflict(w) ==
  /\ CanWrite(w)
  /\ seen[w] = NoIssue /\ issue[payload[w].fp] # NoIssue
  /\ IF retried[w]
       THEN Finish(w)
       ELSE /\ pc'      = [pc EXCEPT ![w] = "begun"]
            /\ now'     = [now EXCEPT ![w] = clock]
            /\ retried' = [retried EXCEPT ![w] = TRUE]
            /\ seen'    = [seen EXCEPT ![w] = NoIssue]
            /\ UNCHANGED <<payload, draft>>
  /\ UNCHANGED <<dbVars, clock>>

\* Mutant of Commit: the event insert is not part of the transaction, and a
\* worker that dies after the commit loses the event.
CommitWithoutEvent(w) ==
  /\ pc[w] = "written"
  /\ issue' = [issue EXCEPT ![payload[w].fp] = draft[w]]
  /\ events' \in {events, events \union {EventOf(w)}}
  /\ Finish(w)
  /\ UNCHANGED <<snapshots, projectLive, clock, resolvedAt>>

\* The event insert and the commit: row and event appear together.
Commit(w) ==
  /\ pc[w] = "written"
  /\ issue'  = [issue EXCEPT ![payload[w].fp] = draft[w]]
  /\ events' = events \union {EventOf(w)}
  /\ IF payload[w].replay
       THEN /\ pc' = [pc EXCEPT ![w] = "committed"]
            /\ UNCHANGED <<payload, now, seen, draft, retried>>
       ELSE Finish(w)
  /\ UNCHANGED <<snapshots, projectLive, clock, resolvedAt>>

\* eventSnapshot.create outside the transaction.  A failure is swallowed (and
\* is what a crash here amounts to); it does fail once the event is gone.
InsertSnapshot(w) ==
  /\ pc[w] = "committed"
  /\ \/ /\ \E e \in events : e.id = payload[w].id
        /\ snapshots' = snapshots \union {payload[w].id}
     \/ UNCHANGED snapshots
  /\ Finish(w)
  /\ UNCHANGED <<issue, events, projectLive, clock, resolvedAt>>

\* The transaction fails or times out, Postgres picks it to break a lock
\* cycle with the project's deletion, or the worker process dies: rollback.
Abort(w) ==
  /\ pc[w] \in {"begun", "read", "written"}
  /\ Finish(w)
  /\ UNCHANGED <<dbVars, clock>>

-----------------------------------------------------------------------------
(* Users *)

\* updateIssueStatus: one UPDATE, waiting for the row like any other.
SetStatus(f, s) ==
  /\ issue[f] # NoIssue /\ ~Locked(f)
  /\ issue' = [issue EXCEPT ![f].status = s]
  /\ resolvedAt' = IF s = "resolved"
                     THEN [resolvedAt EXCEPT ![f] = clock] ELSE resolvedAt
  /\ UNCHANGED <<events, snapshots, projectLive, clock, workerVars>>

\* deleteProject: the cascade takes every issue, event and snapshot; it waits
\* for the transactions that hold a row of the project.
DeleteProject ==
  /\ projectLive /\ \A f \in Fingerprints : ~Locked(f)
  /\ projectLive' = FALSE
  /\ issue'       = [f \in Fingerprints |-> NoIssue]
  /\ events'      = {}
  /\ snapshots'   = {}
  /\ UNCHANGED <<clock, resolvedAt, workerVars>>

-----------------------------------------------------------------------------

\* A worker's next step, other than failing.
Progress(w) ==
  \/ Read(w)
  \/ WriteUpdate(w) \/ WriteCreate(w) \/ WriteOrphan(w)
  \/ FingerprintConflict(w)
  \/ Commit(w) \/ InsertSnapshot(w)

Next ==
  \/ \E w \in Workers : Begin(w) \/ Progress(w) \/ Abort(w)
  \/ \E f \in Fingerprints, s \in Statuses : SetStatus(f, s)
  \/ DeleteProject

Spec == Init /\ [][Next]_vars

\* A statement that can run does run; Postgres hands a row lock to waiters in
\* order, so one that keeps becoming able to run is not passed over forever.
Fairness == \A w \in Workers : SF_vars(Progress(w))

FairSpec == Spec /\ Fairness

-----------------------------------------------------------------------------
(* Correctness *)

TypeOK ==
  /\ issue \in [Fingerprints -> IssueRow \union {NoIssue}]
  /\ events \subseteq EventRow
  /\ snapshots \subseteq JobIds
  /\ projectLive \in BOOLEAN
  /\ clock \in 0 .. MaxJobs
  /\ resolvedAt \in [Fingerprints -> Nat]
  /\ pc \in [Workers -> {"idle", "begun", "read", "written", "committed"}]
  /\ payload \in [Workers -> Payload \union {None}]
  /\ now \in [Workers -> Nat]
  /\ seen \in [Workers -> IssueRow \union {NoIssue}]
  /\ draft \in [Workers -> IssueRow \union {NoIssue}]
  /\ retried \in [Workers -> BOOLEAN]

EventsOf(f) == {e \in events : e.fp = f}

\* What an issue looks like from outside, for IssueLedger.
SeenCount(f)   == IF issue[f] = NoIssue THEN 0 ELSE issue[f].timesSeen
RecordedIds(f) == {e.id : e \in EventsOf(f)}
OpenerIds(f)   == {e.id : e \in {x \in EventsOf(f) : x.isNew}}

\* timesSeen is exact: whatever transactions overlapped, conflicted, retried
\* or rolled back, an issue counts each recorded event of its fingerprint
\* once, and no event is without its issue (process.ts:76-151).
CountsEveryEvent ==
  \A f \in Fingerprints :
    IF issue[f] = NoIssue
      THEN EventsOf(f) = {}
      ELSE issue[f].timesSeen = Cardinality(EventsOf(f))

\* One retry is enough (process.ts:203-212): an attempt made after a conflict
\* finds the issue that caused it, so it cannot conflict again and lose the
\* event, unless the whole project has gone.
RetryFindsIssue ==
  \A w \in Workers :
    pc[w] = "read" /\ retried[w] /\ projectLive => seen[w] # NoIssue

\* No regression is missed (process.ts:74-85): once an event received after
\* the latest resolve is recorded, the issue is not resolved any more, even if
\* other workers read or wrote it in between.
NoMissedRegression ==
  \A e \in events :
    e.receivedAt > resolvedAt[e.fp] => issue[e.fp].status # "resolved"

\* The regressions recorded since a user last resolved the issue.
Regressions(f) == {e \in EventsOf(f) : e.isRegression /\ e.receivedAt > resolvedAt[f]}

\* An issue regresses twice after one resolve only by transactions that
\* overlapped (process.ts:59-74,136): when a worker records a regression, every
\* other one since the latest resolve was recorded after this worker's read, so
\* there are no more of them than the counter has gained since that read.
RegressionsOverlap ==
  [][\A w \in Workers :
       LET f == payload[w].fp IN
       (pc[w] = "written" /\ EventOf(w) \in events' \ events /\ Regressed(seen[w]))
         => Cardinality(Regressions(f)) + seen[w].timesSeen <= issue[f].timesSeen
    ]_vars

\* The level shown for an issue is that of one of its events and at least as
\* severe as the event that opened it (process.ts:82-84).
LevelJustified ==
  \A f \in Fingerprints : issue[f] # NoIssue =>
    /\ \E e \in EventsOf(f) : e.level = issue[f].level
    /\ \A e \in EventsOf(f) :
         e.isNew => SeverityRank[e.level] <= SeverityRank[issue[f].level]

\* Grouping implements the ledger: each commit records one event, counted once,
\* in the issue of its fingerprint, and exactly the first one opens the issue
\* (returns isNew, on which the new_issue alert depends).
Ledger == INSTANCE IssueLedger WITH
  EventIds  <- JobIds,
  timesSeen <- [f \in Fingerprints |-> SeenCount(f)],
  ledger    <- [f \in Fingerprints |-> RecordedIds(f)],
  opener    <- [f \in Fingerprints |-> OpenerIds(f)]

ImplementsLedger == Ledger!Spec

\* No lock cycle and no endless retry: every processEvent call returns or
\* throws (process.ts:199-213).
EveryCallEnds == \A w \in Workers : []<>(pc[w] = "idle")

(* What the documentation says and concurrent workers break *)

\* knowledge/database/data-model.md:58: isRegression is true only on the very
\* event that takes a resolved issue back to unresolved, so after a resolve
\* there is one such event.  Two come from two transactions that both read the
\* issue while it was resolved.
RegressionIsOneEvent ==
  [][\A e \in events' \ events : e.isRegression =>
       ~\E d \in events : /\ d.fp = e.fp /\ d.isRegression
                         /\ d.receivedAt > resolvedAt[e.fp]
    ]_vars

\* knowledge/architecture/ingestion-pipeline.md:61: level = max(existing, new),
\* so no recorded event is more severe than its issue.
LevelIsMaximum ==
  \A e \in events : SeverityRank[e.level] <= SeverityRank[issue[e.fp].level]
=============================================================================
