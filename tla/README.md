# Mini-Sentry: a verification project

TLA+ models of the Mini-Sentry error tracker (`src/packages`: `server`, `sdk`,
`dashboard`), TLC runs that check them on small instances, and proofs, checked
by TLAPS, that the main safety properties hold for every value of the
constants. Paths below are relative to `src/`; `server/` stands for
`packages/server/src/`, `dashboard/` and `sdk/` for the directories of `packages`.

## 1. The system

A browser SDK sends errors to an HTTP API, which queues them in BullMQ (Redis).
A worker process takes the jobs, ten at a time, groups events into issues in
Postgres, and dispatches alerts by mail or Slack. A dashboard shows issues,
replays and source-mapped stack traces to the members of a project.

    SDK --POST store--> ingest routes --add--> BullMQ --job--> worker
     |                                                    processEvent --> Issue, Event, EventSnapshot
     |                                                    processAlertsForEvent --> Notification --> mail / Slack
     +--POST replay--> replay route --upsert--> EventReplay
    dashboard --REST--> auth, projects, members, alert rules, issues, source maps --> Postgres
    BullMQ scheduler --cron--> retention worker --batch DELETE--> EventReplay, EventSnapshot, Event, SourceMap

All server state is in Postgres and Redis. Postgres runs at READ COMMITTED (no
`isolationLevel` is given anywhere), so **every statement of an interactive
transaction is a step of its own**: a read may be stale when it is used.

### Inventory

| Component | State | Operations | Hard behaviour | What makes it correct |
|---|---|---|---|---|
| Grouping (`server/modules/events`) | `Issue`, `Event`, `EventSnapshot` | `processEvent`; `updateIssueStatus`, `deleteProject` beside it | overlapping transactions of up to ten jobs per process, unique-key conflict and its one retry, rollback, snapshot outside the transaction | every recorded event counted once; one event opens an issue; no regression missed; level justified |
| Alert dispatch (`server/notifications`) | `AlertRule`, `Notification` | `processAlertsForEvent`, `evaluateAlerts`, `claimNotification`, `finalizeNotification` | advisory lock, `since` computed before it, failed and pending rows, a crash between claim and outcome, one rejected branch among several | notifications spaced by the dedupe interval; `sent` is honest; nothing stays pending unexplained |
| Ingest and queue (`server/modules/ingest`, `lib/queue.ts`, `worker.ts`) | Redis jobs | POST handler, `enqueueIngestEvent`, job handler | at-least-once execution: stalled jobs, retries, lost answers, re-posted events, bounded memory of finished jobs | accepted events are kept; completed means recorded; duplication is bounded and explained |
| Source maps, symbolication (`server/modules/sourcemaps`, `resolveStacktraces` in `modules/issues`) and retention (`server/modules/retention`) | `SourceMap`, `Event.symbolicated`, rows past their retention | upload, delete, read-through cache fill, `pruneRetention` | a fill racing an invalidation that is a statement of its own, a writer that dies between its two statements; batches that fail half-way while rows arrive | a cached trace is that of the stored maps; a pass ends, takes what is old, and no map of a release with events |
| Accounts (`server/modules/auth`) | `User.passwordHash`, `RefreshToken` | register, login, rotate, revoke, change password | two rotations of one token; rotation or login during a password change; reuse detection | a password change ends other sessions; one usable token per session |
| Dashboard session (`packages/dashboard/src/api.ts`, `auth.tsx`) | access token, user, `refreshPromise` of each tab; the cookie of the browser | `restoreSession`, `request`, `refresh`, login, logout, password form | coalesced refresh, answers lost or after logout, several tabs on one cookie | a tab never trips the reuse detection alone; every call ends |
| Workspace (`server/modules/projects`, `alert-rules`, assignees and comments in `issues`) | `Project`, `ProjectMember`, `ProjectKey`, `AlertRule`, `Issue.assigneeId`, `IssueComment` | create, update, delete, rotate | permission, limit and uniqueness checks in statements before the write | the founder stays owner; rules stay well-formed; limits and slugs are missed only through rivals; writes were authorised |
| SDK (`packages/sdk`) | replay buffer, deferred uploads, map limiter | `init`, `close`, capture, `wireMapErrors` | the timer against `close` and a new `init`, the buffer trimmed while recording, tumbling windows | a replay starts with a full snapshot once there is one and covers the error; floods are bounded |
| Replay endpoint and viewer (`server/modules/replay`, `dashboard/src/replay*`, `IssueDetailPage.tsx`) | `EventReplay`; the mounted player | upsert; the `ready` / payload exchange | uploads late, reordered or lost; `ready` races the frame's load event; refetching moves the selection | the recording of the selected event is rendered exactly once |
| Fingerprint, enrichment, payload schema | none | pure functions | none | abstracted: only "same fingerprint or not" matters to grouping |
| Statistics and listings, HTTP plumbing, UI pages, migrations, demo app | none of their own | queries, rendering | none | not modelled |

## 2. Modules

| Module | Models | Kind |
|---|---|---|
| `IssueLedger` | what grouping promises: `Record` and `Purge`, each indivisible | abstract specification |
| `IssueGrouping` | `processEvent` statement by statement, concurrent workers, users | detailed specification, implements `IssueLedger` |
| `AlertEvaluator` | `evaluateAlerts` as operators | pure |
| `AlertDispatch` | `processAlertsForEvent`, concurrent jobs, rule changes, failures, crashes | specification, extends `AlertEvaluator` |
| `IngestPipeline` | POST handler, queue, job handler | composition: records through an instance of `IssueLedger`; the alert phase is `AlertDispatch`'s, reduced to its outcome |
| `AlertRuleShape` | validation and normalisation of an alert rule | pure |
| `Workspace` | the requests of a project's members and the creation of projects | specification, extends `AlertRuleShape` |
| `SessionService` | one account: credentials, refresh tokens, exchanges with any client | specification; the promise the dashboards rely on |
| `DashboardSessions` | tabs and browsers signed in to that account | composition: every server step is one of `SessionService` |
| `ArtifactMatch` | which map resolves a frame, against a reference definition | pure |
| `ReleaseArtifacts` | source maps, the cache of resolved traces, retention | specification, extends `ArtifactMatch` |
| `SdkReplay` | the SDK in one page: recording, deferred upload, map limiter | specification |
| `ReplayPath` | uploads, the issue page, the viewer | composition with `SdkReplay` |
| `...Proofs` | theorems about the module of that name | proofs |
| `MC...` | constants for TLC | model-checking instances |

### State and actions against the code

**IssueGrouping.** `issue`, `events`, `snapshots`, `projectLive` are the committed
tables. A worker's `pc` walks through `processEventOnce`: `begun` (before
`findUnique`), `read`, `written` (the update or create has run and holds the row
lock or the unique key), `committed` (only the snapshot is left). `seen` is the row
`findUnique` returned: the update computes `level` and `status` from it while
`timesSeen` is incremented in place (`UpdatedRow`). `FingerprintConflict` is the
P2002 caught in `processEvent`: the whole of `processEventOnce` is repeated once, a
second conflict is thrown. `Abort` covers timeouts, serialization and connection
errors, deadlock victims and a worker that dies: Postgres rolls back and the
queue decides what happens next. `WriteOrphan` is the update that finds no row
(P2025) or the create without a project (P2003). Users' `SetStatus` and
`DeleteProject` are single statements and wait for row locks. Membership checks
before them read another table and decide only whether the action happens.

**AlertDispatch.** A job's `phase` follows the awaits up to the fan-out, a branch's
`stage` the awaits in the callback of `Promise.all`. `Prepare` fixes `start`, the
instant `since` is computed from, before `Lock`: the wait for the lock lies
between them. `Insert` is the create and the commit, and gives the lock back; the
answer to a commit can be lost. `Send` can deliver, refuse, or deliver and still
raise (the 10 s abort signal). Whether mail can be delivered at all is a constant of
the worker, `hasSmtpCredentials`: without them nodemailer's jsonTransport resolves and
delivers nothing (`notifier.ts:28-33,79-85`), and the row is recorded as `sent` (`Reaches`).
A rejected branch fails the job for the queue, which `IngestPipeline` models, while the job's other branches go on.
`evaluateAlerts` compares floating-point quotients: where both sides are equal on
paper either answer is possible (`SpikeAnswers`).

**IngestPipeline.** `Post` is the whole handler. `Take`, `Stall`, `Retry`, `Leave` and
`Forget` are BullMQ's, external to this repository and written from the options
`lib/queue.ts` and `worker.ts` pass (three attempts; 1000 completed and 5000 failed
jobs remembered; the default `maxStalledCount` of one). A slot that lost its job's lock does
not know and goes on, so two executions of one job can overlap. `RecordEvent`,
`EvaluateAlerts` and `Return` are the handler in `worker.ts`. `RecordEvent` may run
again for a job whose earlier execution has recorded already: nothing in
`processEvent` looks for it, as the comment at `worker.ts:21` says.

**Workspace.** A request's `pc` names the statement it is about to execute: the
permission check (`check`), the reads a handler makes after it (`project`, `key`,
`count`, `member`, `comment`, `moderate`) and the write, with what the reads
returned in `local`. Between them nothing is locked, so a row can be gone or a role
changed when the write comes (`RowLost` is Prisma's P2025 and P2003). The founder's
protection (`ProtectsFounder`) depends on the request alone. `RuleRequests` go
through `AlertRuleShape`, in which a rule is a record of the columns that are set:
`ParsedInput` is what zod makes of a body (defaults included), `Merged` and
`Normalized` what `parseMergedAlertRule` stores, `WrittenRule` is computed in one
transaction from the row read before. `LookUpSlug` and `CreateProject` are the two
statements between which another creation can take the slug; `SlugConflict` is a lost
attempt, which is repeated or, as the last one, answered 409. `standing`, `rivals`
and `racing` are history for checking: the roles held since a request arrived, the
projects others created since it looked, the rule creations that overlapped.

**SessionService.** An *exchange* is one HTTP request with the account; its `stage`
tells which statement comes next. Rows of `RefreshToken` are numbered in the order
of their commits. A rotation is `FindToken` (the read that decides) and `Rotate`
(the transaction); a token found revoked makes the exchange `reused`, and `RevokeAll`
revokes every token of the user. A password change is `VerifyChange`, `Sweep` (the
`updateMany`, which sees the rows committed before it began) and `ChangePassword`
(its effect with the commit). `Token.root`, `by`, `born` and `forked` are history.

**DashboardSessions.** A tab has its in-memory `accessToken`, `user` and
`refreshPromise`; tabs of one browser share a `cookie`. `Begin` is a fetch with
credentials, `Deliver` the arrival of its answer, in which the browser applies
`Set-Cookie` and the page its handler; an answer can be lost after the server has
acted. `Unauthorized` and `Resumed` are the 401 path of `request`: join or start the
refresh, then retry once. `disturbed` is history: the browsers for which the cookie
may have been revoked by a lost answer, overlapping requests or another device.

**ReleaseArtifacts.** `rows` are the rows of the four tables the pass deletes from,
`old` those past their retention, `content` the data of each map, `trace` the cached
resolution of an event as a set of (frame, artifact, version), `fresh` the maps whose
data is new whatever their `createdAt`. A writer stores or deletes (`UploadSourceMap`,
`DeleteSourceMaps`) and clears the caches of the release in a second statement
(`Invalidate`), or fails in between. A reader takes a page of events, reads for each of
their releases the names and then the data, and when all are resolved writes the traces
event by event (`FillCache`). An execution of the retention job takes a target, fixes its
cutoff, and deletes batch by batch until a batch is not full (`Drained`). A DELETE is two
steps: `SelectBatch` is the snapshot in which its subquery picks rows up to the limit (and,
for maps, sees no event of their release), `DeleteBatch` the commit, which deletes and counts
what is left of them. In between, events commit, maps are deleted, a project goes with
all that cascades (`DeleteProject`), and other executions of the job delete: concurrency 1
(`worker.ts:51`) is per process, and a job that counts as stalled is taken again. A failed
attempt starts from the first target. `watch` is history for checking, of each
execution: what was old as it began (`mustGo`), events that committed while its DELETE
ran (`late`), tables in which somebody else deleted what it counts on (`disturbed`);
`raced` are the events whose cache a reader filled past a writer, or a writer or a DELETE
left behind.
What `resolveTracerName` picks is `ArtifactMatch`: its loop over the loaded names, and the
longest suffix it is to find.

**SdkReplay and ReplayPath.** `recorders` holds per client what rrweb emitted and
what `trimReplayBuffer` kept; `timers` are the uploads that wait for
`REPLAY_FLUSH_DELAY_MS`. rrweb's checkouts and the page's clock are environment.
A page either records or has a map (the two share no state); a map can be wired again, which
starts a fresh counter (`WireMap`), and `forwards` are the errors sent since. `Arrive`
delivers an upload in any order or not at all. `frame` is the mounted player: whether its load
event and its script have run, its inbox, how often it rendered. Messages of a
frame that was replaced are recognised by `event.source`, here the frame's number.

## 3. Runs

### 3.1 Instances

| Run | Instance | Distinct states | Question |
|---|---|---|---|
| `grouping` | 2 workers, 1 fingerprint, 2 levels, jobs with and without a snapshot, 3 jobs | 318,086 | Is grouping exact under overlapping transactions, and an implementation of the ledger? |
| `grouping_level` | the same | violation | Is an issue's level the maximum over its events? It is not. |
| `alerts` | 2 jobs, 1 issue, 1 rule that users change between new-issue (mail) and spike (Slack), no SMTP credentials, time 0..2 | 500,620 | Are notifications spaced, honest and settled? |
| `alerts_suppressed` | the same | violation | Is an alert suppressed only by one that was sent? It is not. |
| `pipeline` | 2 requests with one event id, another event of the issue, 2 slots, 3 attempts | 109,652 | What does at-least-once execution keep, and how much can it duplicate? |
| `workspace` | founder and another owner, 3 requests of which 2 overlap, rule limit 1, 2 attempts at a slug | 372,365 | What do checks made before an unlocked write guarantee? |
| `workspace_assignee` | the same | violation | Is the assignee a member when the assignment is written? Not always. |
| `workspace_patch` | the same | violation | Does a patch leave the fields it does not name alone? `isActive` it does not. |
| `sessions` | 2 browsers, 3 tabs, 2 parallel calls in one tab, 4 tokens, 2 passwords | 70,530 | Who is signed in after rotations, password changes, lost answers and logouts? |
| `sessions_password` | 2 browsers, 2 tabs | violation | Does the session that changed the password keep working? It does not. |
| `artifacts` | 1 event with snapshot and replay, 2 releases, 1 artifact name, 1 reader, 1 writer, 2 executions of 2 attempts; either 1 page read, 1 write and 1 execution, or 2 that overlap | 282,705 | Are cached traces those of the stored maps, and does retention delete what it should and no more? |
| `replay` | 2 clients in a page, 2 captured errors, 3 players, time 0..3 | 886,790 | Is what the SDK uploads playable, and played once? |

### 3.2 Properties

- `grouping`: `TypeOK`; `CountsEveryEvent` (timesSeen equals the number of events
  recorded); `RetryFindsIssue` (one retry after P2002 is enough); `NoMissedRegression`
  (an event after a resolve leaves the issue unresolved or ignored, whoever wrote
  in between); `RegressionsOverlap` (when a worker records a regression, every other
  one since the latest resolve was committed after this worker's read); `LevelJustified`
  (what survives of level = max); `ImplementsLedger` (refinement; it includes that exactly one event returns `isNew`); `EveryCallEnds`.
- `alerts`: `TypeOK`; `Spaced` (two notifications of one rule and issue are more
  than the dedupe interval apart, which covers the once-only new-issue alert);
  `SentMeansDelivered` (nothing is delivered twice, and `sent` is recorded of what was
  delivered, or of mail of a worker without SMTP credentials); `PendingExplained`;
  `BranchesSettle`.
- `pipeline`: `TypeOK`; `AcceptedIsKept`; `CompletedMeansRecorded`;
  `OnceUnlessDisturbed`; `BoundedDuplication`; `NewIssueAnnounced`; `JobsSettle`.
- `workspace`: `TypeOK`; `RulesWellFormed` (also when
  overlapping patches merge with one earlier row); `LimitUnlessRacing` (the limit is
  exceeded only by creations that overlapped, and by fewer than those);
  `ConflictNeedsRivals` (each lost attempt at a slug is another creation's win, the one
  answered 409 included: it takes as many rivals as attempts); `OnlyAuthorizedWrites`
  (what remains of the permission checks: the caller, and the user assigned, had the role
  at some time since the request arrived); `ActiveKeyKept` (a step after which a live
  project has lost its last active key is a request that switches a key off, never a
  rotation, whatever it overlaps).
- `sessions`: `TypeOK`; `LiveSinceLastChange` (no token older than the last password
  change is usable; one committed while it revokes can be); `OneLiveToken` (unless two
  rotations of one token overlapped); `ReuseNeedsCause` (parallel 401s of one tab
  never trip the reuse detection; lost answers, overlapping tabs and other devices
  do); `CallsEnd`.
- `artifacts`: `TypeOK`; `StaleOnlyByRace` (a stale cache needs a writer between its
  statements, one that died there, one that overtook the reader, or a DELETE of the
  retention that took maps of a release whose event it had not seen);
  `ResolutionKept` (other than by an upload or a deletion, no step changes what the trace
  of a remaining event resolves to, unless the event was committed while a DELETE that
  ends with this step was running); `DrainedAtEnd` (an execution that completes leaves
  nothing that was old when it began, over failed attempts and new rows, except maps of
  releases with events and tables in which somebody else deleted rows of its batch, or,
  for maps, events); `PassEnds`.
- `replay`: `TypeOK`; `ReplayCoversError` (once the page has a full snapshot an upload starts
  with one and has all of the window after it; it belongs to the client that captured the
  error);
  `MapFloodBounded` (at most twice the cap in any window of one wiring); `RenderedOnce`.

`artifacts` also evaluates the assumption `MatchAssumption`: for all frames of up to
three segments and all sets of up to three names, in every order of loading,
`resolveTracerName` picks the longest suffix; `ArtifactMostSpecific` proves it of paths and
finite sets of names of any size.

### 3.3 Where code and documentation differ

The violation runs:

1. `grouping_level`: `knowledge/architecture/ingestion-pipeline.md:61` says
   `level=max(existing, new)`. The maximum is taken over a row read earlier and written as
   a literal (`process.ts:82-84`): the severe level of an overlapping event can be
   overwritten.
2. `alerts_suppressed`: `knowledge/api/alerts-api.md:68` says an alert is suppressed if a
   notification was already *sent* within the interval. `claimNotification` counts rows
   of any status (`service.ts:143-150`): after a failed delivery the next event's alert is
   suppressed as well, for new-issue rules for good.
3. `workspace_patch`: `knowledge/api/alerts-api.md:41` says of PATCH that only the fields to
   change are sent. `isActive` has a default (`alert-rules/schemas.ts:27`) that survives
   `.partial()` (`:119`), so a patch that does not name it switches a disabled rule on.
4. `workspace_assignee`: `issues/service.ts:609-612` says that check and update of an
   assignee share a transaction, so that a member removed in between cannot slip
   through. At READ COMMITTED and without a lock a removal commits between the two
   statements, and the issue is assigned to a non-member.
5. `sessions_password`: `dashboard/src/auth.tsx:71-72` says that after a password change the
   current session keeps working. The other devices' tokens are revoked without a mark of
   why (`auth/service.ts:187`); the first of them to refresh is taken for a token thief
   and every session of the user is revoked (`:224-238`), the changer's too. A refused
   refresh does not clear the cookie, so this repeats.

Seven more are stated as properties at the end of their modules, each with a
configuration in which TLC finds the counterexample (`tlc -config X.cfg MC...`). They are
not among the runs above.

6. `grouping_regression.cfg`, `RegressionIsOneEvent`: `knowledge/database/data-model.md:58` says
   `isRegression` is true only on the very event that takes a resolved issue back to
   unresolved. Two overlapping workers that both read the resolved row (`process.ts:59-74`)
   both record it, though the first to commit has reopened the issue. The trace: an event
   opens the issue, a user resolves it, both workers read the resolved row, then
   both update and commit, one after the other. `RegressionsOverlap` is what holds.
7. `alerts_unsent.cfg`, `SentIsDelivered`: `knowledge/database/data-model.md:101` says the row
   is updated to `sent` or `failed` by the result of the sending. Without SMTP credentials
   the transport resolves and delivers nothing (`notifier.ts:28-33`, as
   `knowledge/config/environment.md:42` says of it), and the row says `sent`.
   `SentMeansDelivered` names the exception.
8. `sessions_others.cfg`, `OtherDevicesLoggedOut`: `auth/service.ts:183-184` says a password
   change revokes every session atomically. A rotation of another device that
   commits after the `updateMany` has run and before the change commits leaves that device a
   usable token. `LiveSinceLastChange` is what holds.
9. `replay_anchor.cfg`, `ReplayAnchored`: `sdk/src/sessionReplay.ts:10,23-25` and
   `knowledge/architecture/sdk.md:253` say that a replay always begins with a full snapshot. rrweb takes
   its first one when the page has loaded; for an error before that the buffer is uploaded
   without one and cannot be played. `ReplayCoversError` speaks of uploads after it.
10. `retention_drained.cfg`, `ShortBatchDrains`: `prune.ts:142` says a short batch means that
    the table is drained. The count is of rows this DELETE deleted; when
    an overlapping execution, a user or a cascade has deleted a row its subquery picked,
    the batch is short, the target ends, and older rows stay until the next pass.
    `DrainedAtEnd` names the exception.
11. `retention_active.cfg`, `ActiveReleaseKeepsMaps`: `prune.ts:160-161` says the maps of a
    release stay as long as one of its events survives. `NOT EXISTS` sees the snapshot of its
    statement: an event that commits while the DELETE runs loses them.
    `ResolutionKept` names the exception.
12. `retention_grace.cfg`, `NoNewMapPruned`: `prune.ts:163` and `knowledge/ops/retention.md:43` say
    that the grace clause protects maps that were just uploaded. It looks at `createdAt`,
    which the upsert's update leaves alone (`sourcemaps/service.ts:97-100`): a map uploaded
    again for a release without events is deleted by the next pass.

With no promise in the repository to check it against: two rotations of one key leave two
new active keys (`projects/service.ts:646`); a logout whose request fails leaves cookie and
token in place, and a reload signs in again.

### 3.4 Bounds, deadlock and fairness

**Bounds and why they suffice.** Grouping and alerts conflict pairwise: a row
lock, the unique key and the advisory lock each order two parties, and a third only
repeats what the second does. Three jobs on two workers let a worker take
part in two generations of one issue (create, resolve, reopen). Fingerprints do not
interact (each has a row and key of its own), so one is enough for TLC and the
proofs cover the rest. `MaxTime = 2` covers an expired and an unexpired
interval of one minute. `Attempts = 3` and `MaxStalled = 1` are the code's.
Two incarnations of a job
can leave `(3 + 1) * 2 = 8` copies; `MaxCopies = 9` leaves room for one too many, which no
reachable state has, so the bound never cuts off an execution.

In `workspace` a hazard is a check, a rival's write and one's own write: two requests in
flight, and a third that was served before to set the scene. `MCAreas` lets
requests of tables that share no row arrive in separate behaviours; members'
roles, which every permission check reads, change in all but the last, which is
about slugs and limits. `RuleLimit = 1`,
`MaxAttempts = 2` and `SlugTries = 3` are small so that limits are met; the proofs hold
for the code's 50, 5 and 25. In `sessions` four tokens allow two sessions and a rotation
of each, or a session, a password change and two rotations; tabs of one browser, two
calls of one tab and a second device are the three ways to overlap. In `artifacts` one
map per release is enough, for which map of a release is chosen is pure: it is the assumption
`MatchAssumption` for TLC and the theorem `ArtifactMostSpecific` in general, and a second release, without
events, has the maps that are pruned. `Spent` makes two
instances of one run: a page read, a replay or map written and one execution, and two
executions that overlap with each other, arriving events and the project's deletion; all
of it at once is left to the proofs. `BatchSize = 1` makes every row a batch; two attempts
include the one after a failure (the code has three, which repeat it); the targets of
`Enabled` are events, with their snapshots, and maps, which differ; replays and
snapshots are deleted by the same steps as events, and `ArtifactDrained` covers them. In `replay` the window is two checkouts, so that
trimming drops a snapshot and keeps one; three players cover a selection, a change
and the way back.

`MaxJobs`, `MaxTime`, `MaxCopies`, `MaxRequests`, `MaxInFlight`, `Areas`, `MaxTokens`, `MaxOps`,
`MaxExpired`, `MaxWrites`, `MaxReads`, `MaxPasses`, `Spent`, `Ages`, `MaxInits`, `MaxEmits`,
`MaxCaptures`, `MaxForwards` and `MaxFrames` are the artificial bounds.

**Deadlock.** `CHECK_DEADLOCK FALSE` in all of them: with the bounded supply of jobs,
requests, operations or time used up the system legitimately rests. That nobody
waits for ever is `EveryCallEnds`, `BranchesSettle`, `JobsSettle`, `CallsEnd` and `PassEnds`.

**Fairness.** Workers' own steps are strongly fair in grouping and dispatch
(`Progress`, `Continue`): Node runs a promise whose answer has arrived, and Postgres
serves lock waiters in order, so a waiter is not passed over for ever. Failures,
crashes, users and time are never fair. In the pipeline a free slot takes a waiting
job (strong: slots alternate between busy and free), a running execution goes on
(weak), and BullMQ's stalled check eventually finds an active job without an owner;
expiry of a lock whose owner lives is possible but not promised. In `sessions` a request
that reached the server goes on and every fetch resolves or rejects (weak; a failure is
one of the outcomes of `Serve` and a lost answer one of `Deliver`); users need do
nothing. In `artifacts` a worker goes on with an execution it has taken, or fails it (weak, of each):
`PassEnds` then needs that attempts run out and that each batch of what the cutoff
dooms is smaller, since rows that arrive later are younger than the cutoff.
`workspace` and `replay` state no liveness and assume no fairness.

## 4. Proofs

| Theorem | Module | Establishes |
|---|---|---|
| `TypeCorrect` | `IssueGroupingProofs` | `Spec => []TypeOK` |
| `CountsCorrect` | | `Spec => []CountsEveryEvent` |
| `OneRetrySuffices` | | `Spec => []RetryFindsIssue` |
| `RegressionsReopen` | | `Spec => []NoMissedRegression` |
| `RegressionsOnlyOverlap` | | `Spec => RegressionsOverlap` |
| `LevelsJustified` | | `Spec => []LevelJustified` |
| `GroupingImplementsLedger` | | `Spec => Ledger!Spec` |
| `TypeCorrect` | `AlertDispatchProofs` | `Spec => []TypeOK` |
| `NotificationsSpaced` | | `Spec => []Spaced` |
| `SentIsHonest` | | `Spec => []SentMeansDelivered` |
| `PendingIsExplained` | | `Spec => []PendingExplained` |
| `SteadyTrafficIsQuiet` | | a spike rule with a multiplier above one does not fire on traffic at a constant rate |
| `TypeCorrect` | `IngestPipelineProofs` | `Spec => []TypeOK` |
| `AcceptedStays` | | `Spec => []AcceptedIsKept` |
| `CompletedIsRecorded` | | `Spec => []CompletedMeansRecorded` |
| `NewIssuesAnnounced` | | `Spec => []NewIssueAnnounced` |
| `RecordedOnce` | | `Spec => []OnceUnlessDisturbed` |
| `DuplicationBounded` | | `Spec => []BoundedDuplication` |
| `PipelineKeepsLedger` | | `Spec => Ledger!Spec`: the issues behave as the ledger says |
| `PipelineCountsCopies` | | an issue counts its event rows, duplicates included; one of them opened it |
| `WorkspaceTypes` | `WorkspaceProofs` | `Spec => []TypeOK` |
| `FounderSafe` | | `Spec => []FounderStaysOwner` |
| `RotationsKeepAKey` | | `Spec => ActiveKeyKept` |
| `ConflictsNeedRivals` | | `Spec => ConflictNeedsRivals` |
| `LimitHoldsUnlessRacing` | | `Spec => []LimitUnlessRacing` |
| `RulesStayWellFormed` | | `Spec => []RulesWellFormed` |
| `PatchKeepsOtherColumns` | | a patch keeps the columns it does not name, but for `isActive` |
| `WritesAreAuthorized` | | `Spec => OnlyAuthorizedWrites` |
| `ChangeEndsSessions` | `SessionServiceProofs` | `ServerSpec => []LiveSinceLastChange` |
| `RotationReplaces` | | `ServerSpec => []OneLiveToken` |
| `DashboardsAreClients` | `DashboardSessionsProofs` | `Spec => ServerSpec`: the dashboards are a client of the server |
| `AccountsStaySound` | | both guarantees of the account in the composition |
| `DashboardTypes` | | `Spec => []TypeOK` |
| `ReuseIsCaused` | | `Spec => []ReuseNeedsCause` |
| `ArtifactMostSpecific` | `ReleaseArtifactsProofs` | the loop of `resolveTracerName` gives the longest suffix, for every frame and finite set of names |
| `ArtifactTypes` | | `Spec => []TypeOK` |
| `ArtifactCache` | | `Spec => []StaleOnlyByRace` |
| `ArtifactResolutionKept` | | `Spec => ResolutionKept` |
| `ArtifactDrained` | | `Spec => []DrainedAtEnd` |
| `ReplayCovers` | `ReplayPathProofs` | `Spec => []ReplayCoversError` |
| `ReplayFlood` | | `Spec => []MapFloodBounded` |
| `ReplayTypes` | | `Spec => []TypeOK` |
| `ReplayRenderedOnce` | | `Spec => []RenderedOnce` |

They hold for any number of workers, slots, jobs, rules, issues, users, requests, browsers,
tabs, calls, tokens, events, releases, maps, readers, writers, clients and players, any
window, period and batch size, and any bound. The assumptions are those named
`...Assumption` in the modules: constants are well-typed, and the null values differ
from the values they stand in for.

**Grouping.** `CountsEveryEvent` is not inductive: a commit writes `draft`, made
earlier, and its counter is right only if no other commit came between. The
inductive invariant adds that two open transactions never hold the
same key, that a draft still counts exactly one event more than its
issue has (or is the first), that job ids in progress are distinct and have no event
yet, and that an attempt after a conflict knows that the issue exists while the
project does. The refinement then maps `Commit` to `Record`, `DeleteProject` to
`Purge` and every other step to a stutter. `NoMissedRegression` needs what an open
transaction knows: a worker whose read a rival has overtaken either saw the resolution,
and undoes it, or has a `now` before it (`SeenFresh`), and a draft never brings a
resolution back (`DraftStatus`, `DraftFresh`). `RegressionsOverlap` needs that from a
worker's read of a resolved issue on, the counter gains no less than the
regressions (`Overlap`): there are none at the read, because of `NoMissedRegression`, and
each commit adds one to the counter. `LevelJustified` needs that the level a
worker read stays backed by events until it writes (`ReadBacked`, `DraftLevel`).

**Dispatch.** `Spaced` needs the invariant to speak of branches that hold the lock
and have yet to insert: `OneHolder` (one per rule and issue) and `NothingCovers`
(what the holder's search found absent is still absent, since only a holder
inserts); `Placed` says which stages have an event and a rule snapshot. `Deliveries`
counts what was handed over per stage, which gives `SentMeansDelivered`;
`PendingExplained` is inductive with `Placed`.

**Pipeline.** The queue's bookkeeping is inductive by itself: only active jobs are locked,
an unfinished job has an attempt left (`IInv`). On it rest the rest: `Recorded`
(an execution past its commit has its event in the database while the project lives) gives
`CompletedMeansRecorded`; `Told` (an execution knows that it opened the issue only if it
did) gives `NewIssueAnnounced`. `OnceUnlessDisturbed` needs `Calm`: an
execution that nothing disturbed holds the job's lock to its end, so no other is beside
it, and it is about to record only if nothing has been recorded since the job was added.
`BoundedDuplication` is a budget: a job is taken again only after a failed attempt, a
stall or a completion, each of which is counted, and an execution records at most once.
`WithinBudget` says that the copies made and the executions that may still make one are
together at most the takes there have been. `PipelineKeepsLedger` closes the composition:
what `GroupingImplementsLedger` shows the transactions to implement is what the pipeline
does to the issues, and `PipelineCountsCopies` follows from it: a duplicated event is
counted twice because it is there twice.

**Workspace.** `FounderStaysOwner` is not inductive: a write does not look at the founder
again. `Screened` says that a membership request is at its write only if it
passed the founder's check, which no other request can undo because it depends on
the request alone. `ActiveKeyKept` is an action property: a rotation ends one key
and adds an active one in the same transaction, so of the steps on keys only the one that
switches a key off can take the last. `ConflictNeedsRivals` is one as well: `Outrun` says that
a creation about to insert a slug that is taken has one rival more than lost attempts,
which the step that fails adds to them.
`LimitUnlessRacing` is proved of the rules stored *and* counted for (`Held`): a count
adds to them, an insertion does not, and a count that makes them exceed the limit
found another creation between its own count and insertion. `RulesWellFormed` needs that
a request at its write has validated the row it carries (`Validated`) and that clearing
unused columns keeps a row valid (`NormalizedIsWellFormed`). `PatchKeepsOtherColumns`
complements the run `workspace_patch`: `isActive` is the only column that a patch changes
without naming it, while the condition stays. `OnlyAuthorizedWrites` rests
on `Allowed`, which says at each statement of a request what its checks have
established. It stays true because the roles seen since the request arrived only grow
(`Witnessed`) and a comment's author never changes: a comment's number is that of the
request that inserted it, so a deletion that found it cannot meet a later comment
under it (`Own`).

**Accounts.** `LiveSinceLastChange` needs `SweepComplete` (what a change in progress has
not revoked was committed after it began) and `OneSweep` (row locks order two changes).
`OneLiveToken` needs `HoldsTheOnly` (a rotation in progress presents the only usable
token of its session) and `ForkNoted` (two rotations of one session at once have been
recorded as a fork). Both are proved of `SessionService` with an arbitrary client.

**Dashboards.** The refinement is by step: every action of a dashboard is one step of an
exchange or leaves the server alone, so what is proved of the server holds in the
composition. `ReuseNeedsCause` rests on `Promised` (a tab has one refresh under
way, which is what `refreshPromise` is for), `Apart` (two browsers never hold one
token) and `Steady` (a browser that nothing has disturbed has one exchange at a
time, and a cookie that is usable or about to be replaced).

**Source maps and retention.** `ArtifactMostSpecific` is an induction over how many names
the loop has seen. The library's induction rule cannot be used (it takes a predicate);
`Induction` states it of a set, from the least element of a set of numbers. `TInv` is the
shape of the tables and requests. `StaleOnlyByRace` is not inductive: a reader carries
names and data from one statement to the next. `CacheInv` says of each stage what holds
of them: a name that is missing (`NamesOK`) or data that is old (`LoadedOK`) is excused by
a writer that has yet to invalidate, that died, or that overtook this reader, and the
excuse stays when the trace is written (`CacheOK`). `ResolutionKept` needs `LateInv`: of the
release of a map that a running DELETE has picked, the only events are those that were
committed since it began.
`DrainInv` follows what each execution has to delete (`mustGo`): of a
target it has done with, only maps of releases with events are left and rows of tables
where somebody else took some of its batch; of its current target only rows past the cutoff;
and when its DELETE picked less than a batch, nothing but what it picked.

**Replay.** `Kept` relates the buffer of a recorder to everything rrweb emitted: it is
everything until the first full snapshot; afterwards it is all that was emitted from some
full snapshot on, with a Meta before it at most, and what was dropped since the first full
snapshot is out of the window. `KeptPushed` shows that pushing an event and trimming keeps
it, for every order of snapshots and any clock; `KeptPlayable` that it gives
`ReplayCoversError`. `UploadsOK` ties timers and uploads to the client that captured.
`MapFloodBounded` needs `WindowAt`: the forwards up to some `a` are a whole `MapWindow`
before the window that is open, those after `a` are at most those of two windows. A
new error is near only to those after `a`. `RenderedOnce` needs `BridgeOK`, the four
states of a payload (not posted, lost, in the inbox, mounted), and `MailOK`: only a
viewer whose script has run has announced itself, so a "ready" never makes the bridge
post too early, and one of a replaced frame has another number (`FrameOK`: the
mounted frame is the last one).

**Only model-checked.** Liveness (`EveryCallEnds`, `BranchesSettle`,
`JobsSettle`, `CallsEnd`, `PassEnds`) is out of the proof system's reach. Every invariant
and every other action property that a passing run checks is proved; `FounderStaysOwner` is
proved without a run.
The violation runs are counterexamples and need no proof.

## 5. What is abstracted or left out

- **Payloads.** `buildFingerprint`, `buildTitle`, `enrich.ts` and the schema are pure; an event
  is its identity, fingerprint, level and whether it carries a snapshot.
- **Counts and messages in dispatch.** `Evaluate` takes the count queries, the evaluation
  and `buildNotificationMessage` as one step: each reads only, and what can change
  between them is the project's existence, of which the message needs the latest value.
- **`markProjectKeyUsed`** writes `lastUsedAt`, which nothing reads but the key list;
  **`updateProfile`** writes the user's name, on which nothing depends.
- **One project** in `IngestPipeline`. A job id is the bare `eventId` (`queue.ts:40`): an
  event of another project with the same id is dropped with 202. No model has two
  projects sharing a queue; it is listed as a hazard.
- **One account** in the session modules: accounts share no row.
- **Clock skew** between worker and database: one clock. With skew, `sentAt` could
  lie outside `start .. clock` and `Spaced` weaken by the skew.
- **A failed job's re-post** is answered 202 and ignored while the failed job is
  remembered; `AcceptedIsKept` says no more than that the queue has a job of this id.
- **Hashes, signatures and cookies.** A password verifies if it is the one stored; an
  access token is valid or expired; the cookie is the token's number.
- **Source map contents.** A version of a map resolves every frame that names it, or does
  not parse; line and column arithmetic, `contextLine` and the reverse scan are left out.
- **SDK.** Breadcrumbs (a ring buffer of one page), the serialised DOM snapshot, sampling,
  the script loader and the payload are left out; a global handler is one more
  `captureException`. rrweb is external.
- **UI.** Height messages, labels and spinners of the player; all other pages.
- HTTP plumbing, rate limits (a refusal is one way for an exchange to fail), statistics,
  listings, migrations and the demo app hold no state that several actors change.

## 6. Plan

1. *(done)* Grouping, dispatch, ingest: the path of an event, with proofs.
2. *(done)* Source maps, symbolication and retention.
3. *(done)* Accounts and dashboards, with proofs and their composition.
4. *(done)* Workspace, with proofs.
5. *(done)* SDK recording, replay path and viewer.
6. *(done)* Proofs of source maps, retention, recording and viewer.
7. A second project in `IngestPipeline`, for the job ids that projects share.
