---------------------------- MODULE IngestPipeline ----------------------------
(***************************************************************************)
(* The path of an event from POST /:projectId/store (modules/ingest) over  *)
(* the BullMQ queue (lib/queue.ts) to the worker's job handler (worker.ts),*)
(* which records it and dispatches its alerts.                             *)
(*                                                                         *)
(* Recording is the atomic step of IssueLedger, which IssueGrouping        *)
(* implements; the alert phase is AlertDispatch, of which only the outcome *)
(* matters here.  BullMQ is external and modelled from the options the     *)
(* code gives it: a job has one id, given by the client's eventId, and an  *)
(* add under an id still known is ignored; a worker holds a lock on its    *)
(* job, and a job whose lock expired is handed out again (stalled), even   *)
(* though its first execution may still be running; a failed job is        *)
(* retried with a delay up to a number of attempts; finished jobs are      *)
(* known until 1000 completed, or 5000 failed, newer ones push them out.   *)
(***************************************************************************)
EXTENDS Naturals, FiniteSets

CONSTANTS
  Requests,       \* POST requests
  Ids,            \* event ids; a request without one gets an id of its own
  Others,         \* events that jobs not followed here may record
  IdOf,           \* the event id of each request
  Fingerprints,   \* keys events are grouped by
  FingerprintOf,  \* the fingerprint of each event
  Slots,          \* concurrent executions the workers offer
  None,           \* no slot, no job
  Attempts,       \* attempts: 3 in the code
  MaxCopies       \* bound: events recorded per id

\* BullMQ's default maxStalledCount, which worker.ts leaves alone.
MaxStalled == 1

\* An event row: the job that made it, and which of the job's rows it is.
EventIds == (Ids \X (1 .. MaxCopies)) \union (Others \X {1})

ASSUME IdOfAssumption == IdOf \in [Requests -> Ids]
ASSUME FingerprintOfAssumption == FingerprintOf \in [Ids -> Fingerprints]
ASSUME NoneAssumption == None \notin Slots \union Ids /\ Others \cap Ids = {}
ASSUME LimitsAssumption == Attempts \in Nat \ {0} /\ MaxCopies \in Nat

VARIABLES
  request,    \* where each request stands
  job,        \* the state of each job the queue knows
  holder,     \* the slot that holds the lock of each active job
  attempts,   \* attemptsMade of each job
  stalls,     \* stalledCounter of each job
  pc,         \* what each slot's execution has done
  work,       \* the job each slot executes
  isNew,      \* the flag processEvent returned to each slot
  forgotten,  \* history: how often each id was pushed out of the queue
  disturbed,  \* history: ids whose execution was cut off, or failed after it
              \* had recorded the event
  announced,  \* history: ids whose alerts were evaluated with isNew
  timesSeen, ledger, opener, projectLive  \* IssueLedger

ledgerVars  == <<timesSeen, ledger, opener, projectLive>>
queueVars   == <<job, holder, attempts, stalls, forgotten>>
slotVars    == <<pc, work, isNew>>
vars        == <<request, queueVars, slotVars, disturbed, announced,
                 ledgerVars>>

Ledger == INSTANCE IssueLedger

Init ==
  /\ request   = [r \in Requests |-> "new"]
  /\ job       = [i \in Ids |-> "none"]
  /\ holder    = [i \in Ids |-> None]
  /\ attempts  = [i \in Ids |-> 0]
  /\ stalls    = [i \in Ids |-> 0]
  /\ pc        = [s \in Slots |-> "idle"]
  /\ work      = [s \in Slots |-> None]
  /\ isNew     = [s \in Slots |-> FALSE]
  /\ forgotten = [i \in Ids |-> 0]
  /\ disturbed = {}
  /\ announced = {}
  /\ Ledger!Init

-----------------------------------------------------------------------------
(* The API: POST /:projectId/store *)

\* Mutant of Add: the id is compared with unfinished jobs only.
AddUnlessPending(i) ==
  IF job[i] \in {"wait", "active"} THEN UNCHANGED <<job, attempts, stalls>>
  ELSE /\ job'      = [job EXCEPT ![i] = "wait"]
       /\ attempts' = [attempts EXCEPT ![i] = 0]
       /\ stalls'   = [stalls EXCEPT ![i] = 0]

\* Queue.add with jobId = eventId.
Add(i) ==
  IF job[i] # "none" THEN UNCHANGED <<job, attempts, stalls>>
  ELSE /\ job'      = [job EXCEPT ![i] = "wait"]
       /\ attempts' = [attempts EXCEPT ![i] = 0]
       /\ stalls'   = [stalls EXCEPT ![i] = 0]

Answer(r, status) == request' = [request EXCEPT ![r] = status]

\* Mutant of Post: 202 is sent without waiting for the queue.
PostWithoutWaiting(r) ==
  /\ request[r] = "new"
  /\ Add(IdOf[r]) \/ UNCHANGED <<job, attempts, stalls>>
  /\ Answer(r, "accepted")
  /\ UNCHANGED <<holder, forgotten, slotVars, disturbed,
                 announced, ledgerVars>>

\* The handler of the POST.  validateProjectKey answers 401 unless the key is
\* known, active and of this project; members may revoke a key at any time.
\* Then enqueueIngestEvent and 202; or 500 when Redis cannot be reached,
\* though the job may have been added before the answer got lost.  A project
\* deleted between the two steps leaves the same state as one deleted after.
Post(r) ==
  /\ request[r] = "new"
  /\ \/ projectLive /\ Add(IdOf[r]) /\ Answer(r, "accepted")
     \/ projectLive /\ Add(IdOf[r]) /\ Answer(r, "error")
     \/ Answer(r, "error") /\ UNCHANGED <<job, attempts, stalls>>
  /\ UNCHANGED <<holder, forgotten, slotVars, disturbed,
                 announced, ledgerVars>>

-----------------------------------------------------------------------------
(* BullMQ *)

\* A slot takes a job and its lock.
Take(s, i) ==
  /\ pc[s] = "idle" /\ job[i] = "wait"
  /\ job'    = [job EXCEPT ![i] = "active"]
  /\ holder' = [holder EXCEPT ![i] = s]
  /\ pc'     = [pc EXCEPT ![s] = "processing"]
  /\ work'   = [work EXCEPT ![s] = i]
  /\ UNCHANGED <<request, attempts, stalls, forgotten, isNew, disturbed,
                 announced, ledgerVars>>

\* The job leaves the state active, and its lock is released.
Leave(i, to) ==
  /\ job'    = [job EXCEPT ![i] = to]
  /\ holder' = [holder EXCEPT ![i] = None]

\* removeOnComplete and removeOnFail: newer jobs have pushed this one out.
Forget(i) ==
  /\ job[i] \in {"completed", "failed"}
  /\ job' = [job EXCEPT ![i] = "none"]
  /\ forgotten' = [forgotten EXCEPT ![i] = @ + 1]
  /\ UNCHANGED <<request, holder, attempts, stalls, slotVars, disturbed,
                 announced, ledgerVars>>

\* Mutant of Stall: a stalled job is handed out again without limit.
StallForever(i) ==
  /\ job[i] = "active"
  /\ Leave(i, "wait")
  /\ disturbed' = disturbed \union {i}
  /\ UNCHANGED <<request, attempts, stalls, forgotten, slotVars, announced,
                 ledgerVars>>

\* The lock of an active job expires: its worker died, or could not renew it
\* in time and does not know.
Stall(i) ==
  /\ job[i] = "active"
  /\ Leave(i, IF stalls[i] < MaxStalled THEN "wait" ELSE "failed")
  /\ stalls' = [stalls EXCEPT ![i] = @ + 1]
  /\ disturbed' = disturbed \union {i}
  /\ UNCHANGED <<request, attempts, forgotten, slotVars, announced, ledgerVars>>

-----------------------------------------------------------------------------
(* The worker's job handler *)

Copies(i) == {e \in UNION {ledger[f] : f \in Fingerprints} : e[1] = i}

\* processEvent commits an event.
RecordEvent(s) ==
  LET i == work[s]
      f == FingerprintOf[i]
  IN
  /\ pc[s] = "processing"
  /\ \E n \in 1 .. MaxCopies :
       /\ \A e \in Copies(i) : e[2] < n
       /\ \A m \in 1 .. n - 1 : \E e \in Copies(i) : e[2] = m
       /\ Ledger!Record(f, <<i, n>>)
  /\ isNew' = [isNew EXCEPT ![s] = (ledger[f] = {})]
  /\ pc'    = [pc EXCEPT ![s] = "recorded"]
  /\ UNCHANGED <<request, queueVars, work, disturbed, announced>>

\* Mutant of EvaluateAlerts: the flag is taken from the database again.
EvaluateAgain(s) ==
  /\ pc[s] = "recorded"
  /\ announced' = announced \union
       {i \in {work[s]} : ledger[FingerprintOf[i]] = {}}
  /\ pc' = [pc EXCEPT ![s] = "alerted"]
  /\ UNCHANGED <<request, queueVars, work, isNew, disturbed, ledgerVars>>

\* processAlertsForEvent evaluates the rules with the result of processEvent.
EvaluateAlerts(s) ==
  /\ pc[s] = "recorded"
  /\ announced' = announced \union {i \in {work[s]} : isNew[s]}
  /\ pc' = [pc EXCEPT ![s] = "alerted"]
  /\ UNCHANGED <<request, queueVars, work, isNew, disturbed, ledgerVars>>

\* The execution is over; the slot is free.
Vacate(s) ==
  /\ pc'    = [pc EXCEPT ![s] = "idle"]
  /\ work'  = [work EXCEPT ![s] = None]
  /\ isNew' = [isNew EXCEPT ![s] = FALSE]

\* Mutant of Return: the handler does not wait for processEvent.
ReturnEarly(s) ==
  /\ pc[s] \in {"processing", "alerted"}
  /\ IF holder[work[s]] = s THEN Leave(work[s], "completed")
                            ELSE UNCHANGED <<job, holder>>
  /\ Vacate(s)
  /\ UNCHANGED <<request, attempts, stalls, forgotten, disturbed, announced,
                 ledgerVars>>

\* The handler returns.  Without the lock BullMQ refuses to finish the job.
Return(s) ==
  /\ pc[s] = "alerted"
  /\ IF holder[work[s]] = s THEN Leave(work[s], "completed")
                            ELSE UNCHANGED <<job, holder>>
  /\ Vacate(s)
  /\ UNCHANGED <<request, attempts, stalls, forgotten, disturbed, announced,
                 ledgerVars>>

\* Mutant of Retry: the number of attempts is not limited.
RetryForever(i) ==
  /\ attempts' = [attempts EXCEPT ![i] = @ + 1]
  /\ Leave(i, "wait")

\* moveToFailed: another attempt (the backoff only delays it), or the end.
Retry(i) ==
  /\ attempts' = [attempts EXCEPT ![i] = @ + 1]
  /\ Leave(i, IF attempts[i] + 1 < Attempts THEN "wait" ELSE "failed")

\* The handler throws: processEvent failed (or committed and lost the answer),
\* or a branch of the alert phase was rejected.
Throw(s) ==
  /\ pc[s] # "idle"
  /\ IF holder[work[s]] = s THEN Retry(work[s])
                            ELSE UNCHANGED <<job, holder, attempts>>
  /\ disturbed' = IF pc[s] = "processing"
                    THEN disturbed ELSE disturbed \union {work[s]}
  /\ Vacate(s)
  /\ UNCHANGED <<request, stalls, forgotten, announced, ledgerVars>>

\* The worker process dies and comes back; Redis keeps the job as active.
Crash(s) ==
  /\ pc[s] # "idle"
  /\ Vacate(s)
  /\ disturbed' = disturbed \union {work[s]}
  /\ UNCHANGED <<request, queueVars, announced, ledgerVars>>

-----------------------------------------------------------------------------
(* Other jobs, and users *)

\* Another job records an event, possibly of the same issue.
RecordOther(o, f) ==
  /\ Ledger!Record(f, <<o, 1>>)
  /\ UNCHANGED <<request, queueVars, slotVars, disturbed, announced>>

DeleteProject ==
  /\ Ledger!Purge
  /\ UNCHANGED <<request, queueVars, slotVars, disturbed, announced>>

-----------------------------------------------------------------------------

\* The job is active but no slot executes it under its lock.
Orphaned(i) == job[i] = "active" /\ (holder[i] = None \/ work[holder[i]] # i)

Handle(s) ==
  \/ RecordEvent(s) \/ EvaluateAlerts(s) \/ Return(s)
  \/ ~projectLive /\ pc[s] = "processing" /\ Throw(s)

Next ==
  \/ \E r \in Requests : Post(r)
  \/ \E i \in Ids : Stall(i) \/ Forget(i) \/ \E s \in Slots : Take(s, i)
  \/ \E s \in Slots :
       RecordEvent(s) \/ EvaluateAlerts(s) \/ Return(s) \/ Throw(s) \/ Crash(s)
  \/ \E o \in Others, f \in Fingerprints : RecordOther(o, f)
  \/ DeleteProject

Spec == Init /\ [][Next]_vars

\* Workers take jobs and go on with them; BullMQ goes on looking for stalled
\* jobs.
Fairness ==
  /\ \A i \in Ids : /\ WF_vars(Orphaned(i) /\ Stall(i))
                   /\ SF_vars(\E s \in Slots : Take(s, i))
  /\ \A s \in Slots : WF_vars(Handle(s))

FairSpec == Spec /\ Fairness

-----------------------------------------------------------------------------
(* Correctness *)

TypeOK ==
  /\ request \in [Requests -> {"new", "accepted", "error"}]
  /\ job \in [Ids -> {"none", "wait", "active", "completed", "failed"}]
  /\ holder \in [Ids -> Slots \union {None}]
  /\ attempts \in [Ids -> 0 .. Attempts]
  /\ stalls \in [Ids -> 0 .. MaxStalled + 1]
  /\ pc \in [Slots -> {"idle", "processing", "recorded", "alerted"}]
  /\ work \in [Slots -> Ids \union {None}]
  /\ isNew \in [Slots -> BOOLEAN]
  /\ forgotten \in [Ids -> Nat]
  /\ disturbed \subseteq Ids /\ announced \subseteq Ids
  /\ timesSeen \in [Fingerprints -> Nat]
  /\ ledger \in [Fingerprints -> SUBSET EventIds]
  /\ opener \in [Fingerprints -> SUBSET EventIds]
  /\ projectLive \in BOOLEAN

\* What was answered 202 is in the queue, or was there until newer finished
\* jobs pushed it out (routes.ts:112-120).
AcceptedIsKept ==
  \A r \in Requests : request[r] = "accepted" =>
    job[IdOf[r]] # "none" \/ forgotten[IdOf[r]] > 0

\* A job BullMQ calls completed has its event in the database, whichever of its
\* executions completed it (worker.ts:20-27).
CompletedMeansRecorded ==
  projectLive => \A i \in Ids : job[i] = "completed" => Copies(i) # {}

\* The eventId deduplicates (queue.ts:37-40): however often an event is posted,
\* it is recorded once for each time its job was new to the queue, unless an
\* execution was cut off or failed after its commit (worker.ts:21-22).
OnceUnlessDisturbed ==
  \A i \in Ids \ disturbed : Cardinality(Copies(i)) <= 1 + forgotten[i]

\* And even then the copies are bounded by the attempts BullMQ allows one job
\* (queue.ts:23-28).
BoundedDuplication ==
  \A i \in Ids :
    Cardinality(Copies(i)) <= (Attempts + MaxStalled) * (1 + forgotten[i])

\* The alerts of a new issue are evaluated with isNew for the job that opened
\* it - and for no other, though jobs overlap and are repeated - unless its
\* execution was cut off between the commit and the alerts (worker.ts:23-26).
NewIssueAnnounced ==
  /\ \A f \in Fingerprints : \A e \in opener[f] : e[1] \in Ids =>
       \/ e[1] \in announced \union disturbed
       \/ \E s \in Slots : pc[s] = "recorded" /\ work[s] = e[1] /\ isNew[s]
  /\ projectLive =>
       \A i \in announced : \E e \in opener[FingerprintOf[i]] : e[1] = i

\* Every job comes to an end, completed or failed, whatever crashes, stalls and
\* failures it meets (queue.ts:23-28).
JobsSettle == \A i \in Ids : []<>(job[i] \notin {"wait", "active"})
=============================================================================
