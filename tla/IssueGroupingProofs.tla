------------------------- MODULE IssueGroupingProofs -------------------------
(***************************************************************************)
(* For any number of workers, fingerprints, payloads and jobs: the types,  *)
(* that timesSeen is exact, that one retry is enough, that no regression   *)
(* is missed and only overlapping transactions repeat one, that levels are *)
(* justified, and that grouping implements IssueLedger.                    *)
(*                                                                         *)
(* CountsEveryEvent is not inductive: a commit replaces the row by the     *)
(* draft, so the draft must already be one ahead of the row (Drafts),      *)
(* which holds because only one open transaction holds a row (OneWriter),  *)
(* and the committed event must be a new element of the set of events,     *)
(* which holds because no two executions and no event share a job          *)
(* (FreshJobs).                                                            *)
(***************************************************************************)
EXTENDS IssueGrouping, FiniteSetTheorems, TLAPS

Running(w) == pc[w] \in {"begun", "read", "written"}

Held ==
  \A w \in Workers : pc[w] # "idle" => payload[w] \in Payload

FreshJobs ==
  /\ \A e \in events : e.id <= clock
  /\ \A w \in Workers : Running(w) =>
       /\ payload[w].id <= clock
       /\ \A e \in events : e.id # payload[w].id
       /\ \A v \in Workers : Running(v) /\ v # w => payload[v].id # payload[w].id

OneWriter ==
  \A v, w \in Workers :
    /\ pc[v] = "written" /\ pc[w] = "written"
    /\ payload[v].fp = payload[w].fp
    => v = w

Drafts ==
  \A w \in Workers : pc[w] = "written" =>
    /\ projectLive
    /\ draft[w] \in IssueRow
    /\ (seen[w] = NoIssue) <=> (issue[payload[w].fp] = NoIssue)
    /\ draft[w].timesSeen =
         IF issue[payload[w].fp] = NoIssue
           THEN 1 ELSE issue[payload[w].fp].timesSeen + 1

Counted ==
  /\ IsFiniteSet(events)
  /\ CountsEveryEvent
  /\ \A f \in Fingerprints : issue[f] # NoIssue => issue[f].timesSeen > 0

RetriesFind ==
  \A w \in Workers :
    /\ pc[w] = "idle" => ~retried[w]
    /\ pc[w] \in {"begun", "read"} /\ retried[w] /\ projectLive =>
         /\ issue[payload[w].fp] # NoIssue
         /\ pc[w] = "read" => seen[w] # NoIssue

DeletedIsEmpty ==
  ~projectLive => events = {} /\ \A f \in Fingerprints : issue[f] = NoIssue

IInv ==
  /\ TypeOK /\ Held /\ FreshJobs /\ OneWriter /\ Drafts /\ Counted
  /\ RetriesFind /\ DeletedIsEmpty

-----------------------------------------------------------------------------
(* What the operators return *)

\* A level computed by maxSeverity is one of the two levels it compares.
LEMMA MaxSeverityType ==
  ASSUME NEW current \in Levels, NEW next \in Levels
  PROVE  MaxSeverity(current, next) \in Levels
BY DEF MaxSeverity

\* The update writes a well-formed row whose counter is one higher.
LEMMA UpdatedRowType ==
  ASSUME NEW row \in IssueRow, NEW read \in IssueRow,
         NEW level \in Levels, NEW t \in Nat
  PROVE  /\ UpdatedRow(row, read, level, t) \in IssueRow
         /\ UpdatedRow(row, read, level, t).timesSeen = row.timesSeen + 1
<1>1. MaxSeverity(read.level, level) \in Levels
  BY MaxSeverityType DEF IssueRow
<1>2. (IF Regressed(read) THEN "unresolved" ELSE row.status) \in Statuses
  BY DEF IssueRow, Statuses
<1>3. row.timesSeen \in Nat /\ row.firstSeen \in Nat
  BY DEF IssueRow
<1> QED
  BY <1>1, <1>2, <1>3 DEF UpdatedRow, IssueRow

\* The create writes a well-formed row that counts one event.
LEMMA NewRowType ==
  ASSUME NEW level \in Levels, NEW t \in Nat
  PROVE  /\ NewRow(level, t) \in IssueRow
         /\ NewRow(level, t).timesSeen = 1
BY DEF NewRow, IssueRow, Statuses

\* The event a worker inserts is a well-formed row carrying its job's identity.
LEMMA EventOfType ==
  ASSUME TypeOK, NEW w \in Workers, payload[w] \in Payload
  PROVE  /\ EventOf(w) \in EventRow
         /\ EventOf(w).id = payload[w].id
         /\ EventOf(w).fp = payload[w].fp
         /\ EventOf(w).isNew = (seen[w] = NoIssue)
BY DEF EventOf, EventRow, Payload, TypeOK, Regressed

-----------------------------------------------------------------------------
(* Types *)

\* The initial state satisfies the whole inductive invariant.
LEMMA InitInv == Init => IInv
<1> SUFFICES ASSUME Init PROVE IInv
  OBVIOUS
<1>1. IsFiniteSet({})
  BY FS_EmptySet
<1>2. TypeOK
  BY MaxJobsAssumption DEF Init, TypeOK
<1>3. Held /\ FreshJobs /\ OneWriter /\ Drafts
  BY DEF Init, Held, FreshJobs, OneWriter, Drafts, Running
<1>4. Counted
  BY <1>1 DEF Init, Counted, CountsEveryEvent, EventsOf
<1>5. RetriesFind /\ DeletedIsEmpty
  BY DEF Init, RetriesFind, DeletedIsEmpty
<1> QED
  BY <1>2, <1>3, <1>4, <1>5 DEF IInv

\* A worker that ends its call leaves well-typed variables behind.
LEMMA FinishType ==
  ASSUME TypeOK, Held, NEW w \in Workers, Finish(w)
  PROVE  /\ pc' \in [Workers -> {"idle", "begun", "read", "written", "committed"}]
         /\ payload' \in [Workers -> Payload \union {None}]
         /\ now' \in [Workers -> Nat]
         /\ seen' \in [Workers -> IssueRow \union {NoIssue}]
         /\ draft' \in [Workers -> IssueRow \union {NoIssue}]
         /\ retried' \in [Workers -> BOOLEAN]
         /\ Held'
BY DEF TypeOK, Held, Finish

\* Every step keeps the types, and a worker that runs holds a payload.
LEMMA TypeStep == TypeOK /\ Held /\ Drafts /\ [Next]_vars => TypeOK' /\ Held'
<1> SUFFICES ASSUME TypeOK, Held, Drafts, [Next]_vars PROVE TypeOK' /\ Held'
  OBVIOUS
<1> USE MaxJobsAssumption, ShapesAssumption
<1>1. ASSUME NEW w \in Workers, Begin(w) PROVE TypeOK' /\ Held'
  <2>1. PICK s \in Shapes :
          payload' = [payload EXCEPT ![w] =
            [id |-> clock + 1, fp |-> s.fp, level |-> s.level, replay |-> s.replay]]
    BY <1>1 DEF Begin
  <2>2. clock + 1 \in JobIds /\ clock + 1 \in 0 .. MaxJobs /\ clock + 1 \in Nat
    BY <1>1 DEF Begin, TypeOK, JobIds
  <2>3. [id |-> clock + 1, fp |-> s.fp, level |-> s.level, replay |-> s.replay]
          \in Payload
    BY <2>2 DEF Payload, Shape
  <2>4. TypeOK'
    BY <1>1, <2>1, <2>2, <2>3 DEF Begin, TypeOK, dbVars
  <2>5. Held'
    BY <1>1, <2>1, <2>3 DEF Begin, Held, TypeOK
  <2> QED
    BY <2>4, <2>5
<1>2. ASSUME NEW w \in Workers, Read(w) PROVE TypeOK' /\ Held'
  <2>1. payload[w] \in Payload
    BY <1>2 DEF Read, Held
  <2>2. issue[payload[w].fp] \in IssueRow \union {NoIssue}
    BY <2>1 DEF TypeOK, Payload
  <2> QED
    BY <1>2, <2>2 DEF Read, TypeOK, Held, dbVars
<1>3. ASSUME NEW w \in Workers, WriteUpdate(w) PROVE TypeOK' /\ Held'
  <2>1. payload[w] \in Payload /\ now[w] \in Nat
    BY <1>3 DEF WriteUpdate, CanWrite, Held, TypeOK
  <2>2. seen[w] \in IssueRow /\ issue[payload[w].fp] \in IssueRow
    BY <1>3, <2>1 DEF WriteUpdate, TypeOK, Payload
  <2>3. UpdatedRow(issue[payload[w].fp], seen[w], payload[w].level, now[w])
          \in IssueRow
    BY <2>1, <2>2, UpdatedRowType DEF Payload
  <2> QED
    BY <1>3, <2>3 DEF WriteUpdate, CanWrite, Written, TypeOK, Held, dbVars
<1>4. ASSUME NEW w \in Workers, WriteCreate(w) PROVE TypeOK' /\ Held'
  <2>1. payload[w] \in Payload /\ now[w] \in Nat
    BY <1>4 DEF WriteCreate, CanWrite, Held, TypeOK
  <2>2. NewRow(payload[w].level, now[w]) \in IssueRow
    BY <2>1, NewRowType DEF Payload
  <2> QED
    BY <1>4, <2>2 DEF WriteCreate, CanWrite, Written, TypeOK, Held, dbVars
<1>5. ASSUME NEW w \in Workers, WriteOrphan(w) PROVE TypeOK' /\ Held'
  BY <1>5, FinishType DEF WriteOrphan, TypeOK, dbVars
<1>6. ASSUME NEW w \in Workers, FingerprintConflict(w) PROVE TypeOK' /\ Held'
  <2>1. CASE retried[w]
    BY <1>6, <2>1, FinishType DEF FingerprintConflict, TypeOK, dbVars
  <2>2. CASE ~retried[w]
    <3>1. /\ pc'      = [pc EXCEPT ![w] = "begun"]
          /\ now'     = [now EXCEPT ![w] = clock]
          /\ retried' = [retried EXCEPT ![w] = TRUE]
          /\ seen'    = [seen EXCEPT ![w] = NoIssue]
          /\ UNCHANGED <<payload, draft, dbVars, clock>>
      BY <1>6, <2>2 DEF FingerprintConflict
    <3>2. clock \in Nat /\ pc[w] = "read"
      BY <1>6 DEF TypeOK, FingerprintConflict, CanWrite
    <3> QED
      BY <3>1, <3>2 DEF TypeOK, Held, dbVars
  <2> QED
    BY <2>1, <2>2
<1>7. ASSUME NEW w \in Workers, Commit(w) PROVE TypeOK' /\ Held'
  <2>1. payload[w] \in Payload /\ draft[w] \in IssueRow
    BY <1>7 DEF Commit, Held, Drafts
  <2>2. EventOf(w) \in EventRow
    BY <2>1, EventOfType
  <2>3. issue' \in [Fingerprints -> IssueRow \union {NoIssue}]
    BY <1>7, <2>1 DEF Commit, TypeOK
  <2>4. events' \subseteq EventRow
    BY <1>7, <2>2 DEF Commit, TypeOK
  <2>5. CASE payload[w].replay
    BY <1>7, <2>3, <2>4, <2>5 DEF Commit, TypeOK, Held
  <2>6. CASE ~payload[w].replay
    BY <1>7, <2>3, <2>4, <2>6, FinishType DEF Commit, TypeOK
  <2> QED
    BY <2>5, <2>6
<1>8. ASSUME NEW w \in Workers, InsertSnapshot(w) PROVE TypeOK' /\ Held'
  <2>1. payload[w] \in Payload
    BY <1>8 DEF InsertSnapshot, Held
  <2>2. snapshots' \subseteq JobIds
    BY <1>8, <2>1 DEF InsertSnapshot, TypeOK, Payload
  <2> QED
    BY <1>8, <2>2, FinishType DEF InsertSnapshot, TypeOK
<1>9. ASSUME NEW w \in Workers, Abort(w) PROVE TypeOK' /\ Held'
  BY <1>9, FinishType DEF Abort, TypeOK, dbVars
<1>10. ASSUME NEW f \in Fingerprints, NEW s \in Statuses, SetStatus(f, s)
       PROVE  TypeOK' /\ Held'
  <2>1. issue[f] \in IssueRow /\ clock \in Nat
    BY <1>10 DEF SetStatus, TypeOK
  <2>2. [issue[f] EXCEPT !.status = s] \in IssueRow
    BY <2>1 DEF IssueRow
  <2>3. issue' = [issue EXCEPT ![f] = [issue[f] EXCEPT !.status = s]]
    BY <1>10 DEF SetStatus
  <2>4. issue' \in [Fingerprints -> IssueRow \union {NoIssue}]
    BY <2>2, <2>3 DEF TypeOK
  <2>5. resolvedAt' \in [Fingerprints -> Nat]
    BY <1>10, <2>1 DEF SetStatus, TypeOK
  <2> QED
    BY <1>10, <2>4, <2>5 DEF SetStatus, TypeOK, Held, workerVars
<1>11. ASSUME DeleteProject PROVE TypeOK' /\ Held'
  BY <1>11 DEF DeleteProject, TypeOK, Held, workerVars
<1>12. ASSUME UNCHANGED vars PROVE TypeOK' /\ Held'
  BY <1>12 DEF vars, TypeOK, Held
<1> QED
  BY <1>1, <1>2, <1>3, <1>4, <1>5, <1>6, <1>7, <1>8, <1>9, <1>10, <1>11, <1>12
  DEF Next, Progress
-----------------------------------------------------------------------------
(* Jobs and row locks *)

\* Fewer running workers on the same jobs and no new events keep jobs fresh.
LEMMA FreshFrame ==
  ASSUME FreshJobs, clock' = clock, events' \subseteq events,
         \A v \in Workers :
           Running(v)' => Running(v) /\ payload'[v] = payload[v]
  PROVE  FreshJobs'
BY DEF FreshJobs

\* Two executions, and an execution and a recorded event, never share a job.
LEMMA FreshStep ==
  TypeOK /\ Held /\ FreshJobs /\ [Next]_vars => FreshJobs'
<1> SUFFICES ASSUME TypeOK, Held, FreshJobs, [Next]_vars PROVE FreshJobs'
  OBVIOUS
<1>1. ASSUME NEW w \in Workers, Begin(w) PROVE FreshJobs'
  <2>1. payload' = [payload EXCEPT ![w] = payload'[w]]
        /\ payload'[w].id = clock + 1 /\ clock' = clock + 1 /\ events' = events
    BY <1>1 DEF Begin, TypeOK, dbVars
  <2>2. clock \in Nat /\ \A v \in Workers : v # w => payload'[v] = payload[v]
    BY <2>1 DEF TypeOK
  <2>3. \A v \in Workers : v # w => (Running(v)' <=> Running(v))
    BY <1>1 DEF Begin, TypeOK, Running
  <2>4. \A e \in events : e.id \in Nat /\ e.id <= clock
    BY DEF TypeOK, EventRow, JobIds, FreshJobs
  <2>5. \A v \in Workers : Running(v) =>
          payload[v].id \in Nat /\ payload[v].id <= clock
    BY DEF Held, Running, Payload, JobIds, FreshJobs
  <2> QED
    BY <2>1, <2>2, <2>3, <2>4, <2>5 DEF FreshJobs
<1>2. ASSUME NEW w \in Workers, Commit(w) PROVE FreshJobs'
  <2>1. /\ events' = events \union {EventOf(w)} /\ clock' = clock
        /\ EventOf(w).id = payload[w].id
    BY <1>2 DEF Commit, EventOf
  <2>2. Running(w) /\ payload[w].id <= clock
    BY <1>2 DEF Commit, Running, FreshJobs
  <2>3. ~Running(w)'
    BY <1>2 DEF Commit, Finish, Running, TypeOK
  <2>4. \A v \in Workers : v # w =>
          payload'[v] = payload[v] /\ (Running(v)' <=> Running(v))
    BY <1>2 DEF Commit, Finish, Running, TypeOK
  <2> QED
    BY <2>1, <2>2, <2>3, <2>4 DEF FreshJobs
<1>3. ASSUME NEW w \in Workers,
             Read(w) \/ WriteUpdate(w) \/ WriteCreate(w)
      PROVE  FreshJobs'
  BY <1>3, FreshFrame DEF Read, WriteUpdate, WriteCreate, Written, CanWrite,
     Running, TypeOK, dbVars
<1>4. ASSUME NEW w \in Workers,
             WriteOrphan(w) \/ InsertSnapshot(w) \/ Abort(w)
      PROVE  FreshJobs'
  BY <1>4, FreshFrame DEF WriteOrphan, InsertSnapshot, Abort, Finish, Running,
     TypeOK, dbVars
<1>5. ASSUME NEW w \in Workers, FingerprintConflict(w) PROVE FreshJobs'
  BY <1>5, FreshFrame DEF FingerprintConflict, CanWrite, Finish, Running, TypeOK,
     dbVars
<1>6. ASSUME NEW f \in Fingerprints, NEW s \in Statuses, SetStatus(f, s)
      PROVE  FreshJobs'
  BY <1>6, FreshFrame DEF SetStatus, Running, workerVars
<1>7. ASSUME DeleteProject PROVE FreshJobs'
  BY <1>7, FreshFrame DEF DeleteProject, Running, workerVars
<1>8. ASSUME UNCHANGED vars PROVE FreshJobs'
  BY <1>8, FreshFrame DEF vars, Running
<1> QED
  BY <1>1, <1>2, <1>3, <1>4, <1>5, <1>6, <1>7, <1>8 DEF Next, Progress

\* Workers that stop writing leave the others' locks alone.
LEMMA WriterFrame ==
  ASSUME OneWriter,
         \A v \in Workers :
           pc'[v] = "written" => pc[v] = "written" /\ payload'[v] = payload[v]
  PROVE  OneWriter'
BY DEF OneWriter

\* A row or key is never written by two open transactions (the row lock).
LEMMA WriterStep == TypeOK /\ Held /\ OneWriter /\ [Next]_vars => OneWriter'
<1> SUFFICES ASSUME TypeOK, Held, OneWriter, [Next]_vars PROVE OneWriter'
  OBVIOUS
<1>1. ASSUME NEW w \in Workers, WriteUpdate(w) \/ WriteCreate(w)
      PROVE  OneWriter'
  <2>1. CanWrite(w) /\ payload' = payload /\ pc' = [pc EXCEPT ![w] = "written"]
    BY <1>1 DEF WriteUpdate, WriteCreate, Written
  <2>2. \A v \in Workers : pc[v] = "written" => payload[v].fp # payload[w].fp
    BY <2>1 DEF CanWrite, Locked
  <2> QED
    BY <2>1, <2>2 DEF OneWriter, TypeOK
<1>2. ASSUME NEW w \in Workers, Begin(w) \/ Read(w) PROVE OneWriter'
  BY <1>2, WriterFrame DEF Begin, Read, TypeOK
<1>3. ASSUME NEW w \in Workers, Commit(w) PROVE OneWriter'
  BY <1>3, WriterFrame DEF Commit, Finish, TypeOK
<1>4. ASSUME NEW w \in Workers,
             WriteOrphan(w) \/ InsertSnapshot(w) \/ Abort(w)
      PROVE  OneWriter'
  BY <1>4, WriterFrame DEF WriteOrphan, InsertSnapshot, Abort, Finish, TypeOK
<1>5. ASSUME NEW w \in Workers, FingerprintConflict(w) PROVE OneWriter'
  BY <1>5, WriterFrame DEF FingerprintConflict, Finish, TypeOK
<1>6. ASSUME (\E f \in Fingerprints, s \in Statuses : SetStatus(f, s))
             \/ DeleteProject \/ UNCHANGED vars
      PROVE  OneWriter'
  BY <1>6, WriterFrame DEF SetStatus, DeleteProject, workerVars, vars
<1> QED
  BY <1>1, <1>2, <1>3, <1>4, <1>5, <1>6 DEF Next, Progress

-----------------------------------------------------------------------------
(* Drafts, the deleted project and retries *)

\* A deleted project has no rows.
LEMMA DeletedStep ==
  TypeOK /\ Drafts /\ DeletedIsEmpty /\ [Next]_vars => DeletedIsEmpty'
<1> SUFFICES ASSUME TypeOK, Drafts, DeletedIsEmpty, [Next]_vars
             PROVE  DeletedIsEmpty'
  OBVIOUS
<1>1. ASSUME NEW w \in Workers, Commit(w) PROVE DeletedIsEmpty'
  BY <1>1 DEF Commit, Drafts, DeletedIsEmpty
<1>2. ASSUME NEW f \in Fingerprints, NEW s \in Statuses, SetStatus(f, s)
      PROVE  DeletedIsEmpty'
  BY <1>2 DEF SetStatus, DeletedIsEmpty
<1>3. ASSUME DeleteProject PROVE DeletedIsEmpty'
  BY <1>3 DEF DeleteProject, DeletedIsEmpty
<1>4. ASSUME UNCHANGED <<issue, events, projectLive>> PROVE DeletedIsEmpty'
  BY <1>4 DEF DeletedIsEmpty
<1> QED
  BY <1>1, <1>2, <1>3, <1>4 DEF Next, Progress, Begin, Read, WriteUpdate,
     WriteCreate, Written, WriteOrphan, FingerprintConflict, InsertSnapshot, Abort,
     dbVars, vars

\* A draft stays right while its worker keeps writing, the project stays, and
\* the row it was computed from keeps its existence and its counter.
LEMMA DraftFrame ==
  ASSUME Drafts,
         \A v \in Workers : pc'[v] = "written" =>
           /\ pc[v] = "written" /\ payload'[v] = payload[v]
           /\ seen'[v] = seen[v] /\ draft'[v] = draft[v]
           /\ projectLive' = projectLive
           /\ issue'[payload[v].fp] = NoIssue <=> issue[payload[v].fp] = NoIssue
           /\ issue[payload[v].fp] # NoIssue =>
                issue'[payload[v].fp].timesSeen = issue[payload[v].fp].timesSeen
  PROVE  Drafts'
<1> SUFFICES ASSUME NEW v \in Workers, pc'[v] = "written"
             PROVE  /\ projectLive'
                    /\ draft'[v] \in IssueRow
                    /\ (seen'[v] = NoIssue) <=> (issue'[payload'[v].fp] = NoIssue)
                    /\ draft'[v].timesSeen =
                         IF issue'[payload'[v].fp] = NoIssue
                           THEN 1 ELSE issue'[payload'[v].fp].timesSeen + 1
  BY DEF Drafts
<1> QED
  BY DEF Drafts

\* An open draft stays one event ahead of the committed row it will replace.
LEMMA DraftStep ==
  IInv /\ [Next]_vars => Drafts'
<1> SUFFICES ASSUME IInv, [Next]_vars PROVE Drafts'
  OBVIOUS
<1> USE DEF IInv
<1>1. ASSUME NEW w \in Workers, WriteUpdate(w) PROVE Drafts'
  <2> DEFINE row == issue[payload[w].fp]
  <2>1. payload[w] \in Payload /\ now[w] \in Nat /\ CanWrite(w)
    BY <1>1 DEF WriteUpdate, CanWrite, Held, TypeOK
  <2>2. seen[w] \in IssueRow /\ row \in IssueRow
    BY <1>1, <2>1 DEF WriteUpdate, TypeOK, Payload
  <2>3. projectLive /\ row # NoIssue /\ seen[w] # NoIssue
    BY <1>1, <2>1 DEF WriteUpdate, DeletedIsEmpty, Payload
  <2>4. /\ draft' = [draft EXCEPT ![w] =
              UpdatedRow(row, seen[w], payload[w].level, now[w])]
        /\ pc' = [pc EXCEPT ![w] = "written"]
        /\ UNCHANGED <<issue, projectLive, payload, seen>>
    BY <1>1 DEF WriteUpdate, Written, dbVars
  <2>5. draft'[w] \in IssueRow /\ draft'[w].timesSeen = row.timesSeen + 1
    BY <2>1, <2>2, <2>4, UpdatedRowType DEF TypeOK, Payload
  <2> QED
    BY <2>3, <2>4, <2>5 DEF Drafts, TypeOK
<1>2. ASSUME NEW w \in Workers, WriteCreate(w) PROVE Drafts'
  <2>1. payload[w] \in Payload /\ now[w] \in Nat
    BY <1>2 DEF WriteCreate, CanWrite, Held, TypeOK
  <2>2. /\ draft' = [draft EXCEPT ![w] = NewRow(payload[w].level, now[w])]
        /\ pc' = [pc EXCEPT ![w] = "written"]
        /\ UNCHANGED <<issue, projectLive, payload, seen>>
        /\ projectLive /\ seen[w] = NoIssue /\ issue[payload[w].fp] = NoIssue
    BY <1>2 DEF WriteCreate, Written, dbVars
  <2>3. draft'[w] \in IssueRow /\ draft'[w].timesSeen = 1
    BY <2>1, <2>2, NewRowType DEF TypeOK, Payload
  <2> QED
    BY <2>2, <2>3 DEF Drafts, TypeOK
<1>3. ASSUME NEW w \in Workers, Commit(w) PROVE Drafts'
  <2>1. \A v \in Workers : pc'[v] = "written" =>
          /\ v # w /\ pc[v] = "written" /\ payload'[v] = payload[v]
          /\ seen'[v] = seen[v] /\ draft'[v] = draft[v]
    BY <1>3 DEF Commit, Finish, TypeOK
  <2>2. \A v \in Workers : pc[v] = "written" /\ v # w =>
          issue'[payload[v].fp] = issue[payload[v].fp]
    BY <1>3 DEF Commit, OneWriter, Held, Payload, TypeOK
  <2>3. projectLive' = projectLive
    BY <1>3 DEF Commit
  <2> QED
    BY <2>1, <2>2, <2>3, DraftFrame
<1>4. ASSUME NEW w \in Workers, Begin(w) \/ Read(w) PROVE Drafts'
  BY <1>4, DraftFrame DEF Begin, Read, TypeOK, dbVars
<1>5. ASSUME NEW w \in Workers, WriteOrphan(w) \/ Abort(w) PROVE Drafts'
  BY <1>5, DraftFrame DEF WriteOrphan, Abort, Finish, TypeOK, dbVars
<1>6. ASSUME NEW w \in Workers, FingerprintConflict(w) PROVE Drafts'
  BY <1>6, DraftFrame DEF FingerprintConflict, Finish, TypeOK, dbVars
<1>7. ASSUME NEW w \in Workers, InsertSnapshot(w) PROVE Drafts'
  BY <1>7, DraftFrame DEF InsertSnapshot, Finish, TypeOK
<1>8. ASSUME NEW f \in Fingerprints, NEW s \in Statuses, SetStatus(f, s)
      PROVE  Drafts'
  <2>1. UNCHANGED <<pc, payload, seen, draft, projectLive>>
    BY <1>8 DEF SetStatus, workerVars
  <2>2. \A v \in Workers : pc[v] = "written" => payload[v].fp # f
    BY <1>8 DEF SetStatus, Locked
  <2>3. \A v \in Workers : pc[v] = "written" =>
          issue'[payload[v].fp] = issue[payload[v].fp]
    BY <1>8, <2>2 DEF SetStatus, Held, Payload, TypeOK
  <2> QED
    BY <2>1, <2>3, DraftFrame
<1>9. ASSUME DeleteProject PROVE Drafts'
  <2>1. \A v \in Workers : pc[v] # "written"
    BY <1>9 DEF DeleteProject, Locked, Held, Payload
  <2> QED
    BY <1>9, <2>1 DEF DeleteProject, workerVars, Drafts
<1>10. ASSUME UNCHANGED vars PROVE Drafts'
  BY <1>10, DraftFrame DEF vars
<1> QED
  BY <1>1, <1>2, <1>3, <1>4, <1>5, <1>6, <1>7, <1>8, <1>9, <1>10
  DEF Next, Progress
\* Retries keep finding the issue while no row disappears under them.
LEMMA RetryFrame ==
  ASSUME TypeOK, Held, RetriesFind,
         projectLive' => projectLive,
         \A f \in Fingerprints :
           projectLive' /\ issue[f] # NoIssue => issue'[f] # NoIssue,
         NEW w \in Workers,
         pc'[w] = pc[w] /\ payload'[w] = payload[w],
         seen'[w] = seen[w] /\ retried'[w] = retried[w]
  PROVE  /\ pc'[w] = "idle" => ~retried'[w]
         /\ pc'[w] \in {"begun", "read"} /\ retried'[w] /\ projectLive' =>
              /\ issue'[payload'[w].fp] # NoIssue
              /\ pc'[w] = "read" => seen'[w] # NoIssue
BY DEF RetriesFind, Held, Payload

\* The issue that caused a conflict is there when the attempt is repeated.
LEMMA RetryStep == IInv /\ [Next]_vars => RetriesFind'
<1> SUFFICES ASSUME IInv, [Next]_vars PROVE RetriesFind'
  OBVIOUS
<1> USE DEF IInv
<1>1. ASSUME NEW w \in Workers, Begin(w) PROVE RetriesFind'
  <2>1. ~retried[w] /\ retried' = retried
    BY <1>1 DEF Begin, RetriesFind
  <2>2. \A v \in Workers : v # w =>
          /\ pc'[v] = pc[v] /\ payload'[v] = payload[v]
          /\ seen'[v] = seen[v] /\ retried'[v] = retried[v]
    BY <1>1 DEF Begin, TypeOK
  <2>3. UNCHANGED <<issue, projectLive>>
    BY <1>1 DEF Begin, dbVars
  <2> QED
    BY <2>1, <2>2, <2>3 DEF RetriesFind
<1>2. ASSUME NEW w \in Workers, Read(w) PROVE RetriesFind'
  <2>1. /\ pc' = [pc EXCEPT ![w] = "read"]
        /\ seen' = [seen EXCEPT ![w] = issue[payload[w].fp]]
        /\ UNCHANGED <<payload, retried, issue, projectLive>>
        /\ pc[w] = "begun"
    BY <1>2 DEF Read, dbVars
  <2> QED
    BY <2>1 DEF RetriesFind, TypeOK
<1>3. ASSUME NEW w \in Workers, WriteUpdate(w) \/ WriteCreate(w)
      PROVE  RetriesFind'
  BY <1>3 DEF WriteUpdate, WriteCreate, Written, dbVars, RetriesFind, TypeOK
<1>4. ASSUME NEW w \in Workers, WriteOrphan(w) \/ Abort(w)
      PROVE  RetriesFind'
  BY <1>4 DEF WriteOrphan, Abort, Finish, dbVars, RetriesFind, TypeOK
<1>5. ASSUME NEW w \in Workers, FingerprintConflict(w) PROVE RetriesFind'
  <2>1. CASE retried[w]
    BY <1>5, <2>1 DEF FingerprintConflict, Finish, dbVars, RetriesFind, TypeOK
  <2>2. CASE ~retried[w]
    <3>1. /\ pc' = [pc EXCEPT ![w] = "begun"]
          /\ retried' = [retried EXCEPT ![w] = TRUE]
          /\ seen' = [seen EXCEPT ![w] = NoIssue]
          /\ UNCHANGED <<payload, issue, projectLive>>
          /\ issue[payload[w].fp] # NoIssue
      BY <1>5, <2>2 DEF FingerprintConflict, dbVars
    <3> QED
      BY <3>1 DEF RetriesFind, TypeOK
  <2> QED
    BY <2>1, <2>2
<1>6. ASSUME NEW w \in Workers, Commit(w) PROVE RetriesFind'
  <2>1. \A v \in Workers : v # w =>
          /\ pc'[v] = pc[v] /\ payload'[v] = payload[v]
          /\ seen'[v] = seen[v] /\ retried'[v] = retried[v]
    BY <1>6 DEF Commit, Finish, TypeOK
  <2>2. pc'[w] \in {"idle", "committed"} /\ (pc'[w] = "idle" => ~retried'[w])
    BY <1>6 DEF Commit, Finish, TypeOK
  <2>3. projectLive' = projectLive /\ draft[w] # NoIssue
    BY <1>6, NoIssueAssumption DEF Commit, Drafts
  <2>4. \A f \in Fingerprints : issue[f] # NoIssue => issue'[f] # NoIssue
    BY <1>6, <2>3 DEF Commit, TypeOK
  <2>5. \A v \in Workers : v # w =>
          /\ pc'[v] = "idle" => ~retried'[v]
          /\ pc'[v] \in {"begun", "read"} /\ retried'[v] /\ projectLive' =>
               /\ issue'[payload'[v].fp] # NoIssue
               /\ pc'[v] = "read" => seen'[v] # NoIssue
    BY <2>1, <2>3, <2>4, RetryFrame
  <2> QED
    BY <2>2, <2>5 DEF RetriesFind
<1>7. ASSUME NEW w \in Workers, InsertSnapshot(w) PROVE RetriesFind'
  BY <1>7 DEF InsertSnapshot, Finish, RetriesFind, TypeOK
<1>8. ASSUME NEW f \in Fingerprints, NEW s \in Statuses, SetStatus(f, s)
      PROVE  RetriesFind'
  <2>1. UNCHANGED <<pc, payload, seen, retried, projectLive>>
    BY <1>8 DEF SetStatus, workerVars
  <2>2. issue[f] \in IssueRow
    BY <1>8 DEF SetStatus, TypeOK
  <2>3. [issue[f] EXCEPT !.status = s] \in IssueRow
    BY <2>2 DEF IssueRow
  <2>4. \A g \in Fingerprints : issue[g] # NoIssue => issue'[g] # NoIssue
    BY <1>8, <2>3, NoIssueAssumption DEF SetStatus, TypeOK
  <2> QED
    BY <2>1, <2>4, RetryFrame DEF RetriesFind
<1>9. ASSUME DeleteProject PROVE RetriesFind'
  BY <1>9 DEF DeleteProject, workerVars, RetriesFind
<1>10. ASSUME UNCHANGED vars PROVE RetriesFind'
  BY <1>10 DEF vars, RetriesFind
<1> QED
  BY <1>1, <1>2, <1>3, <1>4, <1>5, <1>6, <1>7, <1>8, <1>9, <1>10
  DEF Next, Progress

-----------------------------------------------------------------------------
(* Counting *)

\* A commit adds one event to the issue of its fingerprint and to no other.
LEMMA CommitCounts ==
  ASSUME IInv, NEW w \in Workers, Commit(w)
  PROVE  Counted'
<1> USE DEF IInv
<1>0. PICK f \in Fingerprints, e \in EventRow : f = payload[w].fp /\ e = EventOf(w)
  BY EventOfType DEF Commit, Held, Payload
<1>1. e.id = payload[w].id /\ e.fp = f
  BY <1>0, EventOfType DEF Commit, Held
<1>2. events' = events \union {e} /\ issue' = [issue EXCEPT ![f] = draft[w]]
  BY <1>0 DEF Commit
<1>3. e \notin events
  BY <1>1 DEF FreshJobs, Running, Commit
<1>4. IsFiniteSet(events') /\ IsFiniteSet(EventsOf(f))
  <2>1. EventsOf(f) \in SUBSET events
    BY DEF EventsOf
  <2> QED
    BY <1>2, <2>1, FS_AddElement, FS_Subset DEF Counted
<1>5. EventsOf(f)' = EventsOf(f) \union {e} /\ e \notin EventsOf(f)
  BY <1>1, <1>2, <1>3 DEF EventsOf
<1>6. Cardinality(EventsOf(f)') = Cardinality(EventsOf(f)) + 1
  BY <1>4, <1>5, FS_AddElement
<1>7. draft[w] \in IssueRow /\ draft[w] # NoIssue
  BY NoIssueAssumption DEF Drafts, Commit
<1>8. draft[w].timesSeen = Cardinality(EventsOf(f)) + 1
  <2>1. CASE issue[f] = NoIssue
    <3>1. EventsOf(f) = {}
      BY <1>1, <2>1 DEF Counted, CountsEveryEvent
    <3> QED
      BY <1>0, <2>1, <3>1, FS_EmptySet DEF Drafts, Commit
  <2>2. CASE issue[f] # NoIssue
    BY <1>0, <1>1, <2>2 DEF Drafts, Commit, Counted, CountsEveryEvent
  <2> QED
    BY <2>1, <2>2
<1>9. issue'[f] = draft[w]
  BY <1>1, <1>2 DEF TypeOK
<1>10. \A g \in Fingerprints : g # f =>
         issue'[g] = issue[g] /\ EventsOf(g)' = EventsOf(g)
  BY <1>1, <1>2 DEF TypeOK, EventsOf
<1>11. Cardinality(EventsOf(f)) \in Nat
  BY <1>4, FS_CardinalityType
<1>12. \A g \in Fingerprints :
         /\ issue'[g] # NoIssue => issue'[g].timesSeen > 0
         /\ IF issue'[g] = NoIssue
              THEN EventsOf(g)' = {}
              ELSE issue'[g].timesSeen = Cardinality(EventsOf(g)')
  <2> TAKE g \in Fingerprints
  <2>1. CASE g = f
    BY <2>1, <1>6, <1>7, <1>8, <1>9, <1>11
  <2>2. CASE g # f
    BY <2>2, <1>10 DEF Counted, CountsEveryEvent
  <2> QED
    BY <2>1, <2>2
<1> QED
  BY <1>4, <1>12 DEF Counted, CountsEveryEvent, EventsOf

\* The counter of an issue stays the number of its recorded events.
LEMMA CountStep == IInv /\ [Next]_vars => Counted'
<1> SUFFICES ASSUME IInv, [Next]_vars PROVE Counted'
  OBVIOUS
<1> USE DEF IInv
<1>1. ASSUME NEW w \in Workers, Commit(w) PROVE Counted'
  BY <1>1, CommitCounts
<1>2. ASSUME NEW f \in Fingerprints, NEW s \in Statuses, SetStatus(f, s)
      PROVE  Counted'
  <2>1. issue[f] \in IssueRow /\ issue[f] # NoIssue
    BY <1>2 DEF SetStatus, TypeOK
  <2>2. [issue[f] EXCEPT !.status = s] \in IssueRow
        /\ [issue[f] EXCEPT !.status = s].timesSeen = issue[f].timesSeen
    BY <2>1 DEF IssueRow
  <2>3. issue' = [issue EXCEPT ![f] = [issue[f] EXCEPT !.status = s]]
        /\ events' = events
    BY <1>2 DEF SetStatus
  <2>4. \A g \in Fingerprints :
          /\ (issue'[g] = NoIssue) <=> (issue[g] = NoIssue)
          /\ issue[g] # NoIssue => issue'[g].timesSeen = issue[g].timesSeen
    BY <2>1, <2>2, <2>3, NoIssueAssumption DEF TypeOK
  <2> QED
    BY <2>3, <2>4 DEF Counted, CountsEveryEvent, EventsOf
<1>3. ASSUME DeleteProject PROVE Counted'
  BY <1>3, FS_EmptySet DEF DeleteProject, Counted, CountsEveryEvent, EventsOf
<1>4. ASSUME UNCHANGED <<issue, events>> PROVE Counted'
  BY <1>4 DEF Counted, CountsEveryEvent, EventsOf
<1> QED
  BY <1>1, <1>2, <1>3, <1>4 DEF Next, Progress, Begin, Read, WriteUpdate,
     WriteCreate, Written, WriteOrphan, FingerprintConflict, InsertSnapshot, Abort,
     dbVars, vars

-----------------------------------------------------------------------------
(* The theorems *)

\* IInv is an inductive invariant.
THEOREM Inductive == Spec => []IInv
<1>1. IInv /\ [Next]_vars => IInv'
  BY TypeStep, FreshStep, WriterStep, DraftStep, CountStep, RetryStep, DeletedStep
  DEF IInv
<1> QED
  BY InitInv, <1>1, PTL DEF Spec

\* The variables keep their types (process.ts, whatever the interleaving).
THEOREM TypeCorrect == Spec => []TypeOK
<1>1. IInv => TypeOK
  BY DEF IInv
<1> QED
  BY Inductive, <1>1, PTL

\* timesSeen is the number of events recorded for the issue (process.ts:76-151).
THEOREM CountsCorrect == Spec => []CountsEveryEvent
<1>1. IInv => CountsEveryEvent
  BY DEF IInv, Counted
<1> QED
  BY Inductive, <1>1, PTL

\* The attempt after a fingerprint conflict finds the issue, so one retry is
\* enough (process.ts:203-212).
THEOREM OneRetrySuffices == Spec => []RetryFindsIssue
<1>1. IInv => RetryFindsIssue
  BY DEF IInv, RetriesFind, RetryFindsIssue
<1> QED
  BY Inductive, <1>1, PTL
-----------------------------------------------------------------------------
(* Grouping implements the ledger *)

\* A commit is the ledger's Record step.
LEMMA CommitRecords ==
  ASSUME IInv, IInv', NEW w \in Workers, Commit(w)
  PROVE  Ledger!Next
<1> USE DEF IInv
<1>0. PICK f \in Fingerprints, e \in EventRow : f = payload[w].fp /\ e = EventOf(w)
  BY EventOfType DEF Commit, Held, Payload
<1>1. /\ e.id = payload[w].id /\ e.fp = f /\ e.isNew = (seen[w] = NoIssue)
      /\ e.id \in JobIds
  BY <1>0, EventOfType DEF Commit, Held, EventRow
<1>2. /\ events' = events \union {e} /\ issue' = [issue EXCEPT ![f] = draft[w]]
      /\ projectLive' = projectLive /\ projectLive
      /\ draft[w] # NoIssue
  BY <1>0, NoIssueAssumption DEF Commit, Drafts
<1>3. \A x \in events : x.id # e.id
  BY <1>1 DEF FreshJobs, Running, Commit
<1>4. EventsOf(f)' = EventsOf(f) \union {e}
  BY <1>1, <1>2 DEF EventsOf
<1>5. \A g \in Fingerprints : g # f =>
        issue'[g] = issue[g] /\ EventsOf(g)' = EventsOf(g)
  BY <1>1, <1>2 DEF TypeOK, EventsOf
<1>6. (EventsOf(f) = {}) <=> e.isNew
  <2>1. (seen[w] = NoIssue) <=> (issue[f] = NoIssue)
    BY <1>0 DEF Drafts, Commit
  <2>2. CASE issue[f] = NoIssue
    BY <1>1, <2>1, <2>2 DEF Counted, CountsEveryEvent
  <2>3. CASE issue[f] # NoIssue
    <3>1. Cardinality(EventsOf(f)) > 0
      BY <2>3 DEF Counted, CountsEveryEvent
    <3>2. EventsOf(f) # {}
      BY <3>1, FS_EmptySet
    <3> QED
      BY <1>1, <2>1, <2>3, <3>2
  <2> QED
    BY <2>2, <2>3
<1>7. SeenCount(f)' = SeenCount(f) + 1
  <2>1. issue'[f] = draft[w]
    BY <1>2 DEF TypeOK
  <2> QED
    BY <1>0, <1>2, <2>1 DEF SeenCount, Drafts, Commit
<1>8. RecordedIds(f)' = RecordedIds(f) \union {e.id}
  BY <1>4 DEF RecordedIds
<1>9. OpenerIds(f)' = IF RecordedIds(f) = {} THEN {e.id} ELSE OpenerIds(f)
  <2>1. (RecordedIds(f) = {}) <=> (EventsOf(f) = {})
    BY DEF RecordedIds
  <2>2. CASE EventsOf(f) = {}
    BY <1>4, <1>6, <2>1, <2>2 DEF OpenerIds
  <2>3. CASE EventsOf(f) # {}
    BY <1>4, <1>6, <2>1, <2>3 DEF OpenerIds
  <2> QED
    BY <2>2, <2>3
<1>10. \A g \in Fingerprints : g # f =>
         /\ SeenCount(g)' = SeenCount(g)
         /\ RecordedIds(g)' = RecordedIds(g)
         /\ OpenerIds(g)' = OpenerIds(g)
  BY <1>5 DEF SeenCount, RecordedIds, OpenerIds
<1>11. \A g \in Fingerprints : e.id \notin RecordedIds(g)
  BY <1>3 DEF RecordedIds, EventsOf
<1>12. Ledger!Record(f, e.id)
  BY <1>2, <1>7, <1>8, <1>9, <1>10, <1>11 DEF Ledger!Record
<1> QED
  BY <1>1, <1>12 DEF Ledger!Next

\* Every step of grouping is a step of the ledger or leaves it as it is.
LEMMA LedgerStep ==
  ASSUME IInv, IInv', [Next]_vars
  PROVE  [Ledger!Next]_(Ledger!vars)
<1> USE DEF IInv
<1>1. ASSUME NEW w \in Workers, Commit(w) PROVE Ledger!Next
  BY <1>1, CommitRecords
<1>2. ASSUME DeleteProject PROVE Ledger!Next
  <2>1. \A f \in Fingerprints :
          SeenCount(f)' = 0 /\ RecordedIds(f)' = {} /\ OpenerIds(f)' = {}
    BY <1>2 DEF DeleteProject, SeenCount, RecordedIds, OpenerIds, EventsOf
  <2>2. Ledger!Purge
    BY <1>2, <2>1 DEF DeleteProject, Ledger!Purge
  <2> QED
    BY <2>2 DEF Ledger!Next
<1>3. ASSUME NEW f \in Fingerprints, NEW s \in Statuses, SetStatus(f, s)
      PROVE  UNCHANGED Ledger!vars
  <2>1. issue[f] \in IssueRow /\ issue[f] # NoIssue
    BY <1>3 DEF SetStatus, TypeOK
  <2>2. [issue[f] EXCEPT !.status = s] \in IssueRow
        /\ [issue[f] EXCEPT !.status = s].timesSeen = issue[f].timesSeen
    BY <2>1 DEF IssueRow
  <2>3. issue' = [issue EXCEPT ![f] = [issue[f] EXCEPT !.status = s]]
        /\ UNCHANGED <<events, projectLive>>
    BY <1>3 DEF SetStatus
  <2>4. \A g \in Fingerprints : SeenCount(g)' = SeenCount(g)
    BY <2>1, <2>2, <2>3, NoIssueAssumption DEF TypeOK, SeenCount
  <2>5. \A g \in Fingerprints :
          RecordedIds(g)' = RecordedIds(g) /\ OpenerIds(g)' = OpenerIds(g)
    BY <2>3 DEF RecordedIds, OpenerIds, EventsOf
  <2> QED
    BY <2>3, <2>4, <2>5 DEF Ledger!vars
<1>4. ASSUME UNCHANGED <<issue, events, projectLive>>
      PROVE  UNCHANGED Ledger!vars
  BY <1>4 DEF Ledger!vars, SeenCount, RecordedIds, OpenerIds, EventsOf
<1> QED
  BY <1>1, <1>2, <1>3, <1>4 DEF Next, Progress, Begin, Read, WriteUpdate,
     WriteCreate, Written, WriteOrphan, FingerprintConflict, InsertSnapshot, Abort,
     dbVars, vars

\* Concurrent transactions implement indivisible recording: each event counted
\* once, in one issue, opened by exactly one event (process.ts:44-213).
THEOREM GroupingImplementsLedger == Spec => ImplementsLedger
<1>1. Init => Ledger!Init
  BY DEF Init, Ledger!Init, SeenCount, RecordedIds, OpenerIds, EventsOf
<1>2. IInv /\ IInv' /\ [Next]_vars => [Ledger!Next]_(Ledger!vars)
  BY LedgerStep
<1> QED
  BY Inductive, <1>1, <1>2, PTL DEF Spec, ImplementsLedger, Ledger!Spec

-----------------------------------------------------------------------------
(* Regressions and levels                                                  *)

\* The committed tables change only by a commit, a user's status change or the
\* deletion of the project.
LEMMA DatabaseSteps ==
  ASSUME [Next]_vars
  PROVE  \/ /\ UNCHANGED <<issue, events, projectLive, resolvedAt>>
            /\ clock' = clock \/ clock' = clock + 1
         \/ \E w \in Workers : Commit(w)
         \/ \E f \in Fingerprints, s \in Statuses : SetStatus(f, s)
         \/ DeleteProject
BY DEF Next, Progress, Begin, Read, WriteUpdate, WriteCreate, Written,
       WriteOrphan, FingerprintConflict, InsertSnapshot, Abort, dbVars, vars

\* A worker that stands after its read has just read, or stands there as before.
LEMMA ReadBy ==
  ASSUME TypeOK, [Next]_vars, NEW v \in Workers, pc'[v] = "read"
  PROVE  \/ Read(v)
         \/ /\ pc[v] = "read" /\ payload'[v] = payload[v]
            /\ now'[v] = now[v] /\ seen'[v] = seen[v]
<1> DEFINE Stays == /\ pc[v] = "read" /\ payload'[v] = payload[v]
                    /\ now'[v] = now[v] /\ seen'[v] = seen[v]
<1>1. ASSUME NEW w \in Workers, Begin(w) PROVE Stays
  BY <1>1 DEF Begin, TypeOK
<1>2. ASSUME NEW w \in Workers, Read(w) PROVE Read(v) \/ Stays
  <2>1. CASE w = v
    BY <1>2, <2>1
  <2>2. CASE w # v
    BY <1>2, <2>2 DEF Read, TypeOK
  <2> QED
    BY <2>1, <2>2
<1>3. ASSUME NEW w \in Workers, WriteUpdate(w) \/ WriteCreate(w) PROVE Stays
  BY <1>3 DEF WriteUpdate, WriteCreate, Written, TypeOK
<1>4. ASSUME NEW w \in Workers,
             WriteOrphan(w) \/ InsertSnapshot(w) \/ Abort(w) PROVE Stays
  BY <1>4 DEF WriteOrphan, InsertSnapshot, Abort, Finish, TypeOK
<1>5. ASSUME NEW w \in Workers, FingerprintConflict(w) PROVE Stays
  BY <1>5 DEF FingerprintConflict, Finish, TypeOK
<1>6. ASSUME NEW w \in Workers, Commit(w) PROVE Stays
  BY <1>6 DEF Commit, Finish, TypeOK
<1>7. ASSUME (\E f \in Fingerprints, s \in Statuses : SetStatus(f, s))
             \/ DeleteProject \/ UNCHANGED vars PROVE Stays
  BY <1>7 DEF SetStatus, DeleteProject, workerVars, vars
<1> QED
  BY <1>1, <1>2, <1>3, <1>4, <1>5, <1>6, <1>7 DEF Next, Progress

\* A worker with an open transaction has just written, or waits as before.
LEMMA WrittenBy ==
  ASSUME TypeOK, [Next]_vars, NEW v \in Workers, pc'[v] = "written"
  PROVE  \/ WriteUpdate(v) \/ WriteCreate(v)
         \/ /\ pc[v] = "written" /\ payload'[v] = payload[v]
            /\ now'[v] = now[v] /\ seen'[v] = seen[v] /\ draft'[v] = draft[v]
<1> DEFINE Stays ==
      /\ pc[v] = "written" /\ payload'[v] = payload[v]
      /\ now'[v] = now[v] /\ seen'[v] = seen[v] /\ draft'[v] = draft[v]
<1>1. ASSUME NEW w \in Workers, Begin(w) \/ Read(w) PROVE Stays
  BY <1>1 DEF Begin, Read, TypeOK
<1>2. ASSUME NEW w \in Workers, WriteUpdate(w) \/ WriteCreate(w)
      PROVE  WriteUpdate(v) \/ WriteCreate(v) \/ Stays
  <2>1. CASE w = v
    BY <1>2, <2>1
  <2>2. CASE w # v
    BY <1>2, <2>2 DEF WriteUpdate, WriteCreate, Written, TypeOK
  <2> QED
    BY <2>1, <2>2
<1>3. ASSUME NEW w \in Workers,
             WriteOrphan(w) \/ InsertSnapshot(w) \/ Abort(w) PROVE Stays
  BY <1>3 DEF WriteOrphan, InsertSnapshot, Abort, Finish, TypeOK
<1>4. ASSUME NEW w \in Workers, FingerprintConflict(w) PROVE Stays
  BY <1>4 DEF FingerprintConflict, Finish, TypeOK
<1>5. ASSUME NEW w \in Workers, Commit(w) PROVE Stays
  BY <1>5 DEF Commit, Finish, TypeOK
<1>6. ASSUME (\E f \in Fingerprints, s \in Statuses : SetStatus(f, s))
             \/ DeleteProject \/ UNCHANGED vars PROVE Stays
  BY <1>6 DEF SetStatus, DeleteProject, workerVars, vars
<1> QED
  BY <1>1, <1>2, <1>3, <1>4, <1>5, <1>6 DEF Next, Progress

\* No attempt and no event is from the future.
Timed ==
  /\ \A w \in Workers : now[w] <= clock
  /\ \A e \in events : e.receivedAt <= clock

\* A worker that read the issue before it was resolved has a `now` before that,
\* unless it saw an earlier resolution that it will undo.
SeenFresh ==
  \A w \in Workers :
    LET row == issue[payload[w].fp] IN
    /\ pc[w] = "read" /\ seen[w] # NoIssue /\ row # NoIssue
    /\ now[w] > resolvedAt[payload[w].fp]
    => seen[w].status = "resolved" \/ row.status # "resolved"

\* A draft reopens the issue, or leaves the status it will find.
DraftStatus ==
  \A w \in Workers : pc[w] = "written" =>
    \/ draft[w].status = "unresolved"
    \/ /\ issue[payload[w].fp] # NoIssue
       /\ draft[w].status = issue[payload[w].fp].status

DraftFresh ==
  \A w \in Workers :
    pc[w] = "written" /\ now[w] > resolvedAt[payload[w].fp]
    => draft[w].status # "resolved"

Reopened ==
  /\ Timed /\ SeenFresh /\ DraftStatus /\ DraftFresh /\ NoMissedRegression

\* Time only advances, and an attempt is stamped with it.
LEMMA TimedStep ==
  ASSUME IInv, Timed, [Next]_vars
  PROVE  Timed' /\ clock <= clock'
<1> USE DEF IInv
<1>1. clock \in Nat /\ \A w \in Workers : now[w] \in Nat
  BY DEF TypeOK
<1>2. \A e \in events : e.receivedAt \in Nat
  BY DEF TypeOK, EventRow
<1> USE <1>1, <1>2
<1>3. ASSUME NEW w \in Workers, Begin(w) PROVE Timed' /\ clock <= clock'
  BY <1>3 DEF Begin, dbVars, Timed, TypeOK
<1>4. ASSUME NEW w \in Workers,
             Read(w) \/ WriteUpdate(w) \/ WriteCreate(w)
      PROVE  Timed' /\ clock <= clock'
  BY <1>4 DEF Read, WriteUpdate, WriteCreate, Written, dbVars, Timed, TypeOK
<1>5. ASSUME NEW w \in Workers,
             WriteOrphan(w) \/ InsertSnapshot(w) \/ Abort(w)
      PROVE  Timed' /\ clock <= clock'
  BY <1>5 DEF WriteOrphan, InsertSnapshot, Abort, Finish, dbVars, Timed, TypeOK
<1>6. ASSUME NEW w \in Workers, FingerprintConflict(w)
      PROVE  Timed' /\ clock <= clock'
  BY <1>6 DEF FingerprintConflict, Finish, dbVars, Timed, TypeOK
<1>7. ASSUME NEW w \in Workers, Commit(w) PROVE Timed' /\ clock <= clock'
  <2>1. events' = events \union {EventOf(w)} /\ clock' = clock
    BY <1>7 DEF Commit
  <2>2. EventOf(w).receivedAt = now[w]
    BY DEF EventOf
  <2>3. \A v \in Workers : now'[v] = now[v] \/ now'[v] = 0
    BY <1>7 DEF Commit, Finish, TypeOK
  <2> QED
    BY <2>1, <2>2, <2>3 DEF Timed
<1>8. ASSUME (\E f \in Fingerprints, s \in Statuses : SetStatus(f, s))
             \/ DeleteProject \/ UNCHANGED vars
      PROVE  Timed' /\ clock <= clock'
  BY <1>8 DEF SetStatus, DeleteProject, workerVars, vars, Timed
<1> QED
  BY <1>3, <1>4, <1>5, <1>6, <1>7, <1>8 DEF Next, Progress

\* What a write statement puts into the draft.
LEMMA WriteSteps ==
  ASSUME IInv, NEW w \in Workers, WriteUpdate(w) \/ WriteCreate(w)
  PROVE  /\ pc[w] = "read" /\ payload[w] \in Payload
         /\ UNCHANGED <<issue, events, projectLive, resolvedAt, payload, now,
                        seen>>
         /\ \/ /\ seen[w] \in IssueRow /\ seen[w] # NoIssue
               /\ issue[payload[w].fp] \in IssueRow
               /\ issue[payload[w].fp] # NoIssue
               /\ draft'[w].status = IF seen[w].status = "resolved"
                    THEN "unresolved" ELSE issue[payload[w].fp].status
               /\ draft'[w].level = MaxSeverity(seen[w].level, payload[w].level)
            \/ /\ seen[w] = NoIssue
               /\ draft'[w].status = "unresolved"
               /\ draft'[w].level = payload[w].level
<1> USE DEF IInv
<1>1. pc[w] = "read" /\ payload[w] \in Payload
  BY DEF WriteUpdate, WriteCreate, CanWrite, Held
<1>2. UNCHANGED <<issue, events, projectLive, resolvedAt, payload, now, seen>>
  BY DEF WriteUpdate, WriteCreate, Written, dbVars
<1>3. CASE WriteUpdate(w)
  <2>1. seen[w] # NoIssue /\ issue[payload[w].fp] # NoIssue
    BY <1>3 DEF WriteUpdate
  <2>2. seen[w] \in IssueRow /\ issue[payload[w].fp] \in IssueRow
    BY <1>1, <2>1 DEF TypeOK, Payload
  <2>3. draft'[w] = UpdatedRow(issue[payload[w].fp], seen[w], payload[w].level,
                               now[w])
    BY <1>3 DEF WriteUpdate, Written, TypeOK
  <2> QED
    BY <1>1, <1>2, <2>1, <2>2, <2>3 DEF UpdatedRow, Regressed
<1>4. CASE WriteCreate(w)
  <2>1. draft'[w] = NewRow(payload[w].level, now[w]) /\ seen[w] = NoIssue
    BY <1>4 DEF WriteCreate, Written, TypeOK
  <2> QED
    BY <1>1, <1>2, <2>1 DEF NewRow
<1> QED
  BY <1>3, <1>4

\* What the row of a fingerprint can become in a step.
LEMMA RowSteps ==
  ASSUME IInv, [Next]_vars, NEW f \in Fingerprints
  PROVE  \/ issue'[f] = issue[f] /\ resolvedAt'[f] = resolvedAt[f]
         \/ issue'[f] = NoIssue
         \/ /\ \E v \in Workers :
                 Commit(v) /\ payload[v].fp = f /\ issue'[f] = draft[v]
            /\ resolvedAt'[f] = resolvedAt[f]
         \/ /\ issue[f] # NoIssue /\ issue'[f].level = issue[f].level
            /\ issue'[f] # NoIssue /\ ~Locked(f) /\ events' = events
            /\ \/ resolvedAt'[f] = clock
               \/ /\ issue'[f].status # "resolved"
                  /\ resolvedAt'[f] = resolvedAt[f]
<1> USE DEF IInv
<1>1. ASSUME NEW v \in Workers, Commit(v)
      PROVE  /\ resolvedAt' = resolvedAt
             /\ payload[v].fp = f => issue'[f] = draft[v]
             /\ payload[v].fp # f => issue'[f] = issue[f]
  BY <1>1 DEF Commit, TypeOK
<1>2. ASSUME NEW g \in Fingerprints, NEW s \in Statuses, SetStatus(g, s), g # f
      PROVE  issue'[f] = issue[f] /\ resolvedAt'[f] = resolvedAt[f]
  BY <1>2 DEF SetStatus, TypeOK
<1>3. ASSUME NEW s \in Statuses, SetStatus(f, s)
      PROVE  /\ issue[f] # NoIssue /\ issue'[f].level = issue[f].level
             /\ issue'[f] # NoIssue /\ ~Locked(f) /\ events' = events
             /\ \/ resolvedAt'[f] = clock
                \/ /\ issue'[f].status # "resolved"
                   /\ resolvedAt'[f] = resolvedAt[f]
  <2>1. issue[f] \in IssueRow /\ issue[f] # NoIssue /\ ~Locked(f)
        /\ events' = events
    BY <1>3 DEF SetStatus, TypeOK
  <2>2. [issue[f] EXCEPT !.status = s] \in IssueRow
    BY <2>1 DEF IssueRow
  <2>3. issue'[f] = [issue[f] EXCEPT !.status = s]
    BY <1>3 DEF SetStatus, TypeOK
  <2>4. issue'[f].status = s /\ issue'[f].level = issue[f].level
    BY <2>1, <2>3 DEF IssueRow
  <2>5. /\ s = "resolved" => resolvedAt'[f] = clock
        /\ s # "resolved" => resolvedAt'[f] = resolvedAt[f]
    BY <1>3 DEF SetStatus, TypeOK
  <2> QED
    BY <2>1, <2>2, <2>3, <2>4, <2>5, NoIssueAssumption
<1>4. CASE DeleteProject
  BY <1>4 DEF DeleteProject
<1>5. CASE UNCHANGED <<issue, events, projectLive, resolvedAt>>
  BY <1>5
<1>6. CASE \E v \in Workers : Commit(v)
  BY <1>1, <1>6
<1>7. CASE \E g \in Fingerprints, s \in Statuses : SetStatus(g, s)
  BY <1>2, <1>3, <1>7
<1> QED
  BY <1>4, <1>5, <1>6, <1>7, DatabaseSteps

\* A read that others overtake has a `now` before the resolve, or undoes it.
LEMMA SeenFreshStep == IInv /\ Reopened /\ [Next]_vars => SeenFresh'
<1> SUFFICES ASSUME IInv, Reopened, [Next]_vars,
                    NEW w \in Workers, pc'[w] = "read", seen'[w] # NoIssue,
                    issue'[payload'[w].fp] # NoIssue,
                    now'[w] > resolvedAt'[payload'[w].fp]
             PROVE  \/ seen'[w].status = "resolved"
                    \/ issue'[payload'[w].fp].status # "resolved"
  BY DEF SeenFresh
<1> USE DEF IInv, Reopened
<1>1. CASE Read(w)
  <2>1. /\ seen'[w] = issue[payload[w].fp]
        /\ UNCHANGED <<issue, payload>>
    BY <1>1 DEF Read, dbVars, TypeOK
  <2> QED
    BY <2>1
<1>2. CASE pc[w] = "read" /\ payload'[w] = payload[w]
           /\ now'[w] = now[w] /\ seen'[w] = seen[w]
  <2>1. PICK f \in Fingerprints : payload[w].fp = f /\ payload'[w].fp = f
    BY <1>2 DEF Held, Payload
  <2>2. /\ now[w] > resolvedAt[f] /\ issue[f] # NoIssue =>
             seen[w].status = "resolved" \/ issue[f].status # "resolved"
        /\ now[w] \in Nat /\ clock \in Nat /\ now[w] <= clock
    BY <1>2, <2>1 DEF SeenFresh, TypeOK, Timed
  <2>3. CASE issue'[f] = issue[f] /\ resolvedAt'[f] = resolvedAt[f]
    BY <1>2, <2>1, <2>2, <2>3
  <2>4. CASE /\ \E v \in Workers :
                  Commit(v) /\ payload[v].fp = f /\ issue'[f] = draft[v]
             /\ resolvedAt'[f] = resolvedAt[f]
    <3>1. PICK v \in Workers :
            Commit(v) /\ payload[v].fp = f /\ issue'[f] = draft[v]
      BY <2>4
    <3>2. \/ draft[v].status = "unresolved"
          \/ issue[f] # NoIssue /\ draft[v].status = issue[f].status
      BY <3>1 DEF Commit, DraftStatus
    <3> QED
      BY <1>2, <2>1, <2>2, <2>4, <3>1, <3>2
  <2>5. CASE resolvedAt'[f] = clock
    BY <1>2, <2>1, <2>2, <2>5
  <2>6. CASE issue'[f].status # "resolved"
    BY <2>1, <2>6
  <2> QED
    BY <2>1, <2>3, <2>4, <2>5, <2>6, RowSteps
<1> QED
  BY <1>1, <1>2, ReadBy

\* The row of an open transaction stays as it is.
LEMMA LockedRowStays ==
  ASSUME IInv, [Next]_vars, NEW w \in Workers,
         pc[w] = "written", pc'[w] = "written", payload'[w] = payload[w]
  PROVE  /\ payload[w].fp \in Fingerprints
         /\ issue'[payload[w].fp] = issue[payload[w].fp]
         /\ resolvedAt'[payload[w].fp] = resolvedAt[payload[w].fp]
         /\ projectLive' = projectLive
<1> USE DEF IInv
<1>1. PICK f \in Fingerprints : payload[w].fp = f
  BY DEF Held, Payload
<1>2. Locked(f)
  BY <1>1 DEF Locked
<1>3. CASE UNCHANGED <<issue, events, projectLive, resolvedAt>>
  BY <1>1, <1>3
<1>4. ASSUME NEW v \in Workers, Commit(v)
      PROVE  /\ issue'[f] = issue[f] /\ UNCHANGED <<resolvedAt, projectLive>>
  <2>1. v # w
    BY <1>4 DEF Commit, Finish, TypeOK
  <2>2. payload[v].fp # f
    BY <1>1, <1>4, <2>1 DEF Commit, OneWriter
  <2> QED
    BY <1>4, <2>2 DEF Commit, TypeOK
<1>5. ASSUME NEW g \in Fingerprints, NEW s \in Statuses, SetStatus(g, s)
      PROVE  /\ issue'[f] = issue[f] /\ resolvedAt'[f] = resolvedAt[f]
             /\ projectLive' = projectLive
  <2>1. g # f
    BY <1>2, <1>5 DEF SetStatus
  <2> QED
    BY <1>5, <2>1 DEF SetStatus, TypeOK
<1>6. ~DeleteProject
  BY <1>2 DEF DeleteProject
<1> QED
  BY <1>1, <1>3, <1>4, <1>5, <1>6, DatabaseSteps

\* A draft never brings a resolution back.
LEMMA DraftFreshStep ==
  IInv /\ Reopened /\ [Next]_vars => DraftStatus' /\ DraftFresh'
<1> SUFFICES ASSUME IInv, Reopened, [Next]_vars,
                    NEW w \in Workers, pc'[w] = "written"
             PROVE  /\ \/ draft'[w].status = "unresolved"
                       \/ /\ issue'[payload'[w].fp] # NoIssue
                          /\ draft'[w].status = issue'[payload'[w].fp].status
                    /\ now'[w] > resolvedAt'[payload'[w].fp] =>
                         draft'[w].status # "resolved"
  BY DEF DraftStatus, DraftFresh
<1> USE DEF Reopened
<1>1. CASE WriteUpdate(w) \/ WriteCreate(w)
  BY <1>1, WriteSteps DEF SeenFresh
<1>2. CASE /\ pc[w] = "written" /\ payload'[w] = payload[w]
           /\ now'[w] = now[w] /\ seen'[w] = seen[w] /\ draft'[w] = draft[w]
  BY <1>2, LockedRowStays DEF DraftStatus, DraftFresh
<1> QED
  BY <1>1, <1>2, WrittenBy DEF IInv

\* Neither a commit nor a user's status change hides a later event.
LEMMA RegressionStep == IInv /\ Reopened /\ [Next]_vars => NoMissedRegression'
<1> SUFFICES ASSUME IInv, Reopened, [Next]_vars,
                    NEW e \in events', e.receivedAt > resolvedAt'[e.fp]
             PROVE  issue'[e.fp].status # "resolved"
  BY DEF NoMissedRegression
<1> USE DEF IInv, Reopened
<1>1. CASE \E w \in Workers : Commit(w)
  <2>1. PICK w \in Workers : Commit(w)
    BY <1>1
  <2>2. /\ events' = events \union {EventOf(w)} /\ resolvedAt' = resolvedAt
        /\ pc[w] = "written" /\ payload[w] \in Payload
        /\ issue' = [issue EXCEPT ![payload[w].fp] = draft[w]]
    BY <2>1 DEF Commit, Held
  <2>3. PICK f \in Fingerprints : payload[w].fp = f
    BY <2>2 DEF Payload
  <2>4. issue'[f] = draft[w]
    BY <2>2, <2>3 DEF TypeOK
  <2>5. CASE e = EventOf(w)
    <3>1. e.fp = f /\ e.receivedAt = now[w]
      BY <2>3, <2>5 DEF EventOf
    <3> QED
      BY <2>2, <2>3, <2>4, <3>1 DEF DraftFresh
  <2>6. CASE e \in events
    <3>1. e.fp \in Fingerprints /\ issue[e.fp].status # "resolved"
      BY <2>2, <2>6 DEF NoMissedRegression, TypeOK, EventRow
    <3>2. \/ draft[w].status = "unresolved" \/ draft[w].status = issue[f].status
      BY <2>2, <2>3 DEF DraftStatus
    <3> QED
      BY <2>2, <2>3, <2>4, <3>1, <3>2 DEF TypeOK
  <2> QED
    BY <2>2, <2>5, <2>6
<1>2. CASE ~\E w \in Workers : Commit(w)
  <2>1. e \in events
    BY <1>2, DatabaseSteps DEF SetStatus, DeleteProject
  <2>2. PICK f \in Fingerprints : e.fp = f
    BY <2>1 DEF TypeOK, EventRow
  <2>3. /\ e.receivedAt > resolvedAt[f] => issue[f].status # "resolved"
        /\ e.receivedAt \in Nat /\ e.receivedAt <= clock /\ clock \in Nat
    BY <2>1, <2>2 DEF NoMissedRegression, Timed, TypeOK, EventRow
  <2>4. CASE DeleteProject
    BY <2>4 DEF DeleteProject
  <2>5. CASE UNCHANGED <<issue, events, projectLive, resolvedAt>>
    BY <2>2, <2>3, <2>5
  <2>6. ASSUME NEW g \in Fingerprints, NEW s \in Statuses, SetStatus(g, s)
        PROVE  issue'[f].status # "resolved"
    <3>1. CASE g # f
      BY <2>2, <2>3, <2>6, <3>1 DEF SetStatus, TypeOK
    <3>2. CASE g = f /\ s = "resolved"
      BY <2>2, <2>3, <2>6, <3>2 DEF SetStatus, TypeOK
    <3>3. CASE g = f /\ s # "resolved"
      <4>1. issue[f] \in IssueRow /\ issue'[f] = [issue[f] EXCEPT !.status = s]
        BY <2>6, <3>3 DEF SetStatus, TypeOK
      <4> QED
        BY <3>3, <4>1 DEF IssueRow
    <3> QED
      BY <3>1, <3>2, <3>3
  <2> QED
    BY <1>2, <2>2, <2>4, <2>5, <2>6, DatabaseSteps
<1> QED
  BY <1>1, <1>2

\* No regression is missed, for any number of workers and fingerprints: once
\* an event received after the latest resolve is recorded, the issue is not
\* resolved any more (process.ts:74-85).
THEOREM RegressionsReopen == Spec => []NoMissedRegression
<1>1. Init => Reopened
  BY DEF Init, Reopened, Timed, SeenFresh, DraftStatus, DraftFresh,
         NoMissedRegression
<1>2. IInv /\ Reopened /\ [Next]_vars => Reopened'
  BY TimedStep, SeenFreshStep, DraftFreshStep, RegressionStep DEF Reopened
<1>3. Reopened => NoMissedRegression
  BY DEF Reopened
<1> QED
  BY <1>1, <1>2, <1>3, Inductive, PTL DEF Spec

\* A worker that has read the issue as resolved finds its counter raised by at
\* least the regressions recorded meanwhile.
Overlap ==
  \A w \in Workers :
    pc[w] \in {"read", "written"} /\ Regressed(seen[w]) /\ projectLive =>
      /\ issue[payload[w].fp] # NoIssue
      /\ Cardinality(Regressions(payload[w].fp)) + seen[w].timesSeen
           <= issue[payload[w].fp].timesSeen

\* The regressions of a fingerprint are finitely many, and a set of them
\* within another one is no larger.
LEMMA RegressionsFinite ==
  ASSUME Counted, NEW f
  PROVE  /\ IsFiniteSet(Regressions(f)) /\ Cardinality(Regressions(f)) \in Nat
         /\ \A T \in SUBSET Regressions(f) :
              Cardinality(T) \in Nat /\ Cardinality(T) <= Cardinality(Regressions(f))
<1>1. Regressions(f) \in SUBSET events
  BY DEF Regressions, EventsOf
<1>2. IsFiniteSet(Regressions(f))
  BY <1>1, FS_Subset DEF Counted
<1> QED
  BY <1>2, FS_CardinalityType, FS_Subset

\* A commit records at most one more regression and raises the counter by one.
LEMMA CommitOverlaps ==
  ASSUME IInv, NEW v \in Workers, Commit(v), NEW f \in Fingerprints,
         issue[f] # NoIssue
  PROVE  /\ issue'[f] # NoIssue
         /\ \E k \in {0, 1} :
              /\ issue'[f].timesSeen = issue[f].timesSeen + k
              /\ Cardinality(Regressions(f)') \in Nat
              /\ Cardinality(Regressions(f)') <= Cardinality(Regressions(f)) + k
<1> USE DEF IInv
<1>1. /\ events' = events \union {EventOf(v)} /\ resolvedAt' = resolvedAt
      /\ EventOf(v).fp = payload[v].fp
      /\ issue' = [issue EXCEPT ![payload[v].fp] = draft[v]]
  BY DEF Commit, EventOf
<1>2. /\ IsFiniteSet(Regressions(f)) /\ Cardinality(Regressions(f)) \in Nat
      /\ issue[f].timesSeen \in Nat
  BY RegressionsFinite DEF TypeOK, IssueRow
<1>3. CASE payload[v].fp = f
  <2>1. /\ draft[v] \in IssueRow /\ issue'[f] = draft[v]
        /\ draft[v].timesSeen = issue[f].timesSeen + 1
    BY <1>1, <1>3 DEF Drafts, Commit, TypeOK
  <2>2. Regressions(f)' \in SUBSET (Regressions(f) \union {EventOf(v)})
    BY <1>1 DEF Regressions, EventsOf
  <2> DEFINE grown == Regressions(f) \union {EventOf(v)}
  <2>3. IsFiniteSet(grown) /\ Cardinality(grown) <= Cardinality(Regressions(f)) + 1
        /\ Cardinality(grown) \in Nat
    <3>1. /\ IsFiniteSet(grown)
          /\ \/ Cardinality(grown) = Cardinality(Regressions(f))
             \/ Cardinality(grown) = Cardinality(Regressions(f)) + 1
      BY <1>2, FS_AddElement
    <3> QED
      BY <1>2, <3>1
  <2>4. /\ Cardinality(Regressions(f)') \in Nat
        /\ Cardinality(Regressions(f)') <= Cardinality(grown)
    <3> HIDE DEF grown
    <3>1. Regressions(f)' \in SUBSET grown
      BY <2>2 DEF grown
    <3>2. IsFiniteSet(Regressions(f)')
          /\ Cardinality(Regressions(f)') <= Cardinality(grown)
      BY <2>3, <3>1, FS_Subset
    <3> QED
      BY <3>2, FS_CardinalityType
  <2>5. issue'[f] # NoIssue
    BY <2>1, NoIssueAssumption
  <2> QED
    BY <1>2, <2>1, <2>3, <2>4, <2>5
<1>4. CASE payload[v].fp # f
  <2>1. issue'[f] = issue[f] /\ Regressions(f)' = Regressions(f)
    BY <1>1, <1>4 DEF TypeOK, Regressions, EventsOf
  <2> QED
    BY <1>2, <2>1
<1> QED
  BY <1>3, <1>4

\* A user's status change leaves the counter alone; a resolve leaves no
\* regression behind it.
LEMMA StatusOverlaps ==
  ASSUME IInv, Timed, NEW g \in Fingerprints, NEW s \in Statuses, SetStatus(g, s),
         NEW f \in Fingerprints, issue[f] # NoIssue
  PROVE  /\ issue'[f] # NoIssue
         /\ issue'[f].timesSeen = issue[f].timesSeen
         /\ Regressions(f)' \in SUBSET Regressions(f)
<1> USE DEF IInv
<1>1. events' = events /\ clock \in Nat
  BY DEF SetStatus, TypeOK
<1>2. issue[f] \in IssueRow
  BY DEF TypeOK
<1>3. \A e \in events : e.receivedAt \in Nat /\ e.receivedAt <= clock
  BY DEF TypeOK, EventRow, Timed
<1>4. resolvedAt'[f] = resolvedAt[f] \/ resolvedAt'[f] = clock
  BY DEF SetStatus, TypeOK
<1>5. Regressions(f)' \in SUBSET Regressions(f)
  BY <1>1, <1>3, <1>4 DEF Regressions, EventsOf
<1>6. /\ [issue[f] EXCEPT !.status = s] \in IssueRow
      /\ [issue[f] EXCEPT !.status = s].timesSeen = issue[f].timesSeen
  BY <1>2 DEF IssueRow
<1>7. issue'[f] = issue[f] \/ issue'[f] = [issue[f] EXCEPT !.status = s]
  BY DEF SetStatus, TypeOK
<1> QED
  BY <1>5, <1>6, <1>7, NoIssueAssumption

\* Whatever is committed after a read, the counter gains no less than the
\* regressions.
LEMMA OverlapStep == IInv /\ Reopened /\ Overlap /\ [Next]_vars => Overlap'
<1> SUFFICES ASSUME IInv, Reopened, Overlap, [Next]_vars, NEW w \in Workers,
                    pc'[w] \in {"read", "written"}, Regressed(seen'[w]), projectLive'
             PROVE  /\ issue'[payload'[w].fp] # NoIssue
                    /\ Cardinality(Regressions(payload[w].fp)') + seen'[w].timesSeen
                         <= issue'[payload'[w].fp].timesSeen
                    /\ payload'[w] = payload[w]
  BY DEF Overlap, Regressed, Regressions, EventsOf
<1> USE DEF IInv
<1> DEFINE Stays == /\ pc[w] \in {"read", "written"} /\ payload'[w] = payload[w]
                    /\ seen'[w] = seen[w]
<1>1. CASE Read(w)
  <2>1. PICK f \in Fingerprints : payload[w].fp = f
    BY <1>1 DEF Read, Held, Payload
  <2>2. /\ UNCHANGED <<issue, events, resolvedAt, payload>>
        /\ seen'[w] = issue[f]
    BY <1>1, <2>1 DEF Read, dbVars, TypeOK
  <2>3. issue[f] # NoIssue /\ issue[f].status = "resolved"
    BY <2>2 DEF Regressed
  <2>4. Regressions(f) = {}
    BY <2>3 DEF Reopened, NoMissedRegression, Regressions, EventsOf
  <2>5. Regressions(f)' = {}
    BY <2>2, <2>4 DEF Regressions, EventsOf
  <2>6. Cardinality(Regressions(f)') = 0
    BY <2>5, FS_EmptySet
  <2>7. issue[f].timesSeen \in Nat
    BY <2>3 DEF TypeOK, IssueRow
  <2>8. Cardinality(Regressions(f)') + issue[f].timesSeen <= issue[f].timesSeen
    BY <2>6, <2>7
  <2> QED
    BY <2>1, <2>2, <2>3, <2>8
<1>2. CASE Stays
  <2>1. PICK f \in Fingerprints : payload[w].fp = f
    BY <1>2 DEF Held, Payload
  <2>2. projectLive /\ ~DeleteProject
    BY DatabaseSteps DEF Commit, SetStatus, DeleteProject
  <2>3. /\ issue[f] # NoIssue
        /\ Cardinality(Regressions(f)) + seen[w].timesSeen <= issue[f].timesSeen
    BY <1>2, <2>1, <2>2 DEF Overlap
  <2>4. /\ Cardinality(Regressions(f)) \in Nat /\ seen[w].timesSeen \in Nat
        /\ issue[f].timesSeen \in Nat
    BY <1>2, <2>3, RegressionsFinite DEF TypeOK, IssueRow, Regressed
  <2>5. CASE UNCHANGED <<issue, events, projectLive, resolvedAt>>
    <3>1. Regressions(f)' = Regressions(f) /\ issue'[f] = issue[f]
      BY <2>5 DEF Regressions, EventsOf
    <3> QED
      BY <1>2, <2>1, <2>3, <3>1
  <2>6. CASE \E v \in Workers : Commit(v)
    <3>1. PICK k \in {0, 1} :
            /\ issue'[f] # NoIssue
            /\ issue'[f].timesSeen = issue[f].timesSeen + k
            /\ Cardinality(Regressions(f)') \in Nat
            /\ Cardinality(Regressions(f)') <= Cardinality(Regressions(f)) + k
      BY <2>3, <2>6, CommitOverlaps
    <3>2. Cardinality(Regressions(f)') + seen[w].timesSeen <= issue'[f].timesSeen
      BY <2>3, <2>4, <3>1
    <3> QED
      BY <1>2, <2>1, <3>1, <3>2
  <2>7. CASE \E g \in Fingerprints, s \in Statuses : SetStatus(g, s)
    <3>1. /\ issue'[f] # NoIssue
          /\ issue'[f].timesSeen = issue[f].timesSeen
          /\ Regressions(f)' \in SUBSET Regressions(f)
      BY <2>3, <2>7, StatusOverlaps DEF Reopened
    <3>2. /\ Cardinality(Regressions(f)') \in Nat
          /\ Cardinality(Regressions(f)') <= Cardinality(Regressions(f))
      BY <3>1, RegressionsFinite
    <3>3. Cardinality(Regressions(f)') + seen[w].timesSeen <= issue'[f].timesSeen
      BY <2>3, <2>4, <3>1, <3>2
    <3> QED
      BY <1>2, <2>1, <3>1, <3>3
  <2> QED
    BY <2>2, <2>5, <2>6, <2>7, DatabaseSteps
<1>3. CASE WriteUpdate(w) \/ WriteCreate(w)
  BY <1>2, <1>3, WriteSteps
<1> QED
  BY <1>1, <1>2, <1>3, ReadBy, WrittenBy

\* For any number of workers, a worker records a second regression after one
\* resolve only if the others were committed after its read of the issue
\* (process.ts:59-74,136).
THEOREM RegressionsOnlyOverlap == Spec => RegressionsOverlap
<1>1. Init => Reopened /\ Overlap
  BY DEF Init, Reopened, Timed, SeenFresh, DraftStatus, DraftFresh,
         NoMissedRegression, Overlap
<1>2. IInv /\ Reopened /\ [Next]_vars => Reopened'
  BY TimedStep, SeenFreshStep, DraftFreshStep, RegressionStep DEF Reopened
<1>3. IInv /\ Reopened /\ Overlap /\ [Next]_vars => Overlap'
  BY OverlapStep
<1>4. IInv /\ Overlap =>
        \A w \in Workers :
          LET f == payload[w].fp IN
          (pc[w] = "written" /\ EventOf(w) \in events' \ events /\ Regressed(seen[w]))
            => Cardinality(Regressions(f)) + seen[w].timesSeen <= issue[f].timesSeen
  BY DEF Overlap, IInv, Drafts
<1> QED
  BY <1>1, <1>2, <1>3, <1>4, Inductive, PTL DEF Spec, RegressionsOverlap

\* maxSeverity returns one of its arguments, and never the lesser.
LEMMA MaxSeverityBounds ==
  ASSUME NEW current \in Levels, NEW next \in Levels
  PROVE  /\ MaxSeverity(current, next) \in {current, next}
         /\ SeverityRank[current] <= SeverityRank[MaxSeverity(current, next)]
<1>1. \A l \in Levels : SeverityRank[l] \in Nat
  BY LevelsAssumption DEF SeverityRank
<1> QED
  BY <1>1 DEF MaxSeverity

\* A level is backed by a set of events.
Backed(set, level) ==
  /\ \E e \in set : e.level = level
  /\ \A e \in set :
       e.isNew => SeverityRank[e.level] <= SeverityRank[level]

\* What a worker has read stays backed, whatever is recorded meanwhile.
ReadBacked ==
  \A w \in Workers :
    pc[w] \in {"read", "written"} /\ seen[w] # NoIssue /\ projectLive =>
      /\ issue[payload[w].fp] # NoIssue
      /\ Backed(EventsOf(payload[w].fp), seen[w].level)

\* A draft has the level of the row read or of its own event.
DraftLevel ==
  \A w \in Workers : pc[w] = "written" =>
    /\ draft[w].level \in
         {payload[w].level} \union
         (IF seen[w] = NoIssue THEN {} ELSE {seen[w].level})
    /\ seen[w] # NoIssue =>
         SeverityRank[seen[w].level] <= SeverityRank[draft[w].level]

LevelsBacked ==
  \A f \in Fingerprints :
    issue[f] # NoIssue => Backed(EventsOf(f), issue[f].level)

\* LevelJustified says that the level of every issue is backed.
LEMMA LevelParts == LevelJustified <=> LevelsBacked
BY DEF LevelJustified, LevelsBacked, Backed

Levelled == ReadBacked /\ DraftLevel /\ LevelsBacked

\* What is backed stays backed while the project exists, unless the issue is
\* opened meanwhile.
LEMMA BackedStays ==
  ASSUME IInv, [Next]_vars, projectLive', NEW f \in Fingerprints,
         issue[f] # NoIssue, NEW level, Backed(EventsOf(f), level)
  PROVE  Backed(EventsOf(f)', level) /\ issue'[f] # NoIssue
<1> USE DEF IInv
<1>1. ASSUME events' = events PROVE Backed(EventsOf(f)', level)
  BY <1>1 DEF EventsOf
<1>2. ASSUME NEW w \in Workers, Commit(w) PROVE Backed(EventsOf(f)', level)
  <2>1. events' = events \union {EventOf(w)} /\ pc[w] = "written"
        /\ payload[w] \in Payload
    BY <1>2 DEF Commit, Held
  <2>2. EventOf(w).fp = f => ~EventOf(w).isNew
    BY <2>1 DEF Drafts, EventOf
  <2> QED
    BY <2>1, <2>2 DEF Backed, EventsOf
<1>3. Backed(EventsOf(f)', level)
  BY <1>1, <1>2, DatabaseSteps DEF SetStatus, DeleteProject
<1>4. issue'[f] # NoIssue
  <2>1. CASE issue'[f] = NoIssue
    <3>1. EventsOf(f)' = {}
      BY <2>1, CountStep DEF Counted, CountsEveryEvent
    <3> QED
      BY <1>3, <3>1 DEF Backed
  <2> QED
    BY <2>1
<1> QED
  BY <1>3, <1>4

\* What a transaction has read stays backed until it ends.
LEMMA ReadBackedStep == IInv /\ Levelled /\ [Next]_vars => ReadBacked'
<1> SUFFICES ASSUME IInv, Levelled, [Next]_vars, NEW w \in Workers,
                    pc'[w] \in {"read", "written"}, seen'[w] # NoIssue,
                    projectLive'
             PROVE  /\ issue'[payload'[w].fp] # NoIssue
                    /\ Backed(EventsOf(payload[w].fp)', seen'[w].level)
  BY DEF ReadBacked
<1> USE DEF IInv, Levelled
<1>1. CASE Read(w)
  <2>1. /\ UNCHANGED <<issue, events, payload>> /\ payload[w] \in Payload
        /\ seen'[w] = issue[payload[w].fp]
    BY <1>1 DEF Read, dbVars, TypeOK, Held
  <2>2. PICK f \in Fingerprints : payload[w].fp = f
    BY <2>1 DEF Payload
  <2>3. issue[f] # NoIssue /\ Backed(EventsOf(f), issue[f].level)
    BY <2>1, <2>2 DEF LevelsBacked
  <2> QED
    BY <2>1, <2>2, <2>3 DEF Backed, EventsOf
<1>2. CASE /\ pc[w] \in {"read", "written"} /\ payload'[w] = payload[w]
           /\ seen'[w] = seen[w]
  <2>1. PICK f \in Fingerprints : payload[w].fp = f
    BY <1>2 DEF Held, Payload
  <2>2. PICK level : seen[w].level = level
    OBVIOUS
  <2>3. projectLive
    BY DatabaseSteps DEF Commit, SetStatus, DeleteProject
  <2>4. issue[f] # NoIssue /\ Backed(EventsOf(f), level)
    BY <1>2, <2>1, <2>2, <2>3 DEF ReadBacked
  <2>5. Backed(EventsOf(f)', level) /\ issue'[f] # NoIssue
    BY <2>4, BackedStays
  <2> QED
    BY <1>2, <2>1, <2>2, <2>5
<1>3. CASE WriteUpdate(w) \/ WriteCreate(w)
  <2>1. pc[w] = "read" /\ UNCHANGED <<payload, seen>>
    BY <1>3, WriteSteps
  <2> QED
    BY <1>2, <2>1
<1> QED
  BY <1>1, <1>2, <1>3, ReadBy, WrittenBy

\* A draft's level comes from the row read or the payload, whichever is worse.
LEMMA DraftLevelStep == IInv /\ Levelled /\ [Next]_vars => DraftLevel'
<1> SUFFICES ASSUME IInv, Levelled, [Next]_vars,
                    NEW w \in Workers, pc'[w] = "written"
             PROVE  /\ draft'[w].level \in
                         {payload'[w].level} \union
                         (IF seen'[w] = NoIssue THEN {} ELSE {seen'[w].level})
                    /\ seen'[w] # NoIssue =>
                         SeverityRank[seen'[w].level]
                           <= SeverityRank[draft'[w].level]
  BY DEF DraftLevel
<1>1. CASE WriteUpdate(w) \/ WriteCreate(w)
  <2>1. CASE seen[w] = NoIssue
    BY <1>1, <2>1, WriteSteps
  <2>2. CASE seen[w] # NoIssue
    <3>1. /\ UNCHANGED <<payload, seen>>
          /\ seen[w].level \in Levels /\ payload[w].level \in Levels
          /\ draft'[w].level = MaxSeverity(seen[w].level, payload[w].level)
      BY <1>1, <2>2, WriteSteps DEF IssueRow, Payload
    <3> QED
      BY <2>2, <3>1, MaxSeverityBounds
  <2> QED
    BY <2>1, <2>2
<1>2. CASE /\ pc[w] = "written" /\ payload'[w] = payload[w]
           /\ now'[w] = now[w] /\ seen'[w] = seen[w] /\ draft'[w] = draft[w]
  BY <1>2 DEF DraftLevel, Levelled
<1> QED
  BY <1>1, <1>2, WrittenBy DEF IInv

\* A commit leaves the issue with a level its events back.
LEMMA CommitBacks ==
  ASSUME IInv, Levelled, NEW w \in Workers, Commit(w), NEW f \in Fingerprints,
         payload[w].fp = f
  PROVE  Backed(EventsOf(f)', draft[w].level)
<1> USE DEF IInv, Levelled
<1>1. /\ events' = events \union {EventOf(w)}
      /\ pc[w] = "written" /\ payload[w] \in Payload
      /\ projectLive
  BY DEF Commit, Held, Drafts
<1>2. /\ EventOf(w).fp = f /\ EventOf(w).level = payload[w].level
      /\ EventOf(w).isNew = (seen[w] = NoIssue)
  BY DEF EventOf
<1>3. EventsOf(f)' = EventsOf(f) \union {EventOf(w)}
  BY <1>1, <1>2 DEF EventsOf
<1>4. PICK level : level = draft[w].level
  OBVIOUS
<1>5. level \in Levels /\ SeverityRank[level] \in Nat
  BY <1>1, <1>4, LevelsAssumption DEF Drafts, IssueRow, SeverityRank
<1>6. CASE seen[w] = NoIssue
  <2>1. EventsOf(f) = {}
    BY <1>1, <1>6 DEF Drafts, Counted, CountsEveryEvent
  <2>2. EventOf(w).level = level
    BY <1>1, <1>2, <1>4, <1>6 DEF DraftLevel
  <2>3. EventsOf(f)' = {EventOf(w)}
    BY <1>3, <2>1
  <2>4. PICK x : x = EventOf(w)
    OBVIOUS
  <2>5. EventsOf(f)' = {x} /\ x.level = level
    BY <2>2, <2>3, <2>4
  <2>6. /\ \E e \in EventsOf(f)' : e.level = level
        /\ \A e \in EventsOf(f)' :
             e.isNew => SeverityRank[e.level] <= SeverityRank[level]
    BY <1>5, <2>5
  <2> QED
    BY <1>4, <2>6 DEF Backed, Commit
<1>7. CASE seen[w] # NoIssue
  <2>1. Backed(EventsOf(f), seen[w].level) /\ seen[w].level \in Levels
    BY <1>1, <1>7 DEF ReadBacked, TypeOK, IssueRow
  <2>2. /\ SeverityRank[seen[w].level] <= SeverityRank[level]
        /\ level = payload[w].level \/ level = seen[w].level
        /\ SeverityRank[seen[w].level] \in Nat
    BY <1>1, <1>4, <1>7, <2>1, LevelsAssumption DEF DraftLevel, SeverityRank
  <2>3. \A e \in EventsOf(f) : SeverityRank[e.level] \in Nat
    BY LevelsAssumption DEF EventsOf, TypeOK, EventRow, SeverityRank
  <2>4. \E e \in EventsOf(f)' : e.level = level
    BY <1>2, <1>3, <2>1, <2>2 DEF Backed
  <2>5. \A e \in EventsOf(f)' :
          e.isNew => SeverityRank[e.level] <= SeverityRank[level]
    <3> SUFFICES ASSUME NEW e \in EventsOf(f)', e.isNew
                 PROVE  SeverityRank[e.level] <= SeverityRank[level]
      OBVIOUS
    <3>1. e # EventOf(w)
      BY <1>2, <1>7
    <3>2. /\ e \in EventsOf(f)
          /\ SeverityRank[e.level] <= SeverityRank[seen[w].level]
      BY <1>3, <2>1, <3>1 DEF Backed
    <3> QED
      BY <1>5, <2>2, <2>3, <3>2
  <2> QED
    BY <1>4, <2>4, <2>5 DEF Backed
<1> QED
  BY <1>6, <1>7

\* The level of every issue stays backed.
LEMMA LevelsBackedStep == IInv /\ Levelled /\ [Next]_vars => LevelsBacked'
<1> SUFFICES ASSUME IInv, Levelled, [Next]_vars,
                    NEW f \in Fingerprints, issue'[f] # NoIssue
             PROVE  Backed(EventsOf(f)', issue'[f].level)
  BY DEF LevelsBacked
<1> USE DEF IInv, Levelled
<1>1. CASE \/ issue[f] = NoIssue
           \/ \E v \in Workers : Commit(v) /\ payload[v].fp = f
  <2>1. PICK v \in Workers : Commit(v) /\ payload[v].fp = f
    BY <1>1, RowSteps
  <2>2. issue'[f] = draft[v]
    BY <2>1 DEF Commit, TypeOK
  <2> QED
    BY <2>1, <2>2, CommitBacks
<1>2. CASE /\ issue[f] # NoIssue
           /\ ~\E v \in Workers : Commit(v) /\ payload[v].fp = f
  <2>1. issue'[f].level = issue[f].level
    BY <1>2, RowSteps
  <2>2. PICK level : level = issue[f].level
    OBVIOUS
  <2>3. Backed(EventsOf(f), level)
    BY <1>2, <2>2 DEF LevelsBacked
  <2>4. ~DeleteProject
    BY DEF DeleteProject
  <2>5. projectLive /\ projectLive' = projectLive
    BY <1>2, <2>4, DatabaseSteps DEF Commit, SetStatus, DeletedIsEmpty, TypeOK
  <2>6. Backed(EventsOf(f)', level)
    BY <1>2, <2>3, <2>5, BackedStays
  <2> QED
    BY <2>1, <2>2, <2>6
<1> QED
  BY <1>1, <1>2

\* The level shown for an issue is that of one of its events and no less severe
\* than the one that opened it, for any number of workers and any payloads
\* (process.ts:82-84).
THEOREM LevelsJustified == Spec => []LevelJustified
<1>1. Init => Levelled
  BY DEF Init, Levelled, ReadBacked, DraftLevel, LevelsBacked
<1>2. IInv /\ Levelled /\ [Next]_vars => Levelled'
  BY ReadBackedStep, DraftLevelStep, LevelsBackedStep DEF Levelled
<1>3. Levelled => LevelJustified
  BY LevelParts DEF Levelled
<1> QED
  BY <1>1, <1>2, <1>3, Inductive, PTL DEF Spec
=============================================================================
