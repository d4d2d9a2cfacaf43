-------------------------- MODULE ReleaseArtifacts --------------------------
(***************************************************************************)
(* What belongs to a release and grows old: its source maps                 *)
(* (modules/sourcemaps), the resolved stack traces cached on its events     *)
(* (modules/issues/service.ts, resolveStacktraces), their snapshots and     *)
(* replays, and the pass that deletes what is past its retention            *)
(* (modules/retention/prune.ts, worker.ts).                                 *)
(*                                                                         *)
(* Each step is one statement of the code: readers, writers and the pass    *)
(* interleave between them, and nothing of this runs in a transaction.      *)
(***************************************************************************)
EXTENDS ArtifactMatch, FiniteSets

CONSTANTS
  Events, ReleaseOf, FramesOf,  \* an event's release, its frames' paths
  WithSnapshot, WithReplay,     \* events whose SDK sends these
  Releases, ProjectOf,          \* releases of projects, each with its own
  Names,                        \* artifact names that are uploaded
  Versions,                     \* contents of an upload that resolve frames
  Corrupt, NoMap,               \* content that does not parse, no row
  Readers, Writers,
  Executions,                   \* executions of the retention job at a time
  Ages,                         \* sets of targets that grow old together
  Enabled,                      \* targets with a retention of some days
  BatchSize,
  Attempts,                     \* of the retention job; 3 in lib/queue.ts
  MaxWrites,                    \* bound: replays, uploads and deletions
  MaxReads,                     \* bound: pages of events read
  MaxPasses,                    \* bound: executions of the retention job
  Spent                         \* bound: how much of each is used up at first

Targets == <<"replay", "snapshot", "event", "sourcemap">>
MapIds == Releases \X Names
Projects == {ProjectOf[r] : r \in Releases}

ASSUME ArtifactAssumption ==
  /\ {BatchSize, Attempts} \subseteq Nat \ {0}
  /\ Spent \subseteq Nat \X Nat \X Nat
  /\ Enabled \subseteq {Targets[i] : i \in 1 .. 4}
  /\ ReleaseOf \in [Events -> Releases]
  /\ WithSnapshot \cup WithReplay \subseteq Events
  /\ IsFiniteSet(Names) /\ \A n \in Names : IsPath(n)
  /\ \A e \in Events : \A f \in FramesOf[e] : IsPath(f)
  /\ Corrupt \notin Versions /\ NoMap \notin Versions \cup {Corrupt}

EventRows(kind) == {<<kind, e>> : e \in Events}
MapRow(m) == <<"sourcemap", m>>
Rows ==
  {MapRow(m) : m \in MapIds} \cup
    UNION {EventRows(kind) : kind \in {"replay", "snapshot", "event"}}

VARIABLES
  rows,      \* the rows of the four tables, a subset of Rows
  old,       \* those whose date is past the retention of their table
  fresh,     \* maps whose last upload, their updatedAt, is not
  projects,  \* those that are not deleted
  content,   \* SourceMap.data of each map
  trace,     \* Event.symbolicated: frames with the map that resolved them
  reader,    \* one request for a page of events each
  writer,    \* one request to upload or delete each
  pass,      \* an execution of the retention job each: target, what its
             \* cutoff dooms, attempts, the batch of a running DELETE
  arrived,   \* events that were inserted
  writes, reads, passes,   \* counts for the bounds
  raced,     \* for checking: events whose cache was read past or left behind
  watch      \* for checking, of each execution: rows past their retention as
             \* it began, events since its DELETE began, kinds of which
             \* somebody else deleted what it counts on

vars == <<rows, old, fresh, projects, content, trace, reader, writer, pass,
          arrived, writes, reads, passes, raced, watch>>

EventsOf(r) == {e \in Events : ReleaseOf[e] = r}
Present(e) == <<"event", e>> \in rows
MapsIn(r) == {n \in Names : content[<<r, n>>] # NoMap}

NoOutcome == [e \in Events |-> {}]
NoReader ==
  [stage |-> "idle", page |-> {}, names |-> {}, outcomes |-> NoOutcome]
NoWriter == [stage |-> "idle"]
NoPass == [target |-> 0, doomed |-> {}, attempts |-> 0, running |-> FALSE,
           batch |-> {}]
NoWatch == [mustGo |-> {}, late |-> {}, disturbed |-> {}]

\* Some maps may have been uploaded before.
Init ==
  /\ content \in [MapIds -> Versions \cup {NoMap}]
  /\ rows = {MapRow(m) : m \in {k \in MapIds : content[k] # NoMap}}
  /\ fresh = rows /\ projects = Projects
  /\ old = {} /\ arrived = {} /\ raced = {}
  /\ trace = NoOutcome
  /\ reader = [q \in Readers |-> NoReader]
  /\ writer = [w \in Writers |-> NoWriter]
  /\ pass = [p \in Executions |-> NoPass]
  /\ watch = [p \in Executions |-> NoWatch]
  /\ \E s \in Spent : writes = s[1] /\ reads = s[2] /\ passes = s[3]

-----------------------------------------------------------------------------
(* Rows arrive and grow old. *)

\* processEvent commits an event, dated now, and then inserts its snapshot or
\* fails to: one step, for in between it is too young for the pass.  The foreign
\* key wants its project.
AddEvent(e) ==
  /\ e \notin arrived /\ ProjectOf[ReleaseOf[e]] \in projects
  /\ arrived' = arrived \cup {e}
  /\ \E kinds \in {{"event"}} \cup (IF e \in WithSnapshot
                                    THEN {{"event", "snapshot"}} ELSE {}) :
       rows' = rows \cup {<<kind, e>> : kind \in kinds}
  /\ watch' = [p \in Executions |-> [watch[p] EXCEPT
                  !.late = IF pass[p].running THEN @ \cup {e} ELSE @]]
  /\ UNCHANGED <<old, fresh, projects, content, trace, reader, writer, pass,
                 writes, reads, passes, raced>>

\* The replay endpoint upserts by clientEventId: before or after the event
\* itself, again for a retry, and again after it was deleted.  An update keeps
\* createdAt, and no foreign key asks for the event or the project.
PutReplay(e) ==
  /\ writes < MaxWrites /\ writes' = writes + 1
  /\ rows' = rows \cup {<<"replay", e>>}
  /\ UNCHANGED <<old, fresh, projects, content, trace, reader, writer, pass,
                 arrived, reads, passes, raced, watch>>

\* Time passes until what these tables hold is past its retention.
GrowOld(kinds) ==
  /\ old' = {row \in rows : row \in old \/ row[1] \in kinds}
  /\ fresh' = {row \in fresh : row[1] \notin kinds}
  /\ UNCHANGED <<rows, projects, content, trace, reader, writer, pass, arrived,
                 writes, reads, passes, raced, watch>>

-----------------------------------------------------------------------------
(* Rows are deleted. *)

\* Mutant of WithCascade: the foreign key of the snapshot does not cascade.
WithoutCascade(batch) == batch

WithCascade(batch) ==
  batch \cup {row \in rows : /\ row[1] = "snapshot"
                            /\ <<"event", row[2]>> \in batch}

\* These rows go; a DELETE that is running does not count what another took.
Delete(gone) ==
  /\ rows' = rows \ gone
  /\ old' = old \ gone
  /\ fresh' = fresh \ gone
  /\ content' = [m \in MapIds |->
                   IF MapRow(m) \in gone THEN NoMap ELSE content[m]]
  /\ trace' = [e \in Events |->
                 IF <<"event", e>> \in gone THEN {} ELSE trace[e]]

Without(gone) ==
  [p \in Executions |->
     [pass[p] EXCEPT !.doomed = @ \ gone, !.batch = @ \ gone]]

\* The kinds of which p may leave rows, now that somebody else deletes these.
Disturbed(p, gone) ==
  {row[1] : row \in pass[p].batch \cap gone}
    \cup (IF \E row \in gone : row[1] = "event" THEN {"sourcemap"} ELSE {})

Watched(gone) ==
  [p \in Executions |-> [watch[p] EXCEPT !.mustGo = @ \ gone,
                                     !.disturbed = @ \cup Disturbed(p, gone)]]

RowsOf(t) ==
  {MapRow(m) : m \in {k \in MapIds : ProjectOf[k[1]] = t}}
    \cup {<<"event", e>> : e \in {d \in Events : ProjectOf[ReleaseOf[d]] = t}}

\* deleteProject: its maps and events cascade, with their snapshots.
DeleteProject(t) ==
  LET gone == WithCascade(rows \cap RowsOf(t)) IN
  /\ t \in projects
  /\ projects' = projects \ {t}
  /\ Delete(gone)
  /\ pass' = Without(gone) /\ watch' = Watched(gone)
  /\ raced' = {e \in raced : <<"event", e>> \notin gone}
  /\ UNCHANGED <<reader, writer, arrived, writes, reads, passes>>

-----------------------------------------------------------------------------
(* Source maps are uploaded and deleted. *)

\* resolveTracerName, tabulated.
TracerName ==
  [f \in UNION {FramesOf[e] : e \in Events} |->
     [names \in SUBSET Names |-> ResolveTracerName(f, SetToSeq(names))]]

\* What a page's frames become with these contents of the maps of its release:
\* those that do not parse are as if not there.
SymbolicateFrames(e, loaded) ==
  LET usable == {n \in DOMAIN loaded : loaded[n] \in Versions}
      best(f) == TracerName[f][usable] IN
  {<<f, best(f), loaded[best(f)]>> :
     f \in {g \in FramesOf[e] : best(g) # NoArtifact}}

Resolved(e) ==
  SymbolicateFrames(e, [n \in MapsIn(ReleaseOf[e]) |->
                          content[<<ReleaseOf[e], n>>]])

\* symbolicateEvents takes one release of the page after the other.
Group(q) ==
  CHOOSE r \in Releases : \E e \in reader[q].page : ReleaseOf[e] = r

\* The events a request has read the maps for, or begun to.
InFlight(q) ==
  {e \in Events : \/ reader[q].outcomes[e] # {}
                  \/ /\ reader[q].stage = "named"
                     /\ e \in reader[q].page \cap EventsOf(Group(q))}

Overtaken(r) == EventsOf(r) \cap UNION {InFlight(q) : q \in Readers}

BeginWrite(w, next) ==
  /\ writer[w].stage = "idle"
  /\ writes < MaxWrites
  /\ writes' = writes + 1
  /\ writer' = [writer EXCEPT ![w] = next]

\* uploadSourceMap: the upsert, whose foreign key wants the project; an existing
\* row keeps createdAt.
UploadSourceMap(w, m, data) ==
  /\ ProjectOf[m[1]] \in projects
  /\ BeginWrite(w, [stage |-> "changed", release |-> m[1]])
  /\ content' = [content EXCEPT ![m] = data]
  /\ rows' = rows \cup {MapRow(m)}
  /\ fresh' = fresh \cup {MapRow(m)}
  /\ raced' = raced \cup Overtaken(m[1])
  /\ UNCHANGED <<old, projects, trace, reader, pass, arrived, reads, passes,
                 watch>>

\* deleteSourceMaps: one artifact or all of a release; nothing deleted, nothing
\* to invalidate.
DeleteSourceMaps(w, r, names) ==
  LET gone == {MapRow(<<r, n>>) : n \in names \cap MapsIn(r)} IN
  /\ BeginWrite(w, IF gone = {} THEN NoWriter
                   ELSE [stage |-> "changed", release |-> r])
  /\ Delete(gone)
  /\ pass' = Without(gone) /\ watch' = Watched(gone)
  /\ raced' = IF gone = {} THEN raced ELSE raced \cup Overtaken(r)
  /\ UNCHANGED <<projects, reader, arrived, reads, passes>>

\* Mutant of Invalidated: the cache is kept.
KeptCache(r) == trace

Invalidated(r) == [e \in Events |-> IF ReleaseOf[e] = r THEN {} ELSE trace[e]]

\* The second statement of both: the cached traces of the release are dropped.
Invalidate(w) ==
  /\ writer[w].stage = "changed"
  /\ trace' = Invalidated(writer[w].release)
  /\ writer' = [writer EXCEPT ![w] = NoWriter]
  /\ raced' = (raced \ EventsOf(writer[w].release))
                \cup Overtaken(writer[w].release)
  /\ UNCHANGED <<rows, old, fresh, projects, content, reader, pass, arrived,
                 writes, reads, passes, watch>>

\* The request dies between the two: what is cached stays.
FailWrite(w) ==
  /\ writer[w].stage = "changed"
  /\ writer' = [writer EXCEPT ![w] = NoWriter]
  /\ raced' = raced \cup EventsOf(writer[w].release)
  /\ UNCHANGED <<rows, old, fresh, projects, content, trace, reader, pass,
                 arrived, writes, reads, passes, watch>>

-----------------------------------------------------------------------------
(* A page of events is read and its stack traces resolved. *)

\* What a request of this page has before it: the rest of the page, then the
\* cache writes, then nothing.
Reading(page, outcomes) ==
  [stage |-> IF page # {} THEN "page"
             ELSE IF outcomes # NoOutcome THEN "fill" ELSE "idle",
   page |-> page, names |-> {}, outcomes |-> outcomes]

\* listIssueEvents reads a page of one issue, thus of one project; what is
\* cached is taken as it is.
ListIssueEvents(q, page) ==
  LET uncached == {e \in page : trace[e] = {}} IN
  /\ reader[q].stage = "idle"
  /\ reads < MaxReads
  /\ reads' = reads + 1
  /\ \A e \in page : Present(e)
  /\ \E t \in Projects : \A e \in page : ProjectOf[ReleaseOf[e]] = t
  /\ uncached # {}
  /\ reader' = [reader EXCEPT ![q] = Reading(uncached, NoOutcome)]
  /\ UNCHANGED <<rows, old, fresh, projects, content, trace, writer, pass,
                 arrived, writes, passes, raced, watch>>

\* loadSourceMapsByName: first the names that the frames may need.
ReadNames(q) ==
  LET r == Group(q)
      frames == UNION {FramesOf[e] : e \in reader[q].page \cap EventsOf(r)} IN
  /\ reader[q].stage = "page"
  /\ reader' = [reader EXCEPT ![q] =
                  [stage |-> "named", page |-> @.page, outcomes |-> @.outcomes,
                   names |-> Wanted(MapsIn(r), frames)]]
  /\ UNCHANGED <<rows, old, fresh, projects, content, trace, writer, pass,
                 arrived, writes, reads, passes, raced, watch>>

\* Then their data, where a name may be gone by now or have new data; with it
\* symbolicateFrames resolves the events of the release.
ReadData(q) ==
  LET r == Group(q)
      loaded == [n \in reader[q].names \cap MapsIn(r) |-> content[<<r, n>>]]
      outcomes == [e \in Events |->
        IF e \in reader[q].page \cap EventsOf(r)
        THEN SymbolicateFrames(e, loaded) ELSE reader[q].outcomes[e]] IN
  /\ reader[q].stage = "named"
  /\ reader' = [reader EXCEPT ![q] =
                  Reading(reader[q].page \ EventsOf(r), outcomes)]
  /\ UNCHANGED <<rows, old, fresh, projects, content, trace, writer, pass,
                 arrived, writes, reads, passes, raced, watch>>

\* Once all are resolved, what changed is cached, by an update of its own for
\* each event, in any order; a deleted event is passed over.
FillCache(q, e) ==
  LET outcome == reader[q].outcomes[e] IN
  /\ reader[q].stage = "fill" /\ outcome # {}
  /\ trace' = [trace EXCEPT ![e] = IF Present(e) THEN outcome ELSE @]
  /\ reader' = [reader EXCEPT ![q] =
                  Reading({}, [reader[q].outcomes EXCEPT ![e] = {}])]
  /\ UNCHANGED <<rows, old, fresh, projects, content, writer, pass, arrived,
                 writes, reads, passes, raced, watch>>

-----------------------------------------------------------------------------
(* The retention pass. *)

\* The first target from i on with a retention; 5 when there is none.
TargetFrom(i) ==
  LET on == {j \in i .. 4 : Targets[j] \in Enabled} IN
  IF on = {} THEN 5 ELSE CHOOSE j \in on : \A k \in on : j <= k

\* A target begins: its cutoff tells which rows it may delete.
AtTarget(i, oldNow, attempts) ==
  [target |-> i, attempts |-> attempts, running |-> FALSE, batch |-> {},
   doomed |-> IF i = 5 THEN {} ELSE {row \in oldNow : row[1] = Targets[i]}]

\* A worker takes the job of the scheduler; another one takes it too when it
\* counts as stalled, or takes the next.
StartPass(p) ==
  /\ pass[p].target = 0 /\ passes < MaxPasses
  /\ passes' = passes + 1
  /\ pass' = [pass EXCEPT ![p] = AtTarget(TargetFrom(1), old, 1)]
  /\ watch' = [watch EXCEPT ![p] =
       [NoWatch EXCEPT !.mustGo = {row \in old : row[1] \in Enabled}]]
  /\ UNCHANGED <<rows, old, fresh, projects, content, trace, reader, writer,
                 arrived, writes, reads, raced>>

\* Mutant of Orphan: whether the release has events is not asked.
AnyMap(m) == TRUE

\* No event of the release of this map remains.
Orphan(m) == \A e \in EventsOf(m[1]) : ~ Present(e)

Prunable(doomed) ==
  {row \in doomed : row[1] = "sourcemap" => Orphan(row[2])}

\* A DELETE begins: in its snapshot the subquery picks the oldest rows of those
\* that it may delete, up to the batch size.
SelectBatch(p) ==
  /\ pass[p].target \in 1 .. 4 /\ ~ pass[p].running
  /\ \E batch \in SUBSET Prunable(pass[p].doomed) :
       /\ \/ Cardinality(batch) = BatchSize
          \/ /\ batch = Prunable(pass[p].doomed)
             /\ Cardinality(batch) < BatchSize
       /\ pass' = [pass EXCEPT ![p].running = TRUE, ![p].batch = batch]
  /\ watch' = [watch EXCEPT ![p].late = {}]
  /\ UNCHANGED <<rows, old, fresh, projects, content, trace, reader, writer,
                 arrived, writes, reads, passes, raced>>

\* Mutant of Drained: a full batch ends the target.
DrainedWhenFull(n) == n <= BatchSize

\* "A short batch means the table is drained" (prune.ts:142).
Drained(n) == n < BatchSize

\* It commits: what is left of its batch is deleted and counted.
DeleteBatch(p) ==
  LET gone == WithCascade(pass[p].batch)
      next == TargetFrom(pass[p].target + 1)
      n == Cardinality(pass[p].batch) IN
  /\ pass[p].running
  /\ Delete(gone)
  /\ pass' = [Without(gone) EXCEPT ![p] =
                IF Drained(n) THEN AtTarget(next, old \ gone, @.attempts)
                ELSE [@ EXCEPT !.running = FALSE]]
  /\ watch' = [Watched(gone) EXCEPT ![p].disturbed = watch[p].disturbed]
  /\ raced' = {e \in Events : /\ <<"event", e>> \notin gone
                             /\ \/ e \in raced
                                \/ \E row \in gone :
                                     /\ row[1] = "sourcemap" /\ Present(e)
                                     /\ row[2][1] = ReleaseOf[e]}
  /\ UNCHANGED <<projects, reader, writer, arrived, writes, reads, passes>>

\* Mutant of AfterFailure: the attempts are not counted.
RetriedForever(p) == AtTarget(TargetFrom(1), old, pass[p].attempts)

\* The job is retried from the first target, in a limited number of attempts.
AfterFailure(p) ==
  IF pass[p].attempts = Attempts THEN NoPass
  ELSE AtTarget(TargetFrom(1), old, pass[p].attempts + 1)

\* A DELETE fails: what earlier batches deleted stays deleted.
FailPass(p) ==
  /\ pass[p].running
  /\ pass' = [pass EXCEPT ![p] = AfterFailure(p)]
  /\ watch' = [watch EXCEPT ![p] =
       IF pass'[p] = NoPass THEN NoWatch ELSE [@ EXCEPT !.disturbed = {}]]
  /\ UNCHANGED <<rows, old, fresh, projects, content, trace, reader, writer,
                 arrived, writes, reads, passes, raced>>

FinishPass(p) ==
  /\ pass[p].target = 5
  /\ pass' = [pass EXCEPT ![p] = NoPass]
  /\ watch' = [watch EXCEPT ![p] = NoWatch]
  /\ UNCHANGED <<rows, old, fresh, projects, content, trace, reader, writer,
                 arrived, writes, reads, passes, raced>>

Retention(p) == SelectBatch(p) \/ DeleteBatch(p) \/ FailPass(p) \/ FinishPass(p)

Next ==
  \/ \E e \in Events : AddEvent(e)
  \/ \E e \in WithReplay : PutReplay(e)
  \/ \E kinds \in Ages : GrowOld(kinds)
  \/ \E w \in Writers :
       \/ \E m \in MapIds, data \in Versions \cup {Corrupt} :
            UploadSourceMap(w, m, data)
       \/ \E r \in Releases, names \in {{n} : n \in Names} \cup {Names} :
            DeleteSourceMaps(w, r, names)
       \/ Invalidate(w) \/ FailWrite(w)
  \/ \E q \in Readers :
       \/ \E page \in SUBSET Events : ListIssueEvents(q, page)
       \/ ReadNames(q) \/ ReadData(q)
       \/ \E e \in Events : FillCache(q, e)
  \/ \E t \in Projects : DeleteProject(t)
  \/ \E p \in Executions : StartPass(p) \/ Retention(p)

\* A worker goes on with a job that it has taken, or fails it.
Spec ==
  Init /\ [][Next]_vars /\ \A p \in Executions : WF_vars(Retention(p))

-----------------------------------------------------------------------------
\* Types; a snapshot has its event, whose deletion cascades (schema.prisma:186),
\* and maps and events have their project.
TypeOK ==
  /\ old \subseteq rows /\ rows \subseteq Rows /\ fresh \subseteq rows
  /\ \A p \in Executions :
       /\ watch[p].mustGo \cup pass[p].doomed \subseteq old
       /\ pass[p].batch \subseteq pass[p].doomed
       /\ pass[p].target \in 0 .. 5 /\ pass[p].attempts \in 0 .. Attempts
  /\ \A m \in MapIds :
       /\ MapRow(m) \in rows <=> content[m] # NoMap
       /\ MapRow(m) \in rows => ProjectOf[m[1]] \in projects
  /\ \A e \in Events :
       /\ <<"snapshot", e>> \in rows => Present(e)
       /\ Present(e) => ProjectOf[ReleaseOf[e]] \in projects
  /\ \A q \in Readers : /\ reader[q].stage \in {"idle", "page", "named", "fill"}
                        /\ reader[q].page \subseteq arrived
                        /\ reader[q].names \subseteq Names
  /\ raced \subseteq Events

\* A stack trace that is cached is what the source maps of its release resolve
\* it to now, except while an upload or deletion is between its two statements,
\* after one died there, and when one overtook the request that filled the cache
\* (comment service.ts:103) or the pass took maps of an active release.
StaleOnlyByRace ==
  \A e \in Events :
    trace[e] \notin {{}, Resolved(e)} =>
      \/ e \in raced
      \/ \E w \in Writers : writer[w] = [stage |-> "changed",
                                         release |-> ReleaseOf[e]]

\* What the stack trace of an event that stays resolves to is the same after
\* this step, if e is not one of these.
Unchanged(excused) ==
  \A e \in Events \ excused :
    (Present(e) /\ Present(e)') => Resolved(e)' = Resolved(e)

\* Events that were committed while a DELETE that ends now was running.
CameDuringDelete ==
  UNION {watch[p].late : p \in {o \in Executions : /\ pass[o].running
                                              /\ ~ pass'[o].running}}

\* Nothing but an upload or a deletion of maps changes what the stack trace of
\* an event that stays resolves to: a DELETE of the pass takes no map of a
\* release with an event that was there as it began (prune.ts:160-163).
ResolutionKept == [][writes' = writes => Unchanged(CameDuringDelete)]_vars

\* As prune.ts:160 says, without the exception: as long as one event for the
\* release survives, its maps stay.  Violated, when the event is committed while
\* the DELETE runs, whose NOT EXISTS has not seen it.
ActiveReleaseKeepsMaps == [][writes' = writes => Unchanged({})]_vars

\* As prune.ts:163 says, the pass deletes no map that was just uploaded.
\* Violated by a second upload, which keeps createdAt
\* (sourcemaps/service.ts:97).
NoNewMapPruned ==
  [][writes' = writes /\ projects' = projects => fresh \subseteq rows']_vars

\* An execution that completes leaves no row that was past its retention when it
\* began, even if attempts failed before and rows were added meanwhile; of the
\* maps it keeps those of releases with events (prune.ts:118-121).  Nothing is
\* said of a table in which somebody else deleted a row of a batch while its
\* DELETE ran, nor of maps when somebody else deleted events.
DrainedAtEnd ==
  \A p \in Executions : pass[p].target = 5 =>
    \A row \in watch[p].mustGo :
      \/ row[1] = "sourcemap" /\ ~ Orphan(row[2])
      \/ row[1] \in watch[p].disturbed

\* As prune.ts:142 says, a table is drained when its target ends.  Violated when
\* somebody else deletes a row of the batch: the batch is short, and what the
\* subquery did not pick stays.
ShortBatchDrains ==
  [][\A p \in Executions :
       (pass[p].target \in 1 .. 3 /\ pass'[p].target > pass[p].target)
         => pass[p].doomed \cap rows' = {}]_vars

\* An execution ends (prune.ts:181-183).
PassEnds == \A p \in Executions : pass[p].target # 0 ~> pass[p].target = 0
=============================================================================
