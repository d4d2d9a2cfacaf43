------------------------ MODULE IngestPipelineProofs ------------------------
(***************************************************************************)
(* For any number of requests, ids, issues and slots, and any limit of      *)
(* attempts: what the queue promises of a job, and how often it records.    *)
(*                                                                         *)
(* The counting rests on a budget.  Every Take of a job is paid for by a    *)
(* failed attempt, a stall or the completion that ends it, and every Take   *)
(* records at most once; so the copies of an event and the executions that  *)
(* may still make one are together at most the Takes there have been        *)
(* (WithinBudget).  An execution that nothing disturbed holds the lock to   *)
(* its end, so there is no other one beside it (Calm).                      *)
(***************************************************************************)
EXTENDS IngestPipeline, FiniteSetTheorems, TLAPS

\* A slot works on a job exactly while it is not idle.
Busy == \A s \in Slots : pc[s] # "idle" <=> work[s] # None

\* Only an active job is locked.
Locked == \A i \in Ids : holder[i] # None => job[i] = "active"

\* A job that is not finished has an attempt left.
Unspent ==
  \A i \in Ids : job[i] \in {"wait", "active"} =>
    attempts[i] < Attempts /\ stalls[i] <= MaxStalled

\* An issue has no opener among events it does not have.
Opened == \A f \in Fingerprints : opener[f] \subseteq ledger[f]

IInv == TypeOK /\ Busy /\ Locked /\ Unspent /\ Opened

LEMMA Assumptions ==
  /\ \A r \in Requests : IdOf[r] \in Ids
  /\ \A i \in Ids : FingerprintOf[i] \in Fingerprints
  /\ None \notin Slots /\ None \notin Ids
  /\ \A o \in Others : o \notin Ids
  /\ Attempts \in Nat /\ Attempts > 0 /\ MaxCopies \in Nat
  /\ MaxStalled = 1
BY IdOfAssumption, FingerprintOfAssumption, NoneAssumption, LimitsAssumption
   DEF MaxStalled

LEMMA InitInv == Init => IInv
<1> SUFFICES ASSUME Init PROVE IInv
  OBVIOUS
<1>1. TypeOK
  BY Assumptions DEF Init, TypeOK, Ledger!Init
<1>2. Busy /\ Locked /\ Unspent /\ Opened
  BY DEF Init, Busy, Locked, Unspent, Opened, Ledger!Init
<1> QED
  BY <1>1, <1>2 DEF IInv

\* What recording does to the issues.
LEMMA RecordKeeps ==
  ASSUME IInv, NEW f \in Fingerprints, NEW e \in EventIds, Ledger!Record(f, e)
  PROVE  /\ timesSeen' \in [Fingerprints -> Nat]
         /\ ledger' \in [Fingerprints -> SUBSET EventIds]
         /\ opener' \in [Fingerprints -> SUBSET EventIds]
         /\ projectLive' = projectLive /\ projectLive
         /\ \A g \in Fingerprints :
              /\ ledger'[g] = IF g = f THEN ledger[g] \union {e} ELSE ledger[g]
              /\ opener'[g] = IF g = f /\ ledger[g] = {} THEN {e}
                              ELSE opener[g]
         /\ Opened'
<1>1. /\ timesSeen' = [timesSeen EXCEPT ![f] = @ + 1]
      /\ ledger' = [ledger EXCEPT ![f] = @ \union {e}]
      /\ opener' = [opener EXCEPT ![f] = IF ledger[f] = {} THEN {e} ELSE @]
      /\ projectLive' = projectLive /\ projectLive
  BY DEF Ledger!Record
<1>2. /\ timesSeen \in [Fingerprints -> Nat]
      /\ ledger \in [Fingerprints -> SUBSET EventIds]
      /\ opener \in [Fingerprints -> SUBSET EventIds]
      /\ Opened
  BY DEF IInv, TypeOK
<1>3. \A g \in Fingerprints :
        /\ ledger'[g] = IF g = f THEN ledger[g] \union {e} ELSE ledger[g]
        /\ opener'[g] = IF g = f /\ ledger[g] = {} THEN {e} ELSE opener[g]
  BY <1>1, <1>2
<1>4. ledger' \in [Fingerprints -> SUBSET EventIds]
  BY <1>1, <1>2
<1>5. opener' \in [Fingerprints -> SUBSET EventIds]
  BY <1>1, <1>2
<1>6. timesSeen' \in [Fingerprints -> Nat]
  BY <1>1, <1>2
<1>7. Opened'
  BY <1>2, <1>3 DEF Opened
<1> QED
  BY <1>1, <1>3, <1>4, <1>5, <1>6, <1>7

LEMMA WorkType ==
  ASSUME IInv, NEW s \in Slots, pc[s] # "idle"
  PROVE  work[s] \in Ids /\ FingerprintOf[work[s]] \in Fingerprints
BY Assumptions DEF IInv, TypeOK, Busy

\* Every step keeps the types and the state of the queue.
LEMMA NextInv == IInv /\ [Next]_vars => IInv'
<1> SUFFICES ASSUME IInv, [Next]_vars PROVE IInv'
  OBVIOUS
<1> USE Assumptions DEF IInv
<1>1. CASE UNCHANGED vars
  BY <1>1 DEF vars, queueVars, slotVars, ledgerVars, TypeOK, Busy, Locked,
              Unspent, Opened
<1>2. ASSUME NEW r \in Requests, Post(r) PROVE IInv'
  <2> USE DEF Post, Add, Answer, slotVars, ledgerVars
  <2>1. TypeOK'
    BY <1>2 DEF TypeOK
  <2>2. Busy' /\ Locked' /\ Unspent' /\ Opened'
    BY <1>2 DEF TypeOK, Busy, Locked, Unspent, Opened
  <2> QED
    BY <2>1, <2>2
<1>3. ASSUME NEW i \in Ids, Stall(i) PROVE IInv'
  <2> USE DEF Stall, Leave, slotVars, ledgerVars
  <2>1. TypeOK'
    BY <1>3 DEF TypeOK, Unspent
  <2>2. Busy' /\ Locked' /\ Unspent' /\ Opened'
    BY <1>3 DEF TypeOK, Busy, Locked, Unspent, Opened
  <2> QED
    BY <2>1, <2>2
<1>4. ASSUME NEW i \in Ids, Forget(i) PROVE IInv'
  <2> USE DEF Forget, slotVars, ledgerVars
  <2>1. TypeOK'
    BY <1>4 DEF TypeOK
  <2>2. Busy' /\ Locked' /\ Unspent' /\ Opened'
    BY <1>4 DEF TypeOK, Busy, Locked, Unspent, Opened
  <2> QED
    BY <2>1, <2>2
<1>5. ASSUME NEW i \in Ids, NEW s \in Slots, Take(s, i) PROVE IInv'
  <2> USE DEF Take, ledgerVars
  <2>1. TypeOK'
    BY <1>5 DEF TypeOK
  <2>2. Busy' /\ Locked' /\ Unspent' /\ Opened'
    BY <1>5 DEF TypeOK, Busy, Locked, Unspent, Opened
  <2> QED
    BY <2>1, <2>2
<1>6. ASSUME NEW s \in Slots, RecordEvent(s) PROVE IInv'
  <2>1. work[s] \in Ids /\ FingerprintOf[work[s]] \in Fingerprints
    BY <1>6, WorkType DEF RecordEvent
  <2>2. PICK n \in 1 .. MaxCopies :
          Ledger!Record(FingerprintOf[work[s]], <<work[s], n>>)
    BY <1>6 DEF RecordEvent
  <2>3. <<work[s], n>> \in EventIds
    BY <2>1 DEF EventIds
  <2>4. /\ timesSeen' \in [Fingerprints -> Nat]
        /\ ledger' \in [Fingerprints -> SUBSET EventIds]
        /\ opener' \in [Fingerprints -> SUBSET EventIds]
        /\ projectLive' = projectLive /\ Opened'
    BY <2>1, <2>2, <2>3, RecordKeeps
  <2> USE DEF RecordEvent, queueVars
  <2>5. TypeOK'
    BY <1>6, <2>4 DEF TypeOK
  <2>6. Busy' /\ Locked' /\ Unspent'
    BY <1>6 DEF TypeOK, Busy, Locked, Unspent
  <2> QED
    BY <2>4, <2>5, <2>6
<1>7. ASSUME NEW s \in Slots, EvaluateAlerts(s) PROVE IInv'
  <2> USE DEF EvaluateAlerts, queueVars, ledgerVars
  <2>1. TypeOK'
    BY <1>7, WorkType DEF TypeOK
  <2>2. Busy' /\ Locked' /\ Unspent' /\ Opened'
    BY <1>7 DEF TypeOK, Busy, Locked, Unspent, Opened
  <2> QED
    BY <2>1, <2>2
<1>8. ASSUME NEW s \in Slots, Return(s) PROVE IInv'
  <2>1. work[s] \in Ids
    BY <1>8, WorkType DEF Return
  <2> USE DEF Return, Leave, Vacate, ledgerVars
  <2>2. TypeOK'
    BY <1>8, <2>1 DEF TypeOK
  <2>3. Busy' /\ Locked' /\ Unspent' /\ Opened'
    BY <1>8, <2>1 DEF TypeOK, Busy, Locked, Unspent, Opened
  <2> QED
    BY <2>2, <2>3
<1>9. ASSUME NEW s \in Slots, Throw(s) PROVE IInv'
  <2>1. work[s] \in Ids
    BY <1>9, WorkType DEF Throw
  <2>2. holder[work[s]] = s => attempts[work[s]] < Attempts
    BY <2>1 DEF Locked, Unspent
  <2> USE DEF Throw, Retry, Leave, Vacate, ledgerVars
  <2>3. TypeOK'
    BY <1>9, <2>1, <2>2 DEF TypeOK
  <2>4. Busy' /\ Locked' /\ Unspent' /\ Opened'
    BY <1>9, <2>1, <2>2 DEF TypeOK, Busy, Locked, Unspent, Opened
  <2> QED
    BY <2>3, <2>4
<1>10. ASSUME NEW s \in Slots, Crash(s) PROVE IInv'
  <2> USE DEF Crash, Vacate, queueVars, ledgerVars
  <2>1. TypeOK'
    BY <1>10, WorkType DEF TypeOK
  <2>2. Busy' /\ Locked' /\ Unspent' /\ Opened'
    BY <1>10 DEF TypeOK, Busy, Locked, Unspent, Opened
  <2> QED
    BY <2>1, <2>2
<1>11. ASSUME NEW o \in Others, NEW f \in Fingerprints, RecordOther(o, f)
       PROVE  IInv'
  <2>1. <<o, 1>> \in EventIds
    BY DEF EventIds
  <2>2. /\ timesSeen' \in [Fingerprints -> Nat]
        /\ ledger' \in [Fingerprints -> SUBSET EventIds]
        /\ opener' \in [Fingerprints -> SUBSET EventIds]
        /\ projectLive' = projectLive /\ Opened'
    BY <1>11, <2>1, RecordKeeps DEF RecordOther
  <2> USE DEF RecordOther, queueVars, slotVars
  <2>3. TypeOK'
    BY <1>11, <2>2 DEF TypeOK
  <2>4. Busy' /\ Locked' /\ Unspent'
    BY <1>11 DEF TypeOK, Busy, Locked, Unspent
  <2> QED
    BY <2>2, <2>3, <2>4
<1>12. CASE DeleteProject
  <2> USE DEF DeleteProject, Ledger!Purge, queueVars, slotVars
  <2>1. TypeOK'
    BY <1>12 DEF TypeOK
  <2>2. Busy' /\ Locked' /\ Unspent' /\ Opened'
    BY <1>12 DEF TypeOK, Busy, Locked, Unspent, Opened
  <2> QED
    BY <2>1, <2>2
<1> QED
  BY <1>1, <1>2, <1>3, <1>4, <1>5, <1>6, <1>7, <1>8, <1>9, <1>10, <1>11, <1>12
     DEF Next

\* The queue's own bookkeeping, on which the rest depends: a lock belongs to an
\* active job, and a job that is not finished has an attempt left.
THEOREM InductiveInvariant == Spec => []IInv
BY InitInv, NextInv, PTL DEF Spec

\* Every variable keeps its type; above all no job is attempted or handed out
\* again more often than BullMQ's limits allow (queue.ts:23-28).
THEOREM TypeCorrect == Spec => []TypeOK
<1>1. IInv => TypeOK
  BY DEF IInv
<1> QED
  BY <1>1, InductiveInvariant, PTL
-----------------------------------------------------------------------------
(* What was accepted.                                                      *)

\* A job that the queue knew it still knows, or has forgotten since.
LEMMA JobsStay ==
  ASSUME IInv, [Next]_vars, NEW i \in Ids
  PROVE  /\ forgotten[i] \in Nat /\ forgotten'[i] \in Nat
         /\ forgotten'[i] >= forgotten[i]
         /\ job[i] # "none" => job'[i] # "none" \/ forgotten'[i] > 0
<1> USE DEF Leave, Retry
<1>1. /\ job \in [Ids -> {"none", "wait", "active", "completed", "failed"}]
      /\ forgotten \in [Ids -> Nat]
  BY DEF IInv, TypeOK
<1>2. CASE UNCHANGED <<job, forgotten>>
  BY <1>1, <1>2
<1>3. ASSUME NEW r \in Requests, Post(r)
      PROVE  /\ UNCHANGED forgotten
             /\ job[i] # "none" => job'[i] = job[i]
  BY <1>1, <1>3 DEF Post, Add
<1>4. ASSUME NEW j \in Ids, Stall(j) \/ Forget(j)
      PROVE  /\ forgotten'[i] \in Nat /\ forgotten'[i] >= forgotten[i]
             /\ job[i] # "none" => job'[i] # "none" \/ forgotten'[i] > 0
  BY <1>1, <1>4 DEF Stall, Forget
<1>5. ASSUME NEW j \in Ids, NEW s \in Slots, Take(s, j)
      PROVE  /\ UNCHANGED forgotten
             /\ job[i] # "none" => job'[i] # "none"
  BY <1>1, <1>5 DEF Take
<1>6. ASSUME NEW s \in Slots, Return(s) \/ Throw(s)
      PROVE  /\ UNCHANGED forgotten
             /\ job[i] # "none" => job'[i] # "none"
  BY <1>1, <1>6 DEF Return, Throw
<1>7. ASSUME NEW s \in Slots,
             RecordEvent(s) \/ EvaluateAlerts(s) \/ Crash(s)
      PROVE  UNCHANGED <<job, forgotten>>
  BY <1>7 DEF RecordEvent, EvaluateAlerts, Crash, queueVars
<1>8. ASSUME NEW o, NEW f, RecordOther(o, f) \/ DeleteProject
      PROVE  UNCHANGED <<job, forgotten>>
  BY <1>8 DEF RecordOther, DeleteProject, queueVars
<1>9. CASE UNCHANGED vars
  BY <1>2, <1>9 DEF vars, queueVars
<1> QED
  BY <1>1, <1>2, <1>3, <1>4, <1>5, <1>6, <1>7, <1>8, <1>9 DEF Next

\* A request is answered 202 only by a Post that has added its job.
LEMMA AcceptedByAdding ==
  ASSUME IInv, [Next]_vars, NEW r \in Requests, request'[r] = "accepted"
  PROVE  request[r] = "accepted" \/ job'[IdOf[r]] # "none"
<1>1. /\ request \in [Requests -> {"new", "accepted", "error"}]
      /\ job \in [Ids -> {"none", "wait", "active", "completed", "failed"}]
      /\ IdOf[r] \in Ids
  BY Assumptions DEF IInv, TypeOK
<1>2. ASSUME NEW q \in Requests, Post(q)
      PROVE  request[r] = "accepted" \/ job'[IdOf[r]] # "none"
  BY <1>1, <1>2 DEF Post, Add, Answer
<1>3. ASSUME NEW s \in Slots,
             RecordEvent(s) \/ EvaluateAlerts(s) \/ Return(s) \/ Throw(s)
               \/ Crash(s)
      PROVE  UNCHANGED request
  BY <1>3 DEF RecordEvent, EvaluateAlerts, Return, Throw, Crash
<1>4. ASSUME NEW i \in Ids,
             Stall(i) \/ Forget(i) \/ \E s \in Slots : Take(s, i)
      PROVE  UNCHANGED request
  BY <1>4 DEF Stall, Forget, Take
<1>5. ASSUME \/ \E o \in Others, f \in Fingerprints : RecordOther(o, f)
             \/ DeleteProject \/ UNCHANGED vars
      PROVE  UNCHANGED request
  BY <1>5 DEF RecordOther, DeleteProject, vars
<1> QED
  BY <1>2, <1>3, <1>4, <1>5 DEF Next

\* An answer of 202 is a promise, for any number of requests and ids: the job is
\* in the queue until newer finished jobs push it out (routes.ts:112-120).
THEOREM AcceptedStays == Spec => []AcceptedIsKept
<1>1. Init => AcceptedIsKept
  BY DEF Init, AcceptedIsKept
<1>2. IInv /\ AcceptedIsKept /\ [Next]_vars => AcceptedIsKept'
  <2> SUFFICES ASSUME IInv, AcceptedIsKept, [Next]_vars, NEW r \in Requests,
                      request'[r] = "accepted"
               PROVE  job'[IdOf[r]] # "none" \/ forgotten'[IdOf[r]] > 0
    BY DEF AcceptedIsKept
  <2>1. IdOf[r] \in Ids
    BY Assumptions
  <2> QED
    BY <2>1, JobsStay, AcceptedByAdding DEF AcceptedIsKept
<1> QED
  BY <1>1, <1>2, InductiveInvariant, PTL DEF Spec

-----------------------------------------------------------------------------
(* What was completed.                                                     *)

LEMMA CopiesMember ==
  ASSUME NEW i, NEW e
  PROVE  e \in Copies(i) <=>
           e[1] = i /\ \E f \in Fingerprints : e \in ledger[f]
BY DEF Copies

\* One event more, and of its own id only.
LEMMA CopiesGrow ==
  ASSUME IInv, NEW f \in Fingerprints, NEW e \in EventIds,
         Ledger!Record(f, e), NEW i
  PROVE  /\ i # e[1] => Copies(i)' = Copies(i)
         /\ i = e[1] => Copies(i)' = Copies(i) \union {e}
<1>1. \A g \in Fingerprints :
        ledger'[g] = IF g = f THEN ledger[g] \union {e} ELSE ledger[g]
  BY RecordKeeps
<1>2. \A x : x \in Copies(i)' <=>
               x[1] = i /\ \E g \in Fingerprints : x \in ledger'[g]
  BY DEF Copies
<1>3. \A x : x \in Copies(i) <=>
               x[1] = i /\ \E g \in Fingerprints : x \in ledger[g]
  BY CopiesMember
<1>4. \A x : (\E g \in Fingerprints : x \in ledger'[g])
               <=> x = e \/ \E g \in Fingerprints : x \in ledger[g]
  BY <1>1
<1>5. \A x : x \in Copies(i)' <=> x \in Copies(i) \/ (x = e /\ e[1] = i)
  BY <1>2, <1>3, <1>4
<1>6. CASE i # e[1]
  BY <1>5, <1>6
<1>7. CASE i = e[1]
  <2>1. \A x : x \in Copies(i)' <=> x \in Copies(i) \/ x = e
    BY <1>5, <1>7
  <2> QED
    BY <1>7, <2>1
<1> QED
  BY <1>6, <1>7

LEMMA CopiesPurged ==
  ASSUME DeleteProject, NEW i PROVE Copies(i)' = {}
BY DEF DeleteProject, Ledger!Purge, Copies

\* The steps that do not write events.
LEMMA LedgerKept ==
  ASSUME [Next]_vars, ~ DeleteProject,
         ~ \E s \in Slots : RecordEvent(s),
         ~ \E o \in Others, f \in Fingerprints : RecordOther(o, f)
  PROVE  UNCHANGED ledgerVars
BY DEF Next, vars, Post, Stall, Forget, Take, EvaluateAlerts, Return, Throw,
       Crash

\* An event once there is there as long as the project.
LEMMA CopiesStay ==
  ASSUME IInv, [Next]_vars, projectLive', NEW i, Copies(i) # {}
  PROVE  Copies(i)' # {}
<1>1. ~ DeleteProject
  BY DEF DeleteProject, Ledger!Purge
<1>2. ASSUME NEW s \in Slots, RecordEvent(s) PROVE Copies(i)' # {}
  <2>1. work[s] \in Ids /\ FingerprintOf[work[s]] \in Fingerprints
    BY <1>2, WorkType DEF RecordEvent
  <2>2. PICK n \in 1 .. MaxCopies :
          Ledger!Record(FingerprintOf[work[s]], <<work[s], n>>)
    BY <1>2 DEF RecordEvent
  <2>3. <<work[s], n>> \in EventIds
    BY <2>1 DEF EventIds
  <2> QED
    BY <2>1, <2>2, <2>3, CopiesGrow
<1>3. ASSUME NEW o \in Others, NEW f \in Fingerprints, RecordOther(o, f)
      PROVE  Copies(i)' # {}
  <2>1. <<o, 1>> \in EventIds
    BY DEF EventIds
  <2> QED
    BY <1>3, <2>1, CopiesGrow DEF RecordOther
<1>4. CASE UNCHANGED ledgerVars
  BY <1>4 DEF ledgerVars, Copies
<1> QED
  BY <1>1, <1>2, <1>3, <1>4, LedgerKept

\* An execution that has committed its event has.
Recorded ==
  projectLive => \A s \in Slots :
    pc[s] \in {"recorded", "alerted"} => Copies(work[s]) # {}

\* A job is completed only by an execution that has come to its end.
LEMMA CompletedBy ==
  ASSUME IInv, [Next]_vars, NEW i \in Ids, job'[i] = "completed"
  PROVE  \/ job[i] = "completed"
         \/ \E s \in Slots : pc[s] = "alerted" /\ work[s] = i
<1> USE DEF Leave, Retry
<1>1. job \in [Ids -> {"none", "wait", "active", "completed", "failed"}]
  BY DEF IInv, TypeOK
<1>2. CASE UNCHANGED job
  BY <1>2
<1>3. ASSUME NEW r \in Requests, Post(r) PROVE job[i] = "completed"
  BY <1>1, <1>3 DEF Post, Add
<1>4. ASSUME NEW j \in Ids, Stall(j) \/ Forget(j) PROVE job[i] = "completed"
  BY <1>1, <1>4 DEF Stall, Forget
<1>5. ASSUME NEW j \in Ids, NEW s \in Slots, Take(s, j)
      PROVE  job[i] = "completed"
  BY <1>1, <1>5 DEF Take
<1>6. ASSUME NEW s \in Slots, Return(s)
      PROVE  job[i] = "completed" \/ (pc[s] = "alerted" /\ work[s] = i)
  BY <1>1, <1>6 DEF Return
<1>7. ASSUME NEW s \in Slots, Throw(s) PROVE job[i] = "completed"
  BY <1>1, <1>7 DEF Throw
<1>8. ASSUME NEW s \in Slots,
             RecordEvent(s) \/ EvaluateAlerts(s) \/ Crash(s)
      PROVE  UNCHANGED job
  BY <1>8 DEF RecordEvent, EvaluateAlerts, Crash, queueVars
<1>9. ASSUME \/ \E o \in Others, f \in Fingerprints : RecordOther(o, f)
             \/ DeleteProject \/ UNCHANGED vars
      PROVE  UNCHANGED job
  BY <1>9 DEF RecordOther, DeleteProject, vars, queueVars
<1> QED
  BY <1>2, <1>3, <1>4, <1>5, <1>6, <1>7, <1>8, <1>9 DEF Next

\* An execution is past its commit only after the commit.
LEMMA PastCommit ==
  ASSUME IInv, [Next]_vars, NEW s \in Slots, pc'[s] \in {"recorded", "alerted"}
  PROVE  /\ work'[s] = work[s]
         /\ pc[s] \in {"recorded", "alerted"} \/ RecordEvent(s)
<1>1. /\ pc \in [Slots -> {"idle", "processing", "recorded", "alerted"}]
      /\ work \in [Slots -> Ids \union {None}]
  BY DEF IInv, TypeOK
<1>2. CASE UNCHANGED <<pc, work>>
  BY <1>2
<1>3. ASSUME NEW t \in Slots, NEW i \in Ids, Take(t, i)
      PROVE  pc'[s] = pc[s] /\ work'[s] = work[s]
  BY <1>1, <1>3 DEF Take
<1>4. ASSUME NEW t \in Slots, RecordEvent(t)
      PROVE  work'[s] = work[s] /\ (t = s \/ pc'[s] = pc[s])
  BY <1>1, <1>4 DEF RecordEvent
<1>5. ASSUME NEW t \in Slots, EvaluateAlerts(t)
      PROVE  /\ work'[s] = work[s]
             /\ pc'[s] = pc[s] \/ (t = s /\ pc[s] = "recorded")
  BY <1>1, <1>5 DEF EvaluateAlerts
<1>6. ASSUME NEW t \in Slots, Return(t) \/ Throw(t) \/ Crash(t)
      PROVE  pc'[s] = pc[s] /\ work'[s] = work[s]
  BY <1>1, <1>6 DEF Return, Throw, Crash, Vacate
<1>7. ASSUME \/ \E r \in Requests : Post(r)
             \/ \E i \in Ids : Stall(i) \/ Forget(i)
             \/ \E o \in Others, f \in Fingerprints : RecordOther(o, f)
             \/ DeleteProject \/ UNCHANGED vars
      PROVE  UNCHANGED <<pc, work>>
  BY <1>7 DEF Post, Stall, Forget, RecordOther, DeleteProject, vars, slotVars
<1> QED
  BY <1>2, <1>3, <1>4, <1>5, <1>6, <1>7 DEF Next

LEMMA RecordingRecords ==
  ASSUME IInv, NEW s \in Slots, RecordEvent(s)
  PROVE  work'[s] = work[s] /\ Copies(work[s])' # {}
<1>1. work[s] \in Ids /\ FingerprintOf[work[s]] \in Fingerprints
  BY WorkType DEF RecordEvent
<1>2. PICK n \in 1 .. MaxCopies :
        Ledger!Record(FingerprintOf[work[s]], <<work[s], n>>)
  BY DEF RecordEvent
<1>3. <<work[s], n>> \in ledger'[FingerprintOf[work[s]]]
  BY <1>1, <1>2 DEF Ledger!Record, IInv, TypeOK
<1>4. work'[s] = work[s]
  BY DEF RecordEvent
<1> QED
  BY <1>1, <1>3, <1>4 DEF Copies

\* Whatever crashes, stalls and repetitions a job meets, what BullMQ calls
\* completed is in the database, for any number of jobs and slots
\* (worker.ts:20-27).
THEOREM CompletedIsRecorded == Spec => []CompletedMeansRecorded
<1>1. Init => CompletedMeansRecorded /\ Recorded
  BY DEF Init, CompletedMeansRecorded, Recorded
<1>2. IInv /\ CompletedMeansRecorded /\ Recorded /\ [Next]_vars
        => CompletedMeansRecorded' /\ Recorded'
  <2> SUFFICES ASSUME IInv, CompletedMeansRecorded, Recorded, [Next]_vars,
                      projectLive'
               PROVE  /\ \A i \in Ids : job'[i] = "completed" => Copies(i)' # {}
                      /\ \A s \in Slots : pc'[s] \in {"recorded", "alerted"}
                                            => Copies(work[s])' # {}
                                                 /\ work'[s] = work[s]
    BY DEF CompletedMeansRecorded, Recorded, Copies
  <2>1. projectLive
    <3>1. CASE UNCHANGED ledgerVars
      BY <3>1 DEF ledgerVars
    <3>2. ~ DeleteProject
      BY DEF DeleteProject, Ledger!Purge
    <3>3. ASSUME NEW s \in Slots, RecordEvent(s) PROVE projectLive
      BY <3>3 DEF RecordEvent, Ledger!Record
    <3>4. ASSUME NEW o, NEW f, RecordOther(o, f) PROVE projectLive
      BY <3>4 DEF RecordOther, Ledger!Record
    <3> QED
      BY <3>1, <3>2, <3>3, <3>4, LedgerKept
  <2>2. ASSUME NEW i \in Ids, job'[i] = "completed" PROVE Copies(i)' # {}
    <3>1. Copies(i) # {}
      BY <2>1, <2>2, CompletedBy DEF CompletedMeansRecorded, Recorded
    <3> QED
      BY <3>1, CopiesStay
  <2>3. ASSUME NEW s \in Slots, pc'[s] \in {"recorded", "alerted"}
        PROVE  Copies(work[s])' # {} /\ work'[s] = work[s]
    <3>1. work'[s] = work[s]
      BY <2>3, PastCommit
    <3>2. CASE RecordEvent(s)
      BY <3>1, <3>2, RecordingRecords
    <3>3. CASE pc[s] \in {"recorded", "alerted"}
      <4>1. Copies(work[s]) # {}
        BY <2>1, <3>3 DEF Recorded
      <4> QED
        BY <3>1, <4>1, CopiesStay
    <3> QED
      BY <2>3, <3>2, <3>3, PastCommit
  <2> QED
    BY <2>2, <2>3
<1> QED
  BY <1>1, <1>2, InductiveInvariant, PTL DEF Spec

-----------------------------------------------------------------------------
(* What is announced.                                                      *)

\* The job has opened the issue it is recorded under.
Opens(i) == \E e \in opener[FingerprintOf[i]] : e[1] = i

\* An execution that was told its issue is new, and has yet to say so, is right.
Told ==
  projectLive => \A s \in Slots :
    pc[s] = "recorded" /\ isNew[s] => Opens(work[s])

AboutToTell(i) ==
  \E s \in Slots : pc[s] = "recorded" /\ work[s] = i /\ isNew[s]

\* The first event of an issue has been announced, is about to be, or was cut
\* off.
Accounted ==
  \A f \in Fingerprints : \A e \in opener[f] :
    e[1] \in Ids => e[1] \in announced \union disturbed \/ AboutToTell(e[1])

Justified == projectLive => \A i \in announced : Opens(i)

LEMMA AnnouncedParts == NewIssueAnnounced <=> Accounted /\ Justified
BY DEF NewIssueAnnounced, Accounted, Justified, AboutToTell, Opens

\* Recording leaves what has been opened as it is.
LEMMA OpensStays ==
  ASSUME IInv, NEW f \in Fingerprints, NEW e \in EventIds, Ledger!Record(f, e),
         NEW i \in Ids, Opens(i)
  PROVE  Opens(i)'
<1>1. FingerprintOf[i] \in Fingerprints
  BY Assumptions
<1>2. opener[FingerprintOf[i]] # {}
  BY DEF Opens
<1>3. ledger[FingerprintOf[i]] # {}
  BY <1>1, <1>2 DEF IInv, Opened
<1>4. opener'[FingerprintOf[i]] = opener[FingerprintOf[i]]
  BY <1>1, <1>3, RecordKeeps
<1> QED
  BY <1>4 DEF Opens

\* A step that records nothing and tells no one of a new issue.
LEMMA QuietKeeps ==
  ASSUME IInv, Told, Accounted, Justified, UNCHANGED <<ledgerVars, announced>>,
         disturbed \subseteq disturbed',
         \A s \in Slots :
           \/ /\ pc'[s] = pc[s] /\ work'[s] = work[s] /\ isNew'[s] = isNew[s]
           \/ /\ pc'[s] # "recorded"
              /\ pc[s] = "recorded" => work[s] \in disturbed'
  PROVE  Told' /\ Accounted' /\ Justified'
<1>1. UNCHANGED <<opener, projectLive, announced>>
  BY DEF ledgerVars
<1>2. Told'
  BY <1>1 DEF Told, Opens
<1>3. Accounted'
  <2> SUFFICES ASSUME NEW f \in Fingerprints, NEW e \in opener[f], e[1] \in Ids,
                      e[1] \notin announced \union disturbed'
               PROVE  AboutToTell(e[1])'
    BY <1>1 DEF Accounted
  <2>1. PICK s \in Slots : pc[s] = "recorded" /\ work[s] = e[1] /\ isNew[s]
    BY DEF Accounted, AboutToTell
  <2> QED
    BY <2>1 DEF AboutToTell
<1>4. Justified'
  BY <1>1 DEF Justified, Opens
<1> QED
  BY <1>2, <1>3, <1>4

LEMMA RecordAnnounces ==
  ASSUME IInv, Told, Accounted, Justified, NEW s \in Slots, RecordEvent(s)
  PROVE  Told' /\ Accounted' /\ Justified'
<1>1. PICK i \in Ids : work[s] = i
  BY WorkType DEF RecordEvent
<1> DEFINE f == FingerprintOf[i]
<1>2. /\ pc[s] = "processing" /\ UNCHANGED <<work, announced, disturbed>>
      /\ isNew' = [isNew EXCEPT ![s] = (ledger[f] = {})]
      /\ pc' = [pc EXCEPT ![s] = "recorded"]
  BY <1>1 DEF RecordEvent
<1>3. /\ pc \in [Slots -> {"idle", "processing", "recorded", "alerted"}]
      /\ isNew \in [Slots -> BOOLEAN] /\ announced \subseteq Ids
      /\ opener \in [Fingerprints -> SUBSET EventIds]
  BY DEF IInv, TypeOK
<1>4. f \in Fingerprints
  BY Assumptions
<1>5. PICK n \in 1 .. MaxCopies : Ledger!Record(f, <<i, n>>)
  BY <1>1 DEF RecordEvent
<1>6. <<i, n>> \in EventIds
  BY DEF EventIds
<1>7. /\ \A g \in Fingerprints :
           opener'[g] = IF g = f /\ ledger[g] = {} THEN {<<i, n>>}
                        ELSE opener[g]
      /\ projectLive' = projectLive /\ projectLive
  BY <1>4, <1>5, <1>6, RecordKeeps
<1>8. \A j \in Ids : Opens(j) => Opens(j)'
  BY <1>4, <1>5, <1>6, OpensStays
<1>9. isNew'[s] => Opens(i)'
  <2> SUFFICES ASSUME isNew'[s] PROVE Opens(i)'
    OBVIOUS
  <2>1. ledger[f] = {}
    BY <1>2, <1>3, <1>1
  <2>2. opener'[f] = {<<i, n>>}
    BY <1>4, <1>7, <2>1
  <2> QED
    BY <2>2 DEF Opens
<1>10. \A t \in Slots : t # s => pc'[t] = pc[t] /\ isNew'[t] = isNew[t]
  BY <1>2, <1>3
<1>11. Told'
  <2> SUFFICES ASSUME NEW t \in Slots, pc'[t] = "recorded", isNew'[t]
               PROVE  Opens(work[t])'
    BY DEF Told
  <2>1. CASE t = s
    BY <1>2, <1>1, <1>9, <2>1
  <2>2. CASE t # s
    <3>1. Opens(work[t])
      BY <1>7, <1>10, <2>2 DEF Told
    <3>2. work[t] \in Ids
      BY <1>10, <2>2, WorkType
    <3> QED
      BY <1>2, <1>8, <3>1, <3>2
  <2> QED
    BY <2>1, <2>2
<1>12. Accounted'
  <2> SUFFICES ASSUME NEW g \in Fingerprints, NEW e \in opener'[g],
                      e[1] \in Ids, e[1] \notin announced \union disturbed
               PROVE  AboutToTell(e[1])'
    BY <1>2 DEF Accounted
  <2>1. CASE g = f /\ ledger[g] = {}
    <3>1. e = <<i, n>> /\ isNew'[s] = TRUE /\ pc'[s] = "recorded"
      BY <1>2, <1>3, <1>1, <1>7, <2>1
    <3>2. e[1] = work'[s]
      BY <1>2, <1>1, <3>1
    <3> QED
      BY <3>1, <3>2 DEF AboutToTell
  <2>2. CASE ~ (g = f /\ ledger[g] = {})
    <3>1. e \in opener[g]
      BY <1>7, <2>2
    <3>2. PICK t \in Slots : pc[t] = "recorded" /\ work[t] = e[1] /\ isNew[t]
      BY <3>1 DEF Accounted, AboutToTell
    <3>3. pc'[t] = "recorded" /\ work'[t] = e[1] /\ isNew'[t]
      BY <1>2, <1>10, <3>2
    <3> QED
      BY <3>3 DEF AboutToTell
  <2> QED
    BY <2>1, <2>2
<1>13. Justified'
  BY <1>2, <1>3, <1>7, <1>8 DEF Justified
<1> QED
  BY <1>11, <1>12, <1>13

\* An event of another job opens its issue, if it does, under a name of its own.
LEMMA OtherAnnounces ==
  ASSUME IInv, Told, Accounted, Justified,
         NEW o \in Others, NEW f \in Fingerprints, RecordOther(o, f)
  PROVE  Told' /\ Accounted' /\ Justified'
<1>1. /\ UNCHANGED <<pc, work, isNew, announced, disturbed>>
      /\ Ledger!Record(f, <<o, 1>>)
  BY DEF RecordOther, slotVars
<1>2. <<o, 1>> \in EventIds /\ o \notin Ids
  BY Assumptions DEF EventIds
<1>3. /\ \A g \in Fingerprints :
           opener'[g] = IF g = f /\ ledger[g] = {} THEN {<<o, 1>>}
                        ELSE opener[g]
      /\ projectLive' = projectLive /\ projectLive
  BY <1>1, <1>2, RecordKeeps
<1>4. \A j \in Ids : Opens(j) => Opens(j)'
  BY <1>1, <1>2, OpensStays
<1>5. Told'
  <2> SUFFICES ASSUME NEW t \in Slots, pc[t] = "recorded", isNew[t]
               PROVE  Opens(work[t])'
    BY <1>1 DEF Told
  <2> QED
    BY <1>1, <1>3, <1>4, WorkType DEF Told
<1>6. Accounted'
  <2> SUFFICES ASSUME NEW g \in Fingerprints, NEW e \in opener'[g],
                      e[1] \in Ids, e[1] \notin announced \union disturbed
               PROVE  AboutToTell(e[1])'
    BY <1>1 DEF Accounted
  <2>1. e \in opener[g]
    BY <1>2, <1>3
  <2> QED
    BY <1>1, <2>1 DEF Accounted, AboutToTell
<1>7. Justified'
  BY <1>1, <1>3, <1>4 DEF Justified, IInv, TypeOK
<1> QED
  BY <1>5, <1>6, <1>7

LEMMA EvaluateAnnounces ==
  ASSUME IInv, Told, Accounted, Justified, NEW s \in Slots, EvaluateAlerts(s)
  PROVE  Told' /\ Accounted' /\ Justified'
<1>1. /\ pc[s] = "recorded" /\ UNCHANGED <<work, isNew, disturbed, ledgerVars>>
      /\ announced' = announced \union {i \in {work[s]} : isNew[s]}
      /\ pc' = [pc EXCEPT ![s] = "alerted"]
  BY DEF EvaluateAlerts
<1>2. UNCHANGED <<opener, projectLive>>
  BY <1>1 DEF ledgerVars
<1>3. /\ pc'[s] = "alerted"
      /\ \A t \in Slots : t # s => pc'[t] = pc[t]
  BY <1>1 DEF IInv, TypeOK
<1>4. Told'
  BY <1>1, <1>2, <1>3 DEF Told, Opens
<1>5. Accounted'
  <2> SUFFICES ASSUME NEW f \in Fingerprints, NEW e \in opener[f], e[1] \in Ids,
                      e[1] \notin announced' \union disturbed
               PROVE  AboutToTell(e[1])'
    BY <1>1, <1>2 DEF Accounted
  <2>1. PICK t \in Slots : pc[t] = "recorded" /\ work[t] = e[1] /\ isNew[t]
    BY <1>1 DEF Accounted, AboutToTell
  <2>2. t # s
    BY <1>1, <2>1
  <2> QED
    BY <1>1, <1>3, <2>1, <2>2 DEF AboutToTell
<1>6. Justified'
  BY <1>1, <1>2 DEF Justified, Told, Opens
<1> QED
  BY <1>4, <1>5, <1>6

\* An issue's first event is announced as new exactly for the job that made it,
\* for any number of jobs and slots, unless that execution was cut off
\* (worker.ts:23-26): a retry that finds its issue there is not told so again.
THEOREM NewIssuesAnnounced == Spec => []NewIssueAnnounced
<1>1. Init => Told /\ Accounted /\ Justified
  BY DEF Init, Ledger!Init, Told, Accounted, Justified
<1>2. IInv /\ Told /\ Accounted /\ Justified /\ [Next]_vars
        => Told' /\ Accounted' /\ Justified'
  <2> SUFFICES ASSUME IInv, Told, Accounted, Justified, [Next]_vars
               PROVE  Told' /\ Accounted' /\ Justified'
    OBVIOUS
  <2>1. /\ pc \in [Slots -> {"idle", "processing", "recorded", "alerted"}]
        /\ work \in [Slots -> Ids \union {None}]
        /\ isNew \in [Slots -> BOOLEAN]
    BY DEF IInv, TypeOK
  <2>2. CASE UNCHANGED vars
    BY <2>2, QuietKeeps DEF vars, slotVars
  <2>3. ASSUME NEW r \in Requests, Post(r)
        PROVE  Told' /\ Accounted' /\ Justified'
    BY <2>3, QuietKeeps DEF Post, slotVars
  <2>4. ASSUME NEW i \in Ids, Stall(i) \/ Forget(i)
        PROVE  Told' /\ Accounted' /\ Justified'
    BY <2>4, QuietKeeps DEF Stall, Forget, slotVars
  <2>5. ASSUME NEW s \in Slots, NEW i \in Ids, Take(s, i)
        PROVE  Told' /\ Accounted' /\ Justified'
    <3>1. /\ pc[s] = "idle" /\ pc'[s] = "processing"
          /\ \A t \in Slots : t # s => pc'[t] = pc[t] /\ work'[t] = work[t]
          /\ UNCHANGED <<isNew, disturbed, announced, ledgerVars>>
      BY <2>1, <2>5 DEF Take
    <3> QED
      BY <3>1, QuietKeeps
  <2>6. ASSUME NEW s \in Slots, Return(s) \/ Throw(s) \/ Crash(s)
        PROVE  Told' /\ Accounted' /\ Justified'
    <3>1. /\ pc'[s] = "idle"
          /\ \A t \in Slots : t # s => /\ pc'[t] = pc[t] /\ work'[t] = work[t]
                                       /\ isNew'[t] = isNew[t]
      BY <2>1, <2>6 DEF Return, Throw, Crash, Vacate
    <3>2. /\ UNCHANGED <<ledgerVars, announced>>
          /\ disturbed \subseteq disturbed'
          /\ pc[s] = "recorded" => work[s] \in disturbed'
      BY <2>6 DEF Return, Throw, Crash
    <3> QED
      BY <3>1, <3>2, QuietKeeps
  <2>7. CASE DeleteProject
    BY <2>7 DEF DeleteProject, Ledger!Purge, Told, Accounted, Justified
  <2> QED
    BY <2>2, <2>3, <2>4, <2>5, <2>6, <2>7, RecordAnnounces, OtherAnnounces,
       EvaluateAnnounces DEF Next
<1> QED
  BY <1>1, <1>2, AnnouncedParts, InductiveInvariant, PTL DEF Spec

-----------------------------------------------------------------------------
(* How often an event is recorded.                                         *)

Made(i) == Cardinality(Copies(i))

Countable == \A i \in Ids : IsFiniteSet(Copies(i))

LEMMA MadeType ==
  ASSUME Countable, NEW i \in Ids PROVE Made(i) \in Nat
BY FS_CardinalityType DEF Countable, Made

RecordsFor(i) == \E s \in Slots : RecordEvent(s) /\ work[s] = i

\* Only an execution of its job makes a copy of an event, and one at a time.
LEMMA MadeStep ==
  ASSUME IInv, Countable, [Next]_vars, NEW i \in Ids
  PROVE  /\ IsFiniteSet(Copies(i)')
         /\ Made(i) \in Nat /\ Made(i)' \in Nat
         /\ \/ Made(i)' <= Made(i)
            \/ RecordsFor(i) /\ Made(i)' <= Made(i) + 1
<1>1. IsFiniteSet(Copies(i)) /\ Made(i) \in Nat
  BY MadeType DEF Countable
<1>2. ASSUME Copies(i)' = Copies(i)
      PROVE  IsFiniteSet(Copies(i)') /\ Made(i)' = Made(i)
  BY <1>1, <1>2 DEF Made
<1>3. ASSUME NEW s \in Slots, RecordEvent(s)
      PROVE  /\ IsFiniteSet(Copies(i)') /\ Made(i)' \in Nat
             /\ \/ Made(i)' <= Made(i)
                \/ RecordsFor(i) /\ Made(i)' <= Made(i) + 1
  <2>1. PICK j \in Ids : work[s] = j
    BY <1>3, WorkType DEF RecordEvent
  <2>2. PICK n \in 1 .. MaxCopies : Ledger!Record(FingerprintOf[j], <<j, n>>)
    BY <1>3, <2>1 DEF RecordEvent
  <2>3. <<j, n>> \in EventIds /\ FingerprintOf[j] \in Fingerprints
    BY Assumptions DEF EventIds
  <2>4. CASE j # i
    <3>1. Copies(i)' = Copies(i)
      BY <2>2, <2>3, <2>4, CopiesGrow
    <3> QED
      BY <1>1, <1>2, <3>1
  <2>5. CASE j = i
    <3>1. Copies(i)' = Copies(i) \union {<<j, n>>}
      BY <2>2, <2>3, <2>5, CopiesGrow
    <3>2. /\ IsFiniteSet(Copies(i)')
          /\ Made(i)' = Made(i) \/ Made(i)' = Made(i) + 1
      <4> DEFINE C == Copies(i)
                 D == Copies(i) \union {<<j, n>>}
      <4>1. IsFiniteSet(D)
            /\ Cardinality(D) \in {Cardinality(C), Cardinality(C) + 1}
        BY <1>1, FS_AddElement
      <4>2. Made(i) = Cardinality(C) /\ Made(i)' = Cardinality(Copies(i)')
        BY DEF Made
      <4> QED
        BY <3>1, <4>1, <4>2
    <3>3. RecordsFor(i)
      BY <1>3, <2>1, <2>5 DEF RecordsFor
    <3> QED
      BY <1>1, <3>2, <3>3
  <2> QED
    BY <2>4, <2>5
<1>4. ASSUME NEW o \in Others, NEW f \in Fingerprints, RecordOther(o, f)
      PROVE  Copies(i)' = Copies(i)
  <2>1. <<o, 1>> \in EventIds /\ o # i
    BY Assumptions DEF EventIds
  <2> QED
    BY <1>4, <2>1, CopiesGrow DEF RecordOther
<1>5. CASE DeleteProject
  <2>1. Copies(i)' = {}
    BY <1>5, CopiesPurged
  <2>2. IsFiniteSet(Copies(i)') /\ Made(i)' = 0
    BY <2>1, FS_EmptySet DEF Made
  <2> QED
    BY <1>1, <2>2
<1>6. CASE UNCHANGED ledgerVars
  <2>1. Copies(i)' = Copies(i)
    BY <1>6 DEF ledgerVars, Copies
  <2> QED
    BY <1>1, <1>2, <2>1
<1> QED
  BY <1>1, <1>2, <1>3, <1>4, <1>5, <1>6, LedgerKept

LEMMA CountableInit == Init => Countable
<1> SUFFICES ASSUME Init, NEW i \in Ids PROVE IsFiniteSet(Copies(i))
  BY DEF Countable
<1>1. Copies(i) = {}
  BY DEF Init, Ledger!Init, Copies
<1> QED
  BY <1>1, FS_EmptySet

\* While nothing has disturbed a job, its execution holds the lock, and there
\* is a copy to come only where none was made since the job was added.
Calm(i) ==
  i \notin disturbed =>
    /\ \A s \in Slots : work[s] = i => job[i] = "active" /\ holder[i] = s
    /\ Made(i) <= 1 + forgotten[i]
    /\ job[i] \in {"none", "wait"} => Made(i) <= forgotten[i]
    /\ \A s \in Slots :
         work[s] = i /\ pc[s] = "processing" => Made(i) <= forgotten[i]

LEMMA CalmKeeps ==
  ASSUME IInv, Countable, [Next]_vars, NEW i \in Ids, Calm(i)
  PROVE  Calm(i)'
<1> DEFINE Fine ==
    /\ \A s \in Slots : work'[s] = i => job'[i] = "active" /\ holder'[i] = s
    /\ Made(i)' <= 1 + forgotten'[i]
    /\ job'[i] \in {"none", "wait"} => Made(i)' <= forgotten'[i]
    /\ \A s \in Slots :
         work'[s] = i /\ pc'[s] = "processing" => Made(i)' <= forgotten'[i]
<1> SUFFICES ASSUME i \notin disturbed' PROVE Fine
  BY DEF Calm
<1>1. /\ job \in [Ids -> {"none", "wait", "active", "completed", "failed"}]
      /\ holder \in [Ids -> Slots \union {None}]
      /\ forgotten \in [Ids -> Nat]
      /\ pc \in [Slots -> {"idle", "processing", "recorded", "alerted"}]
      /\ work \in [Slots -> Ids \union {None}] /\ i # None
  BY Assumptions DEF IInv, TypeOK
<1>2. /\ Made(i) \in Nat /\ Made(i)' \in Nat
      /\ \/ Made(i)' <= Made(i)
         \/ RecordsFor(i) /\ Made(i)' <= Made(i) + 1
  BY MadeStep
<1>3. ASSUME i \notin disturbed
      PROVE
        /\ \A s \in Slots : work[s] = i => job[i] = "active" /\ holder[i] = s
        /\ Made(i) <= 1 + forgotten[i]
        /\ job[i] \in {"none", "wait"} => Made(i) <= forgotten[i]
        /\ \A s \in Slots :
             work[s] = i /\ pc[s] = "processing" => Made(i) <= forgotten[i]
  BY <1>3 DEF Calm
<1>4. ASSUME NEW s \in Slots, RecordEvent(s) PROVE Fine
  <2>1. /\ pc[s] = "processing" /\ pc' = [pc EXCEPT ![s] = "recorded"]
        /\ UNCHANGED <<job, holder, forgotten, work, disturbed>>
    BY <1>4 DEF RecordEvent, queueVars
  <2>2. CASE work[s] = i
    <3>1. /\ Made(i) <= forgotten[i] /\ job[i] = "active"
          /\ \A t \in Slots : work[t] = i => t = s
      BY <1>3, <2>1, <2>2
    <3>2. pc'[s] = "recorded"
      BY <1>1, <2>1
    <3>3. Made(i)' <= 1 + forgotten'[i]
      BY <1>1, <1>2, <2>1, <3>1
    <3> QED
      BY <1>3, <2>1, <3>1, <3>2, <3>3
  <2>3. CASE work[s] # i
    <3>1. Made(i)' <= Made(i)
      <4>1. ASSUME NEW t \in Slots, RecordEvent(t) PROVE t = s
        <5>1. pc[t] = "processing" /\ pc'[t] = "recorded"
          BY <1>1, <4>1 DEF RecordEvent
        <5> QED
          BY <1>1, <2>1, <5>1
      <4> QED
        BY <1>2, <2>3, <4>1 DEF RecordsFor
    <3>2. \A t \in Slots : pc'[t] = "processing" => pc[t] = "processing"
      BY <1>1, <2>1
    <3> QED
      BY <1>1, <1>2, <1>3, <2>1, <3>1, <3>2
  <2> QED
    BY <2>2, <2>3
<1>5. ASSUME ~ \E s \in Slots : RecordEvent(s) PROVE Made(i)' <= Made(i)
  BY <1>2, <1>5 DEF RecordsFor
<1>6. ASSUME UNCHANGED <<job, holder, forgotten, work, disturbed>>,
             Made(i)' <= Made(i),
             \A s \in Slots : pc'[s] = "processing" => pc[s] = "processing"
      PROVE  Fine
  BY <1>1, <1>2, <1>3, <1>6
<1>7. ASSUME NEW r \in Requests, Post(r), Made(i)' <= Made(i) PROVE Fine
  <2>1. /\ UNCHANGED <<holder, forgotten, work, pc, disturbed>>
        /\ job'[i] = job[i] \/ (job[i] = "none" /\ job'[i] = "wait")
    BY <1>1, <1>7 DEF Post, Add, slotVars
  <2> QED
    BY <1>1, <1>2, <1>3, <1>7, <2>1
<1>8. ASSUME NEW j \in Ids, Stall(j), Made(i)' <= Made(i) PROVE Fine
  <2>1. /\ UNCHANGED <<forgotten, work, pc>> /\ disturbed \subseteq disturbed'
        /\ j # i /\ job'[i] = job[i] /\ holder'[i] = holder[i]
    BY <1>1, <1>8 DEF Stall, Leave, slotVars
  <2> QED
    BY <1>1, <1>2, <1>3, <1>8, <2>1
<1>9. ASSUME NEW j \in Ids, Forget(j), Made(i)' <= Made(i) PROVE Fine
  <2>1. /\ UNCHANGED <<holder, work, pc, disturbed>>
        /\ \/ job'[i] = job[i] /\ forgotten'[i] = forgotten[i]
           \/ /\ job[i] \in {"completed", "failed"} /\ job'[i] = "none"
              /\ forgotten'[i] = forgotten[i] + 1
    BY <1>1, <1>9 DEF Forget, slotVars
  <2> QED
    BY <1>1, <1>2, <1>3, <1>9, <2>1
<1>10. ASSUME NEW s \in Slots, NEW j \in Ids, Take(s, j), Made(i)' <= Made(i)
       PROVE  Fine
  <2>1. /\ UNCHANGED <<forgotten, disturbed>> /\ job[j] = "wait"
        /\ job'[j] = "active" /\ holder'[j] = s
        /\ pc[s] = "idle" /\ work'[s] = j
        /\ \A t \in Slots : t # s => work'[t] = work[t] /\ pc'[t] = pc[t]
        /\ j # i => job'[i] = job[i] /\ holder'[i] = holder[i]
    BY <1>1, <1>10 DEF Take
  <2> QED
    BY <1>1, <1>2, <1>3, <1>10, <2>1
<1>11. ASSUME NEW s \in Slots, Return(s) \/ Throw(s) \/ Crash(s),
              Made(i)' <= Made(i)
       PROVE  Fine
  <2>1. /\ work'[s] = None /\ UNCHANGED forgotten
        /\ \A t \in Slots : t # s => work'[t] = work[t] /\ pc'[t] = pc[t]
        /\ disturbed \subseteq disturbed'
    BY <1>1, <1>11 DEF Return, Throw, Crash, Vacate, queueVars
  <2>2. work[s] \in Ids
    BY <1>11, WorkType DEF Return, Throw, Crash
  <2>3. CASE work[s] # i
    <3>1. job'[i] = job[i] /\ holder'[i] = holder[i]
      BY <1>1, <1>11, <2>2, <2>3
         DEF Return, Throw, Crash, Leave, Retry, queueVars
    <3> QED
      BY <1>1, <1>2, <1>3, <1>11, <2>1, <3>1
  <2>4. CASE work[s] = i
    <3>1. \A t \in Slots : work[t] = i => t = s
      BY <1>3, <2>1, <2>4
    <3>2. \A t \in Slots : work'[t] # i
      BY <1>1, <2>1, <3>1
    <3>3. holder[i] = s /\ job[i] = "active"
      BY <1>3, <2>1, <2>4
    <3>4. CASE Return(s)
      <4>1. job'[i] = "completed"
        BY <1>1, <2>4, <3>3, <3>4 DEF Return, Leave
      <4> QED
        BY <1>1, <1>2, <1>3, <1>11, <2>1, <3>2, <4>1
    <3>5. CASE Throw(s)
      <4>1. pc[s] = "processing"
        BY <2>4, <3>5 DEF Throw
      <4>2. Made(i) <= forgotten[i]
        BY <1>3, <2>1, <2>4, <4>1
      <4> QED
        BY <1>1, <1>2, <1>11, <2>1, <3>2, <4>2
    <3>6. ~ Crash(s)
      BY <2>4 DEF Crash
    <3> QED
      BY <1>11, <3>4, <3>5, <3>6
  <2> QED
    BY <2>3, <2>4
<1>12. ASSUME NEW s \in Slots, EvaluateAlerts(s), Made(i)' <= Made(i)
       PROVE  Fine
  <2>1. /\ UNCHANGED <<job, holder, forgotten, work, disturbed>>
        /\ \A t \in Slots : pc'[t] = "processing" => pc[t] = "processing"
    BY <1>1, <1>12 DEF EvaluateAlerts, queueVars
  <2> QED
    BY <1>6, <1>12, <2>1
<1>13. ASSUME \/ \E o \in Others, f \in Fingerprints : RecordOther(o, f)
              \/ DeleteProject \/ UNCHANGED vars,
              Made(i)' <= Made(i)
       PROVE  Fine
  <2>1. UNCHANGED <<job, holder, forgotten, work, pc, disturbed>>
    BY <1>13 DEF RecordOther, DeleteProject, vars, queueVars, slotVars
  <2> QED
    BY <1>6, <1>13, <2>1
<1> QED
  BY <1>4, <1>5, <1>7, <1>8, <1>9, <1>10, <1>11, <1>12, <1>13 DEF Next

\* The eventId deduplicates, for any number of requests, slots and retries
\* (queue.ts:37-40): while no execution was cut off or failed after its commit,
\* an event is recorded at most once for each time its job was new to the queue.
THEOREM RecordedOnce == Spec => []OnceUnlessDisturbed
<1> DEFINE AllCalm == Countable /\ \A i \in Ids : Calm(i)
<1>1. Init => AllCalm
  <2> SUFFICES ASSUME Init, NEW i \in Ids PROVE Calm(i)
    BY CountableInit
  <2>1. Made(i) = 0
    BY FS_EmptySet DEF Init, Ledger!Init, Copies, Made
  <2>2. forgotten[i] = 0 /\ \A s \in Slots : work[s] # i
    BY Assumptions DEF Init
  <2> QED
    BY <2>1, <2>2 DEF Calm
<1>2. IInv /\ AllCalm /\ [Next]_vars => AllCalm'
  <2> SUFFICES ASSUME IInv, AllCalm, [Next]_vars
               PROVE  Countable' /\ \A i \in Ids : Calm(i)'
    OBVIOUS
  <2>1. Countable'
    BY MadeStep DEF Countable
  <2> QED
    BY <2>1, CalmKeeps
<1>3. AllCalm => OnceUnlessDisturbed
  BY DEF Calm, Made, OnceUnlessDisturbed
<1> HIDE DEF AllCalm
<1> QED
  BY <1>1, <1>2, <1>3, InductiveInvariant, PTL DEF Spec

-----------------------------------------------------------------------------
(* The budget of a job that was disturbed.                                 *)

Limit == Attempts + MaxStalled
Allowance(n) == Limit * n

\* The executions that may still make a copy, with or without the lock.
Using(i) == {s \in Slots : pc[s] = "processing" /\ work[s] = i}

\* The Takes of a job since it was added, as its counters show them.
Paid(i) ==
  CASE job[i] = "none" -> 0
    [] job[i] \in {"active", "completed"} -> attempts[i] + stalls[i] + 1
    [] job[i] \in {"wait", "failed"} -> attempts[i] + stalls[i]

WithinBudget(i) ==
  /\ IsFiniteSet(Using(i))
  /\ Made(i) + Cardinality(Using(i)) <= Allowance(forgotten[i]) + Paid(i)
  /\ Paid(i) <= Limit

LEMMA AllowanceStep ==
  ASSUME NEW n \in Nat
  PROVE  /\ Limit \in Nat /\ Limit >= 1 + MaxStalled
         /\ Allowance(n) \in Nat /\ Allowance(n + 1) = Allowance(n) + Limit
<1>1. Limit \in Nat /\ Limit >= 1 + MaxStalled
  BY Assumptions DEF Limit
<1>2. ASSUME NEW k \in Nat
      PROVE  k * n \in Nat /\ k * (n + 1) = k * n + k
  OBVIOUS
<1> QED
  BY <1>1, <1>2 DEF Allowance

\* Each Take is paid for once, and forgetting a job grants it a new allowance.
LEMMA PaidStep ==
  ASSUME IInv, [Next]_vars, NEW i \in Ids, Paid(i) <= Limit
  PROVE  /\ Paid(i) \in Nat /\ Paid(i)' \in Nat /\ Paid(i)' <= Limit
         /\ \/ Paid(i)' = Paid(i) /\ forgotten'[i] = forgotten[i]
            \/ /\ Paid(i)' = Paid(i) + 1 /\ forgotten'[i] = forgotten[i]
               /\ \E s \in Slots : Take(s, i)
            \/ /\ forgotten'[i] = forgotten[i] + 1 /\ Forget(i)
<1> USE DEF Leave
<1>1. /\ job \in [Ids -> {"none", "wait", "active", "completed", "failed"}]
      /\ holder \in [Ids -> Slots \union {None}]
      /\ attempts \in [Ids -> 0 .. Attempts]
      /\ stalls \in [Ids -> 0 .. MaxStalled + 1]
      /\ forgotten \in [Ids -> Nat]
      /\ Attempts \in Nat /\ MaxStalled = 1 /\ Limit = Attempts + 1
      /\ None \notin Slots
  BY Assumptions DEF IInv, TypeOK, Limit
<1>2. Paid(i) \in Nat
  BY <1>1 DEF Paid
<1>3. job[i] \in {"wait", "active"} => attempts[i] < Attempts /\ stalls[i] <= 1
  BY <1>1 DEF IInv, Unspent
<1> DEFINE Same == Paid(i)' = Paid(i) /\ forgotten'[i] = forgotten[i]
<1>4. ASSUME UNCHANGED <<job, attempts, stalls, forgotten>> PROVE Same
  BY <1>4 DEF Paid
<1>5. ASSUME NEW r \in Requests, Post(r) PROVE Same
  BY <1>1, <1>5 DEF Post, Add, Paid
<1>6. ASSUME NEW j \in Ids, Stall(j) PROVE Same
  BY <1>1, <1>6 DEF Stall, Paid
<1>7. ASSUME NEW j \in Ids, Forget(j)
      PROVE  Same \/ (forgotten'[i] = forgotten[i] + 1 /\ Forget(i)
                        /\ Paid(i)' = 0)
  BY <1>1, <1>7 DEF Forget, Paid
<1>8. ASSUME NEW j \in Ids, NEW s \in Slots, Take(s, j)
      PROVE  \/ Same
             \/ /\ Paid(i)' = Paid(i) + 1 /\ forgotten'[i] = forgotten[i]
                /\ Paid(i)' <= Limit /\ Take(s, i)
  <2>1. /\ job[j] = "wait" /\ job' = [job EXCEPT ![j] = "active"]
        /\ UNCHANGED <<attempts, stalls, forgotten>>
    BY <1>8 DEF Take
  <2>2. CASE j # i
    BY <1>1, <2>1, <2>2 DEF Paid
  <2>3. CASE j = i
    <3>1. Paid(i) = attempts[i] + stalls[i]
      BY <2>1, <2>3 DEF Paid
    <3>2. job'[i] = "active"
      BY <1>1, <2>1, <2>3
    <3>3. Paid(i)' = attempts[i] + stalls[i] + 1
      BY <2>1, <3>2 DEF Paid
    <3>4. Paid(i)' <= Limit
      BY <1>1, <1>3, <2>1, <2>3, <3>3
    <3> QED
      BY <1>8, <2>1, <2>3, <3>1, <3>3, <3>4
  <2> QED
    BY <2>2, <2>3
<1>9. ASSUME NEW s \in Slots, Return(s) \/ Throw(s) PROVE Same
  <2>1. work[s] \in Ids
    BY <1>9, WorkType DEF Return, Throw
  <2>2. holder[work[s]] = s => job[work[s]] = "active"
    BY <1>1, <2>1 DEF IInv, Locked
  <2>3. CASE Return(s)
    BY <1>1, <2>1, <2>2, <2>3 DEF Return, Paid
  <2>4. CASE Throw(s)
    BY <1>1, <2>1, <2>2, <2>4 DEF Throw, Retry, Paid
  <2> QED
    BY <1>9, <2>3, <2>4
<1>10. ASSUME \/ \E s \in Slots :
                   RecordEvent(s) \/ EvaluateAlerts(s) \/ Crash(s)
              \/ \E o \in Others, f \in Fingerprints : RecordOther(o, f)
              \/ DeleteProject \/ UNCHANGED vars
       PROVE  Same
  BY <1>4, <1>10 DEF RecordEvent, EvaluateAlerts, Crash, RecordOther,
                     DeleteProject, vars, queueVars
<1> QED
  BY <1>1, <1>2, <1>5, <1>6, <1>7, <1>8, <1>9, <1>10 DEF Next

\* Only a Take adds an execution, and recording uses one up.
LEMMA UsingStep ==
  ASSUME IInv, [Next]_vars, NEW i \in Ids, IsFiniteSet(Using(i))
  PROVE  /\ Cardinality(Using(i)) \in Nat /\ Cardinality(Using(i)') \in Nat
         /\ IsFiniteSet(Using(i)')
         /\ \/ Cardinality(Using(i)') <= Cardinality(Using(i))
            \/ /\ \E s \in Slots : Take(s, i)
               /\ Cardinality(Using(i)') <= Cardinality(Using(i)) + 1
         /\ RecordsFor(i) =>
              Cardinality(Using(i)') <= Cardinality(Using(i)) - 1
<1> DEFINE U == Using(i)
           V == Using(i)'
<1>1. /\ pc \in [Slots -> {"idle", "processing", "recorded", "alerted"}]
      /\ work \in [Slots -> Ids \union {None}] /\ i # None
  BY Assumptions DEF IInv, TypeOK
<1>2. /\ \A s : s \in U <=> s \in Slots /\ pc[s] = "processing" /\ work[s] = i
      /\ \A s : s \in V <=>
                  s \in Slots /\ pc'[s] = "processing" /\ work'[s] = i
  BY DEF Using
<1>3. IsFiniteSet(U) /\ Cardinality(U) \in Nat
  BY FS_CardinalityType
<1> HIDE DEF U, V
<1>4. ASSUME V \subseteq U
      PROVE  /\ IsFiniteSet(V) /\ Cardinality(V) \in Nat
             /\ Cardinality(V) <= Cardinality(U)
  BY <1>3, <1>4, FS_Subset, FS_CardinalityType
<1>5. ASSUME NEW s \in Slots, RecordEvent(s)
      PROVE  V \subseteq U /\ (work[s] = i => s \in U /\ V = U \ {s})
  <2>1. /\ pc[s] = "processing" /\ pc' = [pc EXCEPT ![s] = "recorded"]
        /\ work' = work
    BY <1>5 DEF RecordEvent
  <2>2. /\ pc'[s] = "recorded"
        /\ \A t \in Slots : t # s => pc'[t] = pc[t]
    BY <1>1, <2>1
  <2> QED
    BY <1>2, <2>1, <2>2
<1>6. ASSUME NEW s \in Slots, s \in U, V = U \ {s}
      PROVE  Cardinality(V) <= Cardinality(U) - 1
  <2>1. Cardinality(U \ {s}) = Cardinality(U) - 1
    BY <1>3, <1>6, FS_RemoveElement
  <2> QED
    BY <1>3, <1>6, <2>1
<1>7. RecordsFor(i) => Cardinality(V) <= Cardinality(U) - 1
  BY <1>5, <1>6 DEF RecordsFor
<1>8. ASSUME NEW s \in Slots, NEW j \in Ids, Take(s, j)
      PROVE  IF j = i THEN V = U \union {s} ELSE V \subseteq U
  <2>1. /\ pc'[s] = "processing" /\ work'[s] = j
        /\ \A t \in Slots : t # s => pc'[t] = pc[t] /\ work'[t] = work[t]
    BY <1>1, <1>8 DEF Take
  <2> QED
    BY <1>2, <2>1
<1>9. ASSUME NEW s \in Slots, V = U \union {s}
      PROVE  /\ IsFiniteSet(V) /\ Cardinality(V) \in Nat
             /\ Cardinality(V) <= Cardinality(U) + 1
  <2>1. /\ IsFiniteSet(U \union {s})
        /\ Cardinality(U \union {s}) \in {Cardinality(U), Cardinality(U) + 1}
    BY <1>3, FS_AddElement
  <2> QED
    BY <1>3, <1>9, <2>1
<1>10. ASSUME NEW s \in Slots,
              EvaluateAlerts(s) \/ Return(s) \/ Throw(s) \/ Crash(s)
       PROVE  V \subseteq U
  <2>1. /\ pc'[s] # "processing"
        /\ \A t \in Slots : t # s => pc'[t] = pc[t] /\ work'[t] = work[t]
    BY <1>1, <1>10 DEF EvaluateAlerts, Return, Throw, Crash, Vacate
  <2> QED
    BY <1>2, <2>1
<1>11. ASSUME \/ \E r \in Requests : Post(r)
              \/ \E j \in Ids : Stall(j) \/ Forget(j)
              \/ \E o \in Others, f \in Fingerprints : RecordOther(o, f)
              \/ DeleteProject \/ UNCHANGED vars
       PROVE  V \subseteq U
  <2>1. UNCHANGED <<pc, work>>
    BY <1>11 DEF Post, Stall, Forget, RecordOther, DeleteProject, vars, slotVars
  <2> QED
    BY <1>2, <2>1
<1>12. V \subseteq U \/ \E s \in Slots : Take(s, i) /\ V = U \union {s}
  BY <1>5, <1>8, <1>10, <1>11 DEF Next
<1>13. /\ IsFiniteSet(V) /\ Cardinality(V) \in Nat
       /\ \/ Cardinality(V) <= Cardinality(U)
          \/ /\ \E s \in Slots : Take(s, i)
             /\ Cardinality(V) <= Cardinality(U) + 1
  BY <1>4, <1>9, <1>12
<1> QED
  BY <1>3, <1>7, <1>13 DEF U, V

LEMMA BudgetKeeps ==
  ASSUME IInv, Countable, [Next]_vars, NEW i \in Ids, WithinBudget(i)
  PROVE  WithinBudget(i)'
<1> DEFINE U == Cardinality(Using(i))
           V == Cardinality(Using(i)')
<1>1. /\ U \in Nat /\ V \in Nat /\ IsFiniteSet(Using(i)')
      /\ V <= U \/ ((\E s \in Slots : Take(s, i)) /\ V <= U + 1)
      /\ RecordsFor(i) => V <= U - 1
  BY UsingStep DEF WithinBudget
<1>2. /\ Made(i) \in Nat /\ Made(i)' \in Nat
      /\ Made(i)' <= Made(i) \/ (RecordsFor(i) /\ Made(i)' <= Made(i) + 1)
  BY MadeStep
<1>3. /\ Paid(i) \in Nat /\ Paid(i)' \in Nat /\ Paid(i)' <= Limit
      /\ \/ Paid(i)' = Paid(i) /\ forgotten'[i] = forgotten[i]
         \/ /\ Paid(i)' = Paid(i) + 1 /\ forgotten'[i] = forgotten[i]
            /\ \E s \in Slots : Take(s, i)
         \/ forgotten'[i] = forgotten[i] + 1 /\ Forget(i)
  BY PaidStep DEF WithinBudget
<1>4. /\ forgotten[i] \in Nat /\ Limit \in Nat
      /\ Allowance(forgotten[i]) \in Nat
      /\ Allowance(forgotten[i] + 1) = Allowance(forgotten[i]) + Limit
  BY AllowanceStep, JobsStay
<1>5. /\ Made(i) + U <= Allowance(forgotten[i]) + Paid(i)
      /\ Paid(i) <= Limit
  BY DEF WithinBudget
<1>6. ASSUME NEW s \in Slots, Take(s, i)
      PROVE  /\ ~ RecordsFor(i) /\ ~ Forget(i)
             /\ Paid(i)' = Paid(i) + 1
  <2>1. job[i] = "wait" /\ job'[i] = "active"
    BY <1>6 DEF Take, IInv, TypeOK
  <2>2. UNCHANGED <<attempts, stalls>>
    BY <1>6 DEF Take
  <2>3. ~ Forget(i)
    BY <2>1 DEF Forget
  <2>4. ASSUME NEW t \in Slots, RecordEvent(t) PROVE FALSE
    BY <2>1, <2>4 DEF RecordEvent, queueVars
  <2>5. Paid(i)' = Paid(i) + 1
    BY <2>1, <2>2 DEF Paid
  <2> QED
    BY <2>3, <2>4, <2>5 DEF RecordsFor
<1> HIDE DEF U, V
<1>7. CASE \E s \in Slots : Take(s, i)
  BY <1>1, <1>2, <1>3, <1>4, <1>5, <1>6, <1>7 DEF WithinBudget, V
<1>8. CASE ~ \E s \in Slots : Take(s, i)
  <2>1. Made(i)' + V <= Made(i) + U
    BY <1>1, <1>2, <1>8
  <2>2. CASE Paid(i)' = Paid(i) /\ forgotten'[i] = forgotten[i]
    BY <1>1, <1>2, <1>3, <1>4, <1>5, <2>1, <2>2 DEF WithinBudget, V
  <2>3. CASE forgotten'[i] = forgotten[i] + 1
    <3>1. Made(i)' + V <= Allowance(forgotten[i]) + Limit
      BY <1>1, <1>2, <1>3, <1>4, <1>5, <2>1
    <3>2. Made(i)' + V <= Allowance(forgotten'[i]) + Paid(i)'
      BY <1>1, <1>2, <1>3, <1>4, <2>3, <3>1
    <3> QED
      BY <1>1, <1>3, <3>2 DEF WithinBudget, V
  <2> QED
    BY <1>3, <1>8, <2>2, <2>3
<1> QED
  BY <1>7, <1>8

\* Even then, whatever crashes, stalls and failures a job meets, an event is
\* recorded at most as often as BullMQ allows a job to be handed out, for any
\* limit of attempts (queue.ts:23-28).
THEOREM DuplicationBounded == Spec => []BoundedDuplication
<1> DEFINE Budgeted == Countable /\ \A i \in Ids : WithinBudget(i)
<1>1. Init => Budgeted
  <2> SUFFICES ASSUME Init, NEW i \in Ids PROVE WithinBudget(i)
    BY CountableInit
  <2>1. Made(i) = 0 /\ Paid(i) = 0 /\ forgotten[i] = 0
    BY FS_EmptySet DEF Init, Ledger!Init, Copies, Made, Paid
  <2>2. Using(i) = {}
    BY DEF Init, Using
  <2>3. IsFiniteSet(Using(i)) /\ Cardinality(Using(i)) = 0
    BY <2>2, FS_EmptySet
  <2>4. Limit \in Nat /\ Allowance(0) \in Nat
    BY AllowanceStep
  <2> QED
    BY <2>1, <2>3, <2>4 DEF WithinBudget
<1>2. IInv /\ Budgeted /\ [Next]_vars => Budgeted'
  <2> SUFFICES ASSUME IInv, Budgeted, [Next]_vars
               PROVE  Countable' /\ \A i \in Ids : WithinBudget(i)'
    OBVIOUS
  <2>1. Countable'
    BY MadeStep DEF Countable
  <2> QED
    BY <2>1, BudgetKeeps
<1>3. IInv /\ Budgeted => BoundedDuplication
  <2> SUFFICES ASSUME IInv, Budgeted, NEW i \in Ids
               PROVE  Made(i) <= (Attempts + MaxStalled) * (1 + forgotten[i])
    BY DEF BoundedDuplication, Made
  <2>1. /\ Made(i) \in Nat /\ Cardinality(Using(i)) \in Nat
        /\ Made(i) + Cardinality(Using(i)) <= Allowance(forgotten[i]) + Paid(i)
        /\ Paid(i) <= Limit
    BY MadeType, FS_CardinalityType DEF WithinBudget
  <2>2. /\ forgotten[i] \in Nat /\ Limit \in Nat
        /\ Paid(i) \in Nat
    BY Assumptions DEF IInv, TypeOK, Limit, Paid
  <2>3. /\ Allowance(forgotten[i]) \in Nat
        /\ Allowance(forgotten[i] + 1) = Allowance(forgotten[i]) + Limit
    BY <2>2, AllowanceStep
  <2>4. Made(i) <= Allowance(forgotten[i] + 1)
    BY <2>1, <2>2, <2>3
  <2>5. forgotten[i] + 1 = 1 + forgotten[i]
    BY <2>2
  <2> QED
    BY <2>4, <2>5 DEF Allowance, Limit
<1> HIDE DEF Budgeted
<1> QED
  BY <1>1, <1>2, <1>3, InductiveInvariant, PTL DEF Spec

-----------------------------------------------------------------------------
(* The issues. *)

LEMMA RecordIsOfLedger ==
  ASSUME NEW f \in Fingerprints, NEW e \in EventIds, Ledger!Record(f, e)
  PROVE  Ledger!Next
BY DEF Ledger!Next

LEMMA PipelineLedgerStep ==
  ASSUME IInv, [Next]_vars
  PROVE  [Ledger!Next]_(Ledger!vars)
<1>1. ASSUME NEW s \in Slots, RecordEvent(s) PROVE Ledger!Next
  <2>1. work[s] \in Ids
    BY <1>1 DEF RecordEvent, IInv, TypeOK, Busy
  <2>2. PICK n \in 1 .. MaxCopies :
          Ledger!Record(FingerprintOf[work[s]], <<work[s], n>>)
    BY <1>1 DEF RecordEvent
  <2>3. <<work[s], n>> \in EventIds /\ FingerprintOf[work[s]] \in Fingerprints
    BY <2>1, Assumptions DEF EventIds
  <2> QED
    BY <2>2, <2>3, RecordIsOfLedger
<1>2. ASSUME NEW o \in Others, NEW f \in Fingerprints, RecordOther(o, f)
      PROVE  Ledger!Next
  <2>1. <<o, 1>> \in EventIds
    BY DEF EventIds
  <2> QED
    BY <1>2, <2>1, RecordIsOfLedger DEF RecordOther
<1>3. ASSUME DeleteProject PROVE Ledger!Next
  BY <1>3 DEF DeleteProject, Ledger!Next
<1>4. ASSUME UNCHANGED ledgerVars PROVE UNCHANGED Ledger!vars
  BY <1>4 DEF ledgerVars, Ledger!vars
<1>5. ASSUME NEW r \in Requests, Post(r) PROVE UNCHANGED ledgerVars
  BY <1>5 DEF Post
<1>6. ASSUME NEW i \in Ids, Stall(i) \/ Forget(i) \/ \E s \in Slots : Take(s, i)
      PROVE  UNCHANGED ledgerVars
  BY <1>6 DEF Stall, Forget, Take
<1>7. ASSUME NEW s \in Slots,
             EvaluateAlerts(s) \/ Return(s) \/ Throw(s) \/ Crash(s)
      PROVE  UNCHANGED ledgerVars
  BY <1>7 DEF EvaluateAlerts, Return, Throw, Crash
<1>8. ASSUME UNCHANGED vars PROVE UNCHANGED ledgerVars
  BY <1>8 DEF vars
<1> QED
  BY <1>1, <1>2, <1>3, <1>4, <1>5, <1>6, <1>7, <1>8 DEF Next

\* Whatever requests, the queue and the workers do, what becomes of the issues is
\* a behaviour of IssueLedger, which concurrent transactions implement
\* (worker.ts:20-27).
THEOREM PipelineKeepsLedger == Spec => Ledger!Spec
<1>1. Init => Ledger!Init
  BY DEF Init
<1> QED
  BY <1>1, InitInv, NextInv, PipelineLedgerStep, PTL DEF Spec, Ledger!Spec

\* Each issue counts the event rows it has, the copies that repeated executions
\* made included; the first of them opened it, alone.
CountsCopies ==
  \A f \in Fingerprints :
    /\ IsFiniteSet(ledger[f]) /\ timesSeen[f] = Cardinality(ledger[f])
    /\ opener[f] \subseteq ledger[f]
    /\ ledger[f] # {} => \E e \in ledger[f] : opener[f] = {e}

LEMMA LedgerCounts ==
  ASSUME IInv, CountsCopies, [Ledger!Next]_(Ledger!vars)
  PROVE  CountsCopies'
<1>1. CASE UNCHANGED Ledger!vars
  BY <1>1 DEF Ledger!vars, CountsCopies
<1>2. CASE Ledger!Purge
  BY <1>2, FS_EmptySet DEF Ledger!Purge, CountsCopies
<1>3. ASSUME NEW f \in Fingerprints, NEW e \in EventIds, Ledger!Record(f, e)
      PROVE  CountsCopies'
  <2>1. /\ \A g \in Fingerprints :
             ledger'[g] = IF g = f THEN ledger[g] \union {e} ELSE ledger[g]
        /\ \A g \in Fingerprints :
             opener'[g] = IF g = f /\ ledger[g] = {} THEN {e} ELSE opener[g]
    BY <1>3, RecordKeeps
  <2>2. /\ e \notin ledger[f] /\ timesSeen[f] \in Nat
        /\ \A g \in Fingerprints :
             timesSeen'[g] = IF g = f THEN timesSeen[g] + 1 ELSE timesSeen[g]
    BY <1>3 DEF Ledger!Record, IInv, TypeOK
  <2>3. IsFiniteSet(ledger[f]) /\ timesSeen[f] = Cardinality(ledger[f])
    BY DEF CountsCopies
  <2>4. IsFiniteSet(ledger[f] \union {e})
        /\ Cardinality(ledger[f] \union {e}) = Cardinality(ledger[f]) + 1
    BY <2>2, <2>3, FS_AddElement
  <2> SUFFICES ASSUME NEW g \in Fingerprints
               PROVE  /\ IsFiniteSet(ledger'[g])
                      /\ timesSeen'[g] = Cardinality(ledger'[g])
                      /\ opener'[g] \subseteq ledger'[g]
                      /\ ledger'[g] # {} =>
                           \E d \in ledger'[g] : opener'[g] = {d}
    BY DEF CountsCopies
  <2>5. CASE g = f
    <3>1. /\ ledger'[g] = ledger[f] \union {e}
          /\ opener'[g] = IF ledger[f] = {} THEN {e} ELSE opener[f]
          /\ timesSeen'[g] = timesSeen[f] + 1
      BY <2>1, <2>2, <2>5
    <3>2. /\ opener[f] \subseteq ledger[f]
          /\ ledger[f] # {} => \E d \in ledger[f] : opener[f] = {d}
      BY DEF CountsCopies
    <3> QED
      BY <2>3, <2>4, <3>1, <3>2
  <2>6. CASE g # f
    BY <2>1, <2>2, <2>6 DEF CountsCopies
  <2> QED
    BY <2>5, <2>6
<1> QED
  BY <1>1, <1>2, <1>3 DEF Ledger!Next

\* However often executions are repeated, the counter of an issue is the number of
\* its event rows, duplicates included, and one of them opened it
\* (process.ts:74-130).
THEOREM PipelineCountsCopies == Spec => []CountsCopies
<1>1. Init => CountsCopies
  BY FS_EmptySet DEF Init, Ledger!Init, CountsCopies
<1>2. IInv /\ CountsCopies /\ [Next]_vars => CountsCopies'
  BY PipelineLedgerStep, LedgerCounts
<1> QED
  BY <1>1, <1>2, InitInv, NextInv, PTL DEF Spec
=============================================================================
