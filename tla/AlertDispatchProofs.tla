------------------------- MODULE AlertDispatchProofs -------------------------
(***************************************************************************)
(* For any number of jobs, rules, issues, configurations and any horizon:  *)
(* types, the spacing of notifications, the honesty of `sent`, and what    *)
(* leaves a notification pending; and that the spike condition is relative *)
(* to the traffic it measures.                                             *)
(*                                                                         *)
(* Spaced is not inductive: the row a branch inserts is far enough from    *)
(* the others only because nothing that the search would have found has    *)
(* appeared since the search (NothingCovers), which holds because nobody   *)
(* else is between search and insert for the same rule and issue           *)
(* (OneHolder).                                                            *)
(***************************************************************************)
EXTENDS AlertDispatch, TLAPS

\* A branch starts only after its job has an event and the rule's snapshot,
\* and these never change again.
Placed ==
  \A b \in Branches :
    /\ phase[b[1]] \in {"idle", "begun", "ruled"} => stage[b] = "none"
    /\ phase[b[1]] # "idle" => event[b[1]] \in Result
    /\ stage[b] # "none" => snapshot[b] \in Config
    /\ start[b] <= clock

NothingCovers == \A b \in Branches : stage[b] = "locked" => Earlier(b) = {}

OneHolder ==
  \A b, x \in Branches :
    /\ b # x /\ b[2] = x[2] /\ stage[b] = "locked" /\ stage[x] = "locked"
    => IssueOf(b) # IssueOf(x)

\* How often a message handed over without an error reached its target.
Reached(channel) == IF Reaches(channel) THEN 1 ELSE 0

Deliveries ==
  \A b \in Branches :
    /\ delivered[b] \in {0, 1}
    /\ notified[b] # Null =>
         stage[b] # "none" /\ notified[b].channel = snapshot[b].channel
    /\ stage[b] \in {"none", "fired", "prepared", "locked", "claimed", "covered"}
         => delivered[b] = 0
    /\ stage[b] = "sent" => delivered[b] = Reached(snapshot[b].channel)
    /\ notified[b] # Null /\ notified[b].status = "sent" =>
         delivered[b] = Reached(snapshot[b].channel)

IInv ==
  /\ TypeOK /\ Placed /\ NothingCovers /\ OneHolder /\ Spaced /\ Deliveries

-----------------------------------------------------------------------------
(* Types *)

\* The dedupe interval of a configuration is a number of minutes, or none.
LEMMA DedupeGapType ==
  ASSUME NEW r \in Config PROVE DedupeGap(r) \in Nat \union {Null}
<1>1. r.condition \in Conditions /\ r.windowMinutes \in Nat \union {Null}
      /\ r.cooldownMinutes \in Nat \union {Null}
  BY DEF Config
<1> QED
  BY <1>1 DEF DedupeGap, DEFAULT_REGRESSION_COOLDOWN_MINUTES, Conditions

\* A branch that has started has an issue.
LEMMA IssueOfType ==
  ASSUME TypeOK, Placed, NEW b \in Branches, stage[b] # "none"
  PROVE  IssueOf(b) \in Issues
<1>1. b[1] \in Jobs
  BY DEF Branches
<1>2. phase[b[1]] # "idle"
  BY DEF Placed
<1> QED
  BY <1>1, <1>2 DEF Placed, IssueOf, Result

\* The initial state satisfies the whole inductive invariant.
LEMMA InitInv == Init => IInv
<1> SUFFICES ASSUME Init PROVE IInv
  OBVIOUS
<1>1. \A b \in Branches : b[1] \in Jobs /\ b[2] \in Rules
  BY DEF Branches
<1>2. TypeOK
  BY MaxTimeAssumption DEF Init, TypeOK, Times, Phases, Stages
<1>3. Placed /\ NothingCovers /\ OneHolder
  BY <1>1 DEF Init, Placed, NothingCovers, OneHolder
<1>4. Spaced /\ Deliveries
  BY DEF Init, Spaced, Deliveries
<1> QED
  BY <1>2, <1>3, <1>4 DEF IInv

\* Giving a row its final status leaves everything else of it alone.
LEMMA FinalizeType ==
  ASSUME TypeOK, NEW b \in Branches, notified[b] # Null,
         NEW s \in {"pending", "sent", "failed"}, Finalize(b, s)
  PROVE  /\ notified' \in [Branches -> Notification \union {Null}]
         /\ notified'[b] # Null
         /\ notified'[b].issue = notified[b].issue
         /\ notified'[b].channel = notified[b].channel
         /\ notified'[b].sentAt = notified[b].sentAt
         /\ notified'[b].gap = notified[b].gap
         /\ notified'[b].status = s
         /\ \A x \in Branches : x # b => notified'[x] = notified[x]
<1>1. notified[b] \in Notification
  BY DEF TypeOK
<1>2. notified' = [notified EXCEPT ![b] = [notified[b] EXCEPT !.status = s]]
  BY DEF Finalize
<1>3. [notified[b] EXCEPT !.status = s] =
        [issue |-> notified[b].issue, channel |-> notified[b].channel,
         status |-> s, sentAt |-> notified[b].sentAt, gap |-> notified[b].gap]
  BY <1>1 DEF Notification
<1>4. [notified[b] EXCEPT !.status = s] \in Notification
  BY <1>1, <1>3 DEF Notification
<1>5. notified'[b] = [issue |-> notified[b].issue,
                      channel |-> notified[b].channel, status |-> s,
                      sentAt |-> notified[b].sentAt, gap |-> notified[b].gap]
  BY <1>2, <1>3 DEF TypeOK
<1>6. notified'[b] # Null
  BY <1>2, <1>4, NullAssumption DEF TypeOK
<1> QED
  BY <1>2, <1>4, <1>5, <1>6 DEF TypeOK

\* A new row is well formed, carries the branch's issue, is pending, and is
\* not older than the branch.
LEMMA InsertType ==
  ASSUME TypeOK, Placed, NEW b \in Branches, stage[b] = "locked",
         NEW t \in SentAt(b),
         notified' = [notified EXCEPT ![b] =
           [issue |-> IssueOf(b), channel |-> snapshot[b].channel,
            status |-> "pending", sentAt |-> t, gap |-> DedupeGap(snapshot[b])]]
  PROVE  /\ notified' \in [Branches -> Notification \union {Null}]
         /\ notified'[b] # Null
         /\ notified'[b].issue = IssueOf(b)
         /\ notified'[b].channel = snapshot[b].channel
         /\ notified'[b].status = "pending"
         /\ notified'[b].sentAt = t /\ t >= start[b]
         /\ notified'[b].gap = DedupeGap(snapshot[b])
         /\ DedupeGap(snapshot[b]) \in Nat \union {Null}
         /\ \A x \in Branches : x # b => notified'[x] = notified[x]
<1> DEFINE row == [issue |-> IssueOf(b), channel |-> snapshot[b].channel,
                   status |-> "pending", sentAt |-> t,
                   gap |-> DedupeGap(snapshot[b])]
<1>1. IssueOf(b) \in Issues
  BY IssueOfType
<1>2. DedupeGap(snapshot[b]) \in Nat \union {Null}
  BY DedupeGapType DEF Placed
<1>3. t \in Times /\ t >= start[b]
  BY MaxTimeAssumption DEF TypeOK, Times, SentAt
<1>4. row \in Notification
  <2>1. snapshot[b].channel \in Channels
    BY DEF Placed, Config
  <2> QED
    BY <1>1, <1>2, <1>3, <2>1 DEF Notification
<1>5. notified' = [notified EXCEPT ![b] = row]
  OBVIOUS
<1>6. row # Null
  BY <1>4, NullAssumption
<1>7. row.issue = IssueOf(b) /\ row.channel = snapshot[b].channel /\ row.status = "pending" /\ row.sentAt = t
      /\ row.gap = DedupeGap(snapshot[b])
  OBVIOUS
<1> HIDE DEF row
<1>8. notified'[b] = row /\ \A x \in Branches : x # b => notified'[x] = notified[x]
  BY <1>5 DEF TypeOK
<1>9. notified' \in [Branches -> Notification \union {Null}]
  BY <1>4, <1>5 DEF TypeOK
<1> QED
  BY <1>2, <1>3, <1>6, <1>7, <1>8, <1>9

\* Every step keeps the types.
LEMMA TypeStep == TypeOK /\ Placed /\ [Next]_vars => TypeOK'
<1> SUFFICES ASSUME TypeOK, Placed, [Next]_vars PROVE TypeOK'
  OBVIOUS
<1> USE MaxTimeAssumption, ConfigsAssumption
<1>1. ASSUME NEW j \in Jobs, NEW i \in Issues, Begin(j, i) PROVE TypeOK'
  <2> DEFINE n == \A t \in Times : received[i][t] = 0
  <2>1. PICK d \in BOOLEAN :
          event' = [event EXCEPT ![j] = [issue |-> i, isNew |-> n, regressed |-> d]]
    BY <1>1 DEF Begin
  <2>2. n \in BOOLEAN
    BY Zenon
  <2> HIDE DEF n
  <2>3. [issue |-> i, isNew |-> n, regressed |-> d] \in Result
    BY <2>2 DEF Result
  <2>4. PICK e : event' = [event EXCEPT ![j] = e] /\ e \in Result
    BY <2>1, <2>3
  <2>5. event' \in [Jobs -> Result \union {Null}]
    BY <2>4 DEF TypeOK
  <2>6. received' \in [Issues -> [Times -> Nat]]
    BY <1>1 DEF Begin, TypeOK
  <2> QED
    BY <1>1, <2>5, <2>6 DEF Begin, TypeOK, Phases
<1>2. ASSUME NEW j \in Jobs, ReadRules(j) PROVE TypeOK'
  <2> DEFINE read == [r \in Rules |->
                       IF rule[r] # Null /\ rule[r].isActive THEN rule[r] ELSE Null]
  <2>1. read \in [Rules -> Configs \union {Null}]
    BY DEF TypeOK
  <2>2. snapshot' = snapshot
        \/ snapshot' = [b \in Branches |-> IF b[1] = j THEN read[b[2]] ELSE snapshot[b]]
    BY <1>2 DEF ReadRules
  <2> HIDE DEF read
  <2>3. \A b \in Branches : b[2] \in Rules
    BY DEF Branches
  <2>4. snapshot' \in [Branches -> Configs \union {Null}]
    BY <2>1, <2>2, <2>3 DEF TypeOK
  <2>5. phase' \in [Jobs -> Phases]
    BY <1>2 DEF ReadRules, TypeOK, Phases
  <2> QED
    BY <1>2, <2>4, <2>5 DEF ReadRules, TypeOK, dbVars
<1>3. ASSUME NEW j \in Jobs, Evaluate(j) PROVE TypeOK'
  <2>1. stage' \in [Branches -> Stages]
    BY <1>3 DEF Evaluate, TypeOK, Stages
  <2>2. phase' \in [Jobs -> Phases]
    BY <1>3 DEF Evaluate, TypeOK, Phases
  <2> QED
    BY <1>3, <2>1, <2>2 DEF Evaluate, TypeOK, dbVars
<1>4. ASSUME NEW b \in Branches, Prepare(b) \/ Lock(b) \/ ClaimFails(b) PROVE TypeOK'
  BY <1>4 DEF Prepare, Lock, ClaimFails, Move, TypeOK, Stages, dbVars, jobVars
<1>5. ASSUME NEW b \in Branches, Insert(b) PROVE TypeOK'
  <2>1. notified' \in [Branches -> Notification \union {Null}]
    <3>1. CASE rule[b[2]] # Null
      BY <1>5, <3>1, InsertType DEF Insert
    <3>2. CASE rule[b[2]] = Null
      BY <1>5, <3>2 DEF Insert, TypeOK
    <3> QED
      BY <3>1, <3>2
  <2> QED
    BY <1>5, <2>1 DEF Insert, Move, TypeOK, Stages, jobVars
<1>6. ASSUME NEW b \in Branches, Send(b) PROVE TypeOK'
  BY <1>6 DEF Send, Move, TypeOK, Stages, dbVars, jobVars
<1>7. ASSUME NEW b \in Branches, RecordSent(b) \/ RecordFailed(b) PROVE TypeOK'
  <2>1. notified' \in [Branches -> Notification \union {Null}]
    BY <1>7, FinalizeType DEF RecordSent, RecordFailed, TypeOK
  <2> QED
    BY <1>7, <2>1 DEF RecordSent, RecordFailed, Move, TypeOK, Stages, jobVars
<1>8. ASSUME NEW j \in Jobs, Crash(j) PROVE TypeOK'
  BY <1>8 DEF Crash, TypeOK, Phases, Stages, dbVars
<1>9. ASSUME NEW r \in Rules, NEW c \in Configs, UpdateRule(r, c) PROVE TypeOK'
  BY <1>9 DEF UpdateRule, TypeOK, jobVars
<1>10. ASSUME NEW r \in Rules, DeleteRule(r) PROVE TypeOK'
  BY <1>10 DEF DeleteRule, TypeOK, jobVars
<1>11. ASSUME DeleteProject PROVE TypeOK'
  BY <1>11 DEF DeleteProject, TypeOK, jobVars
<1>12. ASSUME Tick PROVE TypeOK'
  BY <1>12 DEF Tick, TypeOK, Times, dbVars, jobVars
<1>13. ASSUME UNCHANGED vars PROVE TypeOK'
  BY <1>13 DEF vars, TypeOK
<1> QED
  BY <1>1, <1>2, <1>3, <1>4, <1>5, <1>6, <1>7, <1>8, <1>9, <1>10, <1>11, <1>12, <1>13
  DEF Next, Run, Continue

-----------------------------------------------------------------------------
(* Where jobs and branches stand *)

\* Events, snapshots and starting times are fixed before they are relied on.
LEMMA PlacedStep == TypeOK /\ Placed /\ [Next]_vars => Placed'
<1> SUFFICES ASSUME TypeOK, Placed, [Next]_vars PROVE Placed'
  OBVIOUS
<1> USE ConfigsAssumption
<1>0. \A b \in Branches : b[1] \in Jobs /\ b[2] \in Rules
  BY DEF Branches
<1>1. ASSUME NEW j \in Jobs, NEW i \in Issues, Begin(j, i) PROVE Placed'
  <2> DEFINE n == \A t \in Times : received[i][t] = 0
  <2>1. PICK d \in BOOLEAN :
          event' = [event EXCEPT ![j] = [issue |-> i, isNew |-> n, regressed |-> d]]
    BY <1>1 DEF Begin
  <2>2. n \in BOOLEAN
    BY Zenon
  <2> HIDE DEF n
  <2>3. [issue |-> i, isNew |-> n, regressed |-> d] \in Result
    BY <2>2 DEF Result
  <2>4. event'[j] \in Result /\ \A k \in Jobs : k # j => event'[k] = event[k]
    BY <2>1, <2>3 DEF TypeOK
  <2> QED
    BY <1>0, <1>1, <2>4 DEF Begin, Placed, TypeOK
<1>2. ASSUME NEW j \in Jobs, ReadRules(j) PROVE Placed'
  <2>1. phase[j] = "begun" /\ phase' \in [Jobs -> {phase'[k] : k \in Jobs}]
        /\ phase'[j] # "idle" /\ \A k \in Jobs : k # j => phase'[k] = phase[k]
    BY <1>2 DEF ReadRules, TypeOK
  <2>2. \A b \in Branches : b[1] # j => snapshot'[b] = snapshot[b]
    BY <1>2 DEF ReadRules
  <2>3. UNCHANGED <<stage, event, start, clock>>
    BY <1>2 DEF ReadRules, dbVars
  <2>4. ASSUME NEW b \in Branches, b[1] = j
        PROVE  stage[b] = "none"
    BY <2>1, <2>4 DEF Placed
  <2> QED
    BY <1>0, <2>1, <2>2, <2>3, <2>4 DEF Placed
<1>3. ASSUME NEW j \in Jobs, Evaluate(j) PROVE Placed'
  <2>1. PICK fired \in SUBSET Rules :
          /\ \A r \in Rules : snapshot[<<j, r>>] = Null => r \notin fired
          /\ stage' = [b \in Branches |->
               IF b[1] = j /\ b[2] \in fired /\ projectLive THEN "fired" ELSE stage[b]]
          /\ phase' = [phase EXCEPT ![j] =
               IF fired = {} THEN "done"
               ELSE IF projectLive THEN "dispatching" ELSE "failed"]
    BY <1>3 DEF Evaluate
  <2>2. phase[j] = "ruled" /\ UNCHANGED <<clock, event, snapshot, start>>
    BY <1>3 DEF Evaluate
  <2>3. phase'[j] \in {"done", "dispatching", "failed"}
        /\ \A k \in Jobs : k # j => phase'[k] = phase[k]
    BY <2>1 DEF TypeOK
  <2>4. ASSUME NEW b \in Branches, b[1] = j, b[2] \in fired
        PROVE  snapshot[b] \in Config
    <3>1. b = <<j, b[2]>>
      BY <2>4 DEF Branches
    <3>2. snapshot[b] # Null
      BY <1>0, <2>1, <2>4, <3>1
    <3> QED
      BY <3>2 DEF TypeOK
  <2>5. ASSUME NEW b \in Branches PROVE stage'[b] # "none" => snapshot'[b] \in Config
    BY <2>1, <2>2, <2>4 DEF Placed
  <2>6. ASSUME NEW b \in Branches, phase'[b[1]] \in {"idle", "begun", "ruled"}
        PROVE  stage'[b] = "none"
    BY <1>0, <2>1, <2>3, <2>6 DEF Placed
  <2>7. ASSUME NEW b \in Branches
        PROVE  phase'[b[1]] # "idle" => event'[b[1]] \in Result
    BY <1>0, <2>2, <2>3 DEF Placed
  <2> QED
    BY <2>2, <2>5, <2>6, <2>7 DEF Placed
<1>4. ASSUME NEW b \in Branches, Continue(b) \/ ClaimFails(b) PROVE Placed'
  <2>1. UNCHANGED jobVars /\ clock' = clock
    BY <1>4 DEF Continue, Prepare, Lock, Insert, ClaimFails, Send, RecordSent,
                RecordFailed
  <2>2. stage[b] # "none" /\ \A x \in Branches : x # b => stage'[x] = stage[x]
    <3>1. stage[b] # "none"
      BY <1>4 DEF Continue, Prepare, Lock, Insert, ClaimFails, Send, RecordSent,
                  RecordFailed
    <3>2. \E s : Move(b, s)
      BY <1>4 DEF Continue, Prepare, Lock, Insert, ClaimFails, Send, RecordSent,
                  RecordFailed
    <3> QED
      BY <3>1, <3>2 DEF Move, TypeOK
  <2>3. \A x \in Branches : start'[x] <= clock'
    <3>1. CASE Send(b)
      BY <3>1 DEF Send, Placed
    <3>2. CASE ~Send(b)
      BY <1>4, <3>2 DEF Continue, Prepare, Lock, Insert, ClaimFails, RecordSent,
                        RecordFailed, Placed, TypeOK, Times
    <3> QED
      BY <3>1, <3>2
  <2> QED
    BY <2>1, <2>2, <2>3 DEF Placed, jobVars
<1>5. ASSUME NEW j \in Jobs, Crash(j) PROVE Placed'
  <2>1. UNCHANGED <<clock, event, snapshot, start>> /\ phase[j] # "idle"
        /\ phase'[j] = "dead" /\ \A k \in Jobs : k # j => phase'[k] = phase[k]
    BY <1>5 DEF Crash, TypeOK
  <2>2. \A b \in Branches :
          /\ stage'[b] # "none" => stage[b] # "none"
          /\ b[1] # j => stage'[b] = stage[b]
    BY <1>5 DEF Crash, Live
  <2>3. ASSUME NEW b \in Branches, phase'[b[1]] \in {"idle", "begun", "ruled"}
        PROVE  stage'[b] = "none"
    BY <1>0, <2>1, <2>2, <2>3 DEF Placed
  <2>4. ASSUME NEW b \in Branches
        PROVE  phase'[b[1]] # "idle" => event'[b[1]] \in Result
    BY <1>0, <2>1 DEF Placed
  <2>5. ASSUME NEW b \in Branches PROVE stage'[b] # "none" => snapshot'[b] \in Config
    BY <2>1, <2>2 DEF Placed
  <2> QED
    BY <2>1, <2>3, <2>4, <2>5 DEF Placed
<1>6. ASSUME NEW r \in Rules, NEW c \in Configs, UpdateRule(r, c) PROVE Placed'
  BY <1>6 DEF UpdateRule, Placed, jobVars
<1>7. ASSUME NEW r \in Rules, DeleteRule(r) PROVE Placed'
  BY <1>7 DEF DeleteRule, Placed, jobVars
<1>8. ASSUME DeleteProject PROVE Placed'
  BY <1>8 DEF DeleteProject, Placed, jobVars
<1>9. ASSUME Tick PROVE Placed'
  <2>1. \A b \in Branches : start[b] <= clock + 1
    BY DEF Placed, TypeOK, Times
  <2> QED
    BY <1>9, <2>1 DEF Tick, Placed, jobVars
<1>10. ASSUME UNCHANGED vars PROVE Placed'
  BY <1>10 DEF vars, Placed
<1> QED
  BY <1>1, <1>2, <1>3, <1>4, <1>5, <1>6, <1>7, <1>8, <1>9, <1>10 DEF Next, Run

-----------------------------------------------------------------------------
(* The lock *)

\* The only steps that let a branch in between search and insert are Lock
\* steps, and the branches there keep their issue and their start.
LEMMA LockedFrame ==
  ASSUME TypeOK, Placed, Next,
         \A b \in Branches : ~Lock(b)
  PROVE  \A b \in Branches : stage'[b] = "locked" =>
           /\ stage[b] = "locked"
           /\ IssueOf(b)' = IssueOf(b)
           /\ snapshot'[b] = snapshot[b]
           /\ start'[b] = start[b]
<1>0. \A b \in Branches : b[1] \in Jobs /\ b[2] \in Rules
  BY DEF Branches
<1>1. ASSUME NEW j \in Jobs, NEW i \in Issues, Begin(j, i), NEW b \in Branches,
             stage'[b] = "locked"
      PROVE  event'[b[1]] = event[b[1]]
  <2>1. stage[b] = "locked" /\ phase[j] = "idle" /\ b[1] # j
    BY <1>0, <1>1 DEF Begin, Placed
  <2>2. \E e : event' = [event EXCEPT ![j] = e]
    BY <1>1 DEF Begin
  <2> QED
    BY <1>0, <2>1, <2>2 DEF TypeOK
<1>2. ASSUME NEW j \in Jobs, NEW i \in Issues, Begin(j, i), NEW b \in Branches,
             stage'[b] = "locked"
      PROVE  stage[b] = "locked" /\ snapshot'[b] = snapshot[b] /\ start'[b] = start[b]
  BY <1>2 DEF Begin
<1>3. ASSUME NEW j \in Jobs, ReadRules(j), NEW b \in Branches, stage'[b] = "locked"
      PROVE  /\ stage[b] = "locked" /\ event' = event
             /\ snapshot'[b] = snapshot[b] /\ start'[b] = start[b]
  <2>1. stage[b] = "locked" /\ event' = event /\ start' = start /\ phase[j] = "begun"
    BY <1>3 DEF ReadRules
  <2>2. b[1] # j
    BY <1>0, <2>1 DEF Placed
  <2>3. snapshot'[b] = snapshot[b]
    BY <1>3, <2>2 DEF ReadRules
  <2> QED
    BY <2>1, <2>3
<1>4. ASSUME NEW j \in Jobs, Evaluate(j) \/ Crash(j), NEW b \in Branches,
             stage'[b] = "locked"
      PROVE  stage[b] = "locked" /\ UNCHANGED <<event, snapshot, start>>
  BY <1>4 DEF Evaluate, Crash
<1>5. ASSUME NEW x \in Branches, Prepare(x), NEW b \in Branches, stage'[b] = "locked"
      PROVE  stage[b] = "locked" /\ UNCHANGED <<event, snapshot>> /\ start'[b] = start[b]
  BY <1>5 DEF Prepare, Move, TypeOK, jobVars
<1>6. ASSUME NEW x \in Branches,
             Insert(x) \/ Send(x) \/ RecordSent(x) \/ RecordFailed(x) \/ ClaimFails(x),
             NEW b \in Branches, stage'[b] = "locked"
      PROVE  stage[b] = "locked" /\ UNCHANGED <<event, snapshot, start>>
  BY <1>6 DEF Insert, Send, RecordSent, RecordFailed, ClaimFails, Move, TypeOK, jobVars
<1>7. ASSUME \/ \E r \in Rules : (\E c \in Configs : UpdateRule(r, c)) \/ DeleteRule(r)
             \/ DeleteProject \/ Tick
      PROVE  UNCHANGED <<stage, event, snapshot, start>>
  BY <1>7 DEF UpdateRule, DeleteRule, DeleteProject, Tick, jobVars
<1> QED
  BY <1>1, <1>2, <1>3, <1>4, <1>5, <1>6, <1>7 DEF Next, Run, Continue, IssueOf

\* Rows are only added by Insert, and never change their issue, their time or
\* their interval.
LEMMA RowsFrame ==
  ASSUME TypeOK, Next, \A b \in Branches : ~Insert(b)
  PROVE  \A b \in Branches : notified'[b] # Null =>
           /\ notified[b] # Null
           /\ notified'[b].issue = notified[b].issue
           /\ notified'[b].sentAt = notified[b].sentAt
           /\ notified'[b].gap = notified[b].gap
<1>1. ASSUME NEW x \in Branches, RecordSent(x) \/ RecordFailed(x)
      PROVE  \/ UNCHANGED notified
             \/ /\ notified[x] # Null
                /\ notified'[x].issue = notified[x].issue
                /\ notified'[x].sentAt = notified[x].sentAt
                /\ notified'[x].gap = notified[x].gap
                /\ \A b \in Branches : b # x => notified'[b] = notified[b]
  BY <1>1, FinalizeType DEF RecordSent, RecordFailed
<1>2. ASSUME NEW r \in Rules, DeleteRule(r), NEW b \in Branches, notified'[b] # Null
      PROVE  notified'[b] = notified[b]
  BY <1>2 DEF DeleteRule
<1>3. ASSUME DeleteProject, NEW b \in Branches PROVE notified'[b] = Null
  BY <1>3 DEF DeleteProject
<1>4. ASSUME NEW j \in Jobs,
             (\E i \in Issues : Begin(j, i)) \/ ReadRules(j) \/ Evaluate(j) \/ Crash(j)
      PROVE  UNCHANGED notified
  BY <1>4 DEF Begin, ReadRules, Evaluate, Crash, dbVars
<1>5. ASSUME NEW b \in Branches, Prepare(b) \/ Lock(b) \/ ClaimFails(b) \/ Send(b)
      PROVE  UNCHANGED notified
  BY <1>5 DEF Prepare, Lock, ClaimFails, Send, dbVars
<1>6. ASSUME Tick \/ \E r \in Rules, c \in Configs : UpdateRule(r, c)
      PROVE  UNCHANGED notified
  BY <1>6 DEF Tick, UpdateRule, dbVars
<1> QED
  BY <1>1, <1>2, <1>3, <1>4, <1>5, <1>6 DEF Next, Run, Continue

\* NothingCovers is stable while nobody inserts and nobody gets the lock.
LEMMA CoversFrame ==
  ASSUME TypeOK, Placed, NothingCovers, Next,
         \A b \in Branches : ~Lock(b) /\ ~Insert(b)
  PROVE  NothingCovers'
<1>1. SUFFICES ASSUME NEW b \in Branches, stage'[b] = "locked",
                      NEW x \in Branches, x \in Earlier(b)'
               PROVE  x \in Earlier(b)
  BY LockedFrame DEF NothingCovers, Earlier
<1>2. /\ IssueOf(b)' = IssueOf(b) /\ snapshot'[b] = snapshot[b] /\ start'[b] = start[b]
  BY <1>1, LockedFrame
<1>3. notified'[x] # Null
  BY <1>1 DEF Earlier
<1>4. /\ notified[x] # Null /\ notified'[x].issue = notified[x].issue
      /\ notified'[x].sentAt = notified[x].sentAt
  BY <1>3, RowsFrame
<1>5. DedupeGap(snapshot[b])' = DedupeGap(snapshot[b])
  BY <1>2 DEF DedupeGap
<1> QED
  BY <1>1, <1>2, <1>4, <1>5 DEF Earlier

\* Between search and insert a branch is alone with its rule and issue, and
\* what it searched for is still not there.
LEMMA LockStep ==
  TypeOK /\ Placed /\ NothingCovers /\ OneHolder /\ [Next]_vars
    => NothingCovers' /\ OneHolder'
<1> SUFFICES ASSUME TypeOK, Placed, NothingCovers, OneHolder, [Next]_vars
             PROVE  NothingCovers' /\ OneHolder'
  OBVIOUS
<1>1. ASSUME NEW b \in Branches, Lock(b) PROVE NothingCovers' /\ OneHolder'
  <2>1. UNCHANGED <<notified, event, snapshot, start>>
    BY <1>1 DEF Lock, dbVars, jobVars
  <2>2. /\ \A x \in Branches : x # b => stage'[x] = stage[x]
        /\ stage'[b] = "locked" => Earlier(b) = {}
    BY <1>1 DEF Lock, Move, TypeOK
  <2>3. \A x \in Branches : Earlier(x)' = Earlier(x) /\ IssueOf(x)' = IssueOf(x)
    BY <2>1 DEF Earlier, IssueOf
  <2>4. \A x \in Branches : x # b /\ x[2] = b[2] /\ stage[x] = "locked"
                             => IssueOf(x) # IssueOf(b)
    BY <1>1 DEF Lock, LockFree
  <2> QED
    BY <2>2, <2>3, <2>4 DEF NothingCovers, OneHolder
<1>2. ASSUME NEW b \in Branches, Insert(b) PROVE NothingCovers' /\ OneHolder'
  <2>1. UNCHANGED <<event, snapshot, start>> /\ stage[b] = "locked"
    BY <1>2 DEF Insert, jobVars
  <2>2. \A x \in Branches : stage'[x] = "locked" => x # b /\ stage[x] = "locked"
    BY <1>2 DEF Insert, Move, TypeOK
  <2>3. \A x \in Branches : IssueOf(x)' = IssueOf(x)
    BY <2>1 DEF IssueOf
  <2>4. OneHolder'
    BY <2>2, <2>3 DEF OneHolder
  <2>5. \/ UNCHANGED notified
        \/ /\ notified'[b].issue = IssueOf(b)
           /\ \A x \in Branches : x # b => notified'[x] = notified[x]
    BY <1>2, <2>1, InsertType DEF Insert
  <2>6. ASSUME NEW x \in Branches, stage'[x] = "locked", NEW y \in Branches,
               y \in Earlier(x)'
        PROVE  y \in Earlier(x)
    <3>1. x # b /\ stage[x] = "locked"
      BY <2>2, <2>6
    <3>2. DedupeGap(snapshot[x])' = DedupeGap(snapshot[x]) /\ start'[x] = start[x]
      BY <2>1 DEF DedupeGap
    <3>3. x[2] = b[2] => IssueOf(x) # IssueOf(b)
      BY <2>1, <3>1 DEF OneHolder
    <3>4. notified'[y] = notified[y]
      BY <2>3, <2>5, <2>6, <3>3 DEF Earlier
    <3> QED
      BY <2>3, <2>6, <3>2, <3>4 DEF Earlier
  <2>7. NothingCovers'
    BY <2>2, <2>6 DEF NothingCovers, Earlier
  <2> QED
    BY <2>4, <2>7
<1>3. ASSUME Next, \A b \in Branches : ~Lock(b) /\ ~Insert(b)
      PROVE  NothingCovers' /\ OneHolder'
  <2>1. NothingCovers'
    BY <1>3, CoversFrame
  <2>2. OneHolder'
    BY <1>3, LockedFrame DEF OneHolder
  <2> QED
    BY <2>1, <2>2
<1>4. ASSUME UNCHANGED vars PROVE NothingCovers' /\ OneHolder'
  BY <1>4 DEF vars, NothingCovers, OneHolder, Earlier, IssueOf, DedupeGap
<1> QED
  BY <1>1, <1>2, <1>3, <1>4

-----------------------------------------------------------------------------
(* Spacing *)

\* A branch that found nothing inserts a row that comes after the interval.
LEMMA SpacedStep ==
  TypeOK /\ Placed /\ NothingCovers /\ Spaced /\ [Next]_vars => Spaced'
<1> SUFFICES ASSUME TypeOK, Placed, NothingCovers, Spaced, [Next]_vars
             PROVE  Spaced'
  OBVIOUS
<1>1. ASSUME NEW b \in Branches, Insert(b) PROVE Spaced'
  <2>1. stage[b] = "locked" /\ Earlier(b) = {}
    BY <1>1 DEF Insert, NothingCovers
  <2>2. CASE UNCHANGED notified
    BY <2>2 DEF Spaced, After
  <2>3. CASE ~UNCHANGED notified
    <3> DEFINE gap == DedupeGap(snapshot[b])
    <3>1. PICK t \in SentAt(b) :
            notified' = [notified EXCEPT ![b] =
              [issue |-> IssueOf(b), channel |-> snapshot[b].channel,
               status |-> "pending", sentAt |-> t, gap |-> gap]]
      BY <1>1, <2>3 DEF Insert
    <3>2. /\ notified'[b].issue = IssueOf(b)
          /\ notified'[b].sentAt = t /\ t >= start[b]
          /\ notified'[b].gap = gap
          /\ gap \in Nat \union {Null}
          /\ \A x \in Branches : x # b => notified'[x] = notified[x]
      BY <2>1, <3>1, InsertType
    <3>3. ASSUME NEW m \in Branches, m # b, m[2] = b[2], notified[m] # Null,
                 notified[m].issue = IssueOf(b)
          PROVE  gap # Null /\ notified[m].sentAt < start[b] - gap
      <4>1. m \notin Earlier(b)
        BY <2>1
      <4>2. notified[m].sentAt \in Nat /\ start[b] \in Nat
        BY <3>3, MaxTimeAssumption DEF TypeOK, Notification, Times
      <4> HIDE DEF gap
      <4>3. ~(gap = Null \/ notified[m].sentAt >= start[b] - gap)
        BY <3>3, <4>1 DEF Earlier, gap
      <4> QED
        BY <3>2, <4>2, <4>3
    <3>4. ASSUME NEW m \in Branches, m # b, m[2] = b[2], notified[m] # Null,
                 notified[m].issue = IssueOf(b)
          PROVE  After(b, m)'
      <4>1. notified[m].sentAt \in Nat /\ start[b] \in Nat /\ t \in Nat
        BY <3>4, MaxTimeAssumption DEF TypeOK, Notification, Times, SentAt
      <4>2. gap # Null /\ notified[m].sentAt < start[b] - gap
        BY <3>3, <3>4
      <4> HIDE DEF gap
      <4>3. t > notified[m].sentAt + gap
        BY <3>2, <4>1, <4>2
      <4> QED
        BY <3>2, <3>4, <4>2, <4>3 DEF After
    <3>5. ASSUME NEW n \in Branches, NEW m \in Branches, n # m, n[2] = m[2],
                 notified'[n] # Null, notified'[m] # Null,
                 notified'[n].issue = notified'[m].issue
          PROVE  After(n, m)' \/ After(m, n)'
      <4>1. CASE n = b
        BY <3>2, <3>4, <3>5, <4>1
      <4>2. CASE m = b
        BY <3>2, <3>4, <3>5, <4>2
      <4>3. CASE n # b /\ m # b
        BY <3>2, <3>5, <4>3 DEF Spaced, After
      <4> QED
        BY <4>1, <4>2, <4>3
    <3> QED
      BY <3>5 DEF Spaced
  <2> QED
    BY <2>2, <2>3
<1>2. ASSUME Next, \A b \in Branches : ~Insert(b) PROVE Spaced'
  BY <1>2, RowsFrame DEF Spaced, After
<1>3. ASSUME UNCHANGED vars PROVE Spaced'
  BY <1>3 DEF vars, Spaced, After
<1> QED
  BY <1>1, <1>2, <1>3

-----------------------------------------------------------------------------
(* Deliveries *)

\* A branch hands its message over at most once, and before it says so.
LEMMA DeliveryStep == TypeOK /\ Placed /\ Deliveries /\ [Next]_vars => Deliveries'
<1> SUFFICES ASSUME TypeOK, Placed, Deliveries, [Next]_vars PROVE Deliveries'
  OBVIOUS
<1>0. \A c : Reached(c) \in {0, 1} /\ Reached(c)' = Reached(c)
  BY DEF Reached, Reaches
<1>1. ASSUME NEW b \in Branches, Prepare(b) \/ Lock(b) \/ ClaimFails(b)
      PROVE  Deliveries'
  <2>1. UNCHANGED <<notified, delivered, snapshot>>
    BY <1>1 DEF Prepare, Lock, ClaimFails, dbVars, jobVars
  <2>2. /\ stage[b] \in {"fired", "prepared", "locked"}
        /\ stage'[b] \in {"prepared", "locked", "covered", "rejected"}
        /\ \A x \in Branches : x # b => stage'[x] = stage[x]
    BY <1>1 DEF Prepare, Lock, ClaimFails, Move, TypeOK
  <2> QED
    BY <1>0, <2>1, <2>2 DEF Deliveries
<1>2. ASSUME NEW b \in Branches, Insert(b) PROVE Deliveries'
  <2>1. /\ stage[b] = "locked" /\ stage'[b] \in {"claimed", "rejected"}
        /\ \A x \in Branches : x # b => stage'[x] = stage[x]
        /\ UNCHANGED <<delivered, snapshot>>
    BY <1>2 DEF Insert, Move, TypeOK, jobVars
  <2>2. \/ UNCHANGED notified
        \/ /\ notified'[b].status = "pending"
           /\ notified'[b].channel = snapshot[b].channel
           /\ \A x \in Branches : x # b => notified'[x] = notified[x]
    BY <1>2, <2>1, InsertType DEF Insert
  <2> QED
    BY <1>0, <2>1, <2>2 DEF Deliveries
<1>3. ASSUME NEW b \in Branches, Send(b) PROVE Deliveries'
  <2> DEFINE c == snapshot[b].channel
  <2>1. /\ stage[b] = "claimed" /\ UNCHANGED <<notified, snapshot>>
        /\ \A x \in Branches : x # b => stage'[x] = stage[x] /\ delivered'[x] = delivered[x]
        /\ \/ stage'[b] = "sent" /\ delivered'[b] = delivered[b] + Reached(c)
           \/ stage'[b] = "unsent" /\ delivered'[b] = delivered[b]
           \/ /\ stage'[b] = "unsent" /\ Reached(c) = 1
              /\ delivered'[b] = delivered[b] + 1
    BY <1>3 DEF Send, Move, TypeOK, dbVars, jobVars, Reached
  <2>2. delivered[b] = 0 /\ Reached(c) \in {0, 1}
    BY <1>0, <2>1 DEF Deliveries
  <2>3. notified[b] # Null => notified[b].status # "sent" \/ Reached(c) = 0
    BY <2>1, <2>2 DEF Deliveries
  <2> QED
    BY <1>0, <2>1, <2>2, <2>3 DEF Deliveries
<1>4. ASSUME NEW b \in Branches, RecordSent(b) \/ RecordFailed(b) PROVE Deliveries'
  <2>1. /\ UNCHANGED <<delivered, snapshot>> /\ stage[b] \in {"sent", "unsent"}
        /\ stage'[b] \in {"done", "unsent", "rejected"}
        /\ \A x \in Branches : x # b => stage'[x] = stage[x]
    BY <1>4 DEF RecordSent, RecordFailed, Move, TypeOK, jobVars
  <2>2. \/ UNCHANGED notified
        \/ /\ notified'[b].status = "sent" => stage[b] = "sent"
           /\ notified[b] # Null /\ notified'[b].channel = notified[b].channel
           /\ \A x \in Branches : x # b => notified'[x] = notified[x]
    BY <1>4, FinalizeType DEF RecordSent, RecordFailed
  <2> QED
    BY <1>0, <2>1, <2>2 DEF Deliveries
<1>5. ASSUME NEW j \in Jobs, Crash(j) PROVE Deliveries'
  <2>1. UNCHANGED <<notified, delivered, snapshot>>
        /\ \A x \in Branches : stage'[x] = stage[x] \/ stage'[x] = "dead"
    BY <1>5 DEF Crash, dbVars
  <2> QED
    BY <1>0, <2>1 DEF Deliveries
<1>6. ASSUME NEW j \in Jobs, Evaluate(j) PROVE Deliveries'
  <2>1. UNCHANGED <<notified, delivered, snapshot>> /\ phase[j] = "ruled"
        /\ \A x \in Branches : stage'[x] = stage[x] \/ (x[1] = j /\ stage'[x] = "fired")
    BY <1>6 DEF Evaluate, dbVars
  <2>2. \A x \in Branches : x[1] = j => stage[x] = "none"
    BY <2>1 DEF Placed
  <2> QED
    BY <1>0, <2>1, <2>2 DEF Deliveries
<1>7. ASSUME NEW j \in Jobs, \E i \in Issues : Begin(j, i) PROVE Deliveries'
  BY <1>0, <1>7 DEF Begin, Deliveries
<1>8. ASSUME NEW j \in Jobs, ReadRules(j) PROVE Deliveries'
  <2>1. /\ UNCHANGED <<notified, delivered, stage>> /\ phase[j] = "begun"
        /\ \A x \in Branches : x[1] # j => snapshot'[x] = snapshot[x]
    BY <1>8 DEF ReadRules, dbVars, TypeOK
  <2>2. \A x \in Branches : x[1] = j => stage[x] = "none"
    BY <2>1 DEF Placed
  <2> QED
    BY <1>0, <2>1, <2>2 DEF Deliveries
<1>9. ASSUME Tick \/ \E r \in Rules, c \in Configs : UpdateRule(r, c)
      PROVE  Deliveries'
  BY <1>0, <1>9 DEF Tick, UpdateRule, dbVars, jobVars, Deliveries
<1>10. ASSUME DeleteProject \/ \E r \in Rules : DeleteRule(r) PROVE Deliveries'
  <2>1. UNCHANGED <<stage, delivered, snapshot>>
        /\ \A x \in Branches : notified'[x] = notified[x] \/ notified'[x] = Null
    BY <1>10 DEF DeleteProject, DeleteRule, jobVars
  <2> QED
    BY <1>0, <2>1 DEF Deliveries
<1>11. ASSUME UNCHANGED vars PROVE Deliveries'
  BY <1>0, <1>11 DEF vars, Deliveries, jobVars
<1> QED
  BY <1>1, <1>2, <1>3, <1>4, <1>5, <1>6, <1>7, <1>8, <1>9, <1>10, <1>11
  DEF Next, Run, Continue

\* A row is settled by the branch that claimed it, or left to those that could
\* not; a rule that is gone does not come back.
LEMMA PendingStep ==
  TypeOK /\ Placed /\ PendingExplained /\ [Next]_vars => PendingExplained'
<1> SUFFICES ASSUME TypeOK, Placed, PendingExplained, [Next]_vars
             PROVE  PendingExplained'
  OBVIOUS
<1>0. \A b \in Branches : b[1] \in Jobs /\ b[2] \in Rules
  BY DEF Branches
<1>1. ASSUME NEW b \in Branches, Prepare(b) \/ Lock(b) \/ ClaimFails(b) \/ Send(b)
      PROVE  PendingExplained'
  <2>1. UNCHANGED <<notified, rule>>
    BY <1>1 DEF Prepare, Lock, ClaimFails, Send, dbVars
  <2>2. /\ \/ /\ stage[b] \in {"fired", "prepared", "locked"}
              /\ stage'[b] \in {"prepared", "locked", "covered", "rejected"}
           \/ stage[b] = "claimed" /\ stage'[b] \in {"sent", "unsent"}
        /\ \A x \in Branches : x # b => stage'[x] = stage[x]
    BY <1>1 DEF Prepare, Lock, ClaimFails, Send, Move, TypeOK
  <2> QED
    BY <2>1, <2>2 DEF PendingExplained
<1>2. ASSUME NEW b \in Branches, Insert(b) PROVE PendingExplained'
  <2>1. /\ stage[b] = "locked" /\ rule' = rule
        /\ \A x \in Branches : x # b => stage'[x] = stage[x]
        /\ stage'[b] \in {"claimed", "rejected"}
    BY <1>2 DEF Insert, Move, TypeOK
  <2>2. \A x \in Branches : x # b => notified'[x] = notified[x]
    BY <1>2, <2>1, InsertType DEF Insert
  <2> QED
    BY <2>1, <2>2 DEF PendingExplained
<1>3. ASSUME NEW b \in Branches, RecordSent(b) \/ RecordFailed(b)
      PROVE  PendingExplained'
  <2>1. /\ rule' = rule /\ stage[b] \in {"sent", "unsent"}
        /\ \A x \in Branches : x # b => stage'[x] = stage[x]
    BY <1>3 DEF RecordSent, RecordFailed, Move, TypeOK
  <2>2. /\ \A x \in Branches : x # b => notified'[x] = notified[x]
        /\ \/ stage'[b] \in {"unsent", "rejected"}
           \/ /\ stage'[b] = "done" /\ notified'[b] # Null
              /\ notified'[b].status \in {"sent", "failed"}
    BY <1>3, FinalizeType DEF RecordSent, RecordFailed, Move, TypeOK
  <2> QED
    BY <2>1, <2>2 DEF PendingExplained
<1>4. ASSUME NEW j \in Jobs, Evaluate(j) PROVE PendingExplained'
  <2>1. UNCHANGED <<notified, rule>> /\ phase[j] = "ruled"
        /\ \A x \in Branches :
             stage'[x] = stage[x] \/ (x[1] = j /\ stage'[x] = "fired")
    BY <1>4 DEF Evaluate, dbVars
  <2>2. \A x \in Branches : x[1] = j => stage[x] = "none"
    BY <2>1 DEF Placed
  <2> QED
    BY <2>1, <2>2 DEF PendingExplained
<1>5. ASSUME NEW j \in Jobs, Crash(j) PROVE PendingExplained'
  <2>1. UNCHANGED <<notified, rule>>
        /\ \A x \in Branches : stage'[x] = stage[x] \/ stage'[x] = "dead"
    BY <1>5 DEF Crash, dbVars
  <2> QED
    BY <2>1 DEF PendingExplained
<1>6. ASSUME NEW j \in Jobs, (\E i \in Issues : Begin(j, i)) \/ ReadRules(j)
      PROVE  PendingExplained'
  BY <1>6 DEF Begin, ReadRules, dbVars, PendingExplained
<1>7. ASSUME NEW r \in Rules, NEW c \in Configs, UpdateRule(r, c)
      PROVE  PendingExplained'
  <2>1. UNCHANGED <<notified, stage>>
        /\ \A x \in Branches : rule'[x[2]] # Null => rule[x[2]] # Null
    BY <1>0, <1>7 DEF UpdateRule, TypeOK
  <2> QED
    BY <2>1 DEF PendingExplained
<1>8. ASSUME NEW r \in Rules, DeleteRule(r) PROVE PendingExplained'
  <2>1. /\ stage' = stage
        /\ \A x \in Branches :
             IF x[2] = r
               THEN rule'[x[2]] = Null /\ notified'[x] = Null
               ELSE rule'[x[2]] = rule[x[2]] /\ notified'[x] = notified[x]
    BY <1>0, <1>8 DEF DeleteRule, TypeOK
  <2> QED
    BY <2>1 DEF PendingExplained
<1>9. ASSUME DeleteProject PROVE PendingExplained'
  <2>1. /\ stage' = stage
        /\ \A x \in Branches : rule'[x[2]] = Null /\ notified'[x] = Null
    BY <1>0, <1>9 DEF DeleteProject
  <2> QED
    BY <2>1 DEF PendingExplained
<1>10. ASSUME Tick \/ UNCHANGED vars PROVE PendingExplained'
  BY <1>10 DEF Tick, vars, dbVars, PendingExplained
<1> QED
  BY <1>1, <1>2, <1>3, <1>4, <1>5, <1>6, <1>7, <1>8, <1>9, <1>10
  DEF Next, Run, Continue

-----------------------------------------------------------------------------
(* The theorems *)

\* The inductive invariant: types, the lock discipline, the spacing of rows and
\* the bookkeeping of deliveries hold in every reachable state.
THEOREM Inductive == Spec => []IInv
<1>1. Init => IInv
  BY InitInv
<1>2. IInv /\ [Next]_vars => IInv'
  BY TypeStep, PlacedStep, LockStep, SpacedStep, DeliveryStep DEF IInv
<1> QED
  BY <1>1, <1>2, PTL DEF Spec

\* Every variable keeps its type.
THEOREM TypeCorrect == Spec => []TypeOK
<1>1. IInv => TypeOK
  BY DEF IInv
<1> QED
  BY <1>1, Inductive, PTL

\* However many jobs fire the same rule for the same issue, in whatever order
\* they read, wait, insert, fail or die, two notifications are never within
\* the dedupe interval (claimNotification, service.ts:123-168).
THEOREM NotificationsSpaced == Spec => []Spaced
<1>1. IInv => Spaced
  BY DEF IInv
<1> QED
  BY <1>1, Inductive, PTL

\* A notification reaches its target at most once, and is recorded as sent only
\* when it did, or when it was mail of a worker that has no SMTP credentials,
\* which reaches nobody (service.ts:314-331, notifier.ts:28-33,79-85).
THEOREM SentIsHonest == Spec => []SentMeansDelivered
<1>1. IInv => SentMeansDelivered
  BY DEF IInv, Deliveries, SentMeansDelivered, Reached
<1> QED
  BY <1>1, Inductive, PTL

\* A notification stays pending only while its branch is at work, or because the
\* worker died or the database refused the final update, for any number of jobs,
\* rules and issues (service.ts:314-331).
THEOREM PendingIsExplained == Spec => []PendingExplained
<1>1. Init => PendingExplained
  BY DEF Init, PendingExplained
<1>2. IInv /\ PendingExplained /\ [Next]_vars => PendingExplained'
  BY PendingStep DEF IInv
<1> QED
  BY <1>1, <1>2, Inductive, PTL DEF Spec

\* A steady stream of k events per minute never trips an event_spike rule whose
\* multiplier is above 1, whatever its window, baseline and minimum: the
\* baseline interval leaves out the window (evaluator.ts:49-74).
THEOREM SteadyTrafficIsQuiet ==
  ASSUME NEW r \in Config, NEW k \in Nat, k > 0, SpikeConfigured(r),
         r.windowMinutes > 0, r.spikeMultiplier > One
  PROVE  SpikeAnswers(r, k * r.windowMinutes,
                      k * (r.baselineMinutes - r.windowMinutes)) = {FALSE}
<1> DEFINE w == r.windowMinutes
           b == r.baselineMinutes
           m == r.spikeMultiplier
<1>1. w \in Nat /\ b \in Nat /\ m \in Nat /\ b > w /\ w > 0 /\ m > 100
  BY DEF Config, SpikeConfigured, One
<1> DEFINE u == b - w
<1>2. SpikeRatio(r, k * w, k * u) = (k * w) * u * 100 - (k * u) * w * m
  BY DEF SpikeRatio, One
<1> HIDE DEF w, b, m
<1>3. u \in Nat /\ u > 0
  BY <1>1
<1> HIDE DEF u
<1>4. ASSUME NEW x \in Nat, NEW y \in Nat, x > 0, y > 0
      PROVE  x * y \in Nat /\ x * y > 0
  BY <1>4
<1>5. k * u \in Nat /\ k * u > 0
  BY <1>3, <1>4
<1> DEFINE p == (k * u) * w
<1>6. p \in Nat /\ p > 0
  BY <1>1, <1>4, <1>5
<1>7. (k * w) * u = p
  BY <1>1, <1>3
<1> HIDE DEF p
<1>8. \A x \in Nat : x > 0 => p * x > p * 100 \/ x <= 100
  BY <1>6
<1>9. p * 100 < p * m
  BY <1>1, <1>6, <1>8
<1>10. (k * w) * u * 100 = p * 100 /\ (k * u) * w * m = p * m
  BY <1>7 DEF p
<1>11. SpikeRatio(r, k * w, k * u) # 0 /\ ~(SpikeRatio(r, k * w, k * u) > 0)
  BY <1>1, <1>2, <1>6, <1>9, <1>10
<1>12. k * u # 0
  BY <1>5
<1>13. SpikeAnswers(r, k * w, k * u) = {FALSE}
  BY <1>11, <1>12 DEF SpikeAnswers
<1> QED
  BY <1>13 DEF w, u, b
=============================================================================
