---------------------------- MODULE IssueLedger ----------------------------
(***************************************************************************)
(* What grouping promises to everyone who reads issues: an event that has  *)
(* been recorded belongs to one issue, the issue's timesSeen counts it     *)
(* exactly once, and exactly one event - the first recorded - opened the   *)
(* issue.  Recording is one indivisible step here; IssueGrouping shows     *)
(* that the transactions of concurrent workers implement it.               *)
(***************************************************************************)
EXTENDS Naturals

CONSTANTS
  Fingerprints,  \* the (project, fingerprint) keys events are grouped by
  EventIds       \* identities of event rows

VARIABLES
  timesSeen,     \* timesSeen[f]: the counter of the issue of f, 0 if none
  ledger,        \* ledger[f]: the events recorded under f
  opener,        \* opener[f]: the event that opened the issue, as a set
  projectLive    \* the project has not been deleted

vars == <<timesSeen, ledger, opener, projectLive>>

Init ==
  /\ timesSeen   = [f \in Fingerprints |-> 0]
  /\ ledger      = [f \in Fingerprints |-> {}]
  /\ opener      = [f \in Fingerprints |-> {}]
  /\ projectLive = TRUE

\* An event is recorded: counted once, and the opener iff it is the first.
Record(f, e) ==
  /\ projectLive
  /\ \A g \in Fingerprints : e \notin ledger[g]
  /\ timesSeen' = [timesSeen EXCEPT ![f] = @ + 1]
  /\ ledger'    = [ledger EXCEPT ![f] = @ \union {e}]
  /\ opener'    = [opener EXCEPT ![f] = IF ledger[f] = {} THEN {e} ELSE @]
  /\ UNCHANGED projectLive

\* Deleting the project deletes its issues and their events with it.
Purge ==
  /\ projectLive
  /\ projectLive' = FALSE
  /\ timesSeen'   = [f \in Fingerprints |-> 0]
  /\ ledger'      = [f \in Fingerprints |-> {}]
  /\ opener'      = [f \in Fingerprints |-> {}]

Next == (\E f \in Fingerprints, e \in EventIds : Record(f, e)) \/ Purge

Spec == Init /\ [][Next]_vars
=============================================================================
