--------------------------- MODULE MCIngestPipeline ---------------------------
(* IngestPipeline for TLC: one event posted several times, another event of  *)
(* the same issue, and two executions at a time.                             *)
EXTENDS IngestPipeline

CONSTANTS e1, f1

MCIdOf == [r \in Requests |-> e1]
MCFingerprintOf == [i \in Ids |-> f1]
=============================================================================
