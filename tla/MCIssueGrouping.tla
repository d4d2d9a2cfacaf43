--------------------------- MODULE MCIssueGrouping ---------------------------
(* IssueGrouping for TLC: two overlapping workers, two levels.               *)
EXTENDS IssueGrouping

CONSTANT f1

MCLevels == {"info", "error"}

\* A mild event without and a severe one with a snapshot.
MCShapes == {[fp |-> f1, level |-> "info", replay |-> FALSE],
             [fp |-> f1, level |-> "error", replay |-> TRUE]}
=============================================================================
