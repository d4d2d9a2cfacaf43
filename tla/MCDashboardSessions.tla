------------------------ MODULE MCDashboardSessions ------------------------
(***************************************************************************)
(* Two browsers.  In the first one a tab with two parallel calls and a tab  *)
(* without; in the second a tab without.                                    *)
(***************************************************************************)
EXTENDS DashboardSessions

CONSTANTS b1, b2, t1, t2, t3, c1, c2

MCBrowserOf == [t \in Tabs |-> IF t = t3 THEN b2 ELSE b1]
MCTabOf == [c \in Calls |-> t1]
MCStarts == {<< >>, <<t1, t3>>}
=============================================================================
