------------------------- MODULE MCReleaseArtifacts -------------------------
(***************************************************************************)
(* Events of the releases of one project, and their artifact.               *)
(***************************************************************************)
EXTENDS ReleaseArtifacts

CONSTANTS r1, p1

\* A second release has maps and no events.
OneRelease == [e \in Events |-> r1]
OneProject == [r \in Releases |-> p1]

Index == <<"index">>
OneName == {Index}
MCFramesOf == [e \in Events |-> {<<"assets", "routes", "index">>}]
AllAge == {{"replay", "snapshot", "event", "sourcemap"}}

\* One pass beside a page read and a map written, or two passes.
OneOrTwoPasses == {<<0, 0, 1>>, <<1, 1, 0>>}
Nothing == {<<0, 0, 0>>}

\* Segments, frames of up to three of them and names of up to two.
Paths(n) == UNION {[1 .. k -> {"assets", "routes", "index"}] : k \in 0 .. n}

ASSUME MatchAssumption ==
  \A f \in Paths(3), names \in {S \in SUBSET (Paths(2) \ {<< >>}) :
                                  Cardinality(S) <= 3} :
    MostSpecific(f, names)
=============================================================================
