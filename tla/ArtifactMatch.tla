--------------------------- MODULE ArtifactMatch ---------------------------
(***************************************************************************)
(* Which uploaded source map a stack frame is resolved with                 *)
(* (modules/sourcemaps/symbolicate.ts, service.ts).  A path is the sequence *)
(* of its segments: what pathSegments makes of a URL or an artifact name.   *)
(***************************************************************************)
EXTENDS Naturals, Sequences, SequencesExt

NoArtifact == << >>

IsPath(p) == p \in Seq({p[i] : i \in DOMAIN p})

\* frameBasename: the last segment, or none.
FrameBasename(path) == IF path = << >> THEN << >> ELSE <<path[Len(path)]>>

\* One step of the loop of resolveTracerName over the stored names: a longer
\* suffix of the frame replaces the best one so far.
Better(frame, best, name) ==
  IF /\ name # << >> /\ Len(name) <= Len(frame)
     /\ IsSuffix(name, frame)
     /\ Len(name) > Len(best)
  THEN name ELSE best

\* The loop: the best name after each of them.
ResolveTracerName(frame, names) ==
  LET best[i \in 0 .. Len(names)] ==
        IF i = 0 THEN NoArtifact ELSE Better(frame, best[i - 1], names[i])
  IN  best[Len(names)]

\* The artifact basenames of a set of events' frames, and the stored names worth
\* loading for them (loadSourceMapsByName).
ReferencedBasenames(frames) == {FrameBasename(f) : f \in frames} \ {<< >>}

Wanted(names, frames) ==
  {n \in names : FrameBasename(n) \in ReferencedBasenames(frames)}

-----------------------------------------------------------------------------
\* What it is for: the longest stored name that is a suffix of the frame.
LongestSuffix(frame, names) ==
  LET suffixes == {n \in names : n # << >> /\ IsSuffix(n, frame)} IN
  IF suffixes = {} THEN NoArtifact
  ELSE CHOOSE n \in suffixes : \A m \in suffixes : Len(m) <= Len(n)

\* In whatever order the names are loaded, and with only the wanted ones
\* loaded, a frame is resolved with the most specific artifact.
MostSpecific(frame, names) ==
  \A order \in SetToSeqs(Wanted(names, {frame})) :
    ResolveTracerName(frame, order) = LongestSuffix(frame, names)
=============================================================================
