----------------------- MODULE ReleaseArtifactsProofs -----------------------
(***************************************************************************)
(* Proofs about ReleaseArtifacts and ArtifactMatch.  First the loop that    *)
(* picks the source map of a frame; then the inductive invariant: TInv      *)
(* (types), CacheInv (what is cached or about to be is right or excused),   *)
(* LateInv (which events a DELETE of maps has not seen) and DrainInv (what  *)
(* an execution of the pass leaves behind), each with a lemma per group of  *)
(* actions.                                                                 *)
(***************************************************************************)
EXTENDS ReleaseArtifacts, FiniteSetTheorems, WellFoundedInduction, TLAPS

-----------------------------------------------------------------------------
(* Induction on the natural numbers, over a set instead of a predicate.     *)

Below == {p \in Nat \X Nat : p[1] < p[2]}

LEMMA BelowIsWellFounded == IsWellFoundedOn(Below, Nat)
BY NatLessThanWellFounded DEF OpToRel, Below

LEMMA LeastOf ==
  ASSUME NEW S, S \subseteq Nat, S # {}
  PROVE  \E x \in S : \A y \in S : x <= y
<1>1. PICK x \in S : \A y \in S : ~ (<<y, x>> \in Below)
  BY BelowIsWellFounded, WFMin
<1>2. ASSUME NEW y \in S PROVE x <= y
  <2>1. x \in Nat /\ y \in Nat
    OBVIOUS
  <2>2. ASSUME y < x PROVE <<y, x>> \in Below
    BY <2>1, <2>2 DEF Below
  <2>3. ~ (y < x)
    BY <1>1, <2>2
  <2> QED
    BY <2>1, <2>3
<1> QED
  BY <1>2

LEMMA Induction ==
  ASSUME NEW S, 0 \in S, \A n \in Nat : n \in S => n + 1 \in S
  PROVE  Nat \subseteq S
<1> SUFFICES ASSUME Nat \ S # {} PROVE FALSE
  OBVIOUS
<1>1. PICK x \in Nat \ S : \A y \in Nat \ S : x <= y
  BY LeastOf
<1>2. x # 0 /\ x - 1 \in Nat /\ x - 1 \in S
  BY <1>1
<1>3. (x - 1) + 1 \in S
  BY <1>2
<1> QED
  BY <1>1, <1>3

-----------------------------------------------------------------------------
(* The loop of resolveTracerName.                                          *)

Suits(frame, name) == name # << >> /\ IsSuffix(name, frame)

Fitting(frame, S) == {n \in S : Suits(frame, n)}

\* b is the longest of the names in S that the frame ends with, if any.
Longest(b, frame, S) ==
  \/ b = NoArtifact /\ Fitting(frame, S) = {}
  \/ /\ b \in Fitting(frame, S)
     /\ \A n \in Fitting(frame, S) : Len(n) <= Len(b)

LEMMA PathLength ==
  ASSUME NEW p, IsPath(p)
  PROVE  /\ Len(p) \in Nat /\ DOMAIN p = 1 .. Len(p)
         /\ p # << >> => Len(p) > 0
         /\ p = [i \in 1 .. Len(p) |-> p[i]]
<1>1. PICK A : p \in Seq(A)
  BY DEF IsPath
<1> QED
  BY <1>1

\* A path ends with each of its suffixes.
LEMMA SuffixAligned ==
  ASSUME NEW s, NEW t, IsPath(s), IsPath(t), IsSuffix(s, t)
  PROVE  /\ Len(s) <= Len(t)
         /\ \A i \in 1 .. Len(s) : s[i] = t[Len(t) - Len(s) + i]
<1>1. Len(s) \in Nat /\ Len(t) \in Nat
  BY PathLength
<1>2. /\ Reverse(s) = [i \in 1 .. Len(s) |-> s[(Len(s) - i) + 1]]
      /\ Reverse(t) = [i \in 1 .. Len(t) |-> t[(Len(t) - i) + 1]]
  BY DEF Reverse
<1>3. PICK A, B : Reverse(s) \in Seq(A) /\ Reverse(t) \in Seq(B)
  <2>1. PICK A : s \in Seq(A)
    BY DEF IsPath
  <2>2. PICK B : t \in Seq(B)
    BY DEF IsPath
  <2>3. Reverse(s) \in Seq(A) /\ Reverse(t) \in Seq(B)
    BY <1>1, <1>2, <2>1, <2>2
  <2> QED
    BY <2>3
<1>4. Len(Reverse(s)) = Len(s) /\ Len(Reverse(t)) = Len(t)
  BY <1>1, <1>2, <1>3
<1>5. Len(s) <= Len(t)
      /\ SubSeq(Reverse(s), 1, Len(s)) = SubSeq(Reverse(t), 1, Len(s))
  BY <1>4 DEF IsSuffix, IsPrefix
<1>6. ASSUME NEW i \in 1 .. Len(s) PROVE s[i] = t[Len(t) - Len(s) + i]
  <2> DEFINE k == (Len(s) - i) + 1
  <2>1. k \in 1 .. Len(s) /\ k \in 1 .. Len(t)
    BY <1>1, <1>5
  <2>2. SubSeq(Reverse(s), 1, Len(s))[k] = Reverse(s)[k]
    BY <1>1, <1>3, <1>4, <2>1
  <2>3. SubSeq(Reverse(t), 1, Len(s))[k] = Reverse(t)[k]
    BY <1>1, <1>3, <1>4, <1>5, <2>1
  <2>4. s[(Len(s) - k) + 1] = t[(Len(t) - k) + 1]
    BY <1>2, <1>5, <2>1, <2>2, <2>3
  <2> QED
    BY <1>1, <2>4
<1> QED
  BY <1>5, <1>6

LEMMA SuffixUnique ==
  ASSUME NEW s, NEW u, NEW t, IsPath(s), IsPath(u), IsPath(t),
         IsSuffix(s, t), IsSuffix(u, t), Len(s) = Len(u)
  PROVE  s = u
<1>1. ASSUME NEW i \in 1 .. Len(s) PROVE s[i] = u[i]
  <2>1. s[i] = t[Len(t) - Len(s) + i]
    BY SuffixAligned
  <2>2. u[i] = t[Len(t) - Len(u) + i]
    BY SuffixAligned
  <2> QED
    BY <2>1, <2>2
<1> QED
  BY <1>1, PathLength

LEMMA LongestUnique ==
  ASSUME NEW frame, IsPath(frame), NEW S, \A n \in S : IsPath(n),
         NEW b, NEW c, Longest(b, frame, S), Longest(c, frame, S)
  PROVE  b = c
<1>1. CASE Fitting(frame, S) = {}
  BY <1>1 DEF Longest
<1>2. CASE Fitting(frame, S) # {}
  <2>1. b \in Fitting(frame, S) /\ c \in Fitting(frame, S)
        /\ Len(b) <= Len(c) /\ Len(c) <= Len(b)
    BY <1>2 DEF Longest
  <2>2. Len(b) = Len(c)
    BY <2>1, PathLength DEF Fitting
  <2> QED
    BY <2>1, <2>2, SuffixUnique DEF Fitting, Suits
<1> QED
  BY <1>1, <1>2

LEMMA BetterIsLonger ==
  ASSUME NEW frame, IsPath(frame), NEW S, \A n \in S : IsPath(n),
         NEW b, Longest(b, frame, S), NEW name, IsPath(name)
  PROVE  Longest(Better(frame, b, name), frame, S \cup {name})
<1>1. Suits(frame, name) => Len(name) <= Len(frame) /\ Len(name) > 0
  BY SuffixAligned, PathLength DEF Suits
<1>2. Len(NoArtifact) = 0
  BY DEF NoArtifact
<1>3. Fitting(frame, S \cup {name}) =
        Fitting(frame, S) \cup (IF Suits(frame, name) THEN {name} ELSE {})
  BY DEF Fitting
<1>4. \A n \in S \cup {name} : Len(n) \in Nat
  BY PathLength
<1>5. CASE ~ Suits(frame, name)
  <2>1. Better(frame, b, name) = b
    BY <1>5 DEF Better, Suits
  <2> QED
    BY <1>3, <1>5, <2>1 DEF Longest
<1>6. CASE Suits(frame, name) /\ Fitting(frame, S) = {}
  <2>1. b = NoArtifact
    BY <1>6 DEF Longest
  <2>2. Better(frame, b, name) = name
    BY <1>1, <1>2, <1>6, <2>1 DEF Better, Suits
  <2>3. Fitting(frame, S \cup {name}) = {name}
    BY <1>3, <1>6
  <2>4. Len(name) \in Nat
    BY <1>4
  <2> QED
    BY <2>2, <2>3, <2>4 DEF Longest
<1>7. CASE Suits(frame, name) /\ Fitting(frame, S) # {}
  <2>1. b \in Fitting(frame, S)
        /\ \A n \in Fitting(frame, S) : Len(n) <= Len(b)
    BY <1>7 DEF Longest
  <2>2. \A n \in Fitting(frame, S) : Len(n) \in Nat
    BY <1>4 DEF Fitting
  <2>3. Fitting(frame, S \cup {name}) = Fitting(frame, S) \cup {name}
    BY <1>3, <1>7
  <2>4. Len(name) \in Nat /\ Len(b) \in Nat
    BY <1>4, <2>1, <2>2
  <2>5. CASE Len(name) > Len(b)
    <3>1. Better(frame, b, name) = name
      BY <1>1, <1>7, <2>5 DEF Better, Suits
    <3>2. ASSUME NEW n \in Fitting(frame, S \cup {name})
          PROVE  Len(n) <= Len(name)
      <4>1. n = name \/ (Len(n) <= Len(b) /\ Len(n) \in Nat)
        BY <2>1, <2>2, <2>3
      <4> QED
        BY <2>4, <2>5, <4>1
    <3>3. name \in Fitting(frame, S \cup {name})
      BY <2>3
    <3> QED
      BY <3>1, <3>2, <3>3 DEF Longest
  <2>6. CASE ~ (Len(name) > Len(b))
    <3>1. Better(frame, b, name) = b
      BY <2>6 DEF Better
    <3>2. ASSUME NEW n \in Fitting(frame, S \cup {name})
          PROVE  Len(n) <= Len(b)
      <4>1. n = name \/ Len(n) <= Len(b)
        BY <2>1, <2>3
      <4> QED
        BY <2>4, <2>6, <4>1
    <3>3. b \in Fitting(frame, S \cup {name})
      BY <2>1, <2>3
    <3> QED
      BY <3>1, <3>2, <3>3 DEF Longest
  <2> QED
    BY <2>5, <2>6
<1> QED
  BY <1>5, <1>6, <1>7

\* The values of best as the loop goes over the first m names.
IsRun(best, frame, names, m) ==
  best = [i \in 0 .. m |-> IF i = 0 THEN NoArtifact
                           ELSE Better(frame, best[i - 1], names[i])]

LEMMA RunExists ==
  ASSUME NEW frame, NEW names
  PROVE  \A m \in Nat : \E best : IsRun(best, frame, names, m)
<1> DEFINE S == {m \in Nat : \E best : IsRun(best, frame, names, m)}
<1>1. 0 \in S
  <2>1. IsRun([i \in 0 .. 0 |-> NoArtifact], frame, names, 0)
    BY DEF IsRun
  <2> QED
    BY <2>1
<1>2. ASSUME NEW n \in Nat, n \in S PROVE n + 1 \in S
  <2>1. PICK g : IsRun(g, frame, names, n)
    BY <1>2
  <2> DEFINE h == [i \in 0 .. n + 1 |->
                     IF i = n + 1 THEN Better(frame, g[n], names[n + 1])
                     ELSE g[i]]
  <2>2. h[n + 1] = Better(frame, g[n], names[n + 1])
        /\ \A i \in 0 .. n : h[i] = g[i]
    OBVIOUS
  <2>3. \A i \in 0 .. n : g[i] = IF i = 0 THEN NoArtifact
                                 ELSE Better(frame, g[i - 1], names[i])
    BY <2>1 DEF IsRun
  <2>4. ASSUME NEW i \in 0 .. n + 1
        PROVE  h[i] = IF i = 0 THEN NoArtifact
                      ELSE Better(frame, h[i - 1], names[i])
    <3>1. CASE i = n + 1
      BY <2>2, <3>1
    <3>2. CASE i # n + 1
      <4>1. i \in 0 .. n /\ (i # 0 => i - 1 \in 0 .. n)
        BY <3>2
      <4> HIDE DEF h
      <4> QED
        BY <2>2, <2>3, <4>1
    <3> QED
      BY <3>1, <3>2
  <2>5. h = [i \in 0 .. n + 1 |-> h[i]]
    OBVIOUS
  <2>6. IsRun(h, frame, names, n + 1)
    <3> HIDE DEF h
    <3> QED
      BY <2>4, <2>5 DEF IsRun
  <2> QED
    BY <2>6
<1> HIDE DEF S
<1>3. Nat \subseteq S
  BY <1>1, <1>2, Induction
<1> QED
  BY <1>3 DEF S

FirstOf(names, k) == {names[i] : i \in 1 .. k}

LEMMA RunIsLongest ==
  ASSUME NEW frame, IsPath(frame), NEW names, NEW m \in Nat,
         \A i \in 1 .. m : IsPath(names[i]),
         NEW best, IsRun(best, frame, names, m)
  PROVE  \A k \in 0 .. m :
           Longest(best[k], frame, FirstOf(names, k))
<1> DEFINE S == {k \in Nat : k <= m =>
                   Longest(best[k], frame, FirstOf(names, k))}
<1>1. 0 \in S
  <2>1. best[0] = NoArtifact
    BY DEF IsRun
  <2>2. FirstOf(names, 0) = {}
    BY DEF FirstOf
  <2> QED
    BY <2>1, <2>2 DEF Longest, Fitting
<1>2. ASSUME NEW k \in Nat, k \in S PROVE k + 1 \in S
  <2> SUFFICES ASSUME k + 1 <= m
               PROVE  Longest(best[k + 1], frame, FirstOf(names, k + 1))
    OBVIOUS
  <2>1. best[k + 1] = Better(frame, best[k], names[k + 1])
    BY DEF IsRun
  <2>2. FirstOf(names, k + 1) = FirstOf(names, k) \cup {names[k + 1]}
    <3>1. \A i : i \in 1 .. k + 1 <=> i \in 1 .. k \/ i = k + 1
      OBVIOUS
    <3> QED
      BY <3>1 DEF FirstOf
  <2>3. Longest(best[k], frame, FirstOf(names, k))
    BY <1>2
  <2>4. (\A n \in FirstOf(names, k) : IsPath(n)) /\ IsPath(names[k + 1])
    BY DEF FirstOf
  <2> QED
    BY <2>1, <2>2, <2>3, <2>4, BetterIsLonger
<1> HIDE DEF S
<1>3. Nat \subseteq S
  BY <1>1, <1>2, Induction
<1> QED
  BY <1>3 DEF S

LEMMA ResolvesLongest ==
  ASSUME NEW frame, IsPath(frame), NEW n \in Nat, NEW S,
         NEW names \in [1 .. n -> S], \A x \in S : IsPath(x),
         \A x \in S : \E i \in 1 .. n : names[i] = x
  PROVE  Longest(ResolveTracerName(frame, names), frame, S)
<1>1. Len(names) = n
  <2>1. names \in Seq(S)
    OBVIOUS
  <2> QED
    BY <2>1
<1>2. PICK best : /\ IsRun(best, frame, names, n)
                  /\ ResolveTracerName(frame, names) = best[n]
  <2>1. \E b : IsRun(b, frame, names, n)
    BY RunExists
  <2> DEFINE b0 == CHOOSE b : b = [i \in 0 .. n |-> IF i = 0 THEN NoArtifact
                                 ELSE Better(frame, b[i - 1], names[i])]
  <2>2. IsRun(b0, frame, names, n)
    BY <2>1 DEF IsRun
  <2>3. ResolveTracerName(frame, names) = b0[n]
    BY <1>1 DEF ResolveTracerName
  <2> QED
    BY <2>2, <2>3
<1>3. Longest(best[n], frame, FirstOf(names, n))
  <2>1. n \in 0 .. n /\ \A i \in 1 .. n : IsPath(names[i])
    OBVIOUS
  <2> QED
    BY <1>2, <2>1, RunIsLongest
<1>4. FirstOf(names, n) = S
  BY DEF FirstOf
<1> QED
  BY <1>2, <1>3, <1>4

-----------------------------------------------------------------------------
(* A set in some order, and the wanted names of a frame.                    *)

LEMMA OrderOnto ==
  ASSUME NEW S, IsFiniteSet(S), NEW f \in [1 .. Cardinality(S) -> S],
         IsInjective(f)
  PROVE  /\ Cardinality(S) \in Nat
         /\ \A x \in S : \E i \in 1 .. Cardinality(S) : f[i] = x
<1> DEFINE D == 1 .. Cardinality(S)
<1>1. Cardinality(S) \in Nat
  BY FS_CardinalityType
<1>2. IsFiniteSet(D) /\ Cardinality(D) = Cardinality(S)
  BY <1>1, FS_Interval
<1>3. f \in Injection(D, S)
  BY DEF Injection
<1> HIDE DEF D
<1>4. f \in Surjection(D, S)
  BY <1>2, <1>3, FS_Injection
<1> QED
  BY <1>1, <1>4 DEF Surjection, D

LEMMA SomeOrder ==
  ASSUME NEW S, IsFiniteSet(S)
  PROVE  /\ SetToSeq(S) \in [1 .. Cardinality(S) -> S]
         /\ IsInjective(SetToSeq(S))
<1>1. PICK f \in [1 .. Cardinality(S) -> S] : IsInjective(f)
  BY FS_CardinalityType DEF ExistsBijection, Bijection, Injection
<1> QED
  BY <1>1 DEF SetToSeq

\* The names loaded for a frame are all those that it ends with.
LEMMA FittingWanted ==
  ASSUME NEW frame, IsPath(frame), NEW frames, frame \in frames,
         NEW S, \A n \in S : IsPath(n)
  PROVE  Fitting(frame, Wanted(S, frames)) = Fitting(frame, S)
<1>1. ASSUME NEW n \in S, Suits(frame, n) PROVE n \in Wanted(S, frames)
  <2>1. IsPath(n) /\ n # << >> /\ IsSuffix(n, frame)
    BY <1>1 DEF Suits
  <2>2. Len(n) \in Nat /\ Len(n) > 0 /\ Len(frame) \in Nat
    BY <2>1, PathLength
  <2>3. Len(n) <= Len(frame) /\ n[Len(n)] = frame[Len(frame) - Len(n) + Len(n)]
    BY <2>1, <2>2, SuffixAligned
  <2>4. n[Len(n)] = frame[Len(frame)] /\ frame # << >>
    BY <2>2, <2>3
  <2>5. FrameBasename(n) = FrameBasename(frame)
        /\ FrameBasename(frame) # << >>
    BY <2>1, <2>4 DEF FrameBasename
  <2> QED
    BY <2>5 DEF Wanted, ReferencedBasenames
<1>2. Wanted(S, frames) \subseteq S
  BY DEF Wanted
<1> QED
  BY <1>1, <1>2 DEF Fitting

LEMMA LongestWanted ==
  ASSUME NEW frame, IsPath(frame), NEW frames, frame \in frames,
         NEW S, \A n \in S : IsPath(n), NEW b
  PROVE  Longest(b, frame, Wanted(S, frames)) <=> Longest(b, frame, S)
BY FittingWanted DEF Longest

\* The loop returns the longest of the names it goes over, whatever their order.
LEMMA OrderResolves ==
  ASSUME NEW frame, IsPath(frame), NEW S, IsFiniteSet(S),
         \A n \in S : IsPath(n),
         NEW order \in [1 .. Cardinality(S) -> S], IsInjective(order)
  PROVE  Longest(ResolveTracerName(frame, order), frame, S)
<1>1. /\ Cardinality(S) \in Nat
      /\ \A x \in S : \E i \in 1 .. Cardinality(S) : order[i] = x
  BY OrderOnto
<1> QED
  BY <1>1, ResolvesLongest

\* Whatever finite set of names is stored, and in whatever order the wanted ones
\* are loaded, the loop of resolveTracerName gives a frame the longest stored
\* name that it ends with, and none when there is none (symbolicate.ts:77-104).
THEOREM ArtifactMostSpecific ==
  ASSUME NEW frame, IsPath(frame), NEW names, IsFiniteSet(names),
         \A n \in names : IsPath(n)
  PROVE  MostSpecific(frame, names)
<1> DEFINE W == Wanted(names, {frame})
<1>1. SUFFICES ASSUME NEW order \in SetToSeqs(W)
               PROVE  ResolveTracerName(frame, order)
                        = LongestSuffix(frame, names)
  BY DEF MostSpecific
<1>2. W \subseteq names /\ IsFiniteSet(W)
  <2>1. W \in SUBSET names
    BY DEF Wanted
  <2> QED
    BY <2>1, FS_Subset
<1>3. order \in [1 .. Cardinality(W) -> W] /\ IsInjective(order)
  BY DEF SetToSeqs, IsInjective
<1>4. Longest(ResolveTracerName(frame, order), frame, W)
  <2> HIDE DEF W
  <2> QED
    BY <1>2, <1>3, OrderResolves
<1>5. Longest(ResolveTracerName(frame, order), frame, names)
  BY <1>4, LongestWanted
<1>6. Longest(LongestSuffix(frame, names), frame, names)
  <2>1. Fitting(frame, names)
          = {n \in names : n # << >> /\ IsSuffix(n, frame)}
    BY DEF Fitting, Suits
  <2>2. CASE Fitting(frame, names) = {}
    BY <2>1, <2>2 DEF LongestSuffix, Longest
  <2>3. CASE Fitting(frame, names) # {}
    <3>1. \E n \in Fitting(frame, names) :
             \A m \in Fitting(frame, names) : Len(m) <= Len(n)
      BY <1>5, <2>3 DEF Longest
    <3>2. LongestSuffix(frame, names) =
            CHOOSE n \in Fitting(frame, names) :
              \A m \in Fitting(frame, names) : Len(m) <= Len(n)
      BY <2>1, <2>3 DEF LongestSuffix
    <3> QED
      BY <3>1, <3>2 DEF Longest
  <2> QED
    BY <2>2, <2>3
<1> QED
  BY <1>5, <1>6, LongestUnique

-----------------------------------------------------------------------------
(* The name that a frame of the project's events is resolved with.          *)

Frames == UNION {FramesOf[e] : e \in Events}

LEMMA TracerLongest ==
  ASSUME NEW f \in Frames, NEW U \in SUBSET Names
  PROVE  Longest(TracerName[f][U], f, U)
<1>1. IsPath(f) /\ (\A n \in U : IsPath(n)) /\ IsFiniteSet(U)
  BY ArtifactAssumption, FS_Subset DEF Frames
<1>2. TracerName[f][U] = ResolveTracerName(f, SetToSeq(U))
  BY DEF TracerName, Frames
<1> QED
  BY <1>1, <1>2, SomeOrder, OrderResolves

\* Loading only what some frames want changes nothing for these frames.
LEMMA TracerWanted ==
  ASSUME NEW f \in Frames, NEW U \in SUBSET Names, NEW V \in SUBSET Names,
         Fitting(f, U) = Fitting(f, V)
  PROVE  TracerName[f][U] = TracerName[f][V]
<1>1. Longest(TracerName[f][U], f, U) /\ Longest(TracerName[f][V], f, U)
  BY TracerLongest DEF Longest
<1>2. IsPath(f) /\ \A n \in U : IsPath(n)
  BY ArtifactAssumption DEF Frames
<1> QED
  BY <1>1, <1>2, LongestUnique

-----------------------------------------------------------------------------
(* The inductive invariant. *)

TablesOK ==
  /\ rows \subseteq Rows /\ old \subseteq rows /\ fresh \subseteq rows
  /\ content \in [MapIds -> Versions \cup {Corrupt, NoMap}]
  /\ \A m \in MapIds : MapRow(m) \in rows <=> content[m] # NoMap
  /\ \A e \in Events : <<"snapshot", e>> \in rows => Present(e)

ProjectsOK ==
  /\ \A m \in MapIds : MapRow(m) \in rows => ProjectOf[m[1]] \in projects
  /\ \A e \in Events : Present(e) => ProjectOf[ReleaseOf[e]] \in projects

EventsOK ==
  /\ arrived \subseteq Events /\ raced \subseteq Events
  /\ \A e \in Events : Present(e) => e \in arrived
  /\ trace = [e \in Events |-> trace[e]]
  /\ \A e \in Events : trace[e] # {} => Present(e)

\* What a request may be: s, p, n and o are its four fields.
ReaderIs(r, s, p, n, o) ==
  /\ r = [stage |-> s, page |-> p, names |-> n, outcomes |-> o]
  /\ s \in {"idle", "page", "named", "fill"}
  /\ p \subseteq arrived /\ n \subseteq Names
  /\ o = [e \in Events |-> o[e]]
  /\ \A e \in Events : o[e] # {} => e \in arrived
  /\ s \in {"page", "named"} => p # {}

ReaderOK(r) == ReaderIs(r, r.stage, r.page, r.names, r.outcomes)

Changes == [stage : {"changed"}, release : Releases]

RequestsOK ==
  /\ reader = [q \in Readers |-> reader[q]]
  /\ \A q \in Readers : ReaderOK(reader[q])
  /\ writer \in [Writers -> {NoWriter} \cup Changes]
  /\ writes \in Nat

PassRecords ==
  [target : 0 .. 5, doomed : SUBSET Rows, attempts : 0 .. Attempts,
   running : BOOLEAN, batch : SUBSET Rows]

WatchRecords ==
  [mustGo : SUBSET Rows, late : SUBSET Events,
   disturbed : SUBSET {Targets[i] : i \in 1 .. 4}]

PassFine(r, w, o) ==
  /\ r \in PassRecords /\ w \in WatchRecords
  /\ r.doomed \subseteq o /\ w.mustGo \subseteq o /\ r.batch \subseteq r.doomed
  /\ r.target # 0 => r.attempts \in 1 .. Attempts
  /\ IF r.running THEN r.target \in 1 .. 4 ELSE r.batch = {}

PassOK ==
  /\ pass = [p \in Executions |-> pass[p]]
  /\ watch = [p \in Executions |-> watch[p]]
  /\ \A p \in Executions : PassFine(pass[p], watch[p], old)

TInv == TablesOK /\ ProjectsOK /\ EventsOK /\ RequestsOK /\ PassOK

\* What may explain that the cache of an event is not what its maps say.
Excused(e) ==
  \/ e \in raced
  \/ \E w \in Writers : writer[w] = [stage |-> "changed",
                                     release |-> ReleaseOf[e]]

\* The events of the release that a request is at.
InGroup(q) == reader[q].page \cap EventsOf(Group(q))

CacheOK ==
  \A e \in Events : trace[e] \notin {{}, Resolved(e)} => Excused(e)

NamesOK ==
  \A q \in Readers : reader[q].stage = "named" =>
    \A e \in InGroup(q) : Present(e) =>
      \/ Excused(e)
      \/ reader[q].names =
           Wanted(MapsIn(Group(q)), UNION {FramesOf[d] : d \in InGroup(q)})

OutcomesOK ==
  \A q \in Readers : \A e \in Events :
    (reader[q].outcomes[e] # {} /\ Present(e)) =>
      Excused(e) \/ reader[q].outcomes[e] = Resolved(e)

CacheInv == CacheOK /\ NamesOK /\ OutcomesOK

\* As a DELETE of maps began their releases had no event.
LateInv ==
  \A p \in Executions : \A m \in MapIds : MapRow(m) \in pass[p].batch =>
    \A e \in EventsOf(m[1]) : Present(e) => e \in watch[p].late

\* A row that an execution may leave behind.
MayStay(p, row) ==
  \/ row[1] = "sourcemap" /\ ~ Orphan(row[2])
  \/ row[1] \in watch[p].disturbed

\* What an execution has left behind of what it has to delete.
DrainOK(p) ==
  /\ pass[p].target = 0 => watch[p].mustGo = {}
  /\ \A row \in pass[p].doomed :
       pass[p].target \in 1 .. 4 /\ row[1] = Targets[pass[p].target]
  /\ \A row \in watch[p].mustGo : row[1] \in Enabled
  /\ \A row \in watch[p].mustGo, j \in 1 .. 4 : row[1] = Targets[j] =>
       /\ j < pass[p].target => MayStay(p, row)
       /\ j = pass[p].target => row \in pass[p].doomed
       /\ (/\ j = pass[p].target /\ pass[p].running
           /\ Cardinality(pass[p].batch) < BatchSize)
            => row \in pass[p].batch \/ MayStay(p, row)

DrainInv == \A p \in Executions : DrainOK(p)

-----------------------------------------------------------------------------
(* Rows and targets. *)

LEMMA RowShape ==
  ASSUME NEW row \in Rows
  PROVE  /\ row = <<row[1], row[2]>>
         /\ \E j \in 1 .. 4 : row[1] = Targets[j]
         /\ row[1] = "sourcemap" => row[2] \in MapIds /\ row = MapRow(row[2])
         /\ row[1] # "sourcemap" => row[2] \in Events
<1>1. ASSUME NEW kind \in {"replay", "snapshot", "event"},
             row \in EventRows(kind)
      PROVE  /\ row = <<row[1], row[2]>> /\ row[1] = kind /\ row[2] \in Events
             /\ \E j \in 1 .. 4 : row[1] = Targets[j]
  BY <1>1 DEF EventRows, Targets
<1>2. ASSUME NEW m \in MapIds, row = MapRow(m)
      PROVE  /\ row = <<row[1], row[2]>> /\ row[1] = "sourcemap"
             /\ row[2] \in MapIds /\ row = MapRow(row[2])
             /\ \E j \in 1 .. 4 : row[1] = Targets[j]
  BY <1>2 DEF MapRow, Targets
<1> QED
  BY <1>1, <1>2 DEF Rows

LEMMA RowsIn ==
  /\ \A e \in Events : {<<"event", e>>, <<"snapshot", e>>, <<"replay", e>>}
                         \subseteq Rows
  /\ \A m \in MapIds : MapRow(m) \in Rows
BY DEF Rows, EventRows

LEMMA NextTarget ==
  ASSUME NEW i \in 1 .. 5
  PROVE  /\ TargetFrom(i) \in i .. 5
         /\ \A j \in i .. 4 : j < TargetFrom(i) => Targets[j] \notin Enabled
<1> DEFINE on == {j \in i .. 4 : Targets[j] \in Enabled}
<1>1. CASE on = {}
  BY <1>1 DEF TargetFrom
<1>2. CASE on # {}
  <2>1. \E j \in on : \A k \in on : j <= k
    BY <1>2, LeastOf
  <2>2. TargetFrom(i) = CHOOSE j \in on : \A k \in on : j <= k
    BY <1>2 DEF TargetFrom
  <2>3. TargetFrom(i) \in on /\ \A k \in on : TargetFrom(i) <= k
    BY <2>1, <2>2
  <2> QED
    BY <2>3
<1> QED
  BY <1>1, <1>2

-----------------------------------------------------------------------------
(* Types. *)

LEMMA TypesBegin ==
  ASSUME Init PROVE TInv
<1>1. rows \subseteq Rows
  BY RowsIn DEF Init
<1>2. \A e \in Events : /\ <<"snapshot", e>> \notin rows
                        /\ <<"event", e>> \notin rows
  BY DEF Init, MapRow
<1>3. \A m \in MapIds : MapRow(m) \in rows <=> content[m] # NoMap
  BY DEF Init, MapRow
<1>4. TablesOK
  BY <1>1, <1>2, <1>3 DEF Init, TablesOK
<1>5. ProjectsOK
  BY <1>2 DEF Init, ProjectsOK, Present, Projects, MapIds
<1>6. EventsOK
  BY <1>2 DEF Init, EventsOK, Present, NoOutcome
<1>7. RequestsOK
  <2>1. ReaderOK(NoReader)
    BY DEF ReaderOK, ReaderIs, NoReader, NoOutcome
  <2>2. writes \in Nat
    BY ArtifactAssumption DEF Init
  <2> QED
    BY <2>1, <2>2 DEF Init, RequestsOK
<1>8. PassOK
  <2>1. PassFine(NoPass, NoWatch, old)
    BY ArtifactAssumption DEF PassFine, NoPass, NoWatch, PassRecords,
                              WatchRecords
  <2> QED
    BY <2>1 DEF Init, PassOK
<1> QED
  BY <1>4, <1>5, <1>6, <1>7, <1>8 DEF TInv

\* Requests and executions that are left alone.
LEMMA ReadersKept ==
  ASSUME TInv, reader' = reader, arrived \subseteq arrived'
  PROVE  /\ reader' = [q \in Readers |-> reader'[q]]
         /\ \A q \in Readers : ReaderOK(reader[q])'
<1>1. ASSUME NEW q \in Readers PROVE ReaderOK(reader[q])'
  BY <1>1 DEF TInv, RequestsOK, ReaderOK, ReaderIs
<1> QED
  BY <1>1 DEF TInv, RequestsOK

LEMMA PassKept ==
  ASSUME TInv, UNCHANGED <<pass, watch>>, old \subseteq old' PROVE PassOK'
<1>1. ASSUME NEW p \in Executions PROVE PassFine(pass[p], watch[p], old)'
  BY <1>1 DEF TInv, PassOK, PassFine
<1> QED
  BY <1>1 DEF TInv, PassOK

LEMMA ExecutionKinds ==
  ASSUME TInv, NEW p \in Executions
  PROVE  /\ pass[p] \in PassRecords /\ watch[p] \in WatchRecords
         /\ PassFine(pass[p], watch[p], old)
BY DEF TInv, PassOK, PassFine

\* Rows that may arrive.
LEMMA TypesAdd ==
  ASSUME TInv, NEW e \in Events,
         AddEvent(e) \/ (e \in WithReplay /\ PutReplay(e))
  PROVE  TInv'
<1>1. PICK kinds \in SUBSET {"event", "snapshot", "replay"} :
        /\ rows' = rows \cup {<<kind, e>> : kind \in kinds}
        /\ "snapshot" \in kinds => "event" \in kinds
        /\ \/ /\ arrived' = arrived \cup {e}
              /\ ProjectOf[ReleaseOf[e]] \in projects
           \/ arrived' = arrived /\ "event" \notin kinds
  <2>1. CASE AddEvent(e)
    BY <2>1 DEF AddEvent
  <2>2. CASE PutReplay(e)
    <3> DEFINE K == {"replay"}
    <3>1. rows' = rows \cup {<<kind, e>> : kind \in K} /\ arrived' = arrived
      BY <2>2 DEF PutReplay
    <3>2. /\ K \in SUBSET {"event", "snapshot", "replay"}
          /\ "snapshot" \notin K /\ "event" \notin K
      OBVIOUS
    <3> HIDE DEF K
    <3> QED
      BY <3>1, <3>2
  <2> QED
    BY <2>1, <2>2
<1>2. UNCHANGED <<old, fresh, projects, content, trace, reader, writer, pass,
                  raced>>
  BY DEF AddEvent, PutReplay
<1>3. {<<kind, e>> : kind \in kinds} \subseteq Rows
  BY RowsIn
<1>4. \A m \in MapIds : MapRow(m) \in rows' <=> MapRow(m) \in rows
  BY <1>1 DEF MapRow
<1>5. \A d \in Events :
        /\ <<"snapshot", d>> \in rows' =>
             <<"snapshot", d>> \in rows \/ (d = e /\ "snapshot" \in kinds)
        /\ Present(d) => Present(d)'
        /\ Present(d)' => \/ Present(d)
                          \/ d \in arrived' /\ ProjectOf[ReleaseOf[d]] \in projects
        /\ d = e /\ "event" \in kinds => Present(d)'
  BY <1>1 DEF Present
<1>6. TablesOK'
  <2>1. rows' \subseteq Rows /\ old' \subseteq rows' /\ fresh' \subseteq rows'
    BY <1>1, <1>2, <1>3 DEF TInv, TablesOK
  <2>2. \A d \in Events : <<"snapshot", d>> \in rows' => Present(d)'
    BY <1>1, <1>5 DEF TInv, TablesOK
  <2> QED
    BY <1>2, <1>4, <2>1, <2>2 DEF TInv, TablesOK
<1>7. ProjectsOK'
  BY <1>2, <1>4, <1>5 DEF TInv, ProjectsOK
<1>8. EventsOK'
  <2>1. arrived' \subseteq Events /\ arrived \subseteq arrived'
    BY <1>1 DEF TInv, EventsOK
  <2> QED
    BY <1>2, <1>5, <2>1 DEF TInv, EventsOK
<1>9. RequestsOK'
  <2>1. arrived \subseteq arrived'
    BY <1>1
  <2>2. writes' \in Nat
    BY DEF AddEvent, PutReplay, TInv, RequestsOK
  <2> QED
    BY <1>2, <2>1, <2>2, ReadersKept DEF TInv, RequestsOK
<1>10. PassOK'
  <2>1. CASE PutReplay(e)
    BY <1>2, <2>1, PassKept DEF PutReplay
  <2>2. CASE AddEvent(e)
    <3>1. watch' = [p \in Executions |-> [watch[p] EXCEPT
                  !.late = IF pass[p].running THEN @ \cup {e} ELSE @]]
      BY <2>2 DEF AddEvent
    <3>2. ASSUME NEW p \in Executions
          PROVE  PassFine(pass'[p], watch'[p], old')
      <4>1. /\ watch'[p] \in WatchRecords
            /\ watch'[p].mustGo = watch[p].mustGo
        BY <3>1, ExecutionKinds DEF WatchRecords
      <4> QED
        BY <1>2, <4>1, ExecutionKinds DEF PassFine
    <3> QED
      BY <1>2, <3>1, <3>2 DEF TInv, PassOK
  <2> QED
    BY <2>1, <2>2
<1> QED
  BY <1>6, <1>7, <1>8, <1>9, <1>10 DEF TInv

\* Rows are deleted, with an event its snapshot.
LEMMA TypesGone ==
  ASSUME TInv, NEW gone, Delete(gone), arrived' = arrived,
         raced' \subseteq Events,
         \A e \in Events : <<"event", e>> \in gone /\ <<"snapshot", e>> \in rows
                             => <<"snapshot", e>> \in gone
  PROVE  /\ TablesOK' /\ EventsOK'
         /\ \A e \in Events :
              Present(e)' <=> Present(e) /\ <<"event", e>> \notin gone
         /\ projects' = projects => ProjectsOK'
<1>1. /\ rows' = rows \ gone /\ old' = old \ gone /\ fresh' = fresh \ gone
      /\ content' = [m \in MapIds |->
                       IF MapRow(m) \in gone THEN NoMap ELSE content[m]]
      /\ trace' = [e \in Events |->
                     IF <<"event", e>> \in gone THEN {} ELSE trace[e]]
  BY DEF Delete
<1>2. \A e \in Events :
        Present(e)' <=> Present(e) /\ <<"event", e>> \notin gone
  BY <1>1 DEF Present
<1>3. TablesOK'
  <2>1. rows' \subseteq Rows /\ old' \subseteq rows' /\ fresh' \subseteq rows'
    BY <1>1 DEF TInv, TablesOK
  <2>2. content' \in [MapIds -> Versions \cup {Corrupt, NoMap}]
    BY <1>1 DEF TInv, TablesOK
  <2>3. \A m \in MapIds : MapRow(m) \in rows' <=> content'[m] # NoMap
    BY <1>1 DEF TInv, TablesOK
  <2>4. \A e \in Events : <<"snapshot", e>> \in rows' => Present(e)'
    BY <1>1, <1>2 DEF TInv, TablesOK
  <2> QED
    BY <2>1, <2>2, <2>3, <2>4 DEF TablesOK
<1>4. EventsOK'
  <2>1. \A e \in Events : trace'[e] # {} =>
           trace[e] # {} /\ <<"event", e>> \notin gone
    BY <1>1
  <2>2. \A e \in Events : trace'[e] # {} => Present(e)'
    BY <1>2, <2>1 DEF TInv, EventsOK
  <2> QED
    BY <1>1, <1>2, <2>2 DEF TInv, EventsOK
<1>5. ASSUME projects' = projects PROVE ProjectsOK'
  BY <1>1, <1>2, <1>5 DEF TInv, ProjectsOK
<1> QED
  BY <1>2, <1>3, <1>4, <1>5

\* What is left of the executions when somebody else deletes these rows.
LEMMA Bereft ==
  ASSUME TInv, NEW gone, gone \subseteq rows, NEW p \in Executions
  PROVE  /\ PassFine(Without(gone)[p], Watched(gone)[p], old \ gone)
         /\ Without(gone)[p].target = pass[p].target
         /\ Without(gone)[p].attempts = pass[p].attempts
         /\ Without(gone)[p].running = pass[p].running
         /\ Without(gone)[p].doomed = pass[p].doomed \ gone
         /\ Without(gone)[p].batch = pass[p].batch \ gone
         /\ Watched(gone)[p].mustGo = watch[p].mustGo \ gone
         /\ Watched(gone)[p].late = watch[p].late
         /\ Watched(gone)[p].disturbed =
              watch[p].disturbed \cup Disturbed(p, gone)
<1>1. /\ pass[p] \in PassRecords /\ watch[p] \in WatchRecords
      /\ PassFine(pass[p], watch[p], old)
  BY ExecutionKinds
<1>2. Disturbed(p, gone) \subseteq {Targets[i] : i \in 1 .. 4}
  <2>1. \A row \in gone : \E j \in 1 .. 4 : row[1] = Targets[j]
    BY RowShape DEF TInv, TablesOK
  <2>2. "sourcemap" \in {Targets[i] : i \in 1 .. 4}
    BY DEF Targets
  <2> QED
    BY <2>1, <2>2 DEF Disturbed
<1>3. /\ Without(gone)[p] =
           [pass[p] EXCEPT !.doomed = @ \ gone, !.batch = @ \ gone]
      /\ Watched(gone)[p] =
           [watch[p] EXCEPT !.mustGo = @ \ gone,
                            !.disturbed = @ \cup Disturbed(p, gone)]
  BY DEF Without, Watched
<1>4. /\ Without(gone)[p] \in PassRecords
      /\ Without(gone)[p].target = pass[p].target
      /\ Without(gone)[p].attempts = pass[p].attempts
      /\ Without(gone)[p].running = pass[p].running
      /\ Without(gone)[p].doomed = pass[p].doomed \ gone
      /\ Without(gone)[p].batch = pass[p].batch \ gone
  BY <1>1, <1>3 DEF PassRecords
<1>5. /\ Watched(gone)[p] \in WatchRecords
      /\ Watched(gone)[p].mustGo = watch[p].mustGo \ gone
      /\ Watched(gone)[p].late = watch[p].late
      /\ Watched(gone)[p].disturbed =
              watch[p].disturbed \cup Disturbed(p, gone)
  BY <1>1, <1>2, <1>3 DEF WatchRecords
<1> HIDE DEF Without, Watched
<1>6. PassFine(Without(gone)[p], Watched(gone)[p], old \ gone)
  BY <1>1, <1>4, <1>5 DEF PassFine
<1> QED
  BY <1>4, <1>5, <1>6

LEMMA BereftAll ==
  ASSUME TInv, NEW gone, gone \subseteq rows, old' = old \ gone,
         pass' = Without(gone), watch' = Watched(gone)
  PROVE  PassOK'
<1>1. \A p \in Executions : PassFine(pass'[p], watch'[p], old')
  BY Bereft
<1>2. /\ pass' = [p \in Executions |-> pass'[p]]
      /\ watch' = [p \in Executions |-> watch'[p]]
  BY DEF Without, Watched
<1> QED
  BY <1>1, <1>2 DEF PassOK

LEMMA Cascade ==
  ASSUME NEW batch
  PROVE  /\ batch \subseteq WithCascade(batch)
         /\ batch \subseteq rows => WithCascade(batch) \subseteq rows
         /\ \A e \in Events : <<"event", e>> \in WithCascade(batch) <=>
              <<"event", e>> \in batch
         /\ \A e \in Events :
              <<"event", e>> \in WithCascade(batch) /\ <<"snapshot", e>> \in rows
                => <<"snapshot", e>> \in WithCascade(batch)
         /\ \A m \in MapIds : MapRow(m) \in WithCascade(batch) <=>
              MapRow(m) \in batch
<1>1. \A m \in MapIds : MapRow(m) \in WithCascade(batch) <=> MapRow(m) \in batch
  BY DEF WithCascade, MapRow
<1>2. \A e \in Events : <<"event", e>> \in WithCascade(batch) <=>
        <<"event", e>> \in batch
  BY DEF WithCascade
<1>3. \A e \in Events :
        <<"event", e>> \in batch /\ <<"snapshot", e>> \in rows
          => <<"snapshot", e>> \in WithCascade(batch)
  BY DEF WithCascade
<1> QED
  BY <1>1, <1>2, <1>3 DEF WithCascade

\* What deleteProject deletes.
LEMMA ProjectGone ==
  ASSUME TInv, NEW t, NEW gone, gone = WithCascade(rows \cap RowsOf(t))
  PROVE  /\ gone \subseteq rows
         /\ \A e \in Events : <<"event", e>> \in gone <=>
              Present(e) /\ ProjectOf[ReleaseOf[e]] = t
         /\ \A m \in MapIds : MapRow(m) \in gone <=>
              MapRow(m) \in rows /\ ProjectOf[m[1]] = t
<1>1. \A e \in Events : <<"event", e>> \in RowsOf(t) <=>
        ProjectOf[ReleaseOf[e]] = t
  BY DEF RowsOf, MapRow
<1>2. \A m \in MapIds : MapRow(m) \in RowsOf(t) <=> ProjectOf[m[1]] = t
  BY DEF RowsOf, MapRow
<1> QED
  BY <1>1, <1>2, Cascade DEF Present

LEMMA TypesProject ==
  ASSUME TInv, NEW t, DeleteProject(t) PROVE TInv'
<1> DEFINE gone == WithCascade(rows \cap RowsOf(t))
<1>1. /\ projects' = projects \ {t} /\ Delete(gone)
      /\ pass' = Without(gone) /\ watch' = Watched(gone)
      /\ raced' = {e \in raced : <<"event", e>> \notin gone}
      /\ UNCHANGED <<reader, writer, arrived, writes>>
  BY DEF DeleteProject
<1>2. /\ gone \subseteq rows
      /\ \A e \in Events : <<"event", e>> \in gone <=>
              Present(e) /\ ProjectOf[ReleaseOf[e]] = t
      /\ \A m \in MapIds : MapRow(m) \in gone <=>
              MapRow(m) \in rows /\ ProjectOf[m[1]] = t
  BY ProjectGone
<1>3. \A e \in Events : <<"event", e>> \in gone /\ <<"snapshot", e>> \in rows
                          => <<"snapshot", e>> \in gone
  BY Cascade
<1> HIDE DEF gone
<1>4. raced' \subseteq Events
  BY <1>1 DEF TInv, EventsOK
<1>5. /\ TablesOK' /\ EventsOK'
      /\ \A e \in Events :
           Present(e)' <=> Present(e) /\ <<"event", e>> \notin gone
  BY <1>1, <1>3, <1>4, TypesGone
<1>6. rows' = rows \ gone /\ old' = old \ gone
  BY <1>1 DEF Delete
<1>7. ProjectsOK'
  BY <1>1, <1>2, <1>5, <1>6 DEF TInv, ProjectsOK
<1>8. RequestsOK'
  BY <1>1, ReadersKept DEF TInv, RequestsOK
<1>9. PassOK'
  BY <1>1, <1>2, <1>6, BereftAll
<1> QED
  BY <1>5, <1>7, <1>8, <1>9 DEF TInv

\* Uploads and deletions.
LEMMA TypesWrite ==
  ASSUME TInv, NEW w \in Writers,
         \/ \E m \in MapIds, data \in Versions \cup {Corrupt} :
              UploadSourceMap(w, m, data)
         \/ \E r \in Releases, names \in {{n} : n \in Names} \cup {Names} :
              DeleteSourceMaps(w, r, names)
         \/ Invalidate(w) \/ FailWrite(w)
  PROVE  TInv'
<1>1. \A r : EventsOf(r) \subseteq Events /\ Overtaken(r) \subseteq Events
  BY DEF Overtaken, EventsOf
<1>2. ASSUME NEW m \in MapIds, NEW data \in Versions \cup {Corrupt},
             UploadSourceMap(w, m, data)
      PROVE  TInv'
  <2>1. /\ rows' = rows \cup {MapRow(m)} /\ fresh' = fresh \cup {MapRow(m)}
        /\ content' = [content EXCEPT ![m] = data]
        /\ raced' = raced \cup Overtaken(m[1])
        /\ ProjectOf[m[1]] \in projects
        /\ UNCHANGED <<old, projects, trace, reader, pass, arrived, watch>>
    BY <1>2 DEF UploadSourceMap
  <2>2. /\ writes' = writes + 1
        /\ writer' = [writer EXCEPT ![w] =
                        [stage |-> "changed", release |-> m[1]]]
    BY <1>2 DEF UploadSourceMap, BeginWrite
  <2>3. \A e \in Events : /\ Present(e)' <=> Present(e)
                          /\ <<"snapshot", e>> \in rows' <=>
                               <<"snapshot", e>> \in rows
    BY <2>1 DEF Present, MapRow
  <2>4. \A k \in MapIds : MapRow(k) \in rows' <=> MapRow(k) \in rows \/ k = m
    BY <2>1 DEF MapRow
  <2>5. data # NoMap
    BY ArtifactAssumption
  <2>6. TablesOK'
    <3>1. content' \in [MapIds -> Versions \cup {Corrupt, NoMap}]
      BY <2>1 DEF TInv, TablesOK
    <3>2. \A k \in MapIds : MapRow(k) \in rows' <=> content'[k] # NoMap
      BY <2>1, <2>4, <2>5 DEF TInv, TablesOK
    <3>3. rows' \subseteq Rows
      BY <2>1, RowsIn DEF TInv, TablesOK
    <3> QED
      BY <2>1, <2>3, <3>1, <3>2, <3>3 DEF TInv, TablesOK
  <2>7. ProjectsOK'
    BY <2>1, <2>3, <2>4 DEF TInv, ProjectsOK
  <2>8. EventsOK'
    BY <1>1, <2>1, <2>3 DEF TInv, EventsOK
  <2>9. RequestsOK'
    <3>1. m[1] \in Releases
      BY DEF MapIds
    <3> QED
      BY <2>1, <2>2, <3>1, ReadersKept DEF TInv, RequestsOK, Changes
  <2>10. PassOK'
    BY <2>1, PassKept
  <2> QED
    BY <2>6, <2>7, <2>8, <2>9, <2>10 DEF TInv
<1>3. ASSUME NEW r \in Releases, NEW names \in {{n} : n \in Names} \cup {Names},
             DeleteSourceMaps(w, r, names)
      PROVE  TInv'
  <2> DEFINE gone == {MapRow(<<r, n>>) : n \in names \cap MapsIn(r)}
  <2>1. /\ Delete(gone) /\ pass' = Without(gone) /\ watch' = Watched(gone)
        /\ raced' \subseteq raced \cup Overtaken(r)
        /\ UNCHANGED <<projects, reader, arrived>>
    BY <1>3 DEF DeleteSourceMaps
  <2>2. /\ writes' = writes + 1
        /\ writer' \in {[writer EXCEPT ![w] = NoWriter],
                         [writer EXCEPT ![w] =
                            [stage |-> "changed", release |-> r]]}
    BY <1>3 DEF DeleteSourceMaps, BeginWrite
  <2>3. \A e \in Events : <<"event", e>> \notin gone
    BY DEF MapRow
  <2>4. gone \subseteq rows
    <3>1. \A n \in MapsIn(r) : <<r, n>> \in MapIds /\ content[<<r, n>>] # NoMap
      BY DEF MapsIn, MapIds
    <3> QED
      BY <3>1 DEF TInv, TablesOK
  <2> HIDE DEF gone
  <2>5. TablesOK' /\ EventsOK' /\ ProjectsOK'
    <3>1. raced' \subseteq Events
      BY <1>1, <2>1 DEF TInv, EventsOK
    <3> QED
      BY <2>1, <2>3, <3>1, TypesGone
  <2>6. RequestsOK'
    BY <2>1, <2>2, ReadersKept DEF TInv, RequestsOK, Changes
  <2>7. PassOK'
    BY <2>1, <2>4, BereftAll DEF Delete
  <2> QED
    BY <2>5, <2>6, <2>7 DEF TInv
<1>4. CASE Invalidate(w) \/ FailWrite(w)
  <2>1. /\ UNCHANGED <<rows, old, fresh, projects, content, reader, pass,
                       arrived, writes, watch>>
        /\ writer' = [writer EXCEPT ![w] = NoWriter]
        /\ raced' \subseteq Events
    BY <1>1, <1>4 DEF Invalidate, FailWrite, TInv, EventsOK
  <2>2. /\ trace' = [e \in Events |-> trace'[e]]
        /\ \A e \in Events : trace'[e] \in {trace[e], {}}
    BY <1>4 DEF Invalidate, FailWrite, Invalidated, TInv, EventsOK
  <2>3. TablesOK' /\ ProjectsOK'
    BY <2>1 DEF TInv, TablesOK, ProjectsOK, Present
  <2>4. EventsOK'
    BY <2>1, <2>2 DEF TInv, EventsOK, Present
  <2>5. RequestsOK'
    BY <2>1, ReadersKept DEF TInv, RequestsOK
  <2>6. PassOK'
    BY <2>1, PassKept
  <2> QED
    BY <2>3, <2>4, <2>5, <2>6 DEF TInv
<1> QED
  BY <1>2, <1>3, <1>4

\* What a request may be after a statement of it.
LEMMA ReadingOK ==
  ASSUME NEW page, page \subseteq arrived, NEW o, o = [e \in Events |-> o[e]],
         \A e \in Events : o[e] # {} => e \in arrived
  PROVE  ReaderOK(Reading(page, o))
BY DEF ReaderOK, ReaderIs, Reading

LEMMA NamedOK ==
  ASSUME NEW r, ReaderOK(r), r.page # {}, NEW N, N \subseteq Names
  PROVE  ReaderOK([stage |-> "named", page |-> r.page,
                   outcomes |-> r.outcomes, names |-> N])
BY DEF ReaderOK, ReaderIs

\* What the statements of a request for a page of events change.
LEMMA ReaderStep ==
  ASSUME TInv, NEW q \in Readers,
         \/ \E page \in SUBSET Events : ListIssueEvents(q, page)
         \/ ReadNames(q) \/ ReadData(q)
         \/ \E e \in Events : FillCache(q, e)
  PROVE  /\ UNCHANGED <<rows, old, fresh, projects, content, writer, pass,
                        arrived, writes, raced, watch>>
         /\ reader' = [reader EXCEPT ![q] = reader'[q]]
         /\ ReaderOK(reader'[q])
<1>1. /\ UNCHANGED <<rows, old, fresh, projects, content, writer, pass,
                     arrived, writes, raced, watch>>
      /\ reader' = [reader EXCEPT ![q] = reader'[q]]
  BY DEF ListIssueEvents, ReadNames, ReadData, FillCache, TInv, RequestsOK
<1>2. /\ ReaderOK(reader[q])
      /\ \A e \in Events : Present(e) => e \in arrived
  BY DEF TInv, RequestsOK, EventsOK
<1>3. ASSUME NEW page \in SUBSET Events, ListIssueEvents(q, page)
      PROVE  ReaderOK(reader'[q])
  <2> DEFINE uncached == {e \in page : trace[e] = {}}
  <2>1. reader'[q] = Reading(uncached, NoOutcome)
    BY <1>3 DEF ListIssueEvents, TInv, RequestsOK
  <2>2. uncached \subseteq arrived
    BY <1>2, <1>3 DEF ListIssueEvents
  <2>3. /\ NoOutcome = [e \in Events |-> NoOutcome[e]]
        /\ \A e \in Events : NoOutcome[e] = {}
    BY DEF NoOutcome
  <2> HIDE DEF uncached
  <2> QED
    BY <2>1, <2>2, <2>3, ReadingOK
<1>4. ASSUME ReadNames(q) PROVE ReaderOK(reader'[q])
  <2> DEFINE N == Wanted(MapsIn(Group(q)),
                   UNION {FramesOf[e] :
                            e \in reader[q].page \cap EventsOf(Group(q))})
  <2>1. /\ reader[q].stage = "page"
        /\ reader'[q] = [stage |-> "named", page |-> reader[q].page,
                         outcomes |-> reader[q].outcomes, names |-> N]
    BY <1>4 DEF ReadNames, TInv, RequestsOK
  <2>2. N \subseteq Names
    BY DEF Wanted, MapsIn
  <2> HIDE DEF N
  <2>3. reader[q].page # {}
    BY <1>2, <2>1 DEF ReaderOK, ReaderIs
  <2> QED
    BY <1>2, <2>1, <2>2, <2>3, NamedOK
<1>5. ASSUME ReadData(q) PROVE ReaderOK(reader'[q])
  <2>1. PICK o : /\ reader'[q] = Reading(reader[q].page \ EventsOf(Group(q)), o)
                 /\ o = [e \in Events |-> o[e]]
                 /\ \A e \in Events : \/ e \in reader[q].page
                                      \/ o[e] = reader[q].outcomes[e]
    <3> DEFINE loaded == [n \in reader[q].names \cap MapsIn(Group(q)) |->
                            content[<<Group(q), n>>]]
               o == [e \in Events |->
                       IF e \in reader[q].page \cap EventsOf(Group(q))
                       THEN SymbolicateFrames(e, loaded)
                       ELSE reader[q].outcomes[e]]
    <3>1. reader'[q] = Reading(reader[q].page \ EventsOf(Group(q)), o)
      BY <1>5 DEF ReadData, TInv, RequestsOK
    <3>2. /\ o = [e \in Events |-> o[e]]
          /\ \A e \in Events : \/ e \in reader[q].page
                               \/ o[e] = reader[q].outcomes[e]
      OBVIOUS
    <3> HIDE DEF o
    <3> QED
      BY <3>1, <3>2
  <2>2. \A e \in Events : o[e] # {} => e \in arrived
    BY <1>2, <2>1 DEF ReaderOK, ReaderIs
  <2>3. reader[q].page \ EventsOf(Group(q)) \subseteq arrived
    BY <1>2 DEF ReaderOK, ReaderIs
  <2>4. o = [e \in Events |-> o[e]]
    BY <2>1
  <2>5. ReaderOK(Reading(reader[q].page \ EventsOf(Group(q)), o))
    BY <2>2, <2>3, <2>4, ReadingOK
  <2> QED
    BY <2>1, <2>5
<1>6. ASSUME NEW e \in Events, FillCache(q, e) PROVE ReaderOK(reader'[q])
  <2> DEFINE o == [reader[q].outcomes EXCEPT ![e] = {}]
  <2>1. reader'[q] = Reading({}, o)
    BY <1>6 DEF FillCache, TInv, RequestsOK
  <2>2. reader[q].outcomes = [d \in Events |-> reader[q].outcomes[d]]
    BY <1>2 DEF ReaderOK, ReaderIs
  <2>3. /\ o = [d \in Events |-> o[d]]
        /\ \A d \in Events : o[d] # {} => reader[q].outcomes[d] # {}
    BY <2>2
  <2>4. \A d \in Events : o[d] # {} => d \in arrived
    BY <1>2, <2>3 DEF ReaderOK, ReaderIs
  <2> HIDE DEF o
  <2> QED
    BY <2>1, <2>3, <2>4, ReadingOK
<1>7. ReaderOK(reader'[q])
  BY <1>3, <1>4, <1>5, <1>6
<1> QED
  BY <1>1, <1>7

LEMMA TypesRead ==
  ASSUME TInv, NEW q \in Readers,
         \/ \E page \in SUBSET Events : ListIssueEvents(q, page)
         \/ ReadNames(q) \/ ReadData(q)
         \/ \E e \in Events : FillCache(q, e)
  PROVE  TInv'
<1>1. /\ UNCHANGED <<rows, old, fresh, projects, content, writer, pass,
                        arrived, writes, raced, watch>>
      /\ reader' = [reader EXCEPT ![q] = reader'[q]] /\ ReaderOK(reader'[q])
  BY ReaderStep
<1>2. TablesOK' /\ ProjectsOK'
  BY <1>1 DEF TInv, TablesOK, ProjectsOK, Present
<1>3. EventsOK'
  <2>1. /\ trace' = [e \in Events |-> trace'[e]]
        /\ \A e \in Events : trace'[e] # trace[e] => Present(e)
    BY DEF ListIssueEvents, ReadNames, ReadData, FillCache, TInv, EventsOK
  <2> QED
    BY <1>1, <2>1 DEF TInv, EventsOK, Present
<1>4. RequestsOK'
  <2>1. reader' = [p \in Readers |-> reader'[p]]
        /\ \A p \in Readers : p # q => reader'[p] = reader[p]
    BY <1>1 DEF TInv, RequestsOK
  <2>2. \A p \in Readers : ReaderOK(reader'[p])
    BY <1>1, <2>1 DEF TInv, RequestsOK
  <2>3. \A p \in Readers : ReaderOK(reader[p])'
    BY <1>1, <2>2 DEF ReaderOK, ReaderIs
  <2> QED
    BY <1>1, <2>1, <2>3 DEF TInv, RequestsOK
<1>5. PassOK'
  BY <1>1, PassKept
<1> QED
  BY <1>2, <1>3, <1>4, <1>5 DEF TInv

\* A target begins with what is old of its kind.
LEMMA TargetTypes ==
  ASSUME NEW i \in 1 .. 5, NEW o \in SUBSET Rows,
         NEW attempts \in 1 .. Attempts,
         NEW w \in WatchRecords, w.mustGo \subseteq o
  PROVE  /\ AtTarget(i, o, attempts) \in PassRecords
         /\ PassFine(AtTarget(i, o, attempts), w, o)
         /\ AtTarget(i, o, attempts).target = i
         /\ AtTarget(i, o, attempts).running = FALSE
         /\ AtTarget(i, o, attempts).batch = {}
         /\ AtTarget(i, o, attempts).doomed =
              IF i = 5 THEN {} ELSE {row \in o : row[1] = Targets[i]}
         /\ AtTarget(i, o, attempts) # NoPass
<1>1. AtTarget(i, o, attempts) \in PassRecords
  BY ArtifactAssumption DEF AtTarget, PassRecords
<1> QED
  BY <1>1 DEF AtTarget, NoPass, PassFine

\* What a batch is when its DELETE commits, and what that leaves.
LEMMA BatchStep ==
  ASSUME TInv, NEW p \in Executions, DeleteBatch(p), NEW gone,
         gone = WithCascade(pass[p].batch)
  PROVE  /\ pass[p].running /\ pass[p].target \in 1 .. 4
         /\ pass[p].batch \subseteq gone /\ gone \subseteq rows
         /\ Delete(gone)
         /\ \A x \in Executions : x # p =>
              pass'[x] = Without(gone)[x] /\ watch'[x] = Watched(gone)[x]
         /\ pass'[p].running = FALSE /\ pass'[p].batch = {}
         /\ watch'[p].mustGo = watch[p].mustGo \ gone
         /\ watch'[p].disturbed = watch[p].disturbed
         /\ IF Drained(Cardinality(pass[p].batch))
            THEN pass'[p] = AtTarget(TargetFrom(pass[p].target + 1), old',
                                     pass[p].attempts)
            ELSE /\ pass'[p].target = pass[p].target
                 /\ pass'[p].doomed = pass[p].doomed \ gone
         /\ PassOK'
<1>1. /\ pass[p].running /\ Delete(gone)
      /\ pass' = [Without(gone) EXCEPT ![p] =
                   IF Drained(Cardinality(pass[p].batch))
                   THEN AtTarget(TargetFrom(pass[p].target + 1), old \ gone,
                                 @.attempts)
                   ELSE [@ EXCEPT !.running = FALSE]]
      /\ watch' = [Watched(gone) EXCEPT ![p].disturbed = watch[p].disturbed]
  BY DEF DeleteBatch
<1>2. /\ PassFine(pass[p], watch[p], old) /\ pass[p].target \in 1 .. 4
      /\ pass[p].batch \subseteq pass[p].doomed /\ pass[p].doomed \subseteq old
  BY <1>1, ExecutionKinds DEF PassFine
<1>3. pass[p].batch \subseteq gone /\ gone \subseteq rows
  BY <1>2, Cascade DEF TInv, TablesOK
<1>4. /\ Without(gone) = [x \in Executions |-> Without(gone)[x]]
      /\ Watched(gone) = [x \in Executions |-> Watched(gone)[x]]
  BY DEF Without, Watched
<1>5. \A x \in Executions : x # p =>
        pass'[x] = Without(gone)[x] /\ watch'[x] = Watched(gone)[x]
  BY <1>1, <1>4
<1>6. /\ PassFine(Without(gone)[p], Watched(gone)[p], old \ gone)
      /\ Without(gone)[p].target = pass[p].target
      /\ Without(gone)[p].attempts = pass[p].attempts
      /\ Without(gone)[p].doomed = pass[p].doomed \ gone
      /\ Without(gone)[p].batch = pass[p].batch \ gone
      /\ Watched(gone)[p].mustGo = watch[p].mustGo \ gone
  <2>1. ASSUME NEW g, g \subseteq rows
        PROVE  PassFine(Without(g)[p], Watched(g)[p], old \ g)
    BY <2>1, Bereft
  <2>2. ASSUME NEW g, g \subseteq rows
        PROVE  /\ Without(g)[p].batch = pass[p].batch \ g
               /\ Watched(g)[p].mustGo = watch[p].mustGo \ g
    BY <2>2, Bereft
  <2>3. /\ Without(gone)[p].target = pass[p].target
        /\ Without(gone)[p].attempts = pass[p].attempts
        /\ Without(gone)[p].doomed = pass[p].doomed \ gone
    BY ExecutionKinds DEF Without, PassRecords
  <2> QED
    BY <1>3, <2>1, <2>2, <2>3
<1>7. /\ watch'[p] = [Watched(gone)[p] EXCEPT !.disturbed = watch[p].disturbed]
      /\ watch[p] \in WatchRecords
  BY <1>1, <1>4, ExecutionKinds
<1>8. /\ watch'[p] \in WatchRecords
      /\ watch'[p].mustGo = watch[p].mustGo \ gone
      /\ watch'[p].disturbed = watch[p].disturbed
  BY <1>6, <1>7 DEF PassFine, WatchRecords
<1>9. pass'[p] = IF Drained(Cardinality(pass[p].batch))
                 THEN AtTarget(TargetFrom(pass[p].target + 1), old \ gone,
                               pass[p].attempts)
                 ELSE [Without(gone)[p] EXCEPT !.running = FALSE]
  BY <1>1, <1>4, <1>6
<1>10. old' = old \ gone
  BY <1>1 DEF Delete
<1> HIDE DEF Without, Watched
<1>11. /\ pass'[p].running = FALSE /\ pass'[p].batch = {}
       /\ PassFine(pass'[p], watch'[p], old')
       /\ ~ Drained(Cardinality(pass[p].batch)) =>
            /\ pass'[p].target = pass[p].target
            /\ pass'[p].doomed = pass[p].doomed \ gone
  <2>1. CASE Drained(Cardinality(pass[p].batch))
    <3>1. /\ TargetFrom(pass[p].target + 1) \in 1 .. 5
          /\ pass[p].attempts \in 1 .. Attempts
      BY <1>2, NextTarget DEF PassFine
    <3>2. old' \in SUBSET Rows /\ watch'[p].mustGo \subseteq old'
      BY <1>2, <1>8, <1>10 DEF PassFine, TInv, TablesOK
    <3>3. pass'[p] = AtTarget(TargetFrom(pass[p].target + 1), old',
                              pass[p].attempts)
      BY <1>9, <1>10, <2>1
    <3> DEFINE i == TargetFrom(pass[p].target + 1)
               o == old'
               w == watch'[p]
               n == pass[p].attempts
    <3>4. /\ n \in 1 .. Attempts /\ i \in 1 .. 5 /\ o \in SUBSET Rows
          /\ w \in WatchRecords /\ w.mustGo \subseteq o
      BY <1>8, <3>1, <3>2
    <3> HIDE DEF i, o, w, n
    <3>5. PassFine(AtTarget(i, o, n), w, o)
      BY <3>4, TargetTypes
    <3>6. AtTarget(i, o, n).running = FALSE /\ AtTarget(i, o, n).batch = {}
      BY DEF AtTarget
    <3> QED
      BY <2>1, <3>3, <3>5, <3>6 DEF i, o, w, n
  <2>2. CASE ~ Drained(Cardinality(pass[p].batch))
    <3>1. /\ pass'[p] \in PassRecords /\ pass'[p].running = FALSE
          /\ pass'[p].batch = {} /\ pass'[p].target = pass[p].target
          /\ pass'[p].attempts = pass[p].attempts
          /\ pass'[p].doomed = pass[p].doomed \ gone
      <4> DEFINE r == Without(gone)[p]
      <4>1. /\ r \in PassRecords /\ r.target = pass[p].target
            /\ r.attempts = pass[p].attempts
            /\ r.doomed = pass[p].doomed \ gone /\ r.batch = {}
        BY <1>3, <1>6 DEF PassFine
      <4>2. pass'[p] = [r EXCEPT !.running = FALSE]
        BY <1>9, <2>2
      <4> HIDE DEF r
      <4> QED
        BY <4>1, <4>2 DEF PassRecords
    <3> QED
      BY <1>2, <1>8, <1>10, <3>1 DEF PassFine
  <2> QED
    BY <2>1, <2>2
<1>12. PassOK'
  <2>1. \A x \in Executions : PassFine(pass'[x], watch'[x], old')
    <3> SUFFICES ASSUME NEW x \in Executions
                 PROVE  PassFine(pass'[x], watch'[x], old')
      OBVIOUS
    <3>1. CASE x = p
      BY <1>11, <3>1
    <3>2. CASE x # p
      BY <1>3, <1>5, <1>10, <3>2, Bereft
    <3> QED
      BY <3>1, <3>2
  <2>2. /\ pass' = [x \in Executions |-> pass'[x]]
        /\ watch' = [x \in Executions |-> watch'[x]]
    BY <1>1, <1>4
  <2> QED
    BY <2>1, <2>2 DEF PassOK
<1> QED
  BY <1>1, <1>2, <1>3, <1>5, <1>8, <1>9, <1>10, <1>11, <1>12

LEMMA TypesBatch ==
  ASSUME TInv, NEW p \in Executions, DeleteBatch(p) PROVE TInv'
<1> DEFINE gone == WithCascade(pass[p].batch)
<1>1. Delete(gone) /\ PassOK'
  BY BatchStep
<1>2. /\ UNCHANGED <<projects, reader, writer, arrived, writes>>
      /\ raced' \subseteq Events
  BY DEF DeleteBatch
<1>3. TablesOK' /\ EventsOK' /\ ProjectsOK'
  <2>1. \A e \in Events : <<"event", e>> \in gone /\ <<"snapshot", e>> \in rows
                             => <<"snapshot", e>> \in gone
    BY Cascade
  <2> HIDE DEF gone
  <2> QED
    BY <1>1, <1>2, <2>1, TypesGone
<1>4. RequestsOK'
  BY <1>2, ReadersKept DEF TInv, RequestsOK
<1> QED
  BY <1>1, <1>3, <1>4 DEF TInv

\* Steps of one execution that delete nothing.
LEMMA OneExecution ==
  ASSUME TInv, NEW p \in Executions, old' = old,
         pass' = [pass EXCEPT ![p] = pass'[p]],
         watch' = [watch EXCEPT ![p] = watch'[p]],
         PassFine(pass'[p], watch'[p], old)
  PROVE  PassOK'
<1>1. \A x \in Executions : x # p =>
        pass'[x] = pass[x] /\ watch'[x] = watch[x]
  BY DEF TInv, PassOK
<1>2. ASSUME NEW x \in Executions PROVE PassFine(pass'[x], watch'[x], old')
  BY <1>1, ExecutionKinds
<1> QED
  BY <1>2 DEF TInv, PassOK

LEMMA TypesPass ==
  ASSUME TInv, NEW p \in Executions, StartPass(p) \/ Retention(p)
  PROVE  TInv'
<1>1. ASSUME UNCHANGED <<rows, old, fresh, projects, content, trace, reader,
                         writer, arrived, writes, raced>>,
             PassOK'
      PROVE  TInv'
  <2>1. TablesOK' /\ ProjectsOK' /\ EventsOK'
    BY <1>1 DEF TInv, TablesOK, ProjectsOK, EventsOK, Present
  <2>2. RequestsOK'
    BY <1>1, ReadersKept DEF TInv, RequestsOK
  <2> QED
    BY <1>1, <2>1, <2>2 DEF TInv
<1>2. TargetFrom(1) \in 1 .. 5 /\ 1 \in 1 .. Attempts /\ old \in SUBSET Rows
  BY NextTarget, ArtifactAssumption DEF TInv, TablesOK
<1>3. /\ pass[p] \in PassRecords /\ watch[p] \in WatchRecords
      /\ PassFine(pass[p], watch[p], old)
  BY ExecutionKinds
<1>4. NoWatch \in WatchRecords /\ NoWatch.mustGo = {} /\ NoWatch.disturbed = {}
  BY DEF NoWatch, WatchRecords
<1>5. PassFine(NoPass, NoWatch, old)
  BY <1>4, ArtifactAssumption DEF PassFine, NoPass, PassRecords
<1>6. CASE StartPass(p)
  <2> DEFINE w == [NoWatch EXCEPT !.mustGo = {row \in old : row[1] \in Enabled}]
  <2>1. /\ pass' = [pass EXCEPT ![p] = AtTarget(TargetFrom(1), old, 1)]
        /\ watch' = [watch EXCEPT ![p] = w]
        /\ UNCHANGED <<rows, old, fresh, projects, content, trace, reader,
                       writer, arrived, writes, raced>>
    BY <1>6 DEF StartPass
  <2>2. w \in WatchRecords /\ w.mustGo \subseteq old
    BY <1>2 DEF NoWatch, WatchRecords
  <2> HIDE DEF w
  <2>3. PassFine(AtTarget(TargetFrom(1), old, 1), w, old)
    BY <1>2, <2>2, TargetTypes
  <2>4. pass'[p] = AtTarget(TargetFrom(1), old, 1) /\ watch'[p] = w
    BY <2>1 DEF TInv, PassOK
  <2> QED
    BY <1>1, <2>1, <2>3, <2>4, OneExecution
<1>7. CASE SelectBatch(p)
  <2>1. PICK batch \in SUBSET Prunable(pass[p].doomed) :
          pass' = [pass EXCEPT ![p].running = TRUE, ![p].batch = batch]
    BY <1>7 DEF SelectBatch
  <2>2. /\ watch' = [watch EXCEPT ![p].late = {}]
        /\ pass[p].target \in 1 .. 4
        /\ UNCHANGED <<rows, old, fresh, projects, content, trace, reader,
                       writer, arrived, writes, raced>>
    BY <1>7 DEF SelectBatch
  <2>3. /\ pass'[p] = [pass[p] EXCEPT !.running = TRUE, !.batch = batch]
        /\ watch'[p] = [watch[p] EXCEPT !.late = {}]
    BY <2>1, <2>2 DEF TInv, PassOK
  <2>4. batch \subseteq pass[p].doomed /\ batch \subseteq Rows
    BY <1>3 DEF Prunable, PassRecords
  <2>5. PassFine(pass'[p], watch'[p], old)
    <3>1. /\ watch'[p] \in WatchRecords /\ watch'[p].mustGo = watch[p].mustGo
      BY <1>3, <2>3 DEF WatchRecords
    <3>2. /\ pass'[p] \in PassRecords /\ pass'[p].target = pass[p].target
          /\ pass'[p].doomed = pass[p].doomed /\ pass'[p].batch = batch
          /\ pass'[p].attempts = pass[p].attempts /\ pass'[p].running = TRUE
      BY <1>3, <2>3, <2>4 DEF PassRecords
    <3> QED
      BY <1>3, <2>2, <2>4, <3>1, <3>2 DEF PassFine
  <2>6. /\ pass' = [pass EXCEPT ![p] = pass'[p]]
        /\ watch' = [watch EXCEPT ![p] = watch'[p]]
    BY <2>1, <2>2 DEF TInv, PassOK
  <2> QED
    BY <1>1, <2>2, <2>5, <2>6, OneExecution
<1>8. CASE FailPass(p)
  <2>1. /\ pass[p].running
        /\ pass' = [pass EXCEPT ![p] = AfterFailure(p)]
        /\ watch' = [watch EXCEPT ![p] =
             IF pass'[p] = NoPass THEN NoWatch ELSE [@ EXCEPT !.disturbed = {}]]
        /\ UNCHANGED <<rows, old, fresh, projects, content, trace, reader,
                       writer, arrived, writes, raced>>
    BY <1>8 DEF FailPass
  <2>2. /\ pass'[p] = AfterFailure(p)
        /\ watch'[p] = IF pass'[p] = NoPass THEN NoWatch
                       ELSE [watch[p] EXCEPT !.disturbed = {}]
    BY <2>1 DEF TInv, PassOK
  <2>3. PassFine(pass'[p], watch'[p], old)
    <3>1. CASE pass[p].attempts = Attempts
      BY <1>5, <2>2, <3>1 DEF AfterFailure
    <3>2. CASE pass[p].attempts # Attempts
      <4>1. pass[p].attempts + 1 \in 1 .. Attempts
        BY <1>3, <2>1, <3>2, ArtifactAssumption DEF PassFine
      <4>2. pass'[p] = AtTarget(TargetFrom(1), old, pass[p].attempts + 1)
        BY <2>2, <3>2 DEF AfterFailure
      <4>3. pass'[p] # NoPass
        <5>1. pass'[p].target = TargetFrom(1)
          BY <4>2 DEF AtTarget
        <5> QED
          BY <1>2, <5>1 DEF NoPass
      <4>4. watch'[p] = [watch[p] EXCEPT !.disturbed = {}]
        BY <2>2, <4>3
      <4>5. watch'[p] \in WatchRecords /\ watch'[p].mustGo = watch[p].mustGo
        BY <1>3, <4>4 DEF WatchRecords
      <4>6. watch'[p].mustGo \subseteq old
        BY <1>3, <4>5 DEF PassFine
      <4> DEFINE i == TargetFrom(1)
                 n == pass[p].attempts + 1
      <4>7. i \in 1 .. 5 /\ n \in 1 .. Attempts
        BY <1>2, <4>1
      <4> HIDE DEF i, n
      <4>8. PassFine(AtTarget(i, old, n), watch'[p], old)
        BY <1>2, <4>5, <4>6, <4>7, TargetTypes
      <4> QED
        BY <4>2, <4>8 DEF i, n
    <3> QED
      BY <3>1, <3>2
  <2> QED
    BY <1>1, <2>1, <2>2, <2>3, OneExecution
<1>9. CASE FinishPass(p)
  <2>1. /\ pass' = [pass EXCEPT ![p] = NoPass]
        /\ watch' = [watch EXCEPT ![p] = NoWatch]
        /\ UNCHANGED <<rows, old, fresh, projects, content, trace, reader,
                       writer, arrived, writes, raced>>
    BY <1>9 DEF FinishPass
  <2>2. pass'[p] = NoPass /\ watch'[p] = NoWatch
    BY <2>1 DEF TInv, PassOK
  <2> QED
    BY <1>1, <1>5, <2>1, <2>2, OneExecution
<1>10. CASE DeleteBatch(p)
  BY <1>10, TypesBatch
<1> QED
  BY <1>6, <1>7, <1>8, <1>9, <1>10 DEF Retention

LEMMA TypesStep ==
  ASSUME TInv, [Next]_vars PROVE TInv'
<1>1. CASE UNCHANGED vars
  <2>1. UNCHANGED <<rows, old, fresh, projects, content, trace, reader, writer,
                    pass, arrived, writes, raced, watch>>
    BY <1>1 DEF vars
  <2>2. TablesOK' /\ ProjectsOK' /\ EventsOK'
    BY <2>1 DEF TInv, TablesOK, ProjectsOK, EventsOK, Present
  <2>3. RequestsOK' /\ PassOK'
    BY <2>1, ReadersKept, PassKept DEF TInv, RequestsOK
  <2> QED
    BY <2>2, <2>3 DEF TInv
<1>2. CASE \E e \in Events : AddEvent(e)
  BY <1>2, TypesAdd
<1>3. CASE \E e \in WithReplay : PutReplay(e)
  BY <1>3, TypesAdd, ArtifactAssumption
<1>4. ASSUME NEW kinds \in Ages, GrowOld(kinds) PROVE TInv'
  <2>1. /\ old \subseteq old' /\ old' \subseteq rows /\ fresh' \subseteq rows
        /\ UNCHANGED <<rows, projects, content, trace, reader, writer, pass,
                       arrived, writes, raced, watch>>
    BY <1>4 DEF GrowOld, TInv, TablesOK
  <2>2. TablesOK' /\ ProjectsOK' /\ EventsOK'
    BY <2>1 DEF TInv, TablesOK, ProjectsOK, EventsOK, Present
  <2>3. RequestsOK' /\ PassOK'
    BY <2>1, ReadersKept, PassKept DEF TInv, RequestsOK
  <2> QED
    BY <2>2, <2>3 DEF TInv
<1>5. ASSUME NEW p \in Executions, StartPass(p) \/ Retention(p) PROVE TInv'
  BY <1>5, TypesPass
<1>6. ASSUME NEW w \in Writers,
             \/ \E m \in MapIds, data \in Versions \cup {Corrupt} :
                  UploadSourceMap(w, m, data)
             \/ \E r \in Releases, names \in {{n} : n \in Names} \cup {Names} :
                  DeleteSourceMaps(w, r, names)
             \/ Invalidate(w) \/ FailWrite(w)
      PROVE  TInv'
  BY <1>6, TypesWrite
<1>7. ASSUME NEW q \in Readers,
             \/ \E page \in SUBSET Events : ListIssueEvents(q, page)
             \/ ReadNames(q) \/ ReadData(q)
             \/ \E e \in Events : FillCache(q, e)
      PROVE  TInv'
  BY <1>7, TypesRead
<1>8. CASE \E t \in Projects : DeleteProject(t)
  BY <1>8, TypesProject
<1> QED
  BY <1>1, <1>2, <1>3, <1>4, <1>5, <1>6, <1>7, <1>8 DEF Next

LEMMA TypesInvariant == Spec => []TInv
<1>1. Init => TInv
  BY TypesBegin
<1>2. TInv /\ [Next]_vars => TInv'
  BY TypesStep
<1> QED
  BY <1>1, <1>2, PTL DEF Spec

\* What is stored, requested and deleted has these shapes, whatever the events,
\* releases, projects and maps: a map row is a map with data, a snapshot has its
\* event (schema.prisma:186), maps and events have their project, and what an
\* execution deletes is past its retention.  Replays are not claimed to have
\* their event.
THEOREM ArtifactTypes == Spec => []TypeOK
<1>1. TInv => TypeOK
  <2> SUFFICES ASSUME TInv PROVE TypeOK
    OBVIOUS
  <2>1. ASSUME NEW p \in Executions
        PROVE  /\ watch[p].mustGo \cup pass[p].doomed \subseteq old
               /\ pass[p].batch \subseteq pass[p].doomed
               /\ pass[p].target \in 0 .. 5 /\ pass[p].attempts \in 0 .. Attempts
    BY ExecutionKinds DEF PassFine, PassRecords
  <2>2. ASSUME NEW q \in Readers
        PROVE  /\ reader[q].stage \in {"idle", "page", "named", "fill"}
               /\ reader[q].page \subseteq arrived
               /\ reader[q].names \subseteq Names
    BY DEF TInv, RequestsOK, ReaderOK, ReaderIs
  <2> QED
    BY <2>1, <2>2 DEF TInv, TablesOK, ProjectsOK, EventsOK, TypeOK
<1> QED
  BY <1>1, TypesInvariant, PTL

-----------------------------------------------------------------------------
(* The cache of resolved stack traces. *)

\* The maps of the release of this event are not touched.
SameMaps(e) ==
  \A n \in Names : content'[<<ReleaseOf[e], n>>] = content[<<ReleaseOf[e], n>>]

LEMMA SameResolved ==
  ASSUME NEW e \in Events, SameMaps(e)
  PROVE  /\ MapsIn(ReleaseOf[e])' = MapsIn(ReleaseOf[e])
         /\ Resolved(e)' = Resolved(e)
<1>1. MapsIn(ReleaseOf[e])' = MapsIn(ReleaseOf[e])
  BY DEF MapsIn, SameMaps
<1>2. [n \in MapsIn(ReleaseOf[e])' |-> content'[<<ReleaseOf[e], n>>]]
        = [n \in MapsIn(ReleaseOf[e]) |-> content[<<ReleaseOf[e], n>>]]
  BY <1>1 DEF SameMaps, MapsIn
<1> QED
  BY <1>1, <1>2 DEF Resolved

LEMMA InFlightEvents ==
  ASSUME TInv, NEW q \in Readers, NEW e \in InFlight(q)
  PROVE  e \in Events /\ e \in arrived
BY DEF TInv, RequestsOK, ReaderOK, ReaderIs, InFlight

LEMMA InGroupEvents ==
  ASSUME TInv, NEW q \in Readers, reader[q].stage = "named", NEW e \in InGroup(q)
  PROVE  e \in InFlight(q) /\ ReleaseOf[e] = Group(q)
BY DEF InGroup, InFlight, EventsOf

\* A step that leaves the requests alone: what is cached or resolved for an
\* event is either dropped, excused from now on, or as right as it was.
LEMMA CacheKept ==
  ASSUME TInv, CacheInv, reader' = reader,
         \A e \in Events :
           \/ trace'[e] = {}
           \/ Excused(e)'
           \/ trace'[e] = trace[e] /\ ~ Excused(e) /\ SameMaps(e),
         \A q \in Readers : \A e \in InFlight(q) : Present(e)' =>
           Present(e) /\ (Excused(e)' \/ (~ Excused(e) /\ SameMaps(e)))
  PROVE  CacheInv'
<1>1. CacheOK'
  <2> SUFFICES ASSUME NEW e \in Events,
                      trace'[e] \notin {{}, Resolved(e)'}, ~ Excused(e)'
               PROVE  FALSE
    BY DEF CacheOK
  <2>1. trace'[e] = trace[e] /\ ~ Excused(e) /\ SameMaps(e)
    OBVIOUS
  <2>2. Resolved(e)' = Resolved(e)
    BY <2>1, SameResolved
  <2> QED
    BY <2>1, <2>2 DEF CacheInv, CacheOK
<1>2. \A q \in Readers : Group(q)' = Group(q) /\ InGroup(q)' = InGroup(q)
  BY DEF Group, InGroup
<1>3. NamesOK'
  <2> SUFFICES ASSUME NEW q \in Readers, reader[q].stage = "named",
                      NEW e \in InGroup(q), Present(e)', ~ Excused(e)'
               PROVE  reader[q].names =
                        Wanted(MapsIn(Group(q))',
                               UNION {FramesOf[d] : d \in InGroup(q)})
    BY <1>2 DEF NamesOK
  <2>1. e \in InFlight(q) /\ e \in Events /\ ReleaseOf[e] = Group(q)
    BY InGroupEvents, InFlightEvents
  <2>2. Present(e) /\ ~ Excused(e) /\ SameMaps(e)
    BY <2>1
  <2>3. MapsIn(Group(q))' = MapsIn(Group(q))
    BY <1>2, <2>1, <2>2, SameResolved DEF MapsIn
  <2> QED
    BY <2>2, <2>3 DEF CacheInv, NamesOK
<1>4. OutcomesOK'
  <2> SUFFICES ASSUME NEW q \in Readers, NEW e \in Events,
                      reader[q].outcomes[e] # {}, Present(e)', ~ Excused(e)'
               PROVE  reader[q].outcomes[e] = Resolved(e)'
    BY DEF OutcomesOK
  <2>1. e \in InFlight(q)
    BY DEF InFlight
  <2>2. Present(e) /\ ~ Excused(e) /\ SameMaps(e)
    BY <2>1
  <2> QED
    BY <2>2, SameResolved DEF CacheInv, OutcomesOK
<1> QED
  BY <1>1, <1>3, <1>4 DEF CacheInv

\* Steps that touch no map, no cached trace and no request.
LEMMA CacheUntouched ==
  ASSUME TInv, CacheInv,
         UNCHANGED <<content, trace, reader, writer, raced>>,
         \A e \in arrived : Present(e)' => Present(e)
  PROVE  CacheInv'
<1>1. \A e \in Events : (Excused(e)' <=> Excused(e)) /\ SameMaps(e)
  BY DEF Excused, SameMaps
<1>2. ASSUME NEW q \in Readers, NEW e \in InFlight(q), Present(e)'
      PROVE  Present(e) /\ (Excused(e)' \/ (~ Excused(e) /\ SameMaps(e)))
  BY <1>1, <1>2, InFlightEvents
<1>3. \A e \in Events :
           \/ trace'[e] = {}
           \/ Excused(e)'
           \/ trace'[e] = trace[e] /\ ~ Excused(e) /\ SameMaps(e)
  BY <1>1
<1> QED
  BY <1>2, <1>3, CacheKept

LEMMA CacheWrite ==
  ASSUME TInv, CacheInv, NEW w \in Writers,
         \/ \E m \in MapIds, data \in Versions \cup {Corrupt} :
              UploadSourceMap(w, m, data)
         \/ \E r \in Releases, names \in {{n} : n \in Names} \cup {Names} :
              DeleteSourceMaps(w, r, names)
         \/ Invalidate(w) \/ FailWrite(w)
  PROVE  CacheInv'
\* The first statement of an upload or of a deletion.
<1>2. ASSUME NEW r \in Releases, writer[w] = NoWriter,
             writer' = [writer EXCEPT ![w] =
                          [stage |-> "changed", release |-> r]],
             \A k \in MapIds : k[1] # r => content'[k] = content[k],
             raced \subseteq raced',
             UNCHANGED <<reader, trace>>,
             \A e \in Events : Present(e)' <=> Present(e)
      PROVE  CacheInv'
  <2>1. writer'[w] = [stage |-> "changed", release |-> r]
        /\ \A u \in Writers : u # w => writer'[u] = writer[u]
    BY <1>2 DEF TInv, RequestsOK
  <2>2. \A e \in Events : Excused(e) => Excused(e)'
    BY <1>2, <2>1 DEF Excused, NoWriter
  <2>3. \A e \in Events : Excused(e)' \/ (~ Excused(e) /\ SameMaps(e))
    <3> SUFFICES ASSUME NEW e \in Events PROVE Excused(e)' \/ SameMaps(e)
      BY <2>2
    <3>1. CASE ReleaseOf[e] = r
      BY <2>1, <3>1 DEF Excused
    <3>2. CASE ReleaseOf[e] # r
      BY <1>2, <3>2, ArtifactAssumption DEF SameMaps, MapIds
    <3> QED
      BY <3>1, <3>2
  <2>4. ASSUME NEW q \in Readers, NEW e \in InFlight(q), Present(e)'
        PROVE  Present(e) /\ (Excused(e)' \/ (~ Excused(e) /\ SameMaps(e)))
    BY <1>2, <2>3, <2>4, InFlightEvents
  <2> QED
    BY <1>2, <2>3, <2>4, CacheKept
<1>3. ASSUME NEW m \in MapIds, NEW data \in Versions \cup {Corrupt},
             UploadSourceMap(w, m, data)
      PROVE  CacheInv'
  <2>1. /\ writer[w].stage = "idle" /\ m[1] \in Releases
        /\ writer' = [writer EXCEPT ![w] =
                        [stage |-> "changed", release |-> m[1]]]
        /\ content' = [content EXCEPT ![m] = data]
        /\ raced \subseteq raced'
        /\ rows' = rows \cup {MapRow(m)}
        /\ UNCHANGED <<reader, trace>>
    BY <1>3 DEF UploadSourceMap, BeginWrite, MapIds
  <2>2. writer[w] = NoWriter
    BY <2>1 DEF TInv, RequestsOK, Changes
  <2>3. \A k \in MapIds : k[1] # m[1] => content'[k] = content[k]
    BY <2>1 DEF TInv, TablesOK
  <2>4. \A e \in Events : Present(e)' <=> Present(e)
    BY <2>1 DEF Present, MapRow
  <2> QED
    BY <1>2, <2>1, <2>2, <2>3, <2>4
<1>4. ASSUME NEW r \in Releases, NEW names \in {{n} : n \in Names} \cup {Names},
             DeleteSourceMaps(w, r, names)
      PROVE  CacheInv'
  <2> DEFINE gone == {MapRow(<<r, n>>) : n \in names \cap MapsIn(r)}
  <2>1. /\ writer[w].stage = "idle"
        /\ writer' = [writer EXCEPT ![w] =
             IF gone = {} THEN NoWriter
             ELSE [stage |-> "changed", release |-> r]]
        /\ content' = [m \in MapIds |-> IF MapRow(m) \in gone THEN NoMap
                                        ELSE content[m]]
        /\ trace' = [e \in Events |->
                       IF <<"event", e>> \in gone THEN {} ELSE trace[e]]
        /\ raced' = IF gone = {} THEN raced ELSE raced \cup Overtaken(r)
        /\ UNCHANGED <<reader, arrived>>
        /\ rows' = rows \ gone
    BY <1>4 DEF DeleteSourceMaps, BeginWrite, Delete
  <2>2. writer[w] = NoWriter
    BY <2>1 DEF TInv, RequestsOK, Changes
  <2>3. /\ \A k \in MapIds : k[1] # r => MapRow(k) \notin gone
        /\ \A e \in Events : <<"event", e>> \notin gone
    BY DEF MapRow
  <2> HIDE DEF gone
  <2>4. /\ \A k \in MapIds : k[1] # r => content'[k] = content[k]
        /\ trace' = trace
    BY <2>1, <2>3 DEF TInv, EventsOK
  <2>5. \A e \in Events : Present(e)' <=> Present(e)
    BY <2>1, <2>3 DEF Present
  <2>6. CASE gone = {}
    <3>1. writer' = writer /\ content' = content /\ raced' = raced
      BY <2>1, <2>2, <2>6 DEF TInv, RequestsOK, TablesOK
    <3> QED
      BY <2>1, <2>4, <2>5, <3>1, CacheUntouched DEF TInv, EventsOK
  <2>7. CASE gone # {}
    <3>1. writer' = [writer EXCEPT ![w] =
                       [stage |-> "changed", release |-> r]]
          /\ raced \subseteq raced'
      BY <2>1, <2>7
    <3> QED
      BY <1>2, <2>1, <2>2, <2>4, <2>5, <3>1
  <2> QED
    BY <2>6, <2>7
\* The second one, or the death of the request instead of it.
<1>5. CASE Invalidate(w) \/ FailWrite(w)
  <2>1. /\ writer[w].stage = "changed" /\ UNCHANGED <<rows, content, reader>>
        /\ writer' = [writer EXCEPT ![w] = NoWriter]
    BY <1>5 DEF Invalidate, FailWrite
  <2>2. PICK s \in Releases : writer[w] = [stage |-> "changed", release |-> s]
    BY <2>1 DEF TInv, RequestsOK, Changes, NoWriter
  <2>3. writer[w].release = s
    BY <2>2
  <2>4. \A u \in Writers : u # w => writer'[u] = writer[u]
    BY <2>1 DEF TInv, RequestsOK
  <2>5. writer'[w] = NoWriter
    BY <2>1 DEF TInv, RequestsOK
  <2>6. \A e \in Events : ReleaseOf[e] # s /\ e \in raced => e \in raced'
    BY <1>5, <2>3 DEF Invalidate, FailWrite, EventsOf
  <2>7. \A e \in Events : ReleaseOf[e] # s /\ Excused(e) => Excused(e)'
    BY <2>2, <2>4, <2>6 DEF Excused
  <2>8. \A e \in Events : ReleaseOf[e] = s => trace'[e] = {} \/ Excused(e)'
    BY <1>5, <2>3 DEF Invalidate, Invalidated, FailWrite, Excused, EventsOf
  <2>9. \A e \in Events : trace'[e] = {} \/ trace'[e] = trace[e]
    BY <1>5 DEF Invalidate, Invalidated, FailWrite
  <2>10. \A e \in Events : SameMaps(e)
    BY <2>1 DEF SameMaps
  <2>11. \A e \in Events :
           \/ trace'[e] = {}
           \/ Excused(e)'
           \/ trace'[e] = trace[e] /\ ~ Excused(e) /\ SameMaps(e)
    BY <2>7, <2>8, <2>9, <2>10
  <2>12. ASSUME NEW q \in Readers, NEW e \in InFlight(q), Present(e)'
         PROVE  Present(e) /\ (Excused(e)' \/ (~ Excused(e) /\ SameMaps(e)))
    <3>1. e \in Events
      BY InFlightEvents
    <3>2. Present(e)
      BY <2>1, <2>12 DEF Present
    <3>3. CASE ReleaseOf[e] # s
      BY <2>7, <2>10, <3>1, <3>2, <3>3
    <3>4. CASE ReleaseOf[e] = s
      <4>1. e \in EventsOf(s) /\ e \in Overtaken(s)
        BY <3>1, <3>4 DEF Overtaken, EventsOf
      <4>2. e \in raced'
        BY <1>5, <2>3, <4>1 DEF Invalidate, FailWrite
      <4> QED
        BY <3>2, <4>2 DEF Excused
    <3> QED
      BY <3>3, <3>4
  <2> QED
    BY <2>1, <2>11, <2>12, CacheKept
<1> QED
  BY <1>3, <1>4, <1>5

Usable(loaded) == {n \in DOMAIN loaded : loaded[n] \in Versions}

\* Loading only the names that the frames of the page want resolves an event as
\* all maps of its release would.
LEMMA WantedResolves ==
  ASSUME NEW e \in Events, NEW frames, FramesOf[e] \subseteq frames,
         NEW loaded,
         loaded = [n \in Wanted(MapsIn(ReleaseOf[e]), frames) |->
                     content[<<ReleaseOf[e], n>>]]
  PROVE  SymbolicateFrames(e, loaded) = Resolved(e)
<1> DEFINE full == [n \in MapsIn(ReleaseOf[e]) |-> content[<<ReleaseOf[e], n>>]]
<1>1. Usable(loaded) = Wanted(Usable(full), frames)
  BY DEF Usable, Wanted
<1>2. Usable(full) \in SUBSET Names /\ Usable(loaded) \in SUBSET Names
  BY <1>1 DEF Usable, Wanted, MapsIn
<1>3. ASSUME NEW f \in FramesOf[e]
      PROVE  /\ TracerName[f][Usable(loaded)] = TracerName[f][Usable(full)]
             /\ TracerName[f][Usable(full)] # NoArtifact =>
                  loaded[TracerName[f][Usable(full)]]
                    = full[TracerName[f][Usable(full)]]
  <2>1. f \in Frames /\ IsPath(f) /\ \A n \in Names : IsPath(n)
    BY ArtifactAssumption DEF Frames
  <2>2. Fitting(f, Usable(loaded)) = Fitting(f, Usable(full))
    BY <1>1, <1>2, <2>1, FittingWanted
  <2>3. TracerName[f][Usable(loaded)] = TracerName[f][Usable(full)]
    BY <1>2, <2>1, <2>2, TracerWanted
  <2>4. ASSUME TracerName[f][Usable(full)] # NoArtifact
        PROVE  TracerName[f][Usable(full)] \in Usable(loaded)
    BY <1>2, <2>1, <2>3, <2>4, TracerLongest DEF Longest, Fitting
  <2>5. \A n \in Usable(loaded) : loaded[n] = full[n]
    BY DEF Usable, Wanted
  <2> QED
    BY <2>3, <2>4, <2>5
<1> DEFINE Entry(x, f, l) == /\ TracerName[f][Usable(l)] # NoArtifact
                             /\ x = <<f, TracerName[f][Usable(l)],
                                     l[TracerName[f][Usable(l)]]>>
<1>4. \A x : x \in SymbolicateFrames(e, loaded) <=>
        \E f \in FramesOf[e] : Entry(x, f, loaded)
  BY DEF SymbolicateFrames, Usable
<1>5. \A x : x \in Resolved(e) <=> \E f \in FramesOf[e] : Entry(x, f, full)
  BY DEF Resolved, SymbolicateFrames, Usable
<1> HIDE DEF full
<1>6. \A x : \A f \in FramesOf[e] : Entry(x, f, loaded) <=> Entry(x, f, full)
  BY <1>3
<1> HIDE DEF Entry
<1>7. \A x : x \in SymbolicateFrames(e, loaded) <=> x \in Resolved(e)
  BY <1>4, <1>5, <1>6
<1> QED
  BY <1>7 DEF Resolved, SymbolicateFrames

LEMMA CacheRead ==
  ASSUME TInv, CacheInv, NEW q \in Readers,
         \/ \E page \in SUBSET Events : ListIssueEvents(q, page)
         \/ ReadNames(q) \/ ReadData(q)
         \/ \E e \in Events : FillCache(q, e)
  PROVE  CacheInv'
<1>1. /\ UNCHANGED <<rows, content, writer, raced>>
      /\ reader' = [reader EXCEPT ![q] = reader'[q]]
  BY ReaderStep
<1>2. \A e \in Events : /\ Excused(e)' <=> Excused(e)
                        /\ Resolved(e)' = Resolved(e)
                        /\ Present(e)' <=> Present(e)
  BY <1>1 DEF Excused, Resolved, MapsIn, Present
<1>3. \A r : MapsIn(r)' = MapsIn(r)
  BY <1>1 DEF MapsIn
<1>5. \A p \in Readers : p # q =>
        /\ reader'[p] = reader[p] /\ Group(p)' = Group(p)
        /\ InGroup(p)' = InGroup(p)
  BY <1>1 DEF Group, InGroup, TInv, RequestsOK
\* What holds of the other requests still does.
<1>6. ASSUME reader'[q].stage = "named" =>
               \A e \in InGroup(q)' : Present(e)' =>
                 \/ Excused(e)'
                 \/ reader'[q].names =
                      Wanted(MapsIn(Group(q)'),
                             UNION {FramesOf[d] : d \in InGroup(q)'})
      PROVE  NamesOK'
  <2>1. ASSUME NEW p \in Readers, reader'[p].stage = "named",
               NEW e \in InGroup(p)', Present(e)', ~ Excused(e)'
        PROVE  reader'[p].names =
                 Wanted(MapsIn(Group(p)'),
                        UNION {FramesOf[d] : d \in InGroup(p)'})
    <3>1. CASE p = q
      BY <1>6, <2>1, <3>1
    <3>2. CASE p # q
      <4>1. /\ reader[p].stage = "named" /\ e \in InGroup(p)
            /\ reader'[p] = reader[p] /\ Group(p)' = Group(p)
            /\ InGroup(p)' = InGroup(p)
        BY <1>5, <2>1, <3>2
      <4>2. e \in Events
        BY <4>1, InGroupEvents, InFlightEvents
      <4>3. Present(e) /\ ~ Excused(e)
        BY <1>2, <2>1, <4>2
      <4> QED
        BY <4>1, <4>3 DEF CacheInv, NamesOK
    <3> QED
      BY <3>1, <3>2
  <2> QED
    BY <1>1, <2>1 DEF NamesOK, MapsIn
<1>7. ASSUME \A e \in Events : reader'[q].outcomes[e] # {} /\ Present(e) =>
               \/ Excused(e)
               \/ reader'[q].outcomes[e] = reader[q].outcomes[e]
               \/ reader'[q].outcomes[e] = Resolved(e)
      PROVE  OutcomesOK'
  <2>1. ASSUME NEW p \in Readers, NEW e \in Events,
               reader'[p].outcomes[e] # {}, Present(e)', ~ Excused(e)'
        PROVE  reader'[p].outcomes[e] = Resolved(e)'
    <3>1. Present(e) /\ ~ Excused(e) /\ Resolved(e)' = Resolved(e)
      BY <1>2, <2>1
    <3>2. reader'[p].outcomes[e] \in {reader[p].outcomes[e], Resolved(e)}
      BY <1>5, <1>7, <2>1, <3>1
    <3> QED
      BY <2>1, <3>1, <3>2 DEF CacheInv, OutcomesOK
  <2> QED
    BY <2>1 DEF OutcomesOK
<1>8. ASSUME \A e \in Events :
               trace'[e] # trace[e] => Excused(e) \/ trace'[e] = Resolved(e)
      PROVE  CacheOK'
  BY <1>2, <1>8 DEF CacheInv, CacheOK
<1>9. ASSUME NEW page \in SUBSET Events, ListIssueEvents(q, page)
      PROVE  CacheInv'
  <2> DEFINE uncached == {e \in page : trace[e] = {}}
  <2>1. /\ trace' = trace /\ reader'[q] = Reading(uncached, NoOutcome)
    BY <1>9 DEF ListIssueEvents, TInv, RequestsOK
  <2> HIDE DEF uncached
  <2>2. /\ reader'[q].stage # "named"
        /\ \A e \in Events : reader'[q].outcomes[e] = {}
    BY <2>1 DEF Reading, NoOutcome
  <2> QED
    BY <1>6, <1>7, <1>8, <2>1, <2>2 DEF CacheInv
<1>10. ASSUME ReadNames(q) PROVE CacheInv'
  <2> DEFINE N == Wanted(MapsIn(Group(q)),
                         UNION {FramesOf[d] : d \in InGroup(q)})
  <2>1. /\ trace' = trace /\ reader[q].stage = "page"
        /\ reader'[q] = [stage |-> "named", page |-> reader[q].page,
                         outcomes |-> reader[q].outcomes, names |-> N]
    BY <1>10 DEF ReadNames, TInv, RequestsOK, InGroup
  <2> HIDE DEF N
  <2>2. /\ reader'[q].stage = "named" /\ reader'[q].page = reader[q].page
        /\ reader'[q].names = N /\ reader'[q].outcomes = reader[q].outcomes
    BY <2>1
  <2>3. Group(q)' = Group(q) /\ InGroup(q)' = InGroup(q)
    BY <2>2 DEF Group, InGroup
  <2>4. NamesOK'
    BY <1>6, <1>3, <2>2, <2>3 DEF N
  <2> QED
    BY <1>7, <1>8, <2>1, <2>2, <2>4 DEF CacheInv
<1>11. ASSUME ReadData(q) PROVE CacheInv'
  <2> DEFINE found == reader[q].names \cap MapsIn(Group(q))
             loaded == [n \in found |-> content[<<Group(q), n>>]]
             o == [e \in Events |->
                     IF e \in InGroup(q) THEN SymbolicateFrames(e, loaded)
                     ELSE reader[q].outcomes[e]]
  <2>1. /\ trace' = trace /\ reader[q].stage = "named"
        /\ reader'[q] = Reading(reader[q].page \ EventsOf(Group(q)), o)
    BY <1>11 DEF ReadData, TInv, RequestsOK, InGroup
  <2>2. \A e \in Events : \/ e \in InGroup(q) /\ o[e] = SymbolicateFrames(e, loaded)
                          \/ o[e] = reader[q].outcomes[e]
    OBVIOUS
  <2> HIDE DEF loaded, o
  <2>3. reader'[q].stage # "named" /\ reader'[q].outcomes = o
    BY <2>1 DEF Reading
  <2>4. ASSUME NEW e \in InGroup(q), Present(e), ~ Excused(e)
        PROVE  SymbolicateFrames(e, loaded) = Resolved(e)
    <3> DEFINE frames == UNION {FramesOf[d] : d \in InGroup(q)}
    <3>1. reader[q].names = Wanted(MapsIn(Group(q)), frames)
      BY <2>1, <2>4 DEF CacheInv, NamesOK
    <3>2. found = Wanted(MapsIn(Group(q)), frames)
      BY <3>1 DEF Wanted
    <3>3. /\ e \in Events /\ ReleaseOf[e] = Group(q)
          /\ FramesOf[e] \subseteq frames
      BY <2>1, <2>4, InGroupEvents, InFlightEvents
    <3> HIDE DEF frames, found
    <3>4. loaded = [n \in Wanted(MapsIn(ReleaseOf[e]), frames) |->
                      content[<<ReleaseOf[e], n>>]]
      BY <3>2, <3>3 DEF loaded
    <3> QED
      BY <3>3, <3>4, WantedResolves
  <2>5. \A e \in Events : reader'[q].outcomes[e] # {} /\ Present(e) =>
               \/ Excused(e)
               \/ reader'[q].outcomes[e] = reader[q].outcomes[e]
               \/ reader'[q].outcomes[e] = Resolved(e)
    BY <2>2, <2>3, <2>4
  <2> QED
    BY <1>6, <1>7, <1>8, <2>1, <2>3, <2>5 DEF CacheInv
<1>12. ASSUME NEW e \in Events, FillCache(q, e) PROVE CacheInv'
  <2> DEFINE o == [reader[q].outcomes EXCEPT ![e] = {}]
  <2>1. /\ reader[q].outcomes[e] # {}
        /\ trace' = [trace EXCEPT ![e] = IF Present(e) THEN reader[q].outcomes[e]
                                         ELSE @]
        /\ reader'[q] = Reading({}, o)
    BY <1>12 DEF FillCache, TInv, RequestsOK
  <2>2. reader[q].outcomes = [d \in Events |-> reader[q].outcomes[d]]
    BY DEF TInv, RequestsOK, ReaderOK, ReaderIs
  <2>3. \A d \in Events : o[d] \in {{}, reader[q].outcomes[d]}
    BY <2>2
  <2> HIDE DEF o
  <2>4. reader'[q].stage # "named" /\ reader'[q].outcomes = o
    BY <2>1 DEF Reading
  <2>5. \A d \in Events : trace'[d] # trace[d] =>
          d = e /\ Present(e) /\ trace'[d] = reader[q].outcomes[e]
    BY <2>1 DEF TInv, EventsOK
  <2>6. CacheOK'
    BY <1>8, <2>1, <2>5 DEF CacheInv, OutcomesOK
  <2> QED
    BY <1>6, <1>7, <2>3, <2>4, <2>6 DEF CacheInv
<1> QED
  BY <1>9, <1>10, <1>11, <1>12

\* Rows are deleted; the events that stay keep their maps or are excused.
LEMMA CacheGone ==
  ASSUME TInv, CacheInv, NEW gone, Delete(gone), UNCHANGED <<reader, writer>>,
         \A e \in Events : Present(e)' =>
           \/ e \in raced'
           \/ (e \in raced' <=> e \in raced) /\ SameMaps(e)
  PROVE  CacheInv'
<1>1. /\ rows' = rows \ gone
      /\ trace' = [e \in Events |->
                     IF <<"event", e>> \in gone THEN {} ELSE trace[e]]
  BY DEF Delete
<1>2. \A e \in Events : Present(e)' <=> Present(e) /\ <<"event", e>> \notin gone
  BY <1>1 DEF Present
<1>3. \A e \in Events : Present(e)' =>
        Excused(e)' \/ (~ Excused(e) /\ SameMaps(e))
  BY DEF Excused
<1>4. ASSUME NEW e \in Events
      PROVE  \/ trace'[e] = {}
             \/ Excused(e)'
             \/ trace'[e] = trace[e] /\ ~ Excused(e) /\ SameMaps(e)
  <2>1. CASE Present(e)'
    BY <1>1, <1>2, <1>3, <2>1
  <2>2. CASE ~ Present(e)'
    BY <1>1, <1>2, <2>2 DEF TInv, EventsOK
  <2> QED
    BY <2>1, <2>2
<1>5. ASSUME NEW q \in Readers, NEW e \in InFlight(q), Present(e)'
      PROVE  Present(e) /\ (Excused(e)' \/ (~ Excused(e) /\ SameMaps(e)))
  BY <1>2, <1>3, <1>5, InFlightEvents
<1> QED
  BY <1>4, <1>5, CacheKept

LEMMA CacheProject ==
  ASSUME TInv, CacheInv, NEW t, DeleteProject(t) PROVE CacheInv'
<1> DEFINE gone == WithCascade(rows \cap RowsOf(t))
<1>1. /\ Delete(gone) /\ UNCHANGED <<reader, writer>>
      /\ raced' = {e \in raced : <<"event", e>> \notin gone}
  BY DEF DeleteProject
<1>2. /\ \A e \in Events : <<"event", e>> \in gone <=>
              Present(e) /\ ProjectOf[ReleaseOf[e]] = t
      /\ \A m \in MapIds : MapRow(m) \in gone <=>
              MapRow(m) \in rows /\ ProjectOf[m[1]] = t
  BY ProjectGone
<1> HIDE DEF gone
<1>3. /\ rows' = rows \ gone
      /\ content' = [m \in MapIds |->
                       IF MapRow(m) \in gone THEN NoMap ELSE content[m]]
  BY <1>1 DEF Delete
<1>4. ASSUME NEW e \in Events, Present(e)'
      PROVE  (e \in raced' <=> e \in raced) /\ SameMaps(e)
  <2>1. ProjectOf[ReleaseOf[e]] # t /\ <<"event", e>> \notin gone
    BY <1>2, <1>3, <1>4 DEF Present
  <2>2. \A n \in Names : <<ReleaseOf[e], n>> \in MapIds
    BY ArtifactAssumption DEF MapIds
  <2>3. \A n \in Names : MapRow(<<ReleaseOf[e], n>>) \notin gone
    BY <1>2, <2>1, <2>2
  <2>4. SameMaps(e)
    BY <1>3, <2>2, <2>3 DEF SameMaps
  <2> QED
    BY <1>1, <2>1, <2>4
<1> QED
  BY <1>1, <1>4, CacheGone

LEMMA CacheBatch ==
  ASSUME TInv, CacheInv, NEW p \in Executions, DeleteBatch(p) PROVE CacheInv'
<1> DEFINE gone == WithCascade(pass[p].batch)
<1>1. /\ Delete(gone) /\ UNCHANGED <<reader, writer>>
      /\ raced' = {e \in Events :
                     /\ <<"event", e>> \notin gone
                     /\ \/ e \in raced
                        \/ \E row \in gone :
                             /\ row[1] = "sourcemap" /\ Present(e)
                             /\ row[2][1] = ReleaseOf[e]}
  BY DEF DeleteBatch
<1> HIDE DEF gone
<1>2. /\ rows' = rows \ gone
      /\ content' = [m \in MapIds |->
                       IF MapRow(m) \in gone THEN NoMap ELSE content[m]]
  BY <1>1 DEF Delete
<1>3. ASSUME NEW e \in Events, Present(e)', e \notin raced'
      PROVE  e \notin raced /\ SameMaps(e)
  <2>1. <<"event", e>> \notin gone /\ Present(e)
    BY <1>2, <1>3 DEF Present
  <2>2. e \notin raced /\ \A row \in gone : row[1] = "sourcemap" =>
                            row[2][1] # ReleaseOf[e]
    BY <1>1, <1>3, <2>1
  <2>3. \A n \in Names : /\ <<ReleaseOf[e], n>> \in MapIds
                         /\ MapRow(<<ReleaseOf[e], n>>) \notin gone
    BY <2>2, ArtifactAssumption DEF MapIds, MapRow
  <2> QED
    BY <1>2, <2>2, <2>3 DEF SameMaps
<1> QED
  BY <1>1, <1>3, CacheGone

LEMMA CacheBegin ==
  ASSUME Init PROVE CacheInv
BY DEF Init, CacheInv, CacheOK, NamesOK, OutcomesOK, NoReader, NoOutcome

LEMMA CacheStep ==
  ASSUME TInv, CacheInv, [Next]_vars PROVE CacheInv'
<1>1. CASE UNCHANGED vars
  BY <1>1, CacheUntouched DEF vars, Present
<1>2. ASSUME NEW e \in Events, AddEvent(e) PROVE CacheInv'
  <2>1. \A d \in arrived : d # e
    BY <1>2 DEF AddEvent
  <2>2. \A d \in arrived : Present(d)' => Present(d)
    BY <1>2, <2>1 DEF AddEvent, Present
  <2>3. UNCHANGED <<content, trace, reader, writer, raced>>
    BY <1>2 DEF AddEvent
  <2> QED
    BY <2>2, <2>3, CacheUntouched
<1>3. ASSUME NEW e \in WithReplay, PutReplay(e) PROVE CacheInv'
  <2>1. \A d \in arrived : Present(d)' => Present(d)
    BY <1>3 DEF PutReplay, Present
  <2>2. UNCHANGED <<content, trace, reader, writer, raced>>
    BY <1>3 DEF PutReplay
  <2> QED
    BY <2>1, <2>2, CacheUntouched
<1>4. CASE \/ \E kinds \in Ages : GrowOld(kinds)
           \/ \E p \in Executions : \/ StartPass(p) \/ SelectBatch(p)
                                    \/ FailPass(p) \/ FinishPass(p)
  <2>1. UNCHANGED <<rows, content, trace, reader, writer, raced>>
    BY <1>4 DEF GrowOld, StartPass, SelectBatch, FailPass, FinishPass
  <2> QED
    BY <2>1, CacheUntouched DEF Present
<1>5. CASE \E p \in Executions : DeleteBatch(p)
  BY <1>5, CacheBatch
<1>6. ASSUME NEW w \in Writers,
             \/ \E m \in MapIds, data \in Versions \cup {Corrupt} :
                  UploadSourceMap(w, m, data)
             \/ \E r \in Releases, names \in {{n} : n \in Names} \cup {Names} :
                  DeleteSourceMaps(w, r, names)
             \/ Invalidate(w) \/ FailWrite(w)
      PROVE  CacheInv'
  BY <1>6, CacheWrite
<1>7. ASSUME NEW q \in Readers,
             \/ \E page \in SUBSET Events : ListIssueEvents(q, page)
             \/ ReadNames(q) \/ ReadData(q)
             \/ \E e \in Events : FillCache(q, e)
      PROVE  CacheInv'
  BY <1>7, CacheRead
<1>8. CASE \E t \in Projects : DeleteProject(t)
  BY <1>8, CacheProject
<1> QED
  BY <1>1, <1>2, <1>3, <1>4, <1>5, <1>6, <1>7, <1>8 DEF Next, Retention

\* A cached stack trace is what the source maps of its release resolve it to
\* now, unless an upload or a deletion is between its two statements, died
\* there, or overtook the request that filled the cache (comment
\* service.ts:103), or the pass took maps of a release with an event.
THEOREM ArtifactCache == Spec => []StaleOnlyByRace
<1>1. Init => CacheInv
  BY CacheBegin
<1>2. TInv /\ CacheInv /\ [Next]_vars => CacheInv'
  BY CacheStep
<1>3. CacheInv => StaleOnlyByRace
  BY DEF CacheInv, CacheOK, Excused, StaleOnlyByRace
<1> QED
  BY <1>1, <1>2, <1>3, TypesInvariant, PTL DEF Spec

-----------------------------------------------------------------------------
(* Which maps the pass takes. *)

\* Nothing is selected, and what is deleted is known to the executions.
LEMMA LateKept ==
  ASSUME LateInv,
         \A p \in Executions : /\ pass'[p].batch \subseteq pass[p].batch
                               /\ watch[p].late \subseteq watch'[p].late,
         \A e \in Events : Present(e)' => Present(e)
  PROVE  LateInv'
<1> SUFFICES ASSUME NEW p \in Executions, NEW m \in MapIds,
                    MapRow(m) \in pass'[p].batch,
                    NEW e \in EventsOf(m[1]), Present(e)'
             PROVE  e \in watch'[p].late
  BY DEF LateInv
<1>1. MapRow(m) \in pass[p].batch /\ e \in Events /\ Present(e)
  BY DEF EventsOf
<1>2. e \in watch[p].late
  BY <1>1 DEF LateInv
<1> QED
  BY <1>2

\* The same where one execution stops deleting.
LEMMA LateStopped ==
  ASSUME LateInv, NEW p \in Executions, pass'[p].batch = {}, rows' \subseteq rows,
         \A x \in Executions : x # p =>
           /\ pass'[x].batch \subseteq pass[x].batch
           /\ watch[x].late \subseteq watch'[x].late
  PROVE  LateInv'
<1> SUFFICES ASSUME NEW x \in Executions, NEW m \in MapIds,
                    MapRow(m) \in pass'[x].batch,
                    NEW e \in EventsOf(m[1]), Present(e)'
             PROVE  e \in watch'[x].late
  BY DEF LateInv
<1>1. x # p /\ e \in Events /\ Present(e)
  BY DEF EventsOf, Present
<1>2. MapRow(m) \in pass[x].batch
  BY <1>1
<1>3. e \in watch[x].late
  BY <1>1, <1>2 DEF LateInv
<1> QED
  BY <1>1, <1>3

LEMMA BereftLate ==
  ASSUME TInv, NEW gone, NEW p \in Executions
  PROVE  /\ Without(gone)[p].batch = pass[p].batch \ gone
         /\ Watched(gone)[p].late = watch[p].late
BY ExecutionKinds DEF Without, Watched, PassRecords, WatchRecords

LEMMA LateGone ==
  ASSUME TInv, LateInv, NEW gone, gone \subseteq rows, rows' = rows \ gone,
         pass' = Without(gone), watch' = Watched(gone)
  PROVE  LateInv'
<1>1. \A p \in Executions : /\ pass'[p].batch = pass[p].batch \ gone
                            /\ watch'[p].late = watch[p].late
  BY BereftLate
<1>2. \A e \in Events : Present(e)' => Present(e)
  BY DEF Present
<1> QED
  BY <1>1, <1>2, LateKept

LEMMA LateSelect ==
  ASSUME TInv, LateInv, NEW p \in Executions, SelectBatch(p) PROVE LateInv'
<1>1. PICK batch \in SUBSET Prunable(pass[p].doomed) :
        pass' = [pass EXCEPT ![p].running = TRUE, ![p].batch = batch]
  BY DEF SelectBatch
<1>2. watch' = [watch EXCEPT ![p].late = {}] /\ rows' = rows
  BY DEF SelectBatch
<1>3. \A x \in Executions : x # p =>
        pass'[x] = pass[x] /\ watch'[x] = watch[x]
  BY <1>1, <1>2 DEF TInv, PassOK
<1>4. pass'[p].batch = batch
  BY <1>1, ExecutionKinds DEF TInv, PassOK, PassRecords
<1> SUFFICES ASSUME NEW x \in Executions, NEW m \in MapIds,
                    MapRow(m) \in pass'[x].batch,
                    NEW e \in EventsOf(m[1]), Present(e)'
             PROVE  e \in watch'[x].late
  BY DEF LateInv
<1>5. Present(e)
  BY <1>2 DEF Present
<1>6. CASE x = p
  <2>1. MapRow(m) \in Prunable(pass[p].doomed)
    BY <1>4, <1>6
  <2>2. Orphan(m)
    BY <2>1 DEF Prunable, MapRow
  <2> QED
    BY <1>5, <2>2 DEF Orphan
<1>7. CASE x # p
  BY <1>3, <1>5, <1>7 DEF LateInv
<1> QED
  BY <1>6, <1>7

LEMMA LateStep ==
  ASSUME TInv, LateInv, [Next]_vars PROVE LateInv'
<1>1. ASSUME UNCHANGED <<pass, watch>>,
             \A e \in Events : Present(e)' => Present(e)
      PROVE  LateInv'
  BY <1>1, LateKept
<1>8. CASE \/ UNCHANGED vars
           \/ \E e \in WithReplay : PutReplay(e)
           \/ \E kinds \in Ages : GrowOld(kinds)
  BY <1>1, <1>8 DEF vars, PutReplay, GrowOld, Present
<1>9. ASSUME NEW w \in Writers,
             \/ \E m \in MapIds, data \in Versions \cup {Corrupt} :
                  UploadSourceMap(w, m, data)
             \/ Invalidate(w) \/ FailWrite(w)
      PROVE  LateInv'
  <2>1. /\ UNCHANGED <<pass, watch>>
        /\ rows' = rows \/ \E m \in MapIds : rows' = rows \cup {MapRow(m)}
    BY <1>9 DEF UploadSourceMap, Invalidate, FailWrite
  <2>2. \A e \in Events : Present(e)' => Present(e)
    BY <2>1 DEF MapRow, Present
  <2> QED
    BY <1>1, <2>1, <2>2
<1>10. ASSUME NEW q \in Readers,
              \/ \E page \in SUBSET Events : ListIssueEvents(q, page)
              \/ ReadNames(q) \/ ReadData(q)
              \/ \E e \in Events : FillCache(q, e)
       PROVE  LateInv'
  BY <1>1, <1>10, ReaderStep DEF Present
<1>2. ASSUME NEW e \in Events, AddEvent(e) PROVE LateInv'
  <2>1. /\ watch' = [p \in Executions |-> [watch[p] EXCEPT
                       !.late = IF pass[p].running THEN @ \cup {e} ELSE @]]
        /\ pass' = pass
        /\ \A d \in Events : Present(d)' => d = e \/ Present(d)
    BY <1>2 DEF AddEvent, Present
  <2> SUFFICES ASSUME NEW p \in Executions, NEW m \in MapIds,
                      MapRow(m) \in pass'[p].batch,
                      NEW d \in EventsOf(m[1]), Present(d)'
               PROVE  d \in watch'[p].late
    BY DEF LateInv
  <2>2. pass[p].running /\ d \in Events
    BY <2>1, ExecutionKinds DEF PassFine, EventsOf
  <2>3. watch'[p].late = watch[p].late \cup {e}
    BY <2>1, <2>2, ExecutionKinds DEF WatchRecords
  <2> QED
    BY <2>1, <2>2, <2>3 DEF LateInv
<1>3. ASSUME NEW w \in Writers, NEW r \in Releases,
             NEW names \in {{n} : n \in Names} \cup {Names},
             DeleteSourceMaps(w, r, names)
      PROVE  LateInv'
  <2> DEFINE gone == {MapRow(<<r, n>>) : n \in names \cap MapsIn(r)}
  <2>1. rows' = rows \ gone /\ pass' = Without(gone) /\ watch' = Watched(gone)
    BY <1>3 DEF DeleteSourceMaps, Delete
  <2>2. gone \subseteq rows
    BY DEF TInv, TablesOK, MapsIn, MapIds
  <2> HIDE DEF gone
  <2> QED
    BY <2>1, <2>2, LateGone
<1>4. ASSUME NEW t \in Projects, DeleteProject(t) PROVE LateInv'
  <2> DEFINE gone == WithCascade(rows \cap RowsOf(t))
  <2>1. rows' = rows \ gone /\ pass' = Without(gone) /\ watch' = Watched(gone)
    BY <1>4 DEF DeleteProject, Delete
  <2>2. gone \subseteq rows
    BY Cascade
  <2> HIDE DEF gone
  <2> QED
    BY <2>1, <2>2, LateGone
<1>5. ASSUME NEW p \in Executions, StartPass(p) \/ FailPass(p) \/ FinishPass(p)
      PROVE  LateInv'
  <2>1. /\ rows' = rows
        /\ \A x \in Executions : x # p =>
             pass'[x] = pass[x] /\ watch'[x] = watch[x]
    BY <1>5 DEF StartPass, FailPass, FinishPass, TInv, PassOK
  <2>2. pass'[p].batch = {}
    BY <1>5 DEF StartPass, FailPass, FinishPass, AfterFailure, AtTarget, NoPass,
                TInv, PassOK
  <2> QED
    BY <2>1, <2>2, LateStopped
<1>6. ASSUME NEW p \in Executions, DeleteBatch(p) PROVE LateInv'
  <2>0. PICK gone : gone = WithCascade(pass[p].batch)
    OBVIOUS
  <2>1. /\ Delete(gone) /\ pass'[p].batch = {}
        /\ \A x \in Executions : x # p =>
             pass'[x] = Without(gone)[x] /\ watch'[x] = Watched(gone)[x]
    <3>1. Delete(gone) /\ pass'[p].batch = {}
      BY <1>6, <2>0, BatchStep
    <3>2. \A x \in Executions : x # p =>
             pass'[x] = Without(gone)[x] /\ watch'[x] = Watched(gone)[x]
      BY <1>6, <2>0 DEF DeleteBatch, Without, Watched
    <3> QED
      BY <3>1, <3>2
  <2>2. \A x \in Executions : /\ Without(gone)[x].batch = pass[x].batch \ gone
                              /\ Watched(gone)[x].late = watch[x].late
    BY BereftLate
  <2>3. \A x \in Executions : x # p =>
          /\ pass'[x].batch \subseteq pass[x].batch
          /\ watch[x].late \subseteq watch'[x].late
    BY <2>1, <2>2
  <2> QED
    BY <2>1, <2>3, LateStopped DEF Delete
<1>7. CASE \E p \in Executions : SelectBatch(p)
  BY <1>7, LateSelect
<1> QED
  BY <1>2, <1>3, <1>4, <1>5, <1>6, <1>7, <1>8, <1>9, <1>10 DEF Next, Retention

\* A DELETE that ends takes no map that the stack trace of an event needs which
\* was there as it began.
LEMMA BatchKeepsMaps ==
  ASSUME TInv, LateInv, NEW p \in Executions, DeleteBatch(p),
         NEW e \in Events \ CameDuringDelete, Present(e)
  PROVE  SameMaps(e)
<1> DEFINE gone == WithCascade(pass[p].batch)
<1>1. pass[p].running /\ ~ pass'[p].running /\ Delete(gone)
  BY BatchStep
<1>2. e \notin watch[p].late
  BY <1>1 DEF CameDuringDelete
<1>3. /\ e \in EventsOf(ReleaseOf[e])
      /\ \A n \in Names : <<ReleaseOf[e], n>> \in MapIds
  BY ArtifactAssumption DEF EventsOf, MapIds
<1>4. \A n \in Names : MapRow(<<ReleaseOf[e], n>>) \notin pass[p].batch
  BY <1>2, <1>3 DEF LateInv
<1>5. \A n \in Names : MapRow(<<ReleaseOf[e], n>>) \notin gone
  BY <1>3, <1>4, Cascade
<1> HIDE DEF gone
<1> QED
  BY <1>1, <1>3, <1>5 DEF Delete, SameMaps

\* The stack trace of an event that stays resolves to the same, in every step
\* that is not an upload or a deletion of maps: a DELETE of the pass takes no
\* map that an event may need which was there as it began (prune.ts:160-163),
\* deleting a project takes no map of another.
THEOREM ArtifactResolutionKept == Spec => ResolutionKept
<1> DEFINE Kept == writes' = writes => Unchanged(CameDuringDelete)
<1>1. ASSUME \A e \in Events \ CameDuringDelete :
               Present(e) /\ Present(e)' => SameMaps(e)
      PROVE  Kept
  BY <1>1, SameResolved DEF Unchanged
<1>2. ASSUME TInv, NEW w \in Writers, NEW next, BeginWrite(w, next)
      PROVE  Kept
  BY <1>2 DEF BeginWrite, TInv, RequestsOK
<1>3. ASSUME TInv, LateInv, NEW p \in Executions, DeleteBatch(p) PROVE Kept
  BY <1>1, <1>3, BatchKeepsMaps
<1>4. ASSUME TInv, NEW t, DeleteProject(t) PROVE Kept
  <2> DEFINE gone == WithCascade(rows \cap RowsOf(t))
  <2>1. /\ \A e \in Events : <<"event", e>> \in gone <=>
              Present(e) /\ ProjectOf[ReleaseOf[e]] = t
        /\ \A m \in MapIds : MapRow(m) \in gone <=>
              MapRow(m) \in rows /\ ProjectOf[m[1]] = t
    BY <1>4, ProjectGone
  <2>2. /\ rows' = rows \ gone
        /\ content' = [m \in MapIds |->
                         IF MapRow(m) \in gone THEN NoMap ELSE content[m]]
    BY <1>4 DEF DeleteProject, Delete
  <2> HIDE DEF gone
  <2>3. ASSUME NEW e \in Events, Present(e), Present(e)' PROVE SameMaps(e)
    <3>1. ProjectOf[ReleaseOf[e]] # t
      BY <2>1, <2>2, <2>3 DEF Present
    <3>2. \A n \in Names : <<ReleaseOf[e], n>> \in MapIds
      BY ArtifactAssumption DEF MapIds
    <3>3. \A n \in Names : MapRow(<<ReleaseOf[e], n>>) \notin gone
      BY <2>1, <3>1, <3>2
    <3> QED
      BY <2>2, <3>2, <3>3 DEF SameMaps
  <2> HIDE DEF Kept
  <2> QED
    BY <1>1, <2>3
<1>5. ASSUME TInv, LateInv, [Next]_vars PROVE Kept
  <2>1. CASE \/ UNCHANGED vars
             \/ \E e \in Events : AddEvent(e)
             \/ \E e \in WithReplay : PutReplay(e)
             \/ \E kinds \in Ages : GrowOld(kinds)
             \/ \E p \in Executions : \/ StartPass(p) \/ SelectBatch(p)
                                      \/ FailPass(p) \/ FinishPass(p)
             \/ \E w \in Writers : Invalidate(w) \/ FailWrite(w)
             \/ \E q \in Readers :
                  \/ \E page \in SUBSET Events : ListIssueEvents(q, page)
                  \/ ReadNames(q) \/ ReadData(q)
                  \/ \E e \in Events : FillCache(q, e)
    <3>1. content' = content
      BY <2>1 DEF vars, AddEvent, PutReplay, GrowOld, StartPass, SelectBatch,
                  FailPass, FinishPass, Invalidate, FailWrite, ListIssueEvents,
                  ReadNames, ReadData, FillCache
    <3>2. \A e \in Events : SameMaps(e)
      BY <3>1 DEF SameMaps
    <3> HIDE DEF Kept
    <3> QED
      BY <1>1, <3>2
  <2>2. ASSUME NEW w \in Writers, NEW m \in MapIds,
               NEW data \in Versions \cup {Corrupt}, UploadSourceMap(w, m, data)
        PROVE  Kept
    BY <1>2, <1>5, <2>2 DEF UploadSourceMap
  <2>3. ASSUME NEW w \in Writers, NEW r \in Releases,
               NEW names \in {{n} : n \in Names} \cup {Names},
               DeleteSourceMaps(w, r, names)
        PROVE  Kept
    BY <1>2, <1>5, <2>3 DEF DeleteSourceMaps
  <2>4. CASE \E p \in Executions : DeleteBatch(p)
    BY <1>3, <1>5, <2>4
  <2>5. CASE \E t \in Projects : DeleteProject(t)
    BY <1>4, <1>5, <2>5
  <2> HIDE DEF Kept
  <2> QED
    BY <1>5, <2>1, <2>2, <2>3, <2>4, <2>5 DEF Next, Retention
<1>6. Init => LateInv
  BY DEF Init, LateInv, NoPass
<1>7. TInv /\ LateInv /\ [Next]_vars => LateInv'
  BY LateStep
<1>8. TInv /\ LateInv /\ [Next]_vars => [Kept]_vars
  BY <1>5
<1>9. Spec => [][Kept]_vars
  BY <1>6, <1>7, <1>8, TypesInvariant, PTL DEF Spec
<1> QED
  BY <1>9, PTL DEF ResolutionKept

-----------------------------------------------------------------------------
(* What an execution leaves behind. *)

LEMMA RowKind ==
  ASSUME TInv, NEW p \in Executions, NEW row \in watch[p].mustGo
  PROVE  /\ row \in old /\ row \in Rows
         /\ \E j \in 1 .. 4 : row[1] = Targets[j]
         /\ row[1] = "sourcemap" <=> row[1] = Targets[4]
<1>1. row \in old /\ row \in Rows
  BY ExecutionKinds DEF PassFine, TInv, TablesOK
<1> QED
  BY <1>1, RowShape DEF Targets

\* An execution that is left alone, while no event goes.
LEMMA DrainStay ==
  ASSUME NEW p \in Executions, DrainOK(p), pass'[p] = pass[p],
         watch'[p].mustGo = watch[p].mustGo,
         watch'[p].disturbed = watch[p].disturbed,
         \A e \in Events : Present(e) => Present(e)'
  PROVE  DrainOK(p)'
<1>1. \A row : MayStay(p, row) => MayStay(p, row)'
  BY DEF MayStay, Orphan, EventsOf
<1> QED
  BY <1>1 DEF DrainOK

\* An execution from which somebody else takes rows: what it may leave behind
\* for that is known.
LEMMA DrainOthers ==
  ASSUME TInv, NEW p \in Executions, DrainOK(p), NEW gone, gone \subseteq rows,
         rows' = rows \ gone,
         pass'[p] = Without(gone)[p], watch'[p] = Watched(gone)[p]
  PROVE  DrainOK(p)'
<1> DEFINE r == pass'[p]
           w == watch'[p]
<1>1. /\ r.target = pass[p].target /\ r.running = pass[p].running
      /\ r.doomed = pass[p].doomed \ gone /\ r.batch = pass[p].batch \ gone
  BY ExecutionKinds DEF Without, PassRecords
<1>2. /\ w.mustGo = watch[p].mustGo \ gone
      /\ w.disturbed = watch[p].disturbed \cup Disturbed(p, gone)
  BY ExecutionKinds DEF Watched, WatchRecords
<1>3. pass[p].batch \subseteq pass[p].doomed
  BY ExecutionKinds DEF PassFine
<1>4. ASSUME NEW row, MayStay(p, row)
      PROVE  MayStay(p, row)'
  <2>1. CASE row[1] \in watch[p].disturbed
    BY <1>2, <2>1 DEF MayStay
  <2>2. CASE row[1] = "sourcemap" /\ ~ Orphan(row[2])
    <3>1. PICK e \in EventsOf(row[2][1]) : Present(e)
      BY <2>2 DEF Orphan
    <3>2. CASE <<"event", e>> \in gone
      <4>1. "sourcemap" \in w.disturbed
        BY <1>2, <3>2 DEF Disturbed
      <4> QED
        BY <2>2, <4>1 DEF MayStay
    <3>3. CASE <<"event", e>> \notin gone
      <4>1. Present(e)'
        BY <3>1, <3>3 DEF Present
      <4>2. ~ Orphan(row[2])'
        BY <3>1, <4>1 DEF Orphan, EventsOf
      <4> QED
        BY <2>2, <4>2 DEF MayStay
    <3> QED
      BY <3>2, <3>3
  <2> QED
    BY <1>4, <2>1, <2>2 DEF MayStay
<1>5. ASSUME NEW row \in w.mustGo, NEW j \in 1 .. 4, row[1] = Targets[j],
             j = r.target, r.running, Cardinality(r.batch) < BatchSize,
             row \notin r.batch
      PROVE  MayStay(p, row)'
  <2>1. row \in watch[p].mustGo /\ row \notin gone /\ row \notin pass[p].batch
    BY <1>1, <1>2, <1>5
  <2>2. CASE pass[p].batch \cap gone = {}
    <3>1. r.batch = pass[p].batch
      BY <1>1, <2>2
    <3>2. MayStay(p, row)
      BY <1>1, <1>5, <2>1, <3>1 DEF DrainOK
    <3> QED
      BY <1>4, <3>2
  <2>3. CASE pass[p].batch \cap gone # {}
    <3>1. PICK other \in pass[p].batch : other \in gone
      BY <2>3
    <3>2. other[1] = Targets[pass[p].target]
      BY <1>3, <3>1 DEF DrainOK
    <3>3. row[1] = other[1]
      BY <1>1, <1>5, <3>2
    <3>4. other[1] \in Disturbed(p, gone)
      BY <3>1 DEF Disturbed
    <3> QED
      BY <1>2, <3>3, <3>4 DEF MayStay
  <2> QED
    BY <2>2, <2>3
<1> HIDE DEF r, w
<1>6. /\ r.target = 0 => w.mustGo = {}
      /\ \A row \in r.doomed : r.target \in 1 .. 4 /\ row[1] = Targets[r.target]
      /\ \A row \in w.mustGo : row[1] \in Enabled
  BY <1>1, <1>2 DEF DrainOK
<1>7. ASSUME NEW row \in w.mustGo, NEW j \in 1 .. 4, row[1] = Targets[j]
      PROVE  /\ j < r.target => MayStay(p, row)'
             /\ j = r.target => row \in r.doomed
  <2>1. row \in watch[p].mustGo /\ row \notin gone
    BY <1>2, <1>7
  <2>2. /\ j < pass[p].target => MayStay(p, row)
        /\ j = pass[p].target => row \in pass[p].doomed
    BY <1>7, <2>1 DEF DrainOK
  <2> QED
    BY <1>1, <1>4, <2>1, <2>2
<1>8. \A row \in w.mustGo, j \in 1 .. 4 : row[1] = Targets[j] =>
        /\ j < r.target => MayStay(p, row)'
        /\ j = r.target => row \in r.doomed
        /\ (j = r.target /\ r.running /\ Cardinality(r.batch) < BatchSize)
             => row \in r.batch \/ MayStay(p, row)'
  BY <1>5, <1>7
<1> QED
  BY <1>6, <1>8 DEF DrainOK, r, w

\* A pass or another attempt begins, at its first target.
LEMMA DrainFirst ==
  ASSUME NEW p \in Executions, NEW attempts,
         pass'[p] = AtTarget(TargetFrom(1), old, attempts),
         watch'[p].mustGo \subseteq old,
         \A row \in watch'[p].mustGo : row[1] \in Enabled
  PROVE  DrainOK(p)'
<1> DEFINE t == TargetFrom(1)
<1>1. /\ t \in 1 .. 5 /\ \A j \in 1 .. 4 : j < t => Targets[j] \notin Enabled
  BY NextTarget
<1>2. /\ pass'[p].target = t /\ pass'[p].running = FALSE
      /\ pass'[p].doomed = IF t = 5 THEN {}
                           ELSE {row \in old : row[1] = Targets[t]}
  BY DEF AtTarget
<1> HIDE DEF t
<1>3. ASSUME NEW row \in watch'[p].mustGo, NEW j \in 1 .. 4, row[1] = Targets[j]
      PROVE  ~ (j < t) /\ (j = t => row \in pass'[p].doomed)
  BY <1>1, <1>2, <1>3
<1>4. pass'[p].target # 0
      /\ \A row \in pass'[p].doomed :
           pass'[p].target \in 1 .. 4 /\ row[1] = Targets[pass'[p].target]
  BY <1>1, <1>2
<1> QED
  BY <1>2, <1>3, <1>4 DEF DrainOK

\* An execution that is over.
LEMMA DrainIdle ==
  ASSUME NEW p \in Executions, pass'[p] = NoPass, watch'[p].mustGo = {}
  PROVE  DrainOK(p)'
BY DEF DrainOK, NoPass

\* The subquery picks all that there is, or as many as the batch size.
LEMMA DrainSelect ==
  ASSUME TInv, NEW p \in Executions, DrainOK(p), SelectBatch(p)
  PROVE  DrainOK(p)'
<1>1. PICK batch \in SUBSET Prunable(pass[p].doomed) :
        /\ \/ Cardinality(batch) = BatchSize
           \/ batch = Prunable(pass[p].doomed)
        /\ pass' = [pass EXCEPT ![p].running = TRUE, ![p].batch = batch]
  BY DEF SelectBatch
<1>2. /\ watch' = [watch EXCEPT ![p].late = {}] /\ rows' = rows
  BY DEF SelectBatch
<1>3. /\ pass'[p].target = pass[p].target /\ pass'[p].batch = batch
      /\ pass'[p].doomed = pass[p].doomed
  BY <1>1, ExecutionKinds DEF TInv, PassOK, PassRecords
<1>4. /\ watch'[p].mustGo = watch[p].mustGo
      /\ watch'[p].disturbed = watch[p].disturbed
  BY <1>2, ExecutionKinds DEF TInv, PassOK, WatchRecords
<1>5. \A row : MayStay(p, row)' <=> MayStay(p, row)
  BY <1>2, <1>4 DEF MayStay, Orphan, Present
<1>6. ASSUME NEW row \in watch[p].mustGo, NEW j \in 1 .. 4, row[1] = Targets[j],
             j = pass[p].target, Cardinality(batch) < BatchSize,
             row \notin batch
      PROVE  MayStay(p, row)
  <2>1. batch = Prunable(pass[p].doomed)
    BY <1>1, <1>6, ArtifactAssumption
  <2>2. row \in pass[p].doomed
    BY <1>6 DEF DrainOK
  <2> QED
    BY <1>6, <2>1, <2>2 DEF Prunable, MayStay
<1> QED
  BY <1>3, <1>4, <1>5, <1>6 DEF DrainOK

\* A DELETE commits: what its target leaves behind was not in a short batch.
LEMMA DrainBatch ==
  ASSUME TInv, NEW p \in Executions, DrainOK(p), DeleteBatch(p)
  PROVE  DrainOK(p)'
<1> DEFINE n == Cardinality(pass[p].batch)
           t == TargetFrom(pass[p].target + 1)
<1>0. PICK gone : gone = WithCascade(pass[p].batch)
  OBVIOUS
<1>1. pass[p].running /\ pass[p].target \in 1 .. 4
  BY <1>0, BatchStep
<1>2. pass[p].batch \subseteq gone /\ Delete(gone)
  BY <1>0, BatchStep
<1>3. /\ watch'[p].mustGo = watch[p].mustGo \ gone
      /\ watch'[p].disturbed = watch[p].disturbed
  BY <1>0, ExecutionKinds DEF DeleteBatch, Watched, WatchRecords
<1>4. pass'[p].running = FALSE
  BY <1>0, BatchStep
<1>5. Drained(n) => pass'[p] = AtTarget(t, old', pass[p].attempts)
  BY <1>0, BatchStep
<1>6. ~ Drained(n) => /\ pass'[p].target = pass[p].target
                      /\ pass'[p].doomed = pass[p].doomed \ gone
  BY <1>0, BatchStep
<1>7. rows' = rows \ gone
  BY <1>2 DEF Delete
<1>8. pass[p].batch \subseteq pass[p].doomed
  BY ExecutionKinds DEF PassFine
<1> HIDE DEF t
\* What a target before left stays excused: no source map is among it.
<1>9. ASSUME NEW row \in watch'[p].mustGo, NEW j \in 1 .. 4, row[1] = Targets[j],
             j < pass[p].target
      PROVE  MayStay(p, row)'
  <2>1. row \in watch[p].mustGo /\ row[1] # "sourcemap"
    BY <1>1, <1>3, <1>9 DEF Targets
  <2>2. MayStay(p, row)
    BY <1>9, <2>1 DEF DrainOK
  <2> QED
    BY <1>3, <2>1, <2>2 DEF MayStay
<1>10. CASE ~ Drained(n)
  <2>1. /\ pass'[p].target = pass[p].target
        /\ pass'[p].doomed = pass[p].doomed \ gone
    BY <1>6, <1>10
  <2>2. ASSUME NEW row \in watch'[p].mustGo, NEW j \in 1 .. 4, row[1] = Targets[j],
               j = pass[p].target
        PROVE  row \in pass'[p].doomed
    BY <1>3, <2>1, <2>2 DEF DrainOK
  <2>3. /\ \A row \in pass'[p].doomed :
             pass'[p].target \in 1 .. 4 /\ row[1] = Targets[pass'[p].target]
        /\ \A row \in watch'[p].mustGo : row[1] \in Enabled
    BY <1>3, <2>1 DEF DrainOK
  <2> QED
    BY <1>1, <1>4, <1>9, <2>1, <2>2, <2>3 DEF DrainOK
<1>11. CASE Drained(n)
  <2>1. /\ t \in pass[p].target + 1 .. 5
        /\ \A j \in pass[p].target + 1 .. 4 : j < t => Targets[j] \notin Enabled
    BY <1>1, NextTarget DEF t
  <2>2. /\ pass'[p].target = t
        /\ pass'[p].doomed = IF t = 5 THEN {}
                             ELSE {row \in old' : row[1] = Targets[t]}
    BY <1>5, <1>11 DEF AtTarget
  <2>3. /\ watch'[p].mustGo \subseteq old'
        /\ \A row \in watch'[p].mustGo : row[1] \in Enabled
    <3>1. watch[p].mustGo \subseteq old
      BY ExecutionKinds DEF PassFine
    <3> QED
      BY <1>2, <1>3, <3>1 DEF Delete, DrainOK
  <2>4. ASSUME NEW row \in watch'[p].mustGo, NEW j \in 1 .. 4, row[1] = Targets[j]
        PROVE  /\ j < t => MayStay(p, row)'
               /\ j = t => row \in pass'[p].doomed
    <3>1. row \in watch[p].mustGo /\ row \notin gone /\ row[1] \in Enabled
      BY <1>3, <2>3
    <3>2. CASE j < pass[p].target
      BY <1>1, <1>9, <2>1, <2>4, <3>2
    <3>3. CASE j = pass[p].target
      <4>1. row \notin pass[p].batch /\ n < BatchSize
        BY <1>2, <1>11, <3>1 DEF Drained
      <4>2. MayStay(p, row)
        BY <1>1, <2>4, <3>1, <3>3, <4>1 DEF DrainOK
      <4>3. CASE row[1] \in watch[p].disturbed
        BY <1>3, <2>1, <3>3, <4>3 DEF MayStay
      <4>4. CASE row[1] = "sourcemap" /\ ~ Orphan(row[2])
        <5>1. \A other \in pass[p].batch : other[1] = "sourcemap"
          BY <1>8, <2>4, <3>3, <4>4 DEF DrainOK
        <5>2. \A e \in Events : <<"event", e>> \notin pass[p].batch
          BY <5>1
        <5>3. \A e \in Events : <<"event", e>> \notin gone
          BY <1>0, <5>2, Cascade
        <5>4. ~ Orphan(row[2])'
          BY <1>7, <4>4, <5>3 DEF Orphan, Present, EventsOf
        <5> QED
          BY <2>1, <3>3, <4>4, <5>4 DEF MayStay
      <4> QED
        BY <4>2, <4>3, <4>4 DEF MayStay
    <3>4. CASE j > pass[p].target
      <4>1. ~ (j < t)
        BY <1>1, <2>1, <2>4, <3>1, <3>4
      <4>2. j = t => row \in pass'[p].doomed
        BY <2>2, <2>3, <2>4
      <4> QED
        BY <4>1, <4>2
    <3> QED
      BY <1>1, <3>2, <3>3, <3>4
  <2>5. /\ pass'[p].target # 0
        /\ \A row \in pass'[p].doomed :
             pass'[p].target \in 1 .. 4 /\ row[1] = Targets[pass'[p].target]
    BY <1>1, <2>1, <2>2
  <2> QED
    BY <1>4, <2>2, <2>3, <2>4, <2>5 DEF DrainOK
<1> QED
  BY <1>10, <1>11

LEMMA DrainStep ==
  ASSUME TInv, DrainInv, [Next]_vars PROVE DrainInv'
<1>1. ASSUME NEW p \in Executions,
             pass'[p] = pass[p], watch'[p].mustGo = watch[p].mustGo,
             watch'[p].disturbed = watch[p].disturbed,
             \A e \in Events : Present(e) => Present(e)'
      PROVE  DrainOK(p)'
  BY <1>1, DrainStay DEF DrainInv
<1>2. CASE \/ UNCHANGED vars
           \/ \E e \in WithReplay : PutReplay(e)
           \/ \E kinds \in Ages : GrowOld(kinds)
  <2>1. UNCHANGED <<pass, watch>> /\ rows \subseteq rows'
    BY <1>2 DEF vars, PutReplay, GrowOld
  <2> QED
    BY <1>1, <2>1 DEF Present, DrainInv
<1>3. ASSUME NEW e \in Events, AddEvent(e) PROVE DrainInv'
  <2>1. /\ watch' = [p \in Executions |-> [watch[p] EXCEPT
                       !.late = IF pass[p].running THEN @ \cup {e} ELSE @]]
        /\ pass' = pass /\ rows \subseteq rows'
    BY <1>3 DEF AddEvent
  <2>2. \A p \in Executions : /\ watch'[p].mustGo = watch[p].mustGo
                              /\ watch'[p].disturbed = watch[p].disturbed
    BY <2>1, ExecutionKinds DEF WatchRecords
  <2> QED
    BY <1>1, <2>1, <2>2 DEF Present, DrainInv
<1>4. ASSUME NEW w \in Writers,
             \/ \E m \in MapIds, data \in Versions \cup {Corrupt} :
                  UploadSourceMap(w, m, data)
             \/ Invalidate(w) \/ FailWrite(w)
      PROVE  DrainInv'
  <2>1. UNCHANGED <<pass, watch>> /\ rows \subseteq rows'
    BY <1>4 DEF UploadSourceMap, Invalidate, FailWrite
  <2> QED
    BY <1>1, <2>1 DEF Present, DrainInv
<1>5. ASSUME NEW q \in Readers,
             \/ \E page \in SUBSET Events : ListIssueEvents(q, page)
             \/ ReadNames(q) \/ ReadData(q)
             \/ \E e \in Events : FillCache(q, e)
      PROVE  DrainInv'
  <2>1. UNCHANGED <<pass, watch, rows>>
    BY <1>5, ReaderStep
  <2> QED
    BY <1>1, <2>1 DEF Present, DrainInv
<1>6. ASSUME NEW w \in Writers, NEW r \in Releases,
             NEW names \in {{n} : n \in Names} \cup {Names},
             DeleteSourceMaps(w, r, names)
      PROVE  DrainInv'
  <2> DEFINE gone == {MapRow(<<r, n>>) : n \in names \cap MapsIn(r)}
  <2>1. rows' = rows \ gone /\ pass' = Without(gone) /\ watch' = Watched(gone)
    BY <1>6 DEF DeleteSourceMaps, Delete
  <2>2. gone \subseteq rows
    BY DEF TInv, TablesOK, MapsIn, MapIds
  <2> HIDE DEF gone
  <2> QED
    BY <2>1, <2>2, DrainOthers DEF DrainInv
<1>7. ASSUME NEW t \in Projects, DeleteProject(t) PROVE DrainInv'
  <2> DEFINE gone == WithCascade(rows \cap RowsOf(t))
  <2>1. rows' = rows \ gone /\ pass' = Without(gone) /\ watch' = Watched(gone)
    BY <1>7 DEF DeleteProject, Delete
  <2>2. gone \subseteq rows
    BY Cascade
  <2> HIDE DEF gone
  <2> QED
    BY <2>1, <2>2, DrainOthers DEF DrainInv
\* A step of one execution that deletes nothing leaves the others alone.
<1>8. ASSUME NEW p \in Executions, DrainOK(p)',
             \/ StartPass(p) \/ SelectBatch(p) \/ FailPass(p) \/ FinishPass(p)
      PROVE  DrainInv'
  <2>1. /\ rows' = rows
        /\ \A x \in Executions : x # p =>
             pass'[x] = pass[x] /\ watch'[x] = watch[x]
    BY <1>8 DEF StartPass, SelectBatch, FailPass, FinishPass, TInv, PassOK
  <2> QED
    BY <1>1, <1>8, <2>1 DEF Present, DrainInv
<1>9. ASSUME NEW p \in Executions, StartPass(p) PROVE DrainOK(p)'
  <2>1. /\ pass'[p] = AtTarget(TargetFrom(1), old, 1)
        /\ watch'[p].mustGo = {row \in old : row[1] \in Enabled}
    BY <1>9 DEF StartPass, TInv, PassOK, NoWatch
  <2> QED
    BY <2>1, DrainFirst
<1>10. ASSUME NEW p \in Executions, SelectBatch(p) PROVE DrainOK(p)'
  BY <1>10, DrainSelect DEF DrainInv
<1>11. ASSUME NEW p \in Executions, FailPass(p) PROVE DrainOK(p)'
  <2>1. /\ pass'[p] = AfterFailure(p)
        /\ watch'[p] = IF pass'[p] = NoPass THEN NoWatch
                       ELSE [watch[p] EXCEPT !.disturbed = {}]
    BY <1>11 DEF FailPass, TInv, PassOK
  <2>2. /\ watch[p].mustGo \subseteq old
        /\ \A row \in watch[p].mustGo : row[1] \in Enabled
    BY ExecutionKinds DEF PassFine, DrainInv, DrainOK
  <2>3. watch'[p].mustGo \in {{}, watch[p].mustGo}
    BY <2>1, ExecutionKinds DEF NoWatch, WatchRecords
  <2>4. CASE pass[p].attempts = Attempts
    <3>1. pass'[p] = NoPass /\ watch'[p].mustGo = {}
      BY <2>1, <2>4 DEF AfterFailure, NoWatch
    <3> QED
      BY <3>1, DrainIdle
  <2>5. CASE pass[p].attempts # Attempts
    <3>1. pass'[p] = AtTarget(TargetFrom(1), old, pass[p].attempts + 1)
      BY <2>1, <2>5 DEF AfterFailure
    <3> DEFINE n == pass[p].attempts + 1
    <3>2. pass'[p] = AtTarget(TargetFrom(1), old, n)
      BY <3>1
    <3> HIDE DEF n
    <3> QED
      BY <2>2, <2>3, <3>2, DrainFirst
  <2> QED
    BY <2>4, <2>5
<1>12. ASSUME NEW p \in Executions, FinishPass(p) PROVE DrainOK(p)'
  <2>1. pass'[p] = NoPass /\ watch'[p].mustGo = {}
    BY <1>12 DEF FinishPass, NoWatch, TInv, PassOK
  <2> QED
    BY <2>1, DrainIdle
<1>13. ASSUME NEW p \in Executions, DeleteBatch(p) PROVE DrainInv'
  <2>1. PICK gone : gone = WithCascade(pass[p].batch)
    OBVIOUS
  <2>2. gone \subseteq rows /\ rows' = rows \ gone
    <3>1. gone \subseteq rows
      BY <2>1, Cascade, ExecutionKinds DEF PassFine, TInv, TablesOK
    <3>2. rows' = rows \ gone
      BY <1>13, <2>1 DEF DeleteBatch, Delete
    <3> QED
      BY <3>1, <3>2
  <2>3. \A x \in Executions : x # p =>
          pass'[x] = Without(gone)[x] /\ watch'[x] = Watched(gone)[x]
    BY <1>13, <2>1 DEF DeleteBatch, Without, Watched
  <2>4. DrainOK(p)'
    BY <1>13, DrainBatch DEF DrainInv
  <2>5. \A x \in Executions : x # p => DrainOK(x)'
    BY <2>2, <2>3, DrainOthers DEF DrainInv
  <2> QED
    BY <2>4, <2>5 DEF DrainInv
<1>14. ASSUME NEW p \in Executions, StartPass(p) \/ Retention(p)
       PROVE  DrainInv'
  BY <1>8, <1>9, <1>10, <1>11, <1>12, <1>13, <1>14 DEF Retention
<1> QED
  BY <1>2, <1>3, <1>4, <1>5, <1>6, <1>7, <1>14 DEF Next

\* Whatever the batch size, the failed attempts, the other executions and what
\* arrives meanwhile, an execution that has gone through all targets has left
\* none of the rows that were past their retention when it began, but for maps
\* of releases with events (prune.ts:118-121), and for tables in which somebody
\* else deleted what it counted on.
THEOREM ArtifactDrained == Spec => []DrainedAtEnd
<1>1. Init => DrainInv
  BY DEF Init, DrainInv, DrainOK, NoPass, NoWatch
<1>2. TInv /\ DrainInv /\ [Next]_vars => DrainInv'
  BY DrainStep
<1>3. TInv /\ DrainInv => DrainedAtEnd
  <2> SUFFICES ASSUME TInv, DrainInv, NEW p \in Executions, pass[p].target = 5,
                      NEW row \in watch[p].mustGo
               PROVE  MayStay(p, row)
    BY DEF DrainedAtEnd, MayStay
  <2>1. \E j \in 1 .. 4 : row[1] = Targets[j]
    BY RowKind
  <2> QED
    BY <2>1 DEF DrainInv, DrainOK
<1> QED
  BY <1>1, <1>2, <1>3, TypesInvariant, PTL DEF Spec
=============================================================================
