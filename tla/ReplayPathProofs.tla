------------------------- MODULE ReplayPathProofs -------------------------
(***************************************************************************)
(* Proofs about SdkReplay and ReplayPath: first the rolling buffer, pushed  *)
(* to and trimmed with every event (Kept); then the inductive invariant:    *)
(* SdkInv of the page that records (its clients, buffers, uploads and the   *)
(* windows of its map) and ViewInv of the one that plays (the page, the     *)
(* mounted player, its bridge and its mail).                                *)
(***************************************************************************)
EXTENDS ReplayPath, FiniteSetTheorems, SequenceTheorems, WellFoundedInduction,
        TLAPS

-----------------------------------------------------------------------------
(* The least and the greatest of some numbers. *)

Below == {p \in Nat \X Nat : p[1] < p[2]}

LEMMA LeastOf ==
  ASSUME NEW S, S \subseteq Nat, S # {}
  PROVE  \E x \in S : \A y \in S : x <= y
<1>1. IsWellFoundedOn(Below, Nat)
  BY NatLessThanWellFounded DEF OpToRel, Below
<1>2. PICK x \in S : \A y \in S : ~ (<<y, x>> \in Below)
  BY <1>1, WFMin
<1>3. ASSUME NEW y \in S PROVE x <= y
  <2>1. x \in Nat /\ y \in Nat
    OBVIOUS
  <2>2. ASSUME y < x PROVE <<y, x>> \in Below
    BY <2>1, <2>2 DEF Below
  <2>3. ~ (y < x)
    BY <1>2, <2>2
  <2> QED
    BY <2>1, <2>3
<1> QED
  BY <1>3

LEMMA EarliestOf ==
  ASSUME NEW S, S \subseteq Nat, S # {}
  PROVE  Earliest(S) \in S /\ \A j \in S : Earliest(S) <= j
BY LeastOf DEF Earliest

LEMMA LatestOf ==
  ASSUME NEW n \in Nat, NEW S, S \subseteq 0 .. n, S # {}
  PROVE  Latest(S) \in S /\ \A j \in S : j <= Latest(S)
<1> DEFINE T == {k \in 0 .. n : n - k \in S}
<1>1. ASSUME NEW j \in S PROVE n - j \in T /\ n - (n - j) = j
  OBVIOUS
<1>2. T \subseteq Nat /\ T # {}
  <2>1. PICK j \in S : TRUE
    OBVIOUS
  <2>2. n - j \in T
    BY <1>1
  <2>3. T \subseteq Nat
    BY DEF T
  <2> QED
    BY <2>2, <2>3
<1> HIDE DEF T
<1>3. PICK k \in T : \A l \in T : k <= l
  BY <1>2, LeastOf
<1>4. n - k \in S
  BY DEF T
<1>5. \A j \in S : j <= n - k
  <2> TAKE j \in S
  <2>1. k <= n - j
    BY <1>1, <1>3
  <2>2. k \in 0 .. n /\ j \in 0 .. n
    BY DEF T
  <2> QED
    BY <2>1, <2>2
<1>6. \E i \in S : \A j \in S : j <= i
  BY <1>4, <1>5
<1> QED
  BY <1>6 DEF Latest

-----------------------------------------------------------------------------
(* The rolling buffer. *)

Recorded ==
  [type : {"dom", "load", "meta", "full", "change"}, at : 0 .. MaxTime]

Fulls(events) == IndexesOf("full", events)

\* kept is what events has from s on, after p events, which are a Meta.
From(events, kept, s, p) ==
  /\ s \in 1 .. Len(events) /\ p \in {0, 1}
  /\ Len(kept) = p + (Len(events) - s) + 1
  /\ p = 1 => kept[1].type = "meta"
  /\ \A i \in s .. Len(events) : kept[p + (i - s) + 1] = events[i]

LEMMA FullsIn ==
  ASSUME NEW events \in EventSeq
  PROVE  /\ Fulls(events) = {i \in 1 .. Len(events) : events[i].type = "full"}
         /\ Fulls(events) \subseteq 1 .. Len(events)
         /\ Fulls(events) \subseteq Nat
         /\ Fulls(events) \subseteq 0 .. Len(events) /\ Len(events) \in Nat
<1>1. Len(events) \in Nat /\ DOMAIN events = 1 .. Len(events)
  BY DEF EventSeq
<1> QED
  BY <1>1 DEF Fulls, IndexesOf

\* Where the kept events begin.
LEMMA AnchorFull ==
  ASSUME NEW events \in EventSeq, NEW at \in Nat
  PROVE  /\ Fulls(events) = {} => Anchor(events, at) = 0
         /\ Fulls(events) # {} =>
              /\ Anchor(events, at) \in Fulls(events)
              /\ \/ events[Anchor(events, at)].at + ReplayWindow <= at
                 \/ \A j \in Fulls(events) : Anchor(events, at) <= j
<1> DEFINE old == {i \in Fulls(events) : events[i].at + ReplayWindow <= at}
<1>1. Anchor(events, at) =
        IF old # {} THEN Latest(old)
        ELSE IF Fulls(events) # {} THEN Earliest(Fulls(events)) ELSE 0
  BY DEF Anchor, Fulls, None
<1>2. CASE old # {}
  <2>1. old \subseteq 0 .. Len(events) /\ Len(events) \in Nat
    BY FullsIn
  <2> HIDE DEF old
  <2>2. Latest(old) \in old
    BY <1>2, <2>1, LatestOf
  <2> QED
    BY <1>1, <1>2, <2>2 DEF old
<1>3. CASE old = {} /\ Fulls(events) # {}
  BY <1>1, <1>3, EarliestOf, FullsIn
<1>4. CASE old = {} /\ Fulls(events) = {}
  BY <1>1, <1>4
<1> QED
  BY <1>2, <1>3, <1>4

LEMMA TrimKeeps ==
  ASSUME NEW events \in EventSeq, NEW at \in Nat
  PROVE  /\ TrimReplayBuffer(events, at) \in EventSeq
         /\ Fulls(events) = {} => TrimReplayBuffer(events, at) = events
         /\ Fulls(events) # {} => \E p \in {0, 1} :
              From(events, TrimReplayBuffer(events, at), Anchor(events, at), p)
<1> DEFINE start == Anchor(events, at)
           meta == {i \in IndexesOf("meta", events) : i < start}
           kept == SubSeq(events, start, Len(events))
<1>1. TrimReplayBuffer(events, at) =
        IF start <= 1 THEN events
        ELSE IF meta = {} THEN kept ELSE <<events[Latest(meta)]>> \o kept
  BY DEF TrimReplayBuffer
<1>2. events \in Seq(Recorded) /\ Len(events) \in Nat
      /\ DOMAIN events = 1 .. Len(events)
  BY DEF EventSeq, Recorded
<1>3. start = 0 \/ start \in 1 .. Len(events)
  BY AnchorFull, FullsIn
<1>4. CASE start <= 1
  <2>1. TrimReplayBuffer(events, at) = events
    BY <1>1, <1>4
  <2>2. ASSUME Fulls(events) # {} PROVE From(events, events, start, 0)
    <3>1. start = 1 /\ 1 <= Len(events)
      BY <1>3, <1>4, <2>2, AnchorFull, FullsIn
    <3> HIDE DEF start
    <3> QED
      BY <1>2, <3>1 DEF From
  <2> QED
    BY <2>1, <2>2
<1>5. CASE start > 1
  <2>1. start \in 1 .. Len(events) /\ start > 1 /\ Fulls(events) # {}
    BY <1>3, <1>5, AnchorFull
  <2>2. meta \subseteq 0 .. Len(events) /\ meta \subseteq 1 .. Len(events)
        /\ \A i \in meta : events[i].type = "meta"
    BY <1>2 DEF IndexesOf
  <2> HIDE DEF start, meta
  <2>3. /\ kept \in Seq(Recorded) /\ Len(kept) = (Len(events) - start) + 1
        /\ \A i \in 1 .. (Len(events) - start) + 1 :
             kept[i] = events[(start + i) - 1]
    BY <1>2, <2>1
  <2>4. \A i \in start .. Len(events) :
          /\ (i - start) + 1 \in 1 .. (Len(events) - start) + 1
          /\ kept[(i - start) + 1] = events[i]
    <3> TAKE i \in start .. Len(events)
    <3>1. (i - start) + 1 \in 1 .. (Len(events) - start) + 1
          /\ (start + ((i - start) + 1)) - 1 = i
      BY <1>2, <2>1
    <3> QED
      BY <2>3, <3>1
  <2> HIDE DEF kept
  <2>5. CASE meta = {}
    <3>1. TrimReplayBuffer(events, at) = kept
      BY <1>1, <2>1, <2>5
    <3>2. From(events, kept, start, 0)
      BY <1>2, <2>1, <2>3, <2>4 DEF From
    <3> QED
      BY <2>1, <2>3, <3>1, <3>2 DEF EventSeq, Recorded, start
  <2>6. CASE meta # {}
    <3> DEFINE m == events[Latest(meta)]
               all == <<m>> \o kept
    <3>1. Latest(meta) \in meta
      BY <1>2, <2>2, <2>6, LatestOf
    <3>2. m \in Recorded /\ m.type = "meta"
      BY <1>2, <2>2, <3>1
    <3>3. TrimReplayBuffer(events, at) = all
      BY <1>1, <2>1, <2>6
    <3> HIDE DEF m
    <3>4. /\ all \in Seq(Recorded) /\ Len(all) = 1 + Len(kept) /\ all[1] = m
          /\ \A i \in 1 .. Len(kept) : all[1 + i] = kept[i]
      BY <2>3, <3>2
    <3> HIDE DEF all
    <3>5. From(events, all, start, 1)
      BY <1>2, <2>1, <2>3, <2>4, <3>2, <3>4 DEF From
    <3> QED
      BY <2>1, <3>3, <3>4, <3>5 DEF EventSeq, Recorded, start
  <2> QED
    BY <2>5, <2>6
<1> QED
  BY <1>3, <1>4, <1>5

LEMMA Numbers ==
  /\ ReplayWindow \in Nat /\ FlushDelay \in Nat /\ MapWindow \in Nat
  /\ MaxPerWindow \in Nat /\ MaxPerWindow > 0
  /\ MaxTime \in Nat /\ MaxInits \in Nat
BY SdkAssumption

LEMMA EventAt ==
  ASSUME NEW events \in EventSeq, NEW i \in 1 .. Len(events)
  PROVE  events[i] \in Recorded /\ events[i].at \in Nat
<1>1. events \in Seq(Recorded)
  BY DEF EventSeq, Recorded
<1>2. events[i] \in Recorded
  BY <1>1
<1> QED
  BY <1>2, Numbers DEF Recorded

-----------------------------------------------------------------------------
(* A recorder: what it has kept of what rrweb emitted. *)

Ordered(events, at) ==
  \A i, j \in 1 .. Len(events) :
    i <= j => events[i].at <= events[j].at /\ events[j].at <= at

\* Every event before s that came after a full snapshot is out of the window.
OldBefore(events, s, at) ==
  \A f \in Fulls(events), j \in 1 .. Len(events) :
    f <= j /\ j < s => events[j].at + ReplayWindow <= at

Kept(emitted, kept, at) ==
  /\ Ordered(emitted, at)
  /\ Fulls(emitted) = {} => kept = emitted
  /\ Fulls(emitted) # {} => \E s \in Fulls(emitted), p \in {0, 1} :
       From(emitted, kept, s, p) /\ OldBefore(emitted, s, at)

LEMMA KeptLater ==
  ASSUME NEW emitted \in EventSeq, NEW kept, NEW at \in Nat, NEW later \in Nat,
         at <= later, Kept(emitted, kept, at)
  PROVE  Kept(emitted, kept, later)
<1>1. \A i \in 1 .. Len(emitted) : emitted[i].at \in Nat
  BY EventAt
<1>2. Ordered(emitted, later)
  BY <1>1 DEF Kept, Ordered
<1>3. \A s : OldBefore(emitted, s, at) => OldBefore(emitted, s, later)
  BY <1>1, Numbers DEF OldBefore
<1> QED
  BY <1>2, <1>3 DEF Kept

LEMMA KeptPushed ==
  ASSUME NEW emitted \in EventSeq, NEW kept \in EventSeq, NEW at \in Nat,
         Kept(emitted, kept, at), NEW event \in Recorded, event.at = at
  PROVE  /\ Append(emitted, event) \in EventSeq
         /\ TrimReplayBuffer(Append(kept, event), at) \in EventSeq
         /\ Kept(Append(emitted, event),
                 TrimReplayBuffer(Append(kept, event), at), at)
<1> DEFINE E == Append(emitted, event)
           B == Append(kept, event)
           K == TrimReplayBuffer(B, at)
<1>1. /\ E \in EventSeq /\ B \in EventSeq
      /\ Len(emitted) \in Nat /\ Len(kept) \in Nat
      /\ Len(E) = Len(emitted) + 1 /\ Len(B) = Len(kept) + 1
      /\ E[Len(E)] = event /\ B[Len(B)] = event
      /\ \A i \in 1 .. Len(emitted) : E[i] = emitted[i]
      /\ \A i \in 1 .. Len(kept) : B[i] = kept[i]
  BY DEF EventSeq, Recorded
<1>2. K \in EventSeq
  BY <1>1, TrimKeeps
<1> HIDE DEF E, B, K
<1>3. \A i \in 1 .. Len(E) : E[i].at \in Nat
  BY <1>1, EventAt
<1>10. /\ Len(emitted) \in Nat /\ Len(kept) \in Nat
       /\ Len(E) = Len(emitted) + 1 /\ Len(B) = Len(kept) + 1
  BY <1>1
<1>4. Ordered(E, at)
  <2> SUFFICES ASSUME NEW i \in 1 .. Len(E), NEW j \in 1 .. Len(E), i <= j
               PROVE  E[i].at <= E[j].at /\ E[j].at <= at
    BY DEF Ordered
  <2>1. CASE j = Len(E)
    <3>1. CASE i = Len(E)
      BY <1>1, <1>3, <2>1, <3>1
    <3>2. CASE i # Len(E)
      BY <1>1, <1>3, <2>1, <3>2 DEF Kept, Ordered
    <3> QED
      BY <3>1, <3>2
  <2>2. CASE j # Len(E)
    <3>1. i \in 1 .. Len(emitted) /\ j \in 1 .. Len(emitted)
      BY <1>1, <2>2
    <3> QED
      BY <1>1, <3>1 DEF Kept, Ordered
  <2> QED
    BY <2>1, <2>2
<1>5. /\ Fulls(emitted) = {i \in 1 .. Len(emitted) : emitted[i].type = "full"}
      /\ Fulls(E) = {i \in 1 .. Len(E) : E[i].type = "full"}
      /\ Fulls(B) = {i \in 1 .. Len(B) : B[i].type = "full"}
  BY <1>1, FullsIn
<1>6. Fulls(E) = Fulls(emitted)
                   \cup (IF event.type = "full" THEN {Len(E)} ELSE {})
  <2>1. ASSUME NEW i \in 1 .. Len(E)
        PROVE  i \in Fulls(E) <=>
                 (i \in Fulls(emitted) \/ (i = Len(E) /\ event.type = "full"))
    <3>1. CASE i = Len(E)
      BY <1>1, <1>5, <1>10, <3>1
    <3>2. CASE i # Len(E)
      <4>1. i \in 1 .. Len(emitted) /\ E[i] = emitted[i]
        BY <1>1, <1>10, <3>2
      <4>2. i \in Fulls(E) <=> E[i].type = "full"
        BY <1>5
      <4>3. i \in Fulls(emitted) <=> emitted[i].type = "full"
        BY <1>5, <4>1
      <4> QED
        BY <3>2, <4>1, <4>2, <4>3
    <3> QED
      BY <3>1, <3>2
  <2>2. Len(E) \in 1 .. Len(E) /\ 1 .. Len(emitted) \subseteq 1 .. Len(E)
    BY <1>10
  <2>3. Fulls(E) \subseteq 1 .. Len(E) /\ Fulls(emitted) \subseteq 1 .. Len(E)
    BY <1>5, <2>2
  <2>4. CASE event.type = "full"
    BY <2>1, <2>2, <2>3, <2>4
  <2>5. CASE event.type # "full"
    BY <2>1, <2>2, <2>3, <2>5
  <2> QED
    BY <2>4, <2>5
\* No full snapshot yet: everything is kept.
<1>7. CASE Fulls(E) = {}
  <2>1. Fulls(emitted) = {} /\ kept = emitted
    BY <1>6, <1>7 DEF Kept
  <2>2. B = E
    BY <2>1 DEF B, E
  <2>3. K = E
    BY <1>1, <1>7, <2>2, TrimKeeps DEF K
  <2> QED
    BY <1>1, <1>2, <1>4, <1>7, <2>3 DEF Kept, E, B, K
\* The first one.
<1>8. CASE Fulls(E) # {} /\ Fulls(emitted) = {}
  <2>1. B = E
    BY <1>8 DEF B, E, Kept
  <2>2. PICK p \in {0, 1} : From(E, K, Anchor(E, at), p)
    BY <1>1, <1>8, <2>1, TrimKeeps DEF K
  <2>3. Fulls(E) = {Len(E)}
    BY <1>6, <1>8
  <2>4. Anchor(E, at) \in Fulls(E)
    BY <1>1, <1>8, AnchorFull
  <2>5. OldBefore(E, Anchor(E, at), at)
    BY <1>1, <2>3, <2>4 DEF OldBefore
  <2> QED
    BY <1>1, <1>2, <1>4, <1>8, <2>2, <2>4, <2>5 DEF Kept, E, B, K
\* One more event after it: the buffer begins where it did or later.
<1>9. CASE Fulls(emitted) # {}
  <2>1. PICK s \in Fulls(emitted), p \in {0, 1} :
          From(emitted, kept, s, p) /\ OldBefore(emitted, s, at)
    BY <1>9 DEF Kept
  <2>2. /\ s \in 1 .. Len(emitted) /\ emitted[s].type = "full"
        /\ Len(kept) = p + (Len(emitted) - s) + 1
        /\ p = 1 => kept[1].type = "meta"
        /\ \A i \in s .. Len(emitted) : kept[p + (i - s) + 1] = emitted[i]
    BY <1>5, <2>1 DEF From
  <2>20. /\ s \in 1 .. Len(emitted)
         /\ Len(kept) = p + (Len(emitted) - s) + 1
    BY <2>2
  <2>3. /\ Len(B) = p + (Len(E) - s) + 1
        /\ p = 1 => B[1].type = "meta"
    BY <1>1, <2>2
  <2>4. \A i \in s .. Len(E) : B[p + (i - s) + 1] = E[i]
    <3> TAKE i \in s .. Len(E)
    <3>1. CASE i = Len(E)
      <4>1. p + (i - s) + 1 = Len(B)
        BY <1>1, <2>2, <2>3, <3>1
      <4> QED
        BY <1>1, <3>1, <4>1
    <3>2. CASE i # Len(E)
      <4>1. i \in s .. Len(emitted) /\ i \in 1 .. Len(emitted)
            /\ p + (i - s) + 1 \in 1 .. Len(kept)
        BY <1>10, <2>20, <3>2
      <4> QED
        BY <1>1, <2>2, <4>1
    <3> QED
      BY <3>1, <3>2
  <2>5. p + 1 \in Fulls(B)
    <3>1. s \in s .. Len(E) /\ p + 1 \in 1 .. Len(B) /\ p + (s - s) + 1 = p + 1
      BY <1>10, <2>20
    <3>2. B[p + (s - s) + 1] = E[s] /\ E[s] = emitted[s]
      BY <1>1, <2>4, <2>20, <3>1
    <3> QED
      BY <1>5, <2>2, <3>1, <3>2
  <2> DEFINE a == Anchor(B, at)
             u == (a - p) + s - 1
  <2>6. /\ a \in Fulls(B)
        /\ B[a].at + ReplayWindow <= at \/ a <= p + 1
    BY <1>1, <2>5, AnchorFull
  <2>7. PICK q \in {0, 1} : From(B, K, a, q)
    BY <1>1, <2>5, TrimKeeps DEF K
  <2> HIDE DEF a
  <2>8. a \in 1 .. Len(B) /\ B[a].type = "full" /\ a > p
    <3>1. a \in 1 .. Len(B) /\ B[a].type = "full"
      BY <1>5, <2>6
    <3> QED
      BY <2>2, <2>3, <3>1
  <2>9. u \in s .. Len(E) /\ p + (u - s) + 1 = a
    BY <1>10, <2>8, <2>20
  <2>10. B[a] = E[u] /\ u \in 1 .. Len(E) /\ u \in Fulls(E)
    <3>1. B[a] = E[u]
      BY <2>4, <2>9
    <3>2. u \in 1 .. Len(E)
      BY <1>1, <2>2, <2>9
    <3> QED
      BY <1>5, <2>8, <3>1, <3>2
  <2>11. From(E, K, u, q)
    <3>1. Len(K) = q + (Len(E) - u) + 1 /\ (q = 1 => K[1].type = "meta")
      BY <1>1, <2>2, <2>3, <2>7, <2>8 DEF From
    <3>2. ASSUME NEW i \in u .. Len(E)
          PROVE  K[q + (i - u) + 1] = E[i]
      <4> DEFINE x == p + (i - s) + 1
      <4>1. /\ i \in s .. Len(E) /\ x \in a .. Len(B)
            /\ q + (x - a) + 1 = q + (i - u) + 1
        BY <1>10, <2>8, <2>9, <2>20
      <4>2. K[q + (x - a) + 1] = B[x]
        BY <2>7, <4>1 DEF From
      <4>3. B[x] = E[i]
        BY <2>4, <4>1
      <4> QED
        BY <4>1, <4>2, <4>3
    <3> HIDE DEF u
    <3> QED
      BY <2>10, <3>1, <3>2 DEF From
  <2>12. OldBefore(E, u, at)
    <3> SUFFICES ASSUME NEW f \in Fulls(E), NEW j \in 1 .. Len(E), f <= j, j < u
                 PROVE  E[j].at + ReplayWindow <= at
      BY DEF OldBefore
    <3>1. f \in 1 .. Len(E) /\ j # Len(E)
      BY <1>1, <1>5, <2>9
    <3>2. j \in 1 .. Len(emitted) /\ f \in 1 .. Len(emitted) /\ f # Len(E)
      BY <1>1, <3>1
    <3>3. f \in Fulls(emitted)
      BY <1>6, <3>2
    <3>4. CASE j < s
      BY <1>1, <2>1, <3>2, <3>3, <3>4 DEF OldBefore
    <3>5. CASE ~ (j < s)
      <4>1. ~ (a <= p + 1)
        BY <1>10, <2>8, <2>20, <3>2, <3>5
      <4>2. E[u].at + ReplayWindow <= at
        BY <2>6, <2>10, <4>1
      <4>3. E[j].at <= E[u].at
        BY <1>4, <2>10 DEF Ordered
      <4>4. E[j].at \in Nat /\ E[u].at \in Nat
        BY <1>3, <2>10
      <4> QED
        BY <4>2, <4>3, <4>4, Numbers
    <3> QED
      BY <3>4, <3>5
  <2> HIDE DEF u
  <2>13. Kept(E, K, at)
    BY <1>4, <2>10, <2>11, <2>12 DEF Kept
  <2> QED
    BY <1>1, <1>2, <2>13 DEF E, B, K
<1> QED
  BY <1>7, <1>8, <1>9

\* What Kept means for who plays it.
LEMMA KeptPlayable ==
  ASSUME NEW emitted \in EventSeq, NEW kept \in EventSeq, NEW at \in Nat,
         Kept(emitted, kept, at), Fulls(emitted) # {}
  PROVE  /\ \/ kept[1].type = "full"
            \/ kept[1].type = "meta" /\ kept[2].type = "full"
         /\ \A i \in Earliest(Fulls(emitted)) .. Len(emitted) :
              emitted[i].at + ReplayWindow > at =>
                IsSuffix(SubSeq(emitted, i, Len(emitted)), kept)
<1>1. PICK s \in Fulls(emitted), p \in {0, 1} :
        From(emitted, kept, s, p) /\ OldBefore(emitted, s, at)
  BY DEF Kept
<1>2. /\ s \in 1 .. Len(emitted) /\ emitted[s].type = "full"
      /\ Len(emitted) \in Nat /\ Fulls(emitted) \subseteq Nat
  BY FullsIn
<1>3. kept[p + 1] = emitted[s]
  <2>1. s \in s .. Len(emitted) /\ p + (s - s) + 1 = p + 1
    BY <1>2
  <2> QED
    BY <1>1, <2>1 DEF From
<1>4. \/ kept[1].type = "full"
      \/ kept[1].type = "meta" /\ kept[2].type = "full"
  BY <1>1, <1>2, <1>3 DEF From
<1>5. Earliest(Fulls(emitted)) \in Fulls(emitted)
  BY <1>2, EarliestOf
<1>6. ASSUME NEW i \in Earliest(Fulls(emitted)) .. Len(emitted),
             emitted[i].at + ReplayWindow > at
      PROVE  IsSuffix(SubSeq(emitted, i, Len(emitted)), kept)
  <2>1. i \in 1 .. Len(emitted)
    BY <1>5, FullsIn
  <2>2. ~ (i < s)
    <3>1. emitted[i].at \in Nat
      BY <2>1, EventAt
    <3> QED
      BY <1>1, <1>5, <1>6, <2>1, <3>1, Numbers DEF OldBefore
  <2>3. i \in s .. Len(emitted)
    BY <1>2, <2>1, <2>2
  <2> DEFINE t == SubSeq(emitted, i, Len(emitted))
             n == (Len(emitted) - i) + 1
  <2>4. emitted \in Seq(Recorded) /\ kept \in Seq(Recorded)
    BY DEF EventSeq, Recorded
  <2>5. /\ t \in Seq(Recorded) /\ Len(t) = n
        /\ \A k \in 1 .. n : t[k] = emitted[(i + k) - 1]
    BY <1>2, <2>1, <2>4
  <2>6. Len(kept) = p + (Len(emitted) - s) + 1 /\ Len(kept) \in Nat
    BY <1>1, <2>4 DEF From
  <2>7. n \in Nat /\ n <= Len(kept) /\ Len(kept) - n = p + (i - s)
    BY <1>2, <2>3, <2>6
  <2>8. \A k \in 1 .. n : t[k] = kept[(Len(kept) - n) + k]
    <3> TAKE k \in 1 .. n
    <3> DEFINE r == Len(kept) - n
    <3>1. p \in Nat /\ s \in Nat /\ i \in Nat /\ k \in Nat /\ r = p + (i - s)
      BY <1>2, <2>3, <2>7
    <3>2. (i + k) - 1 \in s .. Len(emitted)
      BY <1>2, <2>3
    <3> HIDE DEF r
    <3>3. p + (((i + k) - 1) - s) + 1 = r + k
      BY <3>1
    <3>4. kept[p + (((i + k) - 1) - s) + 1] = emitted[(i + k) - 1]
      BY <1>1, <3>2 DEF From
    <3> QED
      BY <2>5, <3>3, <3>4 DEF r
  <2> HIDE DEF t, n
  <2>9. /\ Reverse(t) = [k \in 1 .. n |-> t[(n - k) + 1]]
        /\ Reverse(kept) = [k \in 1 .. Len(kept) |-> kept[(Len(kept) - k) + 1]]
    BY <2>5 DEF Reverse
  <2>10. /\ Reverse(t) \in Seq(Recorded) /\ Len(Reverse(t)) = n
         /\ Reverse(kept) \in Seq(Recorded) /\ Len(Reverse(kept)) = Len(kept)
    <3>1. ASSUME NEW u \in Seq(Recorded), Len(u) \in Nat
          PROVE  [k \in 1 .. Len(u) |-> u[(Len(u) - k) + 1]] \in Seq(Recorded)
      BY <3>1
    <3>2. Reverse(t) \in Seq(Recorded) /\ Reverse(kept) \in Seq(Recorded)
      BY <2>4, <2>5, <2>6, <2>7, <2>9, <3>1
    <3>3. DOMAIN Reverse(t) = 1 .. n /\ DOMAIN Reverse(kept) = 1 .. Len(kept)
      BY <2>9
    <3> QED
      BY <2>6, <2>7, <3>2, <3>3
  <2>11. /\ SubSeq(Reverse(kept), 1, n) \in Seq(Recorded)
         /\ Len(SubSeq(Reverse(kept), 1, n)) = n
         /\ \A k \in 1 .. n : SubSeq(Reverse(kept), 1, n)[k] = Reverse(kept)[k]
    BY <2>6, <2>7, <2>10
  <2>12. \A k \in 1 .. n : Reverse(kept)[k] = Reverse(t)[k]
    <3> TAKE k \in 1 .. n
    <3>1. (n - k) + 1 \in 1 .. n
          /\ (Len(kept) - n) + ((n - k) + 1) = (Len(kept) - k) + 1
          /\ k \in 1 .. Len(kept)
      BY <2>6, <2>7
    <3> QED
      BY <2>8, <2>9, <3>1
  <2>13. /\ SubSeq(Reverse(t), 1, n) \in Seq(Recorded)
         /\ Len(SubSeq(Reverse(t), 1, n)) = n
         /\ \A k \in 1 .. n : SubSeq(Reverse(t), 1, n)[k] = Reverse(t)[k]
    BY <2>7, <2>10
  <2>14. SubSeq(Reverse(t), 1, n) = SubSeq(Reverse(kept), 1, n)
    BY <2>11, <2>12, <2>13, SeqEqual
  <2>15. IsPrefix(Reverse(t), Reverse(kept))
    BY <2>7, <2>10, <2>14 DEF IsPrefix
  <2> QED
    BY <2>15 DEF IsSuffix, t
<1> QED
  BY <1>4, <1>6

-----------------------------------------------------------------------------
(* What the recorders do.                                                  *)

Recorder == [running : BOOLEAN, loaded : BOOLEAN,
             emitted : EventSeq, kept : EventSeq]

\* Who records: the active client at most.
ClientsOK ==
  /\ now \in 0 .. MaxTime
  /\ recorders \in Seq(Recorder) /\ Len(recorders) <= MaxInits
  /\ active \in {None} \cup 1 .. Len(recorders)
  /\ \A c \in 1 .. Len(recorders) : recorders[c].running => c = active

BuffersOK ==
  \A c \in 1 .. Len(recorders) :
    Kept(recorders[c].emitted, recorders[c].kept, now)

\* A timer and what it uploads belong to the client that captured the error.
UploadsOK ==
  /\ captured \in Seq(Clients)
  /\ \A timer \in timers :
       /\ timer.error \in 1 .. Len(captured)
       /\ timer.client \in 1 .. Len(recorders)
       /\ captured[timer.error] = timer.client
  /\ \A sent \in replays :
       /\ sent.error \in 1 .. Len(captured)
       /\ captured[sent.error] = sent.client

\* The forwarded errors: those up to a are out of the reach of the window that
\* is open, those up to b came before it.
WindowAt(a, b) ==
  /\ a \in 0 .. Len(forwards) /\ b \in 0 .. Len(forwards) /\ a <= b
  /\ Len(forwards) - b <= wired.count /\ wired.count <= MaxPerWindow
  /\ b - a <= MaxPerWindow
  /\ \A j \in 1 .. a : forwards[j] + MapWindow <= wired.start
  /\ \A j \in 1 .. b : forwards[j] <= wired.start

FloodOK ==
  /\ wired \in [on : BOOLEAN, start : Nat, count : Nat]
  /\ wired.start <= now
  /\ forwards \in Seq(Nat)
  /\ \A j \in 1 .. Len(forwards) : forwards[j] <= now
  /\ wired.on => \E a, b \in 0 .. Len(forwards) : WindowAt(a, b)
  /\ MapFloodBounded

SdkInv == ClientsOK /\ BuffersOK /\ UploadsOK /\ FloodOK


LEMMA PushOK ==
  ASSUME now \in 0 .. MaxTime, NEW r \in Recorder,
         Kept(r.emitted, r.kept, now),
         NEW type \in {"dom", "load", "meta", "full", "change"}
  PROVE  /\ Push(r, type) \in Recorder
         /\ Push(r, type).running = r.running
         /\ Kept(Push(r, type).emitted, Push(r, type).kept, now)
<1>1. Event(type) \in Recorded /\ Event(type).at = now
  BY DEF Event, Recorded
<1>2. now \in Nat
  BY Numbers
<1>3. r.emitted \in EventSeq /\ r.kept \in EventSeq
      /\ r.running \in BOOLEAN /\ r.loaded \in BOOLEAN
  BY DEF Recorder
<1>4. /\ Append(r.emitted, Event(type)) \in EventSeq
      /\ TrimReplayBuffer(Append(r.kept, Event(type)), now) \in EventSeq
      /\ Kept(Append(r.emitted, Event(type)),
              TrimReplayBuffer(Append(r.kept, Event(type)), now), now)
  BY <1>1, <1>2, <1>3, KeptPushed
<1> QED
  BY <1>3, <1>4 DEF Push, Recorder

LEMMA CheckoutOK ==
  ASSUME now \in 0 .. MaxTime, NEW r \in Recorder,
         Kept(r.emitted, r.kept, now)
  PROVE  /\ Checkout(r) \in Recorder
         /\ Checkout(r).running = r.running
         /\ Kept(Checkout(r).emitted, Checkout(r).kept, now)
<1> DEFINE m == Push(r, "meta")
<1>1. m \in Recorder /\ m.running = r.running /\ Kept(m.emitted, m.kept, now)
  BY PushOK
<1> HIDE DEF m
<1>2. /\ Push(m, "full") \in Recorder
      /\ Push(m, "full").running = m.running
      /\ Kept(Push(m, "full").emitted, Push(m, "full").kept, now)
  BY <1>1, PushOK
<1> QED
  BY <1>1, <1>2 DEF Checkout, m

\* One recorder goes on.
LEMMA RecorderGoesOn ==
  ASSUME ClientsOK, BuffersOK, NEW c \in 1 .. Len(recorders),
         NEW r \in Recorder, r.running => recorders[c].running,
         Kept(r.emitted, r.kept, now),
         recorders' = [recorders EXCEPT ![c] = r],
         now' = now, active' = active
  PROVE  ClientsOK' /\ BuffersOK' /\ Len(recorders') = Len(recorders)
<1>1. /\ recorders' \in Seq(Recorder) /\ Len(recorders') = Len(recorders)
      /\ \A d \in 1 .. Len(recorders) :
           recorders'[d] = IF d = c THEN r ELSE recorders[d]
  BY DEF ClientsOK
<1>2. ClientsOK'
  BY <1>1 DEF ClientsOK
<1>3. BuffersOK'
  BY <1>1 DEF BuffersOK
<1> QED
  BY <1>1, <1>2, <1>3

LEMMA EmitKeeps ==
  ASSUME ClientsOK, BuffersOK, Emit
  PROVE  ClientsOK' /\ BuffersOK' /\ Len(recorders') = Len(recorders)
<1>1. PICK c \in DOMAIN recorders :
        recorders' = [recorders EXCEPT ![c] =
          IF CheckoutDue(@) THEN Checkout(Push(@, "change"))
          ELSE Push(@, "change")]
  BY DEF Emit
<1>2. c \in 1 .. Len(recorders) /\ recorders[c] \in Recorder
  BY DEF ClientsOK
<1> DEFINE p == Push(recorders[c], "change")
<1>3. /\ p \in Recorder /\ p.running = recorders[c].running
      /\ Kept(p.emitted, p.kept, now)
  BY <1>2, PushOK DEF ClientsOK, BuffersOK
<1> HIDE DEF p
<1>4. /\ Checkout(p) \in Recorder /\ Checkout(p).running = p.running
      /\ Kept(Checkout(p).emitted, Checkout(p).kept, now)
  BY <1>3, CheckoutOK DEF ClientsOK
<1>5. recorders' = [recorders EXCEPT ![c] =
        IF CheckoutDue(recorders[c]) THEN Checkout(p) ELSE p]
  BY <1>1 DEF p
<1>6. now' = now /\ active' = active
  BY DEF Emit
<1>7. CASE CheckoutDue(recorders[c])
  BY <1>2, <1>3, <1>4, <1>5, <1>6, <1>7, RecorderGoesOn
<1>8. CASE ~ CheckoutDue(recorders[c])
  BY <1>2, <1>3, <1>5, <1>6, <1>8, RecorderGoesOn
<1> QED
  BY <1>7, <1>8

LEMMA ContentLoadedKeeps ==
  ASSUME ClientsOK, BuffersOK, NEW c \in DOMAIN recorders, ContentLoaded(c)
  PROVE  ClientsOK' /\ BuffersOK' /\ Len(recorders') = Len(recorders)
<1>1. c \in 1 .. Len(recorders) /\ recorders[c] \in Recorder
  BY DEF ClientsOK
<1> DEFINE p == Push(recorders[c], "dom")
<1>2. /\ p \in Recorder /\ p.running = recorders[c].running
      /\ Kept(p.emitted, p.kept, now)
  BY <1>1, PushOK DEF ClientsOK, BuffersOK
<1>3. recorders' = [recorders EXCEPT ![c] = p]
      /\ now' = now /\ active' = active
  BY DEF ContentLoaded
<1> HIDE DEF p
<1> QED
  BY <1>1, <1>2, <1>3, RecorderGoesOn

LEMMA LoadKeeps ==
  ASSUME ClientsOK, BuffersOK, NEW c \in DOMAIN recorders, Load(c)
  PROVE  ClientsOK' /\ BuffersOK' /\ Len(recorders') = Len(recorders)
<1>1. c \in 1 .. Len(recorders) /\ recorders[c] \in Recorder
  BY DEF ClientsOK
<1> DEFINE l == [recorders[c] EXCEPT !.loaded = TRUE]
           p == Push(l, "load")
<1>2. /\ l \in Recorder /\ l.running = recorders[c].running
      /\ l.emitted = recorders[c].emitted /\ l.kept = recorders[c].kept
  BY <1>1 DEF Recorder
<1>3. recorders' = [recorders EXCEPT ![c] = Checkout(p)]
      /\ now' = now /\ active' = active
  BY DEF Load
<1>4. Kept(l.emitted, l.kept, now) /\ now \in 0 .. MaxTime
  BY <1>1, <1>2 DEF BuffersOK, ClientsOK
<1> HIDE DEF l
<1>5. /\ p \in Recorder /\ p.running = l.running
      /\ Kept(p.emitted, p.kept, now)
  BY <1>2, <1>4, PushOK
<1> HIDE DEF p
<1>6. /\ Checkout(p) \in Recorder /\ Checkout(p).running = p.running
      /\ Kept(Checkout(p).emitted, Checkout(p).kept, now)
  BY <1>4, <1>5, CheckoutOK
<1> QED
  BY <1>1, <1>2, <1>3, <1>5, <1>6, RecorderGoesOn

\* Stopping leaves what is kept.
LEMMA StoppedOK ==
  ASSUME ClientsOK, BuffersOK
  PROVE  /\ Stopped \in Seq(Recorder) /\ Len(Stopped) = Len(recorders)
         /\ \A c \in 1 .. Len(recorders) :
              /\ ~ Stopped[c].running
              /\ Kept(Stopped[c].emitted, Stopped[c].kept, now)
<1>1. DOMAIN recorders = 1 .. Len(recorders) /\ Len(recorders) \in Nat
  BY DEF ClientsOK
<1>2. ASSUME NEW c \in 1 .. Len(recorders)
      PROVE  /\ Stopped[c] \in Recorder /\ ~ Stopped[c].running
             /\ Stopped[c].emitted = recorders[c].emitted
             /\ Stopped[c].kept = recorders[c].kept
  <2>1. recorders[c] \in Recorder
    BY DEF ClientsOK
  <2>2. CASE c = active
    <3>1. Stopped[c] = [recorders[c] EXCEPT !.running = FALSE]
      BY <1>1, <2>2 DEF Stopped
    <3> QED
      BY <2>1, <3>1 DEF Recorder
  <2>3. CASE c # active
    <3>1. Stopped[c] = recorders[c]
      BY <1>1, <2>3 DEF Stopped
    <3>2. recorders[c].running \in BOOLEAN
      BY <2>1 DEF Recorder
    <3> QED
      BY <2>1, <2>3, <3>1, <3>2 DEF ClientsOK
  <2> QED
    BY <2>2, <2>3
<1>3. Stopped = [c \in 1 .. Len(recorders) |-> Stopped[c]]
  BY <1>1 DEF Stopped
<1>4. Stopped \in Seq(Recorder) /\ Len(Stopped) = Len(recorders)
  <2>1. Stopped \in [1 .. Len(recorders) -> Recorder]
    BY <1>2, <1>3
  <2> QED
    BY <1>1, <2>1
<1> QED
  BY <1>2, <1>4 DEF BuffersOK

LEMMA KeptNothing ==
  ASSUME NEW at
  PROVE  Kept(<< >>, << >>, at) /\ << >> \in EventSeq
<1>1. << >> \in EventSeq /\ Len(<< >>) = 0
  BY DEF EventSeq
<1>2. Fulls(<< >>) = {}
  BY <1>1, FullsIn
<1> QED
  BY <1>1, <1>2 DEF Kept, Ordered

LEMMA InitClientKeeps ==
  ASSUME ClientsOK, BuffersOK, NEW replay, InitClient(replay)
  PROVE  ClientsOK' /\ BuffersOK' /\ Len(recorders') = Len(recorders) + 1
<1> DEFINE fresh == [running |-> replay # "off", loaded |-> replay = "loaded",
                     emitted |-> << >>, kept |-> << >>]
           added == IF fresh.loaded THEN Checkout(fresh) ELSE fresh
<1>1. /\ Len(recorders) < MaxInits /\ recorders' = Append(Stopped, added)
      /\ active' = Len(recorders) + 1 /\ now' = now
  BY DEF InitClient
<1>2. fresh \in Recorder /\ Kept(fresh.emitted, fresh.kept, now)
  BY KeptNothing DEF Recorder
<1> HIDE DEF fresh
<1>3. /\ Checkout(fresh) \in Recorder
      /\ Kept(Checkout(fresh).emitted, Checkout(fresh).kept, now)
  BY <1>2, CheckoutOK DEF ClientsOK
<1>4. added \in Recorder /\ Kept(added.emitted, added.kept, now)
  BY <1>2, <1>3
<1> HIDE DEF added
<1>5. Len(recorders) \in Nat
  BY DEF ClientsOK
<1>6. /\ recorders' \in Seq(Recorder) /\ Len(recorders') = Len(recorders) + 1
      /\ recorders'[Len(recorders) + 1] = added
      /\ \A c \in 1 .. Len(recorders) : recorders'[c] = Stopped[c]
  BY <1>1, <1>4, <1>5, StoppedOK
<1>7. ASSUME NEW c \in 1 .. Len(recorders')
      PROVE  /\ recorders'[c].running => c = active'
             /\ Kept(recorders'[c].emitted, recorders'[c].kept, now')
  <2>1. CASE c = Len(recorders) + 1
    BY <1>1, <1>4, <1>6, <2>1
  <2>2. CASE c # Len(recorders) + 1
    <3>1. c \in 1 .. Len(recorders)
      BY <1>5, <1>6, <2>2
    <3> QED
      BY <1>1, <1>6, <3>1, StoppedOK
  <2> QED
    BY <2>1, <2>2
<1>8. ClientsOK'
  BY <1>1, <1>5, <1>6, <1>7, Numbers DEF ClientsOK
<1>9. BuffersOK'
  BY <1>7 DEF BuffersOK
<1> QED
  BY <1>6, <1>8, <1>9

LEMMA CloseClientKeeps ==
  ASSUME ClientsOK, BuffersOK, CloseClient
  PROVE  ClientsOK' /\ BuffersOK' /\ Len(recorders') = Len(recorders)
<1>1. recorders' = Stopped /\ active' = None /\ now' = now
  BY DEF CloseClient
<1>2. ClientsOK'
  BY <1>1, StoppedOK DEF ClientsOK
<1>3. BuffersOK'
  BY <1>1, StoppedOK DEF BuffersOK
<1> QED
  BY <1>1, <1>2, <1>3, StoppedOK

LEMMA TickKeeps ==
  ASSUME ClientsOK, BuffersOK, Tick
  PROVE  ClientsOK' /\ BuffersOK' /\ Len(recorders') = Len(recorders)
<1>1. /\ now < MaxTime /\ now' = now + 1
      /\ recorders' = recorders /\ active' = active
  BY DEF Tick
<1>2. now \in Nat /\ now' \in Nat /\ now <= now' /\ now' \in 0 .. MaxTime
  BY <1>1, Numbers DEF ClientsOK
<1>3. ClientsOK'
  BY <1>1, <1>2 DEF ClientsOK
<1>4. ASSUME NEW c \in 1 .. Len(recorders)
      PROVE  Kept(recorders[c].emitted, recorders[c].kept, now')
  <2>1. recorders[c] \in Recorder
    BY DEF ClientsOK
  <2>2. Kept(recorders[c].emitted, recorders[c].kept, now)
    BY DEF BuffersOK
  <2> QED
    BY <1>2, <2>1, <2>2, KeptLater DEF Recorder
<1> QED
  BY <1>1, <1>3, <1>4 DEF BuffersOK

-----------------------------------------------------------------------------
(* The uploads.                                                            *)

\* The recorders may be replaced, not lost.
LEMMA UploadsKept ==
  ASSUME UploadsOK, Len(recorders) \in Nat, Len(recorders') \in Nat,
         Len(recorders) <= Len(recorders'),
         UNCHANGED <<captured, timers, replays>>
  PROVE  UploadsOK'
BY DEF UploadsOK

LEMMA CaptureKeeps ==
  ASSUME ClientsOK, UploadsOK, active # None, Capture,
         UNCHANGED <<recorders, replays>>
  PROVE  UploadsOK'
<1>1. active \in Clients /\ active \in 1 .. Len(recorders)
      /\ captured \in Seq(Clients) /\ Len(captured) \in Nat
  BY Numbers DEF ClientsOK, UploadsOK, Clients
<1>2. /\ captured' \in Seq(Clients) /\ Len(captured') = Len(captured) + 1
      /\ captured'[Len(captured) + 1] = active
      /\ \A e \in 1 .. Len(captured) : captured'[e] = captured[e]
  BY <1>1 DEF Capture
<1>3. ASSUME NEW timer \in timers'
      PROVE  /\ timer.error \in 1 .. Len(captured')
             /\ timer.client \in 1 .. Len(recorders')
             /\ captured'[timer.error] = timer.client
  <2>1. CASE timer \in timers
    <3>1. timer.error \in 1 .. Len(captured)
          /\ timer.client \in 1 .. Len(recorders)
          /\ captured[timer.error] = timer.client
      BY <2>1 DEF UploadsOK
    <3> QED
      BY <1>1, <1>2, <3>1
  <2>2. CASE timer \notin timers
    <3>1. timer.error = Len(captured) + 1 /\ timer.client = active
      BY <2>2 DEF Capture
    <3> QED
      BY <1>1, <1>2, <3>1
  <2> QED
    BY <2>1, <2>2
<1>4. ASSUME NEW sent \in replays'
      PROVE  /\ sent.error \in 1 .. Len(captured')
             /\ captured'[sent.error] = sent.client
  <2>1. sent.error \in 1 .. Len(captured)
        /\ captured[sent.error] = sent.client
    BY DEF UploadsOK
  <2> QED
    BY <1>1, <1>2, <2>1
<1> QED
  BY <1>2, <1>3, <1>4 DEF UploadsOK

LEMMA FlushKeeps ==
  ASSUME UploadsOK, FlushReplay
  PROVE  UploadsOK'
<1>1. PICK timer \in timers :
        /\ timers' = timers \ {timer}
        /\ LET kept == recorders[timer.client].kept IN
           replays' = replays \cup
             (IF kept = << >> THEN {}
              ELSE {[error |-> timer.error, client |-> timer.client,
                     long |-> Len(kept) > 1]})
  BY DEF FlushReplay
<1>2. captured' = captured /\ recorders' = recorders
  BY DEF FlushReplay
<1>3. ASSUME NEW sent \in replays'
      PROVE  /\ sent.error \in 1 .. Len(captured)
             /\ captured[sent.error] = sent.client
  <2>1. CASE sent \in replays
    BY <2>1 DEF UploadsOK
  <2>2. CASE sent \notin replays
    <3>1. sent.error = timer.error /\ sent.client = timer.client
      BY <1>1, <2>2
    <3> QED
      BY <3>1 DEF UploadsOK
  <2> QED
    BY <2>1, <2>2
<1> QED
  BY <1>1, <1>2, <1>3 DEF UploadsOK

-----------------------------------------------------------------------------
(* The errors of a map. *)

\* Those within a MapWindow of the i-th.
Near(i) == {j \in i .. Len(forwards) : forwards[j] - forwards[i] < MapWindow}

LEMMA FloodKept ==
  ASSUME FloodOK, now \in Nat, now' \in Nat, now <= now', forwards' = forwards,
         \/ wired' = wired
         \/ wired' = NoWire
  PROVE  FloodOK'
<1>1. MapFloodBounded'
  BY DEF FloodOK, MapFloodBounded
<1>2. forwards \in Seq(Nat) /\ Len(forwards) \in Nat
      /\ \A j \in 1 .. Len(forwards) : forwards[j] \in Nat
  BY DEF FloodOK
<1>3. \A j \in 1 .. Len(forwards') : forwards'[j] <= now'
  BY <1>2 DEF FloodOK
<1>4. CASE wired' = wired
  <2>1. wired' \in [on : BOOLEAN, start : Nat, count : Nat]
        /\ wired'.start <= now'
    BY <1>4 DEF FloodOK
  <2>2. ASSUME NEW a \in 0 .. Len(forwards), NEW b \in 0 .. Len(forwards)
        PROVE  WindowAt(a, b)' <=> WindowAt(a, b)
    BY <1>4 DEF WindowAt
  <2>3. wired'.on => \E a, b \in 0 .. Len(forwards') : WindowAt(a, b)'
    BY <1>4, <2>2 DEF FloodOK
  <2> QED
    BY <1>1, <1>2, <1>3, <2>1, <2>3 DEF FloodOK
<1>5. CASE wired' = NoWire
  <2>1. wired' \in [on : BOOLEAN, start : Nat, count : Nat]
        /\ wired'.start <= now' /\ ~ wired'.on
    BY <1>5 DEF NoWire
  <2> QED
    BY <1>1, <1>2, <1>3, <2>1 DEF FloodOK
<1> QED
  BY <1>4, <1>5

LEMMA WireKeeps ==
  ASSUME FloodOK, now \in Nat, WireMap
  PROVE  FloodOK'
<1>1. /\ forwards' = << >> /\ now' = now
      /\ wired' = [on |-> TRUE, start |-> now, count |-> 0]
  BY DEF WireMap
<1>2. Len(forwards') = 0
  BY <1>1
<1>3. WindowAt(0, 0)'
  BY <1>1, <1>2, Numbers DEF WindowAt
<1>4. MapFloodBounded'
  BY <1>1, <1>2 DEF MapFloodBounded
<1>5. \E a, b \in 0 .. Len(forwards') : WindowAt(a, b)'
  BY <1>2, <1>3
<1> QED
  BY <1>1, <1>2, <1>4, <1>5 DEF FloodOK

\* The window that an error falls in.
LEMMA WindowOpen ==
  ASSUME FloodOK, now \in Nat, wired.on
  PROVE  /\ Window(wired) \in [on : BOOLEAN, start : Nat, count : Nat]
         /\ Window(wired).start <= now /\ Window(wired).on
         /\ \E a, b \in 0 .. Len(forwards) :
              /\ a <= b
              /\ Len(forwards) - b <= Window(wired).count
              /\ Window(wired).count <= MaxPerWindow
              /\ b - a <= MaxPerWindow
              /\ now - Window(wired).start < MapWindow \/ MapWindow = 0
              /\ \A j \in 1 .. a :
                   forwards[j] + MapWindow <= Window(wired).start
              /\ \A j \in 1 .. b : forwards[j] <= Window(wired).start
<1>1. PICK a \in 0 .. Len(forwards), b \in 0 .. Len(forwards) : WindowAt(a, b)
  BY DEF FloodOK
<1>2. /\ forwards \in Seq(Nat) /\ Len(forwards) \in Nat
      /\ \A j \in 1 .. Len(forwards) : forwards[j] \in Nat
      /\ \A j \in 1 .. Len(forwards) : forwards[j] <= now
      /\ wired \in [on : BOOLEAN, start : Nat, count : Nat]
      /\ wired.start <= now
  BY DEF FloodOK
<1>3. CASE now - wired.start >= MapWindow
  <2>1. Window(wired) = [on |-> wired.on, start |-> now, count |-> 0]
    BY <1>3 DEF Window
  <2>2. b <= Len(forwards) /\ Len(forwards) - b <= MaxPerWindow
    BY <1>1, <1>2, Numbers DEF WindowAt
  <2>3. \A j \in 1 .. b : forwards[j] + MapWindow <= now
    BY <1>1, <1>2, <1>3, Numbers DEF WindowAt
  <2>4. \A j \in 1 .. Len(forwards) : forwards[j] <= now
    BY <1>2
  <2>5. now - now < MapWindow \/ MapWindow = 0
    BY Numbers
  <2> QED
    BY <1>2, <2>1, <2>2, <2>3, <2>4, <2>5, Numbers
<1>4. CASE ~ (now - wired.start >= MapWindow)
  <2>1. Window(wired) = wired
    BY <1>4 DEF Window
  <2>2. now - wired.start < MapWindow
    BY <1>2, <1>4, Numbers
  <2> QED
    BY <1>1, <1>2, <2>1, <2>2 DEF WindowAt
<1> QED
  BY <1>3, <1>4

LEMMA MapErrorBounded ==
  ASSUME FloodOK, now \in Nat, MapError
  PROVE  FloodOK'
<1> DEFINE w == Window(wired)
           n == Len(forwards)
<1>1. wired.on /\ now' = now
  BY DEF MapError
<1>2. PICK a \in 0 .. n, b \in 0 .. n :
        /\ a <= b /\ n - b <= w.count /\ w.count <= MaxPerWindow
        /\ b - a <= MaxPerWindow
        /\ \A j \in 1 .. a : forwards[j] + MapWindow <= w.start
        /\ \A j \in 1 .. b : forwards[j] <= w.start
  BY <1>1, WindowOpen
<1>3. /\ w \in [on : BOOLEAN, start : Nat, count : Nat]
      /\ w.start <= now /\ w.on
  BY <1>1, WindowOpen
<1>4. /\ forwards \in Seq(Nat) /\ n \in Nat
      /\ \A j \in 1 .. n : forwards[j] \in Nat
      /\ \A j \in 1 .. n : forwards[j] <= now
  BY DEF FloodOK
<1>5. CASE w.count >= MaxPerWindow /\ wired' = w /\ forwards' = forwards
  <2> HIDE DEF w
  <2>1. WindowAt(a, b)'
    BY <1>2, <1>5 DEF WindowAt
  <2>2. MapFloodBounded'
    BY <1>5 DEF FloodOK, MapFloodBounded
  <2>3. \E c, d \in 0 .. Len(forwards') : WindowAt(c, d)'
    BY <1>5, <2>1
  <2> QED
    BY <1>1, <1>3, <1>4, <1>5, <2>2, <2>3 DEF FloodOK
<1>6. CASE /\ w.count < MaxPerWindow /\ wired' = [w EXCEPT !.count = @ + 1]
           /\ forwards' = forwards
  <2> HIDE DEF w
  <2>1. /\ wired' \in [on : BOOLEAN, start : Nat, count : Nat]
        /\ wired'.start = w.start /\ wired'.count = w.count + 1
    BY <1>3, <1>6
  <2>2. n - b <= wired'.count /\ wired'.count <= MaxPerWindow
    BY <1>2, <1>3, <1>4, <1>6, <2>1, Numbers
  <2>3. WindowAt(a, b)'
    BY <1>2, <1>6, <2>1, <2>2 DEF WindowAt
  <2>4. MapFloodBounded'
    BY <1>6 DEF FloodOK, MapFloodBounded
  <2>5. \E c, d \in 0 .. Len(forwards') : WindowAt(c, d)'
    BY <1>6, <2>3
  <2> QED
    BY <1>1, <1>3, <1>4, <1>6, <2>1, <2>4, <2>5 DEF FloodOK
<1>7. CASE /\ w.count < MaxPerWindow /\ wired' = [w EXCEPT !.count = @ + 1]
           /\ forwards' = Append(forwards, now)
  <2> HIDE DEF w
  <2>1. /\ wired' \in [on : BOOLEAN, start : Nat, count : Nat]
        /\ wired'.start = w.start /\ wired'.count = w.count + 1
    BY <1>3, <1>7
  <2>2. /\ forwards' \in Seq(Nat) /\ Len(forwards') = n + 1
        /\ forwards'[n + 1] = now
        /\ \A j \in 1 .. n : forwards'[j] = forwards[j]
    BY <1>4, <1>7
  <2> HIDE DEF n
  <2>3. (n + 1) - b <= wired'.count /\ wired'.count <= MaxPerWindow
    <3>1. w.count \in Nat /\ w.count < MaxPerWindow /\ n - b <= w.count
      BY <1>2, <1>3, <1>7
    <3>2. b \in Nat /\ n \in Nat
      BY <1>4
    <3> QED
      BY <2>1, <3>1, <3>2, Numbers
  <2>4. WindowAt(a, b)'
    <3>1. a \in 0 .. Len(forwards') /\ b \in 0 .. Len(forwards')
      BY <1>4, <2>2
    <3>2. \A j \in 1 .. b : forwards'[j] = forwards[j]
      BY <1>4, <2>2
    <3>3. \A j \in 1 .. a : forwards'[j] = forwards[j]
      BY <1>2, <1>4, <2>2
    <3> QED
      BY <1>2, <2>1, <2>2, <2>3, <3>1, <3>2, <3>3 DEF WindowAt
  <2>5. \A j \in 1 .. n + 1 : forwards'[j] <= now
    BY <1>4, <2>2
  <2>6. ASSUME NEW i \in 1 .. n + 1
        PROVE  Cardinality({j \in i .. n + 1 :
                 forwards'[j] - forwards'[i] < MapWindow}) <= 2 * MaxPerWindow
    <3> DEFINE near == {j \in i .. n + 1 :
                          forwards'[j] - forwards'[i] < MapWindow}
    \* Before a: the new one is not near, its neighbours are those it had.
    <3>1. CASE i <= a
      <4>1. i \in 1 .. a /\ i \in 1 .. n
        BY <1>4, <3>1
      <4>2. ~ (now - forwards[i] < MapWindow)
        BY <1>2, <1>3, <1>4, <4>1, Numbers
      <4>3. ASSUME NEW j \in i .. n + 1
            PROVE  j \in near <=> j \in Near(i)
        <5>1. CASE j = n + 1
          BY <1>4, <2>2, <4>1, <4>2, <5>1 DEF Near, n
        <5>2. CASE j # n + 1
          <6>1. j \in i .. n /\ j \in 1 .. n
            BY <1>4, <5>2
          <6> QED
            BY <2>2, <4>1, <6>1 DEF Near, n
        <5> QED
          BY <5>1, <5>2
      <4>4. Near(i) \subseteq i .. n + 1
        BY <1>4 DEF Near, n
      <4>5. near = Near(i)
        BY <4>3, <4>4
      <4>6. Cardinality(Near(i)) <= 2 * MaxPerWindow
        <5>1. i \in DOMAIN forwards
          BY <1>4, <4>1 DEF n
        <5> QED
          BY <5>1 DEF FloodOK, MapFloodBounded, Near
      <4> QED
        BY <4>5, <4>6
    \* After a: there are no more than the two windows forwarded.
    <3>2. CASE ~ (i <= a)
      <4>1. near \subseteq (a + 1) .. (n + 1)
        BY <1>4, <3>2
      <4> HIDE DEF near
      <4>2. a + 1 \in Int /\ n + 1 \in Int
        BY <1>4
      <4>3. IsFiniteSet((a + 1) .. (n + 1))
            /\ Cardinality((a + 1) .. (n + 1)) =
                 IF a + 1 > n + 1 THEN 0 ELSE (n + 1) - (a + 1) + 1
        BY <4>2, FS_Interval
      <4>4. Cardinality((a + 1) .. (n + 1)) = (n + 1) - a
        BY <1>4, <4>3
      <4>5. Cardinality(near) <= Cardinality((a + 1) .. (n + 1))
        BY <4>1, <4>3, FS_Subset
      <4>6. (n + 1) - a <= 2 * MaxPerWindow
        BY <1>2, <1>3, <1>4, <2>1, <2>3, Numbers
      <4>7. Cardinality(near) \in Nat
        BY <4>1, <4>3, FS_Subset, FS_CardinalityType
      <4> QED
        BY <1>4, <4>4, <4>5, <4>6, <4>7, Numbers DEF near
    <3> QED
      BY <1>4, <3>1, <3>2
  <2>7. MapFloodBounded'
    BY <2>2, <2>6 DEF MapFloodBounded
  <2>8. \E c, d \in 0 .. Len(forwards') : WindowAt(c, d)'
    BY <1>4, <2>2, <2>4
  <2> QED
    BY <1>1, <1>3, <2>1, <2>2, <2>5, <2>7, <2>8 DEF FloodOK
<1>8. \/ w.count >= MaxPerWindow /\ wired' = w /\ forwards' = forwards
      \/ /\ w.count < MaxPerWindow /\ wired' = [w EXCEPT !.count = @ + 1]
         /\ forwards' = forwards \/ forwards' = Append(forwards, now)
  BY DEF MapError
<1> QED
  BY <1>5, <1>6, <1>7, <1>8

-----------------------------------------------------------------------------
(* The page that records.                                                  *)

LEMMA InitSdkInv == Init => SdkInv
<1> SUFFICES ASSUME Init PROVE SdkInv
  OBVIOUS
<1>1. /\ now = 0 /\ active = None /\ recorders = << >> /\ timers = {}
      /\ replays = {} /\ captured = << >> /\ wired = NoWire
      /\ forwards = << >>
  BY DEF Init, SdkInit
<1>2. Len(recorders) = 0 /\ Len(captured) = 0 /\ Len(forwards) = 0
  BY <1>1
<1>3. ClientsOK
  BY <1>1, <1>2, Numbers DEF ClientsOK
<1>4. BuffersOK
  BY <1>2 DEF BuffersOK
<1>5. UploadsOK
  BY <1>1, <1>2 DEF UploadsOK
<1>6. MapFloodBounded
  BY <1>1, <1>2 DEF MapFloodBounded
<1>7. FloodOK
  BY <1>1, <1>2, <1>6 DEF FloodOK, NoWire
<1> QED
  BY <1>3, <1>4, <1>5, <1>7 DEF SdkInv

LEMMA SdkInvSame == SdkInv /\ UNCHANGED sdkVars => SdkInv'
<1> SUFFICES ASSUME SdkInv, UNCHANGED sdkVars PROVE SdkInv'
  OBVIOUS
<1> USE DEF sdkVars, SdkInv
<1>1. ClientsOK'
  BY DEF ClientsOK
<1>2. BuffersOK'
  BY DEF BuffersOK
<1>3. UploadsOK'
  BY DEF UploadsOK
<1>4. FloodOK'
  BY Numbers, FloodKept DEF ClientsOK
<1> QED
  BY <1>1, <1>2, <1>3, <1>4

LEMMA SdkStep ==
  ASSUME SdkInv, SdkNext
  PROVE  SdkInv'
<1>1. ClientsOK /\ BuffersOK /\ UploadsOK /\ FloodOK
  BY DEF SdkInv
<1>2. now \in Nat /\ Len(recorders) \in Nat
  BY <1>1, Numbers DEF ClientsOK
<1> DEFINE Goes == /\ ClientsOK' /\ BuffersOK'
                   /\ Len(recorders') \in Nat
                   /\ Len(recorders) <= Len(recorders')
\* What the recorder does; the uploads and the map stay as they are.
<1>3. ASSUME Goes, UNCHANGED <<captured, timers, replays>>,
             UNCHANGED <<wired, forwards>>,
             now' = now \/ now' = now + 1
      PROVE  SdkInv'
  <2>1. UploadsOK'
    BY <1>1, <1>2, <1>3, UploadsKept
  <2>2. now' \in Nat /\ now <= now'
    BY <1>2, <1>3
  <2>3. FloodOK'
    BY <1>1, <1>2, <1>3, <2>2, FloodKept
  <2> QED
    BY <1>3, <2>1, <2>3 DEF SdkInv
<1>4. CASE Emit
  <2>1. Goes
    BY <1>1, <1>2, <1>4, EmitKeeps
  <2> QED
    BY <1>3, <1>4, <2>1 DEF Emit
<1>5. ASSUME NEW c \in DOMAIN recorders, ContentLoaded(c)
      PROVE  SdkInv'
  <2>1. Goes
    BY <1>1, <1>2, <1>5, ContentLoadedKeeps
  <2> QED
    BY <1>3, <1>5, <2>1 DEF ContentLoaded
<1>6. ASSUME NEW c \in DOMAIN recorders, Load(c)
      PROVE  SdkInv'
  <2>1. Goes
    BY <1>1, <1>2, <1>6, LoadKeeps
  <2> QED
    BY <1>3, <1>6, <2>1 DEF Load
<1>7. ASSUME NEW replay \in {"off", "loading", "loaded"}, InitClient(replay)
      PROVE  SdkInv'
  <2>1. Goes
    BY <1>1, <1>2, <1>7, InitClientKeeps
  <2> QED
    BY <1>3, <1>7, <2>1 DEF InitClient
<1>8. CASE CloseClient
  <2>1. Goes
    BY <1>1, <1>2, <1>8, CloseClientKeeps
  <2> QED
    BY <1>3, <1>8, <2>1 DEF CloseClient
<1>9. CASE Tick
  <2>1. Goes
    BY <1>1, <1>2, <1>9, TickKeeps
  <2> QED
    BY <1>3, <1>9, <2>1 DEF Tick
\* The recorders stay.
<1>10. ASSUME UNCHANGED <<now, active, recorders>>
       PROVE  ClientsOK' /\ BuffersOK'
  BY <1>1, <1>10 DEF ClientsOK, BuffersOK
<1>11. CASE CaptureException
  <2>1. ClientsOK' /\ BuffersOK'
    BY <1>10, <1>11 DEF CaptureException
  <2>2. UploadsOK'
    BY <1>1, <1>11, CaptureKeeps DEF CaptureException
  <2>3. FloodOK'
    BY <1>1, <1>2, <1>11, FloodKept DEF CaptureException
  <2> QED
    BY <2>1, <2>2, <2>3 DEF SdkInv
<1>12. CASE FlushReplay
  <2>1. ClientsOK' /\ BuffersOK'
    BY <1>10, <1>12 DEF FlushReplay
  <2>2. UploadsOK'
    BY <1>1, <1>12, FlushKeeps
  <2>3. FloodOK'
    BY <1>1, <1>2, <1>12, FloodKept DEF FlushReplay
  <2> QED
    BY <2>1, <2>2, <2>3 DEF SdkInv
<1>13. CASE WireMap
  <2>1. ClientsOK' /\ BuffersOK'
    BY <1>10, <1>13 DEF WireMap
  <2>2. UploadsOK'
    BY <1>1, <1>2, <1>13, UploadsKept DEF WireMap
  <2>3. FloodOK'
    BY <1>1, <1>2, <1>13, WireKeeps
  <2> QED
    BY <2>1, <2>2, <2>3 DEF SdkInv
<1>14. CASE UnwireMap
  <2>1. ClientsOK' /\ BuffersOK'
    BY <1>10, <1>14 DEF UnwireMap
  <2>2. UploadsOK'
    BY <1>1, <1>2, <1>14, UploadsKept DEF UnwireMap
  <2>3. FloodOK'
    BY <1>1, <1>2, <1>14, FloodKept DEF UnwireMap
  <2> QED
    BY <2>1, <2>2, <2>3 DEF SdkInv
<1>15. CASE MapError
  <2>1. UNCHANGED <<hasMap, now, active, recorders, replays, emits>>
    BY <1>15 DEF MapError
  <2>2. ClientsOK' /\ BuffersOK'
    BY <1>10, <2>1
  <2>3. UNCHANGED <<timers, captured>> \/ (active # None /\ Capture)
    BY <1>15 DEF MapError
  <2>4. UploadsOK'
    BY <1>1, <1>2, <2>1, <2>3, UploadsKept, CaptureKeeps
  <2>5. FloodOK'
    BY <1>1, <1>2, <1>15, MapErrorBounded
  <2> QED
    BY <2>2, <2>4, <2>5 DEF SdkInv
<1> QED
  BY <1>4, <1>5, <1>6, <1>7, <1>8, <1>9, <1>11, <1>12, <1>13, <1>14, <1>15
     DEF SdkNext

\* The developer opens the issue: the page is left.
LEMMA OpenIssueSdk ==
  ASSUME SdkInv, OpenIssue
  PROVE  SdkInv'
<1>1. /\ recorders' = << >> /\ timers' = {} /\ active' = None
      /\ now' = MaxTime /\ captured' = captured /\ replays' = replays
      /\ wired' = wired /\ forwards' = forwards
  BY DEF OpenIssue
<1>2. Len(recorders') = 0 /\ now \in Nat /\ now' \in Nat /\ now <= now'
  BY <1>1, Numbers DEF SdkInv, ClientsOK
<1>3. ClientsOK'
  BY <1>1, <1>2, Numbers DEF ClientsOK
<1>4. BuffersOK'
  BY <1>2 DEF BuffersOK
<1>5. UploadsOK'
  BY <1>1 DEF SdkInv, UploadsOK
<1>6. FloodOK'
  BY <1>1, <1>2, FloodKept DEF SdkInv
<1> QED
  BY <1>3, <1>4, <1>5, <1>6 DEF SdkInv

LEMMA SdkInvStep == SdkInv /\ [Next]_vars => SdkInv'
<1> SUFFICES ASSUME SdkInv, [Next]_vars PROVE SdkInv'
  OBVIOUS
<1>1. CASE Page
  BY <1>1, SdkStep DEF Page
<1>2. CASE OpenIssue
  BY <1>2, OpenIssueSdk
<1>3. CASE Arrive
  BY <1>3, SdkInvSame DEF Arrive
<1>4. CASE RefetchEvents
  BY <1>4, SdkInvSame DEF RefetchEvents, Render
<1>5. CASE SelectEvent
  BY <1>5, SdkInvSame DEF SelectEvent, Render
<1>6. CASE FetchReplay
  BY <1>6, SdkInvSame DEF FetchReplay, Render
<1>7. CASE RunScript \/ LoadFrame \/ HearReady
  BY <1>7, SdkInvSame DEF RunScript, LoadFrame, HearReady
<1>8. CASE MountReplay \/ Click \/ Finish
  BY <1>8, SdkInvSame DEF MountReplay, Click, Finish
<1>9. CASE UNCHANGED vars
  BY <1>9, SdkInvSame DEF vars
<1> QED
  BY <1>1, <1>2, <1>3, <1>4, <1>5, <1>6, <1>7, <1>8, <1>9 DEF Next

LEMMA SdkInvPlayable == SdkInv => ReplayCoversError
<1> SUFFICES ASSUME SdkInv PROVE ReplayCoversError
  OBVIOUS
<1>1. \A sent \in replays : captured[sent.error] = sent.client
  BY DEF SdkInv, UploadsOK
<1>2. ASSUME NEW timer \in timers,
             Fulls(recorders[timer.client].emitted) # {}
      PROVE  LET recorder == recorders[timer.client]
                 full == Fulls(recorder.emitted)
                 kept == recorder.kept IN
             /\ Anchored(kept)
             /\ \A i \in Earliest(full) .. Len(recorder.emitted) :
                  recorder.emitted[i].at + ReplayWindow > now =>
                    IsSuffix(SubSeq(recorder.emitted, i,
                                    Len(recorder.emitted)), kept)
  <2> DEFINE c == timer.client
  <2>1. c \in 1 .. Len(recorders)
    BY DEF SdkInv, UploadsOK
  <2> HIDE DEF c
  <2>2. recorders[c] \in Recorder /\ now \in Nat
    BY <2>1, Numbers DEF SdkInv, ClientsOK
  <2>3. Kept(recorders[c].emitted, recorders[c].kept, now)
    BY <2>1 DEF SdkInv, BuffersOK
  <2>4. recorders[c].emitted \in EventSeq /\ recorders[c].kept \in EventSeq
    BY <2>2 DEF Recorder
  <2> QED
    BY <1>2, <2>2, <2>3, <2>4, KeptPlayable DEF c, Anchored
<1> QED
  BY <1>1, <1>2 DEF ReplayCoversError, Fulls

LEMMA SdkTypes == SdkInv => SdkTypeOK
<1>1. ASSUME SdkInv PROVE SdkTypeOK
  <2>1. ClientsOK /\ UploadsOK
    BY <1>1 DEF SdkInv
  <2>2. DOMAIN recorders = 1 .. Len(recorders)
    BY <2>1 DEF ClientsOK
  <2>3. \A c \in DOMAIN recorders :
          /\ recorders[c].running => c = active
          /\ recorders[c].kept \in EventSeq
    <3> TAKE c \in DOMAIN recorders
    <3>1. c \in 1 .. Len(recorders) /\ recorders[c] \in Recorder
      BY <2>1, <2>2 DEF ClientsOK
    <3> QED
      BY <2>1, <3>1 DEF ClientsOK, Recorder
  <2>4. now \in 0 .. MaxTime /\ active \in {None} \cup DOMAIN recorders
    BY <2>1, <2>2 DEF ClientsOK
  <2>5. /\ captured \in Seq(Clients)
        /\ \A timer \in timers : captured[timer.error] = timer.client
    BY <2>1 DEF UploadsOK
  <2> QED
    BY <2>3, <2>4, <2>5 DEF SdkTypeOK
<1> QED
  BY <1>1

\* What a timer uploads, whenever it fires, is the recording of the client that
\* captured the error (comment client.ts:151-157); once rrweb has taken a full
\* snapshot it begins with one and has everything of the last ReplayWindow that
\* came after the first one (sessionReplay.ts:22-31), for all windows, checkout
\* periods and delays.  Of uploads before the first full snapshot it claims
\* nothing: ReplayAnchored, which is about them, is violated.
THEOREM ReplayCovers == Spec => []ReplayCoversError
BY InitSdkInv, SdkInvStep, SdkInvPlayable, PTL DEF Spec

\* In any MapWindow at most twice MaxPerWindow errors of a map are forwarded,
\* from one wiring of it to the next, whatever the windows and the cap are
\* (comment map.ts:41-43).
THEOREM ReplayFlood == Spec => []MapFloodBounded
<1>1. SdkInv => MapFloodBounded
  BY DEF SdkInv, FloodOK
<1> QED
  BY <1>1, InitSdkInv, SdkInvStep, PTL DEF Spec

-----------------------------------------------------------------------------
(* The page that plays.                                                    *)

Frame == [nr : 1 .. MaxFrames, event : Nat \ {None},
          script : {"loading", "ran", "failed"}, loaded : BOOLEAN,
          sent : BOOLEAN, inbox : Seq(Nat), shown : Nat, mounts : Nat,
          status : {"none", "idle", "failed", "playing", "paused", "finished"}]

\* The page lists what was captured; it plays what was uploaded.
PageOK ==
  /\ stored \subseteq {sent.error : sent \in replays}
  /\ withReplay \subseteq stored /\ cache \subseteq stored
  /\ list \in 0 .. Len(captured) /\ choice \in 0 .. list
  /\ frames \in 0 .. MaxFrames /\ mail \in Seq(1 .. frames)
  /\ list = 0 => frame = NoFrame

\* The mounted player is that of the selected event, and it is the last one.
FrameOK ==
  frame # NoFrame =>
    /\ frame \in Frame /\ frame.nr = frames
    /\ frame.event = Selected(choice, list)
    /\ frame.event \in withReplay \cap cache

\* How far the payload has come: not posted; lost; in the inbox; mounted.
BridgeOK ==
  frame # NoFrame =>
    /\ frame.script = "loading" => ~ frame.loaded /\ ~ frame.sent
    /\ frame.loaded => frame.sent
    /\ ~ frame.sent \/ frame.script # "ran" =>
         frame.inbox = << >> /\ frame.mounts = 0 /\ frame.shown = None
    /\ frame.sent /\ frame.script = "ran" =>
         \/ frame.inbox = <<frame.event>> /\ frame.mounts = 0
              /\ frame.shown = None
         \/ frame.inbox = << >> /\ frame.mounts = 1
              /\ frame.shown = frame.event

\* Only a viewer whose script has run announces itself.
MailOK ==
  \A k \in 1 .. Len(mail) :
    frame # NoFrame /\ mail[k] = frame.nr => frame.script = "ran"

ViewInv == PageOK /\ FrameOK /\ BridgeOK /\ MailOK

LEMMA SeqWider ==
  ASSUME NEW S, NEW T, S \subseteq T, NEW q \in Seq(S)
  PROVE  q \in Seq(T)
<1>1. Len(q) \in Nat /\ q = [k \in 1 .. Len(q) |-> q[k]]
  OBVIOUS
<1>2. \A k \in 1 .. Len(q) : q[k] \in T
  OBVIOUS
<1>3. [k \in 1 .. Len(q) |-> q[k]] \in [1 .. Len(q) -> T]
  BY <1>2
<1> QED
  BY <1>1, <1>3, IsASeq

LEMMA InitViewInv == Init => ViewInv
<1> SUFFICES ASSUME Init PROVE ViewInv
  OBVIOUS
<1>1. /\ captured = << >> /\ stored = {} /\ list = 0 /\ withReplay = {}
      /\ choice = None /\ cache = {} /\ frame = NoFrame /\ frames = 0
      /\ mail = << >>
  BY DEF Init, SdkInit
<1>2. Len(captured) = 0 /\ Len(mail) = 0
  BY <1>1
<1>3. PageOK
  BY <1>1, <1>2, FramesAssumption DEF PageOK, None
<1> QED
  BY <1>1, <1>2, <1>3 DEF ViewInv, FrameOK, BridgeOK, MailOK

\* The page that records and the server do not touch what is viewed.
LEMMA SdkGrows ==
  ASSUME SdkInv, SdkNext
  PROVE  replays \subseteq replays' /\ Len(captured) <= Len(captured')
         /\ Len(captured) \in Nat /\ Len(captured') \in Nat
<1>1. captured \in Seq(Clients) /\ captured' \in Seq(Clients)
  BY SdkStep DEF SdkInv, UploadsOK
<1>2. Len(captured) \in Nat /\ Len(captured') \in Nat
  BY <1>1
<1>3. replays \subseteq replays'
  BY DEF SdkNext, Emit, ContentLoaded, Load, InitClient, CloseClient,
         CaptureException, FlushReplay, WireMap, UnwireMap, MapError, Tick
<1>4. captured' = captured \/ captured' = Append(captured, active)
  BY DEF SdkNext, Emit, ContentLoaded, Load, InitClient, CloseClient,
         CaptureException, Capture, FlushReplay, WireMap, UnwireMap, MapError,
         Tick
<1> QED
  BY <1>1, <1>2, <1>3, <1>4

LEMMA ViewSame ==
  ASSUME ViewInv, UNCHANGED viewVars, stored \subseteq stored',
         stored' \subseteq {sent.error : sent \in replays'},
         Len(captured) \in Nat, Len(captured') \in Nat,
         Len(captured) <= Len(captured')
  PROVE  ViewInv'
<1> USE DEF ViewInv, viewVars
<1>1. PageOK'
  BY DEF PageOK
<1>2. FrameOK'
  BY DEF FrameOK
<1>3. BridgeOK'
  BY DEF BridgeOK
<1>4. MailOK'
  BY DEF MailOK
<1> QED
  BY <1>1, <1>2, <1>3, <1>4

LEMMA CapturedLen == SdkInv => Len(captured) \in Nat
BY DEF SdkInv, UploadsOK

LEMMA PageStep ==
  ASSUME SdkInv, ViewInv, Page
  PROVE  ViewInv'
<1>1. SdkNext /\ UNCHANGED viewVars /\ stored' = stored
  BY DEF Page
<1>2. replays \subseteq replays' /\ Len(captured) <= Len(captured')
      /\ Len(captured) \in Nat /\ Len(captured') \in Nat
  BY <1>1, SdkGrows
<1>3. stored \subseteq {sent.error : sent \in replays'}
  BY <1>2 DEF ViewInv, PageOK
<1> QED
  BY <1>1, <1>2, <1>3, ViewSame

LEMMA ArriveStep ==
  ASSUME SdkInv, ViewInv, Arrive
  PROVE  ViewInv'
<1>1. PICK sent \in replays : stored' = stored \cup {sent.error}
  BY DEF Arrive
<1>2. UNCHANGED <<sdkVars, viewVars>>
  BY DEF Arrive
<1>3. stored' \subseteq {s.error : s \in replays'}
  BY <1>1, <1>2 DEF ViewInv, PageOK, sdkVars
<1> QED
  BY <1>1, <1>2, <1>3, CapturedLen, ViewSame DEF sdkVars

LEMMA OpenIssueStep ==
  ASSUME SdkInv, ViewInv, OpenIssue
  PROVE  ViewInv'
<1>1. PICK n \in 1 .. Len(captured) :
        list' = n /\ withReplay' = stored \cap 1 .. n
  BY DEF OpenIssue
<1>2. UNCHANGED <<captured, replays, stored, choice, cache, frame, frames,
                  mail>> /\ list = 0
  BY DEF OpenIssue, Viewing, ViewInv, PageOK
<1>3. frame = NoFrame /\ frame' = NoFrame
  BY <1>2 DEF ViewInv, PageOK
<1>4. choice \in 0 .. n /\ n \in 0 .. Len(captured) /\ n # 0
  BY <1>2, CapturedLen DEF ViewInv, PageOK
<1>5. PageOK'
  BY <1>1, <1>2, <1>3, <1>4 DEF ViewInv, PageOK
<1> QED
  BY <1>3, <1>5 DEF ViewInv, FrameOK, BridgeOK, MailOK

\* Every rendering of the issue page: the player is that of the selected event.
LEMMA RenderStep ==
  ASSUME SdkInv, ViewInv, NEW n \in 1 .. Len(captured),
         NEW flags, flags \subseteq stored,
         NEW fetched, fetched \subseteq stored,
         NEW chosen \in 0 .. n, Render(n, flags, chosen, fetched)
  PROVE  ViewInv'
<1> DEFINE error == Selected(chosen, n)
<1>1. /\ list' = n /\ withReplay' = flags /\ choice' = chosen
      /\ cache' = fetched
      /\ UNCHANGED <<sdkVars, stored, isolated, mail>>
  BY DEF Render
<1>2. UNCHANGED <<captured, replays>> /\ Len(captured) \in Nat
  BY <1>1, CapturedLen DEF sdkVars
<1>3. error \in 1 .. n /\ error \in Nat \ {None}
  BY <1>2 DEF Selected, None
<1>4. error = Selected(choice', list')
  BY <1>1
<1> HIDE DEF error
<1>5. PageOK /\ FrameOK /\ BridgeOK /\ MailOK
  BY DEF ViewInv
<1>6. ASSUME frames' \in 0 .. MaxFrames, mail \in Seq(1 .. frames')
      PROVE  PageOK'
  <2>1. n \in 0 .. Len(captured) /\ n # 0
    BY <1>2
  <2> QED
    BY <1>1, <1>2, <1>5, <1>6, <2>1 DEF PageOK
<1>7. frames \in 0 .. MaxFrames /\ mail \in Seq(1 .. frames)
  BY <1>5 DEF PageOK
<1>8. CASE error \notin flags \cap fetched
  <2>1. frame' = NoFrame /\ frames' = frames
    BY <1>8 DEF Render, error
  <2>2. PageOK'
    BY <1>6, <1>7, <2>1
  <2> QED
    BY <2>1, <2>2 DEF ViewInv, FrameOK, BridgeOK, MailOK
<1>9. CASE error \in flags \cap fetched /\ frame.event = error
  <2>1. frame' = frame /\ frames' = frames
    BY <1>9 DEF Render, error
  <2>2. PageOK'
    BY <1>6, <1>7, <2>1
  <2>3. FrameOK'
    BY <1>1, <1>4, <1>5, <1>9, <2>1 DEF FrameOK
  <2>4. BridgeOK' /\ MailOK'
    BY <1>1, <1>5, <2>1 DEF BridgeOK, MailOK
  <2> QED
    BY <2>2, <2>3, <2>4 DEF ViewInv
<1>10. CASE error \in flags \cap fetched /\ frame.event # error
  <2>1. frame' = Player(error) /\ frames' = frames + 1 /\ frames < MaxFrames
    BY <1>10 DEF Render, error
  <2>2. frames' \in 0 .. MaxFrames /\ frames' \in 1 .. MaxFrames
        /\ frames \in Nat
    BY <1>7, <2>1, FramesAssumption
  <2>3. Len(mail) \in Nat /\ \A k \in 1 .. Len(mail) : mail[k] \in 1 .. frames
    BY <1>7
  <2>4. mail \in Seq(1 .. frames')
    <3>1. 1 .. frames \subseteq 1 .. frames'
      BY <2>1, <2>2
    <3> QED
      BY <1>7, <3>1, SeqWider
  <2>5. PageOK'
    BY <1>6, <2>2, <2>4
  <2>6. Mounted(error) \in {"idle", "failed"}
    BY DEF Mounted
  <2>7. Player(error) \in Frame /\ Player(error).nr = frames + 1
        /\ Player(error).event = error
    BY <1>3, <2>1, <2>2, <2>6 DEF Player, Frame, None
  <2>8. FrameOK'
    BY <1>1, <1>4, <1>10, <2>1, <2>7 DEF FrameOK
  <2>9. BridgeOK'
    BY <2>1 DEF BridgeOK, Player
  <2>10. MailOK'
    <3>1. \A k \in 1 .. Len(mail) : mail[k] # frames + 1
      BY <2>2, <2>3
    <3> QED
      BY <1>1, <2>1, <2>7, <3>1 DEF MailOK
  <2> QED
    BY <2>5, <2>8, <2>9, <2>10 DEF ViewInv
<1> QED
  BY <1>8, <1>9, <1>10

LEMMA RefetchStep ==
  ASSUME SdkInv, ViewInv, RefetchEvents
  PROVE  ViewInv'
<1>1. PICK n \in list .. Len(captured) :
        Render(n, stored \cap 1 .. n, choice, cache)
  BY DEF RefetchEvents
<1>2. list \in 0 .. Len(captured) /\ choice \in 0 .. list /\ list > 0
      /\ cache \subseteq stored
  BY DEF RefetchEvents, Viewing, ViewInv, PageOK
<1>3. n \in 1 .. Len(captured) /\ choice \in 0 .. n
  BY <1>2, CapturedLen
<1> QED
  BY <1>1, <1>2, <1>3, RenderStep

LEMMA SelectStep ==
  ASSUME SdkInv, ViewInv, SelectEvent
  PROVE  ViewInv'
<1>1. PICK error \in 1 .. list : Render(list, withReplay, error, cache)
  BY DEF SelectEvent
<1>2. list \in 0 .. Len(captured) /\ list > 0
      /\ cache \subseteq stored /\ withReplay \subseteq stored
  BY DEF SelectEvent, Viewing, ViewInv, PageOK
<1>3. list \in 1 .. Len(captured) /\ error \in 0 .. list
  BY <1>2, CapturedLen
<1> QED
  BY <1>1, <1>2, <1>3, RenderStep

LEMMA FetchStep ==
  ASSUME SdkInv, ViewInv, FetchReplay
  PROVE  ViewInv'
<1>1. Render(list, withReplay, choice, cache \cup {Selected(choice, list)})
      /\ Selected(choice, list) \in withReplay
  BY DEF FetchReplay
<1>2. list \in 0 .. Len(captured) /\ list > 0 /\ choice \in 0 .. list
      /\ cache \subseteq stored /\ withReplay \subseteq stored
  BY DEF FetchReplay, Viewing, ViewInv, PageOK
<1>3. list \in 1 .. Len(captured)
      /\ cache \cup {Selected(choice, list)} \subseteq stored
  BY <1>1, <1>2, CapturedLen
<1> QED
  BY <1>1, <1>2, <1>3, RenderStep

\* What the viewer and its bridge do: the page stays.
LEMMA FrameStep ==
  ASSUME SdkInv, ViewInv,
         UNCHANGED <<sdkVars, stored, isolated, list, withReplay, choice,
                     cache, frames>>,
         frame # NoFrame => frame' \in Frame /\ frame'.nr = frame.nr
                            /\ frame'.event = frame.event,
         frame = NoFrame => frame' = NoFrame,
         mail' \in Seq(1 .. frames)
  PROVE  PageOK' /\ FrameOK' /\ (frame' # NoFrame => frame # NoFrame)
<1>1. UNCHANGED <<captured, replays>>
  BY DEF sdkVars
<1>2. PageOK'
  BY <1>1 DEF ViewInv, PageOK
<1>3. FrameOK'
  BY DEF ViewInv, FrameOK
<1> QED
  BY <1>2, <1>3

LEMMA FrameIs ==
  ASSUME ViewInv, frame # NoFrame
  PROVE  /\ frame.nr \in 1 .. MaxFrames /\ frame.nr = frames
         /\ frame.event \in Nat \ {None}
         /\ frame.script \in {"loading", "ran", "failed"}
         /\ frame.loaded \in BOOLEAN /\ frame.sent \in BOOLEAN
         /\ frame.inbox \in Seq(Nat) /\ frame.shown \in Nat
         /\ frame.mounts \in Nat
         /\ frame \in Frame
<1>1. frame \in Frame /\ frame.nr = frames
  BY DEF ViewInv, FrameOK
<1> QED
  BY <1>1 DEF Frame

LEMMA MailIs ==
  ASSUME ViewInv
  PROVE  /\ mail \in Seq(1 .. frames) /\ Len(mail) \in Nat
         /\ \A k \in 1 .. Len(mail) : mail[k] \in 1 .. frames
BY DEF ViewInv, PageOK

LEMMA RunScriptStep ==
  ASSUME SdkInv, ViewInv, RunScript
  PROVE  ViewInv'
<1>1. frame # NoFrame /\ frame.script = "loading"
      /\ UNCHANGED <<sdkVars, stored, isolated, list, withReplay, choice,
                     cache, frames>>
  BY DEF RunScript
<1>2. ~ frame.loaded /\ ~ frame.sent /\ frame.inbox = << >>
      /\ frame.mounts = 0 /\ frame.shown = None
  BY <1>1 DEF ViewInv, BridgeOK
<1>3. ASSUME NEW script \in {"ran", "failed"},
             frame' = [frame EXCEPT !.script = script]
      PROVE  /\ frame' \in Frame /\ frame'.nr = frame.nr
             /\ frame'.event = frame.event /\ frame'.script = script
             /\ ~ frame'.loaded /\ ~ frame'.sent /\ frame'.inbox = << >>
             /\ frame'.mounts = 0 /\ frame'.shown = None
  BY <1>1, <1>2, <1>3, FrameIs DEF Frame
<1>4. CASE /\ frame' = [frame EXCEPT !.script = "ran"]
           /\ mail' = Append(mail, frame.nr)
  <2>1. frame.nr \in 1 .. frames
    BY <1>1, FrameIs
  <2>2. mail' \in Seq(1 .. frames)
    BY <1>4, <2>1, MailIs
  <2>3. PageOK' /\ FrameOK'
    BY <1>1, <1>3, <1>4, <2>2, FrameStep
  <2>4. BridgeOK' /\ MailOK'
    BY <1>3, <1>4 DEF BridgeOK, MailOK
  <2> QED
    BY <2>3, <2>4 DEF ViewInv
<1>5. CASE frame' = [frame EXCEPT !.script = "failed"] /\ mail' = mail
  <2>1. PageOK' /\ FrameOK'
    BY <1>1, <1>3, <1>5, MailIs, FrameStep
  <2>2. BridgeOK'
    BY <1>3, <1>5 DEF BridgeOK
  <2>3. MailOK'
    BY <1>1, <1>3, <1>5 DEF ViewInv, MailOK
  <2> QED
    BY <2>1, <2>2, <2>3 DEF ViewInv
<1> QED
  BY <1>4, <1>5 DEF RunScript

\* Posting the payload to a viewer that has run, or failed to load.
LEMMA SendOK ==
  ASSUME NEW f \in Frame, f.script # "loading",
         ~ f.sent \/ f.script # "ran" =>
           f.inbox = << >> /\ f.mounts = 0 /\ f.shown = None,
         f.sent /\ f.script = "ran" =>
           \/ f.inbox = <<f.event>> /\ f.mounts = 0 /\ f.shown = None
           \/ f.inbox = << >> /\ f.mounts = 1 /\ f.shown = f.event
  PROVE  LET g == SendPayload(f) IN
         /\ g \in Frame /\ g.nr = f.nr /\ g.event = f.event
         /\ g.script = f.script /\ g.loaded = f.loaded /\ g.sent
         /\ g.script # "ran" =>
              g.inbox = << >> /\ g.mounts = 0 /\ g.shown = None
         /\ g.script = "ran" =>
              \/ g.inbox = <<g.event>> /\ g.mounts = 0 /\ g.shown = None
              \/ g.inbox = << >> /\ g.mounts = 1 /\ g.shown = g.event
<1>1. CASE f.sent
  <2>1. SendPayload(f) = f
    BY <1>1 DEF SendPayload
  <2> QED
    BY <1>1, <2>1
<1>2. CASE ~ f.sent
  <2>1. f.inbox = << >> /\ f.mounts = 0 /\ f.shown = None
    BY <1>2
  <2>2. CASE f.script = "ran"
    <3> DEFINE h == [f EXCEPT !.inbox = Append(f.inbox, f.event)]
    <3>1. Append(f.inbox, f.event) = <<f.event>> /\ <<f.event>> \in Seq(Nat)
      BY <2>1 DEF Frame
    <3>2. h \in Frame /\ h.inbox = <<f.event>> /\ h.nr = f.nr
          /\ h.event = f.event /\ h.script = f.script /\ h.loaded = f.loaded
          /\ h.mounts = f.mounts /\ h.shown = f.shown
      BY <3>1 DEF Frame
    <3>3. SendPayload(f) = [h EXCEPT !.sent = TRUE]
      BY <1>2, <2>2 DEF SendPayload
    <3> HIDE DEF h
    <3> DEFINE g == [h EXCEPT !.sent = TRUE]
    <3>4. g \in Frame /\ g.inbox = <<f.event>> /\ g.nr = f.nr
          /\ g.event = f.event /\ g.script = f.script
          /\ g.loaded = f.loaded /\ g.sent
          /\ g.mounts = f.mounts /\ g.shown = f.shown
      BY <3>2 DEF Frame
    <3> HIDE DEF g
    <3> QED
      BY <2>1, <2>2, <3>3, <3>4 DEF g
  <2>3. CASE f.script # "ran"
    <3>1. SendPayload(f) = [f EXCEPT !.sent = TRUE]
      BY <1>2, <2>3 DEF SendPayload
    <3> QED
      BY <2>1, <2>3, <3>1 DEF Frame
  <2> QED
    BY <2>2, <2>3
<1> QED
  BY <1>1, <1>2

LEMMA LoadFrameStep ==
  ASSUME SdkInv, ViewInv, LoadFrame
  PROVE  ViewInv'
<1> DEFINE f == [frame EXCEPT !.loaded = TRUE]
<1>1. frame # NoFrame /\ frame.script # "loading"
      /\ frame' = SendPayload(f) /\ mail' = mail
      /\ UNCHANGED <<sdkVars, stored, isolated, list, withReplay, choice,
                     cache, frames>>
  BY DEF LoadFrame
<1>2. /\ f \in Frame /\ f.nr = frame.nr /\ f.event = frame.event
      /\ f.script = frame.script /\ f.loaded /\ f.sent = frame.sent
      /\ f.inbox = frame.inbox /\ f.mounts = frame.mounts
      /\ f.shown = frame.shown
  BY <1>1, FrameIs DEF Frame
<1> HIDE DEF f
<1>3. LET g == SendPayload(f) IN
      /\ g \in Frame /\ g.nr = f.nr /\ g.event = f.event
      /\ g.script = f.script /\ g.loaded = f.loaded /\ g.sent
      /\ g.script # "ran" =>
           g.inbox = << >> /\ g.mounts = 0 /\ g.shown = None
      /\ g.script = "ran" =>
           \/ g.inbox = <<g.event>> /\ g.mounts = 0 /\ g.shown = None
           \/ g.inbox = << >> /\ g.mounts = 1 /\ g.shown = g.event
  <2>1. ~ f.sent \/ f.script # "ran" =>
          f.inbox = << >> /\ f.mounts = 0 /\ f.shown = None
    BY <1>1, <1>2 DEF ViewInv, BridgeOK
  <2>2. f.sent /\ f.script = "ran" =>
          \/ f.inbox = <<f.event>> /\ f.mounts = 0 /\ f.shown = None
          \/ f.inbox = << >> /\ f.mounts = 1 /\ f.shown = f.event
    BY <1>1, <1>2 DEF ViewInv, BridgeOK
  <2> QED
    BY <1>1, <1>2, <2>1, <2>2, SendOK
<1>4. PageOK' /\ FrameOK'
  BY <1>1, <1>2, <1>3, MailIs, FrameStep
<1>5. BridgeOK'
  BY <1>1, <1>2, <1>3 DEF BridgeOK
<1>6. MailOK'
  BY <1>1, <1>2, <1>3 DEF ViewInv, MailOK
<1> QED
  BY <1>4, <1>5, <1>6 DEF ViewInv

LEMMA HearReadyStep ==
  ASSUME SdkInv, ViewInv, HearReady
  PROVE  ViewInv'
<1>1. mail # << >> /\ mail' = Tail(mail)
      /\ frame' = (IF Head(mail) = frame.nr THEN SendPayload(frame) ELSE frame)
      /\ UNCHANGED <<sdkVars, stored, isolated, list, withReplay, choice,
                     cache, frames>>
  BY DEF HearReady
<1>2. mail' \in Seq(1 .. frames) /\ Len(mail') = Len(mail) - 1
      /\ \A k \in 1 .. Len(mail') :
           k + 1 \in 1 .. Len(mail) /\ mail'[k] = mail[k + 1]
  BY <1>1, MailIs
<1>3. Len(mail) > 0 /\ Head(mail) = mail[1] /\ 1 \in 1 .. Len(mail)
  BY <1>1, MailIs
<1>4. CASE frame # NoFrame /\ Head(mail) = frame.nr
  <2>1. frame.script = "ran" /\ frame' = SendPayload(frame)
    BY <1>1, <1>3, <1>4 DEF ViewInv, MailOK
  <2>2. frame \in Frame
    BY <1>4, FrameIs
  <2>3. LET g == SendPayload(frame) IN
        /\ g \in Frame /\ g.nr = frame.nr /\ g.event = frame.event
        /\ g.script = "ran" /\ g.loaded = frame.loaded /\ g.sent
        /\ \/ g.inbox = <<g.event>> /\ g.mounts = 0 /\ g.shown = None
           \/ g.inbox = << >> /\ g.mounts = 1 /\ g.shown = g.event
    BY <1>4, <2>1, <2>2, SendOK DEF ViewInv, BridgeOK
  <2>4. PageOK' /\ FrameOK'
    BY <1>1, <1>2, <1>4, <2>1, <2>3, FrameStep
  <2>5. BridgeOK' /\ MailOK'
    BY <2>1, <2>3 DEF BridgeOK, MailOK
  <2> QED
    BY <2>4, <2>5 DEF ViewInv
<1>5. CASE frame = NoFrame \/ Head(mail) # frame.nr
  <2>1. frame' = frame
    <3>1. CASE frame = NoFrame
      <4>1. frame.nr = 0 /\ Head(mail) # 0
        BY <1>3, <3>1, MailIs DEF NoFrame
      <4> QED
        BY <1>1, <4>1
    <3> QED
      BY <1>1, <1>5, <3>1
  <2>2. PageOK' /\ FrameOK'
    BY <1>1, <1>2, <2>1, FrameStep, FrameIs
  <2>3. BridgeOK'
    BY <2>1 DEF ViewInv, BridgeOK
  <2>4. MailOK'
    BY <1>2, <2>1 DEF ViewInv, MailOK
  <2> QED
    BY <2>2, <2>3, <2>4 DEF ViewInv
<1> QED
  BY <1>4, <1>5

LEMMA MountStep ==
  ASSUME SdkInv, ViewInv, MountReplay
  PROVE  ViewInv'
<1>1. frame # NoFrame /\ frame.inbox # << >> /\ mail' = mail
      /\ UNCHANGED <<sdkVars, stored, isolated, list, withReplay, choice,
                     cache, frames>>
  BY DEF MountReplay
<1>2. /\ frame.sent /\ frame.script = "ran"
      /\ frame.inbox = <<frame.event>> /\ frame.mounts = 0
  BY <1>1 DEF ViewInv, BridgeOK
<1>3. Head(frame.inbox) = frame.event /\ Tail(frame.inbox) = << >>
  BY <1>2
<1>4. Mounted(frame.event) \in {"idle", "failed"}
  BY DEF Mounted
<1>5. frame' = [nr |-> frame.nr, event |-> frame.event,
                script |-> frame.script, loaded |-> frame.loaded,
                sent |-> frame.sent, inbox |-> << >>,
                shown |-> frame.event, mounts |-> 1,
                status |-> Mounted(frame.event)]
  BY <1>2, <1>3 DEF MountReplay
<1>6. << >> \in Seq(Nat)
  OBVIOUS
<1>7. /\ frame' \in Frame /\ frame'.nr = frame.nr
      /\ frame'.event = frame.event /\ frame'.script = "ran" /\ frame'.sent
      /\ frame'.inbox = << >> /\ frame'.mounts = 1
      /\ frame'.shown = frame'.event
  BY <1>1, <1>2, <1>4, <1>5, <1>6, FrameIs DEF Frame
<1>8. PageOK' /\ FrameOK'
  BY <1>1, <1>7, MailIs, FrameStep
<1>9. BridgeOK' /\ MailOK'
  BY <1>7 DEF BridgeOK, MailOK
<1> QED
  BY <1>8, <1>9 DEF ViewInv

\* The controls of the player.
LEMMA StatusStep ==
  ASSUME SdkInv, ViewInv, frame # NoFrame,
         NEW status \in {"playing", "paused", "finished"},
         frame' = [frame EXCEPT !.status = status], mail' = mail,
         UNCHANGED <<sdkVars, stored, isolated, list, withReplay, choice,
                     cache, frames>>
  PROVE  ViewInv'
<1>1. /\ frame' \in Frame /\ frame'.nr = frame.nr
      /\ frame'.event = frame.event /\ frame'.script = frame.script
      /\ frame'.loaded = frame.loaded /\ frame'.sent = frame.sent
      /\ frame'.inbox = frame.inbox /\ frame'.mounts = frame.mounts
      /\ frame'.shown = frame.shown
  BY FrameIs DEF Frame
<1>2. PageOK' /\ FrameOK'
  BY <1>1, MailIs, FrameStep
<1>3. BridgeOK'
  BY <1>1 DEF ViewInv, BridgeOK
<1>4. MailOK'
  BY <1>1 DEF ViewInv, MailOK
<1> QED
  BY <1>2, <1>3, <1>4 DEF ViewInv

LEMMA ClickStep ==
  ASSUME SdkInv, ViewInv, Click
  PROVE  ViewInv'
<1>1. frame' = [frame EXCEPT !.status =
                  IF frame.status = "playing" THEN "paused" ELSE "playing"]
  BY DEF Click
<1>2. CASE frame.status = "playing"
  <2>1. frame' = [frame EXCEPT !.status = "paused"]
    BY <1>1, <1>2
  <2> QED
    BY <2>1, StatusStep DEF Click
<1>3. CASE frame.status # "playing"
  <2>1. frame' = [frame EXCEPT !.status = "playing"]
    BY <1>1, <1>3
  <2> QED
    BY <2>1, StatusStep DEF Click
<1> QED
  BY <1>2, <1>3

LEMMA ViewInvStep == SdkInv /\ ViewInv /\ [Next]_vars => ViewInv'
<1> SUFFICES ASSUME SdkInv, ViewInv, [Next]_vars PROVE ViewInv'
  OBVIOUS
<1>1. CASE Finish
  BY <1>1, StatusStep DEF Finish
<1>2. CASE UNCHANGED vars
  <2>1. stored' \subseteq {sent.error : sent \in replays'}
    BY <1>2 DEF vars, sdkVars, ViewInv, PageOK
  <2> QED
    BY <1>2, <2>1, CapturedLen, ViewSame DEF vars, sdkVars
<1> QED
  BY <1>1, <1>2, PageStep, ArriveStep, OpenIssueStep, RefetchStep, SelectStep,
     FetchStep, RunScriptStep, LoadFrameStep, HearReadyStep, MountStep,
     ClickStep DEF Next

LEMMA ReplayInv == Spec => [](SdkInv /\ ViewInv)
BY InitSdkInv, InitViewInv, SdkInvStep, ViewInvStep, PTL DEF Spec

\* What is listed was captured, what is played was uploaded, and the frame that
\* is mounted is the last one made.
THEOREM ReplayTypes == Spec => []TypeOK
<1>1. ASSUME SdkInv, ViewInv PROVE TypeOK
  <2>1. PageOK /\ FrameOK
    BY <1>1 DEF ViewInv
  <2>2. frame # NoFrame => frame.nr = frames /\ frame.event \in cache
    BY <2>1 DEF FrameOK
  <2> QED
    BY <1>1, <2>1, <2>2, SdkTypes DEF TypeOK, PageOK
<1> QED
  BY <1>1, ReplayInv, PTL

\* However often the player is replaced and however "ready" and the load event
\* race, the viewer renders the recording of the selected event, once (comments
\* IssueDetailPage.tsx:149-151, 168-170).
THEOREM ReplayRenderedOnce == Spec => []RenderedOnce
<1>1. ASSUME SdkInv, ViewInv PROVE RenderedOnce
  <2> SUFFICES ASSUME frame # NoFrame
               PROVE  /\ frame.event = Selected(choice, list)
                      /\ frame.shown \in {None, frame.event}
                      /\ frame.mounts <= 1
                      /\ frame.loaded /\ frame.script = "ran"
                           /\ frame.inbox = << >> => frame.mounts = 1
    BY DEF RenderedOnce
  <2>1. /\ frame.event = Selected(choice, list)
        /\ frame.loaded => frame.sent
        /\ ~ frame.sent \/ frame.script # "ran" =>
             frame.mounts = 0 /\ frame.shown = None
        /\ frame.sent /\ frame.script = "ran" =>
             \/ frame.inbox = <<frame.event>> /\ frame.mounts = 0
                  /\ frame.shown = None
             \/ frame.mounts = 1 /\ frame.shown = frame.event
    BY <1>1 DEF ViewInv, FrameOK, BridgeOK
  <2>2. <<frame.event>> # << >>
    OBVIOUS
  <2> QED
    BY <2>1, <2>2
<1> QED
  BY <1>1, ReplayInv, PTL
=============================================================================
