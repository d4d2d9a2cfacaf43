----------------------------- MODULE SdkReplay -----------------------------
(***************************************************************************)
(* The browser SDK in one page (packages/sdk/src): init and close, errors   *)
(* captured by the application, by the global handlers and from maps, and   *)
(* the rolling session recording that is uploaded for an error.             *)
(*                                                                         *)
(* rrweb and the timers of the page are the environment: a recorder emits   *)
(* a Meta and a full snapshot when the page is loaded and again with the    *)
(* first event after CheckoutEvery; a timer fires at its time or later.     *)
(***************************************************************************)
EXTENDS Naturals, Sequences, FiniteSets, SequencesExt

CONSTANTS
  ReplayWindow,    \* REPLAY_WINDOW_MS, in ticks
  CheckoutEvery,   \* CHECKOUT_EVERY_MS
  FlushDelay,      \* REPLAY_FLUSH_DELAY_MS
  MapWindow,       \* windowMs of wireMapErrors
  MaxPerWindow,    \* its cap, not 0
  MaxTime,         \* bound: ticks
  MaxInits,        \* bound: clients
  MaxEmits,        \* bound: what the page does, for all recorders
  MaxCaptures,     \* bound: errors captured in a page that records
  MaxForwards      \* bound: and in a page with a map

ASSUME SdkAssumption ==
  /\ {ReplayWindow, CheckoutEvery, FlushDelay, MapWindow, MaxPerWindow,
      MaxTime, MaxInits} \subseteq Nat
  /\ MaxPerWindow > 0 /\ CheckoutEvery > 0

Clients == 1 .. MaxInits
None == 0

VARIABLES
  hasMap,     \* bound: a page has a map, or it records, not both
  now,
  active,     \* activeClient, or None
  recorders,  \* per client so far: running, what rrweb emitted and what is kept
  timers,     \* deferred uploads: the error, its client, when they are due
  replays,    \* uploads: the error, whose recording, whether of 2 events
  captured,   \* errors captured so far, by which client
  wired,      \* whether a map is listened to, its window and count
  forwards,   \* for checking: when errors were forwarded since it was wired
  emits       \* count for MaxEmits

sdkVars == <<hasMap, now, active, recorders, timers, replays, captured, wired,
             forwards, emits>>

NoWire == [on |-> FALSE, start |-> 0, count |-> 0]

SdkInit ==
  /\ hasMap \in BOOLEAN
  /\ now = 0 /\ active = None /\ recorders = << >> /\ timers = {}
  /\ replays = {} /\ captured = << >> /\ wired = NoWire
  /\ forwards = << >> /\ emits = 0

-----------------------------------------------------------------------------
(* The rolling buffer. *)

Event(type) == [type |-> type, at |-> now]
IndexesOf(type, events) == {i \in DOMAIN events : events[i].type = type}
Latest(S) == CHOOSE i \in S : \A j \in S : j <= i
Earliest(S) == CHOOSE i \in S : \A j \in S : i <= j

\* Mutant of Anchor: the events of the window, whatever they begin with.
FirstInWindow(events, at) ==
  LET recent == {i \in DOMAIN events : events[i].at + ReplayWindow >= at} IN
  IF recent = {} THEN None ELSE Earliest(recent)

\* Where the kept events begin: the last full snapshot at or before the cutoff,
\* or else the first one; None when there is none.
Anchor(events, at) ==
  LET full == IndexesOf("full", events)
      old == {i \in full : events[i].at + ReplayWindow <= at} IN
  IF old # {} THEN Latest(old)
  ELSE IF full # {} THEN Earliest(full) ELSE None

\* trimReplayBuffer: with the nearest Meta before the anchor.
TrimReplayBuffer(events, at) ==
  LET start == Anchor(events, at)
      meta == {i \in IndexesOf("meta", events) : i < start}
      kept == SubSeq(events, start, Len(events)) IN
  IF start <= 1 THEN events
  ELSE IF meta = {} THEN kept
  ELSE <<events[Latest(meta)]>> \o kept

\* rrweb emits an event: it is pushed and the buffer trimmed.
Push(recorder, type) ==
  [running |-> recorder.running, loaded |-> recorder.loaded,
   emitted |-> Append(recorder.emitted, Event(type)),
   kept |-> TrimReplayBuffer(Append(recorder.kept, Event(type)), now)]

Checkout(recorder) == Push(Push(recorder, "meta"), "full")

CheckoutDue(recorder) ==
  LET full == IndexesOf("full", recorder.emitted) IN
  full # {} /\ recorder.emitted[Latest(full)].at + CheckoutEvery <= now

\* The page changes: every running recorder sees it.
Emit ==
  /\ emits < MaxEmits
  /\ emits' = emits + 1
  /\ \E c \in DOMAIN recorders :
       /\ recorders[c].running /\ recorders[c].loaded
       /\ recorders' = [recorders EXCEPT ![c] =
            IF CheckoutDue(@) THEN Checkout(Push(@, "change"))
            ELSE Push(@, "change")]
  /\ UNCHANGED <<hasMap, now, active, timers, replays, captured, wired,
                 forwards>>

\* A page still loading: its content is there, and then it has finished loading;
\* only now is the first snapshot taken.
ContentLoaded(c) ==
  /\ recorders[c].running /\ ~ recorders[c].loaded
  /\ recorders[c].emitted = << >>
  /\ recorders' = [recorders EXCEPT ![c] = Push(@, "dom")]
  /\ UNCHANGED <<hasMap, now, active, timers, replays, captured, wired,
                 forwards, emits>>

Load(c) ==
  /\ recorders[c].running /\ ~ recorders[c].loaded
  /\ recorders[c].emitted # << >>
  /\ recorders' = [recorders EXCEPT ![c] =
       Checkout(Push([@ EXCEPT !.loaded = TRUE], "load"))]
  /\ UNCHANGED <<hasMap, now, active, timers, replays, captured, wired,
                 forwards, emits>>

-----------------------------------------------------------------------------
(* The client. *)

\* Mutant of Stopped: the previous recorder goes on.
NotStopped == recorders

Stopped == [c \in DOMAIN recorders |->
              IF c = active THEN [recorders[c] EXCEPT !.running = FALSE]
                            ELSE recorders[c]]

\* init with a valid DSN: the previous client is closed. sessionReplay is off,
\* or on in a page that is still loading or loaded.
InitClient(replay) ==
  /\ Len(recorders) < MaxInits
  /\ hasMap => replay = "off"
  /\ LET fresh == [running |-> replay # "off", loaded |-> replay = "loaded",
                   emitted |-> << >>, kept |-> << >>] IN
     recorders' = Append(Stopped, IF fresh.loaded THEN Checkout(fresh)
                                                  ELSE fresh)
  /\ active' = Len(recorders) + 1
  /\ UNCHANGED <<hasMap, now, timers, replays, captured, wired, forwards,
                 emits>>

\* close, and init with an invalid DSN.
CloseClient ==
  /\ active # None
  /\ recorders' = Stopped
  /\ active' = None
  /\ UNCHANGED <<hasMap, now, timers, replays, captured, wired, forwards,
                 emits>>

\* captureException of a client sends the event at once and, when it records,
\* the recording after a delay; the timer keeps the recorder of now.
Capture ==
  /\ Len(captured) < IF hasMap THEN MaxForwards ELSE MaxCaptures
  /\ captured' = Append(captured, active)
  /\ timers' = timers \cup
       {[error |-> Len(captured) + 1, client |-> c, due |-> now + FlushDelay] :
          c \in {d \in {active} : recorders[d].running}}

CaptureException ==
  /\ active # None
  /\ Capture
  /\ UNCHANGED <<hasMap, now, active, recorders, replays, wired, forwards,
                 emits>>

\* The timer: what is recorded by now is uploaded, unless there is nothing.
FlushReplay ==
  \E timer \in timers :
    /\ timer.due <= now
    /\ timers' = timers \ {timer}
    /\ LET kept == recorders[timer.client].kept IN
       replays' = replays \cup
         (IF kept = << >> THEN {}
          ELSE {[error |-> timer.error, client |-> timer.client,
                 long |-> Len(kept) > 1]})
    /\ UNCHANGED <<hasMap, now, active, recorders, captured, wired, forwards,
                   emits>>

-----------------------------------------------------------------------------
(* captureMapErrors. *)

\* A map is wired, for the first time or again: a window of its own.
WireMap ==
  /\ hasMap /\ ~ wired.on
  /\ wired' = [on |-> TRUE, start |-> now, count |-> 0]
  /\ forwards' = << >>
  /\ UNCHANGED <<hasMap, now, active, recorders, timers, replays, captured,
                 emits>>

UnwireMap ==
  /\ wired.on
  /\ wired' = NoWire
  /\ UNCHANGED <<hasMap, now, active, recorders, timers, replays, captured,
                 forwards, emits>>

\* Mutant of Window: the new window keeps its old beginning.
WindowKept(w) ==
  IF now - w.start >= MapWindow THEN [w EXCEPT !.count = 0] ELSE w

\* The tumbling window that an error of the map falls in.
Window(w) ==
  IF now - w.start >= MapWindow
  THEN [on |-> w.on, start |-> now, count |-> 0] ELSE w

\* An error event of the map: over the cap it is dropped; without a client it is
\* counted and lost.
MapError ==
  LET w == Window(wired) IN
  /\ wired.on
  /\ \/ /\ w.count >= MaxPerWindow
        /\ wired' = w
        /\ UNCHANGED <<timers, captured, forwards>>
     \/ /\ w.count < MaxPerWindow
        /\ wired' = [w EXCEPT !.count = @ + 1]
        /\ IF active = None THEN UNCHANGED <<timers, captured, forwards>>
           ELSE Capture /\ forwards' = Append(forwards, now)
  /\ UNCHANGED <<hasMap, now, active, recorders, replays, emits>>

Tick ==
  /\ now < MaxTime
  /\ now' = now + 1
  /\ UNCHANGED <<hasMap, active, recorders, timers, replays, captured, wired,
                 forwards, emits>>

SdkNext ==
  \/ Emit \/ (\E c \in DOMAIN recorders : ContentLoaded(c) \/ Load(c))
  \/ \E replay \in {"off", "loading", "loaded"} : InitClient(replay)
  \/ CloseClient \/ CaptureException \/ FlushReplay
  \/ WireMap \/ UnwireMap \/ MapError \/ Tick

-----------------------------------------------------------------------------
EventSeq ==
  Seq([type : {"dom", "load", "meta", "full", "change"}, at : 0 .. MaxTime])

\* Types; only the active client records.
SdkTypeOK ==
  /\ now \in 0 .. MaxTime /\ active \in {None} \cup DOMAIN recorders
  /\ \A c \in DOMAIN recorders :
       /\ recorders[c].running => c = active
       /\ recorders[c].kept \in EventSeq
  /\ captured \in Seq(Clients)
  /\ \A timer \in timers : captured[timer.error] = timer.client

\* A full snapshot, preceded by its Meta at most.
Anchored(events) ==
  \/ events[1].type = "full"
  \/ events[1].type = "meta" /\ events[2].type = "full"

\* Once rrweb has taken a full snapshot, what a timer uploads, whenever it
\* fires, can be played and shows the moments before: it is anchored, and has
\* everything from any event of the last ReplayWindow on that came after the
\* first full snapshot (before there is one: ReplayAnchored).
\* It is the recording of the client that captured the error, also when that
\* client was closed or replaced in between (comments client.ts:151-157,
\* sessionReplay.ts:22-31).
ReplayCoversError ==
  /\ \A sent \in replays : captured[sent.error] = sent.client
  /\ \A timer \in timers :
       LET recorder == recorders[timer.client]
           full == IndexesOf("full", recorder.emitted)
           kept == recorder.kept IN
       full # {} =>
         /\ Anchored(kept)
         /\ \A i \in Earliest(full) .. Len(recorder.emitted) :
              recorder.emitted[i].at + ReplayWindow > now =>
                IsSuffix(SubSeq(recorder.emitted, i, Len(recorder.emitted)),
                         kept)

\* "a replay must always begin with a full snapshot to rebuild the DOM"
\* (sessionReplay.ts:25, and :10 "always snapshot-anchored"): so does what is
\* uploaded for an error, also of a page that has not finished loading.
ReplayAnchored ==
  [][\A sent \in replays' \ replays :
       Anchored(recorders[sent.client].kept)]_sdkVars

\* From one wiring of a map to the next, in any MapWindow at most twice
\* MaxPerWindow of its errors are forwarded (comment map.ts:41-43).
MapFloodBounded ==
  \A i \in DOMAIN forwards :
    Cardinality({j \in i .. Len(forwards) :
                   forwards[j] - forwards[i] < MapWindow}) <= 2 * MaxPerWindow
=============================================================================
