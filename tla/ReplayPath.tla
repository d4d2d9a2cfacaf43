----------------------------- MODULE ReplayPath -----------------------------
(***************************************************************************)
(* A session recording from the page that made it to the developer who      *)
(* plays it: the SDK of SdkReplay, the uploads on their way to the server,  *)
(* and the issue page of the dashboard (pages/IssueDetailPage.tsx) with its *)
(* player, in the page or in the isolated viewer (replay-viewer/main.ts,    *)
(* replay/render.ts), an iframe of another origin reached by messages.      *)
(*                                                                         *)
(* Height, labels, spinners and texts are left out. Snapshots take the same *)
(* bridge. An event is named by the number of its error.                    *)
(***************************************************************************)
EXTENDS SdkReplay

CONSTANT
  MaxFrames        \* bound: players mounted

ASSUME FramesAssumption == MaxFrames \in Nat

VARIABLES
  stored,     \* the errors whose recording reached the server
  isolated,   \* whether VITE_REPLAY_ORIGIN is configured
  list,       \* the issue page: errors 1 .. list are listed, newest first
  withReplay, \* those listed with hasReplay
  choice,     \* selectedEventId, or None
  cache,      \* recordings the page has fetched
  frame,      \* the mounted player, or NoFrame
  frames,     \* players mounted so far
  mail        \* "ready" messages for the dashboard, by the frame that sent them

viewVars == <<isolated, list, withReplay, choice, cache, frame, frames, mail>>
vars == <<sdkVars, stored, viewVars>>

Viewing == list > 0
NoFrame == [nr |-> 0, event |-> None]

Init ==
  /\ SdkInit
  /\ isolated \in BOOLEAN
  /\ stored = {} /\ list = 0 /\ withReplay = {} /\ choice = None /\ cache = {}
  /\ frame = NoFrame /\ frames = 0 /\ mail = << >>

\* The page that records: until the developer looks (bound).
Page == ~ Viewing /\ SdkNext /\ UNCHANGED <<stored, viewVars>>

\* An upload reaches the server, in any order; it may also be lost.
Arrive ==
  \E sent \in replays :
    /\ sent.error \notin stored
    /\ stored' = stored \cup {sent.error}
    /\ UNCHANGED <<sdkVars, viewVars>>

-----------------------------------------------------------------------------
(* The issue page. *)

\* The chosen event while it is listed, or else the newest.
Selected(chosen, n) == IF chosen \in 1 .. n THEN chosen ELSE n

Recording(error) == CHOOSE sent \in replays : sent.error = error

\* mountReplay: rrweb refuses a recording of less than two events.
Mounted(error) == IF Recording(error).long THEN "idle" ELSE "failed"

\* A new player for an event; without the isolated viewer it renders at once.
Player(error) ==
  IF isolated
  THEN [nr |-> frames + 1, event |-> error, script |-> "loading",
        loaded |-> FALSE, sent |-> FALSE, inbox |-> << >>, shown |-> None,
        mounts |-> 0, status |-> "none"]
  ELSE [nr |-> frames + 1, event |-> error, script |-> "ran",
        loaded |-> TRUE, sent |-> TRUE, inbox |-> << >>, shown |-> error,
        mounts |-> 1, status |-> Mounted(error)]

\* What React renders: the section is keyed by the selected event, so its
\* player is kept while that event stays selected and is replaced with it.
Render(n, flags, chosen, fetched) ==
  LET error == Selected(chosen, n) IN
  /\ list' = n /\ withReplay' = flags /\ choice' = chosen /\ cache' = fetched
  /\ IF error \notin flags \cap fetched
     THEN frame' = NoFrame /\ UNCHANGED frames
     ELSE IF frame.event = error THEN UNCHANGED <<frame, frames>>
     ELSE /\ frames < MaxFrames
          /\ frame' = Player(error)
          /\ frames' = frames + 1
  /\ UNCHANGED <<sdkVars, stored, isolated, mail>>

\* The developer opens the issue; whoever had the page open has left it, and the
\* timers of the page are lost (comment client.ts:155-157).
OpenIssue ==
  /\ ~ Viewing /\ captured # << >> /\ ~ hasMap
  /\ \E n \in 1 .. Len(captured) :
       list' = n /\ withReplay' = stored \cap 1 .. n
  /\ recorders' = << >> /\ timers' = {} /\ active' = None
  /\ now' = MaxTime /\ emits' = MaxEmits
  /\ UNCHANGED <<hasMap, wired, forwards, captured, replays, stored, isolated,
                 choice, cache, frame, frames, mail>>

\* The list is fetched again: more events, more recordings.
RefetchEvents ==
  /\ Viewing
  /\ \E n \in list .. Len(captured) :
       Render(n, stored \cap 1 .. n, choice, cache)

\* The buttons and the menu of the event navigation.
SelectEvent ==
  /\ Viewing
  /\ \E error \in 1 .. list : Render(list, withReplay, error, cache)

\* The section asks for the recording once (staleTime Infinity).
FetchReplay ==
  LET error == Selected(choice, list) IN
  /\ Viewing
  /\ error \in withReplay \ cache
  /\ Render(list, withReplay, choice, cache \cup {error})

-----------------------------------------------------------------------------
(* The isolated viewer. *)

\* Mutant of SendPayload: no guard.
SendAlways(f) ==
  [f EXCEPT !.sent = TRUE,
            !.inbox = IF f.script = "ran" THEN Append(@, f.event) ELSE @]

\* The payload of the frame is posted, once; nobody hears it unless the script
\* of the viewer has run.
SendPayload(f) ==
  LET heard == IF f.script = "ran"
               THEN [f EXCEPT !.inbox = Append(@, f.event)] ELSE f IN
  IF f.sent THEN f ELSE [heard EXCEPT !.sent = TRUE]

\* The viewer's module runs, listens and announces itself, or fails to load.
RunScript ==
  /\ frame # NoFrame /\ frame.script = "loading"
  /\ \/ /\ frame' = [frame EXCEPT !.script = "ran"]
        /\ mail' = Append(mail, frame.nr)
     \/ frame' = [frame EXCEPT !.script = "failed"] /\ UNCHANGED mail
  /\ UNCHANGED <<sdkVars, stored, isolated, list, withReplay, choice, cache,
                 frames>>

\* The load event of the iframe comes after its script.
LoadFrame ==
  /\ frame # NoFrame /\ frame.script # "loading" /\ ~ frame.loaded
  /\ frame' = SendPayload([frame EXCEPT !.loaded = TRUE])
  /\ UNCHANGED <<sdkVars, stored, isolated, list, withReplay, choice, cache,
                 frames, mail>>

\* The dashboard hears a "ready": one of another frame is not for this bridge.
HearReady ==
  /\ mail # << >>
  /\ mail' = Tail(mail)
  /\ frame' = IF Head(mail) = frame.nr THEN SendPayload(frame) ELSE frame
  /\ UNCHANGED <<sdkVars, stored, isolated, list, withReplay, choice, cache,
                 frames>>

\* The viewer hears a payload: the controller is destroyed, a new one mounted.
MountReplay ==
  /\ frame # NoFrame /\ frame.inbox # << >>
  /\ frame' = [nr |-> frame.nr, event |-> frame.event,
                script |-> frame.script, loaded |-> frame.loaded,
                sent |-> frame.sent, inbox |-> Tail(frame.inbox),
                shown |-> Head(frame.inbox), mounts |-> frame.mounts + 1,
                status |-> Mounted(Head(frame.inbox))]
  /\ UNCHANGED <<sdkVars, stored, isolated, list, withReplay, choice, cache,
                 frames, mail>>

\* The one button of the player: play, pause, resume, play from the start.
Click ==
  /\ frame # NoFrame
  /\ frame.status \in {"idle", "playing", "paused", "finished"}
  /\ frame' = [frame EXCEPT !.status =
                 IF @ = "playing" THEN "paused" ELSE "playing"]
  /\ UNCHANGED <<sdkVars, stored, isolated, list, withReplay, choice, cache,
                 frames, mail>>

Finish ==
  /\ frame # NoFrame /\ frame.status = "playing"
  /\ frame' = [frame EXCEPT !.status = "finished"]
  /\ UNCHANGED <<sdkVars, stored, isolated, list, withReplay, choice, cache,
                 frames, mail>>

Next ==
  \/ Page \/ Arrive
  \/ OpenIssue \/ RefetchEvents \/ SelectEvent \/ FetchReplay
  \/ RunScript \/ LoadFrame \/ HearReady \/ MountReplay \/ Click \/ Finish

Spec == Init /\ [][Next]_vars

-----------------------------------------------------------------------------
\* Types; a recording in the dashboard is one that was uploaded.
TypeOK ==
  /\ SdkTypeOK
  /\ stored \subseteq {sent.error : sent \in replays}
  /\ withReplay \cup cache \subseteq stored
  /\ list \in 0 .. Len(captured) /\ choice \in 0 .. list
  /\ frames \in 0 .. MaxFrames /\ mail \in Seq(1 .. frames)
  /\ frame # NoFrame => frame.nr = frames /\ frame.event \in cache

\* The viewer renders what it is given exactly once, however "ready" and the
\* load event race and whichever event was selected before, and what it shows
\* is the recording of the event selected now (comments
\* IssueDetailPage.tsx:149-151, 168-170).
RenderedOnce ==
  frame # NoFrame =>
    /\ frame.event = Selected(choice, list)
    /\ frame.shown \in {None, frame.event}
    /\ frame.mounts <= 1
    /\ frame.loaded /\ frame.script = "ran" /\ frame.inbox = << >> =>
         frame.mounts = 1
=============================================================================
