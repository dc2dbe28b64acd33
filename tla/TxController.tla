---------------------------- MODULE TxController ----------------------------
(***************************************************************************)
(* agent/tx/tx_controller.py: the dashboard-controlled TX generator.  As   *)
(* in ViewController, the MQTT thread's set_command() is a step under the  *)
(* lock and then the stop event, and the scan thread runs run_tx(), one    *)
(* step per access to what the threads share.                              *)
(*                                                                         *)
(* Data kept: a request is the number of its start command; clip[i] stands *)
(* for the baked parameters of start i (its render key), and "cache" for   *)
(* what the one cache file holds.  Frequencies and gains are abstracted    *)
(* away, a deadline may fall at any time.  A Bug_ definition is a          *)
(* plausible mistake in the definition below it, used by no specification. *)
(***************************************************************************)
EXTENDS Naturals

CONSTANTS
  Clips,          \* render keys
  NoClip,         \* no clip rendered yet
  Garbled,        \* a cache file cut short by a render that went wrong
  MaxStarts, MaxStops, MaxRetunes,  \* bounds on the operator's commands
  RenderFaults,   \* how a render may go wrong: "cutShort", "raises"
  MaxBadRenders   \* bound on renders that go wrong

ASSUME TxBounds ==
  /\ MaxStarts \in Nat /\ MaxStops \in Nat /\ MaxRetunes \in Nat
  /\ MaxBadRenders \in Nat /\ RenderFaults \subseteq {"cutShort", "raises"}

ASSUME TxClips == NoClip \notin Clips /\ Garbled \notin Clips

None == 0

VARIABLES
  pending,   \* self._pending: the request not yet consumed, or None
  retune,    \* a retune is stored in self._retune
  stop,      \* self._stop
  net,       \* the MQTT thread: "ready", or the command whose stop.set() is due
  starts, stops, retunes,   \* commands so far
  clip,      \* what each start asks for
  pc,        \* the scan thread: "sweep", or where it is in run_tx
  req,       \* run_tx's request
  radio,     \* the TX radio is open
  lastKey,   \* self._last_render_key
  cache,     \* the content of the cache file
  status,    \* the published status
  badRenders,\* renders that went wrong so far
  sessions,  \* history: sessions begun
  windows,   \* history: transmit windows of max_s begun
  stopSeen   \* history: a stop has set the event since this session's render,
             \* and no retune has come after it

counts == <<starts, stops, retunes, clip>>
commands == <<pending, retune, stop, net, counts>>
clipVars == <<lastKey, cache, badRenders>>
histVars == <<sessions, windows, stopSeen>>
session == <<req, radio, clipVars, status, sessions, windows>>
vars == <<commands, pc, session, stopSeen>>

Init ==
  /\ pending = None /\ retune = FALSE /\ stop = FALSE
  /\ net = "ready" /\ starts = 0 /\ stops = 0 /\ retunes = 0
  /\ clip \in [1..MaxStarts -> Clips]
  /\ pc = "sweep" /\ req = None /\ radio = FALSE /\ status = "idle"
  /\ lastKey = NoClip /\ cache = NoClip /\ badRenders = 0
  /\ sessions = 0 /\ windows = 0 /\ stopSeen = FALSE

InSession == pc # "sweep"

\* run_tx may still transmit.
OnDuty == pc \in {"clear", "free", "render", "check", "open", "window",
                  "transmit", "consume", "reclear"}

-----------------------------------------------------------------------------
(* The MQTT thread: set_command. *)

\* A start: the request replaces any other, under the lock.
StartLock ==
  /\ net = "ready" /\ starts < MaxStarts
  /\ starts' = starts + 1 /\ pending' = starts'
  /\ net' = "start"
  /\ UNCHANGED <<retune, stop, stops, retunes, clip, pc, session, stopSeen>>

\* A stop: cancels what waits, a start or a retune.
StopLock ==
  /\ net = "ready" /\ stops < MaxStops
  /\ stops' = stops + 1 /\ pending' = None /\ retune' = FALSE
  /\ net' = "stop"
  /\ UNCHANGED <<stop, starts, retunes, clip, pc, session, stopSeen>>

\* A retune: stored whether or not a session is active.
RetuneLock ==
  /\ net = "ready" /\ retunes < MaxRetunes
  /\ retunes' = retunes + 1
  /\ retune' = TRUE
  /\ net' = "retune"
  /\ stopSeen' = FALSE
  /\ UNCHANGED <<pending, stop, starts, stops, clip, pc, session>>

\* The last step of all three; "stopSeen" notes a stop that comes after the
\* session has dropped its own trigger.
SetStopEvent ==
  /\ net # "ready"
  /\ stop' = TRUE
  /\ stopSeen' = (stopSeen \/ (net = "stop" /\ OnDuty /\ pc # "clear"))
  /\ net' = "ready"
  /\ UNCHANGED <<pending, retune, counts, pc, session>>

-----------------------------------------------------------------------------
(* The scan thread: the main loop's poll, and run_tx. *)

\* A step of control alone.
Move(from, to) ==
  /\ pc = from /\ pc' = to
  /\ UNCHANGED <<commands, session, stopSeen>>

Bug_PollPeeks ==
  /\ pc = "sweep" /\ pending # None
  /\ req' = pending
  /\ pc' = "clear"
  /\ sessions' = sessions + 1 /\ stopSeen' = FALSE
  /\ UNCHANGED <<pending, retune, stop, net, counts, radio, clipVars, status, windows>>

Poll ==
  /\ pc = "sweep" /\ pending # None
  /\ req' = pending /\ pending' = None
  /\ pc' = "clear"
  /\ sessions' = sessions + 1 /\ stopSeen' = FALSE
  /\ UNCHANGED <<retune, stop, net, counts, radio, clipVars, status, windows>>

PollNothing == pending = None /\ Move("sweep", "sweep")

\* Drop the start's own trigger before the render.
ClearStop ==
  /\ pc = "clear" /\ pc' = "free"
  /\ stop' = FALSE
  /\ UNCHANGED <<pending, retune, net, counts, session, stopSeen>>

\* self._reset() frees the sweep's SDR.
FreeDevice == Move("free", "render")

Bug_AnyRenderReused ==
  pc = "render" /\ lastKey # NoClip /\ Move("render", "check")

\* The cache already holds this key.
ReuseRender ==
  pc = "render" /\ lastKey = clip[req] /\ Move("render", "check")

NeedsRender ==
  /\ pc = "render" /\ lastKey # clip[req]
  /\ status' = "rendering"
  /\ UNCHANGED <<commands, req, radio, histVars>>

\* Render into the cache file, then record the key.
Render ==
  /\ NeedsRender /\ pc' = "check"
  /\ cache' = clip[req] /\ lastKey' = clip[req]
  /\ UNCHANGED badRenders

\* The decoder dies early: render() takes that for the end of a short clip.
RenderCutShort ==
  /\ NeedsRender /\ pc' = "check" /\ "cutShort" \in RenderFaults
  /\ badRenders < MaxBadRenders /\ badRenders' = badRenders + 1
  /\ cache' = Garbled /\ lastKey' = clip[req]

\* render() raises, before or after it has truncated the cache file; the key
\* recorded is still that of an earlier render.
RenderRaises ==
  /\ NeedsRender /\ pc' = "close" /\ "raises" \in RenderFaults
  /\ badRenders < MaxBadRenders /\ badRenders' = badRenders + 1
  /\ cache' \in {cache, Garbled}
  /\ UNCHANGED lastKey

\* A stop during the render: do not transmit at all.
CheckStop == Move("check", IF stop THEN "close" ELSE "open")

Open ==
  /\ pc = "open" /\ pc' = "window"
  /\ radio' = TRUE
  /\ UNCHANGED <<commands, req, clipVars, status, histVars>>

OpenFails == Move("open", "close")

Bug_WindowClearsStop ==
  /\ pc = "window" /\ pc' = "transmit"
  /\ windows' = windows + 1
  /\ status' = "transmitting" /\ stop' = FALSE
  /\ UNCHANGED <<pending, retune, net, counts, req, radio, clipVars, sessions,
                 stopSeen>>

\* A deadline of max_s from now, and the state published.
BeginWindow ==
  /\ pc = "window" /\ pc' = "transmit"
  /\ windows' = windows + 1
  /\ status' = "transmitting"
  /\ UNCHANGED <<commands, req, radio, clipVars, sessions, stopSeen>>

\* transmit_loop returns: the stop event, seen between two blocks ...
TransmitStops == stop /\ Move("transmit", "consume")

\* ... or the deadline, or an empty cache file; or a write raises.
TransmitEnds == Move("transmit", "consume")
TransmitCrashes == Move("transmit", "close")

Bug_RetuneNotConsumed ==
  Move("consume", IF retune THEN "reclear" ELSE "close")

\* _consume_retune(): a retune keeps the session going.
ConsumeRetune ==
  /\ pc = "consume"
  /\ pc' = IF retune THEN "reclear" ELSE "close"
  /\ retune' = FALSE
  /\ UNCHANGED <<pending, stop, net, counts, session, stopSeen>>

\* Drop the retune's own trigger, apply the retune, go round for a new window.
ApplyRetune ==
  /\ pc = "reclear" /\ pc' = "window"
  /\ stop' = FALSE
  /\ UNCHANGED <<pending, retune, net, counts, session, stopSeen>>

Bug_CloseSkipped ==
  /\ pc = "close" /\ pc' = "reset"
  /\ radio' = (radio /\ pending # None)
  /\ status' = "idle"
  /\ UNCHANGED <<commands, req, clipVars, histVars>>

\* The finally block: close the radio and publish idle, reset the SDR ...
Close ==
  /\ pc = "close" /\ pc' = "reset"
  /\ radio' = FALSE
  /\ status' = "idle"
  /\ UNCHANGED <<commands, req, clipVars, histVars>>

FinalReset == Move("reset", "end")

\* ... and clear the event.  A retune left over stays.
FinalClear ==
  /\ pc = "end" /\ pc' = "sweep"
  /\ stop' = FALSE
  /\ req' = None
  /\ UNCHANGED <<pending, retune, net, counts, radio, clipVars, status,
                 histVars>>

-----------------------------------------------------------------------------
NetStep == StartLock \/ StopLock \/ RetuneLock \/ SetStopEvent

Prepare ==
  \/ ClearStop \/ FreeDevice \/ ReuseRender \/ Render \/ RenderCutShort
  \/ RenderRaises \/ CheckStop \/ Open \/ OpenFails

Transmit ==
  \/ BeginWindow \/ TransmitStops \/ TransmitEnds \/ TransmitCrashes
  \/ ConsumeRetune \/ ApplyRetune

Finish == Close \/ FinalReset \/ FinalClear

SessionStep == Prepare \/ Transmit \/ Finish

Next == NetStep \/ Poll \/ PollNothing \/ SessionStep

Spec == Init /\ [][Next]_vars

\* As in ViewController: the threads run, and a transmission ends by its
\* deadline if nothing else ends it.
Fairness ==
  /\ WF_vars(SetStopEvent)
  /\ WF_vars(Poll)
  /\ WF_vars(SessionStep)

FairSpec == Spec /\ Fairness

-----------------------------------------------------------------------------
TypeOK ==
  /\ pending \in 0..MaxStarts /\ retune \in BOOLEAN
  /\ stop \in BOOLEAN /\ net \in {"ready", "start", "stop", "retune"}
  /\ starts \in 0..MaxStarts /\ stops \in 0..MaxStops
  /\ retunes \in 0..MaxRetunes /\ clip \in [1..MaxStarts -> Clips]
  /\ pc \in {"sweep", "clear", "free", "render", "check", "open", "window",
             "transmit", "consume", "reclear", "close", "reset", "end"}
  /\ req \in 0..MaxStarts /\ radio \in BOOLEAN
  /\ lastKey \in Clips \union {NoClip}
  /\ cache \in Clips \union {NoClip, Garbled}
  /\ status \in {"idle", "rendering", "transmitting"}
  /\ badRenders \in 0..MaxBadRenders
  /\ sessions \in 0..MaxStarts /\ windows \in Nat /\ stopSeen \in BOOLEAN

\* Nothing goes on the air unpaid for: every transmit window of max_s, over
\* all sessions, answers to a start that was served or to a retune that was
\* issued, and a retune buys one window only.
WindowsArePaid == windows <= sessions + retunes

\* The radio is open only in the transmitting part of a session, and the
\* dashboard is told so: a closed session shows idle with the radio closed.
RadioReleased ==
  /\ radio => pc \in {"window", "transmit", "consume", "reclear", "close"}
  /\ pc = "sweep" => status = "idle"
  /\ pc = "transmit" => radio /\ status = "transmitting"

\* What is transmitted is the clip that the request asks for, as long as no
\* render has gone wrong: the one cache file never serves another key.
ClipIsRequested ==
  pc \in {"window", "transmit"} /\ badRenders = 0 => cache = clip[req]

\* The controller implements what the operator is promised: starts replaced or
\* stopped while they wait are never served, the others once, and every
\* session ends.
Serving == IF InSession THEN req ELSE None

Promise == INSTANCE SessionService
             WITH accepted <- starts, waiting <- pending, serving <- Serving

KeepsPromise == Promise!FairSpec

\* A stop is not lost on a session that nobody retunes: the event of a stop
\* that comes once the session is past its own trigger is still set whenever a
\* transmission is entered, whatever the render did in between.
StopKept ==
  pc \in {"window", "transmit"} /\ stopSeen /\ retunes = 0 => stop

-----------------------------------------------------------------------------
(* What the comments claim and the interleavings refute. *)

\* "loop-transmits until stop": the same, retunes or not, for a stop that comes
\* after the last of them.
StopHonored == pc \in {"window", "transmit"} /\ stopSeen => stop

\* "renders the clip once (cached by baked-param key)": whatever is cached
\* under the key of the request is the clip of the request.
CacheIsIntact == pc \in {"window", "transmit"} => cache = clip[req]
=============================================================================
