--------------------------- MODULE ViewController ---------------------------
(***************************************************************************)
(* agent/scan/view_controller.py: the manual live-view mode of the scan    *)
(* agent.  Two threads meet here.  The MQTT network thread runs            *)
(* set_command(), which is two steps: _pending under the lock, then the    *)
(* stop event outside it.  The scan thread polls pending() between sweep   *)
(* cycles and runs run_view(), one step per access to what they share.     *)
(*                                                                         *)
(* Data kept: a request is the number of the start command that made it.   *)
(* The frequency check of set_command (a bad start changes nothing) and    *)
(* the demodulation inside a stream are abstracted away; a deadline may    *)
(* fall at any time.  A Bug_ definition is a plausible mistake in the      *)
(* definition below it: no specification uses it, it shows which property  *)
(* would catch that mistake.                                               *)
(***************************************************************************)
EXTENDS Naturals

CONSTANTS
  MaxStarts,  \* bound on accepted starts
  MaxStops    \* bound on stops

ASSUME ViewBounds == MaxStarts \in Nat /\ MaxStops \in Nat

None == 0

VARIABLES
  pending,    \* self._pending: the request not yet consumed, or None
  stop,       \* self._stop, the event that breaks the stream
  net,        \* the MQTT thread: "ready", or between its lock and stop.set()
  starts,     \* start commands accepted so far
  stops,      \* stop commands so far
  cancelled,  \* history: the newest request a stop has been issued after
  pc,         \* the scan thread: "sweep", or where it is in run_view
  req,        \* run_view's (freq, bw)
  error,      \* run_view's error is not None
  radio,      \* the capture source holds the SDR open
  shown       \* the state published last: the request shown active, or None

counts == <<starts, stops, cancelled>>
commands == <<pending, stop, net, counts>>
session == <<req, error, radio, shown>>
vars == <<commands, pc, session>>

Init ==
  /\ pending = None /\ stop = FALSE
  /\ net = "ready" /\ starts = 0 /\ stops = 0 /\ cancelled = None
  /\ pc = "sweep" /\ req = None /\ error = FALSE /\ radio = FALSE
  /\ shown = None

InSession == pc # "sweep"

-----------------------------------------------------------------------------
(* The MQTT thread: set_command. *)

\* {"view": "start"}: the request replaces any other, under the lock.
StartLock ==
  /\ net = "ready" /\ starts < MaxStarts
  /\ starts' = starts + 1 /\ pending' = starts'
  /\ net' = "set"
  /\ UNCHANGED <<stop, stops, cancelled, pc, session>>

Bug_StopKeepsPending ==
  /\ net = "ready" /\ stops < MaxStops
  /\ stops' = stops + 1 /\ cancelled' = starts
  /\ net' = "set"
  /\ UNCHANGED <<pending, stop, starts, pc, session>>

\* {"view": "stop"}: also cancels a start that is not consumed yet.
StopLock ==
  /\ net = "ready" /\ stops < MaxStops
  /\ stops' = stops + 1 /\ cancelled' = starts /\ pending' = None
  /\ net' = "set"
  /\ UNCHANGED <<stop, starts, pc, session>>

\* Both end by setting the stop event, after the lock is released.
SetStopEvent ==
  /\ net = "set" /\ net' = "ready"
  /\ stop' = TRUE
  /\ UNCHANGED <<pending, counts, pc, session>>

-----------------------------------------------------------------------------
(* The scan thread: the main loop's poll, and run_view. *)

\* A step of control alone.
Move(from, to) == pc = from /\ pc' = to /\ UNCHANGED <<commands, session>>

Bug_PendingPeeks ==
  /\ pending # None
  /\ req' = pending
  /\ UNCHANGED <<pending, stop, net, counts, error, radio, shown>>

\* pending() returns the request that waits, and forgets it.
TakePending ==
  /\ pending # None
  /\ req' = pending /\ pending' = None
  /\ UNCHANGED <<stop, net, counts, error, radio, shown>>

\* The main loop finds a request and enters run_view ...
Poll == pc = "sweep" /\ pc' = "clear" /\ TakePending

\* ... or none, and goes on to its sweep.
PollNothing == pending = None /\ Move("sweep", "sweep")

\* The loop head: drop the stop event, and whatever set it.
ClearStop ==
  /\ pc = "clear" /\ pc' = "publish"
  /\ stop' = FALSE
  /\ UNCHANGED <<pending, net, counts, session>>

PublishActive ==
  /\ pc = "publish" /\ pc' = "tune"
  /\ shown' = req
  /\ UNCHANGED <<commands, req, error, radio>>

\* run_stream first tunes, which opens the radio if it is not open ...
Tune ==
  /\ pc = "tune" /\ pc' = "stream"
  /\ radio' = TRUE
  /\ UNCHANGED <<commands, req, error, shown>>

\* ... or fails to, and the radio may have been opened by then.
TuneFails ==
  /\ pc = "tune" /\ pc' = "next"
  /\ radio' \in {radio, TRUE} /\ error' = TRUE
  /\ UNCHANGED <<commands, req, shown>>

\* The stream returns: it sees the stop event, or max_s is over ...
StreamStops == stop /\ Move("stream", "next")
StreamTimesOut == Move("stream", "next")

\* ... or the capture stalled, its recovery failed (which may leave the radio
\* closed), or the stream crashed.
StreamFails ==
  /\ pc = "stream" /\ pc' = "next"
  /\ radio' \in BOOLEAN /\ error' = TRUE
  /\ UNCHANGED <<commands, req, shown>>

\* nxt = self.pending() finds a request: the session goes on with it, after a
\* reset when the last stream failed.
NextRequest ==
  /\ pc = "next" /\ pc' = IF error THEN "retry" ELSE "clear"
  /\ TakePending

Bug_NoNextLoops == pending = None /\ Move("next", "clear")

\* Nothing: the loop is left.
NoNext == pending = None /\ Move("next", "idle")

ResetForRetry ==
  /\ pc = "retry" /\ pc' = "clear"
  /\ radio' = FALSE /\ error' = FALSE
  /\ UNCHANGED <<commands, req, shown>>

\* The finally block: on_idle and the idle state ...
PublishIdle ==
  /\ pc = "idle" /\ pc' = "reset"
  /\ shown' = None
  /\ UNCHANGED <<commands, req, error, radio>>

Bug_NoFinalReset == Move("reset", "end")

\* ... the device given back ...
FinalReset ==
  /\ pc = "reset" /\ pc' = "end"
  /\ radio' = FALSE
  /\ UNCHANGED <<commands, req, error, shown>>

\* ... and the event cleared for the next session.
FinalClear ==
  /\ pc = "end" /\ pc' = "sweep"
  /\ stop' = FALSE
  /\ req' = None /\ error' = FALSE
  /\ UNCHANGED <<pending, net, counts, radio, shown>>

-----------------------------------------------------------------------------
NetStep == StartLock \/ StopLock \/ SetStopEvent

StreamStep == Tune \/ TuneFails \/ StreamStops \/ StreamTimesOut \/ StreamFails

SessionStep ==
  \/ ClearStop \/ PublishActive \/ StreamStep
  \/ NextRequest \/ NoNext \/ ResetForRetry
  \/ PublishIdle \/ FinalReset \/ FinalClear

Next == NetStep \/ Poll \/ PollNothing \/ SessionStep

Spec == Init /\ [][Next]_vars

\* The threads run: set_command finishes, the scan loop keeps polling, and a
\* stream ends by its deadline if nothing else ends it.
Fairness ==
  /\ WF_vars(SetStopEvent)
  /\ WF_vars(Poll)
  /\ WF_vars(SessionStep)

FairSpec == Spec /\ Fairness

-----------------------------------------------------------------------------
TypeOK ==
  /\ pending \in 0..MaxStarts /\ stop \in BOOLEAN
  /\ net \in {"ready", "set"}
  /\ starts \in 0..MaxStarts /\ stops \in 0..MaxStops
  /\ cancelled \in 0..MaxStarts
  /\ pc \in {"sweep", "clear", "publish", "tune", "stream", "next", "retry",
             "idle", "reset", "end"}
  /\ req \in 0..MaxStarts /\ error \in BOOLEAN
  /\ radio \in BOOLEAN /\ shown \in 0..MaxStarts

\* What the dashboard is told is what happens: the request being streamed is
\* the one shown active; and whatever mix of errors, retunes and stops led there,
\* when the scan loop is free to sweep the SDR is given back and nothing is shown
\* active.
ShownIsServed ==
  /\ pc \in {"tune", "stream", "next"} => shown = req
  /\ pc = "sweep" => ~radio /\ shown = None

\* The request that enters a session is the newest start accepted so far, and
\* no stop has been issued since: a start that was replaced or cancelled while
\* it waited is never streamed.
NeverServesStale ==
  [][req' # req /\ req' # None => req' = starts /\ req' > cancelled]_vars

\* A stop always takes effect, at the latest by the session's deadline, even
\* when ClearStop wipes its event: a session with a request that was stopped
\* gives way to the sweep or to a start issued after the stop.
StopTakesEffect ==
  (InSession /\ cancelled >= req) ~> (~InSession \/ req > cancelled)

\* The controller implements what the operator is promised.
Serving == IF InSession THEN req ELSE None

Promise == INSTANCE SessionService
             WITH accepted <- starts, waiting <- pending, serving <- Serving

\* Every start that is not replaced or stopped is served exactly once, and
\* every session ends (run_view's contract with the main loop).
KeepsPromise == Promise!FairSpec

-----------------------------------------------------------------------------
(* What a comment claims and an interleaving refutes. *)

\* "active session -> retune now": a stream never runs on with a newer
\* request waiting and the stop event clear (set_command's last step done).
RetunePrompt == pc = "stream" /\ net = "ready" /\ pending # None => stop
=============================================================================
