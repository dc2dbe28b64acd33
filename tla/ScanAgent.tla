----------------------------- MODULE ScanAgent -----------------------------
(***************************************************************************)
(* agent/scan/main.py: the scan agent's main loop, one thread that serves  *)
(* the TX generator, the live view, the auto-relay and the sweep, in this  *)
(* order, on one bladeRF.  The controllers are here as the SessionService  *)
(* they implement (ViewController and TxController are shown to); this     *)
(* module adds what they share: whose turn it is, who holds the device,    *)
(* and what a cycle that fails does.                                       *)
(*                                                                         *)
(* One process is modelled from start to exit.  A sweep cycle is its open, *)
(* one point where a USB reset, a failure or an abort may strike, and its  *)
(* end.  A Bug_ definition is a plausible mistake in the one below it,     *)
(* used by no specification.                                               *)
(***************************************************************************)
EXTENDS Naturals

CONSTANTS
  MaxViews, MaxTx,   \* bounds on the starts of each kind
  FailLimit          \* _BLADERF_FAIL_LIMIT

ASSUME AgentConstants ==
  /\ MaxViews \in Nat /\ MaxTx \in Nat
  /\ FailLimit \in Nat \ {0}

None == 0

VARIABLES
  vAccepted, vWaiting, vServing,   \* the view's SessionService
  tAccepted, tWaiting, tServing,   \* the TX generator's
  armed, source,   \* the relay: armed, and a source waits
  scanEnabled,     \* SCAN_ENABLED; it never changes
  at,       \* the main loop: whose turn, or the step of the mode in session
  mode,     \* the session's mode: "view", "tx", "relay", or "none"
  error,    \* the view's last stream failed
  held,     \* the modes that hold an open handle of the device
  broken,   \* no open succeeds any more in this process
  fails     \* blade_fails

viewVars == <<vAccepted, vWaiting, vServing>>
txVars == <<tAccepted, tWaiting, tServing>>
relayVars == <<armed, source>>
loopVars == <<at, mode, error, fails>>
vars == <<viewVars, txVars, relayVars, scanEnabled, loopVars, held, broken>>

View == INSTANCE SessionService
          WITH accepted <- vAccepted, waiting <- vWaiting, serving <- vServing
Tx == INSTANCE SessionService
        WITH accepted <- tAccepted, waiting <- tWaiting, serving <- tServing

Init ==
  /\ View!Init /\ Tx!Init
  /\ armed \in BOOLEAN /\ source = FALSE /\ scanEnabled \in BOOLEAN
  /\ at = "tx" /\ mode = "none" /\ error = FALSE /\ fails = 0
  /\ held = {} /\ broken = FALSE

Running == at # "exited"
Manual == vWaiting # None \/ tWaiting # None

-----------------------------------------------------------------------------
(* The MQTT thread, and the USB port. *)

Commands == UNCHANGED <<loopVars, held, broken>>

ViewStart ==
  /\ Running /\ vAccepted < MaxViews /\ View!Start
  /\ Commands /\ UNCHANGED <<txVars, relayVars>>

ViewStop ==
  /\ Running /\ vWaiting # None /\ View!Stop
  /\ Commands /\ UNCHANGED <<txVars, relayVars>>

TxStart ==
  /\ Running /\ tAccepted < MaxTx /\ Tx!Start
  /\ Commands /\ UNCHANGED <<viewVars, relayVars>>

TxStop ==
  /\ Running /\ tWaiting # None /\ Tx!Stop
  /\ Commands /\ UNCHANGED <<viewVars, relayVars>>

Arm ==
  /\ Running /\ armed' = TRUE
  /\ Commands /\ UNCHANGED <<source, viewVars, txVars>>

Disarm ==
  /\ Running /\ armed' = FALSE /\ source' = FALSE
  /\ Commands /\ UNCHANGED <<viewVars, txVars>>

\* A USB reset: until the process is restarted every open fails.
UsbReset ==
  /\ Running /\ ~broken /\ broken' = TRUE
  /\ UNCHANGED <<viewVars, txVars, relayVars, loopVars, held>>

-----------------------------------------------------------------------------
(* The main loop: whose turn it is. *)

Go(from, to) == at = from /\ at' = to

PollTx ==
  /\ IF tWaiting # None
     THEN Go("tx", "free") /\ mode' = "tx" /\ Tx!Begin
     ELSE Go("tx", "view") /\ UNCHANGED <<mode, txVars>>
  /\ UNCHANGED <<viewVars, relayVars, error, fails, held, broken>>

Bug_RelayFirst ==
  /\ IF vWaiting # None /\ ~armed
     THEN Go("view", "free") /\ mode' = "view" /\ View!Begin
     ELSE Go("view", "relay") /\ UNCHANGED <<mode, viewVars>>
  /\ UNCHANGED <<txVars, relayVars, error, fails, held, broken>>

PollView ==
  /\ IF vWaiting # None
     THEN Go("view", "free") /\ mode' = "view" /\ View!Begin
     ELSE Go("view", "relay") /\ UNCHANGED <<mode, viewVars>>
  /\ UNCHANGED <<txVars, relayVars, error, fails, held, broken>>

\* relay.pending() takes the source ...
PollRelay ==
  /\ Go("relay", IF source THEN "guard" ELSE "sweep")
  /\ source' = FALSE
  /\ UNCHANGED <<viewVars, txVars, armed, mode, error, fails, held, broken>>

\* ... and run_relay drops it when disarmed or behind a manual command.
RelayGuard ==
  /\ IF armed /\ ~Manual
     THEN Go("guard", "free") /\ mode' = "relay"
     ELSE Go("guard", "tx") /\ UNCHANGED mode
  /\ UNCHANGED <<viewVars, txVars, relayVars, error, fails, held, broken>>

-----------------------------------------------------------------------------
(* A session: free the sweep's device, open one's own, use it, close it. *)

Steady == UNCHANGED <<viewVars, txVars, relayVars, fails>>

Bug_FreeSkipsRelay ==
  /\ Go("free", "open")
  /\ held' = IF mode = "relay" THEN held ELSE held \ {"sweep"}
  /\ Steady /\ UNCHANGED <<mode, error, broken>>

\* _reset_bladerf_backend()
FreeDevice ==
  /\ Go("free", "open")
  /\ held' = held \ {"sweep"}
  /\ Steady /\ UNCHANGED <<mode, error, broken>>

\* A retune of a view whose radio is open opens nothing.
Retunes == mode = "view" /\ "view" \in held

Open ==
  /\ Go("open", "use")
  /\ \/ Retunes /\ UNCHANGED held
     \/ ~broken /\ held = {} /\ held' = {mode}
  /\ Steady /\ UNCHANGED <<mode, error, broken>>

\* A handle dropped unclosed may stay open as long as the process lives.
MayLeak(dropped) ==
  broken' \in (IF dropped THEN {broken, TRUE} ELSE {broken})

\* No device, a handle in the way, or a setting refused after the open: the
\* view and TX then drop the handle unclosed.
OpenFails ==
  /\ Go("open", IF mode = "view" THEN "next" ELSE "close")
  /\ error' = (mode = "view")
  /\ MayLeak(mode # "relay" /\ ~Retunes)
  /\ Steady /\ UNCHANGED <<mode, held>>

\* The session is stopped, is retuned, meets its deadline or yields.
UseEnds ==
  /\ Go("use", IF mode = "view" THEN "next" ELSE "close")
  /\ Steady /\ UNCHANGED <<mode, error, held, broken>>

\* It fails; a view has then tried to close and open the device again.
UseFails ==
  /\ Go("use", IF mode = "view" THEN "next" ELSE "close")
  /\ error' = (mode = "view")
  /\ \/ UNCHANGED <<held, broken>>
     \/ mode = "view" /\ held' = {} /\ MayLeak(TRUE)
  /\ Steady /\ UNCHANGED mode

\* A request waits for a view that has ended: it goes on, reset if it failed.
NextView ==
  /\ Go("next", "free") /\ View!Begin
  /\ held' = IF error THEN held \ {"view"} ELSE held
  /\ error' = FALSE
  /\ UNCHANGED <<txVars, relayVars, mode, fails, broken>>

NoNextView ==
  /\ vWaiting = None /\ Go("next", "close")
  /\ Steady /\ UNCHANGED <<mode, error, held, broken>>

\* source.close(), or radio.close() and self._reset(); then back to the loop.
Close ==
  /\ Go("close", "tx")
  /\ held' = held \ {mode} /\ mode' = "none" /\ error' = FALSE
  /\ IF mode = "view" THEN View!End ELSE UNCHANGED viewVars
  /\ IF mode = "tx" THEN Tx!End ELSE UNCHANGED txVars
  /\ UNCHANGED <<relayVars, fails, broken>>

-----------------------------------------------------------------------------
(* A sweep cycle. *)

Idle == UNCHANGED <<viewVars, txVars, mode, error>>

\* SCAN_ENABLED=0: only a sleep.
SkipSweep ==
  /\ ~scanEnabled /\ Go("sweep", "tx")
  /\ Idle /\ UNCHANGED <<relayVars, fails, held, broken>>

\* The first capture opens the backend if none is cached.
StartSweep ==
  /\ scanEnabled /\ Go("sweep", "cycle")
  /\ "sweep" \in held \/ (held = {} /\ ~broken)
  /\ held' = {"sweep"}
  /\ Idle /\ UNCHANGED <<relayVars, fails, broken>>

\* A view or TX request waits: abort() ends the cycle.
AbortSweep ==
  /\ scanEnabled /\ Manual
  /\ Go("sweep", "tx") \/ Go("cycle", "tx")
  /\ Idle /\ UNCHANGED <<relayVars, fails, held, broken>>

\* All bands are swept: update_hits replaces the relay's source.
EndSweep ==
  /\ ~broken /\ Go("cycle", "tx")
  /\ source' \in {FALSE, armed /\ ~Manual}
  /\ fails' = 0
  /\ Idle /\ UNCHANGED <<armed, held, broken>>

\* The open or a capture fails: the backend is reset and the failure counted ...
FailSweep ==
  /\ scanEnabled
  /\ Go("sweep", "failed") \/ Go("cycle", "failed")
  /\ held' = held \ {"sweep"}
  /\ MayLeak(held = {})
  /\ fails' = fails + 1
  /\ Idle /\ UNCHANGED relayVars

Bug_NeverGivesUp ==
  /\ Go("failed", "tx") /\ fails' = 0
  /\ Idle /\ UNCHANGED <<relayVars, held, broken>>

\* ... and at the limit the process exits, for systemd to start a clean one.
BackOff ==
  /\ Go("failed", IF fails >= FailLimit THEN "exited" ELSE "tx")
  /\ Idle /\ UNCHANGED <<relayVars, fails, held, broken>>

Exited == at = "exited" /\ UNCHANGED vars

-----------------------------------------------------------------------------
NetStep == ViewStart \/ ViewStop \/ TxStart \/ TxStop \/ Arm \/ Disarm

TurnStep == PollTx \/ PollView \/ PollRelay \/ RelayGuard

SessionStep ==
  \/ FreeDevice \/ Open \/ OpenFails \/ UseEnds \/ UseFails
  \/ NextView \/ NoNextView \/ Close

SweepStep ==
  \/ SkipSweep \/ StartSweep \/ AbortSweep \/ EndSweep \/ FailSweep \/ BackOff

LoopStep == TurnStep \/ SessionStep \/ SweepStep

Next == UNCHANGED scanEnabled /\ (NetStep \/ UsbReset \/ LoopStep \/ Exited)

Spec == Init /\ [][Next]_vars

\* The main loop runs: sessions end by their deadline, captures return.
FairSpec == Spec /\ WF_vars(UNCHANGED scanEnabled /\ LoopStep)

-----------------------------------------------------------------------------
TypeOK ==
  /\ vAccepted \in 0..MaxViews /\ vWaiting \in 0..MaxViews
  /\ vServing \in 0..MaxViews
  /\ tAccepted \in 0..MaxTx /\ tWaiting \in 0..MaxTx /\ tServing \in 0..MaxTx
  /\ armed \in BOOLEAN /\ source \in BOOLEAN /\ scanEnabled \in BOOLEAN
  /\ at \in {"tx", "view", "relay", "guard", "free", "open", "use", "next",
             "close", "sweep", "cycle", "failed", "exited"}
  /\ mode \in {"view", "tx", "relay", "none"} /\ error \in BOOLEAN
  /\ held \subseteq {"view", "tx", "relay", "sweep"}
  /\ broken \in BOOLEAN /\ fails \in 0..FailLimit

\* The agent never locks itself out: whenever it is about to open the device,
\* for a session or a cycle, no other part of it still holds a handle.
OpensFindItFree ==
  /\ at = "open" => held \subseteq {mode}
  /\ at \in {"sweep", "cycle"} => held \subseteq {"sweep"}

\* One mode at a time: a controller is in session exactly while the loop runs
\* it, and the sweep and the others' polls only with all sessions over.
OneSession ==
  /\ (vServing # None) <=> (mode = "view")
  /\ (tServing # None) <=> (mode = "tx")
  /\ (mode # "none") <=> at \in {"free", "open", "use", "next", "close"}

\* The modes exclude each other, in the loop and on the device.
ModesExclude == OneSession /\ OpensFindItFree

\* The process keeps the device's contract; with a sweep to notice a broken
\* device, recovery by exit included.
Lease == INSTANCE DeviceLease
           WITH Users <- {"view", "tx", "relay", "sweep"},
                exited <- at = "exited"

KeepsLease == Lease!Spec /\ (scanEnabled => Lease!Recovery)

\* The one loop serves both operators: a view or TX start that waits is taken
\* up, replaced or stopped, unless the process exits, however the relay is
\* armed and whatever fails.
StartsAreTaken ==
  /\ (vWaiting # None) ~> (vWaiting = None \/ ~Running)
  /\ (tWaiting # None) ~> (tWaiting = None \/ ~Running)
=============================================================================
