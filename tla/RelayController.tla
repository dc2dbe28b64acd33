-------------------------- MODULE RelayController --------------------------
(***************************************************************************)
(* agent/relay/relay_controller.py: the auto-relay.  While armed, the      *)
(* strongest video carrier of a sweep cycle is received and transmitted    *)
(* again at dst_mhz, block by block, until something ends the session.     *)
(* The MQTT thread arms and disarms, one step per shared variable it       *)
(* writes; the scan thread feeds the hits of a cycle to update_hits(),     *)
(* polls pending() and runs run_relay() with bladerf_relay.relay_loop().   *)
(* "manual" is manual_pending(): a view or TX request waits.  The level    *)
(* watch is the choice of when a source counts as lost.                    *)
(* What the controller publishes is in MqttPublisher.  A Bug_ definition is *)
(* plausible mistake in the one below it, used by no specification.        *)
(***************************************************************************)
EXTENDS Integers

CONSTANTS
  Hits,       \* the carriers a cycle may find: [band, src, snr]
  SrcBands,   \* bands a source may be in
  MinSnr,     \* min_sync_db
  Dsts,       \* target frequencies the operator may set
  Guard,      \* guard_mhz
  Nothing     \* None

ASSUME RelayConstants ==
  /\ \A h \in Hits : h.src \in Int /\ h.snr \in Int
  /\ Dsts \subseteq Int /\ Guard \in Nat /\ MinSnr \in Int

Targeted == [hit : Hits, dst : Dsts]

ASSUME NothingElse == Nothing \notin Hits /\ Nothing \notin Targeted

VARIABLES
  armed, dst,  \* self.armed, self.dst_mhz: written by the MQTT thread alone
  net,         \* the MQTT thread: "ready", or what set_command does next
  pending,     \* self._pending: a chosen [hit, dst], or Nothing
  stop,        \* self._stop
  manual,      \* a manual command waits
  pc,          \* the scan thread
  snap,        \* update_hits' copy of dst
  best,        \* update_hits' choice
  req,         \* run_relay's request
  radio,       \* the [hit, dst] the full-duplex radio is open for, or Nothing
  lost,        \* watch.lost
  expired,     \* the clock has reached the session's deadline
  revoked,     \* history: "no"; or a disarm has come during this session,
               \* before ("opening") or after ("open") it cleared the event
  late         \* history: blocks sent since a disarm or a manual command
               \* (2 stands for more than one)

settings == <<armed, dst, net, revoked>>
choice == <<snap, best>>
session == <<req, radio, lost, expired>>
vars == <<settings, pending, stop, manual, pc, choice, session, late>>

Init ==
  /\ armed \in BOOLEAN /\ dst \in Dsts /\ net = "ready"
  /\ pending = Nothing /\ stop = FALSE /\ manual = FALSE
  /\ pc = "poll" /\ snap = dst /\ best = Nothing
  /\ req = Nothing /\ radio = Nothing /\ lost = FALSE /\ expired = FALSE
  /\ revoked = "no" /\ late = 0

-----------------------------------------------------------------------------
(* The MQTT thread: set_command. *)

\* arm: the target first, if one is given ...
ArmDst ==
  /\ net = "ready" /\ net' = "arm"
  /\ dst' \in Dsts
  /\ UNCHANGED <<armed, revoked, pending, stop, manual, pc, choice, session,
                 late>>

\* ... then the flag.
Arm ==
  /\ net = "arm" /\ net' = "ready"
  /\ armed' = TRUE
  /\ UNCHANGED <<dst, revoked, pending, stop, manual, pc, choice, session,
                 late>>

\* disarm: the flag, the pending source, the stop event.
Disarm ==
  /\ net = "ready" /\ net' = "disarm"
  /\ armed' = FALSE
  /\ UNCHANGED <<dst, revoked, pending, stop, manual, pc, choice, session,
                 late>>

DisarmPending ==
  /\ net = "disarm" /\ net' = "disarmStop"
  /\ pending' = Nothing
  /\ UNCHANGED <<armed, dst, revoked, stop, manual, pc, choice, session, late>>

\* What a disarm that completes now revokes.
DisarmedWhile ==
  IF pc \in {"guard", "clear"} THEN "opening"
  ELSE IF pc \in {"free", "open", "check", "write"} THEN "open"
  ELSE "no"

DisarmStop ==
  /\ net = "disarmStop" /\ net' = "ready"
  /\ stop' = TRUE
  /\ revoked' = IF revoked = "no" THEN DisarmedWhile ELSE revoked
  /\ UNCHANGED <<armed, dst, pending, manual, pc, choice, session, late>>

-----------------------------------------------------------------------------
(* The scan thread: update_hits at the end of a cycle. *)

Move(from, to) ==
  /\ pc = from /\ pc' = to
  /\ UNCHANGED <<settings, pending, stop, manual, choice, session, late>>

Abs(n) == IF n < 0 THEN -n ELSE n

\* A source that may be relayed to d.
Eligible(h, d) ==
  /\ Abs(h.src - d) > Guard
  /\ h.band \in SrcBands /\ h.snr >= MinSnr

Strongest(hits) == {h \in hits : \A o \in hits : o.snr <= h.snr}

\* dst = self.dst_mhz
SnapDst ==
  /\ pc = "sweep" /\ pc' = "pick"
  /\ snap' = dst
  /\ UNCHANGED <<settings, pending, stop, manual, best, session, late>>

\* The strongest eligible hit, if armed and nothing manual waits.
Pick(hits) ==
  LET eligible == {h \in hits : Eligible(h, snap)} IN
  /\ pc = "pick" /\ pc' = "store"
  /\ IF armed /\ ~manual /\ eligible # {}
     THEN best' \in Strongest(eligible)
     ELSE best' = Nothing
  /\ UNCHANGED <<settings, pending, stop, manual, snap, session, late>>

Bug_StoreLiveDst ==
  /\ pc = "store" /\ pc' = "poll"
  /\ pending' = IF best = Nothing THEN Nothing ELSE [hit |-> best, dst |-> dst]
  /\ best' = Nothing
  /\ UNCHANGED <<settings, stop, manual, snap, session, late>>

Store ==
  /\ pc = "store" /\ pc' = "poll"
  /\ pending' = IF best = Nothing THEN Nothing ELSE [hit |-> best, dst |-> snap]
  /\ best' = Nothing
  /\ UNCHANGED <<settings, stop, manual, snap, session, late>>

-----------------------------------------------------------------------------
(* The scan thread: the main loop's poll, and run_relay. *)

\* pending(): a source to relay, or on to the next cycle, which may abort.
Poll ==
  /\ pc = "poll" /\ pending # Nothing
  /\ req' = pending /\ pending' = Nothing
  /\ pc' = "guard"
  /\ revoked' = "no" /\ late' = 0
  /\ UNCHANGED <<armed, dst, net, stop, manual, choice, radio, lost, expired>>

PollNothing == pending = Nothing /\ Move("poll", "sweep")
CycleAborts == Move("sweep", "poll")

\* "request went stale between pending() and here"
Admit == Move("guard", IF armed /\ ~manual THEN "clear" ELSE "poll")

ClearStop ==
  /\ pc = "clear" /\ pc' = "free"
  /\ stop' = FALSE
  /\ UNCHANGED <<settings, pending, manual, choice, session, late>>

FreeDevice == Move("free", "open")

Open ==
  /\ pc = "open" /\ pc' = "check"
  /\ radio' = req
  /\ lost' = FALSE /\ expired' = FALSE
  /\ UNCHANGED <<settings, pending, stop, manual, choice, req, late>>

OpenFails == Move("open", "close")

Bug_StopCheckIgnoresDeadline ==
  Move("check", IF stop \/ ~armed \/ manual \/ lost THEN "close" ELSE "write")

Bug_StopCheckIgnoresManual ==
  Move("check", IF stop \/ ~armed \/ lost \/ expired THEN "close" ELSE "write")

\* stop_check, before every block.
StopCheck ==
  Move("check", IF stop \/ ~armed \/ manual \/ lost \/ expired
                THEN "close" ELSE "write")

Min2(n) == IF n < 2 THEN n ELSE 2

\* One block received, levelled and sent; on_level may find the source lost.
WriteBlock ==
  /\ pc = "write" /\ pc' = "check"
  /\ lost' \in {lost, TRUE}
  /\ late' = IF manual \/ revoked # "no" THEN Min2(late + 1) ELSE late
  /\ UNCHANGED <<settings, pending, stop, manual, choice, req, radio, expired>>

\* The radio's read or write raises.
BlockFails == Move("write", "close")

\* The finally block: close the radio, reset the SDR, clear the event.
Close ==
  /\ pc = "close" /\ pc' = "reset"
  /\ radio' = Nothing
  /\ UNCHANGED <<settings, pending, stop, manual, choice, req, lost, expired,
                 late>>

FinalReset == Move("reset", "end")

FinalClear ==
  /\ pc = "end" /\ pc' = "poll"
  /\ stop' = FALSE /\ req' = Nothing
  /\ UNCHANGED <<settings, pending, manual, choice, radio, lost, expired, late>>

-----------------------------------------------------------------------------
(* What happens around the controller. *)

\* A view or TX start comes in.
ManualArrives ==
  /\ ~manual /\ manual' = TRUE
  /\ UNCHANGED <<settings, pending, stop, pc, choice, session, late>>

\* It is served, or withdrawn by a stop.
ManualLeaves ==
  /\ manual /\ manual' = FALSE
  /\ late' = IF revoked = "no" THEN 0 ELSE late
  /\ UNCHANGED <<settings, pending, stop, pc, choice, session>>

\* max_s is over.
Expire ==
  /\ radio # Nothing /\ ~expired /\ expired' = TRUE
  /\ UNCHANGED <<settings, pending, stop, manual, pc, choice, req, radio, lost,
                 late>>

-----------------------------------------------------------------------------
NetStep == ArmDst \/ Arm \/ Disarm \/ DisarmPending \/ DisarmStop

UpdateStep == SnapDst \/ (\E hits \in SUBSET Hits : Pick(hits)) \/ Store

PollStep == Poll \/ PollNothing \/ CycleAborts

SessionStep ==
  \/ Admit \/ ClearStop \/ FreeDevice \/ Open \/ OpenFails
  \/ StopCheck \/ WriteBlock \/ BlockFails
  \/ Close \/ FinalReset \/ FinalClear

ControllerStep == NetStep \/ UpdateStep \/ PollStep \/ SessionStep

Environment == ManualArrives \/ ManualLeaves \/ Expire

Next == ControllerStep \/ Environment

Spec == Init /\ [][Next]_vars

\* The threads run and time passes.
Fairness == WF_vars(NetStep) /\ WF_vars(SessionStep) /\ WF_vars(Expire)

FairSpec == Spec /\ Fairness

-----------------------------------------------------------------------------
TypeOK ==
  /\ armed \in BOOLEAN /\ dst \in Dsts /\ snap \in Dsts
  /\ net \in {"ready", "arm", "disarm", "disarmStop"}
  /\ pending \in Targeted \union {Nothing} /\ stop \in BOOLEAN
  /\ manual \in BOOLEAN /\ best \in Hits \union {Nothing}
  /\ pc \in {"poll", "sweep", "pick", "store", "guard", "clear", "free", "open",
             "check", "write", "close", "reset", "end"}
  /\ req \in Targeted \union {Nothing} /\ radio \in Targeted \union {Nothing}
  /\ lost \in BOOLEAN /\ expired \in BOOLEAN
  /\ revoked \in {"no", "opening", "open"} /\ late \in 0..2

\* The relay never feeds back into itself: whatever is set while update_hits
\* runs or a source waits, the radio is only ever open from a source that is
\* eligible for the very target it transmits on, and in the session of that
\* request.
GuardHeld ==
  radio # Nothing =>
    /\ Eligible(radio.hit, radio.dst)
    /\ pc \in {"check", "write", "close"} /\ radio = req

\* "Manual commands always win", "active session exits on its next block":
\* once a disarm has finished during a session, or while a manual command
\* waits, at most the block in hand is still sent.
AtMostOneLateBlock == revoked # "opening" => late <= 1

\* No relay lasts for ever, even with a source that never fades.
SessionsEnd == (radio # Nothing) ~> (radio = Nothing)
=============================================================================
