-------------------------- MODULE ScanAgent_proofs --------------------------
(***************************************************************************)
(* Theorems of ScanAgent, for any number of commands and any fail limit:   *)
(* types, one session at a time, no open on top of an open handle, the     *)
(* safety half of the device's contract, and no handle without the session *)
(* it was opened for.                                                      *)
(***************************************************************************)
EXTENDS ScanAgent, TLAPS

\* The loop's variables.
LoopInv ==
  /\ armed \in BOOLEAN /\ source \in BOOLEAN /\ broken \in BOOLEAN
  /\ at \in {"tx", "view", "relay", "guard", "free", "open", "use", "next",
             "close", "sweep", "cycle", "failed", "exited"}
  /\ mode \in {"view", "tx", "relay", "none"} /\ error \in BOOLEAN

\* The failures counted: below the limit, except where the process gives up.
FailInv ==
  /\ fails \in 0..FailLimit
  /\ at \notin {"failed", "exited"} => fails < FailLimit

\* The two services' counters, and who is in session.
ServiceInv ==
  /\ vAccepted \in 0..MaxViews /\ vWaiting \in 0..MaxViews
  /\ vServing \in 0..MaxViews
  /\ tAccepted \in 0..MaxTx /\ tWaiting \in 0..MaxTx /\ tServing \in 0..MaxTx
  /\ OneSession
  /\ at = "next" => mode = "view"

\* Who holds the device, at each point of the loop.
HeldInv ==
  /\ at \in {"tx", "view", "relay", "guard", "sweep", "cycle"}
       => held = {} \/ held = {"sweep"}
  /\ at = "free"
       => held = {} \/ held = {"sweep"} \/ (mode = "view" /\ held = {"view"})
  /\ at \in {"open", "use", "next", "close"} => held = {} \/ held = {mode}
  /\ at \in {"failed", "exited"} => held = {}
  /\ (mode # "none") <=> at \in {"free", "open", "use", "next", "close"}
  /\ at = "next" => mode = "view"

IInv ==
  LoopInv /\ FailInv /\ ServiceInv /\ HeldInv /\ scanEnabled \in BOOLEAN

-----------------------------------------------------------------------------
\* Every part of the invariant holds initially.
LEMMA InitIInv == Init => IInv
<1> SUFFICES ASSUME Init PROVE IInv
  OBVIOUS
<1>1. LoopInv
  BY DEF Init, LoopInv
<1>2. FailInv
  BY AgentConstants DEF AgentConstants, Init, FailInv
<1>3. ServiceInv
  BY AgentConstants DEF AgentConstants, Init, ServiceInv, OneSession,
     View!Init, Tx!Init, View!None, Tx!None, None
<1>4. HeldInv
  BY DEF Init, HeldInv
<1>5. scanEnabled \in BOOLEAN
  BY DEF Init
<1> QED
  BY <1>1, <1>2, <1>3, <1>4, <1>5 DEF IInv

\* The loop's variables keep to their ranges.
LEMMA StepKeepsLoop == LoopInv /\ [Next]_vars => LoopInv'
<1> SUFFICES ASSUME LoopInv, [Next]_vars PROVE LoopInv'
  OBVIOUS
<1> USE DEF LoopInv, loopVars, relayVars, Commands, Go, Steady, Idle, MayLeak
<1>1. CASE NetStep
  BY <1>1 DEF NetStep, ViewStart, ViewStop, TxStart, TxStop, Arm, Disarm
<1>2. CASE UsbReset
  BY <1>2 DEF UsbReset
<1>3. CASE TurnStep
  BY <1>3 DEF TurnStep, PollTx, PollView, PollRelay, RelayGuard
<1>4. CASE FreeDevice \/ Open \/ UseEnds \/ NextView \/ NoNextView \/ Close
  BY <1>4 DEF FreeDevice, Open, UseEnds, NextView, NoNextView, Close
<1>5. CASE OpenFails \/ UseFails
  BY <1>5 DEF OpenFails, UseFails
<1>6. CASE SkipSweep \/ StartSweep \/ AbortSweep \/ FailSweep \/ BackOff
  BY <1>6 DEF SkipSweep, StartSweep, AbortSweep, FailSweep, BackOff
<1>7. CASE EndSweep
  <2>1. source' \in BOOLEAN
    BY <1>7 DEF EndSweep
  <2> QED
    BY <1>7, <2>1 DEF EndSweep
<1>8. CASE Exited \/ UNCHANGED vars
  BY <1>8 DEF Exited, vars
<1> QED
  BY <1>1, <1>2, <1>3, <1>4, <1>5, <1>6, <1>7, <1>8
  DEF Next, LoopStep, SessionStep, SweepStep

\* Failures.
LEMMA StepKeepsFails == FailInv /\ [Next]_vars => FailInv'
<1> SUFFICES ASSUME FailInv, [Next]_vars PROVE FailInv'
  OBVIOUS
<1> USE AgentConstants DEF AgentConstants, FailInv, loopVars, relayVars,
        Commands, Go, Steady, Idle
<1>1. CASE NetStep
  BY <1>1 DEF NetStep, ViewStart, ViewStop, TxStart, TxStop, Arm, Disarm
<1>2. CASE UsbReset
  BY <1>2 DEF UsbReset
<1>3. CASE TurnStep
  BY <1>3 DEF TurnStep, PollTx, PollView, PollRelay, RelayGuard
<1>4. CASE SessionStep
  BY <1>4 DEF SessionStep, FreeDevice, Open, OpenFails, UseEnds, UseFails,
              NextView, NoNextView, Close
<1>5. CASE SkipSweep \/ StartSweep \/ AbortSweep
  BY <1>5 DEF SkipSweep, StartSweep, AbortSweep
<1>6. CASE EndSweep
  BY <1>6 DEF EndSweep
<1>7. CASE FailSweep
  BY <1>7 DEF FailSweep
<1>8. CASE BackOff
  BY <1>8 DEF BackOff
<1>9. CASE Exited \/ UNCHANGED vars
  BY <1>9 DEF Exited, vars
<1> QED
  BY <1>1, <1>2, <1>3, <1>4, <1>5, <1>6, <1>7, <1>8, <1>9
  DEF Next, LoopStep, SweepStep

\* The services.
LEMMA StepKeepsServices == ServiceInv /\ [Next]_vars => ServiceInv'
<1> SUFFICES ASSUME ServiceInv, [Next]_vars PROVE ServiceInv'
  OBVIOUS
<1> USE AgentConstants DEF AgentConstants, ServiceInv, OneSession, loopVars,
        viewVars, txVars, relayVars, Commands, Go, Steady, Idle, None,
        View!None, Tx!None
<1>1. CASE ViewStart \/ ViewStop
  BY <1>1 DEF ViewStart, ViewStop, View!Start, View!Stop
<1>2. CASE TxStart \/ TxStop
  BY <1>2 DEF TxStart, TxStop, Tx!Start, Tx!Stop
<1>3. CASE Arm \/ Disarm \/ UsbReset
  BY <1>3 DEF Arm, Disarm, UsbReset
<1>4. CASE PollTx
  BY <1>4 DEF PollTx, Tx!Begin
<1>5. CASE PollView
  BY <1>5 DEF PollView, View!Begin
<1>6. CASE PollRelay \/ RelayGuard
  BY <1>6 DEF PollRelay, RelayGuard
<1>7. CASE FreeDevice \/ Open \/ OpenFails \/ UseEnds \/ UseFails
  BY <1>7 DEF FreeDevice, Open, OpenFails, UseEnds, UseFails
<1>8. CASE NextView \/ NoNextView
  BY <1>8 DEF NextView, NoNextView, View!Begin
<1>9. CASE Close
  BY <1>9 DEF Close, View!End, Tx!End
<1>10. CASE SweepStep
  BY <1>10 DEF SweepStep, SkipSweep, StartSweep, AbortSweep, EndSweep,
               FailSweep, BackOff
<1>11. CASE Exited \/ UNCHANGED vars
  BY <1>11 DEF Exited, vars
<1> QED
  BY <1>1, <1>2, <1>3, <1>4, <1>5, <1>6, <1>7, <1>8, <1>9, <1>10, <1>11
  DEF Next, NetStep, LoopStep, TurnStep, SessionStep

\* The handles.
LEMMA StepKeepsHeld == HeldInv /\ LoopInv /\ [Next]_vars => HeldInv'
<1> SUFFICES ASSUME HeldInv, LoopInv, [Next]_vars PROVE HeldInv'
  OBVIOUS
<1> USE DEF HeldInv, LoopInv, loopVars, Commands, Go, Steady, Idle
<1>1. CASE NetStep \/ UsbReset
  BY <1>1 DEF NetStep, ViewStart, ViewStop, TxStart, TxStop, Arm, Disarm,
              UsbReset
<1>2. CASE TurnStep
  BY <1>2 DEF TurnStep, PollTx, PollView, PollRelay, RelayGuard
<1>3. CASE FreeDevice
  BY <1>3 DEF FreeDevice
<1>4. CASE Open
  BY <1>4 DEF Open, Retunes
<1>5. CASE OpenFails \/ UseEnds \/ UseFails
  BY <1>5 DEF OpenFails, UseEnds, UseFails
<1>6. CASE NextView
  BY <1>6 DEF NextView
<1>7. CASE NoNextView
  BY <1>7 DEF NoNextView
<1>8. CASE Close
  BY <1>8 DEF Close
<1>9. CASE SkipSweep \/ StartSweep \/ AbortSweep \/ EndSweep
  BY <1>9 DEF SkipSweep, StartSweep, AbortSweep, EndSweep
<1>10. CASE FailSweep
  BY <1>10 DEF FailSweep
<1>11. CASE BackOff
  BY <1>11 DEF BackOff
<1>12. CASE Exited \/ UNCHANGED vars
  BY <1>12 DEF Exited, vars
<1> QED
  BY <1>1, <1>2, <1>3, <1>4, <1>5, <1>6, <1>7, <1>8, <1>9, <1>10, <1>11, <1>12
  DEF Next, LoopStep, SessionStep, SweepStep

\* The invariant holds in every reachable state.
LEMMA Inductive == Spec => []IInv
<1>1. scanEnabled \in BOOLEAN /\ [Next]_vars => scanEnabled' \in BOOLEAN
  BY DEF Next, vars
<1>2. IInv /\ [Next]_vars => IInv'
  BY <1>1, StepKeepsLoop, StepKeepsFails, StepKeepsServices, StepKeepsHeld DEF IInv
<1> QED
  BY <1>2, InitIInv, PTL DEF Spec

-----------------------------------------------------------------------------
\* Every variable keeps to its range.
THEOREM TypeCorrect == Spec => []TypeOK
<1>1. IInv => TypeOK
  <2> SUFFICES ASSUME IInv PROVE TypeOK
    OBVIOUS
  <2>1. held \subseteq {"view", "tx", "relay", "sweep"}
    BY DEF IInv, HeldInv, LoopInv
  <2> QED
    BY <2>1 DEF IInv, LoopInv, FailInv, ServiceInv, TypeOK
<1> QED
  BY <1>1, Inductive, PTL

\* One mode is in session at a time, none while the loop sweeps, and the agent is
\* never in its own way when it opens the device.
THEOREM Exclusion == Spec => []ModesExclude
<1>1. IInv => OneSession
  BY DEF IInv, ServiceInv
<1>2. IInv => OpensFindItFree
  BY DEF IInv, HeldInv, OpensFindItFree
<1> QED
  BY <1>1, <1>2, Inductive, PTL DEF ModesExclude

\* Every step of the loop is a step of the device's contract or a stutter.
LEMMA StepKeepsLease == IInv /\ [Next]_vars => [Lease!Next]_Lease!vars
<1> SUFFICES ASSUME HeldInv, LoopInv, [Next]_vars
             PROVE  [Lease!Next]_Lease!vars
  BY DEF IInv
<1> USE DEF HeldInv, LoopInv, Lease!Next, Lease!vars, loopVars, Commands, Go,
        Steady, Idle, MayLeak
<1>1. CASE NetStep
  BY <1>1 DEF NetStep, ViewStart, ViewStop, TxStart, TxStop, Arm, Disarm
<1>2. CASE UsbReset
  BY <1>2 DEF UsbReset, Running, Lease!Break
<1>3. CASE TurnStep
  BY <1>3 DEF TurnStep, PollTx, PollView, PollRelay, RelayGuard
<1>4. CASE FreeDevice
  BY <1>4 DEF FreeDevice, Lease!Release
<1>5. CASE Open
  BY <1>5 DEF Open, Retunes, Lease!Acquire
<1>6. CASE OpenFails
  <2>1. at # "exited" /\ at' # "exited" /\ UNCHANGED held
    BY <1>6 DEF OpenFails
  <2>2. broken' = broken \/ (~broken /\ broken' = TRUE)
    BY <1>6, Zenon DEF OpenFails, MayLeak, LoopInv
  <2> QED
    BY <2>1, <2>2 DEF Lease!Break
<1>7. CASE UseEnds \/ NoNextView
  BY <1>7 DEF UseEnds, NoNextView
<1>8. CASE UseFails
  <2>1. at # "exited" /\ at' # "exited"
    BY <1>8 DEF UseFails
  <2>2. UNCHANGED <<held, broken>> \/ (held' = {} /\ broken' \in {broken, TRUE})
    BY <1>8 DEF UseFails
  <2>3. broken' = broken \/ (~broken /\ broken' = TRUE)
    BY <2>2, Zenon DEF LoopInv
  <2>4. CASE held # {} /\ held' = {}
    BY <2>1, <2>2, <2>4 DEF Lease!Release
  <2> QED
    BY <2>1, <2>2, <2>3, <2>4 DEF Lease!Break
<1>9. CASE NextView \/ Close
  BY <1>9 DEF NextView, Close, Lease!Release
<1>10. CASE StartSweep
  BY <1>10 DEF StartSweep, Lease!Acquire
<1>11. CASE SkipSweep \/ AbortSweep \/ EndSweep
  BY <1>11 DEF SkipSweep, AbortSweep, EndSweep
<1>12. CASE FailSweep
  <2>1. at # "exited" /\ at' # "exited" /\ held' = {}
    BY <1>12 DEF FailSweep
  <2>2. held = {} \/ broken' = broken
    BY <1>12 DEF FailSweep
  <2>3. broken' = broken \/ (~broken /\ broken' = TRUE)
    BY <1>12, Zenon DEF FailSweep, MayLeak, LoopInv
  <2>4. CASE held # {}
    BY <2>1, <2>2, <2>4 DEF Lease!Release
  <2> QED
    BY <2>1, <2>3, <2>4 DEF Lease!Break
<1>13. CASE BackOff
  BY <1>13 DEF BackOff, Lease!Exit
<1>14. CASE Exited \/ UNCHANGED vars
  BY <1>14 DEF Exited, vars
<1> QED
  BY <1>1, <1>2, <1>3, <1>4, <1>5, <1>6, <1>7, <1>8, <1>9, <1>10, <1>11, <1>12,
     <1>13, <1>14
  DEF Next, LoopStep, SessionStep, SweepStep

\* The process never opens the device twice, never opens a broken one, and
\* exits with every handle closed (that it does exit is left to TLC).
THEOREM LeaseIsKept == Spec => Lease!Spec
<1>1. Init => Lease!Init
  BY DEF Init, Lease!Init
<1> QED
  BY <1>1, StepKeepsLease, Inductive, PTL DEF Spec, Lease!Spec
-----------------------------------------------------------------------------
(* The services, and whom the open handle serves. *)

\* Every step of the agent is a step of each service or leaves it alone.
LEMMA StepServes ==
  [Next]_vars => [View!Next]_(View!vars) /\ [Tx!Next]_(Tx!vars)
<1> SUFFICES ASSUME [Next]_vars
             PROVE  [View!Next]_(View!vars) /\ [Tx!Next]_(Tx!vars)
  OBVIOUS
<1> USE DEF View!Next, View!vars, Tx!Next, Tx!vars, viewVars, txVars
<1>1. CASE NetStep
  BY <1>1 DEF NetStep, ViewStart, ViewStop, TxStart, TxStop, Arm, Disarm
<1>2. CASE TurnStep
  BY <1>2 DEF TurnStep, PollTx, PollView, PollRelay, RelayGuard
<1>3. CASE SessionStep
  BY <1>3
  DEF SessionStep, Steady, FreeDevice, Open, OpenFails, UseEnds, UseFails, NextView,
      NoNextView, Close
<1>4. CASE SweepStep
  BY <1>4
  DEF SweepStep, Idle, SkipSweep, StartSweep, AbortSweep, EndSweep, FailSweep, BackOff
<1>5. CASE UsbReset \/ Exited \/ UNCHANGED vars
  BY <1>5 DEF UsbReset, Exited, vars
<1> QED BY <1>1, <1>2, <1>3, <1>4, <1>5 DEF Next, LoopStep

\* A request in session was accepted, and no longer waits; only the newest waits.
Accepted(accepted, waiting, serving) ==
  /\ accepted \in Nat
  /\ waiting \in {None, accepted}
  /\ serving \in 0..accepted
  /\ waiting # None => serving # waiting

RequestInv ==
  /\ Accepted(vAccepted, vWaiting, vServing)
  /\ Accepted(tAccepted, tWaiting, tServing)

LEMMA RequestsAreAccepted == Spec => []RequestInv
<1> USE DEF None, View!None, Tx!None
<1>1. Init => RequestInv
  BY DEF Init, View!Init, Tx!Init, RequestInv, Accepted
<1>2. RequestInv /\ [Next]_vars => RequestInv'
  <2> SUFFICES ASSUME RequestInv, [Next]_vars PROVE RequestInv'
    OBVIOUS
  <2>1. Accepted(vAccepted, vWaiting, vServing)'
    BY StepServes
    DEF RequestInv, Accepted, View!Next, View!vars, View!Start, View!Stop,
        View!Begin, View!End
  <2>2. Accepted(tAccepted, tWaiting, tServing)'
    BY StepServes
    DEF RequestInv, Accepted, Tx!Next, Tx!vars, Tx!Start, Tx!Stop, Tx!Begin, Tx!End
  <2> QED
    BY <2>1, <2>2 DEF RequestInv
<1> QED
  BY <1>1, <1>2, PTL DEF Spec

\* At most one handle is open.  The view's and the TX generator's is open for a start
\* of theirs that was accepted and no longer waits, the relay's while neither operator
\* is served.
HolderServes ==
  /\ \A one, other \in held : one = other
  /\ "view" \in held => vServing \in 1..vAccepted /\ vServing # vWaiting
  /\ "tx" \in held => tServing \in 1..tAccepted /\ tServing # tWaiting
  /\ "relay" \in held => vServing = None /\ tServing = None

\* No handle outlives the session it was opened for: whatever fails, is retuned or
\* reset in between, the ways of run_view, run_tx and run_relay back to the loop of
\* main.py close what they opened, and no mode opens on top of another.  (A handle
\* that an open dropped half way is the device's: it is told by broken, not by held.)
THEOREM HandlesHaveSessions == Spec => []HolderServes
<1>1. IInv /\ RequestInv => HolderServes
  <2> SUFFICES ASSUME LoopInv, HeldInv, OneSession, RequestInv
               PROVE  HolderServes
    BY DEF IInv, ServiceInv
  <2>1. held \in {{}, {"sweep"}, {mode}}
    BY DEF LoopInv, HeldInv
  <2>2. \A m \in {"view", "tx", "relay"} : m \in held => mode = m
    BY <2>1
  <2>3. "view" \in held => vServing \in 1..vAccepted /\ vServing # vWaiting
    BY <2>2 DEF OneSession, RequestInv, Accepted, None
  <2>4. "tx" \in held => tServing \in 1..tAccepted /\ tServing # tWaiting
    BY <2>2 DEF OneSession, RequestInv, Accepted, None
  <2>5. "relay" \in held => vServing = None /\ tServing = None
    BY <2>2 DEF OneSession
  <2> QED
    BY <2>1, <2>3, <2>4, <2>5 DEF HolderServes
<1> QED
  BY <1>1, Inductive, RequestsAreAccepted, PTL
=============================================================================
