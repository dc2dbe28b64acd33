------------------------- MODULE TxController_proofs -------------------------
(***************************************************************************)
(* Theorems of TxController, for any number of commands, clips and failed  *)
(* renders: its types, the bound on transmit windows, the radio given      *)
(* back, the cache that serves the right clip while no render has gone     *)
(* wrong, and the safety half of its promise.                              *)
(***************************************************************************)
EXTENDS TxController, TLAPS

PendingOne == IF pending = None THEN 0 ELSE 1
RetuneOne == IF retune THEN 1 ELSE 0

\* The window that this session, or the retune it has consumed, has yet to use.
WindowDue ==
  IF pc \in {"clear", "free", "render", "check", "open", "window", "reclear"}
  THEN 1 ELSE 0

\* The controller's program counters and flags.
ControlInv ==
  /\ retune \in BOOLEAN /\ stop \in BOOLEAN
  /\ net \in {"ready", "start", "stop", "retune"} /\ stopSeen \in BOOLEAN
  /\ pc \in {"sweep", "clear", "free", "render", "check", "open", "window",
             "transmit", "consume", "reclear", "close", "reset", "end"}

\* Requests: what waits is the newest start, and no session outnumbers the
\* starts.
RequestInv ==
  /\ starts \in 0..MaxStarts /\ stops \in 0..MaxStops
  /\ retunes \in 0..MaxRetunes
  /\ pending = None \/ pending = starts
  /\ req \in 0..starts
  /\ pc = "sweep" => req = None
  /\ InSession => req # None
  /\ pending # None => req < pending
  /\ sessions \in Nat /\ sessions + PendingOne <= starts

\* Windows: each is paid by a session or a retune, and what is still due is
\* paid for as well.
WindowInv ==
  /\ retune \in BOOLEAN
  /\ sessions \in Nat /\ windows \in Nat /\ retunes \in Nat
  /\ windows + WindowDue + RetuneOne <= sessions + retunes

\* The cache: while no render has gone wrong the key names its content, and
\* past the render the key is that of the request.
CacheInv ==
  /\ badRenders \in 0..MaxBadRenders
  /\ clip \in [1..MaxStarts -> Clips]
  /\ lastKey \in Clips \union {NoClip}
  /\ cache \in Clips \union {NoClip, Garbled}
  /\ badRenders = 0 => cache = lastKey
  /\ pc \in {"check", "open", "window", "transmit", "consume", "reclear"}
       => lastKey = clip[req]

\* The radio: open exactly where it is used, and idle is published once closed.
RadioInv ==
  /\ radio \in BOOLEAN /\ status \in {"idle", "rendering", "transmitting"}
  /\ radio => pc \in {"window", "transmit", "consume", "reclear", "close"}
  /\ pc \in {"window", "transmit", "consume", "reclear"} => radio
  /\ pc = "transmit" => status = "transmitting"
  /\ pc \in {"reset", "end", "sweep", "clear", "free"} => status = "idle"

IInv == ControlInv /\ RequestInv /\ WindowInv /\ CacheInv /\ RadioInv

-----------------------------------------------------------------------------
\* Every part of the invariant holds initially.
LEMMA InitIInv == Init => IInv
<1> SUFFICES ASSUME Init PROVE IInv
  OBVIOUS
<1>1. ControlInv
  BY DEF Init, ControlInv
<1>2. RequestInv
  BY TxBounds DEF TxBounds, Init, RequestInv, None, InSession, PendingOne
<1>3. WindowInv
  <2>1. retune \in BOOLEAN /\ ~retune
    BY Zenon DEF Init
  <2> QED
    BY <2>1 DEF Init, WindowInv, WindowDue, RetuneOne
<1>4. CacheInv
  <2>1. badRenders = 0 /\ 0 \in 0..MaxBadRenders
    BY TxBounds DEF TxBounds, Init
  <2> QED
    BY <2>1 DEF Init, CacheInv
<1>5. RadioInv
  BY DEF Init, RadioInv
<1> QED
  BY <1>1, <1>2, <1>3, <1>4, <1>5 DEF IInv

\* Flags and program counters.
LEMMA StepKeepsControl == ControlInv /\ [Next]_vars => ControlInv'
<1> SUFFICES ASSUME ControlInv, [Next]_vars PROVE ControlInv'
  OBVIOUS
<1> USE DEF ControlInv, commands, session, Move, histVars, NeedsRender
<1>1. CASE NetStep
  BY <1>1 DEF NetStep, StartLock, StopLock, RetuneLock, SetStopEvent
<1>2. CASE Poll \/ PollNothing
  BY <1>2 DEF Poll, PollNothing
<1>3. CASE Prepare
  BY <1>3 DEF Prepare, ClearStop, FreeDevice, ReuseRender, Render,
              RenderCutShort, RenderRaises, CheckStop, Open, OpenFails
<1>4. CASE Transmit
  BY <1>4 DEF Transmit, BeginWindow, TransmitStops, TransmitEnds,
              TransmitCrashes, ConsumeRetune, ApplyRetune
<1>5. CASE Finish
  BY <1>5 DEF Finish, Close, FinalReset, FinalClear
<1>6. CASE UNCHANGED vars
  BY <1>6 DEF vars
<1> QED
  BY <1>1, <1>2, <1>3, <1>4, <1>5, <1>6 DEF Next, SessionStep

\* Requests.
LEMMA StepKeepsRequest == RequestInv /\ [Next]_vars => RequestInv'
<1> SUFFICES ASSUME RequestInv, [Next]_vars PROVE RequestInv'
  OBVIOUS
<1> USE TxBounds DEF TxBounds, RequestInv, PendingOne, None, InSession,
        commands, counts, session, Move, histVars, NeedsRender
<1>1. CASE StartLock
  BY <1>1 DEF StartLock
<1>2. CASE StopLock
  BY <1>2 DEF StopLock
<1>3. CASE RetuneLock \/ SetStopEvent
  BY <1>3 DEF RetuneLock, SetStopEvent
<1>4. CASE Poll
  BY <1>4 DEF Poll
<1>5. CASE PollNothing
  BY <1>5 DEF PollNothing
<1>6. CASE Prepare
  BY <1>6 DEF Prepare, ClearStop, FreeDevice, ReuseRender, Render,
              RenderCutShort, RenderRaises, CheckStop, Open, OpenFails
<1>7. CASE Transmit
  BY <1>7 DEF Transmit, BeginWindow, TransmitStops, TransmitEnds,
              TransmitCrashes, ConsumeRetune, ApplyRetune
<1>8. CASE Close \/ FinalReset
  BY <1>8 DEF Close, FinalReset
<1>9. CASE FinalClear
  BY <1>9 DEF FinalClear
<1>10. CASE UNCHANGED vars
  BY <1>10 DEF vars
<1> QED
  BY <1>1, <1>2, <1>3, <1>4, <1>5, <1>6, <1>7, <1>8, <1>9, <1>10
  DEF Next, NetStep, SessionStep, Finish

\* Transmit windows.
LEMMA StepKeepsWindow == WindowInv /\ [Next]_vars => WindowInv'
<1> SUFFICES ASSUME WindowInv, [Next]_vars PROVE WindowInv'
  OBVIOUS
<1> USE DEF WindowInv, WindowDue, RetuneOne, commands, counts, session, Move,
        histVars, NeedsRender
<1>1. CASE StartLock
  BY <1>1 DEF StartLock
<1>2. CASE RetuneLock
  BY <1>2 DEF RetuneLock
<1>3. CASE SetStopEvent
  BY <1>3 DEF SetStopEvent
<1>4. CASE Poll
  BY <1>4 DEF Poll
<1>5. CASE PollNothing \/ StopLock
  <2>1. CASE PollNothing
    BY <2>1 DEF PollNothing
  <2>2. CASE StopLock
    <3>1. retune' \in BOOLEAN /\ ~retune'
      BY <2>2, Zenon DEF StopLock
    <3>2. UNCHANGED <<sessions, windows, retunes, pc>>
      BY <2>2 DEF StopLock
    <3> QED
      BY <3>1, <3>2
  <2> QED
    BY <1>5, <2>1, <2>2
<1>6. CASE Prepare
  BY <1>6 DEF Prepare, ClearStop, FreeDevice, ReuseRender, Render,
              RenderCutShort, RenderRaises, CheckStop, Open, OpenFails
<1>7. CASE BeginWindow
  BY <1>7 DEF BeginWindow
<1>8. CASE TransmitStops \/ TransmitEnds \/ TransmitCrashes
  BY <1>8 DEF TransmitStops, TransmitEnds, TransmitCrashes
<1>9. CASE ConsumeRetune
  <2>1. retune' \in BOOLEAN /\ ~retune'
    BY <1>9, Zenon DEF ConsumeRetune
  <2>2. UNCHANGED <<sessions, windows, retunes>>
    BY <1>9 DEF ConsumeRetune
  <2>3. pc = "consume" /\ pc' = IF retune THEN "reclear" ELSE "close"
    BY <1>9 DEF ConsumeRetune
  <2> QED
    BY <2>1, <2>2, <2>3
<1>10. CASE ApplyRetune
  BY <1>10 DEF ApplyRetune
<1>11. CASE Finish
  BY <1>11 DEF Finish, Close, FinalReset, FinalClear
<1>12. CASE UNCHANGED vars
  BY <1>12 DEF vars
<1> QED
  BY <1>1, <1>2, <1>3, <1>4, <1>5, <1>6, <1>7, <1>8, <1>9, <1>10, <1>11, <1>12
  DEF Next, NetStep, SessionStep, Transmit

\* The cache.
LEMMA StepKeepsCache ==
  CacheInv /\ RequestInv /\ [Next]_vars => CacheInv'
<1> SUFFICES ASSUME CacheInv, RequestInv, [Next]_vars PROVE CacheInv'
  OBVIOUS
<1> USE DEF CacheInv, commands, counts, clipVars, session, Move, histVars,
        NeedsRender
<1>1. CASE NetStep
  BY <1>1 DEF NetStep, StartLock, StopLock, RetuneLock, SetStopEvent
<1>2. CASE Poll \/ PollNothing
  BY <1>2 DEF Poll, PollNothing
<1>3. CASE ClearStop \/ FreeDevice \/ ReuseRender \/ CheckStop \/ Open
            \/ OpenFails
  BY <1>3 DEF ClearStop, FreeDevice, ReuseRender, CheckStop, Open, OpenFails
<1>4. CASE Render
  <2>1. clip[req] \in Clips
    <3>1. req \in 1..MaxStarts
      BY <1>4, TxBounds DEF TxBounds, Render, RequestInv, InSession, None
    <3> QED
      BY <3>1
  <2> QED
    BY <1>4, <2>1 DEF Render
<1>5. CASE RenderCutShort
  <2>1. clip[req] \in Clips
    <3>1. req \in 1..MaxStarts
      BY <1>5, TxBounds DEF TxBounds, RenderCutShort, RequestInv, InSession, None
    <3> QED
      BY <3>1
  <2>2. badRenders' \in 0..MaxBadRenders /\ badRenders' # 0
    BY <1>5, TxBounds DEF TxBounds, RenderCutShort
  <2> QED
    BY <1>5, <2>1, <2>2 DEF RenderCutShort
<1>6. CASE RenderRaises
  <2>1. badRenders' \in 0..MaxBadRenders /\ badRenders' # 0
    BY <1>6, TxBounds DEF TxBounds, RenderRaises
  <2> QED
    BY <1>6, <2>1 DEF RenderRaises
<1>7. CASE Transmit
  BY <1>7 DEF Transmit, BeginWindow, TransmitStops, TransmitEnds,
              TransmitCrashes, ConsumeRetune, ApplyRetune
<1>8. CASE Finish
  BY <1>8 DEF Finish, Close, FinalReset, FinalClear
<1>9. CASE UNCHANGED vars
  BY <1>9 DEF vars
<1> QED
  BY <1>1, <1>2, <1>3, <1>4, <1>5, <1>6, <1>7, <1>8, <1>9
  DEF Next, SessionStep, Prepare

\* The radio and the published status.
LEMMA StepKeepsRadio == RadioInv /\ [Next]_vars => RadioInv'
<1> SUFFICES ASSUME RadioInv, [Next]_vars PROVE RadioInv'
  OBVIOUS
<1> USE DEF RadioInv, commands, session, Move, histVars, NeedsRender
<1>1. CASE NetStep
  BY <1>1 DEF NetStep, StartLock, StopLock, RetuneLock, SetStopEvent
<1>2. CASE Poll \/ PollNothing
  BY <1>2 DEF Poll, PollNothing
<1>3. CASE Open
  <2>1. radio' \in BOOLEAN /\ radio'
    BY <1>3, Zenon DEF Open
  <2> QED
    BY <1>3, <2>1 DEF Open
<1>4. CASE Close
  <2>1. radio' \in BOOLEAN /\ ~radio'
    BY <1>4, Zenon DEF Close
  <2> QED
    BY <1>4, <2>1 DEF Close
<1>5. CASE ClearStop \/ FreeDevice \/ ReuseRender \/ CheckStop \/ OpenFails
  BY <1>5 DEF ClearStop, FreeDevice, ReuseRender, CheckStop, OpenFails
<1>6. CASE Render \/ RenderCutShort \/ RenderRaises
  BY <1>6 DEF Render, RenderCutShort, RenderRaises
<1>7. CASE Transmit
  BY <1>7 DEF Transmit, BeginWindow, TransmitStops, TransmitEnds,
              TransmitCrashes, ConsumeRetune, ApplyRetune
<1>8. CASE FinalReset \/ FinalClear
  BY <1>8 DEF FinalReset, FinalClear
<1>9. CASE UNCHANGED vars
  BY <1>9 DEF vars
<1> QED
  BY <1>1, <1>2, <1>3, <1>4, <1>5, <1>6, <1>7, <1>8, <1>9
  DEF Next, SessionStep, Prepare, Finish

\* The invariant is inductive, so it holds in every reachable state.
LEMMA Inductive == Spec => []IInv
<1>1. IInv /\ [Next]_vars => IInv'
  BY StepKeepsControl, StepKeepsRequest, StepKeepsWindow, StepKeepsCache,
     StepKeepsRadio DEF IInv
<1> QED
  BY <1>1, InitIInv, PTL DEF Spec

-----------------------------------------------------------------------------
\* Every variable keeps to its range.
THEOREM TypeCorrect == Spec => []TypeOK
<1>1. IInv => TypeOK
  <2> SUFFICES ASSUME IInv PROVE TypeOK
    OBVIOUS
  <2>1. pending \in 0..MaxStarts /\ req \in 0..MaxStarts
        /\ sessions \in 0..MaxStarts
    BY TxBounds DEF TxBounds, IInv, RequestInv, None, PendingOne
  <2>2. starts \in 0..MaxStarts /\ stops \in 0..MaxStops
        /\ retunes \in 0..MaxRetunes
    BY DEF IInv, RequestInv
  <2> QED
    BY <2>1, <2>2 DEF IInv, ControlInv, WindowInv, CacheInv, RadioInv, TypeOK
<1> QED
  BY <1>1, Inductive, PTL

\* However starts, stops and retunes interleave, no more windows of max_s go on
\* the air than there were sessions and retunes.
THEOREM EveryWindowIsPaid == Spec => []WindowsArePaid
<1>1. IInv => WindowsArePaid
  BY DEF IInv, WindowInv, WindowDue, RetuneOne, WindowsArePaid
<1> QED
  BY <1>1, Inductive, PTL

\* The transmitter is off, and shown as off, whenever the scan loop sweeps.
THEOREM RadioIsReleased == Spec => []RadioReleased
<1>1. IInv => RadioReleased
  BY DEF IInv, RadioInv, RadioReleased
<1> QED
  BY <1>1, Inductive, PTL

\* While no render has gone wrong, the clip on the air is the requested one.
THEOREM RightClip == Spec => []ClipIsRequested
<1>1. IInv => ClipIsRequested
  BY DEF IInv, CacheInv, ClipIsRequested
<1> QED
  BY <1>1, Inductive, PTL

-----------------------------------------------------------------------------
(* A stop that nobody retunes away. *)

\* Without a retune the event is dropped at the head of a session only, before any
\* stop that counts, and otherwise outlives the session.
KeptInv ==
  /\ retunes = 0 => ~retune /\ pc # "reclear"
  /\ pc = "clear" => ~stopSeen
  /\ retunes = 0 /\ stopSeen /\ OnDuty => stop

\* A step keeps that.
LEMMA StepKeepsStop == IInv /\ KeptInv /\ [Next]_vars => KeptInv'
<1> SUFFICES ASSUME IInv, KeptInv, [Next]_vars PROVE KeptInv'
  OBVIOUS
<1>1. retune \in BOOLEAN /\ stop \in BOOLEAN /\ retunes \in 0..MaxRetunes
  BY DEF IInv, ControlInv, RequestInv
<1> USE <1>1 DEF KeptInv, OnDuty, commands, counts, session, Move, histVars, NeedsRender
<1>2. CASE StartLock \/ StopLock
  BY <1>2 DEF StartLock, StopLock
<1>3. CASE RetuneLock
  BY <1>3, TxBounds DEF RetuneLock, TxBounds
<1>4. CASE SetStopEvent
  BY <1>4 DEF SetStopEvent
<1>5. CASE Poll \/ PollNothing
  BY <1>5 DEF Poll, PollNothing
<1>6. CASE Prepare
  BY <1>6 DEF Prepare, ClearStop, FreeDevice, ReuseRender, Render,
              RenderCutShort, RenderRaises, CheckStop, Open, OpenFails
<1>7. CASE Transmit
  BY <1>7 DEF Transmit, BeginWindow, TransmitStops, TransmitEnds,
              TransmitCrashes, ConsumeRetune, ApplyRetune
<1>8. CASE Finish
  BY <1>8 DEF Finish, Close, FinalReset, FinalClear
<1>9. CASE UNCHANGED vars
  BY <1>9 DEF vars
<1> QED
  BY <1>2, <1>3, <1>4, <1>5, <1>6, <1>7, <1>8, <1>9 DEF Next, NetStep, SessionStep

\* run_tx drops its own trigger before the render and looks at the event after it
\* (tx_controller.py): a stop during the render is not lost, however long it takes.
THEOREM StopIsKept == Spec => []StopKept
<1>1. Init => KeptInv
  BY DEF Init, KeptInv
<1>2. KeptInv => StopKept
  BY DEF KeptInv, OnDuty, StopKept
<1> QED
  BY <1>1, <1>2, StepKeepsStop, Inductive, PTL DEF Spec

-----------------------------------------------------------------------------
(* The refinement. *)

\* Every step of the controller is a step of SessionService or a stutter.
LEMMA StepRefines == IInv /\ [Next]_vars => [Promise!Next]_Promise!vars
<1> SUFFICES ASSUME IInv, [Next]_vars PROVE [Promise!Next]_Promise!vars
  OBVIOUS
<1> USE DEF Promise!Next, Promise!vars, Promise!None, Serving, InSession, None,
        commands, counts, session, Move, histVars, NeedsRender
<1>1. CASE StartLock
  BY <1>1 DEF StartLock, Promise!Start
<1>2. CASE StopLock
  BY <1>2 DEF StopLock, Promise!Stop
<1>3. CASE RetuneLock \/ SetStopEvent
  BY <1>3 DEF RetuneLock, SetStopEvent
<1>4. CASE Poll
  BY <1>4 DEF Poll, Promise!Begin
<1>5. CASE Prepare
  BY <1>5 DEF Prepare, ClearStop, FreeDevice, ReuseRender, Render,
              RenderCutShort, RenderRaises, CheckStop, Open, OpenFails
<1>6. CASE Transmit
  BY <1>6 DEF Transmit, BeginWindow, TransmitStops, TransmitEnds,
              TransmitCrashes, ConsumeRetune, ApplyRetune
<1>7. CASE Close \/ FinalReset
  BY <1>7 DEF Close, FinalReset
<1>8. CASE FinalClear
  BY <1>8 DEF FinalClear, Promise!End, IInv, RequestInv
<1>9. CASE PollNothing \/ UNCHANGED vars
  BY <1>9 DEF PollNothing, vars
<1> QED
  BY <1>1, <1>2, <1>3, <1>4, <1>5, <1>6, <1>7, <1>8, <1>9
  DEF Next, NetStep, SessionStep, Finish

\* Starts replaced or stopped while they wait are never served, the others at
\* most once (that they are served at all is left to TLC).
THEOREM Refines == Spec => Promise!Spec
<1>1. Init => Promise!Init
  BY DEF Init, Promise!Init, Promise!None, Serving, InSession, None
<1> QED
  BY <1>1, StepRefines, Inductive, PTL DEF Spec, Promise!Spec
-----------------------------------------------------------------------------
(* What follows of the promise. *)

\* The start that waits is the newest one and not in session.
PromiseInv ==
  /\ starts \in Nat /\ Serving \in Nat /\ Serving <= starts
  /\ pending # None => pending = starts /\ Serving # starts

\* Start n was accepted, and neither waits nor is in session.
Over(n) == n <= starts /\ pending # n /\ Serving # n

\* A step that the promise allows keeps all this, and a session that ends is over.
LEMMA PromiseStep ==
  ASSUME NEW n \in Nat \ {None}
  PROVE  PromiseInv /\ [Promise!Next]_(Promise!vars) =>
           /\ PromiseInv'
           /\ Over(n) => Over(n)'
           /\ Serving = n => (Serving = n)' \/ Over(n)'
<1> SUFFICES ASSUME PromiseInv, [Promise!Next]_(Promise!vars)
             PROVE  /\ PromiseInv'
                    /\ Over(n) => Over(n)'
                    /\ Serving = n => (Serving = n)' \/ Over(n)'
  OBVIOUS
<1> USE DEF PromiseInv, Over, None, Promise!None
<1>1. CASE Promise!Start
  BY <1>1 DEF Promise!Start
<1>2. CASE Promise!Stop
  BY <1>2 DEF Promise!Stop
<1>3. CASE Promise!Begin
  BY <1>3 DEF Promise!Begin
<1>4. CASE Promise!End
  BY <1>4 DEF Promise!End
<1>5. CASE UNCHANGED Promise!vars
  BY <1>5 DEF Promise!vars
<1> QED BY <1>1, <1>2, <1>3, <1>4, <1>5 DEF Promise!Next

\* However commands, retunes and renders interleave, each start is transmitted in one
\* session at most: one that was replaced or stopped while it waited in none, and
\* one whose session has ended never again (tx_controller.py run_tx, pending).
THEOREM OncePerStart ==
  ASSUME NEW n \in Nat \ {None}
  PROVE  Spec => /\ [](Over(n) => [](Serving # n))
                 /\ [](Serving = n => [](Serving = n \/ [](Serving # n)))
<1>1. Promise!Init => PromiseInv
  BY DEF Promise!Init, Promise!None, PromiseInv, None
<1>2. Over(n) => Serving # n
  BY DEF Over
<1>3. PromiseInv /\ [Promise!Next]_(Promise!vars) => PromiseInv'
  BY PromiseStep
<1>4. PromiseInv /\ Over(n) /\ [Promise!Next]_(Promise!vars) => Over(n)'
  BY PromiseStep
<1>5. PromiseInv /\ Serving = n /\ [Promise!Next]_(Promise!vars) => (Serving = n)' \/ Over(n)'
  BY PromiseStep
<1>6. Spec => []PromiseInv
  BY <1>1, <1>3, Refines, PTL DEF Promise!Spec
<1>7. Spec => [](Over(n) => []Over(n))
  BY <1>4, <1>6, Refines, PTL DEF Promise!Spec
<1>8. Spec => [](Serving = n => [](Serving = n \/ []Over(n)))
  BY <1>5, <1>6, <1>7, Refines, PTL DEF Promise!Spec
<1> QED BY <1>2, <1>7, <1>8, PTL
=============================================================================
