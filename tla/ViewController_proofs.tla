------------------------ MODULE ViewController_proofs ------------------------
(***************************************************************************)
(* Theorems of ViewController, for any number of commands: its types, the  *)
(* inductive invariant behind "a stale request is never served" and "the   *)
(* SDR is given back", and the safety half of its promise.                 *)
(***************************************************************************)
EXTENDS ViewController, TLAPS

\* What waits is the newest start, issued after every stop, and is never the
\* request in service; outside a session the radio is closed and nothing shown.
IInv ==
  /\ TypeOK
  /\ pending # None => pending = starts /\ pending > cancelled /\ req < pending
  /\ cancelled <= starts /\ req <= starts
  /\ pc = "sweep" => req = None
  /\ InSession => req # None
  /\ pc \in {"sweep", "end"} => ~radio
  /\ pc \in {"tune", "stream", "next"} => shown = req
  /\ pc \in {"sweep", "end", "reset"} => shown = None

\* IInv holds initially.
LEMMA InitIInv == Init => IInv
<1> SUFFICES ASSUME Init PROVE IInv
  OBVIOUS
<1>1. TypeOK
  <2>1. stop \in BOOLEAN /\ error \in BOOLEAN /\ radio \in BOOLEAN
    BY DEF Init
  <2>2. pending \in 0..MaxStarts /\ starts \in 0..MaxStarts /\ req \in 0..MaxStarts
    BY ViewBounds DEF ViewBounds, Init, None
  <2>3. shown \in 0..MaxStarts /\ stops \in 0..MaxStops /\ cancelled \in 0..MaxStarts
    BY ViewBounds DEF ViewBounds, Init, None
  <2>4. pc = "sweep" /\ net = "ready"
    BY DEF Init
  <2> QED
    BY <2>1, <2>2, <2>3, <2>4 DEF TypeOK
<1>2. ~radio
  BY Zenon DEF Init
<1> QED
  BY <1>1, <1>2 DEF Init, IInv, None, InSession

\* A step of the MQTT thread keeps IInv.
LEMMA NetKeepsIInv == IInv /\ NetStep => IInv'
<1> SUFFICES ASSUME IInv, NetStep PROVE IInv'
  OBVIOUS
<1> USE ViewBounds DEF ViewBounds, IInv, TypeOK, None, InSession, commands,
        counts, session, Move, TakePending
<1>1. CASE StartLock
  BY <1>1 DEF StartLock
<1>2. CASE StopLock
  BY <1>2 DEF StopLock
<1>3. CASE SetStopEvent
  BY <1>3 DEF SetStopEvent
<1> QED
  BY <1>1, <1>2, <1>3 DEF NetStep

\* A step of the scan thread keeps IInv.
LEMMA ScanKeepsIInv == IInv /\ (Poll \/ PollNothing \/ SessionStep) => IInv'
<1> SUFFICES ASSUME IInv, Poll \/ PollNothing \/ SessionStep PROVE IInv'
  OBVIOUS
<1> USE ViewBounds DEF ViewBounds, IInv, TypeOK, None, InSession, commands,
        counts, session, Move, TakePending
<1>1. CASE Poll
  BY <1>1 DEF Poll
<1>2. CASE PollNothing
  BY <1>2 DEF PollNothing, vars
<1>3. CASE ClearStop \/ PublishActive
  BY <1>3 DEF ClearStop, PublishActive
<1>4. CASE StreamStep
  BY <1>4 DEF StreamStep, Tune, TuneFails, StreamStops, StreamTimesOut,
              StreamFails
<1>5. CASE NextRequest
  BY <1>5 DEF NextRequest
<1>6. CASE NoNext \/ ResetForRetry
  BY <1>6 DEF NoNext, ResetForRetry
<1>7. CASE PublishIdle
  BY <1>7 DEF PublishIdle
<1>8. CASE FinalReset
  <2>1. ~radio'
    BY <1>8, Zenon DEF FinalReset
  <2> QED
    BY <1>8, <2>1 DEF FinalReset
<1>9. CASE FinalClear
  <2>1. stop' \in BOOLEAN /\ error' \in BOOLEAN
    BY <1>9 DEF FinalClear
  <2>2. req' = 0 /\ 0 \in 0..MaxStarts
    BY <1>9 DEF FinalClear
  <2> QED
    BY <1>9, <2>1, <2>2 DEF FinalClear
<1> QED
  BY <1>1, <1>2, <1>3, <1>4, <1>5, <1>6, <1>7, <1>8, <1>9 DEF SessionStep

\* IInv is inductive.
LEMMA StepKeepsIInv == IInv /\ [Next]_vars => IInv'
<1> SUFFICES ASSUME IInv, [Next]_vars PROVE IInv'
  OBVIOUS
<1>1. CASE Next
  BY <1>1, NetKeepsIInv, ScanKeepsIInv DEF Next
<1>2. CASE UNCHANGED vars
  BY <1>2 DEF IInv, TypeOK, InSession, vars, commands, counts, session
<1> QED
  BY <1>1, <1>2

\* IInv holds in every reachable state.
LEMMA Inductive == Spec => []IInv
<1>1. Init => IInv
  BY InitIInv
<1>2. IInv /\ [Next]_vars => IInv'
  BY StepKeepsIInv
<1> QED
  BY <1>1, <1>2, PTL DEF Spec

\* Every variable keeps to its range.
THEOREM TypeCorrect == Spec => []TypeOK
<1>1. IInv => TypeOK
  BY DEF IInv
<1> QED
  BY <1>1, Inductive, PTL

\* The dashboard is shown the request that streams, and a sweep finds the SDR
\* given back and nothing shown.
THEOREM ShownIsTrue == Spec => []ShownIsServed
<1>1. IInv => ShownIsServed
  BY DEF IInv, ShownIsServed
<1> QED
  BY <1>1, Inductive, PTL

\* A start that was replaced or cancelled while it waited is never streamed.
THEOREM StaleIsNeverServed == Spec => NeverServesStale
<1>1. IInv /\ [Next]_vars
        => [req' # req /\ req' # None => req' = starts /\ req' > cancelled]_vars
  <2> SUFFICES ASSUME IInv, Next, req' # req, req' # None
               PROVE  req' = starts /\ req' > cancelled
    OBVIOUS
  <2> USE DEF vars, commands, counts, session, Move, TakePending
  <2>1. CASE Poll \/ NextRequest
    BY <2>1 DEF Poll, NextRequest, IInv
  <2>2. CASE NetStep \/ PollNothing
    BY <2>2 DEF NetStep, StartLock, StopLock, SetStopEvent, PollNothing
  <2>3. CASE ClearStop \/ PublishActive \/ StreamStep \/ NoNext
             \/ ResetForRetry \/ PublishIdle \/ FinalReset \/ FinalClear
    BY <2>3 DEF ClearStop, PublishActive, StreamStep, Tune, TuneFails,
                StreamStops, StreamTimesOut, StreamFails, NoNext,
                ResetForRetry, PublishIdle, FinalReset, FinalClear
  <2> QED
    BY <2>1, <2>2, <2>3 DEF Next, SessionStep
<1> QED
  BY <1>1, Inductive, PTL DEF Spec, NeverServesStale

-----------------------------------------------------------------------------
(* The refinement. *)

\* Every step of the controller is a step of SessionService or a stutter.
LEMMA StepRefines == IInv /\ [Next]_vars => [Promise!Next]_Promise!vars
<1> SUFFICES ASSUME IInv, [Next]_vars PROVE [Promise!Next]_Promise!vars
  OBVIOUS
<1> USE DEF Promise!Next, Promise!vars, Promise!None, Serving, InSession, None,
        commands, counts, session, Move, TakePending
<1>1. CASE StartLock
  BY <1>1 DEF StartLock, Promise!Start
<1>2. CASE StopLock
  BY <1>2 DEF StopLock, Promise!Stop
<1>3. CASE SetStopEvent
  BY <1>3 DEF SetStopEvent
<1>4. CASE Poll
  BY <1>4 DEF Poll, Promise!Begin
<1>5. CASE NextRequest
  BY <1>5 DEF NextRequest, Promise!Begin
<1>6. CASE FinalClear
  BY <1>6 DEF FinalClear, Promise!End, IInv
<1>7. CASE ClearStop \/ PublishActive \/ StreamStep \/ NoNext
           \/ ResetForRetry \/ PublishIdle \/ FinalReset
  BY <1>7 DEF ClearStop, PublishActive, StreamStep, Tune, TuneFails,
              StreamStops, StreamTimesOut, StreamFails, NoNext,
              ResetForRetry, PublishIdle, FinalReset
<1>8. CASE PollNothing \/ UNCHANGED vars
  BY <1>8 DEF PollNothing, vars
<1> QED
  BY <1>1, <1>2, <1>3, <1>4, <1>5, <1>6, <1>7, <1>8
  DEF Next, NetStep, SessionStep

\* Every behaviour of the controller is one the operator was promised (its
\* liveness is left to TLC).
THEOREM Refines == Spec => Promise!Spec
<1>1. Init => Promise!Init
  BY DEF Init, Promise!Init, Promise!None, Serving, InSession, None
<1> QED
  BY <1>1, StepRefines, Inductive, PTL DEF Spec, Promise!Spec
-----------------------------------------------------------------------------
(* What follows of the promise. *)

\* The start that waits is the newest one and not in session.
PromiseInv ==
  /\ starts \in Nat /\ Serving \in Nat /\ Serving <= starts
  /\ pending # None => pending = starts /\ Serving # starts

\* Start n was accepted, and neither waits nor is in session.
Over(n) == n <= starts /\ pending # n /\ Serving # n

\* A step that the promise allows keeps all this, and a session that ends is over.
LEMMA PromiseStep ==
  ASSUME NEW n \in Nat \ {None}
  PROVE  PromiseInv /\ [Promise!Next]_(Promise!vars) =>
           /\ PromiseInv'
           /\ Over(n) => Over(n)'
           /\ Serving = n => (Serving = n)' \/ Over(n)'
<1> SUFFICES ASSUME PromiseInv, [Promise!Next]_(Promise!vars)
             PROVE  /\ PromiseInv'
                    /\ Over(n) => Over(n)'
                    /\ Serving = n => (Serving = n)' \/ Over(n)'
  OBVIOUS
<1> USE DEF PromiseInv, Over, None, Promise!None
<1>1. CASE Promise!Start
  BY <1>1 DEF Promise!Start
<1>2. CASE Promise!Stop
  BY <1>2 DEF Promise!Stop
<1>3. CASE Promise!Begin
  BY <1>3 DEF Promise!Begin
<1>4. CASE Promise!End
  BY <1>4 DEF Promise!End
<1>5. CASE UNCHANGED Promise!vars
  BY <1>5 DEF Promise!vars
<1> QED BY <1>1, <1>2, <1>3, <1>4, <1>5 DEF Promise!Next

\* However commands, errors and resets interleave, each start is streamed in one
\* session at most: one that was replaced or stopped while it waited in none, and
\* one whose session has ended never again (view_controller.py run_view, pending).
THEOREM OncePerStart ==
  ASSUME NEW n \in Nat \ {None}
  PROVE  Spec => /\ [](Over(n) => [](Serving # n))
                 /\ [](Serving = n => [](Serving = n \/ [](Serving # n)))
<1>1. Promise!Init => PromiseInv
  BY DEF Promise!Init, Promise!None, PromiseInv, None
<1>2. Over(n) => Serving # n
  BY DEF Over
<1>3. PromiseInv /\ [Promise!Next]_(Promise!vars) => PromiseInv'
  BY PromiseStep
<1>4. PromiseInv /\ Over(n) /\ [Promise!Next]_(Promise!vars) => Over(n)'
  BY PromiseStep
<1>5. PromiseInv /\ Serving = n /\ [Promise!Next]_(Promise!vars) => (Serving = n)' \/ Over(n)'
  BY PromiseStep
<1>6. Spec => []PromiseInv
  BY <1>1, <1>3, Refines, PTL DEF Promise!Spec
<1>7. Spec => [](Over(n) => []Over(n))
  BY <1>4, <1>6, Refines, PTL DEF Promise!Spec
<1>8. Spec => [](Serving = n => [](Serving = n \/ []Over(n)))
  BY <1>5, <1>6, <1>7, Refines, PTL DEF Promise!Spec
<1> QED BY <1>2, <1>7, <1>8, PTL
=============================================================================
