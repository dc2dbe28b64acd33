----------------------- MODULE RelayController_proofs -----------------------
(***************************************************************************)
(* Theorems of RelayController, for every set of hits, targets and every   *)
(* guard: types, the guard band, the bound on late blocks, and the radio   *)
(* given back.                                                             *)
(***************************************************************************)
EXTENDS RelayController, TLAPS

Fits(t) == t = Nothing \/ (t \in Targeted /\ Eligible(t.hit, t.dst))

\* A source stays tied to the target it was checked against, from update_hits'
\* snapshot to the open radio.
GuardInv ==
  /\ snap \in Dsts /\ dst \in Dsts
  /\ best = Nothing \/ best \in Hits
  /\ pc = "store" => best = Nothing \/ Eligible(best, snap)
  /\ Fits(pending) /\ Fits(req) /\ Fits(radio)

\* A disarm that finds the event cleared leaves it set until the session ends;
\* a block is only started with nothing late.
LateInv ==
  /\ revoked = "open" => stop \/ pc \notin {"free", "open", "check", "write"}
  /\ revoked = "open" => pc \notin {"guard", "clear"}
  /\ late \in 0..2
  /\ late # 0 /\ revoked = "no" => manual
  /\ pc = "write" /\ revoked # "opening" => late = 0
  /\ revoked # "opening" => late <= 1

\* The other variables' types.
FlagTypes ==
  /\ armed \in BOOLEAN /\ stop \in BOOLEAN /\ manual \in BOOLEAN
  /\ lost \in BOOLEAN /\ expired \in BOOLEAN

ControlTypes ==
  /\ net \in {"ready", "arm", "disarm", "disarmStop"}
  /\ pc \in {"poll", "sweep", "pick", "store", "guard", "clear", "free", "open",
             "check", "write", "close", "reset", "end"}
  /\ revoked \in {"no", "opening", "open"}

\* The radio is open in the middle of a session only, for its request.
InSessionOnly ==
  radio # Nothing => pc \in {"check", "write", "close"} /\ radio = req

IInv ==
  GuardInv /\ LateInv /\ FlagTypes /\ ControlTypes /\ InSessionOnly

-----------------------------------------------------------------------------
\* The unchanged-variable tuples, expanded.
LEMMA InitIInv == Init => IInv
<1> SUFFICES ASSUME Init PROVE IInv
  OBVIOUS
<1>1. GuardInv
  BY DEF Init, GuardInv, Fits
<1>2. LateInv
  BY DEF Init, LateInv
<1>3. FlagTypes /\ ControlTypes
  BY DEF Init, FlagTypes, ControlTypes
<1>4. InSessionOnly
  BY DEF Init, InSessionOnly
<1> QED
  BY <1>1, <1>2, <1>3, <1>4 DEF IInv

\* What Pick chooses is a hit that is eligible for the snapshot.
LEMMA PickIsEligible ==
  ASSUME NEW hits \in SUBSET Hits, Pick(hits)
  PROVE  best' = Nothing \/ (best' \in Hits /\ Eligible(best', snap))
  BY DEF Pick, Strongest

\* Each step keeps the guard invariant.
LEMMA StepKeepsGuard == GuardInv /\ [Next]_vars => GuardInv'
<1> SUFFICES ASSUME GuardInv, [Next]_vars PROVE GuardInv'
  OBVIOUS
<1> USE DEF GuardInv, settings, choice, session, Move
<1>1. CASE NetStep
  BY <1>1 DEF NetStep, ArmDst, Arm, Disarm, DisarmPending, DisarmStop, Fits
<1>2. CASE SnapDst
  BY <1>2 DEF SnapDst
<1>3. ASSUME NEW hits \in SUBSET Hits, Pick(hits) PROVE GuardInv'
  <2>1. best' = Nothing \/ (best' \in Hits /\ Eligible(best', snap))
    BY <1>3, PickIsEligible
  <2> QED
    BY <1>3, <2>1 DEF Pick
<1>4. CASE Store
  <2>1. Fits(pending')
    BY <1>4, NothingElse DEF Store, Fits, Targeted
  <2> QED
    BY <1>4, <2>1 DEF Store
<1>5. CASE PollStep
  BY <1>5 DEF PollStep, Poll, PollNothing, CycleAborts, Fits
<1>6. CASE Admit \/ ClearStop \/ FreeDevice \/ Open \/ OpenFails
  BY <1>6 DEF Admit, ClearStop, FreeDevice, Open, OpenFails
<1>7. CASE StopCheck \/ WriteBlock \/ BlockFails
  BY <1>7 DEF StopCheck, WriteBlock, BlockFails
<1>8. CASE Close \/ FinalReset \/ FinalClear
  BY <1>8 DEF Close, FinalReset, FinalClear, Fits
<1>9. CASE Environment
  BY <1>9 DEF Environment, ManualArrives, ManualLeaves, Expire
<1>10. CASE UNCHANGED vars
  BY <1>10 DEF vars
<1> QED
  BY <1>1, <1>2, <1>3, <1>4, <1>5, <1>6, <1>7, <1>8, <1>9, <1>10
  DEF Next, ControllerStep, UpdateStep, SessionStep

\* Each step keeps the types of the flags and program counters, and the radio
\* inside the session.
LEMMA StepKeepsTypes ==
  FlagTypes /\ ControlTypes /\ InSessionOnly /\ [Next]_vars
    => FlagTypes' /\ ControlTypes' /\ InSessionOnly'
<1> SUFFICES ASSUME FlagTypes, ControlTypes, InSessionOnly, [Next]_vars
             PROVE  FlagTypes' /\ ControlTypes' /\ InSessionOnly'
  OBVIOUS
<1> USE DEF FlagTypes, ControlTypes, InSessionOnly, settings, choice, session,
        Move
<1>1. CASE NetStep
  BY <1>1 DEF NetStep, ArmDst, Arm, Disarm, DisarmPending, DisarmStop,
              DisarmedWhile
<1>2. CASE SnapDst \/ Store
  BY <1>2 DEF SnapDst, Store
<1>3. ASSUME NEW hits \in SUBSET Hits, Pick(hits)
      PROVE  FlagTypes' /\ ControlTypes' /\ InSessionOnly'
  BY <1>3 DEF Pick
<1>4. CASE PollStep
  BY <1>4 DEF PollStep, Poll, PollNothing, CycleAborts
<1>5. CASE Admit \/ ClearStop \/ FreeDevice \/ Open \/ OpenFails
  BY <1>5 DEF Admit, ClearStop, FreeDevice, Open, OpenFails
<1>6. CASE StopCheck \/ WriteBlock \/ BlockFails
  BY <1>6 DEF StopCheck, WriteBlock, BlockFails
<1>7. CASE Close \/ FinalReset \/ FinalClear
  BY <1>7 DEF Close, FinalReset, FinalClear
<1>8. CASE Environment
  BY <1>8 DEF Environment, ManualArrives, ManualLeaves, Expire
<1>9. CASE UNCHANGED vars
  BY <1>9 DEF vars
<1> QED
  BY <1>1, <1>2, <1>3, <1>4, <1>5, <1>6, <1>7, <1>8, <1>9
  DEF Next, ControllerStep, UpdateStep, SessionStep

\* Each step keeps the late-block invariant.
LEMMA StepKeepsLate ==
  LateInv /\ ControlTypes /\ [Next]_vars => LateInv'
<1> SUFFICES ASSUME LateInv, ControlTypes, [Next]_vars PROVE LateInv'
  OBVIOUS
<1> USE DEF LateInv, ControlTypes, settings, choice, session, Move
<1>1. CASE ArmDst \/ Arm \/ Disarm \/ DisarmPending
  BY <1>1 DEF ArmDst, Arm, Disarm, DisarmPending
<1>2. CASE DisarmStop
  BY <1>2 DEF DisarmStop, DisarmedWhile
<1>3. CASE SnapDst \/ Store
  BY <1>3 DEF SnapDst, Store
<1>4. ASSUME NEW hits \in SUBSET Hits, Pick(hits) PROVE LateInv'
  BY <1>4 DEF Pick
<1>5. CASE PollStep
  BY <1>5 DEF PollStep, Poll, PollNothing, CycleAborts
<1>6. CASE Admit \/ ClearStop \/ FreeDevice \/ Open \/ OpenFails
  BY <1>6 DEF Admit, ClearStop, FreeDevice, Open, OpenFails
<1>7. CASE StopCheck \/ BlockFails
  BY <1>7 DEF StopCheck, BlockFails
<1>8. CASE WriteBlock
  BY <1>8 DEF WriteBlock, Min2
<1>9. CASE Close \/ FinalReset \/ FinalClear
  BY <1>9 DEF Close, FinalReset, FinalClear
<1>10. CASE Environment
  BY <1>10 DEF Environment, ManualArrives, ManualLeaves, Expire
<1>11. CASE UNCHANGED vars
  BY <1>11 DEF vars
<1> QED
  BY <1>1, <1>2, <1>3, <1>4, <1>5, <1>6, <1>7, <1>8, <1>9, <1>10, <1>11
  DEF Next, ControllerStep, NetStep, UpdateStep, SessionStep

\* The invariant holds in every reachable state.
LEMMA Inductive == Spec => []IInv
<1>1. IInv /\ [Next]_vars => IInv'
  BY StepKeepsGuard, StepKeepsTypes, StepKeepsLate DEF IInv
<1> QED
  BY <1>1, InitIInv, PTL DEF Spec

-----------------------------------------------------------------------------
\* Every variable keeps to its range.
THEOREM TypeCorrect == Spec => []TypeOK
<1>1. IInv => TypeOK
  BY DEF IInv, GuardInv, Fits, LateInv, FlagTypes, ControlTypes, TypeOK
<1> QED
  BY <1>1, Inductive, PTL

\* The relay never transmits within the guard of the source it listens to, nor
\* from a source its settings exclude, whenever the operator changes the target,
\* and it does so only in the session of that source and target.
THEOREM GuardIsHeld == Spec => []GuardHeld
<1>1. IInv => GuardHeld
  BY DEF IInv, GuardInv, Fits, InSessionOnly, GuardHeld
<1> QED
  BY <1>1, Inductive, PTL

\* After a disarm, and while a manual command waits, one block at most is sent.
THEOREM OneLateBlock == Spec => []AtMostOneLateBlock
<1>1. IInv => AtMostOneLateBlock
  BY DEF IInv, LateInv, AtMostOneLateBlock
<1> QED
  BY <1>1, Inductive, PTL
=============================================================================
