--------------------------- MODULE SessionService ---------------------------
(***************************************************************************)
(* What a session controller of the scan agent promises its operator: the  *)
(* newest start waits, a stop cancels what waits, the scan thread serves   *)
(* one request at a time and each accepted request at most once.  Threads, *)
(* flags, devices and deadlines are left to the controllers that implement *)
(* it (ViewController, TxController).                                      *)
(***************************************************************************)
EXTENDS Naturals

None == 0

VARIABLES
  accepted,   \* how many start commands were accepted: start i is request i
  waiting,    \* the request that waits for the scan thread, or None
  serving     \* the request in session, or None

vars == <<accepted, waiting, serving>>

Init == accepted = 0 /\ waiting = None /\ serving = None

\* A start replaces whatever waits.
Start ==
  /\ accepted' = accepted + 1
  /\ waiting' = accepted'
  /\ UNCHANGED serving

\* A stop cancels what waits; the session in progress ends in its own time.
Stop == waiting' = None /\ UNCHANGED <<accepted, serving>>

\* The waiting request gets the session, from idle or in place of another.
Begin ==
  /\ waiting # None
  /\ serving' = waiting
  /\ waiting' = None
  /\ UNCHANGED accepted

End == serving # None /\ serving' = None /\ UNCHANGED <<accepted, waiting>>

Next == Start \/ Stop \/ Begin \/ End

Spec == Init /\ [][Next]_vars

\* Nobody waits for ever, and no session lasts for ever.
FairSpec == Spec /\ WF_vars(Begin) /\ WF_vars(End)
=============================================================================
