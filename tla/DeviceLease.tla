---------------------------- MODULE DeviceLease ----------------------------
(***************************************************************************)
(* What the scan agent's process owes the one SDR on its USB port: at most *)
(* one handle at a time, never a second open on top of it, and, once no    *)
(* open can succeed any more in this process, an exit with every handle    *)
(* closed, so that systemd starts a clean one.                             *)
(***************************************************************************)
CONSTANT Users   \* the modes that open the device

VARIABLES
  held,     \* who holds an open handle
  broken,   \* a USB reset or a leaked handle: no open succeeds any more
  exited    \* the process has exited

vars == <<held, broken, exited>>

Init == held = {} /\ broken = FALSE /\ exited = FALSE

Acquire(u) ==
  /\ ~exited /\ ~broken /\ held = {}
  /\ held' = {u}
  /\ UNCHANGED <<broken, exited>>

\* A release, or a close that is followed by a failed reopen (which may break).
Release ==
  /\ ~exited /\ held # {} /\ held' = {}
  /\ broken' \in {broken, TRUE}
  /\ UNCHANGED exited

Break ==
  /\ ~exited /\ ~broken /\ broken' = TRUE
  /\ UNCHANGED <<held, exited>>

Exit ==
  /\ ~exited /\ held = {} /\ exited' = TRUE
  /\ UNCHANGED <<held, broken>>

Next == (\E u \in Users : Acquire(u)) \/ Release \/ Break \/ Exit

Spec == Init /\ [][Next]_vars

\* A broken device is given up, and so is the process.
Recovery == WF_vars(broken /\ Release) /\ WF_vars(broken /\ Exit)

FairSpec == Spec /\ Recovery
=============================================================================
