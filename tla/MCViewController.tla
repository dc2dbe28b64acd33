-------------------------- MODULE MCViewController --------------------------
(* ViewController for TLC: three starts and two stops, so that a start can be *)
(* replaced, cancelled, lost in a window and retried after an error.          *)
EXTENDS ViewController
=============================================================================
