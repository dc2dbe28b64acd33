---------------------------- MODULE MCScanAgent ----------------------------
(* ScanAgent for TLC.                                                         *)
EXTENDS ScanAgent
=============================================================================
