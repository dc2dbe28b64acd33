------------------------ MODULE MCRelayController ------------------------
(* RelayController for TLC: two targets within the guard of different      *)
(* sources, a weak source and one in a band that is not allowed.           *)
EXTENDS RelayController

MCHits == {[band |-> "5.8G", src |-> 10, snr |-> 20],
           [band |-> "5.8G", src |-> 18, snr |-> 15],
           [band |-> "3.3G", src |-> 30, snr |-> 25],
           [band |-> "5.8G", src |-> 15, snr |-> 5]}
MCSrcBands == {"5.8G"}
MCDsts == {12, 16}
=============================================================================
