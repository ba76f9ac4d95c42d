------------------------------- MODULE MCFraming -------------------------------
(***************************************************************************)
(* Framing for TLC.  Once the connection has torn, what was sent still      *)
(* arrives and is read, and nothing more is sent.                          *)
(***************************************************************************)
EXTENDS Framing

MCNext ==
    /\ Next
    /\ torn => Len(stream') <= Len(stream)
MCSpec == Init /\ [][MCNext]_vars
MCFairSpec == MCSpec /\ Fairness
=============================================================================
