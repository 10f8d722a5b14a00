------------------------------ MODULE MCFanout ------------------------------
(* Fanout for TLC.                                                          *)
EXTENDS Fanout
=============================================================================
