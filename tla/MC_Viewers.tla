------------------------------ MODULE MC_Viewers ----------------------------
(* The instances viewers.cfg and those of the two disagreements: a ring of   *)
(* three bytes, which is the smallest in which up can lie strictly between   *)
(* the ends of the array and below down.                                     *)
EXTENDS Viewers, TLC
=============================================================================
