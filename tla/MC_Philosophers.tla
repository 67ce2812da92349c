-------------------------- MODULE MC_Philosophers ---------------------------
(* The instances phil_*.cfg: no symmetry, the philosophers are numbers. *)
EXTENDS Philosophers, TLC
=============================================================================
