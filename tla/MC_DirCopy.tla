----------------------------- MODULE MC_DirCopy -----------------------------
(* The instances dir_*.cfg. *)
EXTENDS DirCopy, TLC
=============================================================================
