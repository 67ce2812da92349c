---------------------------- MODULE MC_SmallLabs ----------------------------
(* The instance small_labs.cfg: three lines each, so that there are a first, *)
(* a middle and a last round; three threads and blocks of four terms, which  *)
(* three does not divide; semaphores up to two, which three parts exceed; a  *)
(* list of three cells with one put and two gets, so that copies overlap.    *)
EXTENDS SmallLabs, TLC
=============================================================================
