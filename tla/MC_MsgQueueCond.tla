--------------------------- MODULE MC_MsgQueueCond --------------------------
(* The instances cond_*.cfg: main may be asked for one or for two producers  *)
(* and consumers.                                                            *)
EXTENDS MsgQueueCond, TLC
=============================================================================
