--------------------------- MODULE MC_MsgQueueSem ---------------------------
EXTENDS MsgQueueSem, TLC
Symmetry == Permutations(Producers) \cup Permutations(Consumers)
            \cup Permutations(Nodes) \cup Permutations(Messages)
=============================================================================
