------------------------------ MODULE PiThreads -----------------------------
(* lab8: threads add up the terms of a series for pi, block after block,     *)
(* until SIGINT; then those behind catch up with the one that is furthest,   *)
(* so that all stop after the same block.  lab7 has one block only, as if it *)
(* were told to stop before it begins.                                       *)
EXTENDS Naturals, Integers

CONSTANTS countOfThreads, num_global_iteration,
          MaxIteration      \* bound: the number of blocks

VARIABLES stopCalculating, maxGlobalIteration,
          currentGlobalIteration,     \* of each thread
          partOfPi,         \* of each thread: the indices of the terms it has added
          thread,           \* of each thread: where it is
          created, joined   \* main: the indices of its two loops

vars == <<stopCalculating, maxGlobalIteration, currentGlobalIteration, partOfPi, thread,
          created, joined>>

Threads == 0..(countOfThreads - 1)

InitOf(stopped) ==
    /\ stopCalculating = stopped /\ maxGlobalIteration = 0
    /\ currentGlobalIteration = [t \in Threads |-> 0]
    /\ partOfPi = [t \in Threads |-> {}]
    /\ thread = [t \in Threads |-> "none"]
    /\ created = 0 /\ joined = 0
Init == InitOf(FALSE)

(* lab7 *)
InitSteps == InitOf(TRUE)

pthread_create ==
    /\ created < countOfThreads
    /\ thread' = [thread EXCEPT ![created] = "sum"]
    /\ created' = created + 1
    /\ UNCHANGED <<stopCalculating, maxGlobalIteration, currentGlobalIteration, partOfPi,
                   joined>>

(* The indices i = rank + first, + countOfThreads, ... below the block's end. *)
Terms(rank, block) ==
    {i \in (block * num_global_iteration)..((block + 1) * num_global_iteration - 1) :
        /\ i >= block * num_global_iteration + rank
        /\ (i - block * num_global_iteration - rank) % countOfThreads = 0}

Sum(t) ==
    /\ thread[t] = "sum"
    /\ partOfPi' = [partOfPi EXCEPT ![t] = @ \cup Terms(t, currentGlobalIteration[t])]
    /\ thread' = [thread EXCEPT ![t] = "lock"]
    /\ UNCHANGED <<stopCalculating, maxGlobalIteration, currentGlobalIteration, created,
                   joined>>

(* Mutant: stop at once. *)
MayStopAnywhere(t) == stopCalculating

MayStop(t) == stopCalculating /\ currentGlobalIteration[t] = maxGlobalIteration

(* Under the mutex: stop, or go on to the next block. *)
Stop(t) ==
    /\ thread[t] = "lock"
    /\ MayStop(t)
    /\ thread' = [thread EXCEPT ![t] = "done"]
    /\ UNCHANGED <<stopCalculating, maxGlobalIteration, currentGlobalIteration, partOfPi,
                   created, joined>>

GoOn(t) ==
    /\ thread[t] = "lock"
    /\ ~MayStop(t)
    /\ currentGlobalIteration[t] < MaxIteration
    /\ currentGlobalIteration' = [currentGlobalIteration EXCEPT ![t] = @ + 1]
    /\ maxGlobalIteration' = IF currentGlobalIteration[t] + 1 > maxGlobalIteration
                             THEN currentGlobalIteration[t] + 1 ELSE maxGlobalIteration
    /\ thread' = [thread EXCEPT ![t] = "sum"]
    /\ UNCHANGED <<stopCalculating, partOfPi, created, joined>>

pthread_join ==
    /\ created = countOfThreads /\ joined < countOfThreads
    /\ thread[joined] = "done"
    /\ joined' = joined + 1
    /\ UNCHANGED <<stopCalculating, maxGlobalIteration, currentGlobalIteration, partOfPi,
                   thread, created>>

(* SIGINT, whenever it comes. *)
stopCalculateParts ==
    /\ ~stopCalculating
    /\ stopCalculating' = TRUE
    /\ UNCHANGED <<maxGlobalIteration, currentGlobalIteration, partOfPi, thread, created,
                   joined>>

calculatePartOfPi(t) == Sum(t) \/ Stop(t) \/ GoOn(t)
main == pthread_create \/ pthread_join
Next == main \/ stopCalculateParts \/ \E t \in Threads : calculatePartOfPi(t)

Spec == Init /\ [][Next]_vars

AllJoined == joined = countOfThreads

-----------------------------------------------------------------------------
(* Counters and places are what they may be; nobody is ahead of the furthest. *)
TypeOK ==
    /\ stopCalculating \in BOOLEAN /\ maxGlobalIteration \in Nat
    /\ currentGlobalIteration \in [Threads -> Nat]
    /\ thread \in [Threads -> {"none", "sum", "lock", "done"}]
    /\ created \in Int /\ joined \in Int

(* All threads stop at the same iteration, and nobody goes on beyond it.     *)
SameIteration ==
    \A t, u \in Threads :
        thread[t] = "done" => /\ currentGlobalIteration[u] <= currentGlobalIteration[t]
                              /\ thread[u] = "done" =>
                                    currentGlobalIteration[u] = currentGlobalIteration[t]

(* What main adds up is a partial sum of the series: every term up to the    *)
(* end of the last block, each by one thread, and no other.                  *)
PiIsPartialSum ==
    AllJoined =>
       LET last == (maxGlobalIteration + 1) * num_global_iteration - 1 IN
       /\ \A i \in 0..last : \E t \in Threads :
             i \in partOfPi[t] /\ \A u \in Threads \ {t} : i \notin partOfPi[u]
       /\ \A t \in Threads : partOfPi[t] \subseteq 0..last
=============================================================================
