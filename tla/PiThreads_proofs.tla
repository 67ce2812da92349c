--------------------------- MODULE PiThreads_proofs -------------------------
(* lab8: whatever the number of threads and the size of the blocks, all      *)
(* threads stop at the same iteration, and what they have summed up is a     *)
(* partial sum of the series.                                                *)
EXTENDS PiThreads, TLAPS

(* Nobody is beyond the recorded maximum; and whoever has stopped was told   *)
(* to and stands at it, so that the others, level with it, stop as well and  *)
(* the maximum moves no more.                                                *)
Level ==
    /\ \A t \in Threads : currentGlobalIteration[t] <= maxGlobalIteration
    /\ \A t \in Threads :
          thread[t] = "done" =>
             stopCalculating /\ currentGlobalIteration[t] = maxGlobalIteration

IInv == TypeOK /\ Level

(* The program starts with every counter at zero. *)
LEMMA Initially == Init => IInv
<1> SUFFICES ASSUME Init PROVE IInv
  OBVIOUS
<1>1. TypeOK
  <2>1. stopCalculating \in BOOLEAN /\ maxGlobalIteration \in Nat
    BY DEF Init, InitOf
  <2>2. currentGlobalIteration \in [Threads -> Nat]
    BY DEF Init, InitOf
  <2>3. thread \in [Threads -> {"none", "sum", "lock", "done"}]
    BY DEF Init, InitOf
  <2>4. created \in Int /\ joined \in Int
    BY DEF Init, InitOf
  <2> QED
    BY <2>1, <2>2, <2>3, <2>4 DEF TypeOK
<1>2. \A t \in Threads : thread[t] = "none" /\ currentGlobalIteration[t] = 0
  BY DEF Init, InitOf
<1>3. maxGlobalIteration = 0
  BY DEF Init, InitOf
<1> QED
  BY <1>1, <1>2, <1>3 DEF IInv, Level

(* Creating a thread stops none: one that is created is about to sum. *)
LEMMA CreateKeeps == IInv /\ pthread_create => IInv'
<1> SUFFICES ASSUME IInv, pthread_create PROVE IInv'
  OBVIOUS
<1>1. TypeOK'
  <2>1. thread' \in [Threads -> {"none", "sum", "lock", "done"}]
    BY DEF IInv, TypeOK, pthread_create
  <2>2. created' \in Int
    BY DEF IInv, TypeOK, pthread_create
  <2> QED
    BY <2>1, <2>2 DEF IInv, TypeOK, pthread_create
<1>2. \A t \in Threads : thread'[t] = "done" => thread[t] = "done"
  BY DEF IInv, TypeOK, pthread_create
<1>3. Level'
  BY <1>2 DEF IInv, Level, pthread_create
<1> QED
  BY <1>1, <1>3 DEF IInv

(* Summing a block moves no counter. *)
LEMMA SumKeeps == ASSUME NEW t \in Threads, IInv, Sum(t) PROVE IInv'
<1>1. TypeOK'
  BY DEF IInv, TypeOK, Sum
<1>2. \A u \in Threads : thread'[u] = "done" => thread[u] = "done"
  BY DEF IInv, TypeOK, Sum
<1>3. Level'
  BY <1>2 DEF IInv, Level, Sum
<1> QED
  BY <1>1, <1>3 DEF IInv

(* A thread that stops is level with the furthest. *)
LEMMA StopKeeps == ASSUME NEW t \in Threads, IInv, Stop(t) PROVE IInv'
<1>1. TypeOK'
  BY DEF IInv, TypeOK, Stop
<1>2. Level'
  <2> SUFFICES ASSUME NEW u \in Threads, thread'[u] = "done"
               PROVE  stopCalculating /\ currentGlobalIteration[u] = maxGlobalIteration
    BY DEF IInv, Level, Stop
  <2>1. CASE u = t
    BY <2>1 DEF Stop, MayStop
  <2>2. CASE u # t
    BY <2>2 DEF IInv, TypeOK, Level, Stop
  <2> QED
    BY <2>1, <2>2
<1> QED
  BY <1>1, <1>2 DEF IInv

(* A thread that goes on pushes the maximum only while nobody has stopped.   *)
LEMMA GoOnKeeps == ASSUME NEW t \in Threads, IInv, GoOn(t) PROVE IInv'
<1>1. /\ currentGlobalIteration[t] \in Nat /\ maxGlobalIteration \in Nat
      /\ currentGlobalIteration[t] <= maxGlobalIteration
  BY DEF IInv, TypeOK, Level
<1>2. TypeOK'
  BY <1>1 DEF IInv, TypeOK, GoOn
<1>3. maxGlobalIteration <= maxGlobalIteration' /\ maxGlobalIteration' \in Nat
  BY <1>1 DEF GoOn
<1>4. \A u \in Threads : currentGlobalIteration'[u] <= maxGlobalIteration'
  <2> SUFFICES ASSUME NEW u \in Threads
               PROVE  currentGlobalIteration'[u] <= maxGlobalIteration'
    OBVIOUS
  <2>1. CASE u = t
    BY <2>1, <1>1 DEF IInv, TypeOK, GoOn
  <2>2. CASE u # t
    <3>1. currentGlobalIteration'[u] = currentGlobalIteration[u]
      BY <2>2 DEF IInv, TypeOK, GoOn
    <3>2. currentGlobalIteration[u] <= maxGlobalIteration /\ currentGlobalIteration[u] \in Nat
      BY DEF IInv, TypeOK, Level
    <3> QED
      BY <3>1, <3>2, <1>1, <1>3
  <2> QED
    BY <2>1, <2>2
<1>5. ASSUME NEW u \in Threads, thread'[u] = "done"
      PROVE  /\ stopCalculating'
             /\ currentGlobalIteration'[u] = maxGlobalIteration'
  <2>1. u # t /\ thread[u] = "done"
    BY <1>5 DEF IInv, TypeOK, GoOn
  <2>2. stopCalculating /\ currentGlobalIteration[u] = maxGlobalIteration
    BY <2>1 DEF IInv, Level
  <2>3. currentGlobalIteration[t] # maxGlobalIteration
    BY <2>2 DEF GoOn, MayStop
  <2>4. maxGlobalIteration' = maxGlobalIteration
    BY <2>3, <1>1 DEF GoOn
  <2>5. currentGlobalIteration'[u] = currentGlobalIteration[u]
    BY <2>1 DEF IInv, TypeOK, GoOn
  <2>6. stopCalculating'
    BY <2>2 DEF GoOn
  <2> QED
    BY <2>2, <2>4, <2>5, <2>6
<1> QED
  BY <1>2, <1>4, <1>5 DEF IInv, Level

(* Joining and the signal touch no counter. *)
LEMMA OthersKeep == IInv /\ (pthread_join \/ stopCalculateParts \/ UNCHANGED vars) => IInv'
<1>1. ASSUME IInv, pthread_join PROVE IInv'
  BY <1>1 DEF IInv, TypeOK, Level, pthread_join
<1>2. ASSUME IInv, stopCalculateParts PROVE IInv'
  BY <1>2 DEF IInv, TypeOK, Level, stopCalculateParts
<1>3. ASSUME IInv, UNCHANGED vars PROVE IInv'
  BY <1>3 DEF IInv, TypeOK, Level, vars
<1> QED
  BY <1>1, <1>2, <1>3

LEMMA StepKeeps == IInv /\ [Next]_vars => IInv'
<1> SUFFICES ASSUME IInv, [Next]_vars PROVE IInv'
  OBVIOUS
<1>1. CASE pthread_create
  BY <1>1, CreateKeeps
<1>2. ASSUME NEW t \in Threads, calculatePartOfPi(t) PROVE IInv'
  BY <1>2, SumKeeps, StopKeeps, GoOnKeeps DEF calculatePartOfPi
<1>3. CASE pthread_join \/ stopCalculateParts \/ UNCHANGED vars
  BY <1>3, OthersKeep
<1> QED
  BY <1>1, <1>2, <1>3 DEF Next, main

(* The invariant holds in every state of lab8, for any number of threads,    *)
(* any block size and any bound on the number of blocks.                     *)
THEOREM Invariance == Spec => []IInv
BY Initially, StepKeeps, PTL DEF Spec

(* lab8.c:32: when one thread has stopped nobody is beyond it, and all that  *)
(* have stopped did so at the same iteration.                                *)
THEOREM StopTogether == Spec => []SameIteration
<1>1. IInv => SameIteration
  BY DEF IInv, Level, SameIteration
<1> QED
  BY <1>1, Invariance, PTL

-----------------------------------------------------------------------------
(* What the threads have added *)

(* The terms of the first n blocks that are a thread's own.                 *)
Blocks(t, n) == {i \in Int : \E b \in 0..(n - 1) : i \in Terms(t, b)}
Summed(t) ==
    IF thread[t] \in {"lock", "done"} THEN currentGlobalIteration[t] + 1
    ELSE currentGlobalIteration[t]

(* Threads are created in the order of their ranks, and joined in it.       *)
InOrder ==
    /\ created \in Nat /\ joined \in Nat /\ joined <= countOfThreads
    /\ \A t \in Threads : t >= created => thread[t] = "none"
    /\ \A t \in Threads : t < joined => thread[t] = "done"

SumInv ==
    /\ partOfPi \in [Threads -> SUBSET Int]
    /\ \A t \in Threads : partOfPi[t] = Blocks(t, Summed(t))
    /\ InOrder

Sizes == countOfThreads \in Nat \ {0} /\ num_global_iteration \in Nat \ {0}

LEMMA TermsAreInts ==
  ASSUME Sizes, NEW t \in Int, NEW b \in Int
  PROVE  Terms(t, b) \in SUBSET Int
BY DEF Sizes, Terms

LEMMA NextBlock ==
  ASSUME Sizes, NEW t \in Int, NEW n \in Nat
  PROVE  Blocks(t, n + 1) = Blocks(t, n) \cup Terms(t, n)
<1>1. 0..((n + 1) - 1) = 0..(n - 1) \cup {n}
  OBVIOUS
<1>2. Terms(t, n) \in SUBSET Int
  BY TermsAreInts
<1> QED
  BY <1>1, <1>2 DEF Blocks

LEMMA SumInitially == Sizes /\ (Init \/ InitSteps) => IInv /\ SumInv
<1> SUFFICES ASSUME Sizes, NEW stopped \in BOOLEAN, InitOf(stopped) PROVE IInv /\ SumInv
  BY DEF Init, InitSteps
<1>1. /\ stopCalculating = stopped /\ maxGlobalIteration = 0
      /\ currentGlobalIteration = [t \in Threads |-> 0]
      /\ partOfPi = [t \in Threads |-> {}]
      /\ thread = [t \in Threads |-> "none"]
      /\ created = 0 /\ joined = 0
  BY DEF InitOf
<1>2. TypeOK
  <2>1. currentGlobalIteration \in [Threads -> Nat]
    BY <1>1
  <2>2. thread \in [Threads -> {"none", "sum", "lock", "done"}]
    BY <1>1
  <2>3. stopCalculating \in BOOLEAN
    BY <1>1
  <2> QED
    BY <1>1, <2>1, <2>2, <2>3 DEF TypeOK
<1>3. Level
  BY <1>1 DEF Level
<1>4. InOrder
  BY <1>1 DEF InOrder, Sizes, Threads
<1>5. \A t \in Threads : Blocks(t, 0) = {} /\ Summed(t) = 0
  BY <1>1 DEF Blocks, Summed
<1>6. SumInv
  BY <1>1, <1>4, <1>5 DEF SumInv
<1> QED
  BY <1>2, <1>3, <1>6 DEF IInv

(* A step in which nobody adds terms or has more to show for them.          *)
LEMMA NothingAdded ==
  ASSUME SumInv, partOfPi' = partOfPi, \A t \in Threads : Summed(t)' = Summed(t), InOrder'
  PROVE  SumInv'
<1>1. \A t \in Threads : Blocks(t, Summed(t))' = Blocks(t, Summed(t))
  BY DEF Blocks
<1> QED
  BY <1>1 DEF SumInv

LEMMA SumCreate == Sizes /\ IInv /\ SumInv /\ pthread_create => SumInv'
<1> SUFFICES ASSUME Sizes, IInv, SumInv, pthread_create PROVE SumInv'
  OBVIOUS
<1>1. /\ created < countOfThreads /\ thread' = [thread EXCEPT ![created] = "sum"]
      /\ created' = created + 1 /\ partOfPi' = partOfPi /\ joined' = joined
      /\ currentGlobalIteration' = currentGlobalIteration
  BY DEF pthread_create
<1>2. created \in Threads
  BY <1>1 DEF SumInv, InOrder, Sizes, Threads
<1>3. \A t \in Threads : thread'[t] = IF t = created THEN "sum" ELSE thread[t]
  BY <1>1 DEF IInv, TypeOK
<1>4. thread[created] = "none"
  BY <1>2 DEF SumInv, InOrder, Threads
<1>5. \A t \in Threads : Summed(t)' = Summed(t)
  BY <1>1, <1>3, <1>4 DEF Summed
<1>6. InOrder'
  BY <1>1, <1>3, <1>4 DEF SumInv, InOrder, Threads, Sizes
<1> QED
  BY <1>1, <1>5, <1>6, NothingAdded

LEMMA SumSums == ASSUME Sizes, IInv, SumInv, NEW t \in Threads, Sum(t) PROVE SumInv'
<1>1. /\ thread[t] = "sum" /\ thread' = [thread EXCEPT ![t] = "lock"]
      /\ created' = created /\ joined' = joined
      /\ currentGlobalIteration' = currentGlobalIteration
      /\ partOfPi' = [partOfPi EXCEPT
                         ![t] = partOfPi[t] \cup Terms(t, currentGlobalIteration[t])]
  BY DEF Sum
<1>2. t \in Int /\ currentGlobalIteration[t] \in Nat
  BY DEF IInv, TypeOK, Threads, Sizes
<1>3. \A u \in Threads : thread'[u] = IF u = t THEN "lock" ELSE thread[u]
  BY <1>1 DEF IInv, TypeOK
<1>4. \A u \in Threads :
         Summed(u)' = IF u = t THEN currentGlobalIteration[t] + 1 ELSE Summed(u)
  BY <1>1, <1>3 DEF Summed
<1>5. Terms(t, currentGlobalIteration[t]) \in SUBSET Int
  BY <1>2, TermsAreInts
<1>6. partOfPi' \in [Threads -> SUBSET Int]
  BY <1>1, <1>5 DEF SumInv
<1>7. ASSUME NEW u \in Threads PROVE partOfPi'[u] = Blocks(u, Summed(u)')
  <2>1. CASE u = t
    <3>1. partOfPi[t] = Blocks(t, currentGlobalIteration[t])
      BY <1>1 DEF SumInv, Summed
    <3>2. partOfPi'[t] = Blocks(t, currentGlobalIteration[t] + 1)
      BY <1>1, <1>2, <3>1, NextBlock DEF SumInv
    <3> QED
      BY <1>4, <2>1, <3>2
  <2>2. CASE u # t
    <3>1. partOfPi'[u] = partOfPi[u] /\ Summed(u)' = Summed(u)
      BY <1>1, <1>4, <2>2 DEF SumInv
    <3> QED
      BY <3>1 DEF SumInv
  <2> QED
    BY <2>1, <2>2
<1>8. \A u \in Threads : Blocks(u, Summed(u))' = Blocks(u, Summed(u)')
  BY DEF Blocks, Terms
<1>9. InOrder'
  BY <1>1, <1>3 DEF SumInv, InOrder
<1> QED
  BY <1>6, <1>7, <1>8, <1>9 DEF SumInv

LEMMA SumOthers ==
  ASSUME Sizes, IInv, SumInv,
         \/ \E t \in Threads : Stop(t) \/ GoOn(t)
         \/ pthread_join \/ stopCalculateParts \/ UNCHANGED vars
  PROVE  SumInv'
<1>1. ASSUME NEW t \in Threads, Stop(t) PROVE SumInv'
  <2>1. \A u \in Threads : thread'[u] = IF u = t THEN "done" ELSE thread[u]
    BY <1>1 DEF IInv, TypeOK, Stop
  <2>2. \A u \in Threads : Summed(u)' = Summed(u)
    BY <1>1, <2>1 DEF Summed, Stop
  <2>3. InOrder'
    BY <1>1, <2>1 DEF SumInv, InOrder, Stop
  <2> QED
    BY <1>1, <2>2, <2>3, NothingAdded DEF Stop
<1>2. ASSUME NEW t \in Threads, GoOn(t) PROVE SumInv'
  <2>1. /\ \A u \in Threads : thread'[u] = IF u = t THEN "sum" ELSE thread[u]
        /\ \A u \in Threads : currentGlobalIteration'[u] =
              IF u = t THEN currentGlobalIteration[t] + 1 ELSE currentGlobalIteration[u]
    BY <1>2 DEF IInv, TypeOK, GoOn
  <2>2. \A u \in Threads : Summed(u)' = Summed(u)
    BY <1>2, <2>1 DEF Summed, GoOn
  <2>3. InOrder'
    BY <1>2, <2>1 DEF SumInv, InOrder, GoOn
  <2> QED
    BY <1>2, <2>2, <2>3, NothingAdded DEF GoOn
<1>3. CASE pthread_join
  <2>1. InOrder'
    BY <1>3 DEF SumInv, InOrder, pthread_join, Sizes, Threads
  <2>2. \A u \in Threads : Summed(u)' = Summed(u)
    BY <1>3 DEF Summed, pthread_join
  <2> QED
    BY <1>3, <2>1, <2>2, NothingAdded DEF pthread_join
<1>4. CASE stopCalculateParts \/ UNCHANGED vars
  <2>1. InOrder'
    BY <1>4 DEF SumInv, InOrder, stopCalculateParts, vars
  <2>2. \A u \in Threads : Summed(u)' = Summed(u)
    BY <1>4 DEF Summed, stopCalculateParts, vars
  <2> QED
    BY <1>4, <2>1, <2>2, NothingAdded DEF stopCalculateParts, vars
<1> QED
  BY <1>1, <1>2, <1>3, <1>4

LEMMA SumKept == Sizes /\ IInv /\ SumInv /\ [Next]_vars => SumInv'
BY SumCreate, SumSums, SumOthers DEF Next, main, calculatePartOfPi

-----------------------------------------------------------------------------
(* The blocks cover the terms, and the ranks share out each block.          *)

LEMMA Division ==
  ASSUME NEW i \in Nat, NEW n \in Nat \ {0}
  PROVE  i \div n \in Nat /\ i % n \in 0..(n - 1) /\ i = (i \div n) * n + (i % n)
OBVIOUS

LEMMA Multiple ==
  ASSUME NEW x \in Int, NEW n \in Nat \ {0}
  PROVE  /\ x % n = 0 => x \div n \in Int /\ x = n * (x \div n)
         /\ \A q \in Int : x = n * q => x % n = 0
<1>1. ASSUME x % n = 0 PROVE x \div n \in Int /\ x = n * (x \div n)
  BY <1>1
<1>2. ASSUME NEW q \in Int, x = n * q PROVE x % n = 0
  <2>1. (n * q) % n = 0
    OBVIOUS
  <2> QED
    BY <1>2, <2>1
<1> QED
  BY <1>1, <1>2

LEMMA TimesKeepsOrder ==
  ASSUME NEW a \in Int, NEW b \in Int, NEW n \in Nat, a <= b
  PROVE  a * n <= b * n
OBVIOUS

(* A term lies in one block, and there is one rank whose it is.             *)
LEMMA OneBlock ==
  ASSUME Sizes, NEW t \in Int, NEW u \in Int, NEW b \in Int, NEW c \in Int,
         NEW i \in Terms(t, b), i \in Terms(u, c)
  PROVE  b = c
<1> DEFINE n == num_global_iteration
<1>1. /\ n \in Nat \ {0} /\ i \in Int
      /\ b * n <= i /\ i <= (b + 1) * n - 1 /\ c * n <= i /\ i <= (c + 1) * n - 1
  BY DEF Terms, Sizes
<1>2. ASSUME NEW x \in Int, NEW y \in Int, x + 1 <= y, y * n <= i, i <= (x + 1) * n - 1
      PROVE  FALSE
  BY <1>1, <1>2, TimesKeepsOrder
<1> QED
  BY <1>1, <1>2

LEMMA OneRank ==
  ASSUME Sizes, NEW t \in Threads, NEW u \in Threads, NEW b \in Int,
         NEW i \in Terms(t, b), i \in Terms(u, b)
  PROVE  t = u
<1> DEFINE o == i - b * num_global_iteration
           n == countOfThreads
<1>1. /\ n \in Nat \ {0} /\ o \in Int /\ t \in 0..(n - 1) /\ u \in 0..(n - 1)
      /\ (o - t) % n = 0 /\ (o - u) % n = 0
  BY DEF Terms, Sizes, Threads
<1> HIDE DEF o, n
<1>2. PICK p \in Int, q \in Int : o - t = n * p /\ o - u = n * q
  BY <1>1, Multiple
<1>3. u - t = n * (p - q)
  BY <1>1, <1>2
<1>4. p - q = 0
  <2>1. CASE p - q >= 1
    <3>1. 1 * n <= (p - q) * n
      BY <1>1, <2>1, TimesKeepsOrder
    <3> QED
      BY <1>1, <1>3, <3>1
  <2>2. CASE p - q <= -1
    <3>1. (p - q) * n <= (-1) * n
      BY <1>1, <2>2, TimesKeepsOrder
    <3> QED
      BY <1>1, <1>3, <3>1
  <2> QED
    BY <2>1, <2>2
<1> QED
  BY <1>1, <1>3, <1>4

LEMMA SomeRank ==
  ASSUME Sizes, NEW m \in Nat, NEW i \in 0..((m + 1) * num_global_iteration - 1)
  PROVE  \E t \in Threads : i \in Blocks(t, m + 1)
<1> DEFINE n == num_global_iteration
           b == i \div n
           o == i % n
           t == o % countOfThreads
<1>1. n \in Nat \ {0} /\ countOfThreads \in Nat \ {0} /\ i \in Nat
  BY DEF Sizes
<1>2. b \in Nat /\ o \in 0..(n - 1) /\ i = b * n + o
  BY <1>1, Division
<1>3. /\ t \in 0..(countOfThreads - 1) /\ o \div countOfThreads \in Nat
      /\ o = (o \div countOfThreads) * countOfThreads + t
  <2>1. o \in Nat
    BY <1>1, <1>2
  <2> HIDE DEF o
  <2> QED
    BY <1>1, <2>1, Division
<1>4. b <= m
  <2>1. SUFFICES ASSUME m + 1 <= b PROVE FALSE
    BY <1>2
  <2>2. (m + 1) * n <= b * n
    BY <1>1, <1>2, <2>1, TimesKeepsOrder
  <2>3. i < (m + 1) * n
    BY <1>1
  <2> QED
    BY <1>1, <1>2, <2>2, <2>3
<1> DEFINE d == o \div countOfThreads
<1>5. d * countOfThreads >= 0 /\ o - t = countOfThreads * d
  BY <1>1, <1>3
<1>6. (o - t) % countOfThreads = 0
  <2>1. o - t \in Int /\ d \in Int
    BY <1>1, <1>2, <1>3
  <2> HIDE DEF o, t, d
  <2> QED
    BY <1>1, <1>5, <2>1, Multiple
<1> HIDE DEF b, t, d, o
<1>7. o >= t
  BY <1>1, <1>2, <1>3, <1>5
<1>8. i - b * n - t = o - t /\ i >= b * n + t
  BY <1>1, <1>2, <1>3, <1>7
<1>9. i \in (b * n)..((b + 1) * n - 1)
  BY <1>1, <1>2
<1>10. i \in Terms(t, b)
  BY <1>6, <1>8, <1>9 DEF Terms
<1>11. t \in Threads /\ i \in Int /\ b \in 0..((m + 1) - 1)
  BY <1>1, <1>2, <1>3, <1>4 DEF Threads
<1> QED
  BY <1>10, <1>11 DEF Blocks

(* When main has joined all threads, every term up to the end of the last   *)
(* block has been added once, and no other.                                  *)
LEMMA SumIsPartial == Sizes /\ IInv /\ SumInv => PiIsPartialSum
<1> SUFFICES ASSUME Sizes, IInv, SumInv, AllJoined PROVE PiIsPartialSum
  BY DEF PiIsPartialSum
<1> DEFINE m == maxGlobalIteration
           end == (m + 1) * num_global_iteration - 1
<1>1. m \in Nat /\ Threads \subseteq Int /\ num_global_iteration \in Nat \ {0}
  BY DEF IInv, TypeOK, Threads, Sizes
<1>2. \A t \in Threads : thread[t] = "done" /\ currentGlobalIteration[t] = m
  BY DEF SumInv, InOrder, AllJoined, Threads, IInv, Level, Sizes
<1>3. \A t \in Threads : partOfPi[t] = Blocks(t, m + 1)
  BY <1>2 DEF SumInv, Summed
<1>4. ASSUME NEW i \in 0..end
      PROVE  \E t \in Threads :
                i \in partOfPi[t] /\ \A u \in Threads \ {t} : i \notin partOfPi[u]
  <2>1. PICK t \in Threads : i \in Blocks(t, m + 1)
    BY <1>1, <1>4, SomeRank
  <2>2. PICK b \in 0..m : i \in Terms(t, b)
    BY <1>1, <2>1 DEF Blocks
  <2>3. ASSUME NEW u \in Threads, i \in Blocks(u, m + 1) PROVE u = t
    <3>1. PICK c \in 0..m : i \in Terms(u, c)
      BY <1>1, <2>3 DEF Blocks
    <3>2. b = c
      BY <1>1, <2>2, <3>1, OneBlock
    <3> QED
      BY <1>1, <2>2, <3>1, <3>2, OneRank
  <2> QED
    BY <1>3, <2>1, <2>3
<1>5. ASSUME NEW t \in Threads, NEW i \in partOfPi[t] PROVE i \in 0..end
  <2>1. PICK b \in 0..m : i \in Terms(t, b)
    BY <1>1, <1>3, <1>5 DEF Blocks
  <2>2. i \in (b * num_global_iteration)..((b + 1) * num_global_iteration - 1)
    BY <2>1 DEF Terms
  <2>3. /\ 0 * num_global_iteration <= b * num_global_iteration
        /\ (b + 1) * num_global_iteration <= (m + 1) * num_global_iteration
    BY <1>1, TimesKeepsOrder
  <2> QED
    BY <1>1, <2>2, <2>3
<1> QED
  BY <1>4, <1>5 DEF PiIsPartialSum

(* lab8.c: what main prints is a partial sum of the series.                  *)
THEOREM SumIsWhole ==
  ASSUME Sizes
  PROVE  Spec => []PiIsPartialSum
<1>1. Init => IInv /\ SumInv
  BY SumInitially
<1>2. IInv /\ SumInv /\ [Next]_vars => IInv' /\ SumInv'
  BY StepKeeps, SumKept
<1>3. IInv /\ SumInv => PiIsPartialSum
  BY SumIsPartial
<1> QED
  BY <1>1, <1>2, <1>3, PTL DEF Spec

=============================================================================
