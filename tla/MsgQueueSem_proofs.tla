------------------------- MODULE MsgQueueSem_proofs -------------------------
(***************************************************************************)
(* The safety of lab23's queue for any number of producers, consumers,     *)
(* messages and places: IInv is inductive, and the invariants that the     *)
(* runs check on a small instance follow from it; and the queue implements *)
(* the channel of MsgChannel.                                              *)
(***************************************************************************)
EXTENDS MsgQueueSem, FiniteSetTheorems, SequenceTheorems, TLAPS

(* The size of a finite set with and without one element. *)
LEMMA CardinalityWithout ==
  ASSUME NEW A, IsFiniteSet(A), NEW t
  PROVE  /\ Cardinality(A) \in Nat
         /\ Cardinality(A \ {t}) \in Nat
         /\ Cardinality(A) = Cardinality(A \ {t}) + (IF t \in A THEN 1 ELSE 0)
<1>1. Cardinality(A) \in Nat
  BY FS_CardinalityType
<1>2. IsFiniteSet(A \ {t})
  BY FS_RemoveElement
<1>3. Cardinality(A \ {t}) \in Nat
  BY <1>2, FS_CardinalityType
<1>4. Cardinality(A \ {t}) = IF t \in A THEN Cardinality(A) - 1 ELSE Cardinality(A)
  BY FS_RemoveElement
<1> QED BY <1>1, <1>3, <1>4

(* How the number of threads of S in the code `places' changes when thread *)
(* t moves to `to'.                                                        *)
Counted(S, places, t, to) ==
  /\ Cardinality(At(S, places)) \in Nat
  /\ Cardinality(At(S, places)') \in Nat
  /\ t \in S /\ pc[t] \in places => Cardinality(At(S, places)) > 0
  /\ t \in S /\ pc[t] \notin places /\ to \in places =>
       Cardinality(At(S, places)') = Cardinality(At(S, places)) + 1
  /\ t \in S /\ pc[t] \in places /\ to \notin places =>
       Cardinality(At(S, places)') = Cardinality(At(S, places)) - 1
  /\ (t \notin S \/ (pc[t] \in places <=> to \in places)) =>
       Cardinality(At(S, places)') = Cardinality(At(S, places))

(* Moving thread t from outside of places to inside raises the number of  *)
(* threads there by one, moving it out lowers it by one, and otherwise    *)
(* the number stays.                                                      *)
LEMMA CountStep ==
  ASSUME TypeOK, NEW t \in Threads, NEW to, pc' = [pc EXCEPT ![t] = to],
         NEW S, S \subseteq Threads, IsFiniteSet(S), NEW places
  PROVE  Counted(S, places, t, to)
<1> DEFINE before == At(S, places)
           after  == At(S, places)'
<1>1. \A s \in S : pc'[s] = IF s = t THEN to ELSE pc[s]
  BY DEF TypeOK
<1>2. before \ {t} = after \ {t}
  BY <1>1 DEF At
<1>3. /\ t \in before <=> t \in S /\ pc[t] \in places
      /\ t \in after <=> t \in S /\ to \in places
  BY <1>1 DEF At
<1>4. IsFiniteSet(before) /\ IsFiniteSet(after)
  <2>1. before \in SUBSET S /\ after \in SUBSET S
    BY DEF At
  <2> QED BY <2>1, FS_Subset
<1> HIDE DEF before, after
<1>5. /\ Cardinality(before) \in Nat
      /\ Cardinality(before \ {t}) \in Nat
      /\ t \in before => Cardinality(before) = Cardinality(before \ {t}) + 1
      /\ t \notin before => Cardinality(before) = Cardinality(before \ {t})
  BY <1>4, CardinalityWithout
<1>6. /\ Cardinality(after) \in Nat
      /\ t \in after => Cardinality(after) = Cardinality(after \ {t}) + 1
      /\ t \notin after => Cardinality(after) = Cardinality(after \ {t})
  BY <1>4, CardinalityWithout
<1>7. Cardinality(before \ {t}) = Cardinality(after \ {t})
  BY <1>2
<1>8. /\ t \in before => Cardinality(before) > 0
      /\ t \notin before /\ t \in after => Cardinality(after) = Cardinality(before) + 1
      /\ t \in before /\ t \notin after => Cardinality(after) = Cardinality(before) - 1
      /\ (t \in before <=> t \in after) => Cardinality(after) = Cardinality(before)
  BY <1>5, <1>6, <1>7
<1> QED BY <1>3, <1>5, <1>6, <1>8 DEF before, after, Counted

(* What a step of thread t does to the four counts of the balances. *)
LEMMA CountsStep ==
  ASSUME TypeOK, NEW t \in Threads, NEW to, pc' = [pc EXCEPT ![t] = to]
  PROVE  /\ Counted(Producers, TakingPlace, t, to)
         /\ Counted(Consumers, OwingPlace, t, to)
         /\ Counted(Consumers, TakingItem, t, to)
         /\ Counted(Producers, OwingItem, t, to)
<1>1. IsFiniteSet(Producers) /\ Producers \subseteq Threads
  BY ConstantsAssumption DEF Threads, Workers
<1>2. IsFiniteSet(Consumers) /\ Consumers \subseteq Threads
  BY ConstantsAssumption DEF Threads, Workers
<1> QED BY <1>1, <1>2, CountStep

-----------------------------------------------------------------------------
(* Each conjunct of IInv is preserved by every step. *)

LEMMA Roles ==
  /\ \A p \in Producers : p \in Threads /\ p \in Workers /\ p \notin Consumers /\ p # Main
  /\ \A c \in Consumers : c \in Threads /\ c \in Workers /\ c \notin Producers /\ c # Main
  /\ Main \in Threads /\ Main \notin Producers /\ Main \notin Consumers
  /\ \A t \in Droppers : t \in Threads /\ (t \in Producers \/ t = Main)
BY ConstantsAssumption DEF Threads, Workers, Droppers

(* A put never gets past the sem_wait of a drop() it called. *)
LEMMA OnlyMainDrops ==
  ASSUME ThreadPlaces, NEW t \in Droppers,
         pc[t] \in {"dropFirst", "dropLast", "dropFree", "dropUnlock", "join"}
  PROVE  t = Main
BY Roles DEF ThreadPlaces, PutPlaces

(* A put that ran out of memory waits in drop() for queue_sem, which it   *)
(* holds itself: only main ever gets past that wait.                      *)
LEMMA LockHolderSkipsDropLock ==
  ASSUME ListExclusive, NEW t \in Droppers, pc[t] = "dropLock", queue_sem > 0
  PROVE  t = Main
<1>1. InList = {}
  BY DEF ListExclusive
<1>2. t \notin Producers
  BY <1>1 DEF InList
<1> QED BY <1>2, Roles

(* A step keeps every thread in its own part of the code.                 *)
LEMMA PlacesStep ==
  ASSUME TypeOK, ThreadPlaces, NEW t \in Threads, NEW to, pc' = [pc EXCEPT ![t] = to],
         t \in Producers => to \in PutPlaces,
         t \in Consumers => to \in GetPlaces,
         t = Main => to \in MainPlaces
  PROVE  ThreadPlaces' /\ pc' \in [Threads -> PutPlaces \cup GetPlaces \cup MainPlaces]
<1>1. \A s \in Threads : pc'[s] = IF s = t THEN to ELSE pc[s]
  BY DEF TypeOK
<1>2. ThreadPlaces'
  BY <1>1 DEF ThreadPlaces, Threads, Workers
<1>3. to \in PutPlaces \cup GetPlaces \cup MainPlaces
  BY DEF Threads, Workers
<1> QED BY <1>2, <1>3 DEF TypeOK

(* A step that moves thread t to a place of its own part of the code      *)
(* keeps pc a function on the threads.                                    *)
LEMMA PcStep ==
  ASSUME TypeOK, ThreadPlaces, ListExclusive, Next
  PROVE  ThreadPlaces' /\ pc' \in [Threads -> PutPlaces \cup GetPlaces \cup MainPlaces]
<1> DEFINE Goal == ThreadPlaces' /\ pc' \in [Threads -> PutPlaces \cup GetPlaces \cup MainPlaces]
<1> USE Roles, PlacesStep DEF Goto, PutPlaces, GetPlaces, MainPlaces
<1>1. ASSUME NEW p \in Producers, PutWait(p) PROVE Goal
  BY <1>1 DEF PutWait
<1>2. ASSUME NEW p \in Producers, PutLock(p) PROVE Goal
  BY <1>2 DEF PutLock
<1>3. ASSUME NEW p \in Producers, PutCheck(p) PROVE Goal
  BY <1>3 DEF PutCheck
<1>4. ASSUME NEW p \in Producers, PutInsert(p) PROVE Goal
  BY <1>4 DEF PutInsert
<1>5. ASSUME NEW p \in Producers, PutNoMemory(p) PROVE Goal
  BY <1>5 DEF PutNoMemory
<1>6. ASSUME NEW p \in Producers, PutUnlock(p) PROVE Goal
  BY <1>6 DEF PutUnlock
<1>7. ASSUME NEW p \in Producers, PutSignal(p) PROVE Goal
  BY <1>7 DEF PutSignal
<1>8. ASSUME NEW p \in Producers, PutReturn(p) PROVE Goal
  BY <1>8 DEF PutReturn
<1>9. ASSUME NEW p \in Producers, PutQuit(p) PROVE Goal
  BY <1>9 DEF PutQuit
<1>10. ASSUME NEW p \in Producers, PutQuitUnlock(p) PROVE Goal
  BY <1>10 DEF PutQuitUnlock
<1>11. ASSUME NEW c \in Consumers, GetWait(c) PROVE Goal
  BY <1>11 DEF GetWait
<1>12. ASSUME NEW c \in Consumers, GetLock(c) PROVE Goal
  BY <1>12 DEF GetLock
<1>13. ASSUME NEW c \in Consumers, GetCheck(c) PROVE Goal
  BY <1>13 DEF GetCheck
<1>14. ASSUME NEW c \in Consumers, GetRemove(c) PROVE Goal
  BY <1>14 DEF GetRemove
<1>15. ASSUME NEW c \in Consumers, GetUnlock(c) PROVE Goal
  BY <1>15 DEF GetUnlock
<1>16. ASSUME NEW c \in Consumers, GetCopy(c) PROVE Goal
  BY <1>16 DEF GetCopy
<1>17. ASSUME NEW c \in Consumers, GetSignal(c) PROVE Goal
  BY <1>17 DEF GetSignal
<1>18. ASSUME NEW c \in Consumers, GetQuit(c) PROVE Goal
  BY <1>18 DEF GetQuit
<1>19. ASSUME NEW c \in Consumers, GetQuitUnlock(c) PROVE Goal
  BY <1>19 DEF GetQuitUnlock
<1>20. ASSUME NEW t \in Droppers, DropBegin(t) PROVE Goal
  BY <1>20 DEF DropBegin
<1>21. ASSUME NEW t \in Droppers, DropLock(t) PROVE Goal
  BY <1>21, LockHolderSkipsDropLock DEF DropLock, Wait
<1>22. ASSUME NEW t \in Droppers, DropFirst(t) PROVE Goal
  BY <1>22, OnlyMainDrops DEF DropFirst
<1>23. ASSUME NEW t \in Droppers, DropLast(t) PROVE Goal
  BY <1>23, OnlyMainDrops DEF DropLast
<1>24. ASSUME NEW t \in Droppers, DropFree(t) PROVE Goal
  BY <1>24, OnlyMainDrops DEF DropFree
<1>25. ASSUME NEW t \in Droppers, DropUnlock(t) PROVE Goal
  BY <1>25, OnlyMainDrops DEF DropUnlock
<1>26. CASE Join
  BY <1>26 DEF Join
<1>27. CASE Terminated
  BY <1>27 DEF Terminated, vars, ThreadPlaces, TypeOK
<1> QED BY <1>1, <1>2, <1>3, <1>4, <1>5, <1>6, <1>7, <1>8, <1>9, <1>10, <1>11,
         <1>12, <1>13, <1>14, <1>15, <1>16, <1>17, <1>18, <1>19, <1>20, <1>21,
         <1>22, <1>23, <1>24, <1>25, <1>26, <1>27 DEF Next, Put, Get, DropRest

(* Every step of put, get, drop and main keeps the variables in their     *)
(* types.                                                                 *)
LEMMA TypeStep ==
  ASSUME TypeOK, ThreadPlaces, ListExclusive, GetFindsMessage, NodesAccounted, Next
  PROVE  TypeOK'
<1> DEFINE DataOK ==
      /\ first_sem \in Nat /\ last_sem \in Nat /\ queue_sem \in Nat
      /\ destroying \in BOOLEAN /\ qAlive \in BOOLEAN
      /\ queue \in Seq(Nodes)
      /\ value \in [Nodes -> Messages \cup {NoMessage}]
      /\ l \in [Workers -> Nodes \cup {NoNode}]
      /\ buffer \in [Consumers -> Messages \cup {NoMessage}]
<1>a. DataOK
  BY DEF TypeOK
<1>b. SUFFICES DataOK'
  BY PcStep DEF TypeOK
<1> HIDE DEF TypeOK
<1> USE <1>a, Roles DEF Goto, Wait, Post, sems, mem
<1>1. ASSUME NEW p \in Producers, PutWait(p) PROVE DataOK'
  BY <1>1 DEF PutWait
<1>2. ASSUME NEW p \in Producers, PutLock(p) PROVE DataOK'
  BY <1>2 DEF PutLock
<1>3. ASSUME NEW p \in Producers, PutCheck(p) PROVE DataOK'
  BY <1>3 DEF PutCheck
<1>4. ASSUME NEW p \in Producers, PutInsert(p) PROVE DataOK'
  BY <1>4 DEF PutInsert, FreeNodes
<1>5. ASSUME NEW p \in Producers, PutNoMemory(p) PROVE DataOK'
  BY <1>5 DEF PutNoMemory
<1>6. ASSUME NEW p \in Producers, PutUnlock(p) PROVE DataOK'
  BY <1>6 DEF PutUnlock
<1>7. ASSUME NEW p \in Producers, PutSignal(p) PROVE DataOK'
  BY <1>7 DEF PutSignal
<1>8. ASSUME NEW p \in Producers, PutReturn(p) PROVE DataOK'
  BY <1>8 DEF PutReturn
<1>9. ASSUME NEW p \in Producers, PutQuit(p) PROVE DataOK'
  BY <1>9 DEF PutQuit
<1>10. ASSUME NEW p \in Producers, PutQuitUnlock(p) PROVE DataOK'
  BY <1>10 DEF PutQuitUnlock
<1>11. ASSUME NEW c \in Consumers, GetWait(c) PROVE DataOK'
  BY <1>11 DEF GetWait
<1>12. ASSUME NEW c \in Consumers, GetLock(c) PROVE DataOK'
  BY <1>12 DEF GetLock
<1>13. ASSUME NEW c \in Consumers, GetCheck(c) PROVE DataOK'
  BY <1>13 DEF GetCheck
<1>14. ASSUME NEW c \in Consumers, GetRemove(c) PROVE DataOK'
  BY <1>14 DEF GetRemove
<1>15. ASSUME NEW c \in Consumers, GetUnlock(c) PROVE DataOK'
  BY <1>15 DEF GetUnlock
<1>16. ASSUME NEW c \in Consumers, GetCopy(c) PROVE DataOK'
  BY <1>16 DEF GetCopy, NodesAccounted, Holders, At
<1>17. ASSUME NEW c \in Consumers, GetSignal(c) PROVE DataOK'
  BY <1>17 DEF GetSignal
<1>18. ASSUME NEW c \in Consumers, GetQuit(c) PROVE DataOK'
  BY <1>18 DEF GetQuit
<1>19. ASSUME NEW c \in Consumers, GetQuitUnlock(c) PROVE DataOK'
  BY <1>19 DEF GetQuitUnlock
<1>20. ASSUME NEW t \in Droppers, DropBegin(t) PROVE DataOK'
  BY <1>20 DEF DropBegin
<1>21. ASSUME NEW t \in Droppers, DropLock(t) PROVE DataOK'
  BY <1>21 DEF DropLock
<1>22. ASSUME NEW t \in Droppers, DropFirst(t) PROVE DataOK'
  BY <1>22 DEF DropFirst
<1>23. ASSUME NEW t \in Droppers, DropLast(t) PROVE DataOK'
  BY <1>23 DEF DropLast
<1>24. ASSUME NEW t \in Droppers, DropFree(t) PROVE DataOK'
  <2>1. value' \in [Nodes -> Messages \cup {NoMessage}]
    BY <1>24 DEF DropFree
  <2>2. queue' = <<>> /\ queue' \in Seq(Nodes)
    BY <1>24 DEF DropFree
  <2> QED BY <1>24, <2>1, <2>2 DEF DropFree
<1>25. ASSUME NEW t \in Droppers, DropUnlock(t) PROVE DataOK'
  BY <1>25 DEF DropUnlock
<1>26. CASE Join
  BY <1>26 DEF Join
<1>27. CASE Terminated
  BY <1>27 DEF Terminated, vars
<1> QED BY <1>1, <1>2, <1>3, <1>4, <1>5, <1>6, <1>7, <1>8, <1>9, <1>10, <1>11,
         <1>12, <1>13, <1>14, <1>15, <1>16, <1>17, <1>18, <1>19, <1>20, <1>21,
         <1>22, <1>23, <1>24, <1>25, <1>26, <1>27 DEF Next, Put, Get, DropRest

(* InList follows the thread that moves: it enters the guarded code with     *)
(* the permit, leaves it returning the permit, or stays on its side.       *)
Holds(t, place) == \/ place \in ListPlaces
                   \/ t \in Producers /\ place \in {"drop", "dropLock"}

(* A step of thread t puts t into, or takes it out of, the code that      *)
(* queue_sem guards, and moves nobody else.                               *)
LEMMA InListStep ==
  ASSUME TypeOK, NEW t \in Threads, NEW to, pc' = [pc EXCEPT ![t] = to]
  PROVE  /\ t \in InList <=> Holds(t, pc[t])
         /\ t \in InList' <=> Holds(t, to)
         /\ \A s : s # t => (s \in InList <=> s \in InList')
<1>1. \A s \in Threads : pc'[s] = IF s = t THEN to ELSE pc[s]
  BY DEF TypeOK
<1> QED BY <1>1, Roles DEF InList, Holds

(* A thread that waits for queue_sem successfully is then alone in the    *)
(* list.                                                                  *)
LEMMA LockTaken ==
  ASSUME TypeOK, ListExclusive, NEW t \in Threads, NEW to, pc' = [pc EXCEPT ![t] = to],
         Holds(t, to), queue_sem > 0, queue_sem' = queue_sem - 1
  PROVE  ListExclusive'
<1>1. InList = {} /\ queue_sem = 1
  BY DEF ListExclusive
<1>2. InList' = {t}
  BY <1>1, InListStep
<1> QED BY <1>1, <1>2 DEF ListExclusive

(* A thread that leaves the list and posts queue_sem leaves it empty and  *)
(* free.                                                                  *)
LEMMA LockReturned ==
  ASSUME TypeOK, ListExclusive, NEW t \in Threads, NEW to, pc' = [pc EXCEPT ![t] = to],
         Holds(t, pc[t]), ~Holds(t, to), queue_sem' = queue_sem + 1
  PROVE  ListExclusive'
<1>1. t \in InList
  BY InListStep
<1>2. InList = {t} /\ queue_sem = 0
  BY <1>1 DEF ListExclusive
<1>3. InList' = {}
  BY <1>2, InListStep
<1> QED BY <1>2, <1>3 DEF ListExclusive

(* A step that neither enters nor leaves the list keeps the lock as it    *)
(* is.                                                                    *)
LEMMA LockKept ==
  ASSUME TypeOK, ListExclusive, NEW t \in Threads, NEW to, pc' = [pc EXCEPT ![t] = to],
         Holds(t, pc[t]) <=> Holds(t, to), queue_sem' = queue_sem
  PROVE  ListExclusive'
<1>1. InList' = InList
  BY InListStep
<1> QED BY <1>1 DEF ListExclusive

(* queue_sem stays a lock on every path through put, get and drop.        *)
LEMMA ListExclusiveStep ==
  ASSUME TypeOK, ThreadPlaces, ListExclusive, Next
  PROVE  ListExclusive'
<1> USE Roles DEF Goto, Wait, Post, sems, Holds, ListPlaces
<1>1. ASSUME NEW p \in Producers, PutWait(p) PROVE ListExclusive'
  BY <1>1, LockKept DEF PutWait
<1>2. ASSUME NEW p \in Producers, PutLock(p) PROVE ListExclusive'
  BY <1>2, LockTaken DEF PutLock
<1>3. ASSUME NEW p \in Producers, PutCheck(p) PROVE ListExclusive'
  BY <1>3, LockKept DEF PutCheck
<1>4. ASSUME NEW p \in Producers, PutInsert(p) PROVE ListExclusive'
  BY <1>4, LockKept DEF PutInsert
<1>5. ASSUME NEW p \in Producers, PutNoMemory(p) PROVE ListExclusive'
  BY <1>5, LockKept DEF PutNoMemory
<1>6. ASSUME NEW p \in Producers, PutUnlock(p) PROVE ListExclusive'
  BY <1>6, LockReturned DEF PutUnlock
<1>7. ASSUME NEW p \in Producers, PutSignal(p) PROVE ListExclusive'
  BY <1>7, LockKept DEF PutSignal
<1>8. ASSUME NEW p \in Producers, PutReturn(p) PROVE ListExclusive'
  BY <1>8, LockKept DEF PutReturn
<1>9. ASSUME NEW p \in Producers, PutQuit(p) PROVE ListExclusive'
  BY <1>9, LockKept DEF PutQuit
<1>10. ASSUME NEW p \in Producers, PutQuitUnlock(p) PROVE ListExclusive'
  BY <1>10, LockReturned DEF PutQuitUnlock
<1>11. ASSUME NEW c \in Consumers, GetWait(c) PROVE ListExclusive'
  BY <1>11, LockKept DEF GetWait
<1>12. ASSUME NEW c \in Consumers, GetLock(c) PROVE ListExclusive'
  BY <1>12, LockTaken DEF GetLock
<1>13. ASSUME NEW c \in Consumers, GetCheck(c) PROVE ListExclusive'
  BY <1>13, LockKept DEF GetCheck
<1>14. ASSUME NEW c \in Consumers, GetRemove(c) PROVE ListExclusive'
  BY <1>14, LockKept DEF GetRemove
<1>15. ASSUME NEW c \in Consumers, GetUnlock(c) PROVE ListExclusive'
  BY <1>15, LockReturned DEF GetUnlock
<1>16. ASSUME NEW c \in Consumers, GetCopy(c) PROVE ListExclusive'
  BY <1>16, LockKept DEF GetCopy
<1>17. ASSUME NEW c \in Consumers, GetSignal(c) PROVE ListExclusive'
  BY <1>17, LockKept DEF GetSignal
<1>18. ASSUME NEW c \in Consumers, GetQuit(c) PROVE ListExclusive'
  BY <1>18, LockKept DEF GetQuit
<1>19. ASSUME NEW c \in Consumers, GetQuitUnlock(c) PROVE ListExclusive'
  BY <1>19, LockReturned DEF GetQuitUnlock
<1>20. ASSUME NEW t \in Droppers, DropBegin(t) PROVE ListExclusive'
  BY <1>20, LockKept DEF DropBegin
<1>21. ASSUME NEW t \in Droppers, DropLock(t) PROVE ListExclusive'
  BY <1>21, LockTaken, LockHolderSkipsDropLock DEF DropLock
<1>22. ASSUME NEW t \in Droppers, DropFirst(t) PROVE ListExclusive'
  BY <1>22, LockKept, OnlyMainDrops DEF DropFirst
<1>23. ASSUME NEW t \in Droppers, DropLast(t) PROVE ListExclusive'
  BY <1>23, LockKept, OnlyMainDrops DEF DropLast
<1>24. ASSUME NEW t \in Droppers, DropFree(t) PROVE ListExclusive'
  BY <1>24, LockKept, OnlyMainDrops DEF DropFree
<1>25. ASSUME NEW t \in Droppers, DropUnlock(t) PROVE ListExclusive'
  BY <1>25, LockReturned, OnlyMainDrops DEF DropUnlock
<1>26. CASE Join
  BY <1>26, LockKept DEF Join
<1>27. CASE Terminated
  BY <1>27 DEF Terminated, vars, ListExclusive, InList
<1> QED BY <1>1, <1>2, <1>3, <1>4, <1>5, <1>6, <1>7, <1>8, <1>9, <1>10, <1>11,
         <1>12, <1>13, <1>14, <1>15, <1>16, <1>17, <1>18, <1>19, <1>20, <1>21,
         <1>22, <1>23, <1>24, <1>25, <1>26, <1>27 DEF Next, Put, Get, DropRest

(* Every step keeps the order of drop(): destroying first, then the lock, *)
(* then q freed, and nobody past the check of destroying once the list is *)
(* taken.                                                                 *)
LEMMA DropOrderStep ==
  ASSUME TypeOK, ThreadPlaces, ListExclusive, DropOrder, Next
  PROVE  DropOrder'
<1> USE Roles DEF Goto, sems, mem, DropOrder, Dropped, TypeOK
<1>1. ASSUME NEW p \in Producers, PutWait(p) PROVE DropOrder'
  BY <1>1 DEF PutWait
<1>2. ASSUME NEW p \in Producers, PutLock(p) PROVE DropOrder'
  BY <1>2 DEF PutLock
<1>3. ASSUME NEW p \in Producers, PutCheck(p) PROVE DropOrder'
  BY <1>3 DEF PutCheck
<1>4. ASSUME NEW p \in Producers, PutInsert(p) PROVE DropOrder'
  BY <1>4 DEF PutInsert
<1>5. ASSUME NEW p \in Producers, PutNoMemory(p) PROVE DropOrder'
  BY <1>5 DEF PutNoMemory
<1>6. ASSUME NEW p \in Producers, PutUnlock(p) PROVE DropOrder'
  BY <1>6 DEF PutUnlock
<1>7. ASSUME NEW p \in Producers, PutSignal(p) PROVE DropOrder'
  BY <1>7 DEF PutSignal
<1>8. ASSUME NEW p \in Producers, PutReturn(p) PROVE DropOrder'
  BY <1>8 DEF PutReturn
<1>9. ASSUME NEW p \in Producers, PutQuit(p) PROVE DropOrder'
  BY <1>9 DEF PutQuit
<1>10. ASSUME NEW p \in Producers, PutQuitUnlock(p) PROVE DropOrder'
  BY <1>10 DEF PutQuitUnlock
<1>11. ASSUME NEW c \in Consumers, GetWait(c) PROVE DropOrder'
  BY <1>11 DEF GetWait
<1>12. ASSUME NEW c \in Consumers, GetLock(c) PROVE DropOrder'
  BY <1>12 DEF GetLock
<1>13. ASSUME NEW c \in Consumers, GetCheck(c) PROVE DropOrder'
  BY <1>13 DEF GetCheck
<1>14. ASSUME NEW c \in Consumers, GetRemove(c) PROVE DropOrder'
  BY <1>14 DEF GetRemove
<1>15. ASSUME NEW c \in Consumers, GetUnlock(c) PROVE DropOrder'
  BY <1>15 DEF GetUnlock
<1>16. ASSUME NEW c \in Consumers, GetCopy(c) PROVE DropOrder'
  BY <1>16 DEF GetCopy
<1>17. ASSUME NEW c \in Consumers, GetSignal(c) PROVE DropOrder'
  BY <1>17 DEF GetSignal
<1>18. ASSUME NEW c \in Consumers, GetQuit(c) PROVE DropOrder'
  BY <1>18 DEF GetQuit
<1>19. ASSUME NEW c \in Consumers, GetQuitUnlock(c) PROVE DropOrder'
  BY <1>19 DEF GetQuitUnlock
<1>20. ASSUME NEW t \in Droppers, DropBegin(t) PROVE DropOrder'
  BY <1>20 DEF DropBegin
<1>21. ASSUME NEW t \in Droppers, DropLock(t) PROVE DropOrder'
  <2>1. t = Main /\ InList = {}
    BY <1>21, LockHolderSkipsDropLock DEF DropLock, Wait, ListExclusive
  <2>2. \A s \in Threads : pc[s] \notin {"putInsert", "putUnlock", "getRemove", "getUnlock"}
    BY <2>1 DEF InList, ListPlaces
  <2>3. pc' = [pc EXCEPT ![Main] = "dropFirst"] /\ UNCHANGED <<destroying, qAlive, queue>>
    BY <1>21, <2>1 DEF DropLock
  <2>4. destroying /\ qAlive
    BY <1>21, <2>1 DEF DropLock
  <2> QED BY <2>2, <2>3, <2>4
<1>22. ASSUME NEW t \in Droppers, DropFirst(t) PROVE DropOrder'
  BY <1>22, OnlyMainDrops DEF DropFirst
<1>23. ASSUME NEW t \in Droppers, DropLast(t) PROVE DropOrder'
  BY <1>23, OnlyMainDrops DEF DropLast
<1>24. ASSUME NEW t \in Droppers, DropFree(t) PROVE DropOrder'
  BY <1>24, OnlyMainDrops DEF DropFree, Linked
<1>25. ASSUME NEW t \in Droppers, DropUnlock(t) PROVE DropOrder'
  BY <1>25, OnlyMainDrops DEF DropUnlock
<1>26. CASE Join
  BY <1>26 DEF Join
<1>27. CASE Terminated
  BY <1>27 DEF Terminated, vars
<1> QED BY <1>1, <1>2, <1>3, <1>4, <1>5, <1>6, <1>7, <1>8, <1>9, <1>10, <1>11,
         <1>12, <1>13, <1>14, <1>15, <1>16, <1>17, <1>18, <1>19, <1>20, <1>21,
         <1>22, <1>23, <1>24, <1>25, <1>26, <1>27 DEF Next, Put, Get, DropRest

(* A step of a producer or of a consumer changes only its own two counts. *)
LEMMA PutCounts ==
  ASSUME TypeOK, NEW p \in Producers, NEW to, pc' = [pc EXCEPT ![p] = to]
  PROVE  /\ Dropped' <=> Dropped
         /\ Counted(Producers, TakingPlace, p, to)
         /\ Counted(Producers, OwingItem, p, to)
         /\ Cardinality(PlaceOwers) \in Nat /\ Cardinality(ItemTakers) \in Nat
         /\ Cardinality(PlaceOwers') = Cardinality(PlaceOwers)
         /\ Cardinality(ItemTakers') = Cardinality(ItemTakers)
<1>1. Dropped' <=> Dropped
  BY Roles DEF Dropped, TypeOK
<1>2. /\ Cardinality(PlaceOwers) \in Nat
      /\ Cardinality(PlaceOwers') = Cardinality(PlaceOwers)
  BY Roles, CountsStep DEF Counted, PlaceOwers
<1>3. /\ Cardinality(ItemTakers) \in Nat
      /\ Cardinality(ItemTakers') = Cardinality(ItemTakers)
  BY Roles, CountsStep DEF Counted, ItemTakers
<1> QED BY <1>1, <1>2, <1>3, Roles, CountsStep

(* A step of a consumer leaves the counts of the producers alone.         *)
LEMMA GetCounts ==
  ASSUME TypeOK, NEW c \in Consumers, NEW to, pc' = [pc EXCEPT ![c] = to]
  PROVE  /\ Dropped' <=> Dropped
         /\ Counted(Consumers, OwingPlace, c, to)
         /\ Counted(Consumers, TakingItem, c, to)
         /\ Cardinality(PlaceTakers) \in Nat /\ Cardinality(ItemOwers) \in Nat
         /\ Cardinality(PlaceTakers') = Cardinality(PlaceTakers)
         /\ Cardinality(ItemOwers') = Cardinality(ItemOwers)
<1>1. Dropped' <=> Dropped
  BY Roles DEF Dropped, TypeOK
<1>2. /\ Cardinality(PlaceTakers) \in Nat
      /\ Cardinality(PlaceTakers') = Cardinality(PlaceTakers)
  BY Roles, CountsStep DEF Counted, PlaceTakers
<1>3. /\ Cardinality(ItemOwers) \in Nat
      /\ Cardinality(ItemOwers') = Cardinality(ItemOwers)
  BY Roles, CountsStep DEF Counted, ItemOwers
<1> QED BY <1>1, <1>2, <1>3, Roles, CountsStep

(* A step of a producer that moves one unit between a semaphore, the      *)
(* producers and the list keeps both balances.                            *)
LEMMA PutKeepsBalance ==
  ASSUME TypeOK, PlacesBalance, ItemsBalance,
         NEW p \in Producers, NEW to, pc' = [pc EXCEPT ![p] = to],
         pc[p] \in TakingPlace <=> to \in TakingPlace,
         pc[p] \in OwingItem <=> to \in OwingItem,
         first_sem' = first_sem, last_sem' = last_sem, queue' = queue
  PROVE  PlacesBalance' /\ ItemsBalance'
<1>1. /\ Cardinality(PlaceTakers') = Cardinality(PlaceTakers)
      /\ Cardinality(ItemOwers') = Cardinality(ItemOwers)
  BY PutCounts DEF Counted, PlaceTakers, ItemOwers
<1> QED BY <1>1, PutCounts DEF PlacesBalance, ItemsBalance

(* A step of a consumer that moves one unit between a semaphore, the      *)
(* consumers and the list keeps both balances.                            *)
LEMMA GetKeepsBalance ==
  ASSUME TypeOK, PlacesBalance, ItemsBalance,
         NEW c \in Consumers, NEW to, pc' = [pc EXCEPT ![c] = to],
         pc[c] \in OwingPlace <=> to \in OwingPlace,
         pc[c] \in TakingItem <=> to \in TakingItem,
         first_sem' = first_sem, last_sem' = last_sem, queue' = queue
  PROVE  PlacesBalance' /\ ItemsBalance'
<1>1. /\ Cardinality(PlaceOwers') = Cardinality(PlaceOwers)
      /\ Cardinality(ItemTakers') = Cardinality(ItemTakers)
  BY GetCounts DEF Counted, PlaceOwers, ItemTakers
<1> QED BY <1>1, GetCounts DEF PlacesBalance, ItemsBalance

(* A step of main before drop() takes the list keeps both balances.       *)
LEMMA MainKeepsBalance ==
  ASSUME TypeOK, PlacesBalance, ItemsBalance, NEW to, pc' = [pc EXCEPT ![Main] = to],
         ~Dropped' => ~Dropped /\ first_sem' = first_sem /\ last_sem' = last_sem /\ queue' = queue
  PROVE  PlacesBalance' /\ ItemsBalance'
<1>1. /\ Cardinality(PlaceTakers') = Cardinality(PlaceTakers)
      /\ Cardinality(PlaceOwers') = Cardinality(PlaceOwers)
      /\ Cardinality(ItemTakers') = Cardinality(ItemTakers)
      /\ Cardinality(ItemOwers') = Cardinality(ItemOwers)
  BY Roles, CountsStep DEF Counted, PlaceTakers, PlaceOwers, ItemTakers, ItemOwers
<1> QED BY <1>1 DEF PlacesBalance, ItemsBalance

(* Every step of put, get and drop keeps the balances of places and of    *)
(* messages.                                                              *)
LEMMA BalanceStep ==
  ASSUME TypeOK, TypeOK', ThreadPlaces, ListExclusive, DropOrder,
         PlacesBalance, ItemsBalance, GetFindsMessage, Next
  PROVE  PlacesBalance' /\ ItemsBalance'
<1> DEFINE Goal == PlacesBalance' /\ ItemsBalance'
<1> USE Roles DEF Goto, Wait, Post, sems, mem
<1>a. /\ first_sem \in Nat /\ last_sem \in Nat /\ queue \in Seq(Nodes)
      /\ first_sem' \in Nat /\ last_sem' \in Nat /\ queue' \in Seq(Nodes)
  BY DEF TypeOK
<1>b. Capacity \in Nat
  BY ConstantsAssumption
<1>1. ASSUME NEW p \in Producers, PutWait(p) PROVE Goal
  <2>1. pc[p] = "put" /\ pc' = [pc EXCEPT ![p] = "putLock"]
    BY <1>1 DEF PutWait
  <2>2. Counted(Producers, TakingPlace, p, "putLock") /\ Counted(Producers, OwingItem, p, "putLock")
    BY <2>1, PutCounts
  <2>3. /\ Cardinality(PlaceTakers) \in Nat /\ Cardinality(PlaceTakers') = Cardinality(PlaceTakers) + 1
        /\ Cardinality(ItemOwers) \in Nat /\ Cardinality(ItemOwers') = Cardinality(ItemOwers)
    BY <2>1, <2>2 DEF Counted, PlaceTakers, ItemOwers, TakingPlace, OwingItem
  <2>4. /\ Dropped' <=> Dropped
        /\ Cardinality(PlaceOwers) \in Nat /\ Cardinality(PlaceOwers') = Cardinality(PlaceOwers)
        /\ Cardinality(ItemTakers) \in Nat /\ Cardinality(ItemTakers') = Cardinality(ItemTakers)
    BY <2>1, PutCounts
  <2>5. /\ first_sem' = first_sem - 1
        /\ last_sem' = last_sem
        /\ Len(queue') = Len(queue)
    BY <1>1, <1>a DEF PutWait
  <2>6. PlacesBalance'
    BY <1>a, <1>b, <2>3, <2>4, <2>5 DEF PlacesBalance
  <2>7. ItemsBalance'
    BY <1>a, <2>3, <2>4, <2>5 DEF ItemsBalance
  <2> QED BY <2>6, <2>7
<1>2. ASSUME NEW p \in Producers, PutLock(p) PROVE Goal
  BY <1>2, PutKeepsBalance DEF PutLock, TakingPlace, OwingItem
<1>3. ASSUME NEW p \in Producers, PutCheck(p) PROVE Goal
  BY <1>3, PutKeepsBalance DEF PutCheck, TakingPlace, OwingItem
<1>4. ASSUME NEW p \in Producers, PutInsert(p) PROVE Goal
  <2>1. pc[p] = "putInsert" /\ pc' = [pc EXCEPT ![p] = "putUnlock"]
    BY <1>4 DEF PutInsert
  <2>2. Counted(Producers, TakingPlace, p, "putUnlock") /\ Counted(Producers, OwingItem, p, "putUnlock")
    BY <2>1, PutCounts
  <2>3. /\ Cardinality(PlaceTakers) \in Nat /\ Cardinality(PlaceTakers') = Cardinality(PlaceTakers) - 1
        /\ Cardinality(ItemOwers) \in Nat /\ Cardinality(ItemOwers') = Cardinality(ItemOwers) + 1
    BY <2>1, <2>2 DEF Counted, PlaceTakers, ItemOwers, TakingPlace, OwingItem
  <2>4. /\ Dropped' <=> Dropped
        /\ Cardinality(PlaceOwers) \in Nat /\ Cardinality(PlaceOwers') = Cardinality(PlaceOwers)
        /\ Cardinality(ItemTakers) \in Nat /\ Cardinality(ItemTakers') = Cardinality(ItemTakers)
    BY <2>1, PutCounts
  <2>5. /\ first_sem' = first_sem
        /\ last_sem' = last_sem
        /\ Len(queue') = Len(queue) + 1
    BY <1>4, <1>a DEF PutInsert
  <2>6. PICK n \in Nat, k \in Nat : n = Len(queue) /\ k = Cardinality(PlaceTakers)
    BY <1>a, <2>3
  <2>7. PlacesBalance'
    <3>1. Cardinality(PlaceTakers') = k - 1 /\ Len(queue') = n + 1
      BY <2>3, <2>5, <2>6
    <3> SUFFICES ASSUME ~Dropped
                 PROVE  first_sem' + Cardinality(PlaceTakers') + Len(queue')
                        + Cardinality(PlaceOwers') = Capacity
      BY <2>4 DEF PlacesBalance
    <3>2. first_sem + k + n + Cardinality(PlaceOwers) = Capacity
      BY <2>6 DEF PlacesBalance
    <3>3. first_sem + (k - 1) + (n + 1) + Cardinality(PlaceOwers) = Capacity
      BY <1>a, <2>4, <3>2
    <3> QED BY <2>4, <2>5, <3>1, <3>3
  <2>8. ItemsBalance'
    <3>1. Cardinality(ItemOwers') = Cardinality(ItemOwers) + 1 /\ Len(queue') = n + 1
      BY <2>3, <2>5, <2>6
    <3> QED BY <1>a, <2>3, <2>4, <2>5, <2>6, <3>1 DEF ItemsBalance
  <2> QED BY <2>7, <2>8
<1>5. ASSUME NEW p \in Producers, PutNoMemory(p) PROVE Goal
  BY <1>5, PutKeepsBalance DEF PutNoMemory, TakingPlace, OwingItem
<1>6. ASSUME NEW p \in Producers, PutUnlock(p) PROVE Goal
  BY <1>6, PutKeepsBalance DEF PutUnlock, TakingPlace, OwingItem
<1>7. ASSUME NEW p \in Producers, PutSignal(p) PROVE Goal
  <2>1. pc[p] = "putSignal" /\ pc' = [pc EXCEPT ![p] = "putReturn"]
    BY <1>7 DEF PutSignal
  <2>2. Counted(Producers, TakingPlace, p, "putReturn") /\ Counted(Producers, OwingItem, p, "putReturn")
    BY <2>1, PutCounts
  <2>3. /\ Cardinality(PlaceTakers) \in Nat /\ Cardinality(PlaceTakers') = Cardinality(PlaceTakers)
        /\ Cardinality(ItemOwers) \in Nat /\ Cardinality(ItemOwers') = Cardinality(ItemOwers) - 1
    BY <2>1, <2>2 DEF Counted, PlaceTakers, ItemOwers, TakingPlace, OwingItem
  <2>4. /\ Dropped' <=> Dropped
        /\ Cardinality(PlaceOwers) \in Nat /\ Cardinality(PlaceOwers') = Cardinality(PlaceOwers)
        /\ Cardinality(ItemTakers) \in Nat /\ Cardinality(ItemTakers') = Cardinality(ItemTakers)
    BY <2>1, PutCounts
  <2>5. /\ first_sem' = first_sem
        /\ last_sem' = last_sem + 1
        /\ Len(queue') = Len(queue)
    BY <1>7, <1>a DEF PutSignal
  <2>6. PlacesBalance'
    BY <1>a, <1>b, <2>3, <2>4, <2>5 DEF PlacesBalance
  <2>7. ItemsBalance'
    BY <1>a, <2>3, <2>4, <2>5 DEF ItemsBalance
  <2> QED BY <2>6, <2>7
<1>8. ASSUME NEW p \in Producers, PutReturn(p) PROVE Goal
  BY <1>8, PutKeepsBalance DEF PutReturn, TakingPlace, OwingItem
<1>9. ASSUME NEW p \in Producers, PutQuit(p) PROVE Goal
  <2>1. pc[p] = "putQuit" /\ pc' = [pc EXCEPT ![p] = "putQuitUnlock"]
    BY <1>9 DEF PutQuit
  <2>2. Counted(Producers, TakingPlace, p, "putQuitUnlock") /\ Counted(Producers, OwingItem, p, "putQuitUnlock")
    BY <2>1, PutCounts
  <2>3. /\ Cardinality(PlaceTakers) \in Nat /\ Cardinality(PlaceTakers') = Cardinality(PlaceTakers) - 1
        /\ Cardinality(ItemOwers) \in Nat /\ Cardinality(ItemOwers') = Cardinality(ItemOwers)
    BY <2>1, <2>2 DEF Counted, PlaceTakers, ItemOwers, TakingPlace, OwingItem
  <2>4. /\ Dropped' <=> Dropped
        /\ Cardinality(PlaceOwers) \in Nat /\ Cardinality(PlaceOwers') = Cardinality(PlaceOwers)
        /\ Cardinality(ItemTakers) \in Nat /\ Cardinality(ItemTakers') = Cardinality(ItemTakers)
    BY <2>1, PutCounts
  <2>5. /\ first_sem' = first_sem + 1
        /\ last_sem' = last_sem
        /\ Len(queue') = Len(queue)
    BY <1>9, <1>a DEF PutQuit
  <2>6. PlacesBalance'
    BY <1>a, <1>b, <2>3, <2>4, <2>5 DEF PlacesBalance
  <2>7. ItemsBalance'
    BY <1>a, <2>3, <2>4, <2>5 DEF ItemsBalance
  <2> QED BY <2>6, <2>7
<1>10. ASSUME NEW p \in Producers, PutQuitUnlock(p) PROVE Goal
  BY <1>10, PutKeepsBalance DEF PutQuitUnlock, TakingPlace, OwingItem
<1>11. ASSUME NEW c \in Consumers, GetWait(c) PROVE Goal
  <2>1. pc[c] = "get" /\ pc' = [pc EXCEPT ![c] = "getLock"]
    BY <1>11 DEF GetWait
  <2>2. Counted(Consumers, OwingPlace, c, "getLock") /\ Counted(Consumers, TakingItem, c, "getLock")
    BY <2>1, GetCounts
  <2>3. /\ Cardinality(PlaceOwers) \in Nat /\ Cardinality(PlaceOwers') = Cardinality(PlaceOwers)
        /\ Cardinality(ItemTakers) \in Nat /\ Cardinality(ItemTakers') = Cardinality(ItemTakers) + 1
    BY <2>1, <2>2 DEF Counted, PlaceOwers, ItemTakers, OwingPlace, TakingItem
  <2>4. /\ Dropped' <=> Dropped
        /\ Cardinality(PlaceTakers) \in Nat /\ Cardinality(PlaceTakers') = Cardinality(PlaceTakers)
        /\ Cardinality(ItemOwers) \in Nat /\ Cardinality(ItemOwers') = Cardinality(ItemOwers)
    BY <2>1, GetCounts
  <2>5. /\ first_sem' = first_sem
        /\ last_sem' = last_sem - 1
        /\ Len(queue') = Len(queue)
    BY <1>11, <1>a DEF GetWait
  <2>6. PlacesBalance'
    BY <1>a, <1>b, <2>3, <2>4, <2>5 DEF PlacesBalance
  <2>7. ItemsBalance'
    BY <1>a, <2>3, <2>4, <2>5 DEF ItemsBalance
  <2> QED BY <2>6, <2>7
<1>12. ASSUME NEW c \in Consumers, GetLock(c) PROVE Goal
  BY <1>12, GetKeepsBalance DEF GetLock, OwingPlace, TakingItem
<1>13. ASSUME NEW c \in Consumers, GetCheck(c) PROVE Goal
  BY <1>13, GetKeepsBalance DEF GetCheck, OwingPlace, TakingItem
<1>14. ASSUME NEW c \in Consumers, GetRemove(c) PROVE Goal
  <2>1. pc[c] = "getRemove" /\ pc' = [pc EXCEPT ![c] = "getUnlock"]
    BY <1>14 DEF GetRemove
  <2>2. Counted(Consumers, OwingPlace, c, "getUnlock") /\ Counted(Consumers, TakingItem, c, "getUnlock")
    BY <2>1, GetCounts
  <2>3. /\ Cardinality(PlaceOwers) \in Nat /\ Cardinality(PlaceOwers') = Cardinality(PlaceOwers) + 1
        /\ Cardinality(ItemTakers) \in Nat /\ Cardinality(ItemTakers') = Cardinality(ItemTakers) - 1
    BY <2>1, <2>2 DEF Counted, PlaceOwers, ItemTakers, OwingPlace, TakingItem
  <2>4. /\ Dropped' <=> Dropped
        /\ Cardinality(PlaceTakers) \in Nat /\ Cardinality(PlaceTakers') = Cardinality(PlaceTakers)
        /\ Cardinality(ItemOwers) \in Nat /\ Cardinality(ItemOwers') = Cardinality(ItemOwers)
    BY <2>1, GetCounts
  <2>5. /\ first_sem' = first_sem
        /\ last_sem' = last_sem
        /\ Len(queue') = Len(queue) - 1
    BY <1>14, <1>a, GetFindsMessage DEF GetRemove, GetFindsMessage
  <2>6. PlacesBalance'
    BY <1>a, <1>b, <2>3, <2>4, <2>5 DEF PlacesBalance
  <2>7. ItemsBalance'
    BY <1>a, <2>3, <2>4, <2>5 DEF ItemsBalance
  <2> QED BY <2>6, <2>7
<1>15. ASSUME NEW c \in Consumers, GetUnlock(c) PROVE Goal
  BY <1>15, GetKeepsBalance DEF GetUnlock, OwingPlace, TakingItem
<1>16. ASSUME NEW c \in Consumers, GetCopy(c) PROVE Goal
  BY <1>16, GetKeepsBalance DEF GetCopy, OwingPlace, TakingItem
<1>17. ASSUME NEW c \in Consumers, GetSignal(c) PROVE Goal
  <2>1. pc[c] = "getSignal" /\ pc' = [pc EXCEPT ![c] = "get"]
    BY <1>17 DEF GetSignal
  <2>2. Counted(Consumers, OwingPlace, c, "get") /\ Counted(Consumers, TakingItem, c, "get")
    BY <2>1, GetCounts
  <2>3. /\ Cardinality(PlaceOwers) \in Nat /\ Cardinality(PlaceOwers') = Cardinality(PlaceOwers) - 1
        /\ Cardinality(ItemTakers) \in Nat /\ Cardinality(ItemTakers') = Cardinality(ItemTakers)
    BY <2>1, <2>2 DEF Counted, PlaceOwers, ItemTakers, OwingPlace, TakingItem
  <2>4. /\ Dropped' <=> Dropped
        /\ Cardinality(PlaceTakers) \in Nat /\ Cardinality(PlaceTakers') = Cardinality(PlaceTakers)
        /\ Cardinality(ItemOwers) \in Nat /\ Cardinality(ItemOwers') = Cardinality(ItemOwers)
    BY <2>1, GetCounts
  <2>5. /\ first_sem' = first_sem + 1
        /\ last_sem' = last_sem
        /\ Len(queue') = Len(queue)
    BY <1>17, <1>a DEF GetSignal
  <2>6. PlacesBalance'
    BY <1>a, <1>b, <2>3, <2>4, <2>5 DEF PlacesBalance
  <2>7. ItemsBalance'
    BY <1>a, <2>3, <2>4, <2>5 DEF ItemsBalance
  <2> QED BY <2>6, <2>7
<1>18. ASSUME NEW c \in Consumers, GetQuit(c) PROVE Goal
  <2>1. pc[c] = "getQuit" /\ pc' = [pc EXCEPT ![c] = "getQuitUnlock"]
    BY <1>18 DEF GetQuit
  <2>2. Counted(Consumers, OwingPlace, c, "getQuitUnlock") /\ Counted(Consumers, TakingItem, c, "getQuitUnlock")
    BY <2>1, GetCounts
  <2>3. /\ Cardinality(PlaceOwers) \in Nat /\ Cardinality(PlaceOwers') = Cardinality(PlaceOwers)
        /\ Cardinality(ItemTakers) \in Nat /\ Cardinality(ItemTakers') = Cardinality(ItemTakers) - 1
    BY <2>1, <2>2 DEF Counted, PlaceOwers, ItemTakers, OwingPlace, TakingItem
  <2>4. /\ Dropped' <=> Dropped
        /\ Cardinality(PlaceTakers) \in Nat /\ Cardinality(PlaceTakers') = Cardinality(PlaceTakers)
        /\ Cardinality(ItemOwers) \in Nat /\ Cardinality(ItemOwers') = Cardinality(ItemOwers)
    BY <2>1, GetCounts
  <2>5. /\ first_sem' = first_sem
        /\ last_sem' = last_sem + 1
        /\ Len(queue') = Len(queue)
    BY <1>18, <1>a DEF GetQuit
  <2>6. PlacesBalance'
    BY <1>a, <1>b, <2>3, <2>4, <2>5 DEF PlacesBalance
  <2>7. ItemsBalance'
    BY <1>a, <2>3, <2>4, <2>5 DEF ItemsBalance
  <2> QED BY <2>6, <2>7
<1>19. ASSUME NEW c \in Consumers, GetQuitUnlock(c) PROVE Goal
  BY <1>19, GetKeepsBalance DEF GetQuitUnlock, OwingPlace, TakingItem
<1>20. ASSUME NEW t \in Droppers, DropBegin(t) PROVE Goal
  <2>1. CASE t \in Producers
    BY <1>20, <2>1, PutKeepsBalance DEF DropBegin, TakingPlace, OwingItem
  <2>2. CASE t = Main
    BY <1>20, <2>2, MainKeepsBalance DEF DropBegin, Dropped, TypeOK
  <2> QED BY <2>1, <2>2
<1>21. ASSUME NEW t \in Droppers, DropLock(t) PROVE Goal
  BY <1>21, LockHolderSkipsDropLock, MainKeepsBalance DEF DropLock, Dropped, TypeOK
<1>22. ASSUME NEW t \in Droppers, DropFirst(t) PROVE Goal
  BY <1>22, OnlyMainDrops, MainKeepsBalance DEF DropFirst, Dropped, TypeOK
<1>23. ASSUME NEW t \in Droppers, DropLast(t) PROVE Goal
  BY <1>23, OnlyMainDrops, MainKeepsBalance DEF DropLast, Dropped, TypeOK
<1>24. ASSUME NEW t \in Droppers, DropFree(t) PROVE Goal
  BY <1>24, OnlyMainDrops, MainKeepsBalance DEF DropFree, Dropped, TypeOK
<1>25. ASSUME NEW t \in Droppers, DropUnlock(t) PROVE Goal
  BY <1>25, OnlyMainDrops, MainKeepsBalance DEF DropUnlock, Dropped, TypeOK
<1>26. CASE Join
  BY <1>26, MainKeepsBalance DEF Join, Dropped, TypeOK
<1>27. CASE Terminated
  BY <1>27 DEF Terminated, vars, Dropped, PlaceTakers, PlaceOwers, ItemTakers, ItemOwers,
               At, PlacesBalance, ItemsBalance
<1> QED BY <1>1, <1>2, <1>3, <1>4, <1>5, <1>6, <1>7, <1>8, <1>9, <1>10, <1>11,
         <1>12, <1>13, <1>14, <1>15, <1>16, <1>17, <1>18, <1>19, <1>20, <1>21,
         <1>22, <1>23, <1>24, <1>25, <1>26, <1>27 DEF Next, Put, Get, DropRest

(* A get that is about to unlink a node is counted among those the list   *)
(* owes a message, so the list is not empty.                              *)
LEMMA GetFindsMessageFollows ==
  ASSUME TypeOK, DropOrder, ItemsBalance
  PROVE  GetFindsMessage
<1> SUFFICES ASSUME NEW c \in Consumers, pc[c] = "getRemove", queue = <<>>
             PROVE  FALSE
  BY DEF GetFindsMessage
<1>1. ~Dropped
  BY Roles DEF DropOrder
<1>2. c \in ItemTakers
  BY DEF ItemTakers, At, TakingItem
<1>3. IsFiniteSet(ItemTakers) /\ IsFiniteSet(ItemOwers)
  BY ConstantsAssumption, FS_Subset DEF ItemTakers, ItemOwers, At
<1>4. Cardinality(ItemTakers) \in Nat /\ Cardinality(ItemOwers) \in Nat
  BY <1>3, FS_CardinalityType
<1>5. Cardinality(ItemTakers) = Cardinality(ItemTakers \ {c}) + 1
      /\ Cardinality(ItemTakers \ {c}) \in Nat
  BY <1>2, <1>3, CardinalityWithout
<1>6. last_sem + Cardinality(ItemTakers) + Cardinality(ItemOwers) = 0
  BY <1>1 DEF ItemsBalance
<1>7. last_sem \in Nat
  BY DEF TypeOK
<1> QED BY <1>4, <1>5, <1>6, <1>7

(* Before drop() takes the list the capacity bound is part of the balance;   *)
(* afterwards the list does not grow.                                       *)
LEMMA CapacityStep ==
  ASSUME TypeOK, TypeOK', ThreadPlaces, DropOrder, CapacityBound, PlacesBalance', Next
  PROVE  CapacityBound'
<1>1. CASE ~Dropped'
  <2>1. /\ first_sem' \in Nat /\ queue' \in Seq(Nodes)
    BY DEF TypeOK
  <2>2. Cardinality(PlaceTakers') \in Nat /\ Cardinality(PlaceOwers') \in Nat
    <3>1. PlaceTakers' \in SUBSET Producers /\ PlaceOwers' \in SUBSET Consumers
      BY DEF PlaceTakers, PlaceOwers, At
    <3> QED BY <3>1, ConstantsAssumption, FS_Subset, FS_CardinalityType
  <2>3. first_sem' + Cardinality(PlaceTakers') + Len(queue')
        + Cardinality(PlaceOwers') = Capacity
    BY <1>1 DEF PlacesBalance
  <2> QED BY <2>1, <2>2, <2>3, ConstantsAssumption DEF CapacityBound
<1>2. CASE Dropped'
  <2>1. \A p \in Producers : ~PutInsert(p)
    BY <1>2, Roles DEF DropOrder, PutInsert, Goto, Dropped, TypeOK
  <2>2. queue' = queue \/ (queue # <<>> /\ queue' = Tail(queue)) \/ queue' = <<>>
    BY <2>1 DEF Next, Put, Get, DropRest, mem, vars, PutWait, PutLock, PutCheck,
                PutNoMemory, PutUnlock, PutSignal, PutReturn, PutQuit, PutQuitUnlock,
                GetWait, GetLock, GetCheck, GetRemove, GetUnlock, GetCopy, GetSignal,
                GetQuit, GetQuitUnlock, DropBegin, DropLock, DropFirst, DropLast,
                DropFree, DropUnlock, Join, Terminated
  <2> QED BY <2>2, ConstantsAssumption DEF CapacityBound, TypeOK
<1> QED BY <1>1, <1>2

(* A step that leaves the list, the heap and the consumers that hold a node as *)
(* they are keeps the accounts of the nodes.                               *)
LEMMA NodesKept ==
  ASSUME NodesAccounted, UNCHANGED <<queue, value>>, Holders' = Holders,
         \A c \in Holders : l'[c] = l[c]
  PROVE  NodesAccounted'
<1>1. Linked' = Linked /\ FreeNodes' = FreeNodes
  BY DEF Linked, FreeNodes
<1>2. {l'[c] : c \in Holders'} = {l[c] : c \in Holders}
  OBVIOUS
<1>3. Nodes \ FreeNodes' = Linked' \cup {l'[c] : c \in Holders'}
  BY <1>1, <1>2 DEF NodesAccounted
<1>4. \A c \in Holders' : l'[c] \in Nodes \ Linked'
  BY <1>1 DEF NodesAccounted
<1>5. \A c, d \in Holders' : l'[c] = l'[d] => c = d
  BY DEF NodesAccounted
<1>6. \A i, j \in DOMAIN queue' : queue'[i] = queue'[j] => i = j
  BY DEF NodesAccounted
<1> QED BY <1>3, <1>4, <1>5, <1>6 DEF NodesAccounted

(* A step of a thread that is no consumer, or of one that neither unlinks *)
(* nor frees, keeps the set of consumers holding a node.                  *)
LEMMA HoldersStep ==
  ASSUME TypeOK, NEW t \in Threads, NEW to, pc' = [pc EXCEPT ![t] = to]
  PROVE  /\ t \notin Consumers => Holders' = Holders
         /\ pc[t] \notin {"getUnlock", "getCopy"} /\ to \notin {"getUnlock", "getCopy"}
              => Holders' = Holders
         /\ pc[t] \in {"getUnlock", "getCopy"} /\ to \in {"getUnlock", "getCopy"}
              => Holders' = Holders
         /\ t \in Consumers /\ to \in {"getUnlock", "getCopy"}
              => Holders' = Holders \cup {t}
         /\ to \notin {"getUnlock", "getCopy"} => Holders' = Holders \ {t}
<1>1. \A s \in Threads : pc'[s] = IF s = t THEN to ELSE pc[s]
  BY DEF TypeOK
<1> QED BY <1>1, Roles DEF Holders, At

(* What the sequence of nodes is after a new one is appended.             *)
LEMMA AppendFacts ==
  ASSUME NEW S, NEW q \in Seq(S), NEW x \in S
  PROVE  /\ DOMAIN q = 1..Len(q)
         /\ DOMAIN Append(q, x) = 1..(Len(q) + 1)
         /\ \A i \in DOMAIN q : Append(q, x)[i] = q[i]
         /\ Append(q, x)[Len(q) + 1] = x
OBVIOUS

(* What the sequence of nodes is after the oldest one is removed.         *)
LEMMA TailFacts ==
  ASSUME NEW S, NEW q \in Seq(S), q # <<>>
  PROVE  /\ DOMAIN q = 1..Len(q) /\ 1 \in DOMAIN q
         /\ Head(q) = q[1] /\ Head(q) \in S
         /\ DOMAIN Tail(q) = 1..(Len(q) - 1)
         /\ \A i \in DOMAIN Tail(q) : Tail(q)[i] = q[i + 1]
OBVIOUS

(* Every step of put, get and drop keeps the accounts of the nodes: none  *)
(* is leaked, shared or freed twice.                                      *)
LEMMA NodesStep ==
  ASSUME TypeOK, TypeOK', ThreadPlaces, GetFindsMessage, NodesAccounted, Next
  PROVE  NodesAccounted'
<1> USE Roles DEF Goto, mem
<1>a. Holders \subseteq Consumers
  BY DEF Holders, At
<1>b. Len(queue) \in Nat
  BY DEF TypeOK
<1>1. ASSUME NEW p \in Producers, PutWait(p) PROVE NodesAccounted'
  BY <1>1, NodesKept, HoldersStep DEF PutWait
<1>2. ASSUME NEW p \in Producers, PutLock(p) PROVE NodesAccounted'
  BY <1>2, NodesKept, HoldersStep DEF PutLock
<1>3. ASSUME NEW p \in Producers, PutCheck(p) PROVE NodesAccounted'
  BY <1>3, NodesKept, HoldersStep DEF PutCheck
<1>4. ASSUME NEW p \in Producers, PutInsert(p) PROVE NodesAccounted'
  <2>1. PICK n \in FreeNodes, m \in Messages :
          /\ value' = [value EXCEPT ![n] = m]
          /\ queue' = Append(queue, n)
          /\ l' = [l EXCEPT ![p] = n]
    BY <1>4 DEF PutInsert
  <2>2. Holders' = Holders /\ \A c \in Holders : l'[c] = l[c]
    <3>1. Holders' = Holders
      BY <1>4, HoldersStep DEF PutInsert
    <3>2. \A c \in Consumers : l'[c] = l[c]
      BY <2>1 DEF TypeOK
    <3> QED BY <1>a, <3>1, <3>2
  <2>3. n \in Nodes /\ n \notin Linked /\ \A c \in Holders : n # l[c]
    BY <2>1 DEF NodesAccounted, FreeNodes
  <2>4. FreeNodes' = FreeNodes \ {n}
    BY <2>1, ConstantsAssumption DEF FreeNodes, TypeOK
  <2>5. /\ DOMAIN queue' = 1..(Len(queue) + 1) /\ DOMAIN queue = 1..Len(queue)
        /\ \A i \in DOMAIN queue : queue'[i] = queue[i]
        /\ queue'[Len(queue) + 1] = n
    BY <2>1, <2>3, AppendFacts DEF TypeOK
  <2>6. Linked' = Linked \cup {n}
    BY <2>5, <1>b DEF Linked
  <2>7. \A i, j \in DOMAIN queue' : queue'[i] = queue'[j] => i = j
    BY <2>3, <2>5, <1>b DEF NodesAccounted, Linked
  <2>8. /\ \A c, d \in Holders' : l'[c] = l'[d] => c = d
        /\ \A c \in Holders' : l'[c] \in Nodes \ Linked'
    BY <2>2, <2>3, <2>6 DEF NodesAccounted
  <2>9. Nodes \ FreeNodes' = Linked' \cup {l'[c] : c \in Holders'}
    BY <2>2, <2>3, <2>4, <2>6 DEF NodesAccounted
  <2> QED BY <2>7, <2>8, <2>9 DEF NodesAccounted
<1>5. ASSUME NEW p \in Producers, PutNoMemory(p) PROVE NodesAccounted'
  BY <1>5, NodesKept, HoldersStep DEF PutNoMemory
<1>6. ASSUME NEW p \in Producers, PutUnlock(p) PROVE NodesAccounted'
  BY <1>6, NodesKept, HoldersStep DEF PutUnlock
<1>7. ASSUME NEW p \in Producers, PutSignal(p) PROVE NodesAccounted'
  BY <1>7, NodesKept, HoldersStep DEF PutSignal
<1>8. ASSUME NEW p \in Producers, PutReturn(p) PROVE NodesAccounted'
  <2>1. Holders' = Holders /\ \A c \in Holders : l'[c] = l[c]
    <3>1. Holders' = Holders
      BY <1>8, HoldersStep DEF PutReturn
    <3>2. \A c \in Consumers : l'[c] = l[c]
      BY <1>8 DEF PutReturn, TypeOK
    <3> QED BY <1>a, <3>1, <3>2
  <2> QED BY <1>8, <2>1, NodesKept DEF PutReturn
<1>9. ASSUME NEW p \in Producers, PutQuit(p) PROVE NodesAccounted'
  BY <1>9, NodesKept, HoldersStep DEF PutQuit
<1>10. ASSUME NEW p \in Producers, PutQuitUnlock(p) PROVE NodesAccounted'
  BY <1>10, NodesKept, HoldersStep DEF PutQuitUnlock
<1>11. ASSUME NEW c \in Consumers, GetWait(c) PROVE NodesAccounted'
  BY <1>11, NodesKept, HoldersStep DEF GetWait
<1>12. ASSUME NEW c \in Consumers, GetLock(c) PROVE NodesAccounted'
  BY <1>12, NodesKept, HoldersStep DEF GetLock
<1>13. ASSUME NEW c \in Consumers, GetCheck(c) PROVE NodesAccounted'
  <2>1. PICK to \in {"getQuit", "getRemove"} :
          pc[c] = "getCheck" /\ pc' = [pc EXCEPT ![c] = to]
    BY <1>13 DEF GetCheck
  <2>2. Holders' = Holders
    BY <2>1, HoldersStep
  <2> QED BY <1>13, <2>2, NodesKept DEF GetCheck
<1>14. ASSUME NEW c \in Consumers, GetRemove(c) PROVE NodesAccounted'
  <2>1. queue # <<>>
    BY <1>14 DEF GetRemove, GetFindsMessage
  <2>2. /\ l' = [l EXCEPT ![c] = Head(queue)]
        /\ queue' = Tail(queue)
        /\ value' = value
    BY <1>14, <2>1 DEF GetRemove
  <2>3. Holders' = Holders \cup {c} /\ c \notin Holders
    BY <1>14, HoldersStep DEF GetRemove, Holders, At
  <2>4. /\ DOMAIN queue = 1..Len(queue) /\ 1 \in DOMAIN queue
        /\ Head(queue) = queue[1] /\ Head(queue) \in Nodes
        /\ DOMAIN queue' = 1..(Len(queue) - 1)
        /\ \A i \in DOMAIN queue' : queue'[i] = queue[i + 1]
    BY <2>1, <2>2, TailFacts DEF TypeOK
  <2>5. Head(queue) \in Linked
    BY <2>4 DEF Linked
  <2>6. Linked' = Linked \ {Head(queue)}
    <3>1. \A i \in DOMAIN queue : i = 1 \/ (i - 1 \in DOMAIN queue' /\ queue'[i - 1] = queue[i])
      BY <2>4, <1>b
    <3>2. \A i \in DOMAIN queue' : i + 1 \in DOMAIN queue /\ i + 1 # 1
      BY <2>4, <1>b
    <3>3. \A x \in Linked : x = Head(queue) \/ x \in Linked'
      BY <2>4, <3>1 DEF Linked
    <3>4. \A x \in Linked' : x \in Linked /\ x # Head(queue)
      BY <2>4, <3>2 DEF Linked, NodesAccounted
    <3> QED BY <3>3, <3>4, <2>5
  <2>7. \A i, j \in DOMAIN queue' : queue'[i] = queue'[j] => i = j
    <3>1. \A i, j \in DOMAIN queue' : /\ i + 1 \in DOMAIN queue /\ j + 1 \in DOMAIN queue
                                      /\ i + 1 = j + 1 => i = j
      BY <2>4, <1>b
    <3> QED BY <2>4, <3>1 DEF NodesAccounted
  <2>8. \A d \in Holders : l'[d] = l[d] /\ l[d] # Head(queue)
    BY <2>2, <2>3, <2>5, <1>a DEF NodesAccounted, TypeOK
  <2>9. l'[c] = Head(queue)
    BY <2>2 DEF TypeOK
  <2>10. /\ \A d, e \in Holders' : l'[d] = l'[e] => d = e
         /\ \A d \in Holders' : l'[d] \in Nodes \ Linked'
    BY <2>3, <2>4, <2>6, <2>8, <2>9 DEF NodesAccounted
  <2>11. {l'[d] : d \in Holders'} = {l[d] : d \in Holders} \cup {Head(queue)}
    BY <2>3, <2>8, <2>9
  <2>12. FreeNodes' = FreeNodes
    BY <2>2 DEF FreeNodes
  <2>13. Nodes \ FreeNodes' = Linked' \cup {l'[d] : d \in Holders'}
    BY <2>5, <2>6, <2>11, <2>12 DEF NodesAccounted
  <2> QED BY <2>7, <2>10, <2>13 DEF NodesAccounted
<1>15. ASSUME NEW c \in Consumers, GetUnlock(c) PROVE NodesAccounted'
  BY <1>15, NodesKept, HoldersStep DEF GetUnlock
<1>16. ASSUME NEW c \in Consumers, GetCopy(c) PROVE NodesAccounted'
  <2>1. c \in Holders /\ Holders' = Holders \ {c}
    <3>1. c \in Holders
      BY <1>16 DEF GetCopy, Holders, At
    <3>2. pc' = [pc EXCEPT ![c] = "getSignal"]
      BY <1>16 DEF GetCopy
    <3>3. "getSignal" \notin {"getUnlock", "getCopy"}
      OBVIOUS
    <3>4. Holders' = Holders \ {c}
      BY <3>2, <3>3, HoldersStep
    <3> QED BY <3>1, <3>4
  <2>2. /\ l[c] \in Nodes \ Linked
        /\ \A d \in Holders' : l'[d] = l[d] /\ l[d] # l[c]
    BY <1>16, <1>a, <2>1 DEF GetCopy, NodesAccounted, TypeOK
  <2>3. queue' = queue /\ Linked' = Linked
    BY <1>16 DEF GetCopy, Linked
  <2>4. FreeNodes' = FreeNodes \cup {l[c]}
    BY <1>16, <2>2 DEF GetCopy, FreeNodes, TypeOK
  <2>5. {l[d] : d \in Holders} = {l'[d] : d \in Holders'} \cup {l[c]}
    BY <2>1, <2>2
  <2>6. l[c] \notin {l'[d] : d \in Holders'}
    BY <2>2
  <2>7. Nodes \ FreeNodes' = Linked' \cup {l'[d] : d \in Holders'}
    BY <2>2, <2>3, <2>4, <2>5, <2>6 DEF NodesAccounted
  <2>8. /\ \A d, e \in Holders' : l'[d] = l'[e] => d = e
        /\ \A d \in Holders' : l'[d] \in Nodes \ Linked'
    BY <2>1, <2>2, <2>3 DEF NodesAccounted
  <2> QED BY <2>3, <2>7, <2>8 DEF NodesAccounted
<1>17. ASSUME NEW c \in Consumers, GetSignal(c) PROVE NodesAccounted'
  BY <1>17, NodesKept, HoldersStep DEF GetSignal
<1>18. ASSUME NEW c \in Consumers, GetQuit(c) PROVE NodesAccounted'
  BY <1>18, NodesKept, HoldersStep DEF GetQuit
<1>19. ASSUME NEW c \in Consumers, GetQuitUnlock(c) PROVE NodesAccounted'
  BY <1>19, NodesKept, HoldersStep DEF GetQuitUnlock
<1>20. ASSUME NEW t \in Droppers, DropBegin(t) PROVE NodesAccounted'
  BY <1>20, NodesKept, HoldersStep DEF DropBegin
<1>21. ASSUME NEW t \in Droppers, DropLock(t) PROVE NodesAccounted'
  BY <1>21, NodesKept, HoldersStep DEF DropLock
<1>22. ASSUME NEW t \in Droppers, DropFirst(t) PROVE NodesAccounted'
  BY <1>22, NodesKept, HoldersStep DEF DropFirst
<1>23. ASSUME NEW t \in Droppers, DropLast(t) PROVE NodesAccounted'
  BY <1>23, NodesKept, HoldersStep DEF DropLast
<1>24. ASSUME NEW t \in Droppers, DropFree(t) PROVE NodesAccounted'
  <2>1. Holders' = Holders /\ \A c \in Holders : l'[c] = l[c]
    BY <1>24, HoldersStep, OnlyMainDrops DEF DropFree
  <2>2. queue' = <<>> /\ Linked' = {} /\ DOMAIN queue' = {}
    BY <1>24 DEF DropFree, Linked
  <2>3. FreeNodes' = FreeNodes \cup Linked
    <3>1. Linked \subseteq Nodes
      BY DEF NodesAccounted
    <3> QED BY <1>24, <3>1 DEF DropFree, FreeNodes
  <2>4. {l'[c] : c \in Holders'} = {l[c] : c \in Holders}
    BY <2>1
  <2>5. \A c \in Holders : l[c] \in Nodes \ Linked
    BY DEF NodesAccounted
  <2>6. Nodes \ FreeNodes' = Linked' \cup {l'[c] : c \in Holders'}
    BY <2>2, <2>3, <2>4, <2>5 DEF NodesAccounted
  <2> QED BY <2>1, <2>2, <2>5, <2>6 DEF NodesAccounted
<1>25. ASSUME NEW t \in Droppers, DropUnlock(t) PROVE NodesAccounted'
  BY <1>25, NodesKept, HoldersStep DEF DropUnlock
<1>26. CASE Join
  BY <1>26, NodesKept, HoldersStep DEF Join
<1>27. CASE Terminated
  <2>1. Holders' = Holders
    BY <1>27 DEF Terminated, vars, Holders, At
  <2> QED BY <1>27, <2>1, NodesKept DEF Terminated, vars
<1> QED BY <1>1, <1>2, <1>3, <1>4, <1>5, <1>6, <1>7, <1>8, <1>9, <1>10, <1>11,
         <1>12, <1>13, <1>14, <1>15, <1>16, <1>17, <1>18, <1>19, <1>20, <1>21,
         <1>22, <1>23, <1>24, <1>25, <1>26, <1>27 DEF Next, Put, Get, DropRest

-----------------------------------------------------------------------------
(* IInv is an inductive invariant ... *)

LEMMA Initially == Init => IInv
<1> SUFFICES ASSUME Init PROVE IInv
  OBVIOUS
<1> USE Roles DEF Init
<1>1. ThreadPlaces /\ TypeOK
  <2>1. ThreadPlaces
    BY DEF ThreadPlaces, PutPlaces, GetPlaces, MainPlaces
  <2>2. pc \in [Threads -> PutPlaces \cup GetPlaces \cup MainPlaces]
    BY DEF PutPlaces, GetPlaces, MainPlaces
  <2>3. first_sem \in Nat /\ last_sem \in Nat /\ queue_sem \in Nat
    BY ConstantsAssumption
  <2>4. destroying \in BOOLEAN /\ qAlive \in BOOLEAN
    OBVIOUS
  <2>6. queue \in Seq(Nodes)
    <3>1. <<>> \in Seq(Nodes)
      OBVIOUS
    <3> QED BY <3>1
  <2>5. /\ value \in [Nodes -> Messages \cup {NoMessage}]
        /\ l \in [Workers -> Nodes \cup {NoNode}]
        /\ buffer \in [Consumers -> Messages \cup {NoMessage}]
    OBVIOUS
  <2> HIDE DEF Init
  <2> QED BY <2>1, <2>2, <2>3, <2>4, <2>5, <2>6 DEF TypeOK
<1>2. pc[Main] = "drop" /\ ~Dropped
  BY DEF Dropped, Threads
<1>3. /\ PlaceTakers = {} /\ PlaceOwers = {} /\ ItemTakers = {} /\ ItemOwers = {}
      /\ Holders = {} /\ InList = {}
  BY DEF PlaceTakers, PlaceOwers, ItemTakers, ItemOwers, Holders, InList, At,
         TakingPlace, OwingPlace, TakingItem, OwingItem, ListPlaces
<1>4. DropOrder
  BY <1>2 DEF DropOrder
<1>5. ListExclusive
  BY <1>3 DEF ListExclusive
<1>6. PlacesBalance /\ ItemsBalance /\ CapacityBound
  BY <1>3, FS_EmptySet, ConstantsAssumption DEF PlacesBalance, ItemsBalance, CapacityBound
<1>7. NodesAccounted
  BY <1>3 DEF NodesAccounted, Linked, FreeNodes
<1> QED BY <1>1, <1>4, <1>5, <1>6, <1>7 DEF IInv

(* ... that every step of every thread preserves.                         *)
LEMMA Inductive == IInv /\ [Next]_vars => IInv'
<1> SUFFICES ASSUME IInv, [Next]_vars PROVE IInv'
  OBVIOUS
<1>1. CASE Next
  <2>1. GetFindsMessage
    BY GetFindsMessageFollows DEF IInv
  <2>2. TypeOK' /\ ThreadPlaces'
    BY <1>1, <2>1, TypeStep, PcStep DEF IInv
  <2>3. ListExclusive' /\ DropOrder'
    BY <1>1, ListExclusiveStep, DropOrderStep DEF IInv
  <2>4. PlacesBalance' /\ ItemsBalance'
    BY <1>1, <2>1, <2>2, BalanceStep DEF IInv
  <2>5. CapacityBound'
    BY <1>1, <2>2, <2>4, CapacityStep DEF IInv
  <2>6. NodesAccounted'
    BY <1>1, <2>1, <2>2, NodesStep DEF IInv
  <2> QED BY <2>2, <2>3, <2>4, <2>5, <2>6 DEF IInv
<1>2. CASE UNCHANGED vars
  <2> USE <1>2 DEF vars
  <2>1. TypeOK' /\ ThreadPlaces'
    BY DEF IInv, TypeOK, ThreadPlaces
  <2>2. ListExclusive' /\ DropOrder'
    BY DEF IInv, ListExclusive, InList, DropOrder, Dropped
  <2>3. PlacesBalance' /\ ItemsBalance' /\ CapacityBound'
    BY DEF IInv, PlacesBalance, ItemsBalance, CapacityBound, Dropped,
           PlaceTakers, PlaceOwers, ItemTakers, ItemOwers, At
  <2>4. NodesAccounted'
    BY NodesKept DEF IInv, Holders, At
  <2> QED BY <2>1, <2>2, <2>3, <2>4 DEF IInv
<1> QED BY <1>1, <1>2

(* So it holds in every reachable state of the queue, for any number of   *)
(* threads, messages and places.                                          *)
THEOREM Invariance == Spec => []IInv
BY Initially, Inductive, PTL DEF Spec

-----------------------------------------------------------------------------
(* ... from which the properties of the runs follow. *)

(* Every semaphore stays non-negative and every variable in its type. *)
THEOREM TypeCorrectness == Spec => []TypeOK
<1>1. IInv => TypeOK
  BY DEF IInv
<1> QED BY <1>1, Invariance, PTL

(* Until drop() takes the list no place of the queue is lost or doubled.   *)
THEOREM PlacesConserved == Spec => []PlacesBalance
<1>1. IInv => PlacesBalance
  BY DEF IInv
<1> QED BY <1>1, Invariance, PTL

(* Until drop() takes the list every message in it is announced once.      *)
THEOREM ItemsConserved == Spec => []ItemsBalance
<1>1. IInv => ItemsBalance
  BY DEF IInv
<1> QED BY <1>1, Invariance, PTL

(* The two semaphores and the list agree until drop() takes the list.      *)
THEOREM PermitsConserved == Spec => []PermitsBalance
<1>1. IInv => PermitsBalance
  BY DEF IInv, PermitsBalance
<1> QED BY <1>1, Invariance, PTL

(* queue_sem is a lock on every path through put, get and drop, the path on *)
(* which put runs out of memory included.                                   *)
THEOREM MutualExclusion == Spec => []ListExclusive
<1>1. IInv => ListExclusive
  BY DEF IInv
<1> QED BY <1>1, Invariance, PTL

(* The queue never holds more than Capacity messages, although put compares *)
(* nothing with a capacity: the semaphore's permits are all there is.       *)
THEOREM BoundedQueue == Spec => []CapacityBound
<1>1. IInv => CapacityBound
  BY DEF IInv
<1> QED BY <1>1, Invariance, PTL

(* get never takes from an empty list, drop() and passed-on permits or not. *)
THEOREM GetNeverStarves == Spec => []GetFindsMessage
<1>1. IInv => GetFindsMessage
  BY GetFindsMessageFollows DEF IInv
<1> QED BY <1>1, Invariance, PTL

(* q is never used after drop() freed it, nor freed twice. *)
THEOREM NoUseAfterFree == Spec => []ListAliveWhenUsed
<1>1. IInv => ListAliveWhenUsed
  <2> SUFFICES ASSUME IInv, NEW t \in Threads,
                      pc[t] \in {"putInsert", "getRemove", "dropFree"}
               PROVE  qAlive
    BY DEF ListAliveWhenUsed
  <2>1. CASE pc[t] \in {"putInsert", "getRemove"}
    BY <2>1 DEF IInv, DropOrder, Dropped
  <2>2. CASE pc[t] = "dropFree"
    <3>1. t = Main
      BY <2>2, Roles DEF IInv, ThreadPlaces, PutPlaces, GetPlaces, Threads, Workers
    <3> QED BY <2>2, <3>1 DEF IInv, DropOrder
  <2> QED BY <2>1, <2>2
<1> QED BY <1>1, Invariance, PTL

(* Every heap cell is free, or linked, or in the hands of exactly one get:  *)
(* nothing leaks and nothing is freed twice.                                *)
THEOREM NoLeak == Spec => []NodesAccounted
<1>1. IInv => NodesAccounted
  BY DEF IInv
<1> QED BY <1>1, Invariance, PTL

(* While a put that ran out of memory waits in drop() for the lock it holds, *)
(* nobody links, unlinks or frees anything: the queue is dead, not damaged.  *)
THEOREM DeadNotDamaged == Spec => FrozenAfterNoMemory
<1> DEFINE Stuck == \E p \in Producers : pc[p] = "dropLock"
<1>1. IInv /\ [Next]_vars => (Stuck => UNCHANGED <<queue, qAlive>>)
  <2> SUFFICES ASSUME IInv, [Next]_vars, NEW p \in Producers, pc[p] = "dropLock"
               PROVE  UNCHANGED <<queue, qAlive>>
    OBVIOUS
  <2> USE Roles DEF Goto, mem
  <2>1. /\ \A t \in InList : t = p
        /\ p \in InList
    BY DEF IInv, ListExclusive, InList
  <2>2. \A t \in Threads : pc[t] \notin {"putInsert", "getRemove", "dropFree"}
    BY <2>1 DEF InList, ListPlaces
  <2>3. CASE UNCHANGED vars
    BY <2>3 DEF vars
  <2>4. ASSUME NEW q \in Producers, Put(q)
        PROVE  UNCHANGED <<queue, qAlive>>
    BY <2>2, <2>4 DEF Put, PutWait, PutLock, PutCheck, PutInsert, PutNoMemory,
                      PutUnlock, PutSignal, PutReturn, PutQuit, PutQuitUnlock
  <2>5. ASSUME NEW c \in Consumers, Get(c)
        PROVE  UNCHANGED <<queue, qAlive>>
    BY <2>2, <2>5 DEF Get, GetWait, GetLock, GetCheck, GetRemove, GetUnlock,
                      GetCopy, GetSignal, GetQuit, GetQuitUnlock
  <2>6. ASSUME NEW t \in Droppers, DropBegin(t) \/ DropRest(t)
        PROVE  UNCHANGED <<queue, qAlive>>
    BY <2>2, <2>6 DEF DropBegin, DropRest, DropLock, DropFirst, DropLast,
                      DropFree, DropUnlock
  <2>7. CASE Join
    BY <2>7 DEF Join
  <2>8. CASE Terminated
    BY <2>8 DEF Terminated, vars
  <2> QED BY <2>3, <2>4, <2>5, <2>6, <2>7, <2>8 DEF Next
<1> QED BY <1>1, Invariance, PTL DEF Spec, FrozenAfterNoMemory

-----------------------------------------------------------------------------
(* The refinement of MsgChannel: linking a node in put is Accept, unlinking  *)
(* one in get is Deliver, setting destroying is StartShutting, taking the    *)
(* list in drop() is Shut, returning 0 is Dismiss, and every other step      *)
(* leaves the channel as it is.                                              *)

(* The code that returns 0, and the invariant that a thread in it has seen  *)
(* destroying.                                                              *)
QuitPlaces == {"putQuit", "putQuitUnlock", "getQuit", "getQuitUnlock"}
QuitOrder == \A t \in Workers : pc[t] \in QuitPlaces => destroying

(* A step enters that code only after it has seen destroying, which is      *)
(* never cleared.                                                           *)
LEMMA QuitMove ==
  ASSUME TypeOK, QuitOrder, NEW t \in Threads, NEW to, pc' = [pc EXCEPT ![t] = to],
         destroying' = destroying \/ destroying' = TRUE,
         to \in QuitPlaces => destroying \/ (t \in Workers /\ pc[t] \in QuitPlaces)
  PROVE  QuitOrder'
<1>1. \A s \in Threads : pc'[s] = IF s = t THEN to ELSE pc[s]
  BY DEF TypeOK
<1> QED BY <1>1, Roles DEF QuitOrder, Workers, Threads

(* Only the check of destroying leads to the code that returns 0.           *)
LEMMA QuitOrderStep ==
  ASSUME TypeOK, ThreadPlaces, ListExclusive, QuitOrder, Next
  PROVE  QuitOrder'
<1> USE Roles DEF Goto, QuitPlaces
<1>1. ASSUME NEW p \in Producers, PutWait(p) PROVE QuitOrder'
  BY <1>1, QuitMove DEF PutWait
<1>2. ASSUME NEW p \in Producers, PutLock(p) PROVE QuitOrder'
  BY <1>2, QuitMove DEF PutLock
<1>3. ASSUME NEW p \in Producers, PutCheck(p) PROVE QuitOrder'
  BY <1>3, QuitMove DEF PutCheck
<1>4. ASSUME NEW p \in Producers, PutInsert(p) PROVE QuitOrder'
  BY <1>4, QuitMove DEF PutInsert
<1>5. ASSUME NEW p \in Producers, PutNoMemory(p) PROVE QuitOrder'
  BY <1>5, QuitMove DEF PutNoMemory
<1>6. ASSUME NEW p \in Producers, PutUnlock(p) PROVE QuitOrder'
  BY <1>6, QuitMove DEF PutUnlock
<1>7. ASSUME NEW p \in Producers, PutSignal(p) PROVE QuitOrder'
  BY <1>7, QuitMove DEF PutSignal
<1>8. ASSUME NEW p \in Producers, PutReturn(p) PROVE QuitOrder'
  BY <1>8, QuitMove DEF PutReturn
<1>9. ASSUME NEW p \in Producers, PutQuit(p) PROVE QuitOrder'
  BY <1>9, QuitMove DEF PutQuit
<1>10. ASSUME NEW p \in Producers, PutQuitUnlock(p) PROVE QuitOrder'
  BY <1>10, QuitMove DEF PutQuitUnlock
<1>11. ASSUME NEW c \in Consumers, GetWait(c) PROVE QuitOrder'
  BY <1>11, QuitMove DEF GetWait
<1>12. ASSUME NEW c \in Consumers, GetLock(c) PROVE QuitOrder'
  BY <1>12, QuitMove DEF GetLock
<1>13. ASSUME NEW c \in Consumers, GetCheck(c) PROVE QuitOrder'
  BY <1>13, QuitMove DEF GetCheck
<1>14. ASSUME NEW c \in Consumers, GetRemove(c) PROVE QuitOrder'
  BY <1>14, QuitMove DEF GetRemove
<1>15. ASSUME NEW c \in Consumers, GetUnlock(c) PROVE QuitOrder'
  BY <1>15, QuitMove DEF GetUnlock
<1>16. ASSUME NEW c \in Consumers, GetCopy(c) PROVE QuitOrder'
  BY <1>16, QuitMove DEF GetCopy
<1>17. ASSUME NEW c \in Consumers, GetSignal(c) PROVE QuitOrder'
  BY <1>17, QuitMove DEF GetSignal
<1>18. ASSUME NEW c \in Consumers, GetQuit(c) PROVE QuitOrder'
  BY <1>18, QuitMove DEF GetQuit
<1>19. ASSUME NEW c \in Consumers, GetQuitUnlock(c) PROVE QuitOrder'
  BY <1>19, QuitMove DEF GetQuitUnlock
<1>20. ASSUME NEW t \in Droppers, DropBegin(t) PROVE QuitOrder'
  BY <1>20, QuitMove DEF DropBegin
<1>21. ASSUME NEW t \in Droppers, DropLock(t) PROVE QuitOrder'
  BY <1>21, QuitMove, LockHolderSkipsDropLock DEF DropLock
<1>22. ASSUME NEW t \in Droppers, DropFirst(t) PROVE QuitOrder'
  BY <1>22, QuitMove, OnlyMainDrops DEF DropFirst
<1>23. ASSUME NEW t \in Droppers, DropLast(t) PROVE QuitOrder'
  BY <1>23, QuitMove, OnlyMainDrops DEF DropLast
<1>24. ASSUME NEW t \in Droppers, DropFree(t) PROVE QuitOrder'
  BY <1>24, QuitMove, OnlyMainDrops DEF DropFree
<1>25. ASSUME NEW t \in Droppers, DropUnlock(t) PROVE QuitOrder'
  BY <1>25, QuitMove, OnlyMainDrops DEF DropUnlock
<1>26. CASE Join
  BY <1>26, QuitMove DEF Join
<1>27. CASE Terminated
  BY <1>27 DEF Terminated, vars, QuitOrder
<1> QED BY <1>1, <1>2, <1>3, <1>4, <1>5, <1>6, <1>7, <1>8, <1>9, <1>10, <1>11,
         <1>12, <1>13, <1>14, <1>15, <1>16, <1>17, <1>18, <1>19, <1>20, <1>21,
         <1>22, <1>23, <1>24, <1>25, <1>26, <1>27 DEF Next, Put, Get, DropRest

(* Whoever is being turned away has seen destroying, in every reachable state. *)
LEMMA QuitOrderInvariant == Spec => []QuitOrder
<1>1. Init => QuitOrder
  BY Roles DEF Init, QuitOrder, QuitPlaces, Threads
<1>2. IInv /\ QuitOrder /\ [Next]_vars => QuitOrder'
  <2>1. CASE Next
    BY <2>1, QuitOrderStep DEF IInv
  <2>2. CASE UNCHANGED vars
    BY <2>2 DEF vars, QuitOrder
  <2> QED BY <2>1, <2>2
<1> QED BY <1>1, <1>2, Invariance, PTL DEF Spec

-----------------------------------------------------------------------------
(* What a step of the queue does to the four variables of the channel.      *)

(* A step of a thread that neither returns 0 nor takes the list, touches no *)
(* node and hands nobody a message leaves the channel as it is.             *)
LEMMA Stutter ==
  ASSUME TypeOK, NodesAccounted, NEW t \in Threads, NEW to, pc' = [pc EXCEPT ![t] = to],
         t \in Workers => (pc[t] = "done" <=> to = "done"),
         t = Main => (Dropped' <=> Dropped),
         Holders' = Holders, \A c \in Holders : l'[c] = l[c],
         UNCHANGED <<queue, value, buffer, destroying>>
  PROVE  UNCHANGED Channel!channelVars
<1>1. \A s \in Threads : pc'[s] = IF s = t THEN to ELSE pc[s]
  BY DEF TypeOK
<1>2. Dropped' <=> Dropped
  BY <1>1, Roles DEF Dropped
<1>3. dismissedBar' = dismissedBar
  BY <1>1, Roles DEF dismissedBar, Workers, Threads
<1>4. receivedBar' = receivedBar
  BY DEF receivedBar
<1>5. channelBar' = channelBar
  BY <1>2 DEF channelBar
<1>6. phaseBar' = phaseBar
  BY <1>2 DEF phaseBar
<1> QED BY <1>3, <1>4, <1>5, <1>6 DEF Channel!channelVars

(* Linking a node at the young end is Accept; CapacityBound' says that there *)
(* was room.                                                                *)
LEMMA InsertAccepts ==
  ASSUME IInv, CapacityBound', NEW p \in Producers, PutInsert(p)
  PROVE  \E m \in Messages : Channel!Accept(p, m)
<1> USE Roles
<1>1. PICK n \in FreeNodes, m \in Messages :
        /\ value' = [value EXCEPT ![n] = m]
        /\ queue' = Append(queue, n)
        /\ l' = [l EXCEPT ![p] = n]
  BY DEF PutInsert
<1>2. /\ pc[p] = "putInsert" /\ pc' = [pc EXCEPT ![p] = "putUnlock"]
      /\ UNCHANGED <<destroying, buffer>>
  BY DEF PutInsert, Goto
<1>3. TypeOK /\ NodesAccounted /\ DropOrder
  BY DEF IInv
<1>4. \A s \in Threads : pc'[s] = IF s = p THEN "putUnlock" ELSE pc[s]
  BY <1>2, <1>3 DEF TypeOK
<1>5. ~Dropped /\ ~Dropped'
  BY <1>2, <1>3, <1>4 DEF DropOrder, Dropped
<1>6. n \in Nodes /\ n \notin Linked /\ \A c \in Holders : l[c] # n
  BY <1>1, <1>3 DEF NodesAccounted, FreeNodes
<1>7. phaseBar # "shut" /\ phaseBar' = phaseBar
  BY <1>2, <1>5 DEF phaseBar
<1>8. p \notin dismissedBar /\ dismissedBar' = dismissedBar
  BY <1>2, <1>4 DEF dismissedBar, Workers, Threads
<1>9. receivedBar' = receivedBar
  <2>1. Holders' = Holders
    BY <1>2, <1>3, HoldersStep
  <2>2. \A c \in Holders : l'[c] = l[c] /\ value'[l[c]] = value[l[c]]
    BY <1>1, <1>3, <1>6 DEF TypeOK, Holders, At, NodesAccounted
  <2> QED BY <1>2, <2>1, <2>2 DEF receivedBar
<1>10. /\ queue \in Seq(Nodes) /\ value \in [Nodes -> Messages \cup {NoMessage}]
       /\ Len(queue) \in Nat
  BY <1>3 DEF TypeOK
<1>11. channelBar = [i \in 1..Len(queue) |-> value[queue[i]]]
  BY <1>5, <1>10 DEF channelBar
<1>12. channelBar \in Seq(Messages \cup {NoMessage}) /\ Len(channelBar) = Len(queue)
  BY <1>10, <1>11
<1>13. channelBar' = Append(channelBar, m)
  <2>1. /\ DOMAIN queue' = 1..(Len(queue) + 1) /\ DOMAIN queue = 1..Len(queue)
        /\ \A i \in DOMAIN queue : queue'[i] = queue[i]
        /\ queue'[Len(queue) + 1] = n
    BY <1>1, <1>6, <1>10, AppendFacts
  <2>2. channelBar' = [i \in 1..(Len(queue) + 1) |-> value'[queue'[i]]]
    BY <1>5, <2>1 DEF channelBar
  <2>3. \A i \in 1..Len(queue) : value'[queue'[i]] = value[queue[i]]
    BY <1>1, <1>6, <1>10, <2>1 DEF Linked
  <2>4. value'[queue'[Len(queue) + 1]] = m
    BY <1>1, <1>6, <1>10, <2>1
  <2>5. \A i \in 1..(Len(queue) + 1) : value'[queue'[i]] \in Messages \cup {NoMessage}
    BY <1>1, <1>10, <2>3, <2>4
  <2>6. /\ channelBar' \in Seq(Messages \cup {NoMessage})
        /\ Len(channelBar') = Len(queue) + 1
    BY <1>10, <2>2, <2>5
  <2>7. /\ Append(channelBar, m) \in Seq(Messages \cup {NoMessage})
        /\ Len(Append(channelBar, m)) = Len(queue) + 1
        /\ \A i \in 1..Len(queue) : Append(channelBar, m)[i] = channelBar[i]
        /\ Append(channelBar, m)[Len(queue) + 1] = m
    BY <1>12, AppendProperties
  <2>8. \A i \in 1..(Len(queue) + 1) : channelBar'[i] = Append(channelBar, m)[i]
    <3>1. \A i \in 1..(Len(queue) + 1) : i \in 1..Len(queue) \/ i = Len(queue) + 1
      BY <1>10
    <3> QED BY <1>11, <2>2, <2>3, <2>4, <2>7, <3>1
  <2> QED BY <2>6, <2>7, <2>8, SeqEqual
<1>14. Len(channelBar) < Capacity
  <2>1. Len(queue') = Len(queue) + 1
    BY <1>1, <1>6, <1>10
  <2> QED BY <1>10, <1>12, <2>1, ConstantsAssumption DEF CapacityBound
<1> QED BY <1>7, <1>8, <1>9, <1>13, <1>14 DEF Channel!Accept

(* Unlinking the oldest node is Deliver, though its text only reaches the   *)
(* consumer's buffer two steps later.                                       *)
LEMMA RemoveDelivers ==
  ASSUME IInv, NEW c \in Consumers, GetRemove(c)
  PROVE  Channel!Deliver(c)
<1> USE Roles
<1>1. TypeOK /\ NodesAccounted /\ DropOrder /\ ItemsBalance
  BY DEF IInv
<1>2. pc[c] = "getRemove" /\ queue # <<>>
  BY <1>1, GetFindsMessageFollows DEF GetRemove, Goto, GetFindsMessage
<1>3. /\ pc' = [pc EXCEPT ![c] = "getUnlock"]
      /\ l' = [l EXCEPT ![c] = Head(queue)]
      /\ queue' = Tail(queue)
      /\ UNCHANGED <<destroying, value, buffer>>
  BY <1>2 DEF GetRemove, Goto
<1>4. \A s \in Threads : pc'[s] = IF s = c THEN "getUnlock" ELSE pc[s]
  BY <1>1, <1>3 DEF TypeOK
<1>5. ~Dropped /\ ~Dropped'
  BY <1>1, <1>2, <1>4 DEF DropOrder, Dropped
<1>6. phaseBar # "shut" /\ phaseBar' = phaseBar
  BY <1>3, <1>5 DEF phaseBar
<1>7. c \notin dismissedBar /\ dismissedBar' = dismissedBar
  BY <1>2, <1>4 DEF dismissedBar, Workers, Threads
<1>8. /\ queue \in Seq(Nodes) /\ Len(queue) \in Nat
      /\ DOMAIN queue = 1..Len(queue) /\ 1 \in DOMAIN queue
      /\ Head(queue) = queue[1] /\ Head(queue) \in Nodes
      /\ DOMAIN queue' = 1..(Len(queue) - 1)
      /\ \A i \in DOMAIN queue' : queue'[i] = queue[i + 1]
  BY <1>1, <1>2, <1>3, TailFacts DEF TypeOK
<1>9. channelBar = [i \in 1..Len(queue) |-> value[queue[i]]]
  BY <1>5, <1>8 DEF channelBar
<1>10. /\ channelBar \in Seq(Messages \cup {NoMessage}) /\ Len(channelBar) = Len(queue)
       /\ channelBar # <<>> /\ Head(channelBar) = value[Head(queue)]
  <2>1. \A i \in 1..Len(queue) : value[queue[i]] \in Messages \cup {NoMessage}
    BY <1>1, <1>8 DEF TypeOK
  <2>2. channelBar \in Seq(Messages \cup {NoMessage}) /\ Len(channelBar) = Len(queue)
    BY <1>8, <1>9, <2>1
  <2>3. Head(channelBar) = channelBar[1] /\ channelBar # <<>>
    BY <1>8, <2>2
  <2> QED BY <1>8, <1>9, <2>2, <2>3
<1>11. channelBar' = Tail(channelBar)
  <2>1. channelBar' = [i \in 1..(Len(queue) - 1) |-> value[queue'[i]]]
    BY <1>3, <1>5, <1>8 DEF channelBar
  <2>2. \A i \in 1..(Len(queue) - 1) : value[queue'[i]] = channelBar[i + 1]
    <3>1. \A i \in 1..(Len(queue) - 1) : i + 1 \in 1..Len(queue)
      BY <1>8
    <3> QED BY <1>8, <1>9, <3>1
  <2>3. /\ Tail(channelBar) \in Seq(Messages \cup {NoMessage})
        /\ Len(Tail(channelBar)) = Len(queue) - 1
        /\ \A i \in 1..(Len(queue) - 1) : Tail(channelBar)[i] = channelBar[i + 1]
    BY <1>10, HeadTailProperties
  <2>4. \A i \in 1..(Len(queue) - 1) : channelBar[i + 1] \in Messages \cup {NoMessage}
    BY <1>8, <1>10, ElementOfSeq
  <2>5. /\ channelBar' \in Seq(Messages \cup {NoMessage})
        /\ Len(channelBar') = Len(queue) - 1
    BY <1>8, <1>10, <2>1, <2>2, <2>4
  <2> QED BY <2>1, <2>2, <2>3, <2>5, SeqEqual
<1>12. receivedBar' = [receivedBar EXCEPT ![c] = Head(channelBar)]
  <2>1. Holders' = Holders \cup {c}
    BY <1>1, <1>3, HoldersStep
  <2>2. \A d \in Consumers : l'[d] = IF d = c THEN Head(queue) ELSE l[d]
    BY <1>1, <1>3 DEF TypeOK
  <2>3. \A d \in Consumers :
          (IF d \in Holders' THEN value'[l'[d]] ELSE buffer'[d])
          = IF d = c THEN value[Head(queue)]
            ELSE IF d \in Holders THEN value[l[d]] ELSE buffer[d]
    BY <1>3, <2>1, <2>2
  <2>4. receivedBar' = [d \in Consumers |-> IF d = c THEN value[Head(queue)]
                         ELSE IF d \in Holders THEN value[l[d]] ELSE buffer[d]]
    BY <2>3 DEF receivedBar
  <2> QED BY <1>10, <2>4 DEF receivedBar
<1> QED BY <1>6, <1>7, <1>10, <1>11, <1>12 DEF Channel!Deliver

(* Copying the text out of the node and freeing the node changes neither    *)
(* what the consumer was handed nor, no node being in two hands, what the   *)
(* list and the other consumers hold.                                       *)
LEMMA CopyStutters ==
  ASSUME IInv, NEW c \in Consumers, GetCopy(c)
  PROVE  UNCHANGED Channel!channelVars
<1> USE Roles
<1>1. TypeOK /\ NodesAccounted
  BY DEF IInv
<1>2. /\ pc[c] = "getCopy" /\ pc' = [pc EXCEPT ![c] = "getSignal"]
      /\ buffer' = [buffer EXCEPT ![c] = value[l[c]]]
      /\ value' = [value EXCEPT ![l[c]] = NoMessage]
      /\ l' = [l EXCEPT ![c] = NoNode]
      /\ UNCHANGED <<queue, destroying>>
  BY DEF GetCopy, Goto
<1>3. \A s \in Threads : pc'[s] = IF s = c THEN "getSignal" ELSE pc[s]
  BY <1>1, <1>2 DEF TypeOK
<1>4. Dropped' <=> Dropped
  BY <1>3 DEF Dropped
<1>5. phaseBar' = phaseBar
  BY <1>2, <1>4 DEF phaseBar
<1>6. dismissedBar' = dismissedBar
  BY <1>2, <1>3 DEF dismissedBar, Workers, Threads
<1>7. c \in Holders /\ Holders' = Holders \ {c} /\ Holders \subseteq Consumers
  <2>1. c \in Holders /\ Holders \subseteq Consumers
    BY <1>2 DEF Holders, At
  <2>2. "getSignal" \notin {"getUnlock", "getCopy"}
    OBVIOUS
  <2>3. Holders' = Holders \ {c}
    BY <1>1, <1>2, <2>2, HoldersStep
  <2> QED BY <2>1, <2>3
<1>8. /\ l[c] \in Nodes \ Linked
      /\ \A d \in Holders : d # c => l[d] # l[c] /\ l[d] \in Nodes
  BY <1>1, <1>7 DEF NodesAccounted
<1>9. channelBar' = channelBar
  <2>1. \A i \in DOMAIN queue : queue[i] \in Nodes /\ queue[i] # l[c]
    BY <1>1, <1>8 DEF Linked, TypeOK
  <2>2. \A i \in DOMAIN queue : value'[queue[i]] = value[queue[i]]
    BY <1>1, <1>2, <2>1 DEF TypeOK
  <2> QED BY <1>2, <1>4, <2>2 DEF channelBar
<1>10. receivedBar' = receivedBar
  <2>1. /\ \A d \in Consumers : l'[d] = IF d = c THEN NoNode ELSE l[d]
        /\ \A d \in Consumers : buffer'[d] = IF d = c THEN value[l[c]] ELSE buffer[d]
    BY <1>1, <1>2 DEF TypeOK
  <2>2. \A d \in Holders : d # c => value'[l[d]] = value[l[d]]
    BY <1>1, <1>2, <1>8 DEF TypeOK
  <2>3. \A d \in Consumers : (IF d \in Holders' THEN value'[l'[d]] ELSE buffer'[d])
                             = IF d \in Holders THEN value[l[d]] ELSE buffer[d]
    BY <1>7, <2>1, <2>2
  <2> QED BY <2>3 DEF receivedBar
<1> QED BY <1>5, <1>6, <1>9, <1>10 DEF Channel!channelVars

(* The first drop() announces the end; the flag of a second one is not      *)
(* noticed.                                                                 *)
LEMMA BeginShuts ==
  ASSUME IInv, NEW t \in Droppers, DropBegin(t)
  PROVE  Channel!StartShutting \/ UNCHANGED Channel!channelVars
<1> USE Roles
<1>1. TypeOK /\ DropOrder /\ NodesAccounted
  BY DEF IInv
<1>2. /\ pc[t] = "drop" /\ pc' = [pc EXCEPT ![t] = "dropLock"]
      /\ destroying' = TRUE
      /\ UNCHANGED <<queue, value, l, buffer>>
  BY DEF DropBegin, Goto, mem
<1>3. \A s \in Threads : pc'[s] = IF s = t THEN "dropLock" ELSE pc[s]
  BY <1>1, <1>2 DEF TypeOK
<1>4. Dropped' <=> Dropped
  BY <1>2, <1>3 DEF Dropped
<1>5. dismissedBar' = dismissedBar
  BY <1>2, <1>3 DEF dismissedBar, Workers, Threads
<1>6. channelBar' = channelBar
  BY <1>2, <1>4 DEF channelBar
<1>7. receivedBar' = receivedBar
  <2>1. Holders' = Holders
    BY <1>2, <1>3 DEF Holders, At
  <2> QED BY <1>2, <2>1 DEF receivedBar
<1>8. CASE destroying
  <2>1. phaseBar' = phaseBar
    BY <1>2, <1>4, <1>8 DEF phaseBar
  <2> QED BY <1>5, <1>6, <1>7, <2>1 DEF Channel!channelVars
<1>9. CASE ~destroying
  <2>1. ~Dropped
    BY <1>1, <1>9 DEF DropOrder, Dropped
  <2>2. phaseBar = "open" /\ phaseBar' = "shutting"
    BY <1>2, <1>4, <1>9, <2>1 DEF phaseBar
  <2> QED BY <1>5, <1>6, <1>7, <2>2 DEF Channel!StartShutting
<1> QED BY <1>8, <1>9

(* Once main has the list the undelivered messages are lost to everybody,   *)
(* before the first of them is freed.                                       *)
LEMMA LockShuts ==
  ASSUME IInv, NEW t \in Droppers, DropLock(t)
  PROVE  Channel!Shut
<1> USE Roles
<1>1. TypeOK /\ DropOrder /\ ListExclusive
  BY DEF IInv
<1>2. t = Main
  BY <1>1, LockHolderSkipsDropLock DEF DropLock, Goto, Wait
<1>3. /\ pc[Main] = "dropLock" /\ pc' = [pc EXCEPT ![Main] = "dropFirst"]
      /\ UNCHANGED <<destroying, queue, value, l, buffer>>
  BY <1>2 DEF DropLock, Goto, mem
<1>4. \A s \in Threads : pc'[s] = IF s = Main THEN "dropFirst" ELSE pc[s]
  BY <1>1, <1>3 DEF TypeOK
<1>5. ~Dropped /\ Dropped' /\ destroying
  BY <1>1, <1>3, <1>4 DEF Dropped, DropOrder
<1>6. phaseBar = "shutting" /\ phaseBar' = "shut" /\ channelBar' = <<>>
  BY <1>5 DEF phaseBar, channelBar
<1>7. dismissedBar' = dismissedBar
  BY <1>3, <1>4 DEF dismissedBar, Workers, Threads
<1>8. receivedBar' = receivedBar
  <2>1. Holders' = Holders
    BY <1>3, <1>4 DEF Holders, At
  <2> QED BY <1>3, <2>1 DEF receivedBar
<1> QED BY <1>6, <1>7, <1>8 DEF Channel!Shut

(* Freeing the linked nodes takes no text from a consumer that holds a node. *)
LEMMA FreeStutters ==
  ASSUME IInv, NEW t \in Droppers, DropFree(t)
  PROVE  UNCHANGED Channel!channelVars
<1> USE Roles
<1>1. TypeOK /\ NodesAccounted /\ ThreadPlaces
  BY DEF IInv
<1>2. t = Main
  BY <1>1, OnlyMainDrops DEF DropFree, Goto
<1>3. /\ pc[Main] = "dropFree" /\ pc' = [pc EXCEPT ![Main] = "dropUnlock"]
      /\ value' = [n \in Nodes |-> IF n \in Linked THEN NoMessage ELSE value[n]]
      /\ UNCHANGED <<destroying, l, buffer>>
  BY <1>2 DEF DropFree, Goto
<1>4. \A s \in Threads : pc'[s] = IF s = Main THEN "dropUnlock" ELSE pc[s]
  BY <1>1, <1>3 DEF TypeOK
<1>5. Dropped /\ Dropped'
  BY <1>3, <1>4 DEF Dropped
<1>6. phaseBar' = phaseBar /\ channelBar' = channelBar
  BY <1>5 DEF phaseBar, channelBar
<1>7. dismissedBar' = dismissedBar
  BY <1>3, <1>4 DEF dismissedBar, Workers, Threads
<1>8. receivedBar' = receivedBar
  <2>1. Holders' = Holders
    BY <1>3, <1>4 DEF Holders, At
  <2>2. \A c \in Holders : value'[l[c]] = value[l[c]]
    BY <1>1, <1>3 DEF NodesAccounted
  <2> QED BY <1>3, <2>1, <2>2 DEF receivedBar
<1> QED BY <1>6, <1>7, <1>8 DEF Channel!channelVars

(* A put or get that returns 0 has been turned away, and not before drop()  *)
(* began.                                                                   *)
LEMMA QuitDismisses ==
  ASSUME IInv, QuitOrder, NEW t \in Workers, pc[t] \in QuitPlaces,
         pc' = [pc EXCEPT ![t] = "done"], UNCHANGED <<destroying, queue, value, l, buffer>>
  PROVE  Channel!Dismiss(t)
<1> USE Roles
<1>1. TypeOK /\ t \in Threads /\ t # Main
  BY DEF IInv, Workers, Threads
<1>2. \A s \in Threads : pc'[s] = IF s = t THEN "done" ELSE pc[s]
  BY <1>1 DEF TypeOK
<1>3. Dropped' <=> Dropped
  BY <1>1, <1>2 DEF Dropped
<1>4. phaseBar # "open" /\ phaseBar' = phaseBar
  BY <1>3 DEF phaseBar, QuitOrder
<1>5. t \notin dismissedBar /\ dismissedBar' = dismissedBar \cup {t}
  BY <1>1, <1>2 DEF dismissedBar, QuitPlaces, Workers, Threads
<1>6. channelBar' = channelBar
  BY <1>3 DEF channelBar
<1>7. receivedBar' = receivedBar
  <2>1. Holders' = Holders
    BY <1>2 DEF Holders, At, QuitPlaces
  <2> QED BY <2>1 DEF receivedBar
<1> QED BY <1>4, <1>5, <1>6, <1>7 DEF Channel!Dismiss

-----------------------------------------------------------------------------
(* The channel depends on nothing but the variables of the queue. *)
LEMMA StandStill ==
  ASSUME UNCHANGED vars
  PROVE  UNCHANGED Channel!channelVars
<1>1. (Dropped' <=> Dropped) /\ Holders' = Holders
  BY DEF vars, Dropped, Holders, At
<1>2. channelBar' = channelBar /\ phaseBar' = phaseBar
  BY <1>1 DEF vars, channelBar, phaseBar
<1>3. receivedBar' = receivedBar /\ dismissedBar' = dismissedBar
  BY <1>1 DEF vars, receivedBar, dismissedBar
<1> QED BY <1>2, <1>3 DEF Channel!channelVars

(* An empty list, empty buffers and an open queue. *)
LEMMA InitMapped == Init => Channel!Init
<1> SUFFICES ASSUME Init PROVE Channel!Init
  OBVIOUS
<1>1. ~Dropped /\ Holders = {} /\ dismissedBar = {}
  BY Roles DEF Init, Dropped, Holders, At, dismissedBar, Threads
<1>2. channelBar = <<>>
  BY <1>1 DEF Init, channelBar
<1>3. receivedBar = [c \in Consumers |-> NoMessage]
  BY <1>1 DEF Init, receivedBar
<1>4. phaseBar = "open"
  BY <1>1 DEF Init, phaseBar
<1> QED BY <1>1, <1>2, <1>3, <1>4 DEF Channel!Init

(* Every step of put, get, drop and main is a step of the channel or leaves *)
(* it as it is.                                                             *)
LEMMA StepMapped ==
  ASSUME IInv, CapacityBound', QuitOrder, Next
  PROVE  [Channel!Next]_(Channel!channelVars)
<1> DEFINE Mapped == Channel!Next \/ UNCHANGED Channel!channelVars
<1>a. SUFFICES Mapped
  OBVIOUS
<1>b. TypeOK /\ NodesAccounted /\ ThreadPlaces
  BY DEF IInv
<1> HIDE DEF Mapped
<1> USE <1>b, Roles DEF Goto, mem, sems
<1>1. ASSUME NEW p \in Producers, PutWait(p) PROVE Mapped
  BY <1>1, Stutter, HoldersStep DEF PutWait, Mapped
<1>2. ASSUME NEW p \in Producers, PutLock(p) PROVE Mapped
  BY <1>2, Stutter, HoldersStep DEF PutLock, Mapped
<1>3. ASSUME NEW p \in Producers, PutCheck(p) PROVE Mapped
  <2>1. PICK to \in {"putQuit", "putInsert"} : pc[p] = "putCheck" /\ pc' = [pc EXCEPT ![p] = to]
    BY <1>3 DEF PutCheck
  <2> QED BY <1>3, <2>1, Stutter, HoldersStep DEF Mapped, PutCheck
<1>4. ASSUME NEW p \in Producers, PutInsert(p) PROVE Mapped
  BY <1>4, InsertAccepts DEF Mapped, Channel!Next
<1>5. ASSUME NEW p \in Producers, PutNoMemory(p) PROVE Mapped
  BY <1>5, Stutter, HoldersStep DEF PutNoMemory, Mapped
<1>6. ASSUME NEW p \in Producers, PutUnlock(p) PROVE Mapped
  BY <1>6, Stutter, HoldersStep DEF PutUnlock, Mapped
<1>7. ASSUME NEW p \in Producers, PutSignal(p) PROVE Mapped
  BY <1>7, Stutter, HoldersStep DEF PutSignal, Mapped
<1>8. ASSUME NEW p \in Producers, PutReturn(p) PROVE Mapped
  <2>1. \A c \in Consumers : l'[c] = l[c]
    BY <1>8, <1>b DEF PutReturn, TypeOK
  <2>2. Holders \subseteq Consumers
    BY DEF Holders, At
  <2>3. Holders' = Holders
    BY <1>8, <1>b, HoldersStep DEF PutReturn
  <2> QED BY <1>8, <2>1, <2>2, <2>3, Stutter DEF Mapped, PutReturn
<1>9. ASSUME NEW p \in Producers, PutQuit(p) PROVE Mapped
  BY <1>9, Stutter, HoldersStep DEF PutQuit, Mapped
<1>10. ASSUME NEW p \in Producers, PutQuitUnlock(p) PROVE Mapped
  BY <1>10, QuitDismisses DEF PutQuitUnlock, Mapped, Channel!Next, QuitPlaces, Workers
<1>11. ASSUME NEW c \in Consumers, GetWait(c) PROVE Mapped
  <2>1. Holders' = Holders
    BY <1>11, HoldersStep DEF GetWait
  <2> QED BY <1>11, <2>1, Stutter DEF Mapped, GetWait
<1>12. ASSUME NEW c \in Consumers, GetLock(c) PROVE Mapped
  <2>1. Holders' = Holders
    BY <1>12, HoldersStep DEF GetLock
  <2> QED BY <1>12, <2>1, Stutter DEF Mapped, GetLock
<1>13. ASSUME NEW c \in Consumers, GetCheck(c) PROVE Mapped
  <2>1. PICK to \in {"getQuit", "getRemove"} : pc[c] = "getCheck" /\ pc' = [pc EXCEPT ![c] = to]
    BY <1>13 DEF GetCheck
  <2>2. Holders' = Holders
    BY <2>1, HoldersStep
  <2> QED BY <1>13, <2>1, <2>2, Stutter DEF Mapped, GetCheck
<1>14. ASSUME NEW c \in Consumers, GetRemove(c) PROVE Mapped
  BY <1>14, RemoveDelivers DEF Mapped, Channel!Next
<1>15. ASSUME NEW c \in Consumers, GetUnlock(c) PROVE Mapped
  BY <1>15, Stutter, HoldersStep DEF GetUnlock, Mapped
<1>16. ASSUME NEW c \in Consumers, GetCopy(c) PROVE Mapped
  BY <1>16, CopyStutters DEF Mapped
<1>17. ASSUME NEW c \in Consumers, GetSignal(c) PROVE Mapped
  <2>1. Holders' = Holders
    BY <1>17, HoldersStep DEF GetSignal
  <2> QED BY <1>17, <2>1, Stutter DEF Mapped, GetSignal
<1>18. ASSUME NEW c \in Consumers, GetQuit(c) PROVE Mapped
  <2>1. Holders' = Holders
    BY <1>18, HoldersStep DEF GetQuit
  <2> QED BY <1>18, <2>1, Stutter DEF Mapped, GetQuit
<1>19. ASSUME NEW c \in Consumers, GetQuitUnlock(c) PROVE Mapped
  BY <1>19, QuitDismisses DEF GetQuitUnlock, Mapped, Channel!Next, QuitPlaces, Workers
<1>20. ASSUME NEW t \in Droppers, DropBegin(t) PROVE Mapped
  BY <1>20, BeginShuts DEF Mapped, Channel!Next
<1>21. ASSUME NEW t \in Droppers, DropLock(t) PROVE Mapped
  BY <1>21, LockShuts DEF Mapped, Channel!Next
<1>22. ASSUME NEW t \in Droppers, DropFirst(t) PROVE Mapped
  <2>1. t = Main /\ pc[Main] = "dropFirst" /\ pc' = [pc EXCEPT ![Main] = "dropLast"]
    BY <1>22, OnlyMainDrops DEF DropFirst
  <2>2. Dropped /\ Dropped'
    BY <2>1 DEF Dropped, TypeOK
  <2> QED BY <1>22, <2>1, <2>2, Stutter, HoldersStep DEF Mapped, DropFirst
<1>23. ASSUME NEW t \in Droppers, DropLast(t) PROVE Mapped
  <2>1. t = Main /\ pc[Main] = "dropLast" /\ pc' = [pc EXCEPT ![Main] = "dropFree"]
    BY <1>23, OnlyMainDrops DEF DropLast
  <2>2. Dropped /\ Dropped'
    BY <2>1 DEF Dropped, TypeOK
  <2> QED BY <1>23, <2>1, <2>2, Stutter, HoldersStep DEF Mapped, DropLast
<1>24. ASSUME NEW t \in Droppers, DropFree(t) PROVE Mapped
  BY <1>24, FreeStutters DEF Mapped
<1>25. ASSUME NEW t \in Droppers, DropUnlock(t) PROVE Mapped
  <2>1. t = Main /\ pc[Main] = "dropUnlock" /\ pc' = [pc EXCEPT ![Main] = "join"]
    BY <1>25, OnlyMainDrops DEF DropUnlock
  <2>2. Dropped /\ Dropped'
    BY <2>1 DEF Dropped, TypeOK
  <2> QED BY <1>25, <2>1, <2>2, Stutter, HoldersStep DEF Mapped, DropUnlock
<1>26. CASE Join
  <2>1. Dropped /\ Dropped'
    BY <1>26 DEF Join, Dropped, TypeOK
  <2> QED BY <1>26, <2>1, Stutter, HoldersStep DEF Mapped, Join
<1>27. CASE Terminated
  BY <1>27, StandStill DEF Terminated, Mapped
<1> QED BY <1>1, <1>2, <1>3, <1>4, <1>5, <1>6, <1>7, <1>8, <1>9, <1>10, <1>11,
         <1>12, <1>13, <1>14, <1>15, <1>16, <1>17, <1>18, <1>19, <1>20, <1>21,
         <1>22, <1>23, <1>24, <1>25, <1>26, <1>27 DEF Next, Put, Get, DropRest

(* lab23's queue is a FIFO channel: no message is lost, invented, doubled,  *)
(* altered or overtaken on its way to a consumer's buffer, nobody is turned *)
(* away before drop() and nobody served after it, in every interleaving.    *)
THEOREM ImplementsChannel == Spec => FifoChannel
<1>1. IInv /\ IInv' /\ QuitOrder /\ [Next]_vars => [Channel!Next]_(Channel!channelVars)
  BY StepMapped, StandStill DEF IInv
<1> QED BY <1>1, InitMapped, Invariance, QuitOrderInvariant, PTL
        DEF Spec, FifoChannel, Channel!Spec

=============================================================================
