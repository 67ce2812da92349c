------------------------- MODULE MsgQueueCond_proofs ------------------------
(***************************************************************************)
(* The safety of lab24's queue for any number of producers, consumers,     *)
(* messages and places: the mutex discipline, the balance of count, q used *)
(* only while it is allocated, a sleeper that is never forgotten, and,     *)
(* with one producer and one consumer, the FIFO channel.                   *)
(***************************************************************************)
EXTENDS MsgQueueCond, FiniteSetTheorems, SequenceTheorems, TLAPS

(* Where a producer, a consumer and main can be. *)
PutPlaces == {"put", "putWait", "putAsleep", "putTest", "putInsert", "drop",
              "dropBroadcast", "dropFree", "done", "killed"}
GetPlaces == {"get", "getWait", "getAsleep", "getTest", "getRemove", "getCopy",
              "done", "killed"}
MainPlaces == {"drop", "dropBroadcast", "dropFree", "join", "done", "killed"}
Places == PutPlaces \cup GetPlaces \cup MainPlaces

ThreadPlaces ==
    /\ \A p \in Producers : pc[p] \in PutPlaces
    /\ \A c \in Consumers : pc[c] \in GetPlaces
    /\ pc[Main] \in MainPlaces

(* A crash kills every thread of the process. *)
Together == (\E t \in Threads : pc[t] = "killed") => \A t \in Threads : pc[t] = "killed"

(* drop() sets destroying before it frees q, frees it only when nobody is   *)
(* past the check of destroying, and only main ever gets that far.          *)
DropOrder ==
    /\ qAlive <=> pc[Main] \notin {"join", "done", "killed"}
    /\ pc[Main] \notin {"drop", "killed"} => destroying
    /\ \A p \in Producers : pc[p] \in {"dropBroadcast", "dropFree"} => destroying
    /\ \A t \in Workers : pc[t] \in {"putInsert", "getRemove", "drop", "dropBroadcast",
                                     "dropFree"} => qAlive

(* What a thread saw of count when it decided to sleep still holds while it *)
(* has the mutex.                                                           *)
CountSeen ==
    /\ \A p \in Producers : pc[p] = "putWait" => count = Capacity
    /\ \A c \in Consumers : pc[c] = "getWait" => count = 0

(* main creates a producer and a consumer at least; a thread that it never   *)
(* created does nothing, and one that it created returns only because it    *)
(* has seen destroying.                                                     *)
Created ==
    /\ created \cap Producers # {} /\ created \cap Consumers # {}
    /\ \A t \in Workers \ created : pc[t] \in {"done", "killed"}
    /\ \A t \in created : pc[t] = "done" => destroying

(* A thread that is awake and is going to call Signal, drop() or crash       *)
(* before it can sleep again.                                               *)
Committing == {"putAsleep", "putTest", "putInsert", "drop",
               "getAsleep", "getTest", "getRemove", "killed"}
Drives(t) ==
    /\ t \notin waiting
    /\ \/ pc[t] \in Committing
       \/ t \in Producers /\ count # Capacity
       \/ t \in Consumers /\ count # 0
       \/ t \in NullTakers
SomebodyDrives == ~destroying => \E t \in created : Drives(t)

-----------------------------------------------------------------------------
LEMMA Roles ==
  /\ \A p \in Producers : p \in Threads /\ p \in Workers /\ p \notin Consumers /\ p # Main
  /\ \A c \in Consumers : c \in Threads /\ c \in Workers /\ c \notin Producers /\ c # Main
  /\ \A t \in Workers : t \in Threads /\ (t \in Producers \/ t \in Consumers) /\ t # Main
  /\ Main \in Threads /\ Main \notin Workers /\ Main \notin Producers
  /\ \A t \in Droppers : t \in Threads /\ (t \in Producers \/ t = Main)
  /\ NoThread \notin Threads
BY ConstantsAssumption DEF Threads, Workers, Droppers

(* The type of pc alone, all that most lemmas need of TypeOK. *)
PcOK == pc \in [Threads -> Places]

(* What one step of thread t does to pc. *)
LEMMA PcAfter ==
  ASSUME PcOK, NEW t \in Threads, NEW to, pc' = [pc EXCEPT ![t] = to]
  PROVE  \A s \in Threads : pc'[s] = IF s = t THEN to ELSE pc[s]
BY DEF PcOK

(* pthread_cond_signal wakes one of the sleepers, if there is one. *)
LEMMA SignalWakes ==
  ASSUME Signal
  PROVE  /\ waiting' \subseteq waiting
         /\ waiting # {} => \E t \in waiting : waiting' = waiting \ {t}
BY DEF Signal

(* A step keeps every thread in its own part of the code.                   *)
LEMMA PlaceMove ==
  ASSUME PcOK, ThreadPlaces, NEW t \in Threads, NEW to, pc' = [pc EXCEPT ![t] = to],
         t \in Producers => to \in PutPlaces,
         t \in Consumers => to \in GetPlaces,
         t = Main => to \in MainPlaces
  PROVE  ThreadPlaces' /\ PcOK'
<1>1. \A s \in Threads : pc'[s] = IF s = t THEN to ELSE pc[s]
  BY PcAfter
<1>2. ThreadPlaces'
  BY <1>1, Roles DEF ThreadPlaces
<1>3. to \in Places
  BY Roles DEF Places, Threads, Workers
<1> QED BY <1>2, <1>3 DEF PcOK

(* (the same, over all the steps of the program) *)
LEMMA PlacesStep ==
  ASSUME PcOK, ThreadPlaces, Next
  PROVE  ThreadPlaces' /\ PcOK'
<1> DEFINE Goal == ThreadPlaces' /\ PcOK'
<1> USE Roles DEF Goto, PutPlaces, GetPlaces, MainPlaces
<1>1. ASSUME NEW p \in Producers, PutEnter(p) PROVE Goal
  BY <1>1, PlaceMove DEF PutEnter
<1>2. ASSUME NEW p \in Producers, PutSleep(p) PROVE Goal
  BY <1>2, PlaceMove DEF PutSleep, Sleep
<1>3. ASSUME NEW p \in Producers, PutAwake(p) PROVE Goal
  BY <1>3, PlaceMove DEF PutAwake, Awake
<1>4. ASSUME NEW p \in Producers, PutTest(p) PROVE Goal
  BY <1>4, PlaceMove DEF PutTest
<1>5. ASSUME NEW p \in Producers, PutInsert(p) PROVE Goal
  BY <1>5, PlaceMove DEF PutInsert
<1>6. ASSUME NEW p \in Producers, PutNoMemory(p) PROVE Goal
  BY <1>6, PlaceMove DEF PutNoMemory
<1>7. ASSUME NEW c \in Consumers, GetEnter(c) PROVE Goal
  BY <1>7, PlaceMove DEF GetEnter
<1>8. ASSUME NEW c \in Consumers, GetSleep(c) PROVE Goal
  BY <1>8, PlaceMove DEF GetSleep, Sleep
<1>9. ASSUME NEW c \in Consumers, GetAwake(c) PROVE Goal
  BY <1>9, PlaceMove DEF GetAwake, Awake
<1>10. ASSUME NEW c \in Consumers, GetTest(c) PROVE Goal
  BY <1>10, PlaceMove DEF GetTest
<1>11. ASSUME NEW c \in Consumers, GetRemove(c) PROVE Goal
  BY <1>11, PlaceMove DEF GetRemove
<1>12. ASSUME NEW c \in Consumers, GetCopy(c) PROVE Goal
  BY <1>12, PlaceMove DEF GetCopy
<1>13. ASSUME NEW c \in Consumers, GetCrash(c) PROVE Goal
  <2>1. pc' = [t \in Threads |-> "killed"]
    BY <1>13 DEF GetCrash
  <2> QED BY <2>1 DEF ThreadPlaces, PcOK, Places
<1>14. ASSUME NEW t \in Droppers, DropFlag(t) PROVE Goal
  BY <1>14, PlaceMove DEF DropFlag
<1>15. ASSUME NEW t \in Droppers, DropBroadcast(t) PROVE Goal
  BY <1>15, PlaceMove DEF DropBroadcast
<1>16. ASSUME NEW t \in Droppers, DropFree(t) PROVE Goal
  BY <1>16, PlaceMove DEF DropFree
<1>17. ASSUME NEW t \in Workers, SpuriousWakeup(t) PROVE Goal
  BY <1>17 DEF SpuriousWakeup, ThreadPlaces, PcOK
<1>18. CASE Join
  BY <1>18, PlaceMove DEF Join
<1> QED BY <1>1, <1>2, <1>3, <1>4, <1>5, <1>6, <1>7, <1>8, <1>9,
         <1>10, <1>11, <1>12, <1>13, <1>14, <1>15, <1>16, <1>17, <1>18
         DEF Next, Put, Get, DropRest

(* Apart from a crash and a spurious wake-up, a step moves one thread, and   *)
(* neither from nor to where a crash leaves it.                             *)
Moves == \E t \in Threads, to \in Places \ {"killed"} :
            pc[t] # "killed" /\ pc' = [pc EXCEPT ![t] = to]

(* (see above) *)
LEMMA OneMoves ==
  ASSUME Next
  PROVE  \/ Moves
         \/ \E c \in Consumers : GetCrash(c)
         \/ \E t \in Workers : SpuriousWakeup(t)
<1> DEFINE Goal == \/ Moves
                   \/ \E c \in Consumers : GetCrash(c)
                   \/ \E t \in Workers : SpuriousWakeup(t)
<1> USE Roles DEF Goto, Places, PutPlaces, GetPlaces, MainPlaces, Moves
<1>1. ASSUME NEW p \in Producers, PutEnter(p) PROVE Goal
  BY <1>1 DEF PutEnter
<1>2. ASSUME NEW p \in Producers, PutSleep(p) PROVE Goal
  BY <1>2 DEF PutSleep, Sleep
<1>3. ASSUME NEW p \in Producers, PutAwake(p) PROVE Goal
  BY <1>3 DEF PutAwake, Awake
<1>4. ASSUME NEW p \in Producers, PutTest(p) PROVE Goal
  BY <1>4 DEF PutTest
<1>5. ASSUME NEW p \in Producers, PutInsert(p) PROVE Goal
  BY <1>5 DEF PutInsert
<1>6. ASSUME NEW p \in Producers, PutNoMemory(p) PROVE Goal
  BY <1>6 DEF PutNoMemory
<1>7. ASSUME NEW c \in Consumers, GetEnter(c) PROVE Goal
  BY <1>7 DEF GetEnter
<1>8. ASSUME NEW c \in Consumers, GetSleep(c) PROVE Goal
  BY <1>8 DEF GetSleep, Sleep
<1>9. ASSUME NEW c \in Consumers, GetAwake(c) PROVE Goal
  BY <1>9 DEF GetAwake, Awake
<1>10. ASSUME NEW c \in Consumers, GetTest(c) PROVE Goal
  BY <1>10 DEF GetTest
<1>11. ASSUME NEW c \in Consumers, GetRemove(c) PROVE Goal
  BY <1>11 DEF GetRemove
<1>12. ASSUME NEW c \in Consumers, GetCopy(c) PROVE Goal
  BY <1>12 DEF GetCopy
<1>13. ASSUME NEW c \in Consumers, GetCrash(c) PROVE Goal
  BY <1>13
<1>14. ASSUME NEW t \in Droppers, DropFlag(t) PROVE Goal
  BY <1>14 DEF DropFlag
<1>15. ASSUME NEW t \in Droppers, DropBroadcast(t) PROVE Goal
  BY <1>15 DEF DropBroadcast
<1>16. ASSUME NEW t \in Droppers, DropFree(t) PROVE Goal
  BY <1>16 DEF DropFree
<1>17. ASSUME NEW t \in Workers, SpuriousWakeup(t) PROVE Goal
  BY <1>17
<1>18. CASE Join
  BY <1>18 DEF Join
<1> QED BY <1>1, <1>2, <1>3, <1>4, <1>5, <1>6, <1>7, <1>8, <1>9,
         <1>10, <1>11, <1>12, <1>13, <1>14, <1>15, <1>16, <1>17, <1>18
         DEF Next, Put, Get, DropRest

(* A crash takes every thread with it, and nothing happens afterwards.      *)
LEMMA TogetherStep ==
  ASSUME PcOK, ThreadPlaces, Together, Next
  PROVE  Together'
<1>1. CASE \E c \in Consumers : GetCrash(c)
  BY <1>1, Roles DEF GetCrash, Together
<1>2. CASE \E t \in Workers : SpuriousWakeup(t)
  BY <1>2 DEF SpuriousWakeup, Together
<1>3. CASE Moves
  <2>1. PICK t \in Threads, to \in Places \ {"killed"} :
             pc[t] # "killed" /\ pc' = [pc EXCEPT ![t] = to]
    BY <1>3 DEF Moves
  <2> QED BY <2>1, PcAfter DEF Together
<1> QED BY <1>1, <1>2, <1>3, OneMoves


-----------------------------------------------------------------------------
(* The mutex. *)

(* Whether thread t holds the mutex at a place. *)
Holds(t, place) == \/ place \in Guarded
                   \/ t \in Producers /\ place \in {"drop", "dropBroadcast", "dropFree"}

(* A step of t that neither takes nor returns the mutex.                    *)
LEMMA MutexKept ==
  ASSUME PcOK, MutexDiscipline, NEW t \in Threads, NEW to, pc' = [pc EXCEPT ![t] = to],
         Holds(t, pc[t]) <=> Holds(t, to), mutex' = mutex, waiting' \subseteq waiting,
         pc[t] \notin {"putAsleep", "getAsleep"}
  PROVE  MutexDiscipline'
BY PcAfter DEF MutexDiscipline, Holder, Holds

(* A step of t that takes the free mutex.                                   *)
LEMMA MutexTaken ==
  ASSUME PcOK, MutexDiscipline, NEW t \in Threads, NEW to, pc' = [pc EXCEPT ![t] = to],
         Holds(t, to), mutex = NoThread, mutex' = t, waiting' = waiting, t \notin waiting
  PROVE  MutexDiscipline'
<1>1. \A s \in Threads : ~Holder(s)
  BY Roles DEF MutexDiscipline
<1>2. \A s \in Threads : Holder(s)' <=> s = t
  <2>1. \A s \in Threads : ~Holds(s, pc[s])
    BY <1>1 DEF Holder, Holds
  <2>2. \A s \in Threads : Holds(s, pc'[s]) <=> s = t
    <3>1. \A s \in Threads : pc'[s] = IF s = t THEN to ELSE pc[s]
      BY PcAfter
    <3> QED BY <2>1, <3>1 DEF Holds
  <2> QED BY <2>2 DEF Holder, Holds
<1>3. \A s \in waiting' : pc'[s] \in {"putAsleep", "getAsleep"}
  BY PcAfter DEF MutexDiscipline, PcOK
<1> QED BY <1>2, <1>3 DEF MutexDiscipline

(* A step of t that gives the mutex back; if t joins the sleepers it is     *)
(* asleep.                                                                  *)
LEMMA MutexReturned ==
  ASSUME PcOK, MutexDiscipline, NEW t \in Threads, NEW to, pc' = [pc EXCEPT ![t] = to],
         Holds(t, pc[t]), ~Holds(t, to), mutex' = NoThread,
         waiting' \subseteq waiting \cup (IF to \in {"putAsleep", "getAsleep"} THEN {t} ELSE {}),
         pc[t] \notin {"putAsleep", "getAsleep"}
  PROVE  MutexDiscipline'
<1>1. \A s \in Threads : Holder(s) <=> s = t
  BY DEF MutexDiscipline, Holder, Holds
<1>2. \A s \in Threads : ~Holder(s)'
  <2>1. \A s \in Threads : s # t => ~Holds(s, pc[s])
    BY <1>1 DEF Holder, Holds
  <2>2. \A s \in Threads : ~Holds(s, pc'[s])
    <3>1. \A s \in Threads : pc'[s] = IF s = t THEN to ELSE pc[s]
      BY PcAfter
    <3> QED BY <2>1, <3>1 DEF Holds
  <2> QED BY <2>2 DEF Holder, Holds
<1>3. \A s \in waiting' : pc'[s] \in {"putAsleep", "getAsleep"}
  BY PcAfter DEF MutexDiscipline, PcOK
<1> QED BY <1>2, <1>3, Roles DEF MutexDiscipline

(* The mutex belongs to exactly the thread in the guarded code, through     *)
(* every path of put, get, drop and pthread_cond_wait.                      *)
LEMMA MutexStep ==
  ASSUME PcOK, ThreadPlaces, waiting \subseteq Workers, MutexDiscipline, Next
  PROVE  MutexDiscipline'
<1> USE Roles DEF Goto, Lock, Unlock, Holds, Guarded
<1>a. \A t \in waiting : t \in Threads /\ pc[t] \in {"putAsleep", "getAsleep"}
  BY DEF MutexDiscipline
<1>1. ASSUME NEW p \in Producers, PutEnter(p) PROVE MutexDiscipline'
  BY <1>1, <1>a, MutexTaken DEF PutEnter
<1>2. ASSUME NEW p \in Producers, PutSleep(p) PROVE MutexDiscipline'
  BY <1>2, MutexReturned DEF PutSleep, Sleep
<1>3. ASSUME NEW p \in Producers, PutAwake(p) PROVE MutexDiscipline'
  BY <1>3, MutexTaken DEF PutAwake, Awake
<1>4. ASSUME NEW p \in Producers, PutTest(p) PROVE MutexDiscipline'
  <2>1. CASE destroying
    BY <1>4, <2>1, MutexReturned DEF PutTest
  <2>2. CASE ~destroying
    BY <1>4, <2>2, MutexKept DEF PutTest
  <2> QED BY <2>1, <2>2
<1>5. ASSUME NEW p \in Producers, PutInsert(p) PROVE MutexDiscipline'
  <2>1. waiting' \subseteq waiting
    BY <1>5, SignalWakes DEF PutInsert
  <2> QED BY <1>5, <2>1, MutexReturned DEF PutInsert
<1>6. ASSUME NEW p \in Producers, PutNoMemory(p) PROVE MutexDiscipline'
  BY <1>6, MutexKept DEF PutNoMemory
<1>7. ASSUME NEW c \in Consumers, GetEnter(c) PROVE MutexDiscipline'
  BY <1>7, <1>a, MutexTaken DEF GetEnter
<1>8. ASSUME NEW c \in Consumers, GetSleep(c) PROVE MutexDiscipline'
  BY <1>8, MutexReturned DEF GetSleep, Sleep
<1>9. ASSUME NEW c \in Consumers, GetAwake(c) PROVE MutexDiscipline'
  BY <1>9, MutexTaken DEF GetAwake, Awake
<1>10. ASSUME NEW c \in Consumers, GetTest(c) PROVE MutexDiscipline'
  <2>1. CASE destroying
    BY <1>10, <2>1, MutexReturned DEF GetTest
  <2>2. CASE ~destroying
    BY <1>10, <2>2, MutexKept DEF GetTest
  <2> QED BY <2>1, <2>2
<1>11. ASSUME NEW c \in Consumers, GetRemove(c) PROVE MutexDiscipline'
  <2>1. waiting' \subseteq waiting
    BY <1>11, SignalWakes DEF GetRemove
  <2> QED BY <1>11, <2>1, MutexReturned DEF GetRemove
<1>12. ASSUME NEW c \in Consumers, GetCopy(c) PROVE MutexDiscipline'
  BY <1>12, MutexKept DEF GetCopy
<1>13. ASSUME NEW c \in Consumers, GetCrash(c) PROVE MutexDiscipline'
  BY <1>13 DEF GetCrash, MutexDiscipline, Holder
<1>14. ASSUME NEW t \in Droppers, DropFlag(t) PROVE MutexDiscipline'
  BY <1>14, MutexKept DEF DropFlag
<1>15. ASSUME NEW t \in Droppers, DropBroadcast(t) PROVE MutexDiscipline'
  BY <1>15, MutexKept DEF DropBroadcast
<1>16. ASSUME NEW t \in Droppers, DropFree(t) PROVE MutexDiscipline'
  <2>1. t = Main
    BY <1>16 DEF DropFree, MutexDiscipline, Holder
  <2> QED BY <1>16, <2>1, MutexKept DEF DropFree
<1>17. ASSUME NEW t \in Workers, SpuriousWakeup(t) PROVE MutexDiscipline'
  BY <1>17 DEF SpuriousWakeup, MutexDiscipline, Holder
<1>18. CASE Join
  BY <1>18, MutexKept DEF Join
<1> QED BY <1>1, <1>2, <1>3, <1>4, <1>5, <1>6, <1>7, <1>8, <1>9,
         <1>10, <1>11, <1>12, <1>13, <1>14, <1>15, <1>16, <1>17, <1>18
         DEF Next, Put, Get, DropRest

(* Only main frees q, and only while nobody is in the guarded code.         *)
LEMMA OnlyMainFrees ==
  ASSUME MutexDiscipline, NEW t \in Droppers, DropFree(t)
  PROVE  /\ t = Main
         /\ \A s \in Workers : pc[s] \notin {"putInsert", "getRemove"}
         /\ \A p \in Producers : pc[p] \notin {"drop", "dropBroadcast", "dropFree"}
BY Roles DEF MutexDiscipline, Holder, Guarded, DropFree, Goto

(* A step of a worker that does not reach the code that uses q unless q is  *)
(* there, nor a broadcast before destroying is set.                         *)
LEMMA DropMove ==
  ASSUME PcOK, DropOrder, NEW t \in Workers, NEW to, pc' = [pc EXCEPT ![t] = to],
         UNCHANGED <<qAlive, destroying>>,
         to \in {"putInsert", "getRemove", "drop", "dropBroadcast", "dropFree"} => qAlive,
         to \in {"dropBroadcast", "dropFree"} => destroying
  PROVE  DropOrder'
BY PcAfter, Roles DEF DropOrder

(* Every step keeps the order of drop().                                    *)
LEMMA DropOrderStep ==
  ASSUME PcOK, ThreadPlaces, Together, MutexDiscipline, DropOrder, Next
  PROVE  DropOrder'
<1> USE Roles DEF Goto, list
<1>a. \A t \in Workers : pc[t] # "killed" /\ ~destroying => qAlive
  BY DEF Together, DropOrder
<1>1. ASSUME NEW p \in Producers, PutEnter(p) PROVE DropOrder'
  BY <1>1, DropMove DEF PutEnter
<1>2. ASSUME NEW p \in Producers, PutSleep(p) PROVE DropOrder'
  BY <1>2, DropMove DEF PutSleep, Sleep
<1>3. ASSUME NEW p \in Producers, PutAwake(p) PROVE DropOrder'
  BY <1>3, DropMove DEF PutAwake, Awake
<1>4. ASSUME NEW p \in Producers, PutTest(p) PROVE DropOrder'
  BY <1>4, <1>a, DropMove DEF PutTest
<1>5. ASSUME NEW p \in Producers, PutInsert(p) PROVE DropOrder'
  BY <1>5, DropMove DEF PutInsert
<1>6. ASSUME NEW p \in Producers, PutNoMemory(p) PROVE DropOrder'
  BY <1>6, DropMove DEF PutNoMemory, DropOrder
<1>7. ASSUME NEW c \in Consumers, GetEnter(c) PROVE DropOrder'
  BY <1>7, DropMove DEF GetEnter
<1>8. ASSUME NEW c \in Consumers, GetSleep(c) PROVE DropOrder'
  BY <1>8, DropMove DEF GetSleep, Sleep
<1>9. ASSUME NEW c \in Consumers, GetAwake(c) PROVE DropOrder'
  BY <1>9, DropMove DEF GetAwake, Awake
<1>10. ASSUME NEW c \in Consumers, GetTest(c) PROVE DropOrder'
  BY <1>10, <1>a, DropMove DEF GetTest
<1>11. ASSUME NEW c \in Consumers, GetRemove(c) PROVE DropOrder'
  BY <1>11, DropMove DEF GetRemove
<1>12. ASSUME NEW c \in Consumers, GetCopy(c) PROVE DropOrder'
  BY <1>12, DropMove DEF GetCopy
<1>13. ASSUME NEW c \in Consumers, GetCrash(c) PROVE DropOrder'
  BY <1>13 DEF GetCrash, DropOrder
<1>14. ASSUME NEW t \in Droppers, DropFlag(t) PROVE DropOrder'
  BY <1>14, PcAfter DEF DropFlag, DropOrder
<1>15. ASSUME NEW t \in Droppers, DropBroadcast(t) PROVE DropOrder'
  BY <1>15, PcAfter DEF DropBroadcast, DropOrder
<1>16. ASSUME NEW t \in Droppers, DropFree(t) PROVE DropOrder'
  <2>1. t = Main /\ \A s \in Workers : pc[s] \notin
             {"putInsert", "getRemove", "drop", "dropBroadcast", "dropFree"}
    BY <1>16, OnlyMainFrees DEF ThreadPlaces, GetPlaces
  <2>2. pc[Main] = "dropFree" /\ pc' = [pc EXCEPT ![Main] = "join"]
        /\ qAlive' = FALSE /\ destroying' = destroying
    BY <1>16, <2>1 DEF DropFree
  <2>3. \A s \in Threads : pc'[s] = IF s = Main THEN "join" ELSE pc[s]
    BY <2>2, PcAfter
  <2> QED BY <2>1, <2>2, <2>3 DEF DropOrder
<1>17. ASSUME NEW t \in Workers, SpuriousWakeup(t) PROVE DropOrder'
  BY <1>17 DEF SpuriousWakeup, DropOrder
<1>18. CASE Join
  BY <1>18, PcAfter DEF Join, DropOrder
<1> QED BY <1>1, <1>2, <1>3, <1>4, <1>5, <1>6, <1>7, <1>8, <1>9,
         <1>10, <1>11, <1>12, <1>13, <1>14, <1>15, <1>16, <1>17, <1>18
         DEF Next, Put, Get, DropRest

(* A thread that decided to sleep has the mutex until it sleeps, so count   *)
(* is what it saw.                                                          *)
LEMMA CountSeenStep ==
  ASSUME PcOK, ThreadPlaces, MutexDiscipline, CountSeen, Next
  PROVE  CountSeen'
<1> USE Roles DEF Goto, list
<1>a. ASSUME NEW t \in Threads, NEW to, pc' = [pc EXCEPT ![t] = to], count' = count,
             to = "putWait" => count = Capacity, to = "getWait" => count = 0
      PROVE  CountSeen'
  BY <1>a, PcAfter DEF CountSeen
<1>b. ASSUME NEW t \in Threads, pc[t] \in Guarded
      PROVE  \A s \in Threads : s # t => pc[s] \notin {"putWait", "getWait"}
  BY <1>b DEF MutexDiscipline, Holder, Guarded
<1>1. ASSUME NEW p \in Producers, PutEnter(p) PROVE CountSeen'
  BY <1>1, <1>a DEF PutEnter
<1>2. ASSUME NEW p \in Producers, PutSleep(p) PROVE CountSeen'
  BY <1>2, <1>a DEF PutSleep, Sleep
<1>3. ASSUME NEW p \in Producers, PutAwake(p) PROVE CountSeen'
  BY <1>3, <1>a DEF PutAwake, Awake
<1>4. ASSUME NEW p \in Producers, PutTest(p) PROVE CountSeen'
  BY <1>4, <1>a DEF PutTest
<1>5. ASSUME NEW p \in Producers, PutInsert(p) PROVE CountSeen'
  BY <1>5, <1>b, PcAfter DEF PutInsert, CountSeen, Guarded
<1>6. ASSUME NEW p \in Producers, PutNoMemory(p) PROVE CountSeen'
  BY <1>6, <1>a DEF PutNoMemory
<1>7. ASSUME NEW c \in Consumers, GetEnter(c) PROVE CountSeen'
  BY <1>7, <1>a DEF GetEnter
<1>8. ASSUME NEW c \in Consumers, GetSleep(c) PROVE CountSeen'
  BY <1>8, <1>a DEF GetSleep, Sleep
<1>9. ASSUME NEW c \in Consumers, GetAwake(c) PROVE CountSeen'
  BY <1>9, <1>a DEF GetAwake, Awake
<1>10. ASSUME NEW c \in Consumers, GetTest(c) PROVE CountSeen'
  BY <1>10, <1>a DEF GetTest
<1>11. ASSUME NEW c \in Consumers, GetRemove(c) PROVE CountSeen'
  BY <1>11, <1>b, PcAfter DEF GetRemove, CountSeen, Guarded
<1>12. ASSUME NEW c \in Consumers, GetCopy(c) PROVE CountSeen'
  BY <1>12, <1>a DEF GetCopy
<1>13. ASSUME NEW c \in Consumers, GetCrash(c) PROVE CountSeen'
  BY <1>13 DEF GetCrash, CountSeen
<1>14. ASSUME NEW t \in Droppers, DropFlag(t) PROVE CountSeen'
  BY <1>14, <1>a DEF DropFlag
<1>15. ASSUME NEW t \in Droppers, DropBroadcast(t) PROVE CountSeen'
  BY <1>15, <1>a DEF DropBroadcast
<1>16. ASSUME NEW t \in Droppers, DropFree(t) PROVE CountSeen'
  BY <1>16, <1>a DEF DropFree
<1>17. ASSUME NEW t \in Workers, SpuriousWakeup(t) PROVE CountSeen'
  BY <1>17 DEF SpuriousWakeup, CountSeen
<1>18. CASE Join
  BY <1>18, <1>a DEF Join
<1> QED BY <1>1, <1>2, <1>3, <1>4, <1>5, <1>6, <1>7, <1>8, <1>9,
         <1>10, <1>11, <1>12, <1>13, <1>14, <1>15, <1>16, <1>17, <1>18
         DEF Next, Put, Get, DropRest

(* Nobody begins that main did not create, and nobody returns before        *)
(* destroying is set.                                                       *)
LEMMA CreatedStep ==
  ASSUME PcOK, ThreadPlaces, MutexDiscipline, created \subseteq Workers, Created, Next
  PROVE  Created'
<1> USE Roles DEF Goto, list, run
<1>a. ASSUME NEW t \in Threads, NEW to, pc' = [pc EXCEPT ![t] = to],
             pc[t] \notin {"done", "killed"}, to = "done" /\ t \in Workers => destroying,
             created' = created, destroying => destroying'
      PROVE  Created'
  BY <1>a, PcAfter DEF Created
<1>1. ASSUME NEW p \in Producers, PutEnter(p) PROVE Created'
  BY <1>1, <1>a DEF PutEnter
<1>2. ASSUME NEW p \in Producers, PutSleep(p) PROVE Created'
  BY <1>2, <1>a DEF PutSleep, Sleep
<1>3. ASSUME NEW p \in Producers, PutAwake(p) PROVE Created'
  BY <1>3, <1>a DEF PutAwake, Awake
<1>4. ASSUME NEW p \in Producers, PutTest(p) PROVE Created'
  BY <1>4, <1>a DEF PutTest
<1>5. ASSUME NEW p \in Producers, PutInsert(p) PROVE Created'
  BY <1>5, <1>a DEF PutInsert
<1>6. ASSUME NEW p \in Producers, PutNoMemory(p) PROVE Created'
  BY <1>6, <1>a DEF PutNoMemory
<1>7. ASSUME NEW c \in Consumers, GetEnter(c) PROVE Created'
  BY <1>7, <1>a DEF GetEnter
<1>8. ASSUME NEW c \in Consumers, GetSleep(c) PROVE Created'
  BY <1>8, <1>a DEF GetSleep, Sleep
<1>9. ASSUME NEW c \in Consumers, GetAwake(c) PROVE Created'
  BY <1>9, <1>a DEF GetAwake, Awake
<1>10. ASSUME NEW c \in Consumers, GetTest(c) PROVE Created'
  BY <1>10, <1>a DEF GetTest
<1>11. ASSUME NEW c \in Consumers, GetRemove(c) PROVE Created'
  BY <1>11, <1>a DEF GetRemove
<1>12. ASSUME NEW c \in Consumers, GetCopy(c) PROVE Created'
  BY <1>12, <1>a DEF GetCopy
<1>13. ASSUME NEW c \in Consumers, GetCrash(c) PROVE Created'
  BY <1>13 DEF GetCrash, Created
<1>14. ASSUME NEW t \in Droppers, DropFlag(t) PROVE Created'
  BY <1>14, <1>a DEF DropFlag
<1>15. ASSUME NEW t \in Droppers, DropBroadcast(t) PROVE Created'
  BY <1>15, <1>a DEF DropBroadcast
<1>16. ASSUME NEW t \in Droppers, DropFree(t) PROVE Created'
  BY <1>16, <1>a, OnlyMainFrees DEF DropFree
<1>17. ASSUME NEW t \in Workers, SpuriousWakeup(t) PROVE Created'
  BY <1>17 DEF SpuriousWakeup, Created
<1>18. CASE Join
  BY <1>18, <1>a DEF Join
<1> QED BY <1>1, <1>2, <1>3, <1>4, <1>5, <1>6, <1>7, <1>8, <1>9,
         <1>10, <1>11, <1>12, <1>13, <1>14, <1>15, <1>16, <1>17, <1>18
         DEF Next, Put, Get, DropRest

-----------------------------------------------------------------------------
(* count, the list and the gets that found it empty. *)

(* A step of t that neither unlinks nor copies leaves the doomed gets.      *)
LEMMA NullTakersKept ==
  ASSUME PcOK, NEW t \in Threads, NEW to, pc' = [pc EXCEPT ![t] = to], taken' = taken,
         pc[t] # "getCopy", to # "getCopy"
  PROVE  NullTakers' = NullTakers
BY PcAfter, Roles DEF NullTakers

(* Their number is a number, and changes by one with one of them.           *)
LEMMA NullTakersFinite ==
  /\ IsFiniteSet(NullTakers)
  /\ Cardinality(NullTakers) \in Nat
  /\ Cardinality(Consumers) \in Nat
  /\ Cardinality(NullTakers) <= Cardinality(Consumers)
<1>1. IsFiniteSet(Consumers) /\ NullTakers \subseteq Consumers
  BY ConstantsAssumption DEF NullTakers
<1> QED BY <1>1, FS_Subset, FS_CardinalityType

(* A step that changes neither count, nor the list, nor the doomed gets.    *)
LEMMA CountKept ==
  ASSUME CountBalance, count' = count, queue' = queue, qAlive' = qAlive,
         NullTakers' = NullTakers
  PROVE  CountBalance'
BY DEF CountBalance

(* Every link and unlink keeps count equal to the length of the list less   *)
(* the gets that found it empty.                                            *)
LEMMA CountStep ==
  ASSUME PcOK, ThreadPlaces, queue \in Seq(Messages), count \in Int,
         taken \in [Consumers -> Messages \cup {NoMessage}], CountBalance, Next
  PROVE  CountBalance'
<1> USE Roles DEF Goto, list
<1>1. ASSUME NEW p \in Producers, PutEnter(p) PROVE CountBalance'
  BY <1>1, CountKept, NullTakersKept DEF PutEnter
<1>2. ASSUME NEW p \in Producers, PutSleep(p) PROVE CountBalance'
  BY <1>2, CountKept, NullTakersKept DEF PutSleep, Sleep
<1>3. ASSUME NEW p \in Producers, PutAwake(p) PROVE CountBalance'
  BY <1>3, CountKept, NullTakersKept DEF PutAwake, Awake
<1>4. ASSUME NEW p \in Producers, PutTest(p) PROVE CountBalance'
  BY <1>4, CountKept, NullTakersKept DEF PutTest
<1>5. ASSUME NEW p \in Producers, PutInsert(p) PROVE CountBalance'
  <2>1. NullTakers' = NullTakers
    BY <1>5, NullTakersKept DEF PutInsert
  <2>2. Len(queue') = Len(queue) + 1 /\ Len(queue) \in Nat
    BY <1>5, AppendProperties, LenProperties DEF PutInsert, Link
  <2> QED BY <1>5, <2>1, <2>2, NullTakersFinite DEF PutInsert, CountBalance
<1>6. ASSUME NEW p \in Producers, PutNoMemory(p) PROVE CountBalance'
  BY <1>6, CountKept, NullTakersKept DEF PutNoMemory
<1>7. ASSUME NEW c \in Consumers, GetEnter(c) PROVE CountBalance'
  BY <1>7, CountKept, NullTakersKept DEF GetEnter
<1>8. ASSUME NEW c \in Consumers, GetSleep(c) PROVE CountBalance'
  BY <1>8, CountKept, NullTakersKept DEF GetSleep, Sleep
<1>9. ASSUME NEW c \in Consumers, GetAwake(c) PROVE CountBalance'
  BY <1>9, CountKept, NullTakersKept DEF GetAwake, Awake
<1>10. ASSUME NEW c \in Consumers, GetTest(c) PROVE CountBalance'
  BY <1>10, CountKept, NullTakersKept DEF GetTest
<1>11. ASSUME NEW c \in Consumers, GetRemove(c) PROVE CountBalance'
  <2>1. pc[c] = "getRemove" /\ c \notin NullTakers
    BY <1>11 DEF GetRemove, NullTakers
  <2>2. \A d \in Consumers : /\ pc'[d] = IF d = c THEN "getCopy" ELSE pc[d]
                             /\ taken'[d] = IF d = c THEN taken'[c] ELSE taken[d]
    BY <1>11, PcAfter DEF GetRemove
  <2>3. CASE queue = <<>>
    <3>1. taken'[c] = NoMessage /\ queue' = <<>>
      BY <1>11, <2>3 DEF GetRemove
    <3>2. NullTakers' = NullTakers \cup {c}
      BY <2>2, <3>1 DEF NullTakers
    <3>3. Cardinality(NullTakers') = Cardinality(NullTakers) + 1
      BY <2>1, <3>2, NullTakersFinite, FS_AddElement
    <3> QED BY <1>11, <2>3, <3>1, <3>3, NullTakersFinite DEF GetRemove, CountDown, CountBalance
  <2>4. CASE queue # <<>>
    <3>1. taken'[c] = Head(queue) /\ queue' = Tail(queue)
      BY <1>11, <2>4 DEF GetRemove
    <3>2. Head(queue) \in Messages /\ Len(queue') = Len(queue) - 1 /\ Len(queue) \in Nat
      BY <2>4, <3>1, HeadTailProperties, LenProperties
    <3>3. NullTakers' = NullTakers
      BY <2>1, <2>2, <3>1, <3>2, ConstantsAssumption DEF NullTakers
    <3> QED BY <1>11, <3>2, <3>3, NullTakersFinite DEF GetRemove, CountDown, CountBalance
  <2> QED BY <2>3, <2>4
<1>12. ASSUME NEW c \in Consumers, GetCopy(c) PROVE CountBalance'
  <2>1. \A d \in Consumers : /\ pc'[d] = IF d = c THEN "get" ELSE pc[d]
                             /\ d # c => taken'[d] = taken[d]
    BY <1>12, PcAfter DEF GetCopy
  <2>2. NullTakers' = NullTakers
    BY <1>12, <2>1 DEF NullTakers, GetCopy
  <2> QED BY <1>12, <2>2, CountKept DEF GetCopy
<1>13. ASSUME NEW c \in Consumers, GetCrash(c) PROVE CountBalance'
  BY <1>13 DEF GetCrash, CountBalance
<1>14. ASSUME NEW t \in Droppers, DropFlag(t) PROVE CountBalance'
  BY <1>14, CountKept, NullTakersKept DEF DropFlag
<1>15. ASSUME NEW t \in Droppers, DropBroadcast(t) PROVE CountBalance'
  BY <1>15, CountKept, NullTakersKept DEF DropBroadcast
<1>16. ASSUME NEW t \in Droppers, DropFree(t) PROVE CountBalance'
  BY <1>16 DEF DropFree, CountBalance
<1>17. ASSUME NEW t \in Workers, SpuriousWakeup(t) PROVE CountBalance'
  <2>1. NullTakers' = NullTakers
    BY <1>17 DEF SpuriousWakeup, NullTakers
  <2> QED BY <1>17, <2>1, CountKept DEF SpuriousWakeup
<1>18. CASE Join
  BY <1>18, CountKept, NullTakersKept DEF Join
<1> QED BY <1>1, <1>2, <1>3, <1>4, <1>5, <1>6, <1>7, <1>8, <1>9,
         <1>10, <1>11, <1>12, <1>13, <1>14, <1>15, <1>16, <1>17, <1>18
         DEF Next, Put, Get, DropRest

(* The variables other than pc and count stay in their types.               *)
DataOK ==
    /\ created \in SUBSET Workers /\ spurious \in BOOLEAN
    /\ mutex \in Threads \cup {NoThread}
    /\ waiting \in SUBSET Workers
    /\ destroying \in BOOLEAN /\ qAlive \in BOOLEAN
    /\ queue \in Seq(Messages) /\ Len(queue) <= QueueBound
    /\ taken \in [Consumers -> Messages \cup {NoMessage}]
    /\ buffer \in [Consumers -> Messages \cup {NoMessage}]

(* (see above) *)
LEMMA DataStep ==
  ASSUME DataOK, Next
  PROVE  DataOK'
<1> USE Roles DEF Goto, list, run, Lock, Unlock, DataOK
<1>a. <<>> \in Seq(Messages) /\ Len(<<>>) = 0 /\ QueueBound \in Nat
  BY EmptySeq, ConstantsAssumption
<1>1. ASSUME NEW p \in Producers, PutEnter(p) PROVE DataOK'
  BY <1>1 DEF PutEnter
<1>2. ASSUME NEW p \in Producers, PutSleep(p) PROVE DataOK'
  BY <1>2 DEF PutSleep, Sleep
<1>3. ASSUME NEW p \in Producers, PutAwake(p) PROVE DataOK'
  BY <1>3 DEF PutAwake, Awake
<1>4. ASSUME NEW p \in Producers, PutTest(p) PROVE DataOK'
  BY <1>4 DEF PutTest
<1>5. ASSUME NEW p \in Producers, PutInsert(p) PROVE DataOK'
  <2>1. waiting' \subseteq waiting
    BY <1>5, SignalWakes DEF PutInsert
  <2>2. queue' \in Seq(Messages) /\ Len(queue') <= QueueBound
    BY <1>5, <1>a, AppendProperties, LenProperties DEF PutInsert, Link
  <2> QED BY <1>5, <2>1, <2>2 DEF PutInsert
<1>6. ASSUME NEW p \in Producers, PutNoMemory(p) PROVE DataOK'
  BY <1>6 DEF PutNoMemory
<1>7. ASSUME NEW c \in Consumers, GetEnter(c) PROVE DataOK'
  BY <1>7 DEF GetEnter
<1>8. ASSUME NEW c \in Consumers, GetSleep(c) PROVE DataOK'
  BY <1>8 DEF GetSleep, Sleep
<1>9. ASSUME NEW c \in Consumers, GetAwake(c) PROVE DataOK'
  BY <1>9 DEF GetAwake, Awake
<1>10. ASSUME NEW c \in Consumers, GetTest(c) PROVE DataOK'
  BY <1>10 DEF GetTest
<1>11. ASSUME NEW c \in Consumers, GetRemove(c) PROVE DataOK'
  <2>1. waiting' \subseteq waiting
    BY <1>11, SignalWakes DEF GetRemove
  <2>2. queue' \in Seq(Messages) /\ Len(queue') <= QueueBound
        /\ (queue # <<>> => Head(queue) \in Messages)
    BY <1>11, <1>a, HeadTailProperties, LenProperties DEF GetRemove
  <2> QED BY <1>11, <2>1, <2>2 DEF GetRemove
<1>12. ASSUME NEW c \in Consumers, GetCopy(c) PROVE DataOK'
  BY <1>12 DEF GetCopy
<1>13. ASSUME NEW c \in Consumers, GetCrash(c) PROVE DataOK'
  <2>1. queue' \in Seq(Messages) /\ Len(queue') <= QueueBound
    BY <1>13, <1>a DEF GetCrash
  <2> QED BY <1>13, <2>1 DEF GetCrash
<1>14. ASSUME NEW t \in Droppers, DropFlag(t) PROVE DataOK'
  BY <1>14 DEF DropFlag
<1>15. ASSUME NEW t \in Droppers, DropBroadcast(t) PROVE DataOK'
  BY <1>15 DEF DropBroadcast
<1>16. ASSUME NEW t \in Droppers, DropFree(t) PROVE DataOK'
  <2>1. queue' \in Seq(Messages) /\ Len(queue') <= QueueBound
    BY <1>16, <1>a DEF DropFree
  <2> QED BY <1>16, <2>1 DEF DropFree
<1>17. ASSUME NEW t \in Workers, SpuriousWakeup(t) PROVE DataOK'
  BY <1>17 DEF SpuriousWakeup
<1>18. CASE Join
  BY <1>18 DEF Join
<1> QED BY <1>1, <1>2, <1>3, <1>4, <1>5, <1>6, <1>7, <1>8, <1>9,
         <1>10, <1>11, <1>12, <1>13, <1>14, <1>15, <1>16, <1>17, <1>18
         DEF Next, Put, Get, DropRest

(* count changes only while q is there, where the balance bounds it.        *)
LEMMA CountTyped ==
  ASSUME DataOK', count \in (-Cardinality(Consumers))..QueueBound, DropOrder,
         CountBalance', Next
  PROVE  count' \in (-Cardinality(Consumers))..QueueBound
<1> USE Roles DEF Goto, list
<1>1. CASE qAlive'
  <2>1. Len(queue') \in Nat /\ Len(queue') <= QueueBound
    BY LenProperties DEF DataOK
  <2>2. /\ Cardinality(NullTakers') \in Nat /\ Cardinality(Consumers) \in Nat
        /\ Cardinality(NullTakers') <= Cardinality(Consumers)
    <3>1. NullTakers' \subseteq Consumers /\ IsFiniteSet(Consumers)
      BY ConstantsAssumption DEF NullTakers
    <3> QED BY <3>1, FS_Subset, FS_CardinalityType
  <2>3. count' = Len(queue') - Cardinality(NullTakers')
    BY <1>1 DEF CountBalance
  <2> QED BY <2>1, <2>2, <2>3, ConstantsAssumption
<1>2. CASE ~qAlive'
  <2>1. \A p \in Producers : ~PutInsert(p)
    BY <1>2 DEF DropOrder, PutInsert
  <2>2. \A c \in Consumers : ~GetRemove(c)
    BY <1>2 DEF DropOrder, GetRemove
  <2>3. count' = count
    BY <2>1, <2>2
       DEF Next, Put, Get, DropRest, PutEnter, PutSleep, PutAwake, PutTest, PutNoMemory,
           GetEnter, GetSleep, GetAwake, GetTest, GetCopy, GetCrash, DropFlag,
           DropBroadcast, DropFree, SpuriousWakeup, Join, Sleep, Awake
  <2> QED BY <2>3
<1> QED BY <1>1, <1>2


-----------------------------------------------------------------------------
(* No wake-up is lost: the last thread that is awake cannot fall asleep.    *)

(* A step of u that changes no count, puts nobody to sleep and does not     *)
(* turn u from its call keeps whoever drives the queue.                     *)
LEMMA DriveKept ==
  ASSUME PcOK, SomebodyDrives, created \subseteq Workers,
         NEW u \in Threads, NEW to, pc' = [pc EXCEPT ![u] = to],
         pc[u] \in Committing => to \in Committing \/ destroying',
         count' = count, created' = created, waiting' \subseteq waiting,
         NullTakers \subseteq NullTakers', destroying => destroying'
  PROVE  SomebodyDrives'
<1> SUFFICES ASSUME ~destroying' PROVE \E s \in created' : Drives(s)'
  BY DEF SomebodyDrives
<1>1. PICK t \in created : Drives(t)
  BY DEF SomebodyDrives
<1>2. t \notin waiting'
  BY <1>1 DEF Drives
<1>3. pc[t] \in Committing => pc'[t] \in Committing
  BY PcAfter, Roles
<1>4. Drives(t)'
  BY <1>1, <1>2, <1>3 DEF Drives
<1> QED BY <1>4

(* A thread falls asleep only if it saw count at Capacity, or at 0: then it *)
(* was not the one that drives the queue.                                   *)
LEMMA DriveSleeps ==
  ASSUME PcOK, SomebodyDrives, created \subseteq Workers, CountSeen,
         NEW u \in Workers, NEW to,
         \/ u \in Producers /\ Sleep(u, "putWait", to)
         \/ u \in Consumers /\ Sleep(u, "getWait", to)
  PROVE  SomebodyDrives'
<1> USE Roles DEF Sleep, Goto, list, run
<1> SUFFICES ASSUME ~destroying' PROVE \E s \in created' : Drives(s)'
  BY DEF SomebodyDrives
<1>1. PICK t \in created : Drives(t)
  BY DEF SomebodyDrives
<1>2. t # u
  <2>1. u \notin NullTakers /\ pc[u] \notin Committing
    BY DEF NullTakers, Committing
  <2>2. /\ u \in Producers => count = Capacity
        /\ u \in Consumers => count = 0
    BY DEF CountSeen
  <2> QED BY <1>1, <2>1, <2>2 DEF Drives
<1>3. t \notin waiting' /\ pc'[t] = pc[t]
  BY <1>1, <1>2, PcAfter DEF Drives
<1>4. t \in NullTakers => t \in NullTakers'
  BY <1>3 DEF NullTakers
<1>5. Drives(t)'
  BY <1>1, <1>3, <1>4 DEF Drives
<1> QED BY <1>5

(* Whoever links or unlinks a node wakes a sleeper, who is then bound to do *)
(* the same; or nobody sleeps, and count cannot be at both ends at once; or *)
(* a get is doomed.                                                         *)
LEMMA DriveSignals ==
  ASSUME PcOK, PcOK', created \subseteq Workers, waiting \subseteq Workers,
         Created, MutexDiscipline,
         NEW u \in Workers, NEW to, pc' = [pc EXCEPT ![u] = to], pc[u] \notin {"putAsleep", "getAsleep"},
         u \in created, created' = created, count' \in Int,
         \/ Signal
         \/ waiting' = waiting /\ u \in Consumers /\ count' # 0
         \/ waiting' = waiting /\ NullTakers' # {} /\ NullTakers' \subseteq created
  PROVE  SomebodyDrives'
<1> USE Roles
<1> SUFFICES \E t \in created' : Drives(t)'
  BY DEF SomebodyDrives
<1>1. u \notin waiting
  BY DEF MutexDiscipline
<1>2. CASE Signal /\ waiting # {}
  <2>1. PICK t \in waiting : waiting' = waiting \ {t}
    BY <1>2, SignalWakes
  <2>2. t \in Threads /\ pc[t] \in {"putAsleep", "getAsleep"} /\ t # u /\ t \in created
    <3>1. t \in Threads
      BY <2>1
    <3> QED BY <1>1, <3>1 DEF MutexDiscipline, Created
  <2>3. pc'[t] \in Committing
    BY <2>2, PcAfter DEF Committing
  <2> QED BY <2>1, <2>2, <2>3 DEF Drives
<1>3. CASE Signal /\ waiting = {}
  <2>1. waiting' = {}
    BY <1>3, SignalWakes
  <2>2. PICK p \in created \cap Producers : TRUE
    BY DEF Created
  <2>3. PICK c \in created \cap Consumers : TRUE
    BY DEF Created
  <2>4. CASE count' # 0
    BY <2>1, <2>3, <2>4 DEF Drives
  <2>5. CASE count' = 0
    BY <2>1, <2>2, <2>5, ConstantsAssumption DEF Drives
  <2> QED BY <2>4, <2>5
<1>4. CASE waiting' = waiting /\ u \in Consumers /\ count' # 0
  BY <1>1, <1>4 DEF Drives
<1>5. CASE waiting' = waiting /\ NullTakers' # {} /\ NullTakers' \subseteq created
  <2>1. PICK n \in NullTakers' : n \in created /\ n \in Threads
    BY <1>5
  <2>2. n \notin waiting
    <3>1. pc'[n] = "getCopy"
      BY <2>1 DEF NullTakers
    <3>2. n = u \/ pc[n] = "getCopy"
      BY <2>1, <3>1, PcAfter
    <3> QED BY <1>1, <3>2 DEF MutexDiscipline
  <2> QED BY <1>5, <2>1, <2>2 DEF Drives
<1> QED BY <1>2, <1>3, <1>4, <1>5


(* In every state before drop() somebody drives the queue.                  *)
LEMMA DriveStep ==
  ASSUME PcOK, PcOK', ThreadPlaces, DataOK, count \in Int, MutexDiscipline, DropOrder,
         CountSeen, Created, CountBalance, SomebodyDrives, Next
  PROVE  SomebodyDrives'
<1> USE Roles DEF Goto, list, run, Committing
<1>a. created \subseteq Workers /\ waiting \subseteq Workers
  BY DEF DataOK
<1>b. \A t \in Workers : pc[t] \notin {"done", "killed"} => t \in created
  BY DEF Created
<1>1. ASSUME NEW p \in Producers, PutEnter(p) PROVE SomebodyDrives'
  BY <1>1, <1>a, DriveKept, NullTakersKept DEF PutEnter
<1>2. ASSUME NEW p \in Producers, PutSleep(p) PROVE SomebodyDrives'
  BY <1>2, <1>a, DriveSleeps DEF PutSleep
<1>3. ASSUME NEW p \in Producers, PutAwake(p) PROVE SomebodyDrives'
  BY <1>3, <1>a, DriveKept, NullTakersKept DEF PutAwake, Awake
<1>4. ASSUME NEW p \in Producers, PutTest(p) PROVE SomebodyDrives'
  BY <1>4, <1>a, DriveKept, NullTakersKept DEF PutTest
<1>5. ASSUME NEW p \in Producers, PutInsert(p) PROVE SomebodyDrives'
  <2>1. pc[p] = "putInsert" /\ pc' = [pc EXCEPT ![p] = "put"] /\ p \in created
        /\ count' = count + 1 /\ count' \in Int /\ created' = created /\ qAlive
    BY <1>5, <1>b DEF PutInsert, DropOrder
  <2>2. CASE Signal
    BY <1>a, <2>1, <2>2, DriveSignals
  <2>3. CASE ~(count' > 0) /\ waiting' = waiting
    <3>1. NullTakers' = NullTakers
      BY <1>5, <2>1, NullTakersKept DEF PutInsert
    <3>2. Cardinality(NullTakers) > 0
      BY <2>1, <2>3, NullTakersFinite, LenProperties DEF CountBalance, DataOK
    <3>3. NullTakers # {}
      BY <3>2, FS_EmptySet
    <3>4. NullTakers \subseteq created
      BY <1>b DEF NullTakers
    <3> QED BY <1>a, <2>1, <2>3, <3>1, <3>3, <3>4, DriveSignals
  <2> QED BY <1>5, <2>2, <2>3 DEF PutInsert
<1>6. ASSUME NEW p \in Producers, PutNoMemory(p) PROVE SomebodyDrives'
  BY <1>6, <1>a, DriveKept, NullTakersKept DEF PutNoMemory
<1>7. ASSUME NEW c \in Consumers, GetEnter(c) PROVE SomebodyDrives'
  BY <1>7, <1>a, DriveKept, NullTakersKept DEF GetEnter
<1>8. ASSUME NEW c \in Consumers, GetSleep(c) PROVE SomebodyDrives'
  BY <1>8, <1>a, DriveSleeps DEF GetSleep
<1>9. ASSUME NEW c \in Consumers, GetAwake(c) PROVE SomebodyDrives'
  BY <1>9, <1>a, DriveKept, NullTakersKept DEF GetAwake, Awake
<1>10. ASSUME NEW c \in Consumers, GetTest(c) PROVE SomebodyDrives'
  BY <1>10, <1>a, DriveKept, NullTakersKept DEF GetTest
<1>11. ASSUME NEW c \in Consumers, GetRemove(c) PROVE SomebodyDrives'
  <2>1. pc[c] = "getRemove" /\ pc' = [pc EXCEPT ![c] = "getCopy"] /\ c \in created
        /\ count' = count - 1 /\ count' \in Int /\ created' = created
    BY <1>11, <1>b DEF GetRemove, CountDown
  <2>2. CASE Signal
    BY <1>a, <2>1, <2>2, DriveSignals
  <2>3. CASE ~(count' < Capacity) /\ waiting' = waiting
    <3>1. count' # 0
      BY <2>1, <2>3, ConstantsAssumption
    <3> QED BY <1>a, <2>1, <2>3, <3>1, DriveSignals
  <2> QED BY <1>11, <2>2, <2>3 DEF GetRemove
<1>12. ASSUME NEW c \in Consumers, GetCopy(c) PROVE SomebodyDrives'
  <2>1. c \notin NullTakers
    BY <1>12 DEF GetCopy, NullTakers
  <2>2. \A d \in Consumers : d # c => pc'[d] = pc[d] /\ taken'[d] = taken[d]
    BY <1>12, PcAfter DEF GetCopy
  <2>3. NullTakers \subseteq NullTakers'
    BY <2>1, <2>2 DEF NullTakers
  <2> QED BY <1>12, <1>a, <2>3, DriveKept DEF GetCopy
<1>13. ASSUME NEW c \in Consumers, GetCrash(c) PROVE SomebodyDrives'
  <2>1. PICK p \in created \cap Producers : TRUE
    BY DEF Created
  <2>2. pc'[p] = "killed" /\ waiting' = {} /\ created' = created
    BY <1>13, <2>1 DEF GetCrash
  <2> QED BY <2>1, <2>2 DEF SomebodyDrives, Drives
<1>14. ASSUME NEW t \in Droppers, DropFlag(t) PROVE SomebodyDrives'
  BY <1>14, <1>a, DriveKept, NullTakersKept DEF DropFlag
<1>15. ASSUME NEW t \in Droppers, DropBroadcast(t) PROVE SomebodyDrives'
  BY <1>15, <1>a, DriveKept, NullTakersKept DEF DropBroadcast
<1>16. ASSUME NEW t \in Droppers, DropFree(t) PROVE SomebodyDrives'
  BY <1>16, <1>a, DriveKept, NullTakersKept DEF DropFree
<1>17. ASSUME NEW t \in Workers, SpuriousWakeup(t) PROVE SomebodyDrives'
  <2>1. waiting' \subseteq waiting
        /\ UNCHANGED <<created, destroying, count, taken, pc>>
    BY <1>17 DEF SpuriousWakeup
  <2> QED BY <2>1 DEF SomebodyDrives, Drives, NullTakers
<1>18. CASE Join
  BY <1>18, <1>a, DriveKept, NullTakersKept DEF Join
<1> QED BY <1>1, <1>2, <1>3, <1>4, <1>5, <1>6, <1>7, <1>8, <1>9,
         <1>10, <1>11, <1>12, <1>13, <1>14, <1>15, <1>16, <1>17, <1>18
         DEF Next, Put, Get, DropRest

-----------------------------------------------------------------------------
(* The inductive invariant. *)
IInv ==
    /\ TypeOK
    /\ ThreadPlaces
    /\ Together
    /\ MutexDiscipline
    /\ DropOrder
    /\ CountSeen
    /\ Created
    /\ CountBalance
    /\ SomebodyDrives

(* The places of TypeOK are those of the three kinds of thread.             *)
LEMMA PlacesUnion ==
  Places = Guarded \cup {"put", "putAsleep", "get", "getAsleep", "getCopy", "drop",
                         "dropBroadcast", "dropFree", "join", "done", "killed"}
BY DEF Places, PutPlaces, GetPlaces, MainPlaces, Guarded

(* It holds at the start, whichever threads main is asked for ...           *)
LEMMA Initially == Init => IInv
<1> SUFFICES ASSUME Init PROVE IInv
  OBVIOUS
<1> USE Roles DEF Init
<1>0. /\ pc[Main] = "drop"
      /\ \A t \in Workers \ created : pc[t] = "done"
      /\ \A p \in created \cap Producers : pc[p] = "put"
      /\ \A c \in created \cap Consumers : pc[c] = "get"
  BY DEF Threads, Workers
<1>1. \A t \in Threads : pc[t] \in {"drop", "done", "put", "get"}
                         /\ (t = Main <=> pc[t] = "drop")
                         /\ (pc[t] = "put" => t \in Producers)
                         /\ (pc[t] = "get" => t \in Consumers)
                         /\ (t \in created => pc[t] \in {"put", "get"})
                         /\ (t \in Workers \ created => pc[t] = "done")
  <2> HIDE DEF Init
  <2>1. \A t \in Threads : \/ t = Main \/ t \in Workers \ created
                           \/ t \in created \cap Producers \/ t \in created \cap Consumers
    BY DEF Threads, Workers
  <2>2. created \subseteq Workers
    BY DEF Init
  <2> QED BY <1>0, <2>1, <2>2
<1>2. ThreadPlaces
  BY <1>1 DEF ThreadPlaces, PutPlaces, GetPlaces, MainPlaces
<1>3. PcOK
  <2>1. \A t \in Threads : pc[t] \in Places
    BY <1>1 DEF Places, PutPlaces, GetPlaces, MainPlaces
  <2> QED BY <2>1 DEF PcOK
<1>4. DataOK
  <2>1. queue \in Seq(Messages) /\ Len(queue) <= QueueBound
    BY EmptySeq, ConstantsAssumption
  <2> QED BY <2>1 DEF DataOK
<1>5. NullTakers = {}
  BY <1>1 DEF NullTakers
<1>6. CountBalance
  BY <1>5, FS_EmptySet, EmptySeq DEF CountBalance
<1>7. TypeOK
  <2>1. count \in (-Cardinality(Consumers))..QueueBound
    BY NullTakersFinite, ConstantsAssumption
  <2> HIDE DEF Init
  <2> QED BY <1>3, <1>4, <2>1, PlacesUnion DEF TypeOK, DataOK, PcOK
<1>8. Together /\ DropOrder /\ CountSeen
  BY <1>1 DEF Together, DropOrder, CountSeen
<1>9. MutexDiscipline
  <2>1. \A t \in Threads : ~Holder(t)
    BY <1>1 DEF Holder, Guarded
  <2> QED BY <2>1 DEF MutexDiscipline
<1>10. Created
  BY <1>1, <1>4 DEF Created, DataOK
<1>11. SomebodyDrives
  BY ConstantsAssumption DEF SomebodyDrives, Drives
<1> QED BY <1>2, <1>6, <1>7, <1>8, <1>9, <1>10, <1>11 DEF IInv

(* What it says of the variables, one by one.                               *)
LEMMA InvParts ==
  ASSUME IInv
  PROVE  /\ DataOK /\ PcOK /\ count \in (-Cardinality(Consumers))..QueueBound /\ count \in Int
         /\ waiting \subseteq Workers /\ created \subseteq Workers /\ queue \in Seq(Messages)
         /\ taken \in [Consumers -> Messages \cup {NoMessage}]
<1>1. DataOK /\ PcOK /\ count \in (-Cardinality(Consumers))..QueueBound
  BY PlacesUnion DEF IInv, TypeOK, DataOK, PcOK
<1>2. count \in Int
  BY <1>1, NullTakersFinite, ConstantsAssumption
<1> QED BY <1>1, <1>2 DEF DataOK

(* ... and every step preserves it.                                         *)
LEMMA Inductive == IInv /\ [Next]_vars => IInv'
<1> SUFFICES ASSUME IInv, [Next]_vars PROVE IInv'
  OBVIOUS
<1>a. /\ DataOK /\ PcOK /\ count \in (-Cardinality(Consumers))..QueueBound /\ count \in Int
      /\ ThreadPlaces /\ Together /\ MutexDiscipline /\ DropOrder /\ CountSeen
      /\ Created /\ CountBalance /\ SomebodyDrives
  BY InvParts DEF IInv
<1>b. /\ waiting \subseteq Workers /\ created \subseteq Workers /\ queue \in Seq(Messages)
      /\ taken \in [Consumers -> Messages \cup {NoMessage}]
  BY InvParts
<1>1. CASE Next
  <2>1. PcOK' /\ ThreadPlaces' /\ Together'
    BY <1>a, <1>1, PlacesStep, TogetherStep
  <2>2. MutexDiscipline' /\ DropOrder' /\ CountSeen' /\ Created'
    BY <1>a, <1>b, <1>1, MutexStep, DropOrderStep, CountSeenStep, CreatedStep
  <2>3. DataOK' /\ CountBalance'
    BY <1>a, <1>b, <1>1, DataStep, CountStep
  <2>4. count' \in (-Cardinality(Consumers))..QueueBound
    BY <1>a, <1>1, <2>3, CountTyped
  <2>5. SomebodyDrives'
    BY <1>a, <1>1, <2>1, DriveStep
  <2>6. TypeOK'
    BY <2>1, <2>3, <2>4, PlacesUnion DEF TypeOK, DataOK, PcOK
  <2> QED BY <2>1, <2>2, <2>3, <2>5, <2>6 DEF IInv
<1>2. CASE UNCHANGED vars
  <2> USE <1>2 DEF vars, run, list
  <2>1. TypeOK' /\ ThreadPlaces' /\ Together' /\ MutexDiscipline'
    BY DEF IInv, TypeOK, ThreadPlaces, Together, MutexDiscipline, Holder
  <2>2. DropOrder' /\ CountSeen' /\ Created'
    BY DEF IInv, DropOrder, CountSeen, Created
  <2>3. CountBalance' /\ SomebodyDrives'
    BY DEF IInv, CountBalance, SomebodyDrives, Drives, NullTakers
  <2> QED BY <2>1, <2>2, <2>3 DEF IInv
<1> QED BY <1>1, <1>2

(* So it holds in every reachable state, for any number of threads, places  *)
(* and messages, with spurious wake-ups and failing mallocs or without.     *)
THEOREM Invariance == Spec => []IInv
BY Initially, Inductive, PTL DEF Spec

(* Every variable stays in its type; count stays between minus the number   *)
(* of consumers and the bound on the list.                                  *)
THEOREM TypeCorrectness == Spec => []TypeOK
<1>1. IInv => TypeOK
  BY DEF IInv
<1> QED BY <1>1, Invariance, PTL

(* The mutex belongs to exactly the thread in the code it guards, on every  *)
(* path through put, get, drop and pthread_cond_wait.                       *)
THEOREM MutexOwned == Spec => []MutexDiscipline
<1>1. IInv => MutexDiscipline
  BY DEF IInv
<1> QED BY <1>1, Invariance, PTL

(* Until drop() count is the length of the list less the gets that found it *)
(* empty.                                                                   *)
THEOREM CountKeeps == Spec => []CountBalance
<1>1. IInv => CountBalance
  BY DEF IInv
<1> QED BY <1>1, Invariance, PTL

(* q is used only while it is allocated, and freed once, though drop() sets *)
(* destroying and broadcasts without the mutex.                             *)
THEOREM NoUseAfterFree == Spec => []ListAliveWhenUsed
<1>1. IInv => ListAliveWhenUsed
  <2> SUFFICES ASSUME IInv, NEW t \in Threads,
                      pc[t] \in {"putInsert", "getRemove", "dropFree"}
               PROVE  qAlive
    BY DEF ListAliveWhenUsed
  <2>1. CASE t = Main
    BY <2>1 DEF IInv, DropOrder
  <2>2. CASE t \in Workers
    BY <2>2 DEF IInv, DropOrder
  <2> QED BY <2>1, <2>2 DEF Threads
<1> QED BY <1>1, Invariance, PTL

(* Before drop() the threads are never all asleep: no signal is lost,       *)
(* although put and get use an `if', one condition serves both sides and    *)
(* each signal wakes only one thread.                                       *)
THEOREM NoLostWakeup == Spec => []SomebodyAwake
<1>1. IInv => SomebodyAwake
  BY DEF IInv, SomebodyDrives, Drives, SomebodyAwake
<1> QED BY <1>1, Invariance, PTL

-----------------------------------------------------------------------------
(* One producer, one consumer and no spurious wake-up. *)

(* A call that will link, or unlink, a node without another look at count.  *)
PutGoes(p) == \/ pc[p] = "putInsert"
              \/ ~destroying /\ pc[p] = "putTest"
              \/ ~destroying /\ pc[p] = "putAsleep" /\ p \notin waiting
GetGoes(c) == \/ pc[c] = "getRemove"
              \/ ~destroying /\ pc[c] = "getTest"
              \/ ~destroying /\ pc[c] = "getAsleep" /\ c \notin waiting

(* Such a call still finds a place, or a message: a sleeper is woken as soon *)
(* as count leaves the value it saw, and nobody else can move count back.   *)
PairOK(p, c) ==
    /\ c \notin NullTakers
    /\ qAlive => 0 <= count /\ count <= Capacity
    /\ PutGoes(p) => count < Capacity
    /\ GetGoes(c) => 0 < count
    /\ p \in waiting => count = Capacity
    /\ c \in waiting => count = 0
AloneInv == Alone => \A p \in created \cap Producers, c \in created \cap Consumers : PairOK(p, c)

(* The threads of such a program: p, c, main and those that never begin.    *)
LEMMA OnePair ==
  ASSUME Alone, created \subseteq Workers, waiting \subseteq Workers, Created, MutexDiscipline
  PROVE  \E p \in Producers, c \in Consumers :
             /\ created \cap Producers = {p} /\ created \cap Consumers = {c}
             /\ created = {p, c} /\ waiting \subseteq {p, c}
             /\ \A t \in Workers \ {p, c} : pc[t] \in {"done", "killed"}
<1>1. /\ IsFiniteSet(created \cap Producers) /\ IsFiniteSet(created \cap Consumers)
      /\ Cardinality(created \cap Producers) = 1 /\ Cardinality(created \cap Consumers) = 1
  BY ConstantsAssumption, FS_Intersection DEF Alone
<1>2. PICK p : created \cap Producers = {p}
  BY <1>1, FS_Singleton
<1>3. PICK c : created \cap Consumers = {c}
  BY <1>1, FS_Singleton
<1>4. created = {p, c}
  BY <1>2, <1>3, Roles
<1>5. \A t \in Workers \ {p, c} : pc[t] \in {"done", "killed"}
  BY <1>4 DEF Created
<1>6. waiting \subseteq {p, c}
  BY <1>5, Roles DEF MutexDiscipline
<1> QED BY <1>2, <1>3, <1>4, <1>5, <1>6

(* What a step of another kind than a link, an unlink, a crash or a wake-up  *)
(* from nowhere leaves of the pair.                                         *)
LEMMA PairMove ==
  ASSUME PcOK, NEW p \in Producers, NEW c \in Consumers, PairOK(p, c),
         NEW t \in Threads, NEW to, pc' = [pc EXCEPT ![t] = to],
         count' = count, taken' = taken, qAlive' => qAlive, destroying => destroying',
         to # "getCopy",
         waiting' \subseteq waiting \cup (IF to \in {"putAsleep", "getAsleep"} THEN {t} ELSE {}),
         waiting' = waiting \/ waiting' = waiting \cup {t} \/ destroying,
         to = "putAsleep" => t \in Producers \cap waiting' /\ count = Capacity,
         to = "getAsleep" => t \in Consumers \cap waiting' /\ count = 0,
         t = p /\ to \in {"putTest", "putInsert"} =>
             (destroying /\ to = "putTest") \/ count < Capacity,
         t = c /\ to \in {"getTest", "getRemove"} =>
             (destroying /\ to = "getTest") \/ 0 < count
  PROVE  PairOK(p, c)'
<1>1. \A s \in Threads : pc'[s] = IF s = t THEN to ELSE pc[s]
  BY PcAfter
<1>2. c \notin NullTakers'
  BY <1>1, Roles DEF PairOK, NullTakers
<1>3. PutGoes(p)' => count' < Capacity
  BY <1>1, Roles DEF PairOK, PutGoes
<1>4. GetGoes(c)' => 0 < count'
  BY <1>1, Roles DEF PairOK, GetGoes
<1>5. p \in waiting' => count' = Capacity
  BY Roles DEF PairOK
<1>6. c \in waiting' => count' = 0
  BY Roles DEF PairOK
<1> QED BY <1>2, <1>3, <1>4, <1>5, <1>6 DEF PairOK


(* q is there for a thread that uses it, and until destroying is seen.      *)
LEMMA DropOrderUse ==
  ASSUME DropOrder, Together, NEW t \in Workers, pc[t] # "killed"
  PROVE  /\ pc[t] \in {"putInsert", "getRemove"} => qAlive
         /\ ~destroying => qAlive
BY Roles DEF DropOrder, Together

(* With no get doomed the list holds count messages.                        *)
LEMMA QueueHasOne ==
  ASSUME CountBalance, qAlive, NullTakers = {}, queue \in Seq(Messages)
  PROVE  /\ Len(queue) = count /\ Len(queue) \in Nat
         /\ 0 < count => queue # <<>> /\ Head(queue) \in Messages
<1>1. Len(queue) = count /\ Len(queue) \in Nat
  BY FS_EmptySet, LenProperties DEF CountBalance
<1>2. ASSUME 0 < count PROVE queue # <<>> /\ Head(queue) \in Messages
  <2>1. queue # <<>>
    BY <1>1, <1>2, EmptySeq
  <2> QED BY <2>1, HeadTailProperties
<1> QED BY <1>1, <1>2

(* Every step keeps the promise, unless it is a wake-up from nowhere.       *)
LEMMA PairStep ==
  ASSUME PcOK, ThreadPlaces, DataOK, count \in Int, Together, MutexDiscipline, DropOrder,
         CountSeen, CountBalance, NEW p \in Producers, NEW c \in Consumers, PairOK(p, c),
         waiting \subseteq {p, c}, \A t \in Workers \ {p, c} : pc[t] \in {"done", "killed"},
         ~spurious', Next
  PROVE  PairOK(p, c)'
<1> USE Roles DEF Goto, list, run
<1>a. /\ \A q \in Producers : pc[q] \notin {"done", "killed"} => q = p
      /\ \A d \in Consumers : pc[d] \notin {"done", "killed"} => d = c
      /\ NullTakers = {}
  BY DEF PairOK, NullTakers
<1>b. \A t \in Workers : pc[t] # "killed" /\ ~destroying => qAlive
  BY DropOrderUse
<1>1. ASSUME NEW q \in Producers, PutEnter(q) PROVE PairOK(p, c)'
  <2>1. ~destroying => qAlive
    BY <1>1, <1>b DEF PutEnter
  <2>2. count = Capacity \/ destroying \/ count < Capacity
    BY <2>1, ConstantsAssumption DEF PairOK
  <2> QED BY <1>1, <1>a, <2>2, PairMove DEF PutEnter
<1>2. ASSUME NEW q \in Producers, PutSleep(q) PROVE PairOK(p, c)'
  BY <1>2, <1>a, PairMove DEF PutSleep, Sleep, CountSeen
<1>3. ASSUME NEW q \in Producers, PutAwake(q) PROVE PairOK(p, c)'
  BY <1>3, <1>a, PairMove DEF PutAwake, Awake, PairOK, PutGoes
<1>4. ASSUME NEW q \in Producers, PutTest(q) PROVE PairOK(p, c)'
  BY <1>4, <1>a, PairMove DEF PutTest, PairOK, PutGoes
<1>5. ASSUME NEW q \in Producers, PutInsert(q) PROVE PairOK(p, c)'
  <2>1. q = p /\ qAlive /\ PutGoes(p)
    BY <1>5, <1>a, DropOrderUse DEF PutInsert, PutGoes
  <2>2. 0 <= count /\ count < Capacity /\ count' = count + 1 /\ qAlive' = qAlive
        /\ taken' = taken /\ Signal
    BY <1>5, <2>1, ConstantsAssumption DEF PairOK, PutInsert
  <2>3. p \notin waiting
    BY <1>5, <2>1 DEF PutInsert, MutexDiscipline
  <2>4. waiting' = {}
    BY <1>a, <2>2, <2>3, SignalWakes
  <2>5. \A s \in Threads : pc'[s] = IF s = p THEN "put" ELSE pc[s]
    <3>1. pc' = [pc EXCEPT ![p] = "put"]
      BY <1>5, <2>1 DEF PutInsert
    <3> QED BY <3>1, PcAfter, Roles
  <2>6. c \notin NullTakers'
    BY <2>2, <2>5 DEF PairOK, NullTakers
  <2>7. ~PutGoes(p)'
    BY <2>5 DEF PutGoes
  <2> QED BY <2>2, <2>4, <2>6, <2>7, ConstantsAssumption DEF PairOK
<1>6. ASSUME NEW q \in Producers, PutNoMemory(q) PROVE PairOK(p, c)'
  BY <1>6, <1>a, PairMove DEF PutNoMemory
<1>7. ASSUME NEW d \in Consumers, GetEnter(d) PROVE PairOK(p, c)'
  <2>1. ~destroying => qAlive
    BY <1>7, <1>b DEF GetEnter
  <2>2. count = 0 \/ destroying \/ 0 < count
    BY <2>1, ConstantsAssumption DEF PairOK
  <2> QED BY <1>7, <1>a, <2>2, PairMove DEF GetEnter
<1>8. ASSUME NEW d \in Consumers, GetSleep(d) PROVE PairOK(p, c)'
  BY <1>8, <1>a, PairMove DEF GetSleep, Sleep, CountSeen
<1>9. ASSUME NEW d \in Consumers, GetAwake(d) PROVE PairOK(p, c)'
  BY <1>9, <1>a, PairMove DEF GetAwake, Awake, PairOK, GetGoes
<1>10. ASSUME NEW d \in Consumers, GetTest(d) PROVE PairOK(p, c)'
  BY <1>10, <1>a, PairMove DEF GetTest, PairOK, GetGoes
<1>11. ASSUME NEW d \in Consumers, GetRemove(d) PROVE PairOK(p, c)'
  <2>1. d = c /\ qAlive /\ GetGoes(c)
    BY <1>11, <1>a, DropOrderUse DEF GetRemove, GetGoes
  <2>2. 0 < count /\ count <= Capacity /\ count' = count - 1 /\ qAlive' = qAlive /\ Signal
    BY <1>11, <2>1, ConstantsAssumption DEF PairOK, GetRemove, CountDown
  <2>3. c \notin waiting
    BY <1>11, <2>1 DEF GetRemove, MutexDiscipline
  <2>4. waiting' = {}
    BY <1>a, <2>2, <2>3, SignalWakes
  <2>5. \A s \in Threads : pc'[s] = IF s = c THEN "getCopy" ELSE pc[s]
    <3>1. pc' = [pc EXCEPT ![c] = "getCopy"]
      BY <1>11, <2>1 DEF GetRemove
    <3> QED BY <3>1, PcAfter, Roles
  <2>6. taken'[c] = Head(queue) /\ Head(queue) \in Messages
    BY <1>11, <1>a, <2>1, <2>2, QueueHasOne DEF GetRemove, DataOK
  <2>7. c \notin NullTakers'
    BY <2>6, ConstantsAssumption DEF NullTakers
  <2>8. ~GetGoes(c)'
    BY <2>5 DEF GetGoes
  <2> QED BY <2>2, <2>4, <2>7, <2>8, ConstantsAssumption DEF PairOK
<1>12. ASSUME NEW d \in Consumers, GetCopy(d) PROVE PairOK(p, c)'
  <2>1. \A s \in Threads : pc'[s] = IF s = c THEN "get" ELSE pc[s]
    <3>1. pc' = [pc EXCEPT ![c] = "get"]
      BY <1>12, <1>a DEF GetCopy
    <3> QED BY <3>1, PcAfter, Roles
  <2>2. UNCHANGED <<count, qAlive, destroying, waiting>>
    BY <1>12 DEF GetCopy
  <2>3. c \notin NullTakers' /\ ~GetGoes(c)'
    BY <2>1 DEF NullTakers, GetGoes
  <2>4. PutGoes(p)' => PutGoes(p)
    BY <2>1, <2>2 DEF PutGoes
  <2> QED BY <2>2, <2>3, <2>4 DEF PairOK
<1>13. ASSUME NEW d \in Consumers, GetCrash(d) PROVE PairOK(p, c)'
  BY <1>13, <1>a DEF GetCrash, PairOK, NullTakers
<1>14. ASSUME NEW t \in Droppers, DropFlag(t) PROVE PairOK(p, c)'
  BY <1>14, <1>a, PairMove DEF DropFlag
<1>15. ASSUME NEW t \in Droppers, DropBroadcast(t) PROVE PairOK(p, c)'
  <2>1. destroying
    BY <1>15 DEF DropBroadcast, DropOrder
  <2> QED BY <1>15, <1>a, <2>1, PairMove DEF DropBroadcast
<1>16. ASSUME NEW t \in Droppers, DropFree(t) PROVE PairOK(p, c)'
  BY <1>16, <1>a, PairMove DEF DropFree
<1>17. ASSUME NEW t \in Workers, SpuriousWakeup(t) PROVE PairOK(p, c)'
  <2>1. \A s \in waiting : FALSE
    BY <1>17 DEF SpuriousWakeup
  <2> QED BY <1>17, <2>1 DEF SpuriousWakeup
<1>18. CASE Join
  BY <1>18, <1>a, PairMove DEF Join
<1> QED BY <1>1, <1>2, <1>3, <1>4, <1>5, <1>6, <1>7, <1>8, <1>9,
         <1>10, <1>11, <1>12, <1>13, <1>14, <1>15, <1>16, <1>17, <1>18
         DEF Next, Put, Get, DropRest

(* (see above)                                                              *)
LEMMA AloneStep ==
  ASSUME IInv, AloneInv, [Next]_vars
  PROVE  AloneInv'
<1> SUFFICES ASSUME Alone' PROVE (\A p \in created \cap Producers, c \in created \cap Consumers : PairOK(p, c))'
  BY DEF AloneInv
<1>1. CASE UNCHANGED vars
  BY <1>1 DEF vars, run, list, AloneInv, Alone, PairOK, PutGoes, GetGoes, NullTakers
<1>2. CASE Next
  <2>a. PcOK /\ DataOK /\ count \in Int /\ created \subseteq Workers /\ waiting \subseteq Workers
    BY InvParts
  <2>1. created' = created /\ ~spurious'
    BY <1>2 DEF Next, Put, Get, DropRest, PutEnter, PutSleep, PutAwake, PutTest, PutInsert,
        PutNoMemory, GetEnter, GetSleep, GetAwake, GetTest, GetRemove, GetCopy, GetCrash,
        DropFlag, DropBroadcast, DropFree, SpuriousWakeup, Join, Sleep, Awake, run, Alone
  <2>2. spurious' = spurious \/ spurious'
    BY <1>2 DEF Next, Put, Get, DropRest, PutEnter, PutSleep, PutAwake, PutTest, PutInsert,
        PutNoMemory, GetEnter, GetSleep, GetAwake, GetTest, GetRemove, GetCopy, GetCrash,
        DropFlag, DropBroadcast, DropFree, SpuriousWakeup, Join, Sleep, Awake, run
  <2>3. Alone
    BY <2>1, <2>2 DEF Alone
  <2>4. PICK p \in Producers, c \in Consumers :
             /\ created \cap Producers = {p} /\ created \cap Consumers = {c}
             /\ created = {p, c} /\ waiting \subseteq {p, c}
             /\ \A t \in Workers \ {p, c} : pc[t] \in {"done", "killed"}
    BY <2>3, <2>a, OnePair DEF IInv
  <2>5. PairOK(p, c)
    BY <2>3, <2>4 DEF AloneInv
  <2>6. PairOK(p, c)'
    BY <1>2, <2>a, <2>1, <2>4, <2>5, PairStep DEF IInv
  <2> QED BY <2>1, <2>4, <2>6
<1> QED BY <1>1, <1>2

-----------------------------------------------------------------------------
(* The channel of MsgChannel: linking a node is Accept, unlinking one is     *)
(* Deliver, setting destroying is StartShutting, freeing q is Shut and      *)
(* returning 0 is Dismiss.                                                  *)

(* A step of t that does none of these leaves the channel as it is.         *)
LEMMA Stutters ==
  ASSUME IInv, NEW t \in Threads, NEW to, pc' = [pc EXCEPT ![t] = to],
         UNCHANGED <<created, destroying, queue, qAlive, taken, buffer>>,
         pc[t] # "getCopy", to # "getCopy",
         t = Main \/ (pc[t] # "done" /\ to # "done")
  PROVE  UNCHANGED Channel!channelVars
<1>1. \A s \in Threads : pc'[s] = IF s = t THEN to ELSE pc[s]
  BY InvParts, PcAfter
<1>2. phaseBar' = phaseBar
  BY DEF phaseBar, Dropped
<1>3. receivedBar' = receivedBar
  BY <1>1, Roles DEF receivedBar
<1>4. dismissedBar' = dismissedBar
  BY <1>1, InvParts, Roles DEF dismissedBar
<1> QED BY <1>2, <1>3, <1>4 DEF Channel!channelVars

(* A worker in its call was created and has not been turned away; one that   *)
(* is about to use q finds the channel not yet shut.                        *)
LEMMA Calling ==
  ASSUME IInv, NEW t \in Workers, pc[t] \notin {"done", "killed"}
  PROVE  /\ t \in created /\ t \notin dismissedBar
         /\ pc[t] \in {"putInsert", "getRemove"} => qAlive
         /\ ~destroying => qAlive
BY DropOrderUse DEF IInv, Created, dismissedBar

(* Under Alone a put that links finds a free place, and a get that unlinks   *)
(* finds a message.                                                         *)
LEMMA AloneFinds ==
  ASSUME IInv, AloneInv, Alone
  PROVE  /\ NullTakers = {}
         /\ \A p \in Producers : pc[p] = "putInsert" => Len(queue) < Capacity
         /\ \A c \in Consumers : pc[c] = "getRemove" => queue # <<>>
<1>1. PICK p \in Producers, c \in Consumers :
             /\ created \cap Producers = {p} /\ created \cap Consumers = {c}
             /\ created = {p, c} /\ waiting \subseteq {p, c}
             /\ \A t \in Workers \ {p, c} : pc[t] \in {"done", "killed"}
  BY OnePair, InvParts DEF IInv
<1>2. PairOK(p, c)
  BY <1>1 DEF AloneInv
<1>3. NullTakers = {}
  BY <1>1, <1>2, Roles DEF PairOK, NullTakers
<1>4. ASSUME NEW q \in Producers, pc[q] = "putInsert" PROVE Len(queue) < Capacity
  <2>1. q = p /\ qAlive
    BY <1>1, <1>4, Calling, Roles
  <2>2. count < Capacity
    BY <1>2, <1>4, <2>1 DEF PairOK, PutGoes
  <2> QED BY <1>3, <2>1, <2>2, QueueHasOne, InvParts DEF IInv
<1>5. ASSUME NEW d \in Consumers, pc[d] = "getRemove" PROVE queue # <<>>
  <2>1. d = c /\ qAlive
    BY <1>1, <1>5, Calling, Roles
  <2>2. 0 < count
    BY <1>2, <1>5, <2>1 DEF PairOK, GetGoes
  <2> QED BY <1>3, <2>1, <2>2, QueueHasOne, InvParts DEF IInv
<1> QED BY <1>3, <1>4, <1>5

(* put links a node: the channel accepts the message.                       *)
LEMMA InsertAccepts ==
  ASSUME IInv, AloneInv, Alone, NEW p \in Producers, PutInsert(p)
  PROVE  \E m \in Messages : Channel!Accept(p, m)
<1>1. PICK m \in Messages : queue' = Append(queue, m)
  BY DEF PutInsert, Link
<1>2. /\ pc[p] = "putInsert" /\ pc' = [pc EXCEPT ![p] = "put"]
      /\ UNCHANGED <<created, destroying, qAlive, taken, buffer>>
  BY DEF PutInsert, Goto, run
<1>3. \A s \in Threads : pc'[s] = IF s = p THEN "put" ELSE pc[s]
  BY <1>2, InvParts, PcAfter, Roles
<1>4. qAlive /\ p \notin dismissedBar /\ Len(queue) < Capacity
  BY <1>2, Calling, AloneFinds, Roles
<1>5. phaseBar' = phaseBar /\ phaseBar # "shut"
  BY <1>2, <1>4 DEF phaseBar, Dropped
<1>6. receivedBar' = receivedBar
  BY <1>2, <1>3, Roles DEF receivedBar
<1>7. dismissedBar' = dismissedBar
  BY <1>2, <1>3, InvParts, Roles DEF dismissedBar
<1> QED BY <1>1, <1>4, <1>5, <1>6, <1>7 DEF Channel!Accept

(* get unlinks a node: the channel delivers its oldest message.             *)
LEMMA RemoveDelivers ==
  ASSUME IInv, AloneInv, Alone, NEW c \in Consumers, GetRemove(c)
  PROVE  Channel!Deliver(c)
<1>1. /\ pc[c] = "getRemove" /\ pc' = [pc EXCEPT ![c] = "getCopy"]
      /\ UNCHANGED <<created, destroying, qAlive, buffer>>
  BY DEF GetRemove, Goto, run
<1>2. qAlive /\ c \notin dismissedBar /\ queue # <<>>
  BY <1>1, Calling, AloneFinds, Roles
<1>3. queue' = Tail(queue) /\ taken' = [taken EXCEPT ![c] = Head(queue)]
  BY <1>2 DEF GetRemove
<1>4. \A s \in Threads : pc'[s] = IF s = c THEN "getCopy" ELSE pc[s]
  BY <1>1, InvParts, PcAfter, Roles
<1>5. phaseBar' = phaseBar /\ phaseBar # "shut"
  BY <1>1, <1>2 DEF phaseBar, Dropped
<1>6. receivedBar' = [receivedBar EXCEPT ![c] = Head(queue)]
  <2>1. \A d \in Consumers : taken'[d] = IF d = c THEN Head(queue) ELSE taken[d]
    BY <1>3, InvParts
  <2> QED BY <1>1, <1>4, <2>1, Roles DEF receivedBar
<1>7. dismissedBar' = dismissedBar
  BY <1>1, <1>4, InvParts, Roles DEF dismissedBar
<1> QED BY <1>2, <1>3, <1>5, <1>6, <1>7 DEF Channel!Deliver

(* Copying the text out changes nothing: it was handed over when unlinked.   *)
LEMMA CopyStutters ==
  ASSUME IInv, NEW c \in Consumers, GetCopy(c)
  PROVE  UNCHANGED Channel!channelVars
<1>1. /\ pc[c] = "getCopy" /\ pc' = [pc EXCEPT ![c] = "get"]
      /\ UNCHANGED <<created, destroying, queue, qAlive>>
      /\ buffer' = [buffer EXCEPT ![c] = taken[c]]
      /\ taken' = [taken EXCEPT ![c] = NoMessage]
  BY DEF GetCopy, Goto, run, list
<1>2. \A s \in Threads : pc'[s] = IF s = c THEN "get" ELSE pc[s]
  BY <1>1, InvParts, PcAfter, Roles
<1>3. \A d \in Consumers : /\ buffer'[d] = IF d = c THEN taken[c] ELSE buffer[d]
                           /\ d # c => taken'[d] = taken[d]
  BY <1>1, InvParts DEF DataOK
<1>4. receivedBar' = receivedBar
  BY <1>1, <1>2, <1>3, Roles DEF receivedBar
<1>5. dismissedBar' = dismissedBar
  BY <1>1, <1>2, InvParts, Roles DEF dismissedBar
<1> QED BY <1>1, <1>4, <1>5 DEF Channel!channelVars, phaseBar, Dropped

(* put or get returns 0, because it has seen destroying.                    *)
LEMMA QuitDismisses ==
  ASSUME IInv, destroying, NEW t \in Workers, pc[t] \in {"putTest", "getTest"},
         pc' = [pc EXCEPT ![t] = "done"],
         UNCHANGED <<created, destroying, queue, qAlive, taken, buffer>>
  PROVE  Channel!Dismiss(t)
<1>1. \A s \in Threads : pc'[s] = IF s = t THEN "done" ELSE pc[s]
  BY InvParts, PcAfter, Roles
<1>2. t \in created /\ t \notin dismissedBar
  BY Calling
<1>3. phaseBar' = phaseBar /\ phaseBar # "open"
  BY DEF phaseBar, Dropped
<1>4. receivedBar' = receivedBar
  BY <1>1, Roles DEF receivedBar
<1>5. dismissedBar' = dismissedBar \cup {t}
  BY <1>1, <1>2, InvParts, Roles DEF dismissedBar
<1> QED BY <1>2, <1>3, <1>4, <1>5 DEF Channel!Dismiss

(* The first drop() shuts the channel; another finds it being shut.          *)
LEMMA FlagShuts ==
  ASSUME IInv, NEW t \in Droppers, DropFlag(t)
  PROVE  Channel!StartShutting \/ UNCHANGED Channel!channelVars
<1>1. /\ pc[t] = "drop" /\ pc' = [pc EXCEPT ![t] = "dropBroadcast"] /\ destroying' = TRUE
      /\ UNCHANGED <<created, queue, qAlive, taken, buffer>>
  BY DEF DropFlag, Goto, run, list
<1>2. qAlive
  BY <1>1, Roles DEF IInv, DropOrder
<1>3. \A s \in Threads : pc'[s] = IF s = t THEN "dropBroadcast" ELSE pc[s]
  BY <1>1, InvParts, PcAfter, Roles
<1>4. receivedBar' = receivedBar
  BY <1>1, <1>3, Roles DEF receivedBar
<1>5. dismissedBar' = dismissedBar
  BY <1>1, <1>3, InvParts, Roles DEF dismissedBar
<1>6. phaseBar' = "shutting" /\ phaseBar \in {"open", "shutting"}
  BY <1>1, <1>2 DEF phaseBar, Dropped
<1> QED BY <1>1, <1>4, <1>5, <1>6 DEF Channel!StartShutting, Channel!channelVars

(* Freeing the list shuts it for good.                                      *)
LEMMA FreeShuts ==
  ASSUME IInv, NEW t \in Droppers, DropFree(t)
  PROVE  Channel!Shut
<1>1. t = Main
  BY OnlyMainFrees DEF IInv
<1>2. /\ pc[Main] = "dropFree" /\ pc' = [pc EXCEPT ![Main] = "join"] /\ queue' = <<>>
      /\ qAlive' = FALSE /\ UNCHANGED <<created, destroying, taken, buffer>>
  BY <1>1 DEF DropFree, Goto, run
<1>3. qAlive /\ destroying
  BY <1>2 DEF IInv, DropOrder
<1>4. \A s \in Threads : pc'[s] = IF s = Main THEN "join" ELSE pc[s]
  BY <1>2, InvParts, PcAfter, Roles
<1>5. receivedBar' = receivedBar
  BY <1>2, <1>4, Roles DEF receivedBar
<1>6. dismissedBar' = dismissedBar
  BY <1>2, <1>4, InvParts, Roles DEF dismissedBar
<1>7. phaseBar = "shutting" /\ phaseBar' = "shut"
  BY <1>2, <1>3 DEF phaseBar, Dropped
<1> QED BY <1>2, <1>5, <1>6, <1>7 DEF Channel!Shut

(* Every step of a lone producer, a lone consumer and main is a step of the  *)
(* channel or leaves it as it is.                                           *)
LEMMA StepMapped ==
  ASSUME IInv, AloneInv, Alone, Next
  PROVE  Channel!Next \/ UNCHANGED Channel!channelVars
<1> DEFINE Mapped == Channel!Next \/ UNCHANGED Channel!channelVars
<1> HIDE DEF Mapped
<1>a. NullTakers = {}
  BY AloneFinds
<1> USE Roles DEF Goto, run, list
<1>1. ASSUME NEW p \in Producers, PutEnter(p) PROVE Mapped
  BY <1>1, Stutters DEF PutEnter, Mapped
<1>2. ASSUME NEW p \in Producers, PutSleep(p) PROVE Mapped
  BY <1>2, Stutters DEF PutSleep, Sleep, Mapped
<1>3. ASSUME NEW p \in Producers, PutAwake(p) PROVE Mapped
  BY <1>3, Stutters DEF PutAwake, Awake, Mapped
<1>4. ASSUME NEW p \in Producers, PutTest(p) PROVE Mapped
  <2>1. CASE destroying
    BY <1>4, <2>1, QuitDismisses DEF PutTest, Mapped, Channel!Next, Workers
  <2>2. CASE ~destroying
    BY <1>4, <2>2, Stutters DEF PutTest, Mapped
  <2> QED BY <2>1, <2>2
<1>5. ASSUME NEW p \in Producers, PutInsert(p) PROVE Mapped
  BY <1>5, InsertAccepts DEF Mapped, Channel!Next
<1>6. ASSUME NEW p \in Producers, PutNoMemory(p) PROVE Mapped
  BY <1>6, Stutters DEF PutNoMemory, Mapped
<1>7. ASSUME NEW c \in Consumers, GetEnter(c) PROVE Mapped
  BY <1>7, Stutters DEF GetEnter, Mapped
<1>8. ASSUME NEW c \in Consumers, GetSleep(c) PROVE Mapped
  BY <1>8, Stutters DEF GetSleep, Sleep, Mapped
<1>9. ASSUME NEW c \in Consumers, GetAwake(c) PROVE Mapped
  BY <1>9, Stutters DEF GetAwake, Awake, Mapped
<1>10. ASSUME NEW c \in Consumers, GetTest(c) PROVE Mapped
  <2>1. CASE destroying
    BY <1>10, <2>1, QuitDismisses DEF GetTest, Mapped, Channel!Next, Workers
  <2>2. CASE ~destroying
    BY <1>10, <2>2, Stutters DEF GetTest, Mapped
  <2> QED BY <2>1, <2>2
<1>11. ASSUME NEW c \in Consumers, GetRemove(c) PROVE Mapped
  BY <1>11, RemoveDelivers DEF Mapped, Channel!Next
<1>12. ASSUME NEW c \in Consumers, GetCopy(c) PROVE Mapped
  BY <1>12, CopyStutters DEF Mapped
<1>13. ASSUME NEW c \in Consumers, GetCrash(c) PROVE Mapped
  BY <1>13, <1>a DEF GetCrash, NullTakers
<1>14. ASSUME NEW t \in Droppers, DropFlag(t) PROVE Mapped
  BY <1>14, FlagShuts DEF Mapped, Channel!Next
<1>15. ASSUME NEW t \in Droppers, DropBroadcast(t) PROVE Mapped
  BY <1>15, Stutters DEF DropBroadcast, Mapped
<1>16. ASSUME NEW t \in Droppers, DropFree(t) PROVE Mapped
  BY <1>16, FreeShuts DEF Mapped, Channel!Next
<1>17. ASSUME NEW t \in Workers, SpuriousWakeup(t) PROVE Mapped
  BY <1>17 DEF SpuriousWakeup, Mapped, Channel!channelVars, receivedBar, phaseBar,
                 dismissedBar, Dropped
<1>18. CASE Join
  BY <1>18, Stutters DEF Join, Mapped
<1> QED BY <1>1, <1>2, <1>3, <1>4, <1>5, <1>6, <1>7, <1>8, <1>9,
         <1>10, <1>11, <1>12, <1>13, <1>14, <1>15, <1>16, <1>17, <1>18
         DEF Next, Put, Get, DropRest, Mapped

(* The channel depends on nothing but the variables of the queue.           *)
LEMMA StandStill ==
  ASSUME UNCHANGED vars
  PROVE  UNCHANGED Channel!channelVars
BY DEF vars, run, list, Channel!channelVars, receivedBar, phaseBar, dismissedBar, Dropped

(* An empty list, empty buffers and an open queue.                          *)
LEMMA InitMapped == Init => Channel!Init /\ AloneInv
<1> SUFFICES ASSUME Init PROVE Channel!Init /\ AloneInv
  OBVIOUS
<1>1. IInv
  BY Initially
<1>2. /\ created \subseteq Workers /\ queue = <<>> /\ qAlive /\ ~destroying /\ count = 0
      /\ buffer = [c \in Consumers |-> NoMessage] /\ waiting = {}
  BY DEF Init
<1>3. \A t \in created : pc[t] \in {"put", "get"}
  BY <1>2, Roles DEF Init
<1>4. \A c \in Consumers : pc[c] # "getCopy"
  BY <1>3, Roles DEF Init
<1>5. Channel!Init
  BY <1>2, <1>3, <1>4 DEF Channel!Init, receivedBar, phaseBar, dismissedBar, Dropped
<1>6. AloneInv
  BY <1>2, <1>3, <1>4, ConstantsAssumption
     DEF AloneInv, PairOK, PutGoes, GetGoes, NullTakers
<1> QED BY <1>5, <1>6

(* One producer, one consumer and no spurious wake-up: lab24's queue is then *)
(* a FIFO channel, the `if' around pthread_cond_wait notwithstanding: no     *)
(* message is lost, doubled, altered or overtaken, no get finds the list    *)
(* empty, no put overfills it, and nobody is turned away before drop().     *)
THEOREM ImplementsChannel == Spec => FifoChannel
<1>1. IInv /\ AloneInv /\ [Next]_vars => [Alone => Channel!Next]_(Channel!channelVars)
  BY StepMapped, StandStill
<1>2. IInv /\ AloneInv /\ [Next]_vars => AloneInv'
  BY AloneStep
<1> QED BY <1>1, <1>2, InitMapped, Invariance, PTL DEF Spec, FifoChannel

=============================================================================
