---------------------------- MODULE MsgQueueSem -----------------------------
(***************************************************************************)
(* lab23: MyMsgQueue built from three semaphores, with the producer and    *)
(* consumer threads and the main thread that use it.                       *)
(*                                                                         *)
(* One step is one semaphore call, or the code between two of them that    *)
(* touches shared memory.  `destroying' is a plain bool that drop() writes *)
(* without holding queue_sem, so reading it is a step of its own.          *)
(* The linked list is a sequence of nodes here, oldest (q->last) first;    *)
(* MsgList models its pointers.                                            *)
(***************************************************************************)
EXTENDS Integers, Sequences, FiniteSets

CONSTANTS Producers,      \* threads running prod_func
          Consumers,      \* threads running cons_func
          Main,           \* the thread running main
          Messages,       \* texts a producer may put
          NoMessage,      \* content of free memory and of an unused buffer
          Nodes,          \* heap cells malloc(sizeof(list)) can return: the bound
                          \* on the heap, never smaller than what can be in use
          NoNode,         \* the null pointer
          Capacity,       \* initial value of first_sem (10 in the code)
          MallocMayFail   \* may malloc return NULL?

ASSUME ConstantsAssumption ==
    /\ IsFiniteSet(Producers) /\ IsFiniteSet(Consumers)
    /\ Producers \cap Consumers = {}
    /\ Main \notin Producers \cup Consumers
    /\ NoMessage \notin Messages
    /\ NoNode \notin Nodes
    /\ IsFiniteSet(Nodes) =>
         Cardinality(Nodes) >= Capacity + Cardinality(Consumers)
    /\ Capacity \in Nat \ {0}
    /\ MallocMayFail \in BOOLEAN

Workers == Producers \cup Consumers
Threads == Workers \cup {Main}
Droppers == Producers \cup {Main}   \* who can call drop()

VARIABLES first_sem,    \* free places
          last_sem,     \* messages ready
          queue_sem,    \* lock of the list
          destroying,   \* set by drop(), never cleared
          queue,        \* the nodes of the list, oldest first
          qAlive,       \* FALSE once drop() has freed q
          value,        \* text in each heap cell, NoMessage while it is free
          l,            \* local variable l of put and get
          buffer,       \* msg_buffer of each consumer
          pc

sems == <<first_sem, last_sem, queue_sem>>
mem == <<queue, qAlive, value>>
vars == <<first_sem, last_sem, queue_sem, destroying, queue, qAlive, value,
          l, buffer, pc>>

(* Mutant: last_sem created with 1, as if a message were waiting. *)
InitExtraItem ==
    /\ first_sem = Capacity /\ last_sem = 1 /\ queue_sem = 1
    /\ destroying = FALSE /\ queue = <<>> /\ qAlive = TRUE
    /\ value = [n \in Nodes |-> NoMessage]
    /\ l = [t \in Workers |-> NoNode]
    /\ buffer = [c \in Consumers |-> NoMessage]
    /\ pc = [t \in Threads |-> IF t \in Producers THEN "put"
                               ELSE IF t \in Consumers THEN "get" ELSE "drop"]

Init ==
    /\ first_sem = Capacity
    /\ last_sem = 0
    /\ queue_sem = 1
    /\ destroying = FALSE
    /\ queue = <<>>
    /\ qAlive = TRUE
    /\ value = [n \in Nodes |-> NoMessage]
    /\ l = [t \in Workers |-> NoNode]
    /\ buffer = [c \in Consumers |-> NoMessage]
    /\ pc = [t \in Threads |-> IF t \in Producers THEN "put"
                               ELSE IF t \in Consumers THEN "get" ELSE "drop"]

-----------------------------------------------------------------------------
(* No signal handler is installed, so sem_wait returns only with a permit. *)
Wait(sem) == sem > 0 /\ sem' = sem - 1
Post(sem) == sem' = sem + 1

Goto(t, from, to) == pc[t] = from /\ pc' = [pc EXCEPT ![t] = to]

Linked == {queue[i] : i \in DOMAIN queue}
FreeNodes == {n \in Nodes : value[n] = NoMessage}

-----------------------------------------------------------------------------
(* put(msg).  The text only matters from PutInsert on, so it is chosen      *)
(* there: prod_func calls put again and again, with a new text each time.   *)

PutWait(p) ==
    /\ Goto(p, "put", "putLock")
    /\ Wait(first_sem)
    /\ UNCHANGED <<last_sem, queue_sem, destroying, mem, l, buffer>>

(* Mutant: put links its node without the lock. *)
PutLockForgotten(p) ==
    /\ Goto(p, "putLock", "putCheck")
    /\ UNCHANGED <<sems, destroying, mem, l, buffer>>

PutLock(p) ==
    /\ Goto(p, "putLock", "putCheck")
    /\ Wait(queue_sem)
    /\ UNCHANGED <<first_sem, last_sem, destroying, mem, l, buffer>>

PutCheck(p) ==
    /\ Goto(p, "putCheck", IF destroying THEN "putQuit" ELSE "putInsert")
    /\ UNCHANGED <<sems, destroying, mem, l, buffer>>

(* Mutant: the node is linked at q->last's end. *)
PutInsertWrongEnd(p) ==
    /\ Goto(p, "putInsert", "putUnlock")
    /\ \E n \in FreeNodes, m \in Messages :
          /\ value' = [value EXCEPT ![n] = m]
          /\ queue' = <<n>> \o queue
          /\ l' = [l EXCEPT ![p] = n]
    /\ UNCHANGED <<sems, destroying, qAlive, buffer>>

PutInsert(p) ==
    /\ Goto(p, "putInsert", "putUnlock")
    /\ \E n \in FreeNodes, m \in Messages :
          /\ value' = [value EXCEPT ![n] = m]
          /\ queue' = Append(queue, n)
          /\ l' = [l EXCEPT ![p] = n]
    /\ UNCHANGED <<sems, destroying, qAlive, buffer>>

(* Mutant: the lock is released before drop() is called. *)
PutNoMemoryUnlocks(p) ==
    /\ MallocMayFail
    /\ Goto(p, "putInsert", "drop")
    /\ Post(queue_sem)
    /\ UNCHANGED <<first_sem, last_sem, destroying, mem, l, buffer>>

(* malloc returned NULL: put calls drop() while it still holds queue_sem. *)
PutNoMemory(p) ==
    /\ MallocMayFail
    /\ Goto(p, "putInsert", "drop")
    /\ UNCHANGED <<sems, destroying, mem, l, buffer>>

PutUnlock(p) ==
    /\ Goto(p, "putUnlock", "putSignal")
    /\ Post(queue_sem)
    /\ UNCHANGED <<first_sem, last_sem, destroying, mem, l, buffer>>

(* Mutant: the new message is not announced. *)
PutSignalForgotten(p) ==
    /\ Goto(p, "putSignal", "putReturn")
    /\ UNCHANGED <<sems, destroying, mem, l, buffer>>

PutSignal(p) ==
    /\ Goto(p, "putSignal", "putReturn")
    /\ Post(last_sem)
    /\ UNCHANGED <<first_sem, queue_sem, destroying, mem, l, buffer>>

(* return strlen(l->value) + 1: whatever l->value holds by now, and a       *)
(* consumer may have freed the node, the result is not 0 and prod_func      *)
(* calls put again.                                                         *)
PutReturn(p) ==
    /\ Goto(p, "putReturn", "put")
    /\ l' = [l EXCEPT ![p] = NoNode]
    /\ UNCHANGED <<sems, destroying, mem, buffer>>

(* destroying was seen: pass the permit on, release the lock, return 0. *)
PutQuit(p) ==
    /\ Goto(p, "putQuit", "putQuitUnlock")
    /\ Post(first_sem)
    /\ UNCHANGED <<last_sem, queue_sem, destroying, mem, l, buffer>>

PutQuitUnlock(p) ==
    /\ Goto(p, "putQuitUnlock", "done")
    /\ Post(queue_sem)
    /\ UNCHANGED <<first_sem, last_sem, destroying, mem, l, buffer>>

-----------------------------------------------------------------------------
(* get(buffer, len) *)

GetWait(c) ==
    /\ Goto(c, "get", "getLock")
    /\ Wait(last_sem)
    /\ UNCHANGED <<first_sem, queue_sem, destroying, mem, l, buffer>>

GetLock(c) ==
    /\ Goto(c, "getLock", "getCheck")
    /\ Wait(queue_sem)
    /\ UNCHANGED <<first_sem, last_sem, destroying, mem, l, buffer>>

(* Mutant: get does not look at destroying. *)
GetCheckForgotten(c) ==
    /\ Goto(c, "getCheck", "getRemove")
    /\ UNCHANGED <<sems, destroying, mem, l, buffer>>

GetCheck(c) ==
    /\ Goto(c, "getCheck", IF destroying THEN "getQuit" ELSE "getRemove")
    /\ UNCHANGED <<sems, destroying, mem, l, buffer>>

(* l = q->last; an empty list yields the null pointer. *)
GetRemove(c) ==
    /\ Goto(c, "getRemove", "getUnlock")
    /\ l' = [l EXCEPT ![c] = IF queue = <<>> THEN NoNode ELSE Head(queue)]
    /\ queue' = IF queue = <<>> THEN <<>> ELSE Tail(queue)
    /\ UNCHANGED <<sems, destroying, qAlive, value, buffer>>

GetUnlock(c) ==
    /\ Goto(c, "getUnlock", "getCopy")
    /\ Post(queue_sem)
    /\ UNCHANGED <<first_sem, last_sem, destroying, mem, l, buffer>>

(* strncpy out of the node, then free(l). *)
GetCopy(c) ==
    /\ Goto(c, "getCopy", "getSignal")
    /\ buffer' = [buffer EXCEPT ![c] = value[l[c]]]
    /\ value' = [value EXCEPT ![l[c]] = NoMessage]
    /\ l' = [l EXCEPT ![c] = NoNode]
    /\ UNCHANGED <<sems, destroying, queue, qAlive>>

(* Mutant: the wrong semaphore is posted. *)
GetSignalWrong(c) ==
    /\ Goto(c, "getSignal", "get")
    /\ Post(last_sem)
    /\ UNCHANGED <<first_sem, queue_sem, destroying, mem, l, buffer>>

GetSignal(c) ==
    /\ Goto(c, "getSignal", "get")
    /\ Post(first_sem)
    /\ UNCHANGED <<last_sem, queue_sem, destroying, mem, l, buffer>>

(* Mutant: the permit is not passed on to the next blocked get. *)
GetQuitForgotten(c) ==
    /\ Goto(c, "getQuit", "getQuitUnlock")
    /\ UNCHANGED <<sems, destroying, mem, l, buffer>>

GetQuit(c) ==
    /\ Goto(c, "getQuit", "getQuitUnlock")
    /\ Post(last_sem)
    /\ UNCHANGED <<first_sem, queue_sem, destroying, mem, l, buffer>>

GetQuitUnlock(c) ==
    /\ Goto(c, "getQuitUnlock", "done")
    /\ Post(queue_sem)
    /\ UNCHANGED <<first_sem, last_sem, destroying, mem, l, buffer>>

-----------------------------------------------------------------------------
(* drop(), called by main after sleep(5) or by a put that got no memory. *)

DropBegin(t) ==
    /\ Goto(t, "drop", "dropLock")
    /\ destroying' = TRUE
    /\ UNCHANGED <<sems, mem, l, buffer>>

DropLock(t) ==
    /\ Goto(t, "dropLock", "dropFirst")
    /\ Wait(queue_sem)
    /\ UNCHANGED <<first_sem, last_sem, destroying, mem, l, buffer>>

DropFirst(t) ==
    /\ Goto(t, "dropFirst", "dropLast")
    /\ Post(first_sem)
    /\ UNCHANGED <<last_sem, queue_sem, destroying, mem, l, buffer>>

DropLast(t) ==
    /\ Goto(t, "dropLast", "dropFree")
    /\ Post(last_sem)
    /\ UNCHANGED <<first_sem, queue_sem, destroying, mem, l, buffer>>

(* Mutant: q is freed, its nodes are not. *)
DropFreeLeaks(t) ==
    /\ Goto(t, "dropFree", "dropUnlock")
    /\ queue' = <<>>
    /\ qAlive' = FALSE
    /\ UNCHANGED <<sems, destroying, value, l, buffer>>

(* free every node of the list, then q itself. *)
DropFree(t) ==
    /\ Goto(t, "dropFree", "dropUnlock")
    /\ value' = [n \in Nodes |-> IF n \in Linked THEN NoMessage ELSE value[n]]
    /\ queue' = <<>>
    /\ qAlive' = FALSE
    /\ UNCHANGED <<sems, destroying, l, buffer>>

DropUnlock(t) ==
    /\ Goto(t, "dropUnlock", IF t = Main THEN "join" ELSE "done")
    /\ Post(queue_sem)
    /\ UNCHANGED <<first_sem, last_sem, destroying, mem, l, buffer>>

(* main returns, and destroys the semaphores, after joining every thread. *)
Join ==
    /\ \A t \in Workers : pc[t] = "done"
    /\ Goto(Main, "join", "done")
    /\ UNCHANGED <<sems, destroying, mem, l, buffer>>

-----------------------------------------------------------------------------
Put(p) ==
    \/ PutWait(p) \/ PutLock(p) \/ PutCheck(p) \/ PutInsert(p) \/ PutNoMemory(p)
    \/ PutUnlock(p) \/ PutSignal(p) \/ PutReturn(p) \/ PutQuit(p) \/ PutQuitUnlock(p)

Get(c) ==
    \/ GetWait(c) \/ GetLock(c) \/ GetCheck(c) \/ GetRemove(c) \/ GetUnlock(c)
    \/ GetCopy(c) \/ GetSignal(c) \/ GetQuit(c) \/ GetQuitUnlock(c)

(* drop() once it is under way, and what main does after it. *)
DropRest(t) ==
    \/ DropLock(t) \/ DropFirst(t) \/ DropLast(t) \/ DropFree(t) \/ DropUnlock(t)

AllDone == \A t \in Threads : pc[t] = "done"
Terminated == AllDone /\ UNCHANGED vars

Next ==
    \/ \E p \in Producers : Put(p)
    \/ \E c \in Consumers : Get(c)
    \/ \E t \in Droppers : DropBegin(t) \/ DropRest(t)
    \/ Join
    \/ Terminated

Spec == Init /\ [][Next]_vars

(* Every thread that can run is eventually scheduled; semaphores are not    *)
(* assumed to be fair to their waiters, and sleep(5) may last for ever.     *)
LiveSpec ==
    /\ Spec
    /\ \A p \in Producers : WF_vars(Put(p))
    /\ \A c \in Consumers : WF_vars(Get(c))
    /\ \A t \in Droppers : WF_vars(DropRest(t))
    /\ \A p \in Producers : WF_vars(DropBegin(p))
    /\ WF_vars(Join)

-----------------------------------------------------------------------------
(* Where a producer, a consumer and main can be; a put that found no memory *)
(* never gets past drop()'s own sem_wait.                                   *)

PutPlaces == {"put", "putLock", "putCheck", "putInsert", "putUnlock", "putSignal",
              "putReturn", "putQuit", "putQuitUnlock", "drop", "dropLock", "done"}
GetPlaces == {"get", "getLock", "getCheck", "getRemove", "getUnlock", "getCopy",
              "getSignal", "getQuit", "getQuitUnlock", "done"}
MainPlaces == {"drop", "dropLock", "dropFirst", "dropLast", "dropFree", "dropUnlock",
               "join", "done"}

ListPlaces == {"putCheck", "putInsert", "putUnlock", "putQuit", "putQuitUnlock",
               "getCheck", "getRemove", "getUnlock", "getQuit", "getQuitUnlock",
               "dropFirst", "dropLast", "dropFree", "dropUnlock"}

(* The threads that hold queue_sem; a put without memory never gave it back. *)
InList == {t \in Threads : pc[t] \in ListPlaces}
          \cup {p \in Producers : pc[p] \in {"drop", "dropLock"}}

(* The code between taking a permit and using it, and between using it and  *)
(* returning it, for places (first_sem) and for messages (last_sem).        *)
TakingPlace == {"putLock", "putCheck", "putInsert", "putQuit", "drop", "dropLock"}
OwingPlace == {"getUnlock", "getCopy", "getSignal"}
OwingItem == {"putUnlock", "putSignal"}
TakingItem == {"getLock", "getCheck", "getRemove", "getQuit"}

At(S, places) == {t \in S : pc[t] \in places}
PlaceTakers == At(Producers, TakingPlace)
PlaceOwers == At(Consumers, OwingPlace)
ItemOwers == At(Producers, OwingItem)
ItemTakers == At(Consumers, TakingItem)

(* The consumers that have unlinked a node and not freed it yet. *)
Holders == At(Consumers, {"getUnlock", "getCopy"})

(* drop() has got hold of the list. *)
Dropped == pc[Main] \in {"dropFirst", "dropLast", "dropFree", "dropUnlock", "join", "done"}

-----------------------------------------------------------------------------
(* The variables stay in their types; no semaphore goes below zero. *)
TypeOK ==
    /\ first_sem \in Nat /\ last_sem \in Nat /\ queue_sem \in Nat
    /\ destroying \in BOOLEAN /\ qAlive \in BOOLEAN
    /\ queue \in Seq(Nodes)
    /\ value \in [Nodes -> Messages \cup {NoMessage}]
    /\ l \in [Workers -> Nodes \cup {NoNode}]
    /\ buffer \in [Consumers -> Messages \cup {NoMessage}]
    /\ pc \in [Threads -> PutPlaces \cup GetPlaces \cup MainPlaces]

(* queue_sem is a lock: never two threads in the code it guards, and its    *)
(* permit is never lost nor doubled, on no path through put, get and drop.  *)
ListExclusive ==
    /\ \A t, u \in InList : t = u
    /\ queue_sem = IF InList = {} THEN 1 ELSE 0

(* Until drop() takes the list every place of the queue is accounted for:   *)
(* free, taken by a put, filled, or emptied by a get that will return it.   *)
PlacesBalance ==
    ~Dropped => first_sem + Cardinality(PlaceTakers) + Len(queue)
                + Cardinality(PlaceOwers) = Capacity

(* Until drop() takes the list every linked message is announced, about to  *)
(* be announced, or spoken for by a get.                                    *)
ItemsBalance ==
    ~Dropped => last_sem + Cardinality(ItemTakers) + Cardinality(ItemOwers)
                = Len(queue)

(* So the two semaphores and the list, three records of one thing that are  *)
(* never changed together, agree in every interleaving of put and get.      *)
PermitsBalance == PlacesBalance /\ ItemsBalance

(* The queue never holds more than the messages first_sem was created for. *)
CapacityBound == Len(queue) <= Capacity

(* get() never finds the list empty: it would dereference a null pointer. *)
GetFindsMessage == \A c \in Consumers : pc[c] = "getRemove" => queue # <<>>

(* put, get and drop touch q only while it is allocated, although nothing   *)
(* but `destroying' tells them so; in particular q is freed only once.      *)
ListAliveWhenUsed ==
    \A t \in Threads : pc[t] \in {"putInsert", "getRemove", "dropFree"} => qAlive

(* The allocated nodes are exactly the linked ones and those a get has      *)
(* unlinked but not freed; no node is in two hands.  So nothing is leaked   *)
(* or freed twice, whether a get or drop() frees it.                        *)
NodesAccounted ==
    /\ \A i, j \in DOMAIN queue : queue[i] = queue[j] => i = j
    /\ \A c, d \in Holders : l[c] = l[d] => c = d
    /\ \A c \in Holders : l[c] \in Nodes \ Linked
    /\ Nodes \ FreeNodes = Linked \cup {l[c] : c \in Holders}

(* The inductive invariant behind the ones above. *)
DropOrder ==
    /\ pc[Main] # "drop" => destroying
    /\ qAlive <=> pc[Main] \notin {"dropUnlock", "join", "done"}
    /\ ~qAlive => queue = <<>>
    /\ \A t \in Threads : pc[t] \in
          {"putInsert", "putUnlock", "getRemove", "getUnlock"} => ~Dropped

(* Every thread is in its own part of the code. *)
ThreadPlaces ==
    /\ \A p \in Producers : pc[p] \in PutPlaces
    /\ \A c \in Consumers : pc[c] \in GetPlaces
    /\ pc[Main] \in MainPlaces

IInv ==
    /\ TypeOK
    /\ ThreadPlaces
    /\ DropOrder
    /\ ListExclusive
    /\ PlacesBalance
    /\ ItemsBalance
    /\ CapacityBound
    /\ NodesAccounted

(* Once a put has run out of memory the list is frozen: drop() waits for    *)
(* the lock its caller holds, so nobody links, unlinks or frees anything.   *)
FrozenAfterNoMemory ==
    [][(\E p \in Producers : pc[p] = "dropLock") => UNCHANGED <<queue, qAlive>>]_vars

(* What the queue is as a channel: the texts of the list until drop() takes *)
(* it, what each consumer was handed last (in its node until it is copied), *)
(* how far drop() got, and the threads whose call returned 0.               *)
channelBar == IF Dropped THEN <<>> ELSE [i \in DOMAIN queue |-> value[queue[i]]]
receivedBar == [c \in Consumers |-> IF c \in Holders THEN value[l[c]] ELSE buffer[c]]
phaseBar == IF Dropped THEN "shut" ELSE IF destroying THEN "shutting" ELSE "open"
dismissedBar == {t \in Workers : pc[t] = "done"}

(* The queue is the channel MsgChannel describes: first in first out, no    *)
(* message lost, invented, doubled or altered on its way to the consumer's  *)
(* buffer, nobody turned away before drop(), nothing served after it.       *)
Channel == INSTANCE MsgChannel WITH
    channel <- channelBar, received <- receivedBar,
    phase <- phaseBar, dismissed <- dismissedBar
FifoChannel == Channel!Spec

(* With enough memory: once drop() has begun every blocked thread is woken,  *)
(* one by the next, and main joins them all.                                *)
EveryThreadJoined == destroying ~> AllDone

(* While main sleeps, every message put is taken out of the list: a bounded *)
(* number of places stops the producers from keeping a get off the lock.    *)
MessagesMove == \A n \in Nodes : n \in Linked ~> n \notin Linked

=============================================================================
