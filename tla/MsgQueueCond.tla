---------------------------- MODULE MsgQueueCond ----------------------------
(***************************************************************************)
(* lab24: MyMsgQueue built from a mutex and one condition variable, with   *)
(* the producer and consumer threads and the main thread that use it.      *)
(*                                                                         *)
(* One step is the code between two points at which another thread can     *)
(* interfere: a call that blocks, a read of `destroying' (drop() writes it *)
(* without the mutex), or the end of the guarded code.  pthread_cond_wait  *)
(* is three steps: release and sleep, be woken, take the mutex again.      *)
(* The list holds the texts themselves; MsgList models its pointers.       *)
(***************************************************************************)
EXTENDS Integers, Sequences, FiniteSets

CONSTANTS Producers,        \* threads running prod_func
          Consumers,        \* threads running cons_func
          Main,             \* the thread running main
          NoThread,         \* owner of the free mutex
          Messages,         \* texts a producer may put
          NoMessage,        \* what an empty list yields: the null pointer
          Capacity,         \* the 10 that put and get compare count with
          QueueBound,       \* bound on the list: put overfills the queue for
                            \* ever once count has passed Capacity
          MallocMayFail,    \* may malloc return NULL?
          SpuriousWakeups   \* may pthread_cond_wait return without a signal?

ASSUME ConstantsAssumption ==
    /\ IsFiniteSet(Producers) /\ IsFiniteSet(Consumers)
    /\ Producers \cap Consumers = {}
    /\ Main \notin Producers \cup Consumers
    /\ NoThread \notin Producers \cup Consumers \cup {Main}
    /\ NoMessage \notin Messages
    /\ Capacity \in Nat \ {0}
    /\ QueueBound \in Nat /\ QueueBound >= Capacity
    /\ MallocMayFail \in BOOLEAN /\ SpuriousWakeups \in BOOLEAN

Workers == Producers \cup Consumers
Threads == Workers \cup {Main}
Droppers == Producers \cup {Main}

VARIABLES created,      \* the threads asked for on the command line
          mutex,        \* the thread that holds it, or NoThread
          waiting,      \* the threads asleep on cond
          destroying,   \* set by drop(), never cleared
          count,        \* the member of that name
          queue,        \* the texts in the list, oldest first
          qAlive,       \* FALSE once drop() has freed q
          taken,        \* what get has unlinked and not yet copied
          buffer,       \* msg_buffer of each consumer
          pc,
          spurious      \* history: has a thread been woken by nobody?

list == <<count, queue, qAlive>>
run == <<created, spurious>>
vars == <<run, mutex, waiting, destroying, count, queue, qAlive, taken, buffer, pc>>

(* main insists on a producer and a consumer; the others never begin. *)
Init ==
    /\ created \in SUBSET Workers
    /\ created \cap Producers # {} /\ created \cap Consumers # {}
    /\ spurious = FALSE
    /\ mutex = NoThread
    /\ waiting = {}
    /\ destroying = FALSE
    /\ count = 0
    /\ queue = <<>>
    /\ qAlive = TRUE
    /\ taken = [c \in Consumers |-> NoMessage]
    /\ buffer = [c \in Consumers |-> NoMessage]
    /\ pc = [t \in Threads |-> IF t = Main THEN "drop"
                               ELSE IF t \notin created THEN "done"
                               ELSE IF t \in Producers THEN "put" ELSE "get"]

-----------------------------------------------------------------------------
(* The pthread calls. *)

Goto(t, from, to) == pc[t] = from /\ pc' = [pc EXCEPT ![t] = to]
Lock(t) == mutex = NoThread /\ mutex' = t
Unlock == mutex' = NoThread

(* Mutant: nobody is woken. *)
SignalNobody == UNCHANGED waiting

(* One sleeper, whichever, is woken; producers and consumers sleep on the  *)
(* same condition.                                                         *)
Signal == IF waiting = {} THEN waiting' = {}
          ELSE \E t \in waiting : waiting' = waiting \ {t}

(* pthread_cond_wait(&cond, &mutex) *)
Sleep(t, from, to) ==
    /\ Goto(t, from, to)
    /\ Unlock
    /\ waiting' = waiting \cup {t}
    /\ UNCHANGED <<run, destroying, list, taken, buffer>>

Awake(t, from, to) ==
    /\ t \notin waiting
    /\ Goto(t, from, to)
    /\ Lock(t)
    /\ UNCHANGED <<run, waiting, destroying, list, taken, buffer>>

SpuriousWakeup(t) ==
    /\ SpuriousWakeups
    /\ t \in waiting
    /\ waiting' = waiting \ {t} /\ spurious' = TRUE
    /\ UNCHANGED <<created, mutex, destroying, list, taken, buffer, pc>>

-----------------------------------------------------------------------------
(* put(msg) *)

(* The mutex is taken and count == 10 && !destroying evaluated. *)
PutEnter(p) ==
    /\ Goto(p, "put", IF count = Capacity /\ ~destroying THEN "putWait" ELSE "putTest")
    /\ Lock(p)
    /\ UNCHANGED <<run, waiting, destroying, list, taken, buffer>>

PutSleep(p) == Sleep(p, "putWait", "putAsleep")
PutAwake(p) == Awake(p, "putAsleep", "putTest")   \* count is not looked at again

(* Mutant: return 0 without unlocking. *)
PutTestKeepsLock(p) ==
    /\ IF destroying THEN Goto(p, "putTest", "done")
       ELSE Goto(p, "putTest", "putInsert")
    /\ UNCHANGED <<run, mutex, waiting, destroying, list, taken, buffer>>

PutTest(p) ==
    /\ IF destroying THEN Goto(p, "putTest", "done") /\ Unlock
       ELSE Goto(p, "putTest", "putInsert") /\ UNCHANGED mutex
    /\ UNCHANGED <<run, waiting, destroying, list, taken, buffer>>

(* Mutant: the node is linked at q->last's end. *)
LinkWrongEnd(m) == queue' = <<m>> \o queue
Link(m) == queue' = Append(queue, m)

PutInsert(p) ==
    /\ Len(queue) < QueueBound
    /\ Goto(p, "putInsert", "put")
    /\ \E m \in Messages : Link(m)
    /\ count' = count + 1
    /\ IF count' > 0 THEN Signal ELSE UNCHANGED waiting
    /\ Unlock
    /\ UNCHANGED <<run, destroying, qAlive, taken, buffer>>

(* malloc returned NULL: put calls drop() while it still holds the mutex. *)
PutNoMemory(p) ==
    /\ MallocMayFail
    /\ Goto(p, "putInsert", "drop")
    /\ UNCHANGED <<run, mutex, waiting, destroying, list, taken, buffer>>

-----------------------------------------------------------------------------
(* get(buffer, len) *)

GetEnter(c) ==
    /\ Goto(c, "get", IF count = 0 /\ ~destroying THEN "getWait" ELSE "getTest")
    /\ Lock(c)
    /\ UNCHANGED <<run, waiting, destroying, list, taken, buffer>>

GetSleep(c) == Sleep(c, "getWait", "getAsleep")
GetAwake(c) == Awake(c, "getAsleep", "getTest")   \* count is not looked at again

(* Mutant: destroying is not looked at after the wait. *)
GetTestForgotten(c) ==
    /\ Goto(c, "getTest", "getRemove")
    /\ UNCHANGED <<run, mutex, waiting, destroying, list, taken, buffer>>

GetTest(c) ==
    /\ IF destroying THEN Goto(c, "getTest", "done") /\ Unlock
       ELSE Goto(c, "getTest", "getRemove") /\ UNCHANGED mutex
    /\ UNCHANGED <<run, waiting, destroying, list, taken, buffer>>

(* Mutant: count is not lowered when the list turns out to be empty. *)
CountDownIfAny == count' = IF queue = <<>> THEN count ELSE count - 1
CountDown == count' = count - 1

(* l = q->last: the null pointer if the list is empty, and count is lowered *)
(* all the same.                                                            *)
GetRemove(c) ==
    /\ Goto(c, "getRemove", "getCopy")
    /\ taken' = [taken EXCEPT ![c] = IF queue = <<>> THEN NoMessage ELSE Head(queue)]
    /\ queue' = IF queue = <<>> THEN <<>> ELSE Tail(queue)
    /\ CountDown
    /\ IF count' < Capacity THEN Signal ELSE UNCHANGED waiting
    /\ Unlock
    /\ UNCHANGED <<run, destroying, qAlive, buffer>>

GetCopy(c) ==
    /\ taken[c] # NoMessage
    /\ Goto(c, "getCopy", "get")
    /\ buffer' = [buffer EXCEPT ![c] = taken[c]]
    /\ taken' = [taken EXCEPT ![c] = NoMessage]
    /\ UNCHANGED <<run, mutex, waiting, destroying, list>>

(* strncpy(buffer, l->value, ...) with l null: the process is killed. *)
GetCrash(c) ==
    /\ pc[c] = "getCopy" /\ taken[c] = NoMessage
    /\ pc' = [t \in Threads |-> "killed"]
    /\ mutex' = NoThread /\ waiting' = {} /\ queue' = <<>> /\ qAlive' = FALSE
    /\ UNCHANGED <<run, destroying, count, taken, buffer>>

-----------------------------------------------------------------------------
(* drop(), called by main after sleep(5) or by a put that got no memory: *)
(* neither the flag nor the broadcast is guarded by the mutex.           *)

DropFlag(t) ==
    /\ Goto(t, "drop", "dropBroadcast")
    /\ destroying' = TRUE
    /\ UNCHANGED <<run, mutex, waiting, list, taken, buffer>>

DropBroadcast(t) ==
    /\ Goto(t, "dropBroadcast", "dropFree")
    /\ waiting' = {}
    /\ UNCHANGED <<run, mutex, destroying, list, taken, buffer>>

(* Lock, free every node and q, unlock.  count keeps its value. *)
DropFree(t) ==
    /\ mutex = NoThread
    /\ Goto(t, "dropFree", IF t = Main THEN "join" ELSE "done")
    /\ queue' = <<>>
    /\ qAlive' = FALSE
    /\ UNCHANGED <<run, mutex, waiting, destroying, count, taken, buffer>>

Join ==
    /\ \A t \in Workers : pc[t] = "done"
    /\ Goto(Main, "join", "done")
    /\ UNCHANGED <<run, mutex, waiting, destroying, list, taken, buffer>>

-----------------------------------------------------------------------------
Put(p) == \/ PutEnter(p) \/ PutSleep(p) \/ PutAwake(p) \/ PutTest(p)
          \/ PutInsert(p) \/ PutNoMemory(p)
Get(c) == \/ GetEnter(c) \/ GetSleep(c) \/ GetAwake(c) \/ GetTest(c)
          \/ GetRemove(c) \/ GetCopy(c) \/ GetCrash(c)
DropRest(t) == DropBroadcast(t) \/ DropFree(t)

AllDone == \A t \in Threads : pc[t] = "done"

Next ==
    \/ \E p \in Producers : Put(p)
    \/ \E c \in Consumers : Get(c)
    \/ \E t \in Droppers : DropFlag(t) \/ DropRest(t)
    \/ \E t \in Workers : SpuriousWakeup(t)
    \/ Join

Spec == Init /\ [][Next]_vars

(* Every thread that can run is eventually scheduled; the mutex is not      *)
(* assumed to be fair.  sleep(5) may last for ever ...                      *)
LiveSpec ==
    /\ Spec
    /\ \A p \in Producers : WF_vars(Put(p))
    /\ \A c \in Consumers : WF_vars(Get(c))
    /\ \A t \in Droppers : WF_vars(DropRest(t))
    /\ \A p \in Producers : WF_vars(DropFlag(p))
    /\ WF_vars(Join)

(* ... or is known to end. *)
DropSpec == LiveSpec /\ WF_vars(DropFlag(Main))

-----------------------------------------------------------------------------
(* Where the mutex is held: between Lock and Unlock, and for ever in a put  *)
(* that ran out of memory and called drop().                                *)
Guarded == {"putWait", "putTest", "putInsert", "getWait", "getTest", "getRemove"}
Holder(t) == \/ pc[t] \in Guarded
             \/ t \in Producers /\ pc[t] \in {"drop", "dropBroadcast", "dropFree"}

(* The gets that took the null pointer and are about to dereference it. *)
NullTakers == {c \in Consumers : pc[c] = "getCopy" /\ taken[c] = NoMessage}

-----------------------------------------------------------------------------
(* The variables stay in their types; count never drops below minus the     *)
(* number of consumers, each of which crashes before it lowers it again.    *)
TypeOK ==
    /\ created \in SUBSET Workers /\ spurious \in BOOLEAN
    /\ mutex \in Threads \cup {NoThread}
    /\ waiting \in SUBSET Workers
    /\ destroying \in BOOLEAN /\ qAlive \in BOOLEAN
    /\ count \in (-Cardinality(Consumers))..QueueBound
    /\ queue \in Seq(Messages) /\ Len(queue) <= QueueBound
    /\ taken \in [Consumers -> Messages \cup {NoMessage}]
    /\ buffer \in [Consumers -> Messages \cup {NoMessage}]
    /\ pc \in [Threads -> Guarded \cup
          {"put", "putAsleep", "get", "getAsleep", "getCopy", "drop",
           "dropBroadcast", "dropFree", "join", "done", "killed"}]

(* The mutex belongs to exactly the thread that is in the guarded code, on   *)
(* every path through put, get, drop and pthread_cond_wait, and a thread     *)
(* asleep on cond does not hold it.                                          *)
MutexDiscipline ==
    /\ \A t \in Threads : Holder(t) <=> mutex = t
    /\ \A t \in waiting : pc[t] \in {"putAsleep", "getAsleep"}

(* count, which put and get go by, is the length of the list less the gets   *)
(* that found it empty: until drop() they only differ when a get is doomed.  *)
CountBalance == qAlive => count = Len(queue) - Cardinality(NullTakers)

(* get() never finds the list empty: it would dereference a null pointer. *)
GetFindsMessage == \A c \in Consumers : pc[c] = "getRemove" => queue # <<>>

(* put and get touch q only while it is allocated, though a cond_wait and a  *)
(* drop() may lie between their two looks at destroying; q is freed once.    *)
ListAliveWhenUsed ==
    \A t \in Threads : pc[t] \in {"putInsert", "getRemove", "dropFree"} => qAlive

(* While the queue is in use somebody is awake: a sleeper's signal, sent on  *)
(* the condition that producers and consumers share, is never lost.          *)
SomebodyAwake == ~destroying => \E t \in created : pc[t] \notin {"putAsleep", "getAsleep"}
                                                  \/ t \notin waiting

(* One producer and one consumer, and no wake-up that nobody signalled: the  *)
(* only setting in which an `if' around pthread_cond_wait is enough.         *)
Alone == /\ ~spurious
         /\ Cardinality(created \cap Producers) = 1
         /\ Cardinality(created \cap Consumers) = 1

(* What the queue is as a channel: its list, what each consumer was handed  *)
(* last (unlinked until it is copied), how far drop() got, and the threads  *)
(* whose call returned 0.                                                   *)
Dropped == ~qAlive
receivedBar == [c \in Consumers |-> IF pc[c] = "getCopy" THEN taken[c] ELSE buffer[c]]
phaseBar == IF Dropped THEN "shut" ELSE IF destroying THEN "shutting" ELSE "open"
dismissedBar == {t \in created : pc[t] = "done"}

(* Then the queue is the channel MsgChannel describes ... *)
Channel == INSTANCE MsgChannel WITH
    channel <- queue, received <- receivedBar,
    phase <- phaseBar, dismissed <- dismissedBar
FifoChannel == Channel!Init /\ [][Alone => Channel!Next]_(Channel!channelVars)

(* ... and as long as main sleeps the consumer goes on receiving messages. *)
ConsumersServed == [](~destroying /\ Alone) => []<>(\E c \in Consumers : pc[c] = "getCopy")

(* After drop() main joins every thread. *)
EveryThreadJoined == <>AllDone

=============================================================================
