------------------------------- MODULE Widgets ------------------------------
(* lab22: three threads make parts a, b and c, a fourth joins an a and a b,  *)
(* main joins an ab and a c; the stocks are semaphores.  A semaphore at its  *)
(* limit makes sem_post fail, and then all threads but main are cancelled.   *)
EXTENDS Integers, Sequences, FiniteSets

CONSTANTS SEM_VALUE_MAX,
          MaxParts          \* bound: how many of each part are made

VARIABLES sem,              \* the four semaphores
          thread,           \* where the four threads are
          main,             \* where main's loop is
          made,             \* how many of each kind were put in stock
          crews,            \* how many finished pieces main has announced
          hand,             \* what the ab thread holds
          cancelled,        \* the threads that pthread_cancel() was called for
          calls             \* how many of these calls each thread has made

vars == <<sem, thread, main, made, crews, hand, cancelled, calls>>

Parts == {"a", "b", "c"}
Kinds == Parts \cup {"ab"}
CancelOrder == <<"a", "b", "c", "ab">>

Init ==
    /\ sem = [k \in Kinds |-> 0]
    /\ thread = [k \in Kinds |-> IF k = "ab" THEN "wait_a" ELSE "sleep"]
    /\ main = "wait_ab"
    /\ made = [k \in Kinds |-> 0]
    /\ crews = 0 /\ hand = {} /\ cancelled = {} /\ calls = [k \in Kinds |-> 0]

-----------------------------------------------------------------------------
(* sleep(), a cancellation point. *)
Sleep(k) ==
    /\ k \in Parts /\ thread[k] = "sleep" /\ k \notin cancelled
    /\ made[k] < MaxParts
    /\ thread' = [thread EXCEPT ![k] = "post"]
    /\ UNCHANGED <<sem, main, made, crews, hand, cancelled, calls>>

(* sem_post(), after which what was in hand is in stock. *)
Post(k) ==
    /\ thread[k] = "post" /\ sem[k] < SEM_VALUE_MAX
    /\ sem' = [sem EXCEPT ![k] = @ + 1]
    /\ made' = [made EXCEPT ![k] = @ + 1]
    /\ thread' = [thread EXCEPT ![k] = IF k = "ab" THEN "wait_a" ELSE "sleep"]
    /\ hand' = (IF k = "ab" THEN {} ELSE hand)
    /\ UNCHANGED <<main, crews, cancelled, calls>>

(* sem_post() fails. *)
PostFails(k) ==
    /\ thread[k] = "post" /\ sem[k] = SEM_VALUE_MAX
    /\ thread' = [thread EXCEPT ![k] = "failed"]
    /\ UNCHANGED <<sem, main, made, crews, hand, cancelled, calls>>

(* What the ab thread holds is lost with it. *)
Drops(k) == hand' = IF k = "ab" THEN {} ELSE hand

(* cancel_all_threads(), one call after the other, the caller itself among  *)
(* them, and then pthread_exit(); the other threads go on meanwhile.        *)
cancel_all_threads(k) ==
    /\ thread[k] \in {"failed", "cancelling"}
    /\ cancelled' = cancelled \cup {CancelOrder[calls[k] + 1]}
    /\ calls' = [calls EXCEPT ![k] = @ + 1]
    /\ IF calls'[k] = Len(CancelOrder)
       THEN thread' = [thread EXCEPT ![k] = "over"] /\ Drops(k)
       ELSE thread' = [thread EXCEPT ![k] = "cancelling"] /\ UNCHANGED hand
    /\ UNCHANGED <<sem, main, made, crews>>

(* Mutant: the thread takes a b for an a. *)
TakeAny(p) ==
    /\ thread["ab"] = (IF p = "a" THEN "wait_a" ELSE "wait_b") /\ "ab" \notin cancelled
    /\ sem["a"] > 0
    /\ sem' = [sem EXCEPT !["a"] = @ - 1]
    /\ hand' = hand \cup {p}
    /\ thread' = [thread EXCEPT !["ab"] = IF p = "a" THEN "wait_b" ELSE "post"]
    /\ UNCHANGED <<main, made, crews, cancelled, calls>>

(* create_ab: sem_wait() for an a, then for a b. *)
Take(p) ==
    /\ thread["ab"] = (IF p = "a" THEN "wait_a" ELSE "wait_b") /\ "ab" \notin cancelled
    /\ sem[p] > 0
    /\ sem' = [sem EXCEPT ![p] = @ - 1]
    /\ hand' = hand \cup {p}
    /\ thread' = [thread EXCEPT !["ab"] = IF p = "a" THEN "wait_b" ELSE "post"]
    /\ UNCHANGED <<main, made, crews, cancelled, calls>>

(* sleep, sem_wait, write and the message about a failure are cancellation   *)
(* points; write is followed by one of the others and needs no place here.   *)
Cancelled(k) ==
    /\ k \in cancelled
    /\ thread[k] \in {"sleep", "wait_a", "wait_b", "failed"}
    /\ thread' = [thread EXCEPT ![k] = "over"] /\ Drops(k)
    /\ UNCHANGED <<sem, main, made, crews, cancelled, calls>>

-----------------------------------------------------------------------------
(* create_screw, in main: sem_wait() for an ab, then for a c. *)
TakeAB ==
    /\ main = "wait_ab" /\ sem["ab"] > 0
    /\ sem' = [sem EXCEPT !["ab"] = @ - 1]
    /\ main' = "wait_c"
    /\ UNCHANGED <<thread, made, crews, hand, cancelled, calls>>

TakeC ==
    /\ main = "wait_c" /\ sem["c"] > 0
    /\ sem' = [sem EXCEPT !["c"] = @ - 1]
    /\ main' = "wait_ab"
    /\ crews' = crews + 1
    /\ UNCHANGED <<thread, made, hand, cancelled, calls>>

create_screw == TakeAB \/ TakeC
Thread(k) == Sleep(k) \/ Post(k) \/ PostFails(k) \/ cancel_all_threads(k) \/ Cancelled(k)
create_ab == Take("a") \/ Take("b")
Next == create_screw \/ create_ab \/ \E k \in Kinds : Thread(k)

(* Nothing moves: main waits for ever, after a cancellation or at the bound. *)
Stopped ==
    /\ \A k \in Kinds :
          \/ thread[k] = "over"
          \/ /\ k \notin cancelled
             /\ \/ k \in Parts /\ thread[k] = "sleep" /\ made[k] = MaxParts
                \/ thread[k] = "wait_a" /\ sem["a"] = 0
                \/ thread[k] = "wait_b" /\ sem["b"] = 0
    /\ sem[IF main = "wait_ab" THEN "ab" ELSE "c"] = 0

-----------------------------------------------------------------------------
(* Stocks, counts and places are what they may be. *)
TypeOK ==
    /\ sem \in [Kinds -> 0..SEM_VALUE_MAX]
    /\ thread \in [Kinds -> {"sleep", "post", "wait_a", "wait_b", "failed", "cancelling", "over"}]
    /\ main \in {"wait_ab", "wait_c"}
    /\ made \in [Kinds -> 0..MaxParts]
    /\ crews \in 0..MaxParts /\ hand \in SUBSET {"a", "b"}
    /\ cancelled \in SUBSET Kinds /\ calls \in [Kinds -> 0..Len(CancelOrder)]

(* Every part ever made is in stock, in the hand of the ab thread or in a    *)
(* piece, but for what that thread held when it came to its end: then an a   *)
(* is missing, or an a and a b, of all that were made, and nothing else is.  *)
Missing(p) == made[p] - (sem[p] + Cardinality(hand \cap {p}) + made["ab"])
PartsAccounted ==
    /\ Missing("a") \in 0..1 /\ Missing("b") \in 0..Missing("a")
    /\ thread["ab"] # "over" => Missing("a") = 0
    /\ made["ab"] = sem["ab"] + (IF main = "wait_c" THEN 1 ELSE 0) + crews
    /\ made["c"] = sem["c"] + crews
=============================================================================
