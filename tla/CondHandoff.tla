----------------------------- MODULE CondHandoff ----------------------------
(* lab12: main and its thread print in turn, each signalling the condition   *)
(* variable before its line and waiting on it after; there is no predicate.  *)
(* What is done between taking the mutex and pthread_cond_wait, which gives  *)
(* it back, is one step.                                                     *)
EXTENDS Naturals, Sequences, FiniteSets

CONSTANTS Lines,            \* the ten lines of each loop
          SpuriousWakeups   \* may pthread_cond_wait return without a signal?
VARIABLES printed, spurious,
          waiting,          \* the threads asleep on cond
          stage,            \* where each thread is
          count             \* how often each has been round its loop

vars == <<printed, spurious, waiting, stage, count>>

Parties == {"main", "child"}

Init == /\ spurious = FALSE
        /\ waiting = {}
        /\ stage = [p \in Parties |-> "loop"]
        /\ count = [p \in Parties |-> 0]

Runs(p) == stage[p] = "loop" /\ p \notin waiting

(* Mutant: no signal on the first round, when nobody is thought to sleep. *)
RoundSilent(p) ==
    /\ Runs(p) /\ count[p] < Lines
    /\ printed' = Append(printed, p)
    /\ waiting' = {p} \cup IF count[p] = 0 THEN waiting ELSE {}
    /\ count' = [count EXCEPT ![p] = @ + 1]
    /\ UNCHANGED <<spurious, stage>>

(* Signal, print, wait. *)
Round(p) ==
    /\ Runs(p) /\ count[p] < Lines
    /\ printed' = Append(printed, p)
    /\ waiting' = {p}
    /\ count' = [count EXCEPT ![p] = @ + 1]
    /\ UNCHANGED <<spurious, stage>>

(* Back from the last wait: unlock. *)
Leave(p) ==
    /\ Runs(p) /\ count[p] = Lines
    /\ stage' = [stage EXCEPT ![p] = IF p = "main" THEN "signal" ELSE "over"]
    /\ UNCHANGED <<printed, spurious, waiting, count>>

(* main wakes the thread from its last wait. *)
LastSignal ==
    /\ stage["main"] = "signal"
    /\ waiting' = {}
    /\ stage' = [stage EXCEPT !["main"] = "destroy"]
    /\ UNCHANGED <<printed, spurious, count>>

(* pthread_cond_destroy, pthread_mutex_destroy, pthread_exit. *)
Destroy ==
    /\ stage["main"] = "destroy"
    /\ stage' = [stage EXCEPT !["main"] = "over"]
    /\ UNCHANGED <<printed, spurious, waiting, count>>

SpuriousWakeup(p) ==
    /\ SpuriousWakeups /\ p \in waiting
    /\ waiting' = waiting \ {p}
    /\ spurious' = TRUE
    /\ UNCHANGED <<printed, stage, count>>

AllOver == \A p \in Parties : stage[p] = "over"

Main == Round("main") \/ Leave("main") \/ LastSignal \/ Destroy
Child == Round("child") \/ Leave("child")
Next == Main \/ Child \/ \E p \in Parties : SpuriousWakeup(p)

-----------------------------------------------------------------------------
(* Stages, counts and sleepers are what they may be. *)
TypeOK == /\ waiting \subseteq Parties /\ spurious \in BOOLEAN
          /\ stage \in [Parties -> {"loop", "signal", "destroy", "over"}]
          /\ count \in [Parties -> 0..Lines]

(* main destroys the condition variable when nobody sleeps on it, provided   *)
(* every wake-up was signalled.                                              *)
NobodyAsleepWhenDestroyed ==
    stage["main"] \in {"destroy", "over"} /\ ~spurious => waiting = {}
=============================================================================
