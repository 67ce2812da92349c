------------------------------ MODULE SmallLabs -----------------------------
(* The programs of lab7, lab8, lab10 to lab13, lab15 and lab22 and the list  *)
(* inside the queue of lab23 and lab24, of which one is run: a behaviour of  *)
(* this module is a behaviour of the one of them that `program' names, and   *)
(* the state of the others stays as it was.                                  *)
EXTENDS Naturals, Integers, Sequences, FiniteSets

CONSTANTS Lines, SpuriousWakeups, MaxRuns,
          countOfThreads, num_global_iteration, MaxIteration,
          SEM_VALUE_MAX, MaxParts,
          Producers, Consumers, Messages, NoMessage, Nodes, Null, Wild

ASSUME SmallLabsAssumption ==
    /\ Lines \in Nat \ {0} /\ MaxRuns \in Nat \ {0} /\ SpuriousWakeups \in BOOLEAN
    /\ countOfThreads \in Nat \ {0} /\ num_global_iteration \in Nat \ {0}
    /\ MaxIteration \in Nat /\ SEM_VALUE_MAX \in Nat \ {0} /\ MaxParts \in Nat \ {0}
    /\ IsFiniteSet(Nodes) /\ NoMessage \notin Messages
    /\ Null \notin Nodes /\ Wild \notin Nodes /\ Null # Wild

VARIABLES program, printed, spurious
VARIABLES stopCalculating, maxGlobalIteration, currentGlobalIteration, partOfPi, thread,
          created, joined                                      \* lab7, lab8
VARIABLES owner, place, round                                 \* lab10, lab11
VARIABLES waiting, stage, count                                      \* lab12
VARIABLES named, sem, at, shown, names, runs, mishap                 \* lab13, lab15
VARIABLES stock, maker, main, made, crews, hand, cancelled, calls     \* lab22
VARIABLES first, last, next, prev, value, alive, l, received, l1, phase  \* the list

pi == <<stopCalculating, maxGlobalIteration, currentGlobalIteration, partOfPi, thread,
        created, joined>>
mutexes == <<owner, place, round>>
cond == <<waiting, stage, count>>
sems == <<named, sem, at, shown, names, runs, mishap>>
widgets == <<stock, maker, main, made, crews, hand, cancelled, calls>>
list == <<first, last, next, prev, value, alive, l, received, l1, phase>>
vars == <<program, printed, spurious, pi, mutexes, cond, sems, widgets, list>>

Pi == INSTANCE PiThreads
Mutex == INSTANCE MutexHandoff
Cond == INSTANCE CondHandoff
Sem == INSTANCE SemHandoff WITH count <- shown
Widget == INSTANCE Widgets WITH sem <- stock, thread <- maker
List == INSTANCE MsgList

Programs == {"lab7", "lab8", "lab10", "lab11", "lab12", "lab13", "lab15", "lab22", "list"}

Init ==
    /\ program \in Programs
    /\ printed = <<>>
    /\ IF program = "lab7" THEN Pi!InitSteps ELSE Pi!Init
    /\ List!Init /\ Mutex!Init /\ Cond!Init /\ Sem!Init /\ Widget!Init
    /\ named = (program = "lab15")

Lab8(step) ==
    /\ program \in {"lab7", "lab8"} /\ step
    /\ UNCHANGED <<program, printed, spurious, mutexes, cond, sems, widgets, list>>
Lab10(step) ==
    /\ program \in {"lab10", "lab11"} /\ step
    /\ UNCHANGED <<spurious, pi, cond, sems, widgets, list>>
Lab12(step) ==
    /\ program = "lab12" /\ step
    /\ UNCHANGED <<program, pi, mutexes, sems, widgets, list>>
Lab13(step) ==
    /\ program \in {"lab13", "lab15"} /\ step
    /\ UNCHANGED <<program, spurious, pi, mutexes, cond, widgets, list>>
Lab22(step) ==
    /\ program = "lab22" /\ step
    /\ UNCHANGED <<program, printed, spurious, pi, mutexes, cond, sems, list>>
Queue(step) ==
    /\ program = "list" /\ step
    /\ UNCHANGED <<program, printed, spurious, pi, mutexes, cond, sems, widgets>>

(* Where a program may come to rest. *)
Stopped ==
    \/ program \in {"lab7", "lab8"} /\ Pi!AllJoined
    \/ program \in {"lab10", "lab11"} /\ Mutex!AllOver
    \/ program = "lab12" /\ Cond!AllOver
    \/ program \in {"lab13", "lab15"} /\ Sem!AtRest
    \/ program = "lab22" /\ Widget!Stopped
    \/ program = "list" /\ List!Over

Next ==
    \/ Lab8(Pi!Next) \/ Lab10(Mutex!Next) \/ Lab12(Cond!Next) \/ Lab13(Sem!Next)
    \/ Lab22(Widget!Next) \/ Queue(List!Next)
    \/ Stopped /\ UNCHANGED vars

Spec == Init /\ [][Next]_vars

(* Every thread and process is scheduled.  In lab10 main may take and give   *)
(* back mutex 2 in a loop while its thread tries to get it: the thread must  *)
(* get it in the end.  Nothing is assumed of SIGINT, of wake-ups that nobody *)
(* signalled, of failing calls, of the interrupt that ends lab15 or of its   *)
(* being run again.                                                          *)
Fairness ==
    /\ WF_vars(Lab8(Pi!main))
    /\ \A t \in Pi!Threads : WF_vars(Lab8(Pi!calculatePartOfPi(t)))
    /\ WF_vars(Lab10(Mutex!Main)) /\ WF_vars(Lab10(Mutex!Child))
    /\ SF_vars(Lab10(Mutex!LockTwoFirst))
    /\ WF_vars(Lab12(Cond!Main)) /\ WF_vars(Lab12(Cond!Child))
    /\ \A p \in Sem!Parties : WF_vars(Lab13(Sem!Party(p)))
    /\ WF_vars(Lab13(Sem!Opening)) /\ WF_vars(Lab13(Sem!Unlinking))
    /\ WF_vars(Lab22(Widget!create_screw)) /\ WF_vars(Lab22(Widget!create_ab))
    /\ \A k \in Widget!Kinds : WF_vars(Lab22(Widget!Thread(k)))

LiveSpec == Spec /\ Fairness

-----------------------------------------------------------------------------
(* The variables of all programs stay in their types. *)
TypeOK ==
    /\ program \in Programs /\ printed \in Seq({"main", "child"})
    /\ Pi!TypeOK /\ Mutex!TypeOK /\ Cond!TypeOK /\ Sem!TypeOK /\ Widget!TypeOK /\ List!TypeOK

(* Who prints first: in lab12 whichever thread gets the mutex first. *)
Starters == CASE program = "lab15" -> {"child"}
              [] program = "lab12" -> {"main", "child"}
              [] OTHER -> {"main"}

Turns == INSTANCE TakingTurns WITH
             starters <- Starters,
             printed <- IF program = "lab11" THEN <<>> ELSE printed

(* lab10, lab12, lab13, lab15: the lines alternate, beginning with the right *)
(* one; in lab12 until a wake-up that nobody signalled.                      *)
TakesTurns == Turns!Spec

(* They print all their lines and end: lab10 and lab11 once the thread is    *)
(* there, lab13 and lab15 unless a call fails or lab15 is killed, lab12 if   *)
(* main was the first to get the mutex and every wake-up was signalled (else *)
(* one of the two waits for ever).                                           *)
TurnsEnd ==
    /\ program \in {"lab10", "lab11"} => <>(Mutex!AllOver /\ Len(printed) = 2 * Lines)
    /\ program \in {"lab13", "lab15"} =>
          <>(mishap \/ (Sem!Finished /\ Len(printed) = 2 * Lines))
    /\ (program = "lab12" /\ printed # <<>> /\ printed[1] = "main")
           ~> (spurious \/ (Cond!AllOver /\ Len(printed) = 2 * Lines))

(* lab12, lab13: nobody waits on the condition variable or uses the          *)
(* semaphores that main destroys.  (The mutex of lab12 is not spoken of: the *)
(* woken thread may still have to take it back when main destroys it.)       *)
UnusedWhenDestroyed == Cond!NobodyAsleepWhenDestroyed /\ Sem!UnusedWhenDestroyed

(* lab10's mutexes are unlocked by their owner, and nobody is left at a condition    *)
(* variable or a semaphore when it is destroyed.                             *)
UsedInOrder == Mutex!OwnUnlocks /\ UnusedWhenDestroyed

(* lab15: a run is refused only after another was killed or a call failed. *)
RefusedAfterMishapOnly == Sem!RefusedAfterMishapOnly

(* Neither side is ever more than a line ahead: in lab11, where the lines do *)
(* not alternate, no more than in the others.                                *)
Count(p) == Cardinality({i \in DOMAIN printed : printed[i] = p})
Abreast == spurious \/ Count("main") - Count("child") \in -1..1

(* lab7, lab8: all threads stop at the same iteration, and the sum is a      *)
(* partial sum of the series, every term added once.                         *)
PiInStep == Pi!SameIteration /\ Pi!PiIsPartialSum

(* lab8: after SIGINT all threads stop and main joins them; lab7 at once. *)
StopsWhenTold == stopCalculating ~> Pi!AllJoined

(* lab22: no part is used twice, and the only ones lost are those that the   *)
(* ab thread held when it came to its end.                                   *)
PartsAccounted == Widget!PartsAccounted

(* lab22: as long as no semaphore meets its limit, all parts end up in       *)
(* finished pieces.                                                          *)
CrewsMade == program = "lab22" => <>(cancelled # {} \/ crews = MaxParts)

(* The list in the queue of lab23 and lab24 keeps its shape. *)
ListShape == List!ListShape

(* What drop() leaves allocated is in the hands of a get, which frees it. *)
DropFreesAll == List!DropFreesAll

(* The list is a first-in first-out channel. *)
FifoList == List!FifoList

(* Every program does what it is for and comes to its end, where its code   *)
(* gives it a chance to: nobody waits for a post, a signal or a lock that   *)
(* will never come.                                                         *)
ProgramsEnd == TurnsEnd /\ StopsWhenTold /\ CrewsMade
=============================================================================
