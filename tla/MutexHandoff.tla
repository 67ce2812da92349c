---------------------------- MODULE MutexHandoff ----------------------------
(* lab10: main and its thread print in turn, handing three mutexes round.    *)
(* lab11: they take one mutex each and unlock the other's, which is nobody's *)
(* right, and which the default kind of mutex of the C library lets pass: it *)
(* is then unlocked, whoever locked it.                                      *)
EXTENDS Naturals, Integers, Sequences

CONSTANT Lines              \* NUMBER_OF_LINES
VARIABLES program,          \* "lab10" or "lab11"; never changes
          printed, owner, place, round

vars == <<program, printed, owner, place, round>>

Parties == {"main", "child"}
Lock(m) == [op |-> "lock", mutex |-> m]
Unlock(m) == [op |-> "unlock", mutex |-> m]
Line == [op |-> "print"]

(* Mutant: the thread gives back the mutex that it took. *)
LooseScriptKept == [main  |-> <<Lock(2), Line, Unlock(1)>>,
                    child |-> <<Lock(1), Line, Unlock(1)>>]
LooseScript == [main  |-> <<Lock(2), Line, Unlock(1)>>,
                child |-> <<Lock(1), Line, Unlock(2)>>]

(* The bodies of the two loops. *)
Script ==
    IF program = "lab11" THEN LooseScript
    ELSE [main  |-> <<Unlock(0), Line, Lock(2), Unlock(1), Lock(0), Unlock(2), Lock(1)>>,
          child |-> <<Lock(0), Unlock(2), Lock(1), Unlock(0), Line, Lock(2), Unlock(1)>>]

(* A place in the body, or one of these. *)
Prologue == 0
GotTwo == 8
Over == 9

Init == /\ owner = [m \in 0..2 |-> IF m = 2 \/ program = "lab11" THEN "nobody" ELSE "main"]
        /\ place = [p \in Parties |-> IF program = "lab11" THEN 1 ELSE Prologue]
        /\ round = [p \in Parties |-> 0]

-----------------------------------------------------------------------------
(* main tries mutex 2 until it finds that the thread has it. *)
TryLock ==
    /\ place["main"] = Prologue
    /\ IF owner[2] = "nobody"
       THEN /\ owner' = [owner EXCEPT ![2] = "main"]
            /\ place' = [place EXCEPT !["main"] = GotTwo]
       ELSE place' = [place EXCEPT !["main"] = 1] /\ UNCHANGED owner
    /\ UNCHANGED <<program, printed, round>>

GiveTwoBack ==
    /\ place["main"] = GotTwo
    /\ owner' = [owner EXCEPT ![2] = "nobody"]
    /\ place' = [place EXCEPT !["main"] = Prologue]
    /\ UNCHANGED <<program, printed, round>>

LockTwoFirst ==
    /\ place["child"] = Prologue /\ owner[2] = "nobody"
    /\ owner' = [owner EXCEPT ![2] = "child"]
    /\ place' = [place EXCEPT !["child"] = 1]
    /\ UNCHANGED <<program, printed, round>>

-----------------------------------------------------------------------------
Advance(p) ==
    IF place[p] < Len(Script[p])
    THEN place' = [place EXCEPT ![p] = @ + 1] /\ UNCHANGED round
    ELSE /\ round' = [round EXCEPT ![p] = @ + 1]
         /\ place' = [place EXCEPT ![p] = IF round'[p] = Lines THEN Over ELSE 1]

At(p, op) == place[p] \in 1..Len(Script[p]) /\ Script[p][place[p]].op = op
TheMutex(p) == Script[p][place[p]].mutex

DoLock(p) ==
    /\ At(p, "lock") /\ owner[TheMutex(p)] = "nobody"
    /\ owner' = [owner EXCEPT ![TheMutex(p)] = p]
    /\ Advance(p)
    /\ UNCHANGED <<program, printed>>

DoUnlock(p) ==
    /\ At(p, "unlock")
    /\ owner' = [owner EXCEPT ![TheMutex(p)] = "nobody"]
    /\ Advance(p)
    /\ UNCHANGED <<program, printed>>

DoPrint(p) ==
    /\ At(p, "print")
    /\ printed' = Append(printed, p)
    /\ Advance(p)
    /\ UNCHANGED <<program, owner>>

AllOver == \A p \in Parties : place[p] = Over

Body(p) == DoLock(p) \/ DoUnlock(p) \/ DoPrint(p)
Main == TryLock \/ GiveTwoBack \/ Body("main")
Child == LockTwoFirst \/ Body("child")
Next == Main \/ Child

-----------------------------------------------------------------------------
(* Places and owners are what they may be. *)
TypeOK == /\ owner \in [0..2 -> Parties \cup {"nobody"}]
          /\ place \in [Parties -> 0..9] /\ round \in [Parties -> 0..Lines]

(* lab10: a mutex is unlocked by the thread that locked it. *)
OwnUnlocks == program = "lab10" => \A p \in Parties : At(p, "unlock") => owner[TheMutex(p)] = p
=============================================================================
