---------------------------- MODULE Philosophers ----------------------------
(***************************************************************************)
(* lab9: the dining philosophers.  A counting semaphore admits one         *)
(* philosopher fewer than there are forks; a mutex per fork; a mutex for   *)
(* the pile of dishes.  One step is one call that can block, or the code   *)
(* between two of them that touches what the threads share.                *)
(* The sleeps and the messages printed are left out: any thread may be     *)
(* slow here at any step.                                                  *)
(***************************************************************************)
EXTENDS Integers, FiniteSets

CONSTANTS N,       \* PHILO
          Seats,   \* initial value of the semaphore (4 in the code)
          Food,    \* FOOD, initial value of food_on_table's static counter
          NoOne    \* owner of a free mutex

ASSUME ConstantsAssumption ==
    /\ N \in Nat /\ N >= 2
    /\ Seats \in 1..(N - 1)
    /\ Food \in Nat \ {0}
    /\ NoOne \notin 0..(N - 1)

Philosophers == 0..(N - 1)

VARIABLES food,       \* static counter of food_on_table
          foodlock,   \* owner of the mutex of that name, or NoOne
          semaphore,  \* value of the semaphore
          forks,      \* owner of each fork's mutex, or NoOne
          f,          \* local variable f: the dish in hand
          pc,         \* where each philosopher is
          created,    \* main: threads created so far
          joined,     \* main: threads joined so far
          destroyed   \* main: has the semaphore been destroyed?

main == <<created, joined, destroyed>>
vars == <<food, foodlock, semaphore, forks, f, pc, created, joined, destroyed>>

Init ==
    /\ food = Food
    /\ foodlock = NoOne
    /\ semaphore = Seats
    /\ forks = [k \in Philosophers |-> NoOne]
    /\ f = [p \in Philosophers |-> 0]
    /\ pc = [p \in Philosophers |-> "new"]
    /\ created = 0
    /\ joined = 0
    /\ destroyed = FALSE

right_fork(p) == p
left_fork(p) == IF p + 1 = N THEN 0 ELSE p + 1

Goto(p, from, to) == pc[p] = from /\ pc' = [pc EXCEPT ![p] = to]

-----------------------------------------------------------------------------
(* food_on_table() *)

(* Mutant: foodlock is not taken. *)
FoodLockForgotten(p) ==
    /\ Goto(p, "table", "decrement")
    /\ UNCHANGED <<food, foodlock, semaphore, forks, f, main>>

FoodLock(p) ==
    /\ Goto(p, "table", "decrement")
    /\ foodlock = NoOne
    /\ foodlock' = p
    /\ UNCHANGED <<food, semaphore, forks, f, main>>

(* Mutant: dish 1 is never used up. *)
FoodDecrementOffByOne(p) ==
    /\ Goto(p, "decrement", "read")
    /\ food' = IF food > 1 THEN food - 1 ELSE food
    /\ UNCHANGED <<foodlock, semaphore, forks, f, main>>

FoodDecrement(p) ==
    /\ Goto(p, "decrement", "read")
    /\ food' = IF food > 0 THEN food - 1 ELSE food
    /\ UNCHANGED <<foodlock, semaphore, forks, f, main>>

(* myfood = food, unlock, return; 0 ends the philosopher's loop.  The dish  *)
(* that takes the counter to 0 is therefore never eaten.                    *)
FoodRead(p) ==
    /\ Goto(p, "read", IF food = 0 THEN "done" ELSE "sit")
    /\ f' = [f EXCEPT ![p] = food]
    /\ foodlock' = NoOne
    /\ UNCHANGED <<food, semaphore, forks, main>>

-----------------------------------------------------------------------------
(* sem_wait(&semaphore) *)
Sit(p) ==
    /\ Goto(p, "sit", "right")
    /\ semaphore > 0
    /\ semaphore' = semaphore - 1
    /\ UNCHANGED <<food, foodlock, forks, f, main>>

(* get_fork, once for each hand *)
get_fork(p, k) == forks[k] = NoOne /\ forks' = [forks EXCEPT ![k] = p]

GetRight(p) ==
    /\ Goto(p, "right", "left")
    /\ get_fork(p, right_fork(p))
    /\ UNCHANGED <<food, foodlock, semaphore, f, main>>

GetLeft(p) ==
    /\ Goto(p, "left", "eat")
    /\ get_fork(p, left_fork(p))
    /\ UNCHANGED <<food, foodlock, semaphore, f, main>>

(* Mutant: the seat is given back twice. *)
EatPostsTwice(p) ==
    /\ Goto(p, "eat", "downLeft")
    /\ semaphore' = semaphore + 2
    /\ UNCHANGED <<food, foodlock, forks, f, main>>

(* The meal is over: down_forks posts the semaphore first, while both forks *)
(* are still held.                                                          *)
Eat(p) ==
    /\ Goto(p, "eat", "downLeft")
    /\ semaphore' = semaphore + 1
    /\ UNCHANGED <<food, foodlock, forks, f, main>>

DownLeft(p) ==
    /\ Goto(p, "downLeft", "downRight")
    /\ forks' = [forks EXCEPT ![left_fork(p)] = NoOne]
    /\ UNCHANGED <<food, foodlock, semaphore, f, main>>

(* Mutant: the left fork is put down twice. *)
DownRightLeft(p) ==
    /\ Goto(p, "downRight", "table")
    /\ forks' = [forks EXCEPT ![left_fork(p)] = NoOne]
    /\ UNCHANGED <<food, foodlock, semaphore, f, main>>

DownRight(p) ==
    /\ Goto(p, "downRight", "table")
    /\ forks' = [forks EXCEPT ![right_fork(p)] = NoOne]
    /\ UNCHANGED <<food, foodlock, semaphore, f, main>>

-----------------------------------------------------------------------------
(* main: create the philosophers in order, join them in order, destroy the  *)
(* semaphore.                                                               *)

Create ==
    /\ created < N
    /\ pc' = [pc EXCEPT ![created] = "table"]
    /\ created' = created + 1
    /\ UNCHANGED <<food, foodlock, semaphore, forks, f, joined, destroyed>>

Join ==
    /\ created = N
    /\ joined < N
    /\ pc[joined] = "done"
    /\ joined' = joined + 1
    /\ UNCHANGED <<food, foodlock, semaphore, forks, f, pc, created, destroyed>>

Destroy ==
    /\ joined = N
    /\ ~destroyed
    /\ destroyed' = TRUE
    /\ UNCHANGED <<food, foodlock, semaphore, forks, f, pc, created, joined>>

Philosopher(p) ==
    \/ FoodLock(p) \/ FoodDecrement(p) \/ FoodRead(p)
    \/ Sit(p) \/ GetRight(p) \/ GetLeft(p) \/ Eat(p)
    \/ DownLeft(p) \/ DownRight(p)

Main == Create \/ Join \/ Destroy

Terminated == destroyed /\ UNCHANGED vars

Next == (\E p \in Philosophers : Philosopher(p)) \/ Main \/ Terminated

Spec == Init /\ [][Next]_vars

(* Every thread that can run is eventually scheduled; neither the mutexes   *)
(* nor the semaphore are assumed to be fair to their waiters.               *)
LiveSpec ==
    /\ Spec
    /\ \A p \in Philosophers : WF_vars(Philosopher(p))
    /\ WF_vars(Main)

-----------------------------------------------------------------------------
AtTable == {"table", "decrement", "read"}
Admitted == {"right", "left", "eat"}            \* between sem_wait and sem_post
WithDish == {"sit", "right", "left", "eat"}     \* dish taken and not finished
WithRight == {"left", "eat", "downLeft", "downRight"}
WithLeft == {"eat", "downLeft"}

(* Does p hold fork k while he is at `place'? *)
Holds(p, k, place) == \/ k = right_fork(p) /\ place \in WithRight
                      \/ k = left_fork(p) /\ place \in WithLeft

At(places) == {p \in Philosophers : pc[p] \in places}

(* The variables stay in their types; the pile is never negative. *)
TypeOK ==
    /\ food \in 0..Food
    /\ foodlock \in Philosophers \cup {NoOne}
    /\ semaphore \in Nat
    /\ forks \in [Philosophers -> Philosophers \cup {NoOne}]
    /\ f \in [Philosophers -> 0..(Food - 1)]
    /\ pc \in [Philosophers -> AtTable \cup WithDish \cup WithRight \cup {"new", "done"}]
    /\ created \in 0..N /\ joined \in 0..N /\ destroyed \in BOOLEAN

(* Every fork belongs to exactly the philosopher whose place in the code    *)
(* says he holds it, on the way up and, one by one, on the way down: no     *)
(* fork is in two hands and no mutex is unlocked by another than its owner. *)
ForksHeld ==
    \A k, p \in Philosophers : forks[k] = p <=> Holds(p, k, pc[p])

(* The semaphore counts the seats that are free, although a seat is given   *)
(* back before the forks are: never more than Seats philosophers are        *)
(* between sem_wait and sem_post.                                           *)
SeatsBalance == semaphore + Cardinality(At(Admitted)) = Seats

(* No two philosophers have the same dish in hand, and none is also still   *)
(* on the table: foodlock makes the decrement and the read one.             *)
DishesInHand ==
    /\ \A p, q \in At(WithDish) : f[p] = f[q] => p = q
    /\ \A p \in At(WithDish) :
          /\ f[p] # 0 /\ f[p] >= food
          /\ At({"read"}) # {} => f[p] > food
    /\ At({"read"}) # {} => food < Food
    /\ \A p \in Philosophers : pc[p] \in {"decrement", "read"} <=> foodlock = p

(* The philosophers never all hold their right fork and wait for the left:  *)
(* the circle of waiting that the semaphore is there to prevent.            *)
NoCircularWait == \E p \in Philosophers : pc[p] # "left"

(* p does not wait for a lock or a seat somebody else has. *)
CanMove(p) ==
    /\ pc[p] \notin {"new", "done"}
    /\ pc[p] = "table" => foodlock = NoOne
    /\ pc[p] = "sit" => semaphore > 0
    /\ pc[p] = "right" => forks[right_fork(p)] = NoOne
    /\ pc[p] = "left" => forks[left_fork(p)] = NoOne

(* As long as a philosopher is at dinner, some philosopher can go on: the   *)
(* three kinds of lock never end up in a deadlock.                          *)
SomebodyCanMove ==
    (\E p \in Philosophers : pc[p] \notin {"new", "done"})
        => \E p \in Philosophers : CanMove(p)

(* The semaphore is destroyed only when no philosopher will use it again. *)
SemaphoreInUse ==
    /\ \A p \in Philosophers : pc[p] = "new" <=> p >= created
    /\ \A p \in Philosophers : p < joined => pc[p] = "done"
    /\ joined > 0 => created = N
    /\ destroyed => joined = N /\ \A p \in Philosophers : pc[p] = "done"

(* The dishes nobody has finished: still in the counter, just taken out of  *)
(* it by the philosopher who holds foodlock, or in hand.                    *)
Uneaten ==
    {d \in 1..(Food - 1) : \/ d < food
                           \/ d = food /\ At({"read"}) # {}
                           \/ \E p \in At(WithDish) : d = f[p]}

(* A philosopher leaves only when the pile is empty, so when all have left  *)
(* every dish but the one that is never served has been eaten.              *)
DinnerComplete ==
    /\ \A p \in Philosophers : pc[p] = "done" => food = 0
    /\ (\A p \in Philosophers : pc[p] = "done") => Uneaten = {}

IInv ==
    /\ TypeOK
    /\ ForksHeld
    /\ SeatsBalance
    /\ DishesInHand
    /\ SemaphoreInUse
    /\ DinnerComplete

(* Seen from the plates this is the dinner that Dinner describes: no dish   *)
(* eaten twice, no two neighbours eating at once.                           *)
Plates == INSTANCE Dinner WITH
    eating <- [p \in Philosophers |-> IF pc[p] = "eat" THEN f[p] ELSE 0],
    uneaten <- Uneaten
DinnerServed == Plates!Spec

(* The dinner ends: main joins all philosophers and every dish is eaten. *)
DinnerEnds == <>(destroyed /\ Uneaten = {})

=============================================================================
