------------------------ MODULE Philosophers_proofs -------------------------
(***************************************************************************)
(* The dinner of lab9 for any number of philosophers, seats and dishes:    *)
(* IInv is inductive, no deadlock is reachable, and what happens is a      *)
(* behaviour of Dinner.                                                    *)
(***************************************************************************)
EXTENDS Philosophers, FiniteSetTheorems, WellFoundedInduction, TLAPS

(* What is known of the numbers. *)
LEMMA Numbers ==
  /\ N \in Nat /\ N >= 2 /\ Seats \in Nat /\ Seats < N
  /\ Food \in Nat /\ Food > 0 /\ NoOne \notin Philosophers
  /\ \A p \in Philosophers : p \in Int /\ 0 <= p /\ p < N
BY ConstantsAssumption DEF Philosophers

(* The two forks of a philosopher are different, and the left fork of one   *)
(* is the right fork of the next.                                           *)
LEMMA Forks ==
  ASSUME NEW p \in Philosophers
  PROVE  /\ right_fork(p) \in Philosophers /\ left_fork(p) \in Philosophers
         /\ right_fork(p) = p /\ left_fork(p) # p
         /\ \A q \in Philosophers : left_fork(q) = left_fork(p) => q = p
BY ConstantsAssumption DEF Philosophers, right_fork, left_fork

-----------------------------------------------------------------------------
(* Every step leaves the variables in their types. *)
LEMMA TypeStep ==
  ASSUME TypeOK, DishesInHand, Next
  PROVE  TypeOK'
<1> USE Numbers, Forks DEF TypeOK, Goto, main, AtTable, WithDish, WithRight
<1>1. ASSUME NEW p \in Philosophers, FoodLock(p) PROVE TypeOK'
  BY <1>1 DEF FoodLock
<1>2. ASSUME NEW p \in Philosophers, FoodDecrement(p) PROVE TypeOK'
  BY <1>2 DEF FoodDecrement
<1>3. ASSUME NEW p \in Philosophers, FoodRead(p) PROVE TypeOK'
  <2>1. p \in At({"read"})
    BY <1>3 DEF FoodRead, At
  <2>2. food \in 0..(Food - 1)
    BY <2>1 DEF DishesInHand
  <2> QED BY <1>3, <2>2 DEF FoodRead
<1>4. ASSUME NEW p \in Philosophers, Sit(p) PROVE TypeOK'
  BY <1>4 DEF Sit
<1>5. ASSUME NEW p \in Philosophers, GetRight(p) PROVE TypeOK'
  BY <1>5 DEF GetRight, get_fork
<1>6. ASSUME NEW p \in Philosophers, GetLeft(p) PROVE TypeOK'
  BY <1>6 DEF GetLeft, get_fork
<1>7. ASSUME NEW p \in Philosophers, Eat(p) PROVE TypeOK'
  BY <1>7 DEF Eat
<1>8. ASSUME NEW p \in Philosophers, DownLeft(p) PROVE TypeOK'
  BY <1>8 DEF DownLeft
<1>9. ASSUME NEW p \in Philosophers, DownRight(p) PROVE TypeOK'
  BY <1>9 DEF DownRight
<1>10. CASE Create
  BY <1>10 DEF Create, Philosophers
<1>11. CASE Join
  BY <1>11 DEF Join
<1>12. CASE Destroy
  BY <1>12 DEF Destroy
<1>13. CASE Terminated
  BY <1>13 DEF Terminated, vars
<1> QED BY <1>1, <1>2, <1>3, <1>4, <1>5, <1>6, <1>7, <1>8, <1>9, <1>10, <1>11,
           <1>12, <1>13 DEF Next, Philosopher, Main

(* The thread that Create starts has not run yet. *)
LEMMA CreateFacts ==
  ASSUME TypeOK, SemaphoreInUse, Create
  PROVE  created \in Philosophers /\ pc[created] = "new"
<1>1. created \in Philosophers
  BY Numbers DEF Create, TypeOK, Philosophers
<1> QED BY <1>1, Numbers DEF SemaphoreInUse

-----------------------------------------------------------------------------
(* The forks. *)

(* A step that takes or puts down no fork. *)
LEMMA ForksKept ==
  ASSUME TypeOK, ForksHeld, NEW p \in Philosophers, NEW to, pc' = [pc EXCEPT ![p] = to],
         pc[p] \in WithRight <=> to \in WithRight,
         pc[p] \in WithLeft <=> to \in WithLeft,
         forks' = forks
  PROVE  ForksHeld'
<1>1. \A q \in Philosophers : pc'[q] = IF q = p THEN to ELSE pc[q]
  BY DEF TypeOK
<1> QED BY <1>1 DEF ForksHeld, Holds

(* Moving to `to' makes p the holder of fork k too, or of k no longer. *)
Gains(p, k, to) ==
  \A h \in Philosophers : Holds(p, h, to) <=> (h = k \/ Holds(p, h, pc[p]))
Loses(p, k, to) ==
  \A h \in Philosophers : Holds(p, h, to) <=> (h # k /\ Holds(p, h, pc[p]))

(* A philosopher takes a free fork. *)
LEMMA ForkTaken ==
  ASSUME TypeOK, ForksHeld, NEW p \in Philosophers, NEW to, pc' = [pc EXCEPT ![p] = to],
         NEW k \in Philosophers, get_fork(p, k), Gains(p, k, to)
  PROVE  ForksHeld'
<1>1. \A q \in Philosophers : pc'[q] = IF q = p THEN to ELSE pc[q]
  BY DEF TypeOK
<1>2. \A h \in Philosophers : forks'[h] = IF h = k THEN p ELSE forks[h]
  BY DEF TypeOK, get_fork
<1>3. \A q \in Philosophers : forks[k] # q
  BY Numbers DEF get_fork
<1> QED BY <1>1, <1>2, <1>3 DEF ForksHeld, Gains

(* A philosopher puts down a fork he holds. *)
LEMMA ForkPutDown ==
  ASSUME TypeOK, ForksHeld, NEW p \in Philosophers, NEW to, pc' = [pc EXCEPT ![p] = to],
         NEW k \in Philosophers, forks' = [forks EXCEPT ![k] = NoOne],
         forks[k] = p, Loses(p, k, to)
  PROVE  ForksHeld'
<1>1. \A q \in Philosophers : pc'[q] = IF q = p THEN to ELSE pc[q]
  BY DEF TypeOK
<1>2. \A h \in Philosophers : forks'[h] = IF h = k THEN NoOne ELSE forks[h]
  BY DEF TypeOK
<1> QED BY <1>1, <1>2, Numbers DEF ForksHeld, Loses

(* Every step leaves each fork with the philosopher whose place says so. *)
LEMMA ForksStep ==
  ASSUME TypeOK, SemaphoreInUse, ForksHeld, Next
  PROVE  ForksHeld'
<1> USE Forks DEF Goto, main, WithRight, WithLeft
<1>1. ASSUME NEW p \in Philosophers, FoodLock(p) PROVE ForksHeld'
  BY <1>1, ForksKept DEF FoodLock
<1>2. ASSUME NEW p \in Philosophers, FoodDecrement(p) PROVE ForksHeld'
  BY <1>2, ForksKept DEF FoodDecrement
<1>3. ASSUME NEW p \in Philosophers, FoodRead(p) PROVE ForksHeld'
  BY <1>3, ForksKept DEF FoodRead
<1>4. ASSUME NEW p \in Philosophers, Sit(p) PROVE ForksHeld'
  BY <1>4, ForksKept DEF Sit
<1>5. ASSUME NEW p \in Philosophers, GetRight(p) PROVE ForksHeld'
  <2>1. Gains(p, right_fork(p), "left")
    BY <1>5 DEF GetRight, Gains, Holds
  <2> QED BY <1>5, <2>1, ForkTaken DEF GetRight
<1>6. ASSUME NEW p \in Philosophers, GetLeft(p) PROVE ForksHeld'
  <2>1. Gains(p, left_fork(p), "eat")
    BY <1>6 DEF GetLeft, Gains, Holds
  <2> QED BY <1>6, <2>1, ForkTaken DEF GetLeft
<1>7. ASSUME NEW p \in Philosophers, Eat(p) PROVE ForksHeld'
  BY <1>7, ForksKept DEF Eat
<1>8. ASSUME NEW p \in Philosophers, DownLeft(p) PROVE ForksHeld'
  <2>1. forks[left_fork(p)] = p
    BY <1>8 DEF DownLeft, ForksHeld, Holds
  <2>2. Loses(p, left_fork(p), "downRight")
    BY <1>8 DEF DownLeft, Loses, Holds
  <2> QED BY <1>8, <2>1, <2>2, ForkPutDown DEF DownLeft
<1>9. ASSUME NEW p \in Philosophers, DownRight(p) PROVE ForksHeld'
  <2>1. forks[right_fork(p)] = p
    BY <1>9 DEF DownRight, ForksHeld, Holds
  <2>2. Loses(p, right_fork(p), "table")
    BY <1>9 DEF DownRight, Loses, Holds
  <2> QED BY <1>9, <2>1, <2>2, ForkPutDown DEF DownRight
<1>10. CASE Create
  <2>1. created \in Philosophers /\ pc[created] = "new"
    BY <1>10, CreateFacts
  <2>3. pc' = [pc EXCEPT ![created] = "table"] /\ forks' = forks
    BY <1>10 DEF Create
  <2> HIDE DEF WithRight, WithLeft
  <2>4. /\ pc[created] \in WithRight <=> "table" \in WithRight
        /\ pc[created] \in WithLeft <=> "table" \in WithLeft
    BY <2>1 DEF WithRight, WithLeft
  <2> QED BY <2>1, <2>3, <2>4, ForksKept
<1>11. CASE Join \/ Destroy \/ Terminated
  BY <1>11 DEF Join, Destroy, Terminated, vars, ForksHeld
<1> QED BY <1>1, <1>2, <1>3, <1>4, <1>5, <1>6, <1>7, <1>8, <1>9, <1>10, <1>11
        DEF Next, Philosopher, Main

-----------------------------------------------------------------------------
(* The seats. *)

(* How the number of admitted philosophers changes when p moves to `to'. *)
Counted(p, to) ==
  /\ Cardinality(At(Admitted)) \in Nat
  /\ pc[p] \notin Admitted /\ to \in Admitted =>
       Cardinality(At(Admitted)') = Cardinality(At(Admitted)) + 1
  /\ pc[p] \in Admitted /\ to \notin Admitted =>
       Cardinality(At(Admitted)') = Cardinality(At(Admitted)) - 1
  /\ (pc[p] \in Admitted <=> to \in Admitted) =>
       Cardinality(At(Admitted)') = Cardinality(At(Admitted))

(* Counted holds of every move. *)
LEMMA AdmittedStep ==
  ASSUME TypeOK, NEW p \in Philosophers, NEW to, pc' = [pc EXCEPT ![p] = to]
  PROVE  Counted(p, to)
<1> DEFINE before == At(Admitted)
           after  == At(Admitted)'
<1>1. \A q \in Philosophers : pc'[q] = IF q = p THEN to ELSE pc[q]
  BY DEF TypeOK
<1>2. /\ p \in before <=> pc[p] \in Admitted
      /\ p \in after <=> to \in Admitted
  BY <1>1 DEF At
<1>3. /\ p \in before => after = before \/ after = before \ {p}
      /\ p \notin before => after = before \/ after = before \cup {p}
      /\ (p \in before <=> p \in after) => after = before
  BY <1>1 DEF At
<1>4. IsFiniteSet(before)
  <2>1. IsFiniteSet(Philosophers)
    BY ConstantsAssumption, FS_Interval DEF Philosophers
  <2>2. before \subseteq Philosophers
    BY DEF At
  <2> QED BY <2>1, <2>2, FS_Subset
<1> HIDE DEF before, after
<1>5. Cardinality(before) \in Nat
  BY <1>4, FS_CardinalityType
<1>6. /\ p \notin before => Cardinality(before \cup {p}) = Cardinality(before) + 1
      /\ p \in before => Cardinality(before \ {p}) = Cardinality(before) - 1
  BY <1>4, FS_AddElement, FS_RemoveElement
<1>7. /\ p \notin before /\ p \in after => after = before \cup {p}
      /\ p \in before /\ p \notin after => after = before \ {p}
  BY <1>3
<1>8. /\ p \notin before /\ p \in after => Cardinality(after) = Cardinality(before) + 1
      /\ p \in before /\ p \notin after => Cardinality(after) = Cardinality(before) - 1
      /\ (p \in before <=> p \in after) => Cardinality(after) = Cardinality(before)
  BY <1>3, <1>6, <1>7
<1> QED BY <1>2, <1>5, <1>8 DEF before, after, Counted

(* Every step keeps the semaphore and the admitted philosophers balanced. *)
LEMMA SeatsStep ==
  ASSUME TypeOK, SemaphoreInUse, SeatsBalance, Next
  PROVE  SeatsBalance'
<1> DEFINE n == Cardinality(At(Admitted))
<1>a. semaphore \in Nat /\ Seats \in Nat
  BY Numbers DEF TypeOK
<1>b. semaphore + n = Seats
  BY DEF SeatsBalance
(* A move that crosses neither sem_wait nor sem_post. *)
<1>c. ASSUME NEW p \in Philosophers, NEW to, pc' = [pc EXCEPT ![p] = to],
             pc[p] \in Admitted <=> to \in Admitted, semaphore' = semaphore
      PROVE  SeatsBalance'
  <2>1. Counted(p, to)
    BY <1>c, AdmittedStep
  <2>2. n' = n
    BY <1>c, <2>1 DEF Counted
  <2> QED BY <1>b, <1>c, <2>2 DEF SeatsBalance
<1>1. ASSUME NEW p \in Philosophers, FoodLock(p) PROVE SeatsBalance'
  BY <1>1, <1>c DEF FoodLock, Goto, Admitted
<1>2. ASSUME NEW p \in Philosophers, FoodDecrement(p) PROVE SeatsBalance'
  BY <1>2, <1>c DEF FoodDecrement, Goto, Admitted
<1>3. ASSUME NEW p \in Philosophers, FoodRead(p) PROVE SeatsBalance'
  BY <1>3, <1>c DEF FoodRead, Goto, Admitted
<1>4. ASSUME NEW p \in Philosophers, GetRight(p) PROVE SeatsBalance'
  BY <1>4, <1>c DEF GetRight, Goto, Admitted
<1>5. ASSUME NEW p \in Philosophers, GetLeft(p) PROVE SeatsBalance'
  BY <1>5, <1>c DEF GetLeft, Goto, Admitted
<1>6. ASSUME NEW p \in Philosophers, DownLeft(p) PROVE SeatsBalance'
  BY <1>6, <1>c DEF DownLeft, Goto, Admitted
<1>7. ASSUME NEW p \in Philosophers, DownRight(p) PROVE SeatsBalance'
  BY <1>7, <1>c DEF DownRight, Goto, Admitted
<1>8. ASSUME NEW p \in Philosophers, Sit(p) PROVE SeatsBalance'
  <2>1. Counted(p, "right")
    BY <1>8, AdmittedStep DEF Sit, Goto
  <2>2. n \in Nat /\ n' = n + 1
    BY <1>8, <2>1 DEF Counted, Sit, Goto, Admitted
  <2>3. semaphore' = semaphore - 1
    BY <1>8 DEF Sit
  <2> QED BY <1>a, <1>b, <2>2, <2>3 DEF SeatsBalance
<1>9. ASSUME NEW p \in Philosophers, Eat(p) PROVE SeatsBalance'
  <2>1. Counted(p, "downLeft")
    BY <1>9, AdmittedStep DEF Eat, Goto
  <2>2. n \in Nat /\ n' = n - 1
    BY <1>9, <2>1 DEF Counted, Eat, Goto, Admitted
  <2>3. semaphore' = semaphore + 1
    BY <1>9 DEF Eat
  <2> QED BY <1>a, <1>b, <2>2, <2>3 DEF SeatsBalance
<1>10. CASE Create
  BY <1>10, <1>c, CreateFacts DEF Create, Admitted
<1>11. CASE Join \/ Destroy \/ Terminated
  BY <1>11 DEF Join, Destroy, Terminated, vars, SeatsBalance, At
<1> QED BY <1>1, <1>2, <1>3, <1>4, <1>5, <1>6, <1>7, <1>8, <1>9, <1>10, <1>11
        DEF Next, Philosopher, Main

-----------------------------------------------------------------------------
(* The dishes. *)

(* A move outside food_on_table that does not bring a dish into hand. *)
LEMMA DishesKept ==
  ASSUME TypeOK, DishesInHand, NEW p \in Philosophers, NEW to, pc' = [pc EXCEPT ![p] = to],
         to \in WithDish => pc[p] \in WithDish,
         pc[p] \notin {"decrement", "read"}, to \notin {"decrement", "read"},
         UNCHANGED <<food, f, foodlock>>
  PROVE  DishesInHand'
<1>1. \A q \in Philosophers : pc'[q] = IF q = p THEN to ELSE pc[q]
  BY DEF TypeOK
<1>2. At(WithDish)' \subseteq At(WithDish)
  BY <1>1 DEF At
<1>3. At({"read"})' = At({"read"})
  BY <1>1 DEF At
<1>4. \A q \in Philosophers : pc'[q] \in {"decrement", "read"} <=> foodlock' = q
  BY <1>1 DEF DishesInHand
<1> QED BY <1>2, <1>3, <1>4 DEF DishesInHand

(* Every step keeps the dishes in hand apart from each other and from those *)
(* still on the table.                                                      *)
LEMMA DishesStep ==
  ASSUME TypeOK, SemaphoreInUse, DishesInHand, Next
  PROVE  DishesInHand'
<1>a. food \in Int /\ \A q \in Philosophers : f[q] \in Int /\ f[q] >= 0
  BY Numbers DEF TypeOK
<1>1. ASSUME NEW p \in Philosophers, FoodLock(p) PROVE DishesInHand'
  <2>1. \A q \in Philosophers : pc'[q] = IF q = p THEN "decrement" ELSE pc[q]
    BY <1>1 DEF FoodLock, Goto, TypeOK
  <2>2. pc[p] = "table" /\ foodlock = NoOne /\ foodlock' = p /\ food' = food /\ f' = f
    BY <1>1 DEF FoodLock, Goto
  <2>3. At(WithDish)' = At(WithDish) /\ At({"read"})' = At({"read"})
    BY <2>1, <2>2 DEF At, WithDish
  <2>4. \A q \in Philosophers : pc'[q] \in {"decrement", "read"} <=> foodlock' = q
    BY <2>1, <2>2, Numbers DEF DishesInHand
  <2> QED BY <2>2, <2>3, <2>4 DEF DishesInHand
<1>2. ASSUME NEW p \in Philosophers, FoodDecrement(p) PROVE DishesInHand'
  <2>1. \A q \in Philosophers : pc'[q] = IF q = p THEN "read" ELSE pc[q]
    BY <1>2 DEF FoodDecrement, Goto, TypeOK
  <2>2. /\ pc[p] = "decrement" /\ foodlock' = foodlock /\ f' = f
        /\ food' = IF food > 0 THEN food - 1 ELSE food
    BY <1>2 DEF FoodDecrement, Goto
  <2>3. At(WithDish)' = At(WithDish)
    BY <2>1, <2>2 DEF At, WithDish
  <2>4. \A q \in Philosophers : pc'[q] \in {"decrement", "read"} <=> foodlock' = q
    BY <2>1, <2>2 DEF DishesInHand
  <2>5. \A q \in At(WithDish) : f[q] > food'
    BY <1>a, <2>2 DEF DishesInHand, At
  <2>6. \A q \in At(WithDish) : f'[q] # 0 /\ f'[q] >= food' /\ f'[q] > food'
    BY <1>a, <2>2, <2>5 DEF DishesInHand, At
  <2>7. food' < Food
    BY <2>2, Numbers DEF TypeOK
  <2> QED BY <2>2, <2>3, <2>4, <2>6, <2>7 DEF DishesInHand
<1>3. ASSUME NEW p \in Philosophers, FoodRead(p) PROVE DishesInHand'
  <2> DEFINE to == IF food = 0 THEN "done" ELSE "sit"
  <2>1. \A q \in Philosophers : /\ pc'[q] = (IF q = p THEN to ELSE pc[q])
                                 /\ f'[q] = (IF q = p THEN food ELSE f[q])
    BY <1>3 DEF FoodRead, Goto, TypeOK
  <2>2. pc[p] = "read" /\ foodlock' = NoOne /\ food' = food
    BY <1>3 DEF FoodRead, Goto
  <2>3. \A q \in Philosophers : pc[q] \in {"decrement", "read"} <=> q = p
    BY <2>2 DEF DishesInHand
  <2>4. At({"read"})' = {}
    BY <2>1, <2>3 DEF At
  <2>5. \A q \in At(WithDish) : f[q] > food /\ q # p
    BY <2>2 DEF DishesInHand, At, WithDish
  <2>6. \A q \in At(WithDish)' : q = p \/ q \in At(WithDish)
    BY <2>1 DEF At
  <2>7. p \in At(WithDish)' => food # 0
    BY <2>1 DEF At, WithDish
  <2>8. \A q \in At(WithDish)' : f'[q] # 0 /\ f'[q] >= food'
    BY <1>a, <2>1, <2>2, <2>5, <2>6, <2>7 DEF DishesInHand, At
  <2>9. \A q, r \in At(WithDish)' : f'[q] = f'[r] => q = r
    BY <1>a, <2>1, <2>5, <2>6 DEF DishesInHand, At
  <2>10. \A q \in Philosophers : pc'[q] \in {"decrement", "read"} <=> foodlock' = q
    BY <2>1, <2>2, <2>3, Numbers
  <2> QED BY <2>4, <2>8, <2>9, <2>10 DEF DishesInHand
<1>4. ASSUME NEW p \in Philosophers, Sit(p) PROVE DishesInHand'
  BY <1>4, DishesKept DEF Sit, Goto, WithDish
<1>5. ASSUME NEW p \in Philosophers, GetRight(p) PROVE DishesInHand'
  BY <1>5, DishesKept DEF GetRight, Goto, WithDish
<1>6. ASSUME NEW p \in Philosophers, GetLeft(p) PROVE DishesInHand'
  BY <1>6, DishesKept DEF GetLeft, Goto, WithDish
<1>7. ASSUME NEW p \in Philosophers, Eat(p) PROVE DishesInHand'
  BY <1>7, DishesKept DEF Eat, Goto, WithDish
<1>8. ASSUME NEW p \in Philosophers, DownLeft(p) PROVE DishesInHand'
  BY <1>8, DishesKept DEF DownLeft, Goto, WithDish
<1>9. ASSUME NEW p \in Philosophers, DownRight(p) PROVE DishesInHand'
  BY <1>9, DishesKept DEF DownRight, Goto, WithDish
<1>10. CASE Create
  BY <1>10, CreateFacts, DishesKept DEF Create, WithDish
<1>11. CASE Join \/ Destroy \/ Terminated
  BY <1>11 DEF Join, Destroy, Terminated, vars, DishesInHand, At
<1> QED BY <1>1, <1>2, <1>3, <1>4, <1>5, <1>6, <1>7, <1>8, <1>9, <1>10, <1>11
        DEF Next, Philosopher, Main

-----------------------------------------------------------------------------
(* main and the end of the dinner. *)

(* A philosopher that moves was created, is not done, and has `new' behind him. *)
LEMMA MoveFacts ==
  ASSUME TypeOK, NEW p \in Philosophers, Philosopher(p)
  PROVE  /\ pc[p] \notin {"new", "done"} /\ pc'[p] # "new"
         /\ pc'[p] = "done" => food' = 0
         /\ \A q \in Philosophers : q # p => pc'[q] = pc[q]
         /\ food = 0 => food' = 0
         /\ UNCHANGED main
<1> USE DEF TypeOK, Goto, main
<1>1. CASE FoodLock(p)       BY <1>1 DEF FoodLock
<1>2. CASE FoodDecrement(p)  BY <1>2 DEF FoodDecrement
<1>3. CASE FoodRead(p)       BY <1>3 DEF FoodRead
<1>4. CASE Sit(p)            BY <1>4 DEF Sit
<1>5. CASE GetRight(p)       BY <1>5 DEF GetRight
<1>6. CASE GetLeft(p)        BY <1>6 DEF GetLeft
<1>7. CASE Eat(p)            BY <1>7 DEF Eat
<1>8. CASE DownLeft(p)       BY <1>8 DEF DownLeft
<1>9. CASE DownRight(p)      BY <1>9 DEF DownRight
<1> QED BY <1>1, <1>2, <1>3, <1>4, <1>5, <1>6, <1>7, <1>8, <1>9 DEF Philosopher

(* Every step keeps main behind the philosophers it waits for. *)
LEMMA SemaphoreInUseStep ==
  ASSUME TypeOK, SemaphoreInUse, Next
  PROVE  SemaphoreInUse'
<1>a. created \in 0..N /\ joined \in 0..N
  BY DEF TypeOK
<1>1. ASSUME NEW p \in Philosophers, Philosopher(p) PROVE SemaphoreInUse'
  BY <1>1, MoveFacts DEF SemaphoreInUse, main
<1>2. CASE Create
  <2>1. created \in Philosophers /\ pc[created] = "new"
    BY <1>2, CreateFacts
  <2>2. /\ \A q \in Philosophers : pc'[q] = IF q = created THEN "table" ELSE pc[q]
        /\ created' = created + 1 /\ joined' = joined /\ destroyed' = destroyed
    BY <1>2 DEF Create, TypeOK
  <2>3. joined = 0 /\ created < N
    BY <1>2, <1>a, Numbers DEF Create, SemaphoreInUse
  <2> QED BY <1>a, <2>1, <2>2, <2>3, Numbers DEF SemaphoreInUse
<1>3. CASE Join
  BY <1>3, <1>a, Numbers DEF Join, SemaphoreInUse
<1>4. CASE Destroy
  BY <1>4, <1>a, Numbers DEF Destroy, SemaphoreInUse
<1>5. CASE Terminated
  BY <1>5 DEF Terminated, vars, SemaphoreInUse
<1> QED BY <1>1, <1>2, <1>3, <1>4, <1>5 DEF Next, Main

(* Whoever has left, left an empty table: when all have, nothing is left. *)
LEMMA DinnerStep ==
  ASSUME TypeOK, SemaphoreInUse, DinnerComplete, Next
  PROVE  DinnerComplete'
<1>1. \A q \in Philosophers : pc'[q] = "done" => food' = 0
  <2>1. ASSUME NEW p \in Philosophers, Philosopher(p), NEW q \in Philosophers, pc'[q] = "done"
        PROVE  food' = 0
    BY <2>1, MoveFacts DEF DinnerComplete
  <2>2. CASE Create
    BY <2>2, CreateFacts DEF Create, TypeOK, DinnerComplete
  <2>3. CASE Join \/ Destroy \/ Terminated
    BY <2>3 DEF Join, Destroy, Terminated, vars, DinnerComplete
  <2> QED BY <2>1, <2>2, <2>3 DEF Next, Main
<1>2. ASSUME \A q \in Philosophers : pc'[q] = "done" PROVE Uneaten' = {}
  <2>1. food' = 0
    BY <1>1, <1>2, Numbers DEF Philosophers
  <2>2. At(WithDish)' = {}
    BY <1>2 DEF At, WithDish
  <2> QED BY <2>1, <2>2, Numbers DEF Uneaten
<1> QED BY <1>1, <1>2 DEF DinnerComplete

-----------------------------------------------------------------------------
(* The initial state satisfies the invariant ... *)
LEMMA Initially == Init => IInv
<1> SUFFICES ASSUME Init PROVE IInv
  OBVIOUS
<1> USE Numbers DEF Init
<1>1. TypeOK
  <2>1. food \in 0..Food /\ created \in 0..N /\ joined \in 0..N
    OBVIOUS
  <2>2. f \in [Philosophers -> 0..(Food - 1)]
    OBVIOUS
  <2>3. pc \in [Philosophers -> AtTable \cup WithDish \cup WithRight \cup {"new", "done"}]
    OBVIOUS
  <2> QED BY <2>1, <2>2, <2>3 DEF TypeOK
<1>2. ForksHeld
  BY DEF ForksHeld, Holds, WithRight, WithLeft
<1>3. SeatsBalance
  <2>1. At(Admitted) = {}
    BY DEF At, Admitted
  <2> QED BY <2>1, FS_EmptySet DEF SeatsBalance
<1>4. DishesInHand
  BY DEF DishesInHand, At, WithDish
<1>5. SemaphoreInUse
  BY DEF SemaphoreInUse
<1>6. DinnerComplete
  <2>1. 0 \in Philosophers /\ \A p \in Philosophers : pc[p] # "done"
    BY DEF Philosophers
  <2> QED BY <2>1 DEF DinnerComplete
<1> QED BY <1>1, <1>2, <1>3, <1>4, <1>5, <1>6 DEF IInv

(* ... and every step preserves it. *)
LEMMA Inductive == IInv /\ [Next]_vars => IInv'
<1> SUFFICES ASSUME IInv, [Next]_vars PROVE IInv'
  OBVIOUS
<1>1. CASE Next
  <2>1. /\ TypeOK /\ ForksHeld /\ SeatsBalance /\ DishesInHand /\ SemaphoreInUse
        /\ DinnerComplete
    BY DEF IInv
  <2> QED BY <1>1, <2>1, TypeStep, ForksStep, SeatsStep, DishesStep, SemaphoreInUseStep,
             DinnerStep DEF IInv
<1>2. CASE UNCHANGED vars
  BY <1>2 DEF vars, IInv, TypeOK, ForksHeld, SeatsBalance, DishesInHand, SemaphoreInUse,
     DinnerComplete, Uneaten, At
<1> QED BY <1>1, <1>2

(* The dinner's invariant, for every number of philosophers, seats and dishes. *)
THEOREM Invariance == Spec => []IInv
BY Initially, Inductive, PTL DEF Spec

-----------------------------------------------------------------------------
(* ... from which the properties of the runs follow. *)

(* Every variable stays in its type; the counter of dishes is never negative. *)
THEOREM TypeCorrectness == Spec => []TypeOK
<1>1. IInv => TypeOK
  BY DEF IInv
<1> QED BY <1>1, Invariance, PTL

(* No fork is in two hands, and only its owner unlocks a fork's mutex. *)
THEOREM ForkExclusion == Spec => []ForksHeld
<1>1. IInv => ForksHeld
  BY DEF IInv
<1> QED BY <1>1, Invariance, PTL

(* Never more than Seats philosophers are between sem_wait and sem_post. *)
THEOREM SeatsConserved == Spec => []SeatsBalance
<1>1. IInv => SeatsBalance
  BY DEF IInv
<1> QED BY <1>1, Invariance, PTL

(* No dish is served twice. *)
THEOREM DishesApart == Spec => []DishesInHand
<1>1. IInv => DishesInHand
  BY DEF IInv
<1> QED BY <1>1, Invariance, PTL

(* main destroys the semaphore after its last use. *)
THEOREM DestroyedLast == Spec => []SemaphoreInUse
<1>1. IInv => SemaphoreInUse
  BY DEF IInv
<1> QED BY <1>1, Invariance, PTL

(* When all have left, every dish that is ever served has been eaten. *)
THEOREM CompleteDinner == Spec => []DinnerComplete
<1>1. IInv => DinnerComplete
  BY DEF IInv
<1> QED BY <1>1, Invariance, PTL

(* With fewer seats than forks somebody is always not waiting for a left fork. *)
LEMMA NotAllAtLeft == TypeOK /\ SeatsBalance => NoCircularWait
<1> SUFFICES ASSUME TypeOK, SeatsBalance, \A p \in Philosophers : pc[p] = "left"
             PROVE  FALSE
  BY DEF NoCircularWait
<1>1. At(Admitted) = Philosophers
  BY DEF At, Admitted
<1>2. Cardinality(Philosophers) = N
  <2>1. Cardinality(0..(N - 1)) = IF 0 > N - 1 THEN 0 ELSE (N - 1) - 0 + 1
    BY Numbers, FS_Interval
  <2> QED BY <2>1, Numbers DEF Philosophers
<1>3. semaphore \in Nat /\ semaphore + N = Seats
  BY <1>1, <1>2 DEF SeatsBalance, TypeOK
<1> QED BY <1>3, Numbers

(* The circle of philosophers who hold a right fork and wait never closes. *)
THEOREM NoCircle == Spec => []NoCircularWait
<1>1. IInv => NoCircularWait
  BY NotAllAtLeft DEF IInv
<1> QED BY <1>1, Invariance, PTL

-----------------------------------------------------------------------------
(* Freedom from deadlock. *)

(* A set of philosophers that is not empty and holds everybody's left       *)
(* neighbour holds everybody: go round the table from a least absentee.     *)
LEMMA RoundTheTable ==
  ASSUME NEW S \in SUBSET Philosophers, S # {},
         \A p \in S : left_fork(p) \in S
  PROVE  S = Philosophers
<1> USE Numbers
<1>1. ASSUME NEW m \in Philosophers, m \in S
      PROVE  \A q \in Philosophers : m <= q => q \in S
  <2> DEFINE absent == {q \in Philosophers : m <= q /\ q \notin S}
  <2> SUFFICES ASSUME absent # {} PROVE FALSE
    OBVIOUS
  <2>1. absent \subseteq Nat
    BY DEF Philosophers
  <2>2. PICK q \in absent : \A r \in absent : ~ (<<r, q>> \in OpToRel(<, Nat))
    BY <2>1, NatLessThanWellFounded, WFMin
  <2>3. q \in Philosophers /\ m <= q /\ q \notin S /\ q # m
    BY <1>1
  <2>4. q - 1 \in Philosophers /\ m <= q - 1 /\ left_fork(q - 1) = q
    BY <2>3 DEF Philosophers, left_fork
  <2>5. q - 1 \notin S
    BY <2>3, <2>4
  <2>6. <<q - 1, q>> \in OpToRel(<, Nat)
    BY <2>3, <2>4 DEF OpToRel, Philosophers
  <2> QED BY <2>2, <2>4, <2>5, <2>6
<1>2. PICK m \in S : TRUE
  OBVIOUS
<1>3. N - 1 \in Philosophers /\ N - 1 \in S
  BY <1>1, <1>2 DEF Philosophers
<1>4. 0 \in Philosophers /\ 0 \in S
  BY <1>3 DEF left_fork, Philosophers
<1> QED BY <1>1, <1>4

(* Who waits at which lock, when nobody can go on. *)
LEMMA SomebodyCan == IInv => SomebodyCanMove
<1> SUFFICES ASSUME IInv, NEW p0 \in Philosophers, pc[p0] \notin {"new", "done"},
                    \A p \in Philosophers : ~ CanMove(p)
             PROVE  FALSE
  BY DEF SomebodyCanMove
<1>1. TypeOK /\ ForksHeld /\ SeatsBalance /\ DishesInHand
  BY DEF IInv
<1>2. \A p \in Philosophers :
         pc[p] \in {"new", "done", "table", "sit", "right", "left"}
  BY <1>1 DEF CanMove, TypeOK, AtTable, WithDish, WithRight
(* foodlock is free, so nobody waits for it. *)
<1>3. \A p \in Philosophers : pc[p] # "table"
  <2>1. foodlock = NoOne
    BY <1>1, <1>2 DEF DishesInHand, TypeOK
  <2> QED BY <2>1 DEF CanMove
(* Nobody holds a left fork, and who holds a right fork waits for a left. *)
<1>4. \A k, p \in Philosophers : forks[k] = p => k = p /\ pc[p] = "left"
  BY <1>1, <1>2, Forks DEF ForksHeld, Holds, WithRight, WithLeft
<1>5. \A p \in Philosophers : pc[p] # "right"
  <2> SUFFICES ASSUME NEW p \in Philosophers, pc[p] = "right" PROVE FALSE
    OBVIOUS
  <2>1. forks[p] \in Philosophers
    BY <1>1, Forks DEF CanMove, TypeOK
  <2> QED BY <2>1, <1>4
<1>6. \A p \in Philosophers : pc[p] = "left" => pc[left_fork(p)] = "left"
  <2> SUFFICES ASSUME NEW p \in Philosophers, pc[p] = "left"
               PROVE  pc[left_fork(p)] = "left"
    OBVIOUS
  <2>1. left_fork(p) \in Philosophers /\ forks[left_fork(p)] \in Philosophers
    BY <1>1, Forks DEF CanMove, TypeOK
  <2> QED BY <2>1, <1>4
(* If nobody waits for a left fork nobody is admitted: then a seat is free. *)
<1>7. \E p \in Philosophers : pc[p] = "left"
  <2> SUFFICES ASSUME \A p \in Philosophers : pc[p] # "left" PROVE FALSE
    OBVIOUS
  <2>1. At(Admitted) = {}
    BY <1>2, <1>5 DEF At, Admitted
  <2>2. semaphore = Seats /\ Seats > 0
    BY <1>1, <2>1, FS_EmptySet, ConstantsAssumption DEF SeatsBalance, TypeOK
  <2>3. pc[p0] = "sit"
    BY <1>2, <1>3, <1>5
  <2> QED BY <2>2, <2>3 DEF CanMove
<1>8. {p \in Philosophers : pc[p] = "left"} = Philosophers
  <2> DEFINE S == {p \in Philosophers : pc[p] = "left"}
  <2>1. S \in SUBSET Philosophers /\ S # {} /\ \A p \in S : left_fork(p) \in S
    BY <1>6, <1>7, Forks
  <2> HIDE DEF S
  <2>2. S = Philosophers
    BY <2>1, RoundTheTable
  <2> QED BY <2>2 DEF S
<1> QED BY <1>1, <1>8, NotAllAtLeft DEF NoCircularWait

(* While anybody is at dinner somebody can go on: forks, seats and foodlock *)
(* never block one another for good, however many philosophers there are.   *)
THEOREM DeadlockFreedom == Spec => []SomebodyCanMove
BY SomebodyCan, Invariance, PTL

-----------------------------------------------------------------------------
(* The dinner seen from the plates. *)

(* The plates of the refinement: who is eating what. *)
Eating == [p \in Philosophers |-> IF pc[p] = "eat" THEN f[p] ELSE 0]

(* A step that neither takes a dish off the table nor begins or ends a meal. *)
LEMMA PlatesKept ==
  ASSUME TypeOK, NEW p \in Philosophers, NEW to, pc' = [pc EXCEPT ![p] = to],
         pc[p] # "eat", to # "eat", pc[p] # "read", to # "read",
         pc[p] \in WithDish <=> to \in WithDish,
         food' = food, f' = f
  PROVE  Eating' = Eating /\ Uneaten' = Uneaten
<1>1. \A q \in Philosophers : pc'[q] = (IF q = p THEN to ELSE pc[q])
  BY DEF TypeOK
<1>2. At(WithDish)' = At(WithDish) /\ At({"read"})' = At({"read"})
  BY <1>1 DEF At
<1>3. \A q \in Philosophers : pc'[q] = "eat" <=> pc[q] = "eat"
  BY <1>1
<1> QED BY <1>2, <1>3 DEF Eating, Uneaten

(* Taking a dish off the table, in the two steps it takes, loses no dish. *)
LEMMA TableKept ==
  ASSUME TypeOK, DishesInHand, NEW p \in Philosophers, FoodDecrement(p) \/ FoodRead(p)
  PROVE  Eating' = Eating /\ Uneaten' = Uneaten
<1>a. food \in Int /\ food >= 0
  BY Numbers DEF TypeOK
<1>1. CASE FoodDecrement(p)
  <2>1. \A q \in Philosophers : pc'[q] = (IF q = p THEN "read" ELSE pc[q])
    BY <1>1 DEF FoodDecrement, Goto, TypeOK
  <2>2. /\ pc[p] = "decrement" /\ f' = f
        /\ food' = IF food > 0 THEN food - 1 ELSE food
    BY <1>1 DEF FoodDecrement, Goto
  <2>3. At(WithDish)' = At(WithDish) /\ At({"read"})' # {}
    BY <2>1, <2>2 DEF At, WithDish
  <2>4. At({"read"}) = {}
    BY <2>2 DEF DishesInHand, At
  <2>5. \A d \in 1..(Food - 1) : (d < food' \/ d = food') <=> d < food
    BY <1>a, <2>2, Numbers
  <2>6. Uneaten' = Uneaten
    BY <2>2, <2>3, <2>4, <2>5 DEF Uneaten
  <2> QED BY <2>1, <2>2, <2>6 DEF Eating
<1>2. CASE FoodRead(p)
  <2> DEFINE to == IF food = 0 THEN "done" ELSE "sit"
  <2>1. \A q \in Philosophers : /\ pc'[q] = (IF q = p THEN to ELSE pc[q])
                                 /\ f'[q] = (IF q = p THEN food ELSE f[q])
    BY <1>2 DEF FoodRead, Goto, TypeOK
  <2>2. pc[p] = "read" /\ food' = food
    BY <1>2 DEF FoodRead, Goto
  <2>3. At({"read"}) # {} /\ At({"read"})' = {}
    BY <2>1, <2>2 DEF DishesInHand, At
  <2>4. \A q \in Philosophers : q # p => (q \in At(WithDish)' <=> q \in At(WithDish))
    BY <2>1 DEF At
  <2>5. p \notin At(WithDish) /\ (p \in At(WithDish)' <=> food # 0)
    BY <2>1, <2>2 DEF At, WithDish
  <2>6. \A q \in At(WithDish)' : q \in Philosophers
    BY DEF At
  <2>7. \A q \in At(WithDish) : q \in Philosophers
    BY DEF At
  <2>8. \A d \in 1..(Food - 1) :
           (\E q \in At(WithDish)' : d = f'[q])
           <=> (d = food \/ \E q \in At(WithDish) : d = f[q])
    BY <2>1, <2>4, <2>5, <2>6, <2>7, Numbers
  <2>9. Uneaten' = Uneaten
    BY <2>2, <2>3, <2>8 DEF Uneaten
  <2> QED BY <2>1, <2>2, <2>9 DEF Eating
<1> QED BY <1>1, <1>2

(* Taking the second fork begins a meal: no neighbour is eating, and nobody *)
(* has that dish.                                                           *)
LEMMA MealBegins ==
  ASSUME TypeOK, ForksHeld, DishesInHand, NEW p \in Philosophers, GetLeft(p)
  PROVE  \E d \in 1..(Food - 1) : Plates!Begin(p, d)
<1>1. \A q \in Philosophers : pc'[q] = (IF q = p THEN "eat" ELSE pc[q])
  BY DEF GetLeft, Goto, TypeOK
<1>2. pc[p] = "left" /\ food' = food /\ f' = f /\ forks[left_fork(p)] = NoOne
  BY DEF GetLeft, Goto, get_fork
<1>3. p \in At(WithDish) /\ f[p] \in 1..(Food - 1)
  <2>1. p \in At(WithDish)
    BY <1>2 DEF At, WithDish
  <2> QED BY <2>1, Numbers DEF DishesInHand, TypeOK
<1>4. Eating[p] = 0
  BY <1>2 DEF Eating
<1>5. \A q \in Philosophers : pc[q] = "eat" => ~ Plates!Neighbours(p, q)
  <2> SUFFICES ASSUME NEW q \in Philosophers, pc[q] = "eat", Plates!Neighbours(p, q)
               PROVE  FALSE
    OBVIOUS
  <2>1. Plates!LeftOf(p) = left_fork(p) /\ Plates!LeftOf(q) = left_fork(q)
    BY Numbers DEF Plates!LeftOf, left_fork
  <2>2. forks[right_fork(q)] = q /\ forks[left_fork(q)] = q /\ forks[right_fork(p)] = p
    BY <1>2, Forks DEF ForksHeld, Holds, WithRight, WithLeft
  <2> QED BY <1>2, <2>1, <2>2, Forks, Numbers DEF Plates!Neighbours
<1>6. \A q \in Philosophers : Plates!Neighbours(p, q) => Eating[q] = 0
  BY <1>5 DEF Eating
<1>7. f[p] \in Uneaten
  BY <1>3 DEF Uneaten
<1>8. \A q \in Philosophers : Eating[q] # f[p]
  <2>1. \A q \in Philosophers : pc[q] = "eat" => q \in At(WithDish) /\ q # p
    BY <1>2 DEF At, WithDish
  <2>2. \A q \in Philosophers : pc[q] = "eat" => f[q] # f[p]
    BY <1>3, <2>1 DEF DishesInHand
  <2> QED BY <1>3, <2>2, Numbers DEF Eating
<1>9. Eating' = [Eating EXCEPT ![p] = f[p]]
  BY <1>1, <1>2 DEF Eating
<1>10. Uneaten' = Uneaten
  <2>1. At(WithDish)' = At(WithDish) /\ At({"read"})' = At({"read"})
    BY <1>1, <1>2 DEF At, WithDish
  <2> QED BY <1>2, <2>1 DEF Uneaten
<1> QED BY <1>3, <1>4, <1>6, <1>7, <1>8, <1>9, <1>10
        DEF Plates!Begin, Eating, Philosophers

(* The end of a meal takes exactly that dish from the uneaten ones. *)
LEMMA MealEnds ==
  ASSUME TypeOK, DishesInHand, NEW p \in Philosophers, Eat(p)
  PROVE  Plates!Finish(p)
<1>1. \A q \in Philosophers : pc'[q] = (IF q = p THEN "downLeft" ELSE pc[q])
  BY DEF Eat, Goto, TypeOK
<1>2. pc[p] = "eat" /\ food' = food /\ f' = f
  BY DEF Eat, Goto
<1>3. p \in At(WithDish) /\ f[p] # 0 /\ f[p] >= food /\ (At({"read"}) # {} => f[p] > food)
  <2>1. p \in At(WithDish)
    BY <1>2 DEF At, WithDish
  <2> QED BY <2>1 DEF DishesInHand
<1>4. Eating[p] = f[p] /\ Eating' = [Eating EXCEPT ![p] = 0]
  BY <1>1, <1>2 DEF Eating
<1>5. At(WithDish)' = At(WithDish) \ {p} /\ At({"read"})' = At({"read"})
  BY <1>1, <1>2 DEF At, WithDish
<1>6. \A q \in At(WithDish) \ {p} : f[q] # f[p]
  BY <1>3 DEF DishesInHand
<1>7. food \in Int /\ f[p] \in Int
  BY Numbers DEF TypeOK
<1>8. Uneaten' = Uneaten \ {f[p]}
  BY <1>2, <1>3, <1>5, <1>6, <1>7 DEF Uneaten
<1> QED BY <1>3, <1>4, <1>8 DEF Plates!Finish, Eating

(* Every step is a step of Dinner or none. *)
LEMMA DinnerSimulated ==
  ASSUME IInv, [Next]_vars
  PROVE  Plates!Next \/ (Eating' = Eating /\ Uneaten' = Uneaten)
<1> DEFINE Same == Eating' = Eating /\ Uneaten' = Uneaten
<1>a. TypeOK /\ ForksHeld /\ DishesInHand /\ SemaphoreInUse
  BY DEF IInv
<1> HIDE DEF IInv
<1>1. ASSUME NEW p \in Philosophers, FoodLock(p) PROVE Same
  BY <1>a, <1>1, PlatesKept DEF FoodLock, Goto, WithDish
<1>2. ASSUME NEW p \in Philosophers, FoodDecrement(p) \/ FoodRead(p) PROVE Same
  BY <1>a, <1>2, TableKept
<1>3. ASSUME NEW p \in Philosophers, Sit(p) PROVE Same
  BY <1>a, <1>3, PlatesKept DEF Sit, Goto, WithDish
<1>4. ASSUME NEW p \in Philosophers, GetRight(p) PROVE Same
  BY <1>a, <1>4, PlatesKept DEF GetRight, Goto, WithDish
<1>5. ASSUME NEW p \in Philosophers, GetLeft(p) PROVE Plates!Next
  BY <1>a, <1>5, MealBegins DEF Plates!Next, Philosophers
<1>6. ASSUME NEW p \in Philosophers, Eat(p) PROVE Plates!Next
  BY <1>a, <1>6, MealEnds DEF Plates!Next, Philosophers
<1>7. ASSUME NEW p \in Philosophers, DownLeft(p) PROVE Same
  BY <1>a, <1>7, PlatesKept DEF DownLeft, Goto, WithDish
<1>8. ASSUME NEW p \in Philosophers, DownRight(p) PROVE Same
  BY <1>a, <1>8, PlatesKept DEF DownRight, Goto, WithDish
<1>9. CASE Create
  BY <1>a, <1>9, CreateFacts, PlatesKept DEF Create, WithDish
<1>10. CASE Join \/ Destroy \/ Terminated \/ UNCHANGED vars
  BY <1>10 DEF Join, Destroy, Terminated, vars, Eating, Uneaten, At
<1> QED BY <1>1, <1>2, <1>3, <1>4, <1>5, <1>6, <1>7, <1>8, <1>9, <1>10
        DEF Next, Philosopher, Main

(* Every behaviour of the program is a dinner: each dish is eaten at most   *)
(* once, by one philosopher, none of whose neighbours is eating meanwhile.  *)
THEOREM Refinement == Spec => DinnerServed
<1>1. Init => Plates!Init
  <2> SUFFICES ASSUME Init PROVE Plates!Init
    OBVIOUS
  <2>1. Uneaten = 1..(Food - 1)
    BY Numbers DEF Init, Uneaten
  <2> QED BY <2>1 DEF Init, Plates!Init, Philosophers
<1>2. IInv /\ [Next]_vars => [Plates!Next]_(Plates!dinnerVars)
  BY DinnerSimulated DEF Plates!dinnerVars, Eating
<1> QED BY <1>1, <1>2, Invariance, PTL DEF Spec, DinnerServed, Plates!Spec

=============================================================================
