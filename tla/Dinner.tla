------------------------------- MODULE Dinner -------------------------------
(***************************************************************************)
(* What the dining philosophers of lab9 promise: every dish is eaten once, *)
(* and two neighbours never eat at the same time.  How the philosophers    *)
(* come to agree on that is left to Philosophers.                          *)
(***************************************************************************)
EXTENDS Integers

CONSTANTS N,       \* philosophers 0 .. N-1, seated in a circle
          Food     \* the dishes are 1 .. Food-1

VARIABLES eating,  \* the dish each philosopher is eating, 0 for none
          uneaten  \* the dishes nobody has finished

dinnerVars == <<eating, uneaten>>

LeftOf(p) == IF p = N - 1 THEN 0 ELSE p + 1
Neighbours(p, q) == q = LeftOf(p) \/ p = LeftOf(q)

Init ==
    /\ eating = [p \in 0..(N - 1) |-> 0]
    /\ uneaten = 1..(Food - 1)

Begin(p, d) ==
    /\ eating[p] = 0
    /\ \A q \in 0..(N - 1) : Neighbours(p, q) => eating[q] = 0
    /\ d \in uneaten
    /\ \A q \in 0..(N - 1) : eating[q] # d
    /\ eating' = [eating EXCEPT ![p] = d]
    /\ UNCHANGED uneaten

Finish(p) ==
    /\ eating[p] # 0
    /\ uneaten' = uneaten \ {eating[p]}
    /\ eating' = [eating EXCEPT ![p] = 0]

Next ==
    \E p \in 0..(N - 1) : (\E d \in 1..(Food - 1) : Begin(p, d)) \/ Finish(p)

Spec == Init /\ [][Next]_dinnerVars

=============================================================================
