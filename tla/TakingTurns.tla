---------------------------- MODULE TakingTurns -----------------------------
(* What lab10, lab12, lab13 and lab15 are written to show: two parties print *)
(* their lines strictly in turn.                                             *)
EXTENDS Naturals, Sequences, FiniteSets

CONSTANT Lines              \* how many lines each of them prints

VARIABLES printed,          \* who printed the first line, the second, ...
          starters,         \* who may print the first
          spurious          \* has a condition wait returned without a signal?

Parties == {"main", "child"}
Count(p) == Cardinality({i \in DOMAIN printed : printed[i] = p})

Init == printed = <<>> /\ starters \subseteq Parties /\ spurious = FALSE

HasTheTurn(p) == IF printed = <<>> THEN p \in starters ELSE printed[Len(printed)] # p

PrintLine(p) ==
    /\ Count(p) < Lines
    /\ spurious \/ HasTheTurn(p)
    /\ printed' = Append(printed, p)
    /\ UNCHANGED <<starters, spurious>>

(* After this nothing is promised but the number of lines. *)
Disturb == spurious' = TRUE /\ UNCHANGED <<printed, starters>>

(* The program is run once more. *)
Rerun == printed' = <<>> /\ UNCHANGED <<starters, spurious>>

Next == (\E p \in Parties : PrintLine(p)) \/ Disturb \/ Rerun

Spec == Init /\ [][Next]_<<printed, starters, spurious>>
=============================================================================
