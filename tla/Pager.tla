-------------------------------- MODULE Pager -------------------------------
(***************************************************************************)
(* What the page viewers of lab26, lab27 and lab28 promise the reader: the *)
(* bytes the server sends appear on the screen in order, each once, at     *)
(* most one line at a time, and never more than a screenful between two    *)
(* presses of SPACE.  Byte k is the k-th byte of the page.                 *)
(***************************************************************************)
EXTENDS Integers, Sequences

CONSTANTS Total,     \* length of the page
          MaxLines   \* MAX_ALLOWED_LINES_ON_SCREEN

VARIABLES newlines,  \* which bytes are newlines
          screen,    \* the bytes on the screen
          lines,     \* how many of them, since SPACE was pressed, are newlines
          excused    \* has something happened after which nothing is promised?

pagerVars == <<newlines, screen, lines, excused>>

Init == /\ newlines \in SUBSET {0}
        /\ screen = <<>> /\ lines = 0 /\ excused = FALSE

(* The server sends a byte that is not on the screen yet. *)
Send(k) ==
    /\ k > Len(screen)
    /\ newlines' = newlines \cup {k}
    /\ UNCHANGED <<screen, lines, excused>>

Show(n) ==
    /\ lines < MaxLines /\ Len(screen) + n <= Total
    /\ \A i \in 1..(n - 1) : Len(screen) + i \notin newlines
    /\ screen' = screen \o [i \in 1..n |-> Len(screen) + i]
    /\ lines' = IF Len(screen') \in newlines THEN lines + 1 ELSE lines
    /\ UNCHANGED <<newlines, excused>>

Press ==
    /\ lines' = 0
    /\ UNCHANGED <<newlines, screen, excused>>

Excuse == excused' = TRUE

Next == (\E k \in 1..Total : Send(k) \/ Show(k)) \/ Press \/ Excuse

Spec == Init /\ [][Next]_pagerVars

=============================================================================
