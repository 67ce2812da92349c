----------------------------- MODULE CyclicalBuf ----------------------------
(***************************************************************************)
(* struct cyclical_buf, the ring buffer that the page viewers of lab26 and *)
(* lab28 share statement by statement: the places where the two programs   *)
(* read and change its up, down, full and empty, as operators on a record  *)
(* b with these four fields.                                               *)
(***************************************************************************)
EXTENDS Integers

CONSTANT BUF_SIZE

ASSUME BufferAssumption == BUF_SIZE \in Nat \ {0}

(* CYCLICAL_BUF_INITIALIZER *)
EmptyBuffer == [up |-> 0, down |-> 0, full |-> FALSE, empty |-> TRUE]

(* Mutant: the reader may fill the array to its end whatever lies there. *)
ReadRoomToEnd(b) == BUF_SIZE - b.up

(* The most bytes read() is asked for: up to the end of the array, or up to *)
(* what the screen has not been shown yet.                                  *)
ReadRoom(b) == IF b.up >= b.down THEN BUF_SIZE - b.up ELSE b.down - b.up

(* The most bytes write() is given: up to the last one read, or up to the   *)
(* end of the array if that comes first.                                    *)
PageRoom(b) == IF b.down < b.up THEN b.up - b.down ELSE BUF_SIZE - b.down

(* Mutant: `full' is not set. *)
StoredNotFull(b, n) ==
    LET up == IF b.up + n = BUF_SIZE THEN 0 ELSE b.up + n
    IN  [b EXCEPT !.up = up, !.empty = FALSE]

(* What becomes of b when read() has returned n > 0 bytes. *)
Stored(b, n) ==
    LET up == IF b.up + n >= b.down /\ b.up + n = BUF_SIZE THEN 0 ELSE b.up + n
    IN  [b EXCEPT !.up = up, !.full = @ \/ up = b.down, !.empty = FALSE]

(* What becomes of b when write() has returned n: first down += n, then the *)
(* wrap-around and the flags.                                               *)
Advanced(b, n) == [b EXCEPT !.down = @ + n]

(* Mutant: `full' is not cleared. *)
SettledStaysFull(b) ==
    LET down == IF b.down = BUF_SIZE THEN 0 ELSE b.down
    IN  [b EXCEPT !.down = down, !.empty = @ \/ down = b.up]

Settled(b) ==
    LET down == IF b.down = BUF_SIZE THEN 0 ELSE b.down
    IN  [b EXCEPT !.down = down, !.empty = @ \/ down = b.up, !.full = FALSE]

-----------------------------------------------------------------------------
(* The bytes stored and not shown, in number and as the places they lie in. *)
Held(b) == IF b.empty THEN 0
           ELSE IF b.down < b.up THEN b.up - b.down
           ELSE BUF_SIZE - b.down + b.up

Place(b, k) == IF b.down + k < BUF_SIZE THEN b.down + k ELSE b.down + k - BUF_SIZE

(* The two flags tell a full buffer from an empty one exactly when the two  *)
(* offsets cannot.                                                          *)
Coherent(b) == /\ b.up = b.down <=> b.full \/ b.empty
               /\ ~(b.full /\ b.empty)

Offsets == 0..(BUF_SIZE - 1)
Buffers == [up : Offsets, down : Offsets, full : BOOLEAN, empty : BOOLEAN]

=============================================================================
