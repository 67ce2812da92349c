----------------------------- MODULE PagerSelect ----------------------------
(***************************************************************************)
(* lab26: a page viewer with one thread and a select() loop.  A step is one*)
(* call of the loop: select, listen_stdin, listen_stdout, listen_socket.   *)
(* The server, the user and SIGINT come at any moment, between two calls   *)
(* of one round of the loop in particular.                                 *)
(***************************************************************************)
EXTENDS CyclicalBuf, PageWorld

VARIABLES ring,             \* up, down, full, empty
          buf,              \* the array: which byte of the page is where, or 0
          sock_end,
          lines_on_screen,
          stdin,            \* keys in stdio's buffer, which select() cannot see
          ready,            \* the sets select() left behind
          gone,             \* has sigint_handler closed sock and freed buf?
          pc

input == <<buf, sock_end>>
own == <<ring, buf, sock_end, lines_on_screen, stdin, ready, gone, pc>>
vars == <<network, keys, io, own>>

Init ==
    /\ ring = EmptyBuffer
    /\ buf = [i \in Offsets |-> 0]
    /\ sock_end = FALSE /\ lines_on_screen = 0
    /\ stdin = <<>> /\ ready = {} /\ gone = FALSE
    /\ pc = "select"

Goto(from, to) == pc = from /\ pc' = to

-----------------------------------------------------------------------------
Full == lines_on_screen >= MaxLines     \* the screen is full

(* What update_select asks select() about. *)
Watched == (IF ~ring.empty /\ ~Full THEN {"stdout"} ELSE {})
           \cup (IF ~ring.full /\ ~sock_end THEN {"socket"} ELSE {})
           \cup (IF Full THEN {"stdin"} ELSE {})

Readable == (IF received < sent \/ server # "open" THEN {"socket"} ELSE {})
            \cup (IF keys # <<>> THEN {"stdin"} ELSE {})

(* select() blocks until something watched is ready; the screen may be busy. *)
update_select ==
    /\ Goto("select", "stdin")
    /\ ~(gone /\ "socket" \in Watched)
    /\ ready' \in {Watched \cap Readable, Watched \cap (Readable \cup {"stdout"})}
    /\ ready' # {}
    /\ UNCHANGED <<ring, input, lines_on_screen, stdin, gone, io, keys, network>>

(* select() refuses a descriptor that has been closed. *)
SelectFails ==
    /\ gone /\ "socket" \in Watched
    /\ Goto("select", "failed")
    /\ UNCHANGED <<ring, input, lines_on_screen, stdin, ready, gone, io, keys, network>>

(* Mutant: the key is not looked at. *)
TurnsPageAny(key) == lines_on_screen' = 0 /\ lines' = (IF key = "space" THEN 0 ELSE lines)

TurnsPage(key) == IF key = "space" THEN lines_on_screen' = 0 /\ lines' = 0
                  ELSE UNCHANGED <<lines_on_screen, lines>>

(* getchar() empties the terminal into stdio's buffer, then takes one key. *)
listen_stdin ==
    /\ Goto("stdin", "stdout")
    /\ IF Full /\ "stdin" \in ready
       THEN LET typed == IF stdin = <<>> THEN keys ELSE stdin
            IN  /\ keys' = IF stdin = <<>> THEN <<>> ELSE keys
                /\ stdin' = Tail(typed)
                /\ TurnsPage(Head(typed))
       ELSE UNCHANGED <<keys, stdin, lines_on_screen, lines>>
    /\ UNCHANGED <<ring, input, ready, gone, received, screen, network>>

(* The bytes up to and including the first newline, or up to the end. *)
LineEnds == {n \in 1..PageRoom(ring) : buf[ring.down + n - 1] \in newlines}
LineLength == IF LineEnds = {} THEN PageRoom(ring)
              ELSE CHOOSE n \in LineEnds : \A m \in LineEnds : n <= m

(* write() shows n bytes; the line is counted even if its end is not shown. *)
WriteLine(n) ==
    /\ Takes(n, LineLength)
    /\ Display([i \in 1..n |-> buf[ring.down + i - 1]])
    /\ lines_on_screen' = IF LineEnds = {} THEN lines_on_screen ELSE lines_on_screen + 1
    /\ ring' = Settled(Advanced(ring, n))

Writes == ~ring.empty /\ ~Full /\ "stdout" \in ready

listen_stdout ==
    /\ Goto("stdout", "socket")
    /\ IF Writes THEN \E n \in 1..BUF_SIZE : WriteLine(n)
       ELSE UNCHANGED <<ring, lines_on_screen, screen, lines>>
    /\ UNCHANGED <<input, stdin, ready, gone, received, keys, network>>

(* write() of the page or of the invitation fails: the program gives up. *)
WriteFails ==
    /\ Writes /\ Goto("stdout", "failed")
    /\ UNCHANGED <<ring, input, lines_on_screen, stdin, ready, gone, io, keys, network>>

Reads == ~sock_end /\ ~ring.full /\ "socket" \in ready
Broken == gone \/ server = "reset"

(* read() returned n > 0 bytes. *)
ReadBytes(n) ==
    /\ n <= sent - received
    /\ received' = received + n
    /\ buf' = [i \in Offsets |-> IF i \in ring.up..(ring.up + n - 1)
                                 THEN received + 1 + i - ring.up ELSE buf[i]]
    /\ ring' = Stored(ring, n)

ReadEnd ==
    /\ received = sent /\ server = "closed"
    /\ sock_end' = TRUE
    /\ UNCHANGED <<ring, buf, received>>

(* The round ends here, and with it perhaps the loop; the sets are of no    *)
(* use before the next select().                                            *)
listen_socket ==
    /\ pc = "socket"
    /\ IF Reads THEN /\ ~Broken
                     /\ \/ (\E n \in 1..ReadRoom(ring) : ReadBytes(n)) /\ UNCHANGED sock_end
                        \/ ReadEnd
       ELSE UNCHANGED <<ring, buf, received, sock_end>>
    /\ pc' = IF sock_end' /\ ring'.empty THEN "done" ELSE "select"
    /\ ready' = {}
    /\ UNCHANGED <<lines_on_screen, stdin, gone, screen, lines, keys, network>>

(* read() fails: the program gives up. *)
ReadFails ==
    /\ Reads /\ Broken /\ Goto("socket", "failed")
    /\ UNCHANGED <<ring, input, lines_on_screen, stdin, ready, gone, io, keys, network>>

(* sigint_handler: sock is closed and buf freed, so that what is in it has  *)
(* no meaning any more, and may or may not look like a newline; a select()  *)
(* under way is cut short, and fails.                                       *)
Interrupt ==
    /\ ~gone /\ pc \notin {"done", "failed"}
    /\ gone' = TRUE
    /\ buf' = [i \in Offsets |-> 0]
    /\ newlines' \in {newlines, newlines \cup {0}}
    /\ pc' \in (IF pc = "select" THEN {"select", "failed"} ELSE {pc})
    /\ UNCHANGED <<ring, sock_end, lines_on_screen, stdin, ready, io, keys, sent, server>>

-----------------------------------------------------------------------------
load_content_from_server ==
    \/ update_select \/ listen_stdin \/ listen_stdout \/ listen_socket
    \/ SelectFails \/ WriteFails \/ ReadFails

Over == pc \in {"done", "failed"}
Next == load_content_from_server \/ Interrupt

-----------------------------------------------------------------------------
(* The variables stay in their types; the offsets stay inside the array. *)
TypeOK ==
    /\ ring \in Buffers
    /\ buf \in [Offsets -> 0..Total]
    /\ sock_end \in BOOLEAN /\ lines_on_screen \in 0..MaxLines
    /\ stdin \in Seq(Keys) /\ ready \in SUBSET {"socket", "stdin", "stdout"}
    /\ gone \in BOOLEAN /\ pc \in {"select", "stdin", "stdout", "socket", "done", "failed"}

(* full and empty are right, and the bytes between down and up, around the  *)
(* end of the array if need be, are exactly those read and not yet shown,   *)
(* in the order of the page.                                                *)
RingInOrder ==
    /\ Coherent(ring)
    /\ ~gone => /\ Held(ring) = received - Len(screen)
                /\ \A k \in 0..(Held(ring) - 1) : buf[Place(ring, k)] = Len(screen) + 1 + k

(* When the program ends by itself the server has closed the connection and *)
(* everything it had sent is on the screen.                                 *)
AllShown == pc = "done" /\ ~gone => server = "closed" /\ Len(screen) = sent

=============================================================================
