------------------------------ MODULE PageWorld -----------------------------
(* The surroundings of the page viewers of lab26, lab27 and lab28: the server *)
(* that sends the page, the user at the terminal, and the screen.             *)
EXTENDS Integers, Sequences

CONSTANTS Total,         \* length of the page the server holds
          MaxLines,      \* MAX_ALLOWED_LINES_ON_SCREEN
          MaxKeys,       \* bound: keys pressed and not yet read
          ShortWrites    \* may write() take less than it is given?

ASSUME PagerAssumption == /\ Total \in Nat /\ MaxLines \in Nat \ {0}
                          /\ MaxKeys \in Nat /\ ShortWrites \in BOOLEAN

VARIABLES newlines,      \* which of the bytes sent are newlines
          sent, server,  \* bytes sent so far; "open", "closed" or "reset"
          received,      \* bytes read from the socket
          keys,          \* keys the terminal holds for file descriptor 0
          screen,        \* the bytes written to file descriptor 1
          lines          \* newlines written since SPACE was pressed

network == <<newlines, sent, server>>
io == <<received, screen, lines>>

(* Byte k of the page is the number k; 0 is a byte that is none of it, and   *)
(* may look like a newline.                                                  *)
WorldInit ==
    /\ newlines \in SUBSET {0}
    /\ sent = 0 /\ server = "open" /\ received = 0
    /\ keys = <<>> /\ screen = <<>> /\ lines = 0

Send ==
    /\ server = "open" /\ sent < Total
    /\ sent' = sent + 1
    /\ newlines' \in {newlines, newlines \cup {sent'}}
    /\ UNCHANGED <<server, keys, io>>

(* At any point the server closes the connection, or it breaks. *)
Hangup(how) ==
    /\ server = "open"
    /\ server' = how
    /\ UNCHANGED <<newlines, sent, keys, io>>

Server == Send \/ Hangup("closed") \/ Hangup("reset")

Type(key) ==
    /\ Len(keys) < MaxKeys
    /\ keys' = Append(keys, key)
    /\ UNCHANGED <<network, io>>

(* write() puts bytes on the screen, at least one. *)
Display(bytes) ==
    /\ screen' = screen \o bytes
    /\ lines' = IF bytes[Len(bytes)] \in newlines THEN lines + 1 ELSE lines

(* A write of at most n bytes takes m of them. *)
Takes(m, n) == m \in 1..n /\ (m < n => ShortWrites)

Keys == {"space", "other"}
WorldTypes ==
    /\ newlines \subseteq 0..sent
    /\ sent \in 0..Total /\ server \in {"open", "closed", "reset"}
    /\ received \in 0..sent
    /\ keys \in Seq(Keys)
    /\ screen \in Seq(0..Total) /\ lines \in Nat
=============================================================================
