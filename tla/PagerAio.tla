------------------------------ MODULE PagerAio ------------------------------
(***************************************************************************)
(* lab27: a page viewer with one thread and three asynchronous requests.   *)
(* Each round of the loop makes the requests that are called for, waits    *)
(* for any of them, and looks at those that have ended.  A step is one     *)
(* call of the loop; requests end at any moment between two of them.       *)
(* The bytes read and not yet written lie in the queue of                  *)
(* common/queuebuffer.h, one node for each read.                           *)
(***************************************************************************)
EXTENDS PageWorld

CONSTANT BUF_SIZE

VARIABLES lines_on_screen,
          nodes, offset, finished,   \* queuebuffer: the bytes of each node, ...
          running,
          raw,              \* has the terminal been switched over?
          click,
          error,            \* aio_error() of each request: "none", "progress" or "error"
          aio_nbytes,       \* what it was asked for; 0 once its result was looked at
          result,           \* what aio_return() will say
          rw_in_progress,   \* the requests aio_suspend waits for
          lost,             \* history: how many results nobody has looked at
          missed,           \* history: has a line been shown and not counted?
          place

queuebuffer == <<nodes, offset, finished>>
terminal == <<keys, raw, click, lines_on_screen>>
requests == <<error, aio_nbytes, result>>
own == <<lines_on_screen, queuebuffer, running, raw, click, requests, rw_in_progress,
         lost, missed, place>>
vars == <<network, keys, io, own>>

Requests == {"stdin", "stdout", "socket"}

(* aio_error() of a control block of zeros is 0, that is, no error. *)
Init ==
    /\ lines_on_screen = 0
    /\ nodes = <<>> /\ offset = 0 /\ finished = FALSE
    /\ running = TRUE /\ raw = FALSE /\ click = "other"
    /\ error = [r \in Requests |-> "none"]
    /\ aio_nbytes = [r \in Requests |-> 0] /\ result = aio_nbytes
    /\ rw_in_progress = {} /\ lost = 0 /\ missed = FALSE
    /\ place = "stdin_read"

Goto(from, to) == place = from /\ place' = to
Full == lines_on_screen >= MaxLines

CanAsk(r) == error[r] = "none"
Answered(r) == aio_nbytes[r] # 0 /\ error[r] = "none"

(* A request that has ended may be made again before its result was seen. *)
Ask(r, n) ==
    /\ error' = [error EXCEPT ![r] = "progress"]
    /\ aio_nbytes' = [aio_nbytes EXCEPT ![r] = n]
    /\ rw_in_progress' = rw_in_progress \cup {r}
    /\ lost' = IF Answered(r) THEN lost + 1 ELSE lost

NoAsk == UNCHANGED <<error, aio_nbytes, rw_in_progress, lost>>

Seen(r) == /\ aio_nbytes' = [aio_nbytes EXCEPT ![r] = 0]
           /\ result' = [result EXCEPT ![r] = 0]

-----------------------------------------------------------------------------
(* What is asked for.  tcsetattr(TCSAFLUSH) throws away the keys typed. *)
stdin_read ==
    /\ Goto("stdin_read", "stdout_write")
    /\ IF Full /\ CanAsk("stdin") THEN Ask("stdin", 1) /\ raw' = TRUE /\ keys' = <<>>
       ELSE NoAsk /\ UNCHANGED <<raw, keys>>
    /\ UNCHANGED <<network, io, lines_on_screen, queuebuffer, running, click, result, missed>>

(* queuebuffer_get_bytes: what is left of the first node; and of that the   *)
(* bytes up to and including the first newline.                             *)
stdout_len == Len(nodes[1]) - offset
Line == LET ends == {n \in 1..stdout_len : nodes[1][offset + n] \in newlines}
            len == IF ends = {} THEN stdout_len ELSE CHOOSE n \in ends : \A m \in ends : n <= m
        IN  SubSeq(nodes[1], offset + 1, offset + len)

stdout_write ==
    /\ Goto("stdout_write", "socket_read")
    /\ IF nodes # <<>> /\ ~Full /\ CanAsk("stdout") THEN Ask("stdout", Len(Line)) ELSE NoAsk
    /\ UNCHANGED <<network, io, terminal, queuebuffer, running, result, missed>>

socket_read ==
    /\ Goto("socket_read", "suspend")
    /\ IF ~finished /\ CanAsk("socket") THEN Ask("socket", BUF_SIZE) ELSE NoAsk
    /\ UNCHANGED <<network, io, terminal, queuebuffer, running, result, missed>>

(* aio_suspend returns when one of the requests it is given is not under way. *)
aio_suspend ==
    /\ Goto("suspend", "check_stdin")
    /\ \E r \in rw_in_progress : error[r] # "progress"
    /\ UNCHANGED <<network, io, terminal, queuebuffer, running, result, error, aio_nbytes,
                   rw_in_progress, lost, missed>>

-----------------------------------------------------------------------------
(* What has ended. *)

(* Mutant: the terminal is not switched back. *)
TurnPageRaw == lines_on_screen' = 0 /\ lines' = 0 /\ UNCHANGED raw
TurnPage == lines_on_screen' = 0 /\ lines' = 0 /\ raw' = FALSE

(* A key other than SPACE leaves the request among those waited for.  What   *)
(* click holds is of no use before the next key.                            *)
check_stdin_read ==
    /\ Goto("check_stdin", "check_stdout")
    /\ IF Answered("stdin")
       THEN result["stdin"] = 1 /\ Seen("stdin") /\ click' = "other"
       ELSE UNCHANGED <<aio_nbytes, result, click>>
    /\ IF Answered("stdin") /\ click = "space"
       THEN TurnPage /\ rw_in_progress' = rw_in_progress \ {"stdin"}
       ELSE UNCHANGED <<lines_on_screen, lines, raw, rw_in_progress>>
    /\ UNCHANGED <<network, keys, received, screen, queuebuffer, running, error, lost,
                   missed>>

(* queuebuffer_add_handled_bytes *)
HandleBytes(n) ==
    IF offset + n = Len(nodes[1]) THEN nodes' = Tail(nodes) /\ offset' = 0
    ELSE offset' = offset + n /\ UNCHANGED nodes

(* The byte `stdout_buffer[aio_nbytes - 1]' is looked at after              *)
(* queuebuffer_add_handled_bytes: if that was the last of its node, in      *)
(* memory that has been freed, which may hold a newline or not.             *)
LastByteReadsAsNewline(n) ==
    IF offset + n = Len(nodes[1]) THEN BOOLEAN ELSE {Line[n] \in newlines}

(* The line is counted when it has been written whole and ends in a newline. *)
Counts(n, whole, newline) ==
    /\ lines_on_screen' = IF whole /\ newline THEN lines_on_screen + 1 ELSE lines_on_screen
    /\ missed' = (missed \/ (whole /\ Line[n] \in newlines /\ ~newline))

check_stdout_write ==
    /\ Goto("check_stdout", "check_socket")
    /\ LET n == result["stdout"] IN
       IF Answered("stdout")
       THEN /\ HandleBytes(n)
            /\ \E newline \in LastByteReadsAsNewline(n) :
                  Counts(n, n = aio_nbytes["stdout"], newline)
            /\ Seen("stdout") /\ rw_in_progress' = rw_in_progress \ {"stdout"}
       ELSE UNCHANGED <<nodes, offset, lines_on_screen, aio_nbytes, result, rw_in_progress,
                        missed>>
    /\ UNCHANGED <<network, keys, io, finished, running, raw, click, error, lost>>

LoopEnds == nodes' = <<>> /\ finished'

(* read() has returned n bytes: the last n received.  If there is no memory *)
(* for a node they are dropped, and nobody looks.  At the end of the page   *)
(* the request stays as it is, and its result is looked at in every round.  *)
TakeBytes(n) ==
    /\ \/ /\ nodes' = Append(nodes, [i \in 1..n |-> received - n + i])
          /\ UNCHANGED lost
       \/ UNCHANGED nodes /\ lost' = lost + 1
    /\ Seen("socket") /\ rw_in_progress' = rw_in_progress \ {"socket"}
    /\ UNCHANGED finished

check_socket_read ==
    /\ place = "check_socket"
    /\ IF Answered("socket") /\ result["socket"] > 0 THEN TakeBytes(result["socket"])
       ELSE /\ finished' = (finished \/ Answered("socket"))
            /\ UNCHANGED <<nodes, aio_nbytes, result, rw_in_progress, lost>>
    /\ place' = IF LoopEnds THEN "done" ELSE IF running THEN "stdin_read" ELSE "stopped"
    /\ UNCHANGED <<network, io, terminal, offset, running, error, missed>>

(* A request cannot be made, the terminal is closed, or the invitation      *)
(* cannot be written: the program gives up.                                 *)
GiveUp ==
    /\ \/ place = "stdin_read" /\ Full /\ CanAsk("stdin")
       \/ place = "stdout_write" /\ nodes # <<>> /\ ~Full /\ CanAsk("stdout")
       \/ place = "socket_read" /\ ~finished /\ CanAsk("socket")
       \/ place = "check_stdin" /\ Answered("stdin") /\ result["stdin"] # 1
       \/ place = "check_stdout" /\ Answered("stdout")
    /\ place' = "stopped"
    /\ UNCHANGED <<network, io, terminal, queuebuffer, running, requests, rw_in_progress, lost,
                   missed>>

-----------------------------------------------------------------------------
Over == place \in {"done", "stopped"}

(* The requests, carried out by somebody else. *)
End(r, code, n) ==
    /\ ~Over /\ error[r] = "progress"
    /\ error' = [error EXCEPT ![r] = code]
    /\ result' = [result EXCEPT ![r] = n]
    /\ UNCHANGED <<network, queuebuffer, running, raw, lines_on_screen, aio_nbytes,
                   rw_in_progress, lost, missed, place>>

StdinEnds ==
    /\ keys # <<>>
    /\ click' = Head(keys) /\ keys' = Tail(keys)
    /\ End("stdin", "none", 1)
    /\ UNCHANGED io

StdinCloses == End("stdin", "none", 0) /\ UNCHANGED <<keys, click, io>>

StdoutEnds ==
    /\ \E n \in 1..aio_nbytes["stdout"] :
          /\ Takes(n, aio_nbytes["stdout"])
          /\ Display(SubSeq(Line, 1, n))
          /\ End("stdout", "none", n)
    /\ UNCHANGED <<keys, click, received>>

SocketEnds ==
    /\ server # "reset"
    /\ \E n \in 0..BUF_SIZE :
          /\ n <= sent - received
          /\ n = 0 => received = sent /\ server = "closed"
          /\ received' = received + n
          /\ End("socket", "none", n)
    /\ UNCHANGED <<keys, click, screen, lines>>

RequestFails(r) ==
    /\ r = "socket" => server = "reset"
    /\ End(r, "error", -1)
    /\ UNCHANGED <<keys, click, io>>

(* sigint_handler.  With a read of the keyboard under way it goes on to     *)
(* aio_suspend with the control blocks themselves taken for lists of them,  *)
(* follows the first words of stdout_write_struct as a pointer, and is      *)
(* killed.  An aio_suspend that has begun is cut short, one about to begin  *)
(* is not.                                                                  *)
Interrupt ==
    /\ running /\ ~Over
    /\ running' = FALSE
    /\ place' \in (IF error["stdin"] = "progress" THEN {"stopped"}
                   ELSE IF place = "suspend" THEN {"suspend", "check_stdin"} ELSE {place})
    /\ UNCHANGED <<network, io, terminal, queuebuffer, requests, rw_in_progress, lost, missed>>

-----------------------------------------------------------------------------
load_content_from_server ==
    \/ stdin_read \/ stdout_write \/ socket_read \/ aio_suspend
    \/ check_stdin_read \/ check_stdout_write \/ check_socket_read \/ GiveUp

(* The keyboard is being read. *)
KeyAwaited == error["stdin"] = "progress"

Next == load_content_from_server \/ StdinEnds \/ StdinCloses \/ StdoutEnds \/ SocketEnds
        \/ (\E r \in Requests : RequestFails(r)) \/ Interrupt

-----------------------------------------------------------------------------
(* The variables stay in their types, the offset inside the first node. *)
TypeOK ==
    /\ lines_on_screen \in 0..MaxLines
    /\ nodes \in Seq(Seq(1..Total)) /\ (\A i \in DOMAIN nodes : nodes[i] # <<>>)
    /\ offset \in 0..BUF_SIZE /\ (IF nodes = <<>> THEN offset = 0 ELSE offset < Len(nodes[1]))
    /\ finished \in BOOLEAN /\ running \in BOOLEAN /\ raw \in BOOLEAN /\ click \in Keys
    /\ \A r \in Requests : error[r] \in {"none", "progress", "error"}
    /\ aio_nbytes \in [Requests -> 0..BUF_SIZE] /\ result \in [Requests -> -1..BUF_SIZE]
    /\ rw_in_progress \in SUBSET Requests /\ lost \in Nat /\ missed \in BOOLEAN
    /\ place \in {"stdin_read", "stdout_write", "socket_read", "suspend", "check_stdin",
                  "check_stdout", "check_socket", "done", "stopped"}

(* The bytes on the screen are the first ones of the page, in order.  Each   *)
(* node of the queue goes on where the one before ends; the first one, from  *)
(* offset on, where the writes end that have been looked at, and the last    *)
(* one ends where the reads do that have been looked at.                     *)
Written == IF Answered("stdout") THEN result["stdout"] ELSE 0
Arrived == IF Answered("socket") THEN result["socket"] ELSE 0
QueueInOrder ==
    lost = 0 =>
       /\ \A k \in DOMAIN screen : screen[k] = k
       /\ \A i \in DOMAIN nodes : \A j \in DOMAIN nodes[i] : nodes[i][j] = nodes[i][1] + j - 1
       /\ \A i \in 1..(Len(nodes) - 1) : nodes[i + 1][1] = nodes[i][1] + Len(nodes[i])
       /\ LET written == Len(screen) - Written
              taken == received - Arrived
              last == nodes[Len(nodes)]
          IN  IF nodes = <<>> THEN written = taken
              ELSE nodes[1][1] + offset = written + 1 /\ last[1] + Len(last) - 1 = taken

(* When the program ends by itself everything the server had sent is on the *)
(* screen, unless a result was lost on the way.                             *)
AllShown == place = "done" /\ lost = 0 => server = "closed" /\ Len(screen) = sent

(* As long as the loop runs: the terminal is switched over only while the   *)
(* screen is full and a key is among the requests waited for, and whenever  *)
(* the program waits it is switched over exactly if the screen is full.     *)
(* Nothing is said of the end: an interrupt, a failure, or the last line of *)
(* the page being the last of the screen, leave it as it is.                *)
TerminalFollowsScreen ==
    ~Over => /\ raw => Full /\ "stdin" \in rw_in_progress
             /\ place = "suspend" /\ Full => raw

(* "Press SPACE to scroll down": the next key is not asked for before the   *)
(* last one, if it was SPACE, has turned the page.                          *)
SpaceScrolls == place = "stdin_read" /\ Answered("stdin") => click # "space"
=============================================================================
