---------------------------- MODULE PagerThreads ----------------------------
(***************************************************************************)
(* lab28: the page viewer with two threads, socket_data_reader (`reader')  *)
(* and user_interaction (`user'), one mutex and one condition variable.    *)
(*                                                                         *)
(* A step is what a thread does between taking the mutex and giving it     *)
(* back, or one system call made without it.  While its holder lives,      *)
(* nobody else sees a state in which the mutex is held, with one           *)
(* exception: the reader evaluates `down - up' after it has given the      *)
(* mutex back, and may see the user's down between `down += ret' and its   *)
(* wrap-around (place "wrap").  But a thread cancelled in                  *)
(* pthread_cond_wait takes the mutex back before it ends, and no cleanup   *)
(* handler gives it up: it dies "holding" it.                              *)
(***************************************************************************)
EXTENDS CyclicalBuf, PageWorld

CONSTANT SpuriousWakeups    \* may pthread_cond_wait return without a signal?

VARIABLES ring,             \* up, down, full, empty
          buf,              \* the array: which byte of the page is where, or 0
          sock_end,
          lines_on_screen,
          waiting,          \* the threads asleep on cond
          reader, user,     \* where the two threads are
          room,             \* the count the reader gives to read()
          ret,              \* what read() returned
          page,             \* the count the user's thread gives to write(), then gets back
          cancelled,        \* has cancel_and_free_all() been called?
          destroyed,        \* has it destroyed the mutex?
          cut               \* history: has a read of no bytes been taken for the end?

world == <<network, keys>>
readers == <<reader, room, ret, cut>>
users == <<user, page>>
stop == <<cancelled, destroyed>>
vars == <<world, io, ring, buf, sock_end, lines_on_screen, waiting, readers, users, stop>>

Init ==
    /\ ring = EmptyBuffer
    /\ buf = [i \in Offsets |-> 0]
    /\ sock_end = FALSE /\ lines_on_screen = 0
    /\ waiting = {}
    /\ reader = "start" /\ user = "start"
    /\ room = 0 /\ ret = 0 /\ page = 0
    /\ cancelled = FALSE /\ destroyed = FALSE /\ cut = FALSE

MutexFree == user # "wrap" /\ "holding" \notin {reader, user}

(* Back from pthread_cond_wait: it was signalled; or the mutex it would give *)
(* back while it sleeps has been destroyed, and it returns at once.          *)
Awake(t, place) == /\ place = "asleep"
                   /\ destroyed \/ (t \notin waiting /\ ~cancelled)

(* Cancelled in pthread_cond_wait it takes the mutex back, and keeps it.     *)
DiesIn(place) == IF place = "asleep" THEN "holding" ELSE "cancelled"
Dies(place, points) == /\ cancelled /\ place \in points
                       /\ place = "asleep" => MutexFree /\ ~destroyed

-----------------------------------------------------------------------------
(* socket_data_reader *)

(* Mutant: the reader does not wait for room. *)
CrowdedNever(r) == FALSE
Crowded(r) == r.full

(* The head of the loop, reached with the mutex held, up to giving it back. *)
ReaderLoop(r, ended, sleepers) ==
    /\ reader' = (IF ended THEN "done" ELSE IF Crowded(r) THEN "asleep"
                  ELSE IF r.up >= r.down THEN "read" ELSE "size")
    /\ room' = (IF reader' = "read" THEN ReadRoom(r) ELSE room)
    /\ waiting' = (IF reader' = "asleep" THEN sleepers \cup {"reader"} ELSE sleepers)

ReaderEnters ==
    /\ MutexFree
    /\ reader = "start" \/ Awake("reader", reader)
    /\ ReaderLoop(ring, sock_end, waiting)
    /\ UNCHANGED <<world, io, ring, buf, sock_end, lines_on_screen, ret, cut, users, stop>>

(* Without the mutex: whatever down is by now. *)
ReaderSize ==
    /\ reader = "size"
    /\ room' = ring.down - ring.up
    /\ reader' = "read"
    /\ UNCHANGED <<world, io, ring, buf, sock_end, lines_on_screen, waiting, ret, cut, users,
                   stop>>

(* read() blocks until there is something to return; asked for no bytes it  *)
(* returns 0 at once, and the kernel refuses a count that is negative, that *)
(* is, huge.  Once used, room, and likewise ret and page, count as 0.       *)
ReaderReads ==
    /\ reader = "read" /\ ~cancelled
    /\ \/ /\ server # "reset"
          /\ \E n \in 1..room :
                /\ n <= sent - received
                /\ received' = received + n
                /\ buf' = [i \in Offsets |-> IF i \in ring.up..(ring.up + n - 1)
                                             THEN received + 1 + i - ring.up ELSE buf[i]]
                /\ ret' = n /\ UNCHANGED cut
       \/ /\ ret' = 0
          /\ room = 0 \/ (room > 0 /\ received = sent /\ server = "closed")
          /\ cut' = (cut \/ room = 0)
          /\ UNCHANGED <<received, buf>>
       \/ /\ ret' = -1
          /\ room < 0 \/ (room > 0 /\ server = "reset")
          /\ UNCHANGED <<received, buf, cut>>
    /\ reader' = "store" /\ room' = 0
    /\ UNCHANGED <<world, screen, lines, ring, sock_end, lines_on_screen, waiting, users, stop>>

(* Mutant: nobody is signalled. *)
ToldNobody(t) == waiting
Told(t) == waiting \ {t}      \* who sleeps on after a signal

(* Lock, take over what read() returned, signal, and on to the next round. *)
ReaderStores ==
    /\ MutexFree
    /\ reader = "store" /\ ret # -1
    /\ ring' = (IF ret = 0 THEN ring ELSE Stored(ring, ret))
    /\ sock_end' = (ret = 0)
    /\ ReaderLoop(ring', sock_end', Told("user")) /\ ret' = 0
    /\ UNCHANGED <<world, io, buf, lines_on_screen, cut, users, stop>>

(* read() failed: cancel_and_free_all().  Having cancelled itself too, the  *)
(* reader ends at the first cancellation point, close(sock).                *)
ReaderFails ==
    /\ MutexFree
    /\ reader = "store" /\ ret = -1
    /\ reader' = "failed" /\ cancelled' = TRUE
    /\ UNCHANGED <<world, io, ring, buf, sock_end, lines_on_screen, waiting, room, ret, cut,
                   users, destroyed>>

(* Cancelled by another thread, it ends in pthread_cond_wait or in read,     *)
(* before it touches what has been freed.                                   *)
ReaderCancelled ==
    /\ Dies(reader, {"asleep", "read"})
    /\ reader' = DiesIn(reader)
    /\ waiting' = waiting \ {"reader"}
    /\ UNCHANGED <<world, io, ring, buf, sock_end, lines_on_screen, room, ret, cut, users, stop>>

-----------------------------------------------------------------------------
(* user_interaction *)

(* The bytes up to and including the first newline, or up to the end; r may *)
(* be empty, and then they run from down to the end of the array.           *)
LineEnds(r) == {n \in 1..PageRoom(r) : buf[r.down + n - 1] \in newlines}
LineLength(r) == IF LineEnds(r) = {} THEN PageRoom(r)
                 ELSE CHOOSE n \in LineEnds(r) : \A m \in LineEnds(r) : n <= m

UserTo(place, shown, sleepers) ==
    user' = place /\ lines_on_screen' = shown /\ waiting' = sleepers

(* From listen_stdin() on, the mutex held, up to giving it back. *)
UserPages(r, shown, sleepers) ==
    IF shown >= MaxLines THEN UserTo("key", shown, sleepers) /\ UNCHANGED page
    ELSE /\ UserTo("write", IF LineEnds(r) = {} THEN shown ELSE shown + 1, sleepers)
         /\ page' = LineLength(r)

(* Mutant: the loop ends with the connection. *)
AllSeenEarly(r) == sock_end
AllSeen(r) == r.empty /\ sock_end

(* The head of the loop, the mutex held, up to giving it back. *)
UserLoop(r, shown, sleepers) ==
    IF AllSeen(r) THEN UserTo("done", shown, sleepers) /\ UNCHANGED page
    ELSE IF r.empty THEN UserTo("asleep", shown, sleepers \cup {"user"}) /\ UNCHANGED page
    ELSE UserPages(r, shown, sleepers)

(* At the beginning, and wherever it takes the mutex again on its way there: *)
(* after the invitation, and after a key other than SPACE.                   *)
UserEnters ==
    /\ MutexFree /\ user = "start"
    /\ UserLoop(ring, lines_on_screen, waiting)
    /\ UNCHANGED <<world, io, ring, buf, sock_end, readers, stop>>

(* Back from pthread_cond_wait: asleep again while the buffer is empty and  *)
(* the connection up.  That both may have ended by now is not looked at.    *)
UserAwakes ==
    /\ MutexFree /\ Awake("user", user)
    /\ IF ring.empty /\ ~sock_end
       THEN UserTo("asleep", lines_on_screen, waiting \cup {"user"}) /\ UNCHANGED page
       ELSE UserPages(ring, lines_on_screen, waiting)
    /\ UNCHANGED <<world, io, ring, buf, sock_end, readers, stop>>

(* getchar(), without the mutex: SPACE turns the page (place "turn"), any    *)
(* other key goes round the loop.                                           *)
UserPressesSpace ==
    /\ user = "key" /\ ~cancelled
    /\ UserTo("turn", lines_on_screen, waiting)
    /\ lines' = 0
    /\ UNCHANGED <<world, received, screen, ring, buf, sock_end, readers, page, stop>>

UserPressesOther ==
    /\ user = "key" /\ ~cancelled
    /\ UserTo("start", lines_on_screen, waiting)
    /\ UNCHANGED <<world, io, ring, buf, sock_end, readers, page, stop>>

UserTurns ==
    /\ MutexFree /\ user = "turn"
    /\ UserPages(ring, 0, waiting)
    /\ UNCHANGED <<world, io, ring, buf, sock_end, readers, stop>>

(* write(), without the mutex. *)
UserWrites ==
    /\ user = "write" /\ ~cancelled
    /\ \E n \in 1..page :
          /\ Takes(n, page)
          /\ Display([i \in 1..n |-> buf[ring.down + i - 1]])
          /\ page' = n
    /\ user' = "written"
    /\ UNCHANGED <<world, received, ring, buf, sock_end, lines_on_screen, waiting, readers, stop>>

(* Lock, and down += ret. *)
UserAdvances ==
    /\ MutexFree /\ user = "written"
    /\ ring' = Advanced(ring, page)
    /\ user' = "wrap" /\ page' = 0
    /\ UNCHANGED <<world, io, buf, sock_end, lines_on_screen, waiting, readers, stop>>

(* The rest of the guarded code: wrap, flags, signal; if the screen is full *)
(* the mutex is given back for the invitation, else the loop goes on.       *)
UserSettles ==
    /\ user = "wrap"
    /\ ring' = Settled(ring)
    /\ IF lines_on_screen >= MaxLines
       THEN UserTo("invite", lines_on_screen, Told("reader")) /\ UNCHANGED page
       ELSE UserLoop(ring', lines_on_screen, Told("reader"))
    /\ UNCHANGED <<world, io, buf, sock_end, readers, stop>>

(* The two writes of the invitation. *)
UserInvites ==
    /\ user = "invite" /\ ~cancelled
    /\ UserTo("start", lines_on_screen, waiting)
    /\ UNCHANGED <<world, io, ring, buf, sock_end, readers, page, stop>>

(* write() of the page or of the invitation failed: as in ReaderFails. *)
UserFails ==
    /\ user \in {"write", "invite"}
    /\ user' = "failed" /\ cancelled' = TRUE
    /\ UNCHANGED <<world, io, ring, buf, sock_end, lines_on_screen, waiting, readers, page,
                   destroyed>>

(* Likewise in pthread_cond_wait, getchar or write.                         *)
UserCancelled ==
    /\ Dies(user, {"asleep", "key", "write", "invite"})
    /\ user' = DiesIn(user)
    /\ waiting' = waiting \ {"user"}
    /\ UNCHANGED <<world, io, ring, buf, sock_end, lines_on_screen, readers, page, stop>>

-----------------------------------------------------------------------------
SpuriousWakeup(t) ==
    /\ SpuriousWakeups /\ t \in waiting
    /\ waiting' = waiting \ {t}
    /\ UNCHANGED <<world, io, ring, buf, sock_end, lines_on_screen, readers, users, stop>>

Reader == \/ ReaderEnters \/ ReaderSize \/ ReaderReads \/ ReaderStores
          \/ ReaderFails \/ ReaderCancelled
UserOwn == \/ UserEnters \/ UserAwakes \/ UserTurns \/ UserWrites \/ UserAdvances
           \/ UserSettles \/ UserInvites \/ UserFails \/ UserCancelled
User == UserOwn \/ UserPressesSpace \/ UserPressesOther

(* main is back from both pthread_join. *)
Ended(t) == t \in {"done", "failed", "cancelled", "holding"}
Over == Ended(reader) /\ Ended(user)

(* Cancelled, the program hangs in pthread_join: one thread has died with   *)
(* the mutex and the other waits for it; or a thread has found the mutex    *)
(* destroyed when it wanted to sleep, tries again and again, and nobody is  *)
(* left to end its loop.                                                    *)
Stuck ==
    /\ cancelled /\ ~Over
    /\ \/ reader = "holding" /\ user \in {"start", "asleep", "turn", "written"}
       \/ user = "holding" /\ reader \in {"start", "asleep", "store"}
       \/ destroyed /\ reader = "asleep" /\ ring.full /\ Ended(user)
       \/ destroyed /\ user = "asleep" /\ ring.empty /\ ~sock_end /\ Ended(reader)

(* sigint_handler: cancel_and_free_all(), on top of whatever is going on.   *)
(* pthread_mutex_destroy() refuses a mutex that is held or given up for a   *)
(* wait, as it may be by the time it is called.  After it has destroyed the *)
(* mutex no lock excludes anybody, and the array is freed in any case; but  *)
(* no thread reads or shows anything any more.                              *)
Interrupt ==
    /\ ~cancelled /\ ~Over
    /\ cancelled' = TRUE
    /\ destroyed' \in BOOLEAN
    /\ destroyed' => "asleep" \notin {reader, user} /\ user # "wrap"
    /\ UNCHANGED <<world, io, ring, buf, sock_end, lines_on_screen, waiting, readers, users>>

Next == \/ Reader \/ User \/ Interrupt
        \/ SpuriousWakeup("reader") \/ SpuriousWakeup("user")

-----------------------------------------------------------------------------
(* The bytes of the page the ring has been told of. *)
Stocked == received - (IF reader = "store" /\ ret > 0 THEN ret ELSE 0)

(* The variables stay in their types; the offsets stay inside the array but *)
(* for the moment before the wrap, and no read runs over its end.           *)
TypeOK ==
    /\ (IF user = "wrap" THEN [ring EXCEPT !.down = 0] ELSE ring) \in Buffers
    /\ ring.down \in 0..BUF_SIZE
    /\ buf \in [Offsets -> 0..Total]
    /\ sock_end \in BOOLEAN /\ lines_on_screen \in 0..MaxLines
    /\ waiting \in SUBSET {"reader", "user"}
    /\ reader \in {"start", "asleep", "size", "read", "store", "done", "failed", "cancelled",
                   "holding"}
    /\ user \in {"start", "asleep", "key", "turn", "write", "written", "wrap", "invite", "done",
                 "failed", "cancelled", "holding"}
    /\ room \in (-BUF_SIZE)..BUF_SIZE /\ ret \in -1..BUF_SIZE /\ page \in 0..BUF_SIZE
    /\ reader = "read" => ring.up + room <= BUF_SIZE
    /\ cancelled \in BOOLEAN /\ destroyed \in BOOLEAN /\ cut \in BOOLEAN

(* The bytes on the screen the ring has been told of. *)
Taken == Len(screen) - (IF user = "written" THEN page ELSE 0)

(* As long as the connection lasts the bytes between down and up are        *)
(* exactly those read and not yet shown, in the order of the page.          *)
RingInOrder ==
    ~sock_end /\ user # "wrap" =>
       /\ Coherent(ring)
       /\ Held(ring) = Stocked - Taken
       /\ \A k \in 0..(Held(ring) - 1) : buf[Place(ring, k)] = Taken + 1 + k

(* The reader fills and the user shows at the same time, without the mutex: *)
(* never the same place of the array.                                       *)
Disjoint ==
    reader = "read" /\ user = "write" =>
       (ring.up..(ring.up + room - 1)) \cap (ring.down..(ring.down + page - 1)) = {}

(* A user thread that ends by itself has shown every byte that was read, in *)
(* order; and that was the whole page, unless a read of no bytes was taken  *)
(* for its end.  What the array last held may follow, but at most once: no  *)
(* more than the array is long.                                             *)
AllShown ==
    user = "done" =>
       /\ Len(screen) \in received..(received + BUF_SIZE)
       /\ \A k \in 1..received : screen[k] = k
       /\ cut \/ (server = "closed" /\ received = sent)

(* More is on the screen than was read: woken by the end of the connection, *)
(* the user's thread has shown what the array last held.                    *)
Stale == Len(screen) > received

(* read() only fails when the connection does. *)
ReadFailureIsReal == reader = "failed" => server = "reset"

=============================================================================
