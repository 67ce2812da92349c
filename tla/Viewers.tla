------------------------------- MODULE Viewers ------------------------------
(* The page viewers of lab26, lab27 and lab28, of which one is run, with the *)
(* server it shows a page of and the user who looks at it; and the promise   *)
(* of module Pager, which each of them keeps as far as its code goes.        *)
EXTENDS CyclicalBuf, PageWorld

CONSTANTS Programs,          \* those looked at
          SpuriousWakeups,
          AioSize, AioTotal, \* bounds for lab27: BUF_SIZE and the bytes sent
          MaxLost            \* bound: lab27 is followed until as many results are lost

ASSUME ViewersAssumption == /\ Programs \subseteq {"lab26", "lab27", "lab28"}
                            /\ SpuriousWakeups \in BOOLEAN /\ MaxLost \in Nat \ {0}
                            /\ AioSize \in Nat \ {0} /\ AioTotal \in 0..Total

VARIABLES program, lines_on_screen
VARIABLES ring, buf, sock_end                                   \* lab26, lab28
VARIABLES stdin, ready, gone, pc                                \* lab26
VARIABLES waiting, reader, user, room, ret, page, cancelled,
          destroyed, cut                                        \* lab28
VARIABLES nodes, offset, finished, running, raw, click, error, aio_nbytes, result,
          rw_in_progress, lost, missed, place                           \* lab27

world == <<network, keys, io>>
shared == <<ring, buf, sock_end>>
select == <<stdin, ready, gone, pc>>
threads == <<waiting, reader, user, room, ret, page, cancelled, destroyed, cut>>
aio == <<nodes, offset, finished, running, raw, click, error, aio_nbytes, result,
         rw_in_progress, lost, missed, place>>
vars == <<program, lines_on_screen, world, shared, select, threads, aio>>

Select == INSTANCE PagerSelect
Threads == INSTANCE PagerThreads
Aio == INSTANCE PagerAio WITH BUF_SIZE <- AioSize

Init ==
    /\ program \in Programs
    /\ WorldInit
    /\ Select!Init /\ Threads!Init /\ Aio!Init
    /\ program # "lab28" => newlines = {}

Followed == program = "lab27" => lost < MaxLost

Lab26(step) == program = "lab26" /\ step /\ UNCHANGED <<program, threads, aio>>
Lab27(step) == /\ program = "lab27" /\ Followed /\ step
               /\ UNCHANGED <<program, shared, select, threads>>
Lab28(step) == program = "lab28" /\ step /\ UNCHANGED <<program, select, aio>>

Over == CASE program = "lab26" -> Select!Over
          [] program = "lab27" -> Aio!Over
          [] OTHER -> Threads!Over

(* lab28: cancelled, it waits for ever. *)
Hangs == program = "lab28" /\ Threads!Stuck

(* The server and the user.  In lab28 the user answers getchar() itself; in  *)
(* lab27 a key typed before the keyboard is read is thrown away, and in      *)
(* lab26 one typed before the screen is full waits until it is.              *)
World(step) ==
    /\ ~Over /\ Followed /\ step
    /\ program = "lab27" => sent' <= AioTotal
    /\ UNCHANGED <<program, lines_on_screen, shared, select, threads, aio>>

Types(key) == /\ \/ program = "lab26" /\ Select!Full /\ Len(keys \o stdin) < MaxKeys
                 \/ program = "lab27" /\ Aio!KeyAwaited /\ keys = <<>>
              /\ World(Type(key))

Next ==
    \/ Lab26(Select!Next) \/ Lab27(Aio!Next) \/ Lab28(Threads!Next)
    \/ World(Server) \/ (\E key \in Keys : Types(key))
    \/ (Over \/ Hangs \/ ~Followed) /\ UNCHANGED vars

Spec == Init /\ [][Next]_vars

(* The programs and the requests of lab27 are carried out, and the mutex of  *)
(* lab28 need not be fair.  Of the world it is assumed that the server does  *)
(* not go silent and that the user, shown a full screen again and again,     *)
(* presses SPACE.  Nothing is assumed of SIGINT, failures and wake-ups that  *)
(* nobody signalled.                                                         *)
Fairness ==
    /\ WF_vars(World(Server))
    /\ WF_vars(Lab26(Select!load_content_from_server))
    /\ SF_vars(program = "lab26" /\ Types("space"))
    /\ WF_vars(Lab27(Aio!load_content_from_server))
    /\ WF_vars(Lab27(Aio!StdinEnds)) /\ WF_vars(Lab27(Aio!StdoutEnds))
    /\ WF_vars(Lab27(Aio!SocketEnds \/ Aio!RequestFails("socket")))
    /\ SF_vars(program = "lab27" /\ Types("space"))
    /\ WF_vars(Lab28(Threads!Reader)) /\ WF_vars(Lab28(Threads!UserOwn))
    /\ SF_vars(Lab28(Threads!UserPressesSpace))
    /\ WF_vars(Lab28(Threads!UserPressesSpace \/ Threads!UserPressesOther))

LiveSpec == Spec /\ Fairness

-----------------------------------------------------------------------------
(* The variables of the program stay in their types. *)
TypeOK ==
    /\ program \in Programs /\ WorldTypes
    /\ CASE program = "lab26" -> Select!TypeOK
         [] program = "lab27" -> Aio!TypeOK
         [] OTHER -> Threads!TypeOK

(* The bytes of the page lie between the socket and the screen in order and  *)
(* each once: in the ring of lab26 and lab28, in the queue of lab27.         *)
BytesInOrder == CASE program = "lab26" -> Select!RingInOrder
                  [] program = "lab27" -> Aio!QueueInOrder
                  [] OTHER -> Threads!RingInOrder

(* A program that ends by itself has shown the whole page: lab26 and lab27   *)
(* that and nothing else, unless a result was overlooked; lab28 unless it     *)
(* took a read of no bytes for the end, and perhaps with up to an array of    *)
(* stale bytes after the last one.                                            *)
AllShown == CASE program = "lab26" -> Select!AllShown
              [] program = "lab27" -> Aio!AllShown
              [] OTHER -> Threads!AllShown

(* lab28: read() and write() never touch the same place of the array.        *)
Disjoint == Threads!Disjoint

(* lab27: while the loop runs the terminal is switched over just while a     *)
(* full screen waits for a key.                                              *)
TerminalFollowsScreen == program = "lab27" => Aio!TerminalFollowsScreen

(* The viewer does what Pager describes, until lab26 goes on with memory its *)
(* SIGINT handler has freed, lab27 overlooks the result of a request or      *)
(* finds no newline in memory it has freed, or lab28 is cancelled or shows   *)
(* what lay in the array before.                                             *)
Page == INSTANCE Pager WITH
            excused <- CASE program = "lab26" -> gone
                         [] program = "lab27" -> lost > 0 \/ missed
                         [] OTHER -> cancelled \/ Threads!Stale
ShowsThePage == Page!Spec

(* The program comes to an end, and never waits for what cannot come; lab27  *)
(* unless it overlooks the result of a request or a request fails, lab28     *)
(* unless it is cancelled when one of its threads waits, or is about to      *)
(* wait, on the condition variable.                                          *)
Ends == <>(Over \/ Hangs \/ lost > 0 \/ \E r \in Aio!Requests : error[r] = "error")

(* lab28: read() only fails when the connection does. *)
ReadFailureIsReal == Threads!ReadFailureIsReal

(* lab27: a SPACE that has been typed turns the page before another key is   *)
(* asked for.                                                                *)
SpaceScrolls == Aio!SpaceScrolls
=============================================================================
