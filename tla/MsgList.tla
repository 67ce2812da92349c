------------------------------- MODULE MsgList ------------------------------
(***************************************************************************)
(* The doubly linked list inside MyMsgQueue, pointer by pointer; lab23 and *)
(* lab24 have the same code.  MsgQueueSem and MsgQueueCond show that the   *)
(* list is only worked on by one thread at a time, so linking a node and   *)
(* unlinking one are single steps.  Not guarded are the copy and free of   *)
(* an unlinked node, which overlap everything else, and the steps of       *)
(* drop()'s loop are told apart because of them.                           *)
(***************************************************************************)
EXTENDS Integers, Sequences, FiniteSets

CONSTANTS Producers, Consumers, Messages, NoMessage,
          Nodes,       \* the heap cells malloc can return
          Null,        \* the null pointer
          Wild         \* what an uninitialised or freed cell holds

VARIABLES first, last,       \* q->first, where put links; q->last, where get unlinks
          next, prev, value, \* the fields of each cell
          alive,             \* the cells allocated
          l,                 \* what each get has unlinked and not freed, or Null
          received,          \* the buffer of each consumer
          l1,                \* local variable of drop()
          phase              \* "open", "closing", "dropping" or "dropped"

cells == <<next, prev, value, alive>>
vars == <<first, last, next, prev, value, alive, l, received, l1, phase>>

Pointers == Nodes \cup {Null}
InUse == phase \in {"open", "closing"}   \* put and get still work on the list

Init ==
    /\ first = Null /\ last = Null
    /\ next = [n \in Nodes |-> Wild] /\ prev = [n \in Nodes |-> Wild]
    /\ value = [n \in Nodes |-> NoMessage]
    /\ alive = {}
    /\ l = [c \in Consumers |-> Null]
    /\ received = [c \in Consumers |-> NoMessage]
    /\ l1 = Null
    /\ phase = "open"

(* free(n): the cell's content is gone. *)
Free(n) ==
    /\ alive' = alive \ {n}
    /\ next' = [next EXCEPT ![n] = Wild]
    /\ prev' = [prev EXCEPT ![n] = Wild]
    /\ value' = [value EXCEPT ![n] = NoMessage]

(* Mutant: the old first node is not told of the new one. *)
TellNobody(n) == prev' = [prev EXCEPT ![n] = Null]
TellFirst(n) == prev' = [x \in Nodes |-> CASE x = n -> Null [] x = first -> n
                                           [] OTHER -> prev[x]]

(* put: malloc a node and link it in front of q->first. *)
Link(p) ==
    /\ InUse
    /\ \E n \in Nodes \ alive, m \in Messages :
          /\ alive' = alive \cup {n}
          /\ value' = [value EXCEPT ![n] = m]
          /\ TellFirst(n)
          /\ next' = [next EXCEPT ![n] = first]
          /\ first' = n
          /\ last' = IF first = Null THEN n ELSE last
    /\ UNCHANGED <<l, received, l1, phase>>

(* get: unlink q->last.  That the list is not empty is what GetFindsMessage *)
(* of the two queues is about.                                              *)
Unlink(c) ==
    /\ InUse
    /\ last # Null /\ l[c] = Null
    /\ l' = [l EXCEPT ![c] = last]
    /\ IF first # last
       THEN /\ last' = prev[last]
            /\ next' = [next EXCEPT ![prev[last]] = Null]
            /\ UNCHANGED first
       ELSE first' = Null /\ last' = Null /\ UNCHANGED next
    /\ UNCHANGED <<prev, value, alive, received, l1, phase>>

(* Mutant: the node is freed before its text is copied. *)
TextFreed(n) == NoMessage
Text(n) == value[n]

(* get, after its unlock, whatever drop() is doing: copy the text and free  *)
(* the node.                                                                *)
Release(c) ==
    /\ l[c] # Null
    /\ received' = [received EXCEPT ![c] = Text(l[c])]
    /\ Free(l[c])
    /\ l' = [l EXCEPT ![c] = Null]
    /\ UNCHANGED <<first, last, l1, phase>>

(* drop() sets `destroying', which a put or get under way may have read ... *)
DropAnnounce ==
    /\ phase = "open"
    /\ phase' = "closing"
    /\ UNCHANGED <<first, last, cells, l, received, l1>>

(* ... and takes the lock. *)
DropBegin ==
    /\ phase = "closing"
    /\ phase' = "dropping"
    /\ l1' = first
    /\ UNCHANGED <<first, last, cells, l, received>>

(* Mutant: the loop stops at the last node instead of after it. *)
DropEndEarly ==
    /\ phase = "dropping" /\ (l1 = Null \/ l1 = last)
    /\ phase' = "dropped"
    /\ UNCHANGED <<first, last, cells, l, received, l1>>

(* l2 = l1->next; free(l1); l1 = l2 *)
DropStep ==
    /\ phase = "dropping" /\ l1 # Null
    /\ l1' = next[l1]
    /\ Free(l1)
    /\ UNCHANGED <<first, last, l, received, phase>>

(* The loop is over: free(q). *)
DropEnd ==
    /\ phase = "dropping" /\ l1 = Null
    /\ phase' = "dropped"
    /\ UNCHANGED <<first, last, cells, l, received, l1>>

Over == phase = "dropped" /\ \A c \in Consumers : l[c] = Null

Next ==
    \/ \E p \in Producers : Link(p)
    \/ \E c \in Consumers : Unlink(c) \/ Release(c)
    \/ DropAnnounce \/ DropBegin \/ DropStep \/ DropEnd

Spec == Init /\ [][Next]_vars

-----------------------------------------------------------------------------
(* The cells of the list, oldest first: from q->last along prev. *)
Behind[i \in 0..Cardinality(Nodes)] ==
    IF i = 0 THEN last
    ELSE IF Behind[i - 1] \in Nodes THEN prev[Behind[i - 1]] ELSE Null
Order == [i \in 1..Cardinality({j \in DOMAIN Behind : Behind[j] \in Nodes})
             |-> Behind[i - 1]]

Linked == {Order[i] : i \in DOMAIN Order}
Taken == {l[c] : c \in {d \in Consumers : l[d] # Null}}

TypeOK ==
    /\ first \in Pointers /\ last \in Pointers /\ l1 \in Pointers
    /\ next \in [Nodes -> Pointers \cup {Wild}]
    /\ prev \in [Nodes -> Pointers \cup {Wild}]
    /\ value \in [Nodes -> Messages \cup {NoMessage}]
    /\ alive \in SUBSET Nodes
    /\ l \in [Consumers -> Pointers]
    /\ received \in [Consumers -> Messages \cup {NoMessage}]
    /\ phase \in {"open", "closing", "dropping", "dropped"}

(* Both directions tell the same story: next leads from q->first through    *)
(* exactly the nodes that prev leads through from q->last, and ends in a    *)
(* null pointer; the nodes allocated are those linked and those a get still *)
(* holds, none of them both or held by two; and drop()'s loop, which no get *)
(* keeps out, follows no pointer into a free cell or into a get's node.     *)
ListShape ==
    LET len == Len(Order) IN
    /\ InUse =>
          /\ first = (IF len = 0 THEN Null ELSE Order[len])
          /\ \A i \in 1..len : next[Order[i]] = (IF i = 1 THEN Null ELSE Order[i - 1])
          /\ \A i, j \in 1..len : i # j => Order[i] # Order[j]
          /\ Linked \cap Taken = {}
          /\ alive = Linked \cup Taken
    /\ phase = "dropping" => l1 \in (alive \ Taken) \cup {Null}
    /\ \A c, d \in Consumers : l[c] = l[d] /\ l[c] # Null => c = d

(* When drop() is through, all that is still allocated is what a get holds  *)
(* and will free.                                                           *)
DropFreesAll == phase = "dropped" => alive = Taken

(* The list as a channel: what is linked, oldest first, until drop() takes   *)
(* it; a text counts as received from the moment its node is unlinked.       *)
ChannelBar == IF InUse THEN [i \in DOMAIN Order |-> value[Order[i]]] ELSE <<>>
ReceivedBar == [c \in Consumers |-> IF l[c] = Null THEN received[c] ELSE value[l[c]]]
PhaseBar == IF phase = "open" THEN "open"
            ELSE IF phase = "closing" THEN "shutting" ELSE "shut"
Channel == INSTANCE MsgChannel WITH
    Capacity <- Cardinality(Nodes),
    channel <- ChannelBar, received <- ReceivedBar, phase <- PhaseBar, dismissed <- {}

(* The list is the channel MsgChannel describes: texts come out in the      *)
(* order in which they went in, each once and unaltered.                    *)
FifoList == Channel!Spec

=============================================================================
