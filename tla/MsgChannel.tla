----------------------------- MODULE MsgChannel -----------------------------
(***************************************************************************)
(* What a MyMsgQueue (lab23, lab24) promises to the threads that use it:   *)
(* a bounded FIFO channel that can be shut.  While the channel is open     *)
(* nobody is turned away; while it is being shut a call may either be      *)
(* served or turned away; once it is shut the undelivered messages are     *)
(* gone and no call is served any more.  Blocking is the absence of an     *)
(* enabled action.                                                         *)
(***************************************************************************)
EXTENDS Naturals, Sequences

CONSTANTS Producers,   \* threads that call put()
          Consumers,   \* threads that call get()
          Messages,    \* the texts put() may be given
          NoMessage,   \* "no text": not a member of Messages
          Capacity     \* how many messages the channel holds at most

VARIABLES channel,     \* the accepted, undelivered messages, oldest first
          received,    \* what each consumer was handed last
          phase,       \* "open", "shutting" or "shut"
          dismissed    \* the threads whose call was turned away

channelVars == <<channel, received, phase, dismissed>>

TypeOK ==
    /\ channel \in Seq(Messages)
    /\ received \in [Consumers -> Messages \cup {NoMessage}]
    /\ phase \in {"open", "shutting", "shut"}
    /\ dismissed \in SUBSET (Producers \cup Consumers)

Init ==
    /\ channel = <<>>
    /\ received = [c \in Consumers |-> NoMessage]
    /\ phase = "open"
    /\ dismissed = {}

(* A put that is served: the message joins the young end of the channel. *)
Accept(p, m) ==
    /\ phase # "shut"
    /\ p \notin dismissed
    /\ Len(channel) < Capacity
    /\ channel' = Append(channel, m)
    /\ UNCHANGED <<received, phase, dismissed>>

(* A get that is served: the consumer is handed the oldest message. *)
Deliver(c) ==
    /\ phase # "shut"
    /\ c \notin dismissed
    /\ channel # <<>>
    /\ received' = [received EXCEPT ![c] = Head(channel)]
    /\ channel' = Tail(channel)
    /\ UNCHANGED <<phase, dismissed>>

(* drop() announces the end ... *)
StartShutting ==
    /\ phase = "open"
    /\ phase' = "shutting"
    /\ UNCHANGED <<channel, received, dismissed>>

(* ... and throws the undelivered messages away. *)
Shut ==
    /\ phase = "shutting"
    /\ phase' = "shut"
    /\ channel' = <<>>
    /\ UNCHANGED <<received, dismissed>>

(* A put or get that returns 0: its thread never calls again. *)
Dismiss(t) ==
    /\ phase # "open"
    /\ t \notin dismissed
    /\ dismissed' = dismissed \cup {t}
    /\ UNCHANGED <<channel, received, phase>>

Next ==
    \/ \E p \in Producers, m \in Messages : Accept(p, m)
    \/ \E c \in Consumers : Deliver(c)
    \/ StartShutting
    \/ Shut
    \/ \E t \in Producers \cup Consumers : Dismiss(t)

Spec == Init /\ [][Next]_channelVars

=============================================================================
