------------------------------ MODULE Mailbox ------------------------------
(***************************************************************************)
(* What the server promises about private messages (README of the program: *)
(* "server will cache the message locally and will send to the user when   *)
(* user is online"), without accounts, connections and a database: a       *)
(* message is accepted, then handed to its receiver or stored; the stored  *)
(* messages of a receiver are handed out oldest first, then deleted, and   *)
(* none that is accepted later overtakes them.                             *)
(*                                                                         *)
(* An abstract specification: ServerMailbox says how ChatServer implements *)
(* it.                                                                     *)
(***************************************************************************)
EXTENDS Integers, Sequences

CONSTANT Receivers

VARIABLES
    to,      \* the receivers of the messages accepted, in order
    hand,    \* the message that is accepted and neither given nor stored
    stored,  \* the messages kept for later
    done,    \* those of them that were given and not deleted yet
    read,    \* what each receiver was given, in order
    missed   \* the messages given to a receiver that was just gone

vars == <<to, hand, stored, done, read, missed>>

Init ==
    /\ to = <<>>
    /\ hand = {}
    /\ stored = {}
    /\ done = {}
    /\ read = [v \in Receivers |-> <<>>]
    /\ missed = {}

\* The stored messages of a receiver.
Of(v) == {id \in stored : to[id] = v}

Accept(v) ==
    /\ hand = {}
    /\ done = {}
    /\ to' = Append(to, v)
    /\ hand' = {Len(to) + 1}
    /\ UNCHANGED <<stored, done, read, missed>>

Keep ==
    /\ hand # {}
    /\ stored' = stored \cup hand
    /\ hand' = {}
    /\ UNCHANGED <<to, done, read, missed>>

\* The message reaches its receiver, or the receiver has just gone.
Given(id) ==
    \/ read' = [read EXCEPT ![to[id]] = Append(@, id)] /\ UNCHANGED missed
    \/ missed' = missed \cup {id} /\ UNCHANGED read

\* A new message is given at once if none is stored for its receiver.
Deliver ==
    /\ \E id \in hand : Of(to[id]) = {} /\ Given(id)
    /\ hand' = {}
    /\ UNCHANGED <<to, stored, done>>

\* The oldest stored message of a receiver that was not given yet.
Replay(id) ==
    /\ id \in stored \ done
    /\ \A older \in Of(to[id]) : older < id => older \in done
    /\ Given(id)
    /\ done' = done \cup {id}
    /\ UNCHANGED <<to, hand, stored>>

\* Stored messages are deleted when all of their receiver were given.
Forget(v) ==
    /\ Of(v) # {}
    /\ Of(v) \subseteq done
    /\ stored' = stored \ Of(v)
    /\ done' = done \ Of(v)
    /\ UNCHANGED <<to, hand, read, missed>>

\* The server ends: what it was about to do is forgotten, so a message can be
\* lost before it is stored, and a stored one can be given a second time.
Lose ==
    /\ hand' = {}
    /\ done' = {}
    /\ UNCHANGED <<to, stored, read, missed>>

Next ==
    \/ \E v \in Receivers : Accept(v)
    \/ Keep
    \/ Deliver
    \/ \E id \in stored : Replay(id)
    \/ \E v \in Receivers : Forget(v)
    \/ Lose

Spec == Init /\ [][Next]_vars
=============================================================================
