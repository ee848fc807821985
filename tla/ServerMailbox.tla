--------------------------- MODULE ServerMailbox ---------------------------
(***************************************************************************)
(* ChatServer implements Mailbox: the messages stored are the rows of the  *)
(* table, the one in hand is in a call not made yet, and those done are    *)
(* the rows the loop of handleOfflineMessage has written.                  *)
(*                                                                         *)
(* Two cases are left out, both described in README.md: a login into a     *)
(* restored room that is full returns before the stored messages are       *)
(* written, so there are no rooms or no restarts; a blank message ends the *)
(* loop, so there are none.                                                *)
(***************************************************************************)
EXTENDS ChatServer

ASSUME NoReturnAssumption == Rooms = {} \/ MaxRestarts = 0

ASSUME NoBlankAssumption == Texts = {"text"}

Pending == {todo[i] : i \in 1..Len(todo)}

StoredIds == {row.id : row \in db.messages}

\* The numbers of the messages a call is about to write.
WrittenNext == {call.pk.id : call \in {w \in Pending : w.op = "write"}} \ {0}

SavedNext ==
    {call.stmt.row.id : call \in {s \in Pending :
                            s.op = "sql" /\ s.stmt.op = "saveMessage"}}

\* The rows of its user that a replay has passed; after the end of the loop,
\* all that the deletion is about to remove.
Passed(call) ==
    CASE call.op = "replay" ->
            {row.id : row \in {r \in getMessageOfUser(db, call.user) :
                                  r.id <= call.after}}
      [] /\ call.op = "sql"
         /\ call.stmt.op = "deleteMessageOfUser"
         /\ \A other \in Pending : other.op # "replay" ->
            {row.id : row \in getMessageOfUser(db, call.stmt.user)}
      [] OTHER -> {}

M == INSTANCE Mailbox WITH
        Receivers <- Users,
        to <- [i \in 1..Len(chats) |-> chats[i].to],
        hand <- SavedNext \cup (WrittenNext \ StoredIds),
        stored <- StoredIds,
        done <- (UNION {Passed(call) : call \in Pending}) \ WrittenNext,
        read <- seen,
        missed <- dropped

\* Private messages are neither lost, repeated nor reordered other than by the
\* end of the process: acceptance, direct delivery, storing, the replay at a
\* login and the deletion after it follow the abstract mailbox, whatever
\* logins, disconnects, resets and crashes fall between their calls.
KeepsMailbox == M!Spec
=============================================================================
