---------------------------- MODULE MCChatSystem ----------------------------
(* Values of the constants of ChatSystem for the runs of TLC.              *)
EXTENDS ChatSystem, TLC

\* The order of std::string: "admin" < "test1" < "test2".
MCRank == [u \in Users |-> CASE u = "admin" -> 0 [] u = "test1" -> 1 [] OTHER -> 2]

Account(role) == [password |-> "123", state |-> <<>>, role |-> role]

DbOf(users, rooms) == [users |-> users, rooms |-> rooms, messages |-> {}]

Accounts2 == [admin |-> Account(ADMIN), test1 |-> Account(USER)]

\* Two accounts and no room, a room for one of them, a room for both.
DbNoRoom == DbOf(Accounts2, [r \in {} |-> r])
DbPair == DbOf(Accounts2, [CBA |-> 1])
DbWide == DbOf(Accounts2, [CBA |-> 2])

\* Names that the tables and the maps compare alike, and that are read back
\* as they are.
MCCollation == [name \in Users \cup Rooms |-> name]
Terminated == [r \in Rooms |-> {r}]

Symmetry == Permutations(Fds)

\* Without and with messages, which wake the client that waits.
QuietRequests ==
    {"loginn", "withh", "joinn", "terminateChat", "deleteRoom", "modifyRoom"}
ChatRequests == {"loginn", "withh", "joinn", "terminateChat", "sendMess"}

\* What it takes to be woken too early and to send one command too many.
StrayRequests == ChatRequests \ {"terminateChat"}

\* A line of each prompt; main waits after each of them.
WaitRequests == {"loginn", "withh", "joinn", "terminateChat"}
=============================================================================
