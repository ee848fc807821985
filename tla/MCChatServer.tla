---------------------------- MODULE MCChatServer ----------------------------
(* Values of the constants of ChatServer for the runs of TLC.              *)
EXTENDS ChatServer, TLC

\* The order of std::string: "admin" < "test1".
MCRank == [u \in Users |-> IF u = "admin" THEN 0 ELSE 1]

Row(role) == [password |-> "123", state |-> <<>>, role |-> role]

\* An administrator and a user.
Rows == [admin |-> Row(ADMIN), test1 |-> Row(USER)]

DbOf(rooms) == [users |-> Rows, rooms |-> rooms, messages |-> {}]

\* Without a room and with one that has one place.
DbPair == DbOf(Empty)
DbRooms == DbOf([CBA |-> 1])

\* Names that the tables and the maps compare alike, and that are read back
\* as they are.
MCCollation == [name \in Users \cup Rooms |-> name]
Terminated == [r \in Rooms |-> {r}]

\* A name that may be read back longer.
Longer == [r \in Rooms |-> IF r = "CBA" THEN Rooms ELSE {r}]

Symmetry == Permutations(Fds)

AdminRequests ==
    {"loginn", "createUser", "modifyUser", "deleteUser", "joinn",
     "terminateChat", "createRoom", "modifyRoom", "deleteRoom", "showRoom",
     "getRoles", "getuser", "finduser"}

ChatRequests == {"loginn", "withh", "sendMess", "terminateChat", "deleteUser"}
=============================================================================
