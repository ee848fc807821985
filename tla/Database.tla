------------------------------ MODULE Database ------------------------------
(***************************************************************************)
(* The MySQL database of the server (server/init.sql) as a record of its   *)
(* three tables, and the statements the data-access classes of             *)
(* server/responsibility send it, each as an operator on that record.      *)
(* Every statement is a transaction of its own (autocommit).               *)
(*                                                                         *)
(* The id of a row of messages is an AUTO_INCREMENT number; rows are       *)
(* compared only by the order of their ids, so the number of the message   *)
(* in the order of sending stands for it.                                  *)
(***************************************************************************)
EXTENDS ChatBase

\* MySQL compares keys by a collation, in which names that differ in case only
\* are equal; the maps of the server compare them exactly.
CONSTANT Collation

ASSUME CollationAssumption == DOMAIN Collation = Users \cup Rooms

\* users.state is one VARCHAR: NULL, "<user>" or "ROOM <room>".  A value of
\* it is the sequence of its words, so account names are one word here.
Columns == {<<>>} \cup {<<u>> : u \in Users} \cup {<<"ROOM", r>> : r \in Rooms}

\* PROCEDURE SetState
ColumnOf(state) ==
    CASE state.type = 1 -> <<state.name>>
      [] state.type = 2 -> <<"ROOM", state.name>>
      [] OTHER -> <<>>

\* usersDA::selectAllUsers, the decoding of the column.
StateOf(column) ==
    CASE column = <<>> -> Idle
      [] Len(column) = 2 -> InRoom(column[2])
      [] OTHER -> WithUser(column[1])

UserRows == [password : Passwords, state : Columns, role : Roles]

MessageRows == [id : Nat, sender : Users, receiver : Users, mess : Texts]

IsDatabase(d) ==
    /\ d = [users |-> d.users, rooms |-> d.rooms, messages |-> d.messages]
    /\ IsMap(d.users, Users, UserRows)
    /\ IsMap(d.rooms, Rooms, Nat)
    /\ d.messages \subseteq MessageRows

-----------------------------------------------------------------------------
(* The statements.                                                         *)

clearState(u) == [op |-> "clearState", user |-> u]
updateState(u, st) == [op |-> "updateState", user |-> u, state |-> st]
insertUser(u, p, role) ==
    [op |-> "insertUser", user |-> u, password |-> p, role |-> role]
modifyUser(u, p, role) ==
    [op |-> "modifyUser", user |-> u, password |-> p, role |-> role]
deleteUser(u) == [op |-> "deleteUser", user |-> u]
insertRoom(r, c) == [op |-> "insertRoom", room |-> r, capacity |-> c]
modifyRoom(r, c) == [op |-> "modifyRoom", room |-> r, capacity |-> c]
deleteRoom(r) == [op |-> "deleteRoom", room |-> r]
saveMessage(row) == [op |-> "saveMessage", row |-> row]
deleteMessageOfUser(u) == [op |-> "deleteMessageOfUser", user |-> u]

Statements ==
    [op : {"clearState", "deleteUser", "deleteMessageOfUser"}, user : Users]
    \cup [op : {"updateState"}, user : Users, state : States]
    \cup [op : {"insertUser", "modifyUser"}, user : Users,
          password : Passwords, role : Roles]
    \cup [op : {"insertRoom", "modifyRoom"}, room : Rooms, capacity : Nat]
    \cup [op : {"deleteRoom"}, room : Rooms]
    \cup [op : {"saveMessage"}, row : MessageRows]

-----------------------------------------------------------------------------
(* What a statement does to the tables.                                    *)

RunSetState(d, u, column) ==
    IF u \in DOMAIN d.users THEN [d EXCEPT !.users[u].state = column] ELSE d

RunInsertUser(d, u, p, role) ==
    [d EXCEPT !.users =
        Put(@, u, [password |-> p, state |-> <<>>, role |-> role])]

\* Mutant: the UPDATE of the procedure forgets the role.
RunModifyPassword(d, u, p, role) ==
    IF u \in DOMAIN d.users THEN [d EXCEPT !.users[u].password = p] ELSE d

RunModifyUser(d, u, p, role) ==
    IF u \in DOMAIN d.users
    THEN [d EXCEPT !.users[u].password = p, !.users[u].role = role]
    ELSE d

RunDeleteUser(d, u) == [d EXCEPT !.users = Erase(@, u)]

RunInsertRoom(d, r, c) == [d EXCEPT !.rooms = Put(@, r, c)]

RunModifyRoom(d, r, c) ==
    IF r \in DOMAIN d.rooms THEN [d EXCEPT !.rooms[r] = c] ELSE d

RunDeleteRoom(d, r) == [d EXCEPT !.rooms = Erase(@, r)]

\* Mutant: a receiver has one row, which is overwritten.
RunSaveLast(d, row) ==
    [d EXCEPT !.messages = {r \in @ : r.receiver # row.receiver} \cup {row}]

RunSaveMessage(d, row) == [d EXCEPT !.messages = @ \cup {row}]

RunDeleteMessageOfUser(d, u) ==
    [d EXCEPT !.messages = {row \in @ : row.receiver # u}]

Run(d, s) ==
    CASE s.op = "clearState" -> RunSetState(d, s.user, <<>>)
      [] s.op = "updateState" -> RunSetState(d, s.user, ColumnOf(s.state))
      [] s.op = "insertUser" -> RunInsertUser(d, s.user, s.password, s.role)
      [] s.op = "modifyUser" -> RunModifyUser(d, s.user, s.password, s.role)
      [] s.op = "deleteUser" -> RunDeleteUser(d, s.user)
      [] s.op = "insertRoom" -> RunInsertRoom(d, s.room, s.capacity)
      [] s.op = "modifyRoom" -> RunModifyRoom(d, s.room, s.capacity)
      [] s.op = "deleteRoom" -> RunDeleteRoom(d, s.room)
      [] s.op = "saveMessage" -> RunSaveMessage(d, s.row)
      [] s.op = "deleteMessageOfUser" -> RunDeleteMessageOfUser(d, s.user)

\* A row whose key the primary key of a table does not tell from name.
Taken(table, name) == \E key \in DOMAIN table : Collation[key] = Collation[name]

\* The statements the primary keys and the foreign keys of init.sql reject:
\* the connector throws sql::SQLException, which nothing in the server catches.
\* The other statements name a row that is there exactly, and no two rows are
\* equal in the collation.
Rejected(d, s) ==
    \/ s.op = "insertUser" /\ Taken(d.users, s.user)
    \/ s.op = "insertRoom" /\ Taken(d.rooms, s.room)
    \/ s.op = "saveMessage" /\ {s.row.sender, s.row.receiver} \ DOMAIN d.users # {}
    \/ /\ s.op = "deleteUser"
       /\ \E row \in d.messages : s.user \in {row.sender, row.receiver}

-----------------------------------------------------------------------------
(* The queries.                                                            *)

\* CALL getMessageOfUser
getMessageOfUser(d, u) == {row \in d.messages : row.receiver = u}

\* FUNCTION haveOfflineMessage
haveOfflineMessage(d, u) ==
    \E row \in d.messages : u \in {row.sender, row.receiver}
=============================================================================
