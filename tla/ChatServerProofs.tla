-------------------------- MODULE ChatServerProofs --------------------------
(***************************************************************************)
(* Theorems about the memory of the server and its database, for every set *)
(* of accounts, rooms and descriptors: type correctness; the rooms are     *)
(* sound and their members in them; between two handlers memory and        *)
(* database agree, no statement is rejected, an administrator survives.    *)
(* With them are the lemmas about the operators ChatServer is built from   *)
(* that the other proofs need too: what the statements, the calls and the  *)
(* lookups return.                                                         *)
(***************************************************************************)
EXTENDS ChatServer, TLAPS, FiniteSetTheorems, WellFoundedInduction,
        NaturalsInduction, SequenceTheorems

-----------------------------------------------------------------------------
(* Partial functions and least elements.                                   *)

\* A map stays one when a value of its type is put at a key of its type.
LEMMA PutIsMap ==
    ASSUME NEW K, NEW V, NEW f, IsMap(f, K, V), NEW k \in K, NEW v \in V
    PROVE  IsMap(Put(f, k, v), K, V)
BY DEF IsMap, Put

\* A map stays one when a key is erased.
LEMMA EraseIsMap ==
    ASSUME NEW K, NEW V, NEW f, IsMap(f, K, V), NEW k
    PROVE  IsMap(Erase(f, k), K, V)
BY DEF IsMap, Erase, Restrict

\* A map stays one when the value of a key is replaced.
LEMMA ExceptIsMap ==
    ASSUME NEW K, NEW V, NEW f, IsMap(f, K, V), NEW k, NEW v \in V
    PROVE  IsMap([f EXCEPT ![k] = v], K, V)
BY DEF IsMap

\* The map of a process that is not running.
LEMMA EmptyIsMap ==
    ASSUME NEW K, NEW V
    PROVE  IsMap(Empty, K, V)
BY DEF IsMap, Empty

\* A value of a map is of its type.
LEMMA MapValue ==
    ASSUME NEW K, NEW V, NEW f, IsMap(f, K, V), NEW k \in DOMAIN f
    PROVE  k \in K /\ f[k] \in V
BY DEF IsMap

\* What Put and Erase do to the domain and to each value.
LEMMA PutValues ==
    ASSUME NEW f, NEW k, NEW v
    PROVE  /\ DOMAIN Put(f, k, v) = DOMAIN f \cup {k}
           /\ Put(f, k, v)[k] = v
           /\ \A x \in DOMAIN f : x # k => Put(f, k, v)[x] = f[x]
BY DEF Put

LEMMA InsertIsMap ==
    ASSUME NEW K, NEW V, NEW f, IsMap(f, K, V), NEW k \in K, NEW v \in V
    PROVE  IsMap(Insert(f, k, v), K, V)
BY PutIsMap DEF Insert

LEMMA EraseValues ==
    ASSUME NEW f, NEW k
    PROVE  /\ DOMAIN Erase(f, k) = DOMAIN f \ {k}
           /\ \A x \in DOMAIN f : x # k => Erase(f, k)[x] = f[x]
BY DEF Erase, Restrict

\* A set of natural numbers that is not empty has a least element.
LEMMA LeastNat ==
    ASSUME NEW T \in SUBSET Nat, T # {}
    PROVE  \E x \in T : \A y \in T : x <= y
<1>1. \E x \in T : \A y \in T : <<y, x>> \notin OpToRel(<, Nat)
      BY WFMin, NatLessThanWellFounded, Zenon
<1>2. PICK x \in T : \A y \in T : <<y, x>> \notin OpToRel(<, Nat)
      BY <1>1
<1>3. \A y \in T : ~(y < x)
      BY <1>2 DEF OpToRel
<1>. QED  BY <1>3


-----------------------------------------------------------------------------
(* States and columns.                                                     *)

\* The column SetState writes for a state is one the users table may hold.
LEMMA ColumnOfType ==
    ASSUME NEW st \in States
    PROVE  ColumnOf(st) \in Columns
BY DEF States, Idle, WithUser, InRoom, ColumnOf, Columns

\* What selectAllUsers makes of a column is a state.
LEMMA StateOfType ==
    ASSUME NEW column \in Columns
    PROVE  StateOf(column) \in States
<1>1. CASE column = <<>>
      BY <1>1 DEF StateOf, States
<1>2. ASSUME NEW u \in Users, column = <<u>>
      PROVE  StateOf(column) \in States
      BY <1>2 DEF StateOf, States
<1>3. ASSUME NEW r \in Rooms, column = <<"ROOM", r>>
      PROVE  StateOf(column) \in States
      BY <1>3 DEF StateOf, States
<1>. QED  BY <1>1, <1>2, <1>3 DEF Columns

\* What a state of each type names.
LEMMA StateNames ==
    ASSUME NEW st \in States
    PROVE  /\ st.type = 0 => st.name = NoName
           /\ st.type = 1 => st.name \in Users
           /\ st.type = 2 => st.name \in Rooms
           /\ st.type \in {0, 1, 2}
BY DEF States, Idle, WithUser, InRoom

-----------------------------------------------------------------------------
(* The database.                                                           *)

\* The fields of a database with other users, rooms or messages.
LEMMA DatabaseFields ==
    ASSUME NEW d, IsDatabase(d), NEW x
    PROVE  /\ [d EXCEPT !.users = x] =
                   [users |-> x, rooms |-> d.rooms, messages |-> d.messages]
           /\ [d EXCEPT !.rooms = x] =
                   [users |-> d.users, rooms |-> x, messages |-> d.messages]
           /\ [d EXCEPT !.messages = x] =
                   [users |-> d.users, rooms |-> d.rooms, messages |-> x]
BY DEF IsDatabase

\* A database stays one when a table is replaced by one of its type.
LEMMA NewTable ==
    ASSUME NEW d, IsDatabase(d), NEW x
    PROVE  /\ IsMap(x, Users, UserRows) => IsDatabase([d EXCEPT !.users = x])
           /\ IsMap(x, Rooms, Nat) => IsDatabase([d EXCEPT !.rooms = x])
           /\ x \subseteq MessageRows => IsDatabase([d EXCEPT !.messages = x])
BY DatabaseFields DEF IsDatabase

\* SetState leaves a database.
LEMMA SetStateType ==
    ASSUME NEW d, IsDatabase(d), NEW u, NEW column \in Columns
    PROVE  IsDatabase(RunSetState(d, u, column))
<1>. SUFFICES ASSUME u \in DOMAIN d.users
              PROVE  IsDatabase([d EXCEPT !.users[u].state = column])
     BY DEF RunSetState
<1>. DEFINE row == [d.users[u] EXCEPT !.state = column]
<1>1. IsMap(d.users, Users, UserRows)
      BY DEF IsDatabase
<1>2. row \in UserRows
      BY <1>1 DEF IsMap, UserRows
<1>3. IsMap([d.users EXCEPT ![u] = row], Users, UserRows)
      BY <1>1, <1>2, ExceptIsMap
<1>. QED  BY <1>3, NewTable

\* modifyUser leaves a database.
LEMMA ModifyUserType ==
    ASSUME NEW d, IsDatabase(d), NEW u, NEW p \in Passwords, NEW role \in Roles
    PROVE  IsDatabase(RunModifyUser(d, u, p, role))
<1>. SUFFICES ASSUME u \in DOMAIN d.users
              PROVE  IsDatabase([d EXCEPT !.users[u].password = p,
                                          !.users[u].role = role])
     BY DEF RunModifyUser
<1>. DEFINE row == [d.users[u] EXCEPT !.password = p, !.role = role]
            users == [d.users EXCEPT ![u] = row]
<1>1. IsMap(d.users, Users, UserRows)
      BY DEF IsDatabase
<1>2. row \in UserRows
      BY <1>1 DEF IsMap, UserRows
<1>3. IsMap(users, Users, UserRows)
      BY <1>1, <1>2, ExceptIsMap
<1>4. [d EXCEPT !.users[u].password = p, !.users[u].role = role]
        = [d EXCEPT !.users = users]
      BY DEF IsDatabase
<1>. QED  BY <1>3, <1>4, NewTable

\* Every statement the server sends leaves a database.
LEMMA RunType ==
    ASSUME NEW d, IsDatabase(d), NEW s \in Statements
    PROVE  IsDatabase(Run(d, s))
<1>1. CASE s.op = "clearState"
      BY <1>1, SetStateType DEF Run, Columns
<1>2. CASE s.op = "updateState"
  <2>1. s.state \in States
        BY <1>2 DEF Statements
  <2>2. Run(d, s) = RunSetState(d, s.user, ColumnOf(s.state))
        BY <1>2 DEF Run
  <2>. QED  BY <2>1, <2>2, ColumnOfType, SetStateType
<1>3. CASE s.op = "insertUser"
  <2>1. s.user \in Users /\ s.password \in Passwords /\ s.role \in Roles
        BY <1>3 DEF Statements
  <2>2. IsMap(Put(d.users, s.user, [password |-> s.password, state |-> <<>>,
                                    role |-> s.role]), Users, UserRows)
        BY <2>1, PutIsMap DEF IsDatabase, UserRows, Columns
  <2>. QED  BY <1>3, <2>2, NewTable DEF Run, RunInsertUser
<1>4. CASE s.op = "modifyUser"
  <2>1. s.password \in Passwords /\ s.role \in Roles
        BY <1>4 DEF Statements
  <2>. QED  BY <1>4, <2>1, ModifyUserType DEF Run
<1>5. CASE s.op = "deleteUser"
      BY <1>5, EraseIsMap, NewTable DEF Run, RunDeleteUser, IsDatabase
<1>6. CASE s.op = "insertRoom"
  <2>1. s.room \in Rooms /\ s.capacity \in Nat
        BY <1>6 DEF Statements
  <2>2. IsMap(Put(d.rooms, s.room, s.capacity), Rooms, Nat)
        BY <2>1, PutIsMap DEF IsDatabase
  <2>. QED  BY <1>6, <2>2, NewTable DEF Run, RunInsertRoom
<1>7. CASE s.op = "modifyRoom"
  <2>1. s.capacity \in Nat
        BY <1>7 DEF Statements
  <2>2. IsMap([d.rooms EXCEPT ![s.room] = s.capacity], Rooms, Nat)
        BY <2>1, ExceptIsMap DEF IsDatabase
  <2>. QED  BY <1>7, <2>2, NewTable DEF Run, RunModifyRoom
<1>8. CASE s.op = "deleteRoom"
      BY <1>8, EraseIsMap, NewTable DEF Run, RunDeleteRoom, IsDatabase
<1>9. CASE s.op = "saveMessage"
  <2>1. s.row \in MessageRows
        BY <1>9 DEF Statements
  <2>2. d.messages \cup {s.row} \subseteq MessageRows
        BY <2>1 DEF IsDatabase
  <2>. QED  BY <1>9, <2>2, NewTable DEF Run, RunSaveMessage
<1>10. CASE s.op = "deleteMessageOfUser"
  <2>1. {row \in d.messages : row.receiver # s.user} \subseteq MessageRows
        BY DEF IsDatabase
  <2>. QED  BY <1>10, <2>1, NewTable DEF Run, RunDeleteMessageOfUser
<1>. QED  BY <1>1, <1>2, <1>3, <1>4, <1>5, <1>6, <1>7, <1>8, <1>9, <1>10
          DEF Statements

-----------------------------------------------------------------------------
(* Calls.                                                                  *)

\* Every package the server composes has the type of an answer.
LEMMA AnswerTypeOK ==
    ASSUME NEW type \in AnswerTypes
    PROVE  /\ Answer(type) \in AnswerPackages
           /\ \A online \in BOOLEAN :
                 StatusAnswer(type, online) \in AnswerPackages
BY DEF Answer, StatusAnswer, AnswerPackages

LEMMA LoginAnswerType ==
    ASSUME NEW u \in Users, NEW p \in Passwords, NEW role \in Roles
    PROVE  LoginAnswer(u, p, role) \in AnswerPackages
BY DEF LoginAnswer, Answer, AnswerPackages, AnswerTypes

LEMMA ChatAnswerType ==
    ASSUME NEW id \in Nat
    PROVE  ChatAnswer(id) \in AnswerPackages
BY DEF ChatAnswer, Answer, AnswerPackages, AnswerTypes

\* The four kinds of call.
LEMMA CallKinds ==
    ASSUME NEW c \in Calls
    PROVE  /\ c.op = "write" => c \in Writes
           /\ c.op = "replay" => c \in Replays
           /\ c.op = "sql" => c \in Sqls
           /\ c.op = "close" => c \in Closes
           /\ c.op \in {"write", "replay", "sql", "close"}
BY DEF Calls, Writes, Replays, Sqls, Closes

\* No call, one call, and two or three lists of calls one after the other.
LEMMA NoCallType == <<>> \in Seq(Calls)
OBVIOUS

LEMMA OneCallType ==
    ASSUME NEW c \in Calls
    PROVE  <<c>> \in Seq(Calls)
OBVIOUS

LEMMA TwoListsType ==
    ASSUME NEW s \in Seq(Calls), NEW t \in Seq(Calls)
    PROVE  s \o t \in Seq(Calls)
OBVIOUS

LEMMA ThreeListsType ==
    ASSUME NEW s \in Seq(Calls), NEW t \in Seq(Calls), NEW x \in Seq(Calls)
    PROVE  s \o t \o x \in Seq(Calls)
<1>1. s \o t \in Seq(Calls)
      BY TwoListsType
<1>. QED  BY <1>1, TwoListsType

LEMMA WriteAllType ==
    ASSUME NEW fds \in SUBSET Fds, NEW pk \in AnswerPackages
    PROVE  WriteAll(fds, pk) \in Seq(Calls)
<1>1. [op |-> "write", fds |-> fds, pk |-> pk] \in Calls
      BY DEF Calls, Writes
<1>. QED  BY <1>1 DEF WriteAll

LEMMA ReplyType ==
    ASSUME NEW fd \in Fds, NEW type \in AnswerTypes
    PROVE  Reply(fd, type) \in Seq(Calls)
BY AnswerTypeOK, WriteAllType DEF Reply

LEMMA SqlType ==
    ASSUME NEW s \in Statements
    PROVE  Sql(s) \in Seq(Calls)
<1>1. [op |-> "sql", stmt |-> s] \in Calls
      BY DEF Calls, Sqls
<1>. QED  BY <1>1 DEF Sql

LEMMA CloseType ==
    ASSUME NEW fd \in Fds
    PROVE  <<[op |-> "close", fd |-> fd]>> \in Seq(Calls)
<1>1. [op |-> "close", fd |-> fd] \in Calls
      BY DEF Calls, Closes
<1>. QED  BY <1>1

LEMMA ReplayType ==
    ASSUME NEW fd \in Fds, NEW u \in Users, NEW after \in Nat
    PROVE  <<[op |-> "replay", fd |-> fd, user |-> u, after |-> after]>>
               \in Seq(Calls)
<1>1. [op |-> "replay", fd |-> fd, user |-> u, after |-> after] \in Calls
      BY DEF Calls, Replays
<1>. QED  BY <1>1

\* The constructors of statements.
LEMMA StatementTypes ==
    ASSUME NEW u \in Users
    PROVE  /\ clearState(u) \in Statements
           /\ deleteUser(u) \in Statements
           /\ deleteMessageOfUser(u) \in Statements
           /\ \A st \in States : updateState(u, st) \in Statements
           /\ \A p \in Passwords, role \in Roles :
                 /\ insertUser(u, p, role) \in Statements
                 /\ modifyUser(u, p, role) \in Statements
BY DEF clearState, deleteUser, deleteMessageOfUser, updateState, insertUser,
       modifyUser, Statements

LEMMA RoomStatementTypes ==
    ASSUME NEW r \in Rooms, NEW c \in Nat
    PROVE  /\ insertRoom(r, c) \in Statements
           /\ modifyRoom(r, c) \in Statements
           /\ deleteRoom(r) \in Statements
BY DEF insertRoom, modifyRoom, deleteRoom, Statements

LEMMA SaveMessageType ==
    ASSUME NEW row \in MessageRows
    PROVE  saveMessage(row) \in Statements
BY DEF saveMessage, Statements

-----------------------------------------------------------------------------
(* Lookups by descriptor.                                                  *)

\* Of a set of accounts that is not empty one is the first of the map.
LEMMA FirstOf ==
    ASSUME NEW S \in SUBSET Users, S # {}
    PROVE  \E u \in S : \A v \in S : Rank[u] <= Rank[v]
<1>. DEFINE T == {Rank[u] : u \in S}
<1>1. Cardinality(Users) \in Nat
      BY RankAssumption, FS_CardinalityType
<1>2. T \in SUBSET Nat /\ T # {}
      BY <1>1, RankAssumption
<1>3. PICK x \in T : \A y \in T : x <= y
      BY <1>2, LeastNat
<1>. QED  BY <1>3

\* ... and one is the last.
LEMMA LastOf ==
    ASSUME NEW S \in SUBSET Users, S # {}
    PROVE  \E u \in S : \A v \in S : Rank[v] <= Rank[u]
<1>. DEFINE n == Cardinality(Users)
            T == {n - Rank[u] : u \in S}
<1>1. n \in Nat
      BY RankAssumption, FS_CardinalityType
<1>2. T \in SUBSET Nat /\ T # {}
      BY <1>1, RankAssumption
<1>3. PICK x \in T : \A y \in T : x <= y
      BY <1>2, LeastNat
<1>4. PICK u \in S : x = n - Rank[u]
      BY <1>3
<1>5. \A v \in S : n - Rank[u] <= n - Rank[v]
      BY <1>3, <1>4
<1>6. \A v \in S : Rank[v] \in Int
      BY <1>1, RankAssumption
<1>. QED  BY <1>1, <1>5, <1>6

\* The two lookups return an account whose descriptor is the one looked up.
LEMMA FindUser_Is ==
    ASSUME NEW m, IsMap(m, Users, Accounts), NEW fd, On(m, fd) # {}
    PROVE  /\ findUserByfd(m, fd) \in DOMAIN m
           /\ findUserByfd(m, fd) \in Users
           /\ m[findUserByfd(m, fd)].fd = fd
<1>1. On(m, fd) \in SUBSET Users
      BY DEF On, IsMap
<1>2. findUserByfd(m, fd) \in On(m, fd)
      BY <1>1, FirstOf DEF findUserByfd
<1>. QED  BY <1>1, <1>2 DEF On

LEMMA LastUser_Is ==
    ASSUME NEW m, IsMap(m, Users, Accounts), NEW fd, On(m, fd) # {}
    PROVE  /\ LastUserByfd(m, fd) \in DOMAIN m
           /\ LastUserByfd(m, fd) \in Users
<1>1. On(m, fd) \in SUBSET Users
      BY DEF On, IsMap
<1>2. LastUserByfd(m, fd) \in On(m, fd)
      BY <1>1, LastOf DEF LastUserByfd
<1>. QED  BY <1>1, <1>2 DEF On

\* notificationOffline writes to connections.
LEMMA NotificationType ==
    ASSUME NEW m, IsMap(m, Users, Accounts), NEW fd, NEW online \in BOOLEAN
    PROVE  notificationOffline(m, fd, online) \in Seq(Calls)
<1>1. \A v \in Online(m) : m[v].fd \in Fds
      BY DEF Online, IsMap, Accounts
<1>2. Partners(m, fd) \in SUBSET Fds
      BY <1>1 DEF Partners
<1>3. StatusAnswer("checkparty", online) \in AnswerPackages
      BY AnswerTypeOK DEF AnswerTypes
<1>. QED  BY <1>2, <1>3, WriteAllType DEF notificationOffline

-----------------------------------------------------------------------------
(* Type correctness of the handlers.                                       *)

\* The database a server is started on gives it maps of the right types.
LEMMA LoadType ==
    ASSUME NEW d, IsDatabase(d)
    PROVE  /\ IsMap(mapUser(d), Users, Accounts)
           /\ IsMap(mapRoom(d), Rooms, RoomRecords)
<1>1. ASSUME NEW u \in DOMAIN d.users
      PROVE  [password |-> d.users[u].password, role |-> d.users[u].role,
              state |-> StateOf(d.users[u].state), fd |-> NoFd] \in Accounts
  <2>1. d.users[u] \in UserRows
        BY MapValue DEF IsDatabase
  <2>2. StateOf(d.users[u].state) \in States
        BY <2>1, StateOfType DEF UserRows
  <2>. QED  BY <2>1, <2>2 DEF UserRows, Accounts
<1>2. ASSUME NEW r \in DOMAIN d.rooms
      PROVE  NewRoom(r, d.rooms[r]) \in RoomRecords
      BY MapValue DEF IsDatabase, NewRoom, RoomRecords
<1>. QED  BY <1>1, <1>2 DEF IsDatabase, IsMap, mapUser, mapRoom

\* A handler whose maps and calls are of their types leaves TypeOK true.
LEMMA DoesType ==
    ASSUME TypeOK,
           NEW calls \in Seq(Calls), Does(calls),
           IsMap(mapuser', Users, Accounts),
           IsMap(roomMap', Rooms, RoomRecords),
           misread' \in SUBSET Rooms,
           chats' \in Seq(Chats)
    PROVE  TypeOK'
BY DEF Does, TypeOK

LEMMA AnswersType ==
    ASSUME TypeOK, NEW fd \in Fds, NEW type \in AnswerTypes, Answers(fd, type)
    PROVE  TypeOK'
<1>1. Reply(fd, type) \in Seq(Calls)
      BY ReplyType
<1>. QED  BY <1>1, DoesType DEF Answers, memory, TypeOK

\* An account of the map with another state or another connection.
LEMMA AccountUpdate ==
    ASSUME NEW m, IsMap(m, Users, Accounts), NEW u
    PROVE  /\ \A st \in States :
                 IsMap([m EXCEPT ![u].state = st], Users, Accounts)
           /\ \A fd \in Fds : IsMap([m EXCEPT ![u].fd = fd], Users, Accounts)
           /\ IsMap([m EXCEPT ![u].state = Idle, ![u].fd = NoFd],
                    Users, Accounts)
           /\ \A p \in Passwords, role \in Roles :
                 IsMap([m EXCEPT ![u].password = p, ![u].role = role],
                       Users, Accounts)
BY DEF IsMap, Accounts, States

LEMMA SetStateIsMap ==
    ASSUME NEW m, IsMap(m, Users, Accounts), NEW u, NEW st \in States
    PROVE  IsMap(SetState(m, u, st), Users, Accounts)
BY AccountUpdate DEF SetState

\* The operations of Room.
LEMMA RoomOperations ==
    ASSUME NEW room \in RoomRecords, NEW fd
    PROVE  /\ fd \in Fds => Add(room, fd) \in RoomRecords
           /\ removeUser(room, fd) \in RoomRecords
           /\ \A c \in Nat : setCapacity(room, c) \in RoomRecords
           /\ \A id \in Rooms : setRoomID(room, id) \in RoomRecords
           /\ listClients(room) \in SUBSET Fds
<1>1. fd \in Fds => Add(room, fd) \in RoomRecords
      BY DEF Add, RoomRecords
<1>2. ASSUME NEW i
      PROVE  [room EXCEPT !.members = Shift(@, i)] \in RoomRecords
  <2>. DEFINE s == room.members
  <2>1. s \in Seq(Fds) /\ Len(s) \in Nat
        BY DEF RoomRecords
  <2>2. CASE Len(s) = 0
        BY <2>1, <2>2 DEF Shift, RoomRecords
  <2>3. CASE Len(s) # 0
    <3>1. Len(s) - 1 \in Nat
          BY <2>1, <2>3
    <3>2. \A j \in 1..(Len(s) - 1) : s[j] \in Fds /\ s[j + 1] \in Fds
          BY <2>1
    <3>3. Shift(s, i) \in [1..(Len(s) - 1) -> Fds]
          BY <3>2 DEF Shift
    <3>4. Shift(s, i) \in Seq(Fds)
          BY <3>1, <3>3
    <3>. QED  BY <3>4 DEF RoomRecords
  <2>. QED  BY <2>2, <2>3
<1>3. removeUser(room, fd) \in RoomRecords
      BY <1>2 DEF removeUser
<1>4. \A c \in Nat : setCapacity(room, c) \in RoomRecords
      BY DEF setCapacity, RoomRecords
<1>5. listClients(room) \in SUBSET Fds
      BY DEF listClients, getOnlUser, RoomRecords
<1>6. \A id \in Rooms : setRoomID(room, id) \in RoomRecords
      BY DEF setRoomID, RoomRecords
<1>. QED  BY <1>1, <1>3, <1>4, <1>5, <1>6

\* What TypeOK says of the memory, for the proofs about handlers.
LEMMA MemoryTypes ==
    ASSUME TypeOK
    PROVE  /\ IsMap(mapuser, Users, Accounts)
           /\ IsMap(roomMap, Rooms, RoomRecords)
           /\ misread \in SUBSET Rooms
           /\ chats \in Seq(Chats)
           /\ IsDatabase(db)
BY DEF TypeOK

\* The account of a connection and its state.
LEMMA SenderType ==
    ASSUME TypeOK, NEW fd, checkfd(fd)
    PROVE  /\ findUserByfd(mapuser, fd) \in DOMAIN mapuser
           /\ findUserByfd(mapuser, fd) \in Users
           /\ mapuser[findUserByfd(mapuser, fd)].state \in States
<1>1. IsMap(mapuser, Users, Accounts) /\ On(mapuser, fd) # {}
      BY DEF TypeOK, checkfd
<1>2. /\ findUserByfd(mapuser, fd) \in DOMAIN mapuser
      /\ findUserByfd(mapuser, fd) \in Users
      BY <1>1, FindUser_Is
<1>3. mapuser[findUserByfd(mapuser, fd)] \in Accounts
      BY <1>1, <1>2, MapValue
<1>. QED  BY <1>2, <1>3 DEF Accounts

\* A room left.
LEMMA LeaveTypes ==
    ASSUME TypeOK, NEW fd, NEW st
    PROVE  /\ IsMap(RoomsWithout(fd, st), Rooms, RoomRecords)
           /\ LeaveNotice(fd, st) \in Seq(Calls)
<1>1. CASE st.name \notin DOMAIN roomMap
      BY <1>1, MemoryTypes DEF RoomsWithout, LeaveNotice
<1>2. CASE st.name \in DOMAIN roomMap
  <2>. DEFINE room == removeUser(roomMap[st.name], fd)
  <2>1. room \in RoomRecords
        BY <1>2, MemoryTypes, MapValue, RoomOperations
  <2>2. listClients(room) \in SUBSET Fds
        BY <2>1, RoomOperations
  <2>3. Answer("sendMess") \in AnswerPackages
        BY AnswerTypeOK DEF AnswerTypes
  <2>4. WriteAll(listClients(room), Answer("sendMess")) \in Seq(Calls)
        BY <2>2, <2>3, WriteAllType
  <2>5. IsMap(Insert(Erase(roomMap, st.name), room.roomID, room), Rooms, RoomRecords)
    <3>1. room.roomID \in Rooms
          BY <2>1 DEF RoomRecords
    <3>. QED  BY <2>1, <3>1, MemoryTypes, EraseIsMap, InsertIsMap
  <2>. QED  BY <1>2, <2>4, <2>5 DEF RoomsWithout, LeaveNotice
<1>. QED  BY <1>1, <1>2

LEMMA OfflineMessageType ==
    ASSUME NEW m, IsMap(m, Users, Accounts), NEW fd \in Fds, On(m, fd) # {}
    PROVE  handleOfflineMessage(m, fd) \in Seq(Calls)
<1>. DEFINE u == findUserByfd(m, fd)
<1>1. u \in Users
      BY FindUser_Is
<1>2. <<[op |-> "replay", fd |-> fd, user |-> u, after |-> 0]>> \in Seq(Calls)
      BY <1>1, ReplayType
<1>3. Sql(deleteMessageOfUser(u)) \in Seq(Calls)
      BY <1>1, StatementTypes, SqlType
<1>. QED  BY <1>2, <1>3 DEF handleOfflineMessage

\* The first of the handlers: an account goes online, and a room is entered
\* again where a restart has left the state of the account.
LEMMA LoginType ==
    ASSUME TypeOK, NEW fd \in Fds, NEW u, NEW p, Login(fd, u, p)
    PROVE  TypeOK'
<1>1. CASE ~LoginAccepted(u, p)
      BY <1>1, AnswersType DEF Login, AnswerTypes
<1>2. CASE LoginAccepted(u, p)
  <2>. DEFINE m == [mapuser EXCEPT ![u].fd = fd]
              r == mapuser[u].state.name
  <2>1. u \in DOMAIN mapuser /\ u \in Users /\ mapuser[u] \in Accounts
        BY <1>2, MemoryTypes, MapValue DEF LoginAccepted
  <2>2. p \in Passwords /\ mapuser[u].role \in Roles
        BY <1>2, <2>1 DEF LoginAccepted, Accounts
  <2>3. IsMap(m, Users, Accounts) /\ On(m, fd) # {}
    <3>1. IsMap(m, Users, Accounts)
          BY MemoryTypes, AccountUpdate
    <3>2. u \in DOMAIN m /\ m[u].fd = fd
          BY <2>1, MemoryTypes DEF IsMap, Accounts
    <3>. QED  BY <3>1, <3>2 DEF On
  <2>4. mapuser' = m /\ chats' = chats /\ misread' = misread
        BY <1>2 DEF Login
  <2>5. CASE Returns(u) /\ ~CanAdd(roomMap[r], fd)
    <3>1. Does(<<>>) /\ UNCHANGED roomMap
          BY <1>2, <2>5 DEF Login
    <3>. QED  BY <3>1, <2>3, <2>4, MemoryTypes, DoesType, NoCallType
  <2>6. CASE ~(Returns(u) /\ ~CanAdd(roomMap[r], fd))
    <3>. DEFINE told == WriteAll({fd}, LoginAnswer(u, p, mapuser[u].role))
                stored == handleOfflineMessage(m, fd)
                partners == notificationOffline(m, fd, TRUE)
    <3>1. /\ roomMap' = IF Returns(u)
                        THEN [roomMap EXCEPT ![r] = Add(@, fd)] ELSE roomMap
          /\ Does(told \o stored \o partners)
          BY <1>2, <2>6 DEF Login
    <3>2. IsMap(roomMap', Rooms, RoomRecords)
      <4>1. CASE Returns(u)
        <5>1. Add(roomMap[r], fd) \in RoomRecords
              BY <4>1, MemoryTypes, MapValue, RoomOperations DEF Returns
        <5>. QED  BY <3>1, <4>1, <5>1, MemoryTypes, ExceptIsMap
      <4>. QED  BY <3>1, <4>1, MemoryTypes
    <3>3. told \in Seq(Calls)
          BY <2>1, <2>2, LoginAnswerType, WriteAllType
    <3>4. stored \in Seq(Calls)
          BY <2>3, OfflineMessageType
    <3>5. partners \in Seq(Calls)
          BY <2>3, NotificationType
    <3>. HIDE DEF told, stored, partners
    <3>6. told \o stored \o partners \in Seq(Calls)
          BY <3>3, <3>4, <3>5, ThreeListsType
    <3>. QED  BY <3>1, <3>2, <3>6, <2>3, <2>4, MemoryTypes, DoesType
  <2>. QED  BY <2>5, <2>6
<1>. QED  BY <1>1, <1>2

LEMMA WithFunctionType ==
    ASSUME TypeOK, NEW fd \in Fds, checkfd(fd), NEW v \in Users,
           WithFunction(fd, v)
    PROVE  TypeOK'
<1>1. CASE v \notin DOMAIN mapuser \/ mapuser[v].fd = fd
      BY <1>1, AnswersType DEF WithFunction, AnswerTypes
<1>2. CASE ~(v \notin DOMAIN mapuser \/ mapuser[v].fd = fd)
  <2>. DEFINE u == findUserByfd(mapuser, fd)
              query == Sql(updateState(u, WithUser(v)))
              answer == WriteAll({fd}, StatusAnswer("withSuccess",
                                                    mapuser[v].fd # NoFd))
  <2>1. u \in Users /\ WithUser(v) \in States
        BY SenderType DEF States
  <2>2. query \in Seq(Calls)
        BY <2>1, StatementTypes, SqlType
  <2>3. StatusAnswer("withSuccess", mapuser[v].fd # NoFd) \in AnswerPackages
        BY AnswerTypeOK DEF AnswerTypes
  <2>4. answer \in Seq(Calls)
        BY <2>3, WriteAllType
  <2>5. /\ mapuser' = SetState(mapuser, u, WithUser(v))
        /\ Does(query \o answer)
        /\ UNCHANGED <<roomMap, misread, chats>>
        BY <1>2 DEF WithFunction
  <2>6. IsMap(mapuser', Users, Accounts)
        BY <2>1, <2>5, MemoryTypes, SetStateIsMap
  <2>. HIDE DEF query, answer
  <2>7. query \o answer \in Seq(Calls)
        BY <2>2, <2>4, TwoListsType
  <2>. QED  BY <2>5, <2>6, <2>7, MemoryTypes, DoesType
<1>. QED  BY <1>1, <1>2

LEMMA JoinRoomType ==
    ASSUME TypeOK, NEW fd \in Fds, checkfd(fd), NEW r \in Rooms,
           JoinRoom(fd, r)
    PROVE  TypeOK'
<1>1. CASE r \notin DOMAIN roomMap \/ ~CanAdd(roomMap[r], fd)
      BY <1>1, AnswersType DEF JoinRoom, AnswerTypes
<1>2. CASE r \in DOMAIN roomMap /\ CanAdd(roomMap[r], fd)
  <2>. DEFINE u == findUserByfd(mapuser, fd)
              clear == Sql(clearState(u))
              update == Sql(updateState(u, InRoom(r)))
              answer == Reply(fd, "joinSuccess")
  <2>1. u \in Users /\ InRoom(r) \in States
        BY SenderType DEF States
  <2>2. clear \in Seq(Calls) /\ update \in Seq(Calls)
        BY <2>1, StatementTypes, SqlType
  <2>3. answer \in Seq(Calls)
        BY ReplyType DEF AnswerTypes
  <2>4. /\ roomMap' = [roomMap EXCEPT ![r] = Add(@, fd)]
        /\ mapuser' = SetState(mapuser, u, InRoom(r))
        /\ Does(clear \o update \o answer)
        /\ UNCHANGED <<misread, chats>>
        BY <1>2 DEF JoinRoom
  <2>5. IsMap(mapuser', Users, Accounts)
        BY <2>1, <2>4, MemoryTypes, SetStateIsMap
  <2>6. Add(roomMap[r], fd) \in RoomRecords
        BY <1>2, MemoryTypes, MapValue, RoomOperations
  <2>7. IsMap(roomMap', Rooms, RoomRecords)
        BY <2>4, <2>6, MemoryTypes, ExceptIsMap
  <2>. HIDE DEF clear, update, answer
  <2>8. clear \o update \o answer \in Seq(Calls)
        BY <2>2, <2>3, ThreeListsType
  <2>. QED  BY <2>4, <2>5, <2>7, <2>8, MemoryTypes, DoesType
<1>. QED  BY <1>1, <1>2

LEMMA RoomChatType ==
    ASSUME TypeOK, NEW r
    PROVE  RoomChat(r) \in Seq(Calls)
<1>1. CASE r \in DOMAIN roomMap
  <2>1. listClients(roomMap[r]) \in SUBSET Fds
        BY <1>1, MemoryTypes, MapValue, RoomOperations
  <2>. QED  BY <1>1, <2>1, AnswerTypeOK, WriteAllType DEF RoomChat, AnswerTypes
<1>2. CASE r \notin DOMAIN roomMap
      BY <1>2, NoCallType DEF RoomChat
<1>. QED  BY <1>1, <1>2

LEMMA DeliverType ==
    ASSUME TypeOK, NEW u \in Users, NEW v \in DOMAIN mapuser,
           NEW mess \in Texts, NEW id \in Nat
    PROVE  Deliver(u, v, mess, id) \in Seq(Calls)
<1>1. v \in Users /\ mapuser[v] \in Accounts
      BY MemoryTypes, MapValue
<1>2. CASE mapuser[v].fd = NoFd
  <2>1. [id |-> id, sender |-> u, receiver |-> v, mess |-> mess] \in MessageRows
        BY <1>1 DEF MessageRows
  <2>. QED  BY <1>2, <2>1, SaveMessageType, SqlType DEF Deliver
<1>3. CASE mapuser[v].fd # NoFd
  <2>1. {mapuser[v].fd} \in SUBSET Fds
        BY <1>1, <1>3 DEF Accounts
  <2>. QED  BY <1>3, <2>1, ChatAnswerType, WriteAllType DEF Deliver
<1>. QED  BY <1>2, <1>3

LEMMA OneToOneChatType ==
    ASSUME TypeOK, NEW fd \in Fds, checkfd(fd), NEW mess \in Texts,
           OneToOneChat(fd, mess)
    PROVE  TypeOK'
<1>. DEFINE u == LastUserByfd(mapuser, fd)
            st == mapuser[u].state
<1>1. u \in Users /\ IsMap(mapuser', Users, Accounts)
      /\ IsMap(roomMap', Rooms, RoomRecords) /\ misread' \in SUBSET Rooms
      BY MemoryTypes, LastUser_Is DEF checkfd, OneToOneChat, memory
<1>2. CASE st.type = 1 /\ st.name \in DOMAIN mapuser
  <2>1. /\ chats' = Append(chats, [from |-> u, to |-> st.name, mess |-> mess])
        /\ Does(Deliver(u, st.name, mess, Len(chats) + 1))
        BY <1>2 DEF OneToOneChat
  <2>2. st.name \in Users
        BY <1>2, MemoryTypes, MapValue
  <2>3. [from |-> u, to |-> st.name, mess |-> mess] \in Chats
        BY <1>1, <2>2 DEF Chats
  <2>4. chats' \in Seq(Chats) /\ Len(chats) + 1 \in Nat
        BY <2>1, <2>3, MemoryTypes
  <2>5. Deliver(u, st.name, mess, Len(chats) + 1) \in Seq(Calls)
        BY <1>1, <1>2, <2>4, DeliverType
  <2>. QED  BY <1>1, <2>1, <2>4, <2>5, DoesType
<1>3. CASE ~(st.type = 1 /\ st.name \in DOMAIN mapuser)
  <2>1. /\ Does(IF st.type = 2 THEN RoomChat(st.name) ELSE <<>>)
        /\ chats' = chats
        BY <1>3 DEF OneToOneChat
  <2>2. (IF st.type = 2 THEN RoomChat(st.name) ELSE <<>>) \in Seq(Calls)
        BY RoomChatType, NoCallType
  <2>. QED  BY <1>1, <2>1, <2>2, MemoryTypes, DoesType
<1>. QED  BY <1>2, <1>3

LEMMA LeaveChatUserType ==
    ASSUME TypeOK, NEW fd \in Fds, checkfd(fd), LeaveChatUser(fd)
    PROVE  TypeOK'
<1>. DEFINE u == findUserByfd(mapuser, fd)
            st == mapuser[u].state
<1>1. CASE st.name = NoName
      BY <1>1, AnswersType DEF LeaveChatUser, AnswerTypes
<1>2. CASE st.name # NoName
  <2>. DEFINE notice == IF st.type = 2 THEN LeaveNotice(fd, st) ELSE <<>>
              clear == Sql(clearState(u))
              answer == Reply(fd, "successTerminate")
  <2>1. /\ mapuser' = SetState(mapuser, u, Idle)
        /\ roomMap' = IF st.type = 2 THEN RoomsWithout(fd, st) ELSE roomMap
        /\ Does(notice \o clear \o answer)
        /\ UNCHANGED <<misread, chats>>
        BY <1>2 DEF LeaveChatUser
  <2>2. IsMap(mapuser', Users, Accounts)
        BY <2>1, MemoryTypes, SetStateIsMap DEF States
  <2>3. IsMap(roomMap', Rooms, RoomRecords)
        BY <2>1, MemoryTypes, LeaveTypes
  <2>4. notice \in Seq(Calls)
        BY LeaveTypes, NoCallType
  <2>5. clear \in Seq(Calls)
        BY SenderType, StatementTypes, SqlType
  <2>6. answer \in Seq(Calls)
        BY ReplyType DEF AnswerTypes
  <2>. HIDE DEF notice, clear, answer
  <2>7. notice \o clear \o answer \in Seq(Calls)
        BY <2>4, <2>5, <2>6, ThreeListsType
  <2>. QED  BY <2>1, <2>2, <2>3, <2>7, MemoryTypes, DoesType
<1>. QED  BY <1>1, <1>2

LEMMA NormalRoleType ==
    ASSUME NEW role \in Roles \cup {NoRole}
    PROVE  NormalRole(role) \in Roles
BY DEF NormalRole, Roles, ADMIN, USER, NoRole

\* A statement about an account followed by the answer to the administrator.
LEMMA SqlThenReplyType ==
    ASSUME NEW s \in Statements, NEW fd \in Fds, NEW type \in AnswerTypes
    PROVE  Sql(s) \o Reply(fd, type) \in Seq(Calls)
<1>1. Sql(s) \in Seq(Calls) /\ Reply(fd, type) \in Seq(Calls)
      BY SqlType, ReplyType
<1>. QED  BY <1>1, TwoListsType

LEMMA AddUserType ==
    ASSUME TypeOK, NEW fd \in Fds, NEW u \in Users \cup {NoName},
           NEW p \in Passwords \cup {NoName}, NEW role \in Roles \cup {NoRole},
           AddUser(fd, u, p, role)
    PROVE  TypeOK'
<1>. DEFINE refused ==
         ~CheckAdmin(fd) \/ u \in DOMAIN mapuser \/ u = NoName \/ p = NoName
<1>1. CASE refused
      BY <1>1, AnswersType DEF AddUser, AnswerTypes
<1>2. CASE ~refused
  <2>. DEFINE account == [password |-> p, role |-> NormalRole(role),
                          state |-> Idle, fd |-> NoFd]
              calls == Sql(insertUser(u, p, NormalRole(role)))
                       \o Reply(fd, "createSuccess")
  <2>1. /\ mapuser' = Put(mapuser, u, account)
        /\ Does(calls)
        /\ UNCHANGED <<roomMap, misread, chats>>
        BY <1>2 DEF AddUser
  <2>2. u \in Users /\ p \in Passwords /\ NormalRole(role) \in Roles
        BY <1>2, NormalRoleType
  <2>3. account \in Accounts
        BY <2>2 DEF Accounts, States
  <2>4. IsMap(mapuser', Users, Accounts)
        BY <2>1, <2>2, <2>3, MemoryTypes, PutIsMap
  <2>5. calls \in Seq(Calls)
        BY <2>2, StatementTypes, SqlThenReplyType DEF AnswerTypes
  <2>. QED  BY <2>1, <2>4, <2>5, MemoryTypes, DoesType
<1>. QED  BY <1>1, <1>2

LEMMA DeleteUserType ==
    ASSUME TypeOK, NEW fd \in Fds, NEW u \in Users, DeleteUser(fd, u)
    PROVE  TypeOK'
<1>1. CASE ~MayDelete(fd, u)
      BY <1>1, AnswersType DEF DeleteUser, AnswerTypes
<1>2. CASE MayDelete(fd, u)
  <2>1. /\ mapuser' = Erase(mapuser, u)
        /\ Does(Sql(deleteUser(u)) \o Reply(fd, "deleteSuccess"))
        /\ UNCHANGED <<roomMap, misread, chats>>
        BY <1>2 DEF DeleteUser
  <2>2. IsMap(mapuser', Users, Accounts)
        BY <2>1, MemoryTypes, EraseIsMap
  <2>3. Sql(deleteUser(u)) \o Reply(fd, "deleteSuccess") \in Seq(Calls)
        BY StatementTypes, SqlThenReplyType DEF AnswerTypes
  <2>. QED  BY <2>1, <2>2, <2>3, MemoryTypes, DoesType
<1>. QED  BY <1>1, <1>2

LEMMA ModifyUserHandlerType ==
    ASSUME TypeOK, NEW fd \in Fds, NEW u \in Users \cup {NoName},
           NEW p \in Passwords \cup {NoName}, NEW role \in Roles \cup {NoRole},
           handleModifyUser(fd, u, p, role)
    PROVE  TypeOK'
<1>1. CASE ~MayModify(fd, u, p)
      BY <1>1, AnswersType DEF handleModifyUser, AnswerTypes
<1>2. CASE MayModify(fd, u, p)
  <2>. DEFINE calls == Sql(modifyUser(u, p, NormalRole(role)))
                       \o Reply(fd, "modifySuccess")
  <2>1. /\ mapuser' = [mapuser EXCEPT ![u].password = p,
                                      ![u].role = NormalRole(role)]
        /\ Does(calls)
        /\ UNCHANGED <<roomMap, misread, chats>>
        BY <1>2 DEF handleModifyUser
  <2>2. u \in Users /\ p \in Passwords /\ NormalRole(role) \in Roles
        BY <1>2, MemoryTypes, MapValue, NormalRoleType DEF MayModify
  <2>3. IsMap(mapuser', Users, Accounts)
        BY <2>1, <2>2, MemoryTypes, AccountUpdate
  <2>4. calls \in Seq(Calls)
        BY <2>2, StatementTypes, SqlThenReplyType DEF AnswerTypes
  <2>. QED  BY <2>1, <2>3, <2>4, MemoryTypes, DoesType
<1>. QED  BY <1>1, <1>2

LEMMA AddRoomType ==
    ASSUME TypeOK, NEW fd \in Fds, NEW r \in Rooms \cup {NoName}, NEW c \in Int,
           addRoom(fd, r, c)
    PROVE  TypeOK'
<1>. DEFINE refused ==
         ~CheckAdmin(fd) \/ r \in DOMAIN roomMap \/ r = NoName \/ c < 0
<1>1. CASE refused
      BY <1>1, AnswersType DEF addRoom, AnswerTypes
<1>2. CASE ~refused
  <2>1. PICK id \in ReadBack[r] :
           /\ roomMap' = Put(roomMap, r, NewRoom(id, c))
           /\ misread' = misread \cup (IF id = r THEN {} ELSE {r, id})
           /\ Does(Sql(insertRoom(id, c)) \o Reply(fd, "createSuccess"))
           /\ UNCHANGED <<mapuser, chats>>
        BY <1>2 DEF addRoom
  <2>2. r \in Rooms /\ id \in Rooms /\ c \in Nat /\ misread' \in SUBSET Rooms
        BY <1>2, <2>1, ReadBackAssumption, MemoryTypes
  <2>3. NewRoom(id, c) \in RoomRecords
        BY <2>2 DEF NewRoom, RoomRecords
  <2>4. IsMap(roomMap', Rooms, RoomRecords)
        BY <2>1, <2>2, <2>3, MemoryTypes, PutIsMap
  <2>5. Sql(insertRoom(id, c)) \o Reply(fd, "createSuccess") \in Seq(Calls)
        BY <2>2, RoomStatementTypes, SqlThenReplyType DEF AnswerTypes
  <2>. QED  BY <2>1, <2>2, <2>4, <2>5, MemoryTypes, DoesType
<1>. QED  BY <1>1, <1>2

LEMMA ModifyRoomType ==
    ASSUME TypeOK, NEW fd \in Fds, NEW r, NEW c \in Int, ModifyRoom(fd, r, c)
    PROVE  TypeOK'
<1>1. CASE ~MayModifyRoom(fd, r, c)
      BY <1>1, AnswersType DEF ModifyRoom, AnswerTypes
<1>2. CASE MayModifyRoom(fd, r, c)
  <2>1. /\ roomMap' = [roomMap EXCEPT ![r] = setCapacity(setRoomID(@, r), c)]
        /\ Does(Sql(modifyRoom(r, c)) \o Reply(fd, "modifySuccess"))
        /\ UNCHANGED <<mapuser, misread, chats>>
        BY <1>2 DEF ModifyRoom
  <2>2. r \in DOMAIN roomMap /\ r \in Rooms /\ c \in Nat
        BY <1>2, MemoryTypes, MapValue DEF MayModifyRoom
  <2>3. setCapacity(setRoomID(roomMap[r], r), c) \in RoomRecords
        BY <2>2, MemoryTypes, MapValue, RoomOperations
  <2>4. IsMap(roomMap', Rooms, RoomRecords)
        BY <2>1, <2>3, MemoryTypes, ExceptIsMap
  <2>5. Sql(modifyRoom(r, c)) \o Reply(fd, "modifySuccess") \in Seq(Calls)
        BY <2>2, RoomStatementTypes, SqlThenReplyType DEF AnswerTypes
  <2>. QED  BY <2>1, <2>4, <2>5, MemoryTypes, DoesType
<1>. QED  BY <1>1, <1>2

LEMMA DeleteRoomType ==
    ASSUME TypeOK, NEW fd \in Fds, NEW r \in Rooms, DeleteRoom(fd, r)
    PROVE  TypeOK'
<1>1. CASE ~MayDeleteRoom(fd, r)
      BY <1>1, AnswersType DEF DeleteRoom, AnswerTypes
<1>2. CASE MayDeleteRoom(fd, r)
  <2>1. /\ roomMap' = Erase(roomMap, r)
        /\ Does(Sql(deleteRoom(roomMap[r].roomID)) \o Reply(fd, "deleteSuccess"))
        /\ UNCHANGED <<mapuser, misread, chats>>
        BY <1>2 DEF DeleteRoom
  <2>2. IsMap(roomMap', Rooms, RoomRecords)
        BY <2>1, MemoryTypes, EraseIsMap
  <2>3. deleteRoom(roomMap[r].roomID) \in Statements
    <3>1. roomMap[r] \in RoomRecords
          BY <1>2, MemoryTypes, MapValue DEF MayDeleteRoom
    <3>2. roomMap[r].roomID \in Rooms
          BY <3>1 DEF RoomRecords
    <3>. QED  BY <3>2, RoomStatementTypes, 0 \in Nat
  <2>4. Sql(deleteRoom(roomMap[r].roomID)) \o Reply(fd, "deleteSuccess") \in Seq(Calls)
        BY <2>3, SqlThenReplyType DEF AnswerTypes
  <2>. QED  BY <2>1, <2>2, <2>4, MemoryTypes, DoesType
<1>. QED  BY <1>1, <1>2

\* The handler of a package that is read.
LEMMA ReceiveType ==
    ASSUME TypeOK, NEW fd \in Fds, NEW p \in Packages, analyzePackage(fd, p)
    PROVE  TypeOK'
<1>1. CASE ~checkfd(fd) /\ p.type # "loginn"
      BY <1>1, AnswersType DEF analyzePackage, Refuse, AnswerTypes
<1>2. CASE p.type = "loginn" /\ Login(fd, p.user, p.password)
      BY <1>2, LoginType
<1>3. CASE checkfd(fd) /\ p.type = "withh" /\ WithFunction(fd, p.user)
  <2>1. p.user \in Users
        BY <1>3 DEF Packages
  <2>. QED  BY <1>3, <2>1, WithFunctionType
<1>4. CASE checkfd(fd) /\ p.type = "joinn" /\ JoinRoom(fd, p.room)
  <2>1. p.room \in Rooms
        BY <1>4 DEF Packages
  <2>. QED  BY <1>4, <2>1, JoinRoomType
<1>5. CASE checkfd(fd) /\ p.type = "sendMess" /\ OneToOneChat(fd, p.mess)
  <2>1. p.mess \in Texts
        BY <1>5 DEF Packages
  <2>. QED  BY <1>5, <2>1, OneToOneChatType
<1>6. CASE checkfd(fd) /\ p.type = "terminateChat" /\ LeaveChatUser(fd)
      BY <1>6, LeaveChatUserType
<1>7. CASE ShowRoom(fd) \/ getListRoles(fd) \/ getUserOnline(fd) \/ FindUser(fd)
      BY <1>7, AnswersType
      DEF ShowRoom, getListRoles, getUserOnline, FindUser, AnswerTypes
<1>8. CASE /\ p.type = "createUser"
           /\ AddUser(fd, p.user, p.password, p.role)
  <2>1. /\ p.user \in Users \cup {NoName}
        /\ p.password \in Passwords \cup {NoName}
        /\ p.role \in Roles \cup {NoRole}
        BY <1>8 DEF Packages
  <2>. QED  BY <1>8, <2>1, AddUserType
<1>9. CASE /\ p.type = "modifyUser"
           /\ handleModifyUser(fd, p.user, p.password, p.role)
  <2>1. /\ p.user \in Users \cup {NoName}
        /\ p.password \in Passwords \cup {NoName}
        /\ p.role \in Roles \cup {NoRole}
        BY <1>9 DEF Packages
  <2>. QED  BY <1>9, <2>1, ModifyUserHandlerType
<1>10. CASE p.type = "deleteUser" /\ DeleteUser(fd, p.user)
  <2>1. p.user \in Users
        BY <1>10 DEF Packages
  <2>. QED  BY <1>10, <2>1, DeleteUserType
<1>11. CASE p.type = "modifyRoom" /\ ModifyRoom(fd, p.room, p.capacity)
  <2>1. p.capacity \in Int
        BY <1>11, CapacitiesAssumption DEF Packages
  <2>. QED  BY <1>11, <2>1, ModifyRoomType
<1>12. CASE p.type = "deleteRoom" /\ DeleteRoom(fd, p.room)
  <2>1. p.room \in Rooms
        BY <1>12 DEF Packages
  <2>. QED  BY <1>12, <2>1, DeleteRoomType
<1>13. CASE p.type = "createRoom" /\ addRoom(fd, p.room, p.capacity)
  <2>1. p.room \in Rooms \cup {NoName} /\ p.capacity \in Int
        BY <1>13, CapacitiesAssumption DEF Packages
  <2>. QED  BY <1>13, <2>1, AddRoomType
<1>. QED  BY <1>1, <1>2, <1>3, <1>4, <1>5, <1>6, <1>7, <1>8, <1>9, <1>10,
             <1>11, <1>12, <1>13 DEF analyzePackage

-----------------------------------------------------------------------------
(* Type correctness of the other steps.                                    *)

LEMMA DisconnectType ==
    ASSUME TypeOK, NEW fd \in Fds, Disconnect(fd)
    PROVE  TypeOK'
<1>. DEFINE close == <<[op |-> "close", fd |-> fd]>>
<1>1. close \in Seq(Calls)
      BY CloseType
<1>2. UNCHANGED <<up, misread, sock, db, restarts, observed>> /\ reading' = NoFd
      BY DEF Disconnect
<1>3. CASE ~checkfd(fd)
  <2>1. todo' = close /\ UNCHANGED memory
        BY <1>3 DEF Disconnect, memory
  <2>. QED  BY <1>1, <1>2, <2>1 DEF TypeOK, memory, observed
<1>4. CASE checkfd(fd)
  <2>. DEFINE u == findUserByfd(mapuser, fd)
              st == mapuser[u].state
              told == notificationOffline(mapuser, fd, FALSE)
              notice == IF st.type = 2 THEN LeaveNotice(fd, st) ELSE <<>>
              clear == Sql(clearState(u))
  <2>1. changeStateUserOff(fd) /\ todo' = told \o notice \o clear \o close
        BY <1>4 DEF Disconnect
  <2>2. /\ mapuser' = [mapuser EXCEPT ![u].state = Idle, ![u].fd = NoFd]
        /\ roomMap' = IF st.type = 2 THEN RoomsWithout(fd, st) ELSE roomMap
        BY <2>1 DEF changeStateUserOff
  <2>3. IsMap(mapuser', Users, Accounts)
        BY <2>2, MemoryTypes, AccountUpdate
  <2>4. IsMap(roomMap', Rooms, RoomRecords)
        BY <2>2, MemoryTypes, LeaveTypes
  <2>5. told \in Seq(Calls)
        BY MemoryTypes, NotificationType
  <2>6. notice \in Seq(Calls)
        BY LeaveTypes, NoCallType
  <2>7. clear \in Seq(Calls)
        BY <1>4, SenderType, StatementTypes, SqlType
  <2>. HIDE DEF told, notice, clear, close
  <2>8. told \o notice \o clear \in Seq(Calls)
        BY <2>5, <2>6, <2>7, ThreeListsType
  <2>9. todo' \in Seq(Calls)
        BY <1>1, <2>1, <2>8, TwoListsType
  <2>. QED  BY <1>2, <2>3, <2>4, <2>9 DEF TypeOK, observed
<1>. QED  BY <1>3, <1>4

\* What is at the head of todo and what is behind it.
LEMMA TodoTypes ==
    ASSUME TypeOK, todo # <<>>
    PROVE  Head(todo) \in Calls /\ Tail(todo) \in Seq(Calls)
BY DEF TypeOK

\* The end of the process leaves empty maps, no calls and free descriptors.
LEMMA DiesType ==
    ASSUME TypeOK, Dies, UNCHANGED <<restarts, observed>>, IsDatabase(db')
    PROVE  TypeOK'
<1>1. /\ IsMap(mapuser', Users, Accounts)
      /\ IsMap(roomMap', Rooms, RoomRecords)
      /\ todo' \in Seq(Calls)
      BY EmptyIsMap, NoCallType DEF Dies
<1>2. up' \in BOOLEAN /\ misread' \in SUBSET Rooms /\ reading' = NoFd /\ sock' \in [Fds -> {"free", "open", "closed", "reset"}]
      BY DEF Dies
<1>. QED  BY <1>1, <1>2 DEF TypeOK, observed

LEMMA WriteType ==
    ASSUME TypeOK, NEW fd \in Fds, Write(fd)
    PROVE  TypeOK'
<1>. DEFINE w == Head(todo)
            id == w.pk.id
<1>1. w \in Calls /\ w.op = "write" /\ Tail(todo) \in Seq(Calls)
      BY TodoTypes DEF Write, Calling
<1>2. w \in Writes
      BY <1>1, CallKinds
<1>3. [w EXCEPT !.fds = @ \ {fd}] \in Calls
      BY <1>2 DEF Writes, Calls
<1>4. todo' \in Seq(Calls)
      BY <1>1, <1>3, NoCallType, OneCallType, TwoListsType DEF Write, AfterWrite
<1>5. id \in Nat
  <2>1. w.pk \in AnswerPackages
        BY <1>2 DEF Writes
  <2>2. w.pk.id \in Nat \/ w.pk.id = 0
        BY <2>1 DEF AnswerPackages
  <2>. QED  BY <2>2
<1>6. seen' \in [Users -> Seq(Nat)] /\ dropped' \in SUBSET Nat
  <2>1. CASE UNCHANGED <<seen, dropped>>
        BY <2>1 DEF TypeOK
  <2>2. CASE /\ seen' = [seen EXCEPT ![chats[id].to] = Append(@, id)]
             /\ UNCHANGED dropped
    <3>1. seen \in [Users -> Seq(Nat)] /\ dropped \in SUBSET Nat
          BY DEF TypeOK
    <3>2. \A u \in Users : Append(seen[u], id) \in Seq(Nat)
          BY <1>5, <3>1
    <3>. HIDE DEF id
    <3>. QED  BY <2>2, <3>1, <3>2
  <2>3. CASE dropped' = dropped \cup {id} /\ UNCHANGED seen
        BY <1>5, <2>3 DEF TypeOK
  <2>4. \/ UNCHANGED <<seen, dropped>>
        \/ /\ seen' = [seen EXCEPT ![chats[id].to] = Append(@, id)]
           /\ UNCHANGED dropped
        \/ dropped' = dropped \cup {id} /\ UNCHANGED seen
        BY Zenon DEF Write
  <2>. QED  BY <2>1, <2>2, <2>3, <2>4
<1>7. UNCHANGED <<up, memory, reading, sock, db, restarts, chats>>
      BY DEF Write
<1>. QED  BY <1>4, <1>6, <1>7 DEF TypeOK, memory

\* The three steps of the loop of handleOfflineMessage.
LEMMA ReplayStepType ==
    ASSUME TypeOK, ReplayRow \/ ReplayEnd \/ ReplayJunk
    PROVE  TypeOK'
<1>. DEFINE c == Head(todo)
<1>1. c \in Calls /\ c.op = "replay" /\ Tail(todo) \in Seq(Calls)
      BY TodoTypes DEF ReplayRow, ReplayEnd, ReplayJunk, Calling
<1>2. c \in Replays /\ c.fd \in Fds
      BY <1>1, CallKinds DEF Replays
<1>3. todo' \in Seq(Calls)
  <2>1. CASE ReplayRow
    <3>1. PICK row \in NextRow(c) :
             todo' = WriteAll({c.fd}, ChatAnswer(row.id))
                     \o <<[c EXCEPT !.after = row.id]>> \o Tail(todo)
          BY <2>1 DEF ReplayRow
    <3>2. row.id \in Nat
          BY DEF NextRow, Rest, getMessageOfUser, TypeOK, IsDatabase, MessageRows
    <3>3. WriteAll({c.fd}, ChatAnswer(row.id)) \in Seq(Calls)
          BY <1>2, <3>2, ChatAnswerType, WriteAllType
    <3>4. [c EXCEPT !.after = row.id] \in Calls
          BY <1>2, <3>2 DEF Replays, Calls
    <3>5. <<[c EXCEPT !.after = row.id]>> \in Seq(Calls)
          BY <3>4, OneCallType
    <3>. QED  BY <1>1, <3>1, <3>3, <3>5, ThreeListsType
  <2>2. CASE ReplayEnd
        BY <1>1, <2>2 DEF ReplayEnd
  <2>3. CASE ReplayJunk
    <3>1. Reply(c.fd, "sendMess") \in Seq(Calls)
          BY <1>2, ReplyType DEF AnswerTypes
    <3>. QED  BY <2>3, <3>1, TwoListsType DEF ReplayJunk, TypeOK
  <2>. QED  BY <2>1, <2>2, <2>3
<1>4. UNCHANGED <<up, memory, reading, sock, db, restarts, observed>>
      BY DEF ReplayRow, ReplayEnd, ReplayJunk
<1>. QED  BY <1>3, <1>4 DEF TypeOK, memory, observed

LEMMA ExecuteType ==
    ASSUME TypeOK, Execute
    PROVE  TypeOK'
<1>. DEFINE s == Head(todo).stmt
<1>1. CASE Rejected(db, s)
      BY <1>1, DiesType DEF Execute, TypeOK
<1>2. CASE ~Rejected(db, s)
  <2>1. /\ db' = Run(db, s)
        /\ todo' = Tail(todo)
        /\ UNCHANGED <<up, memory, reading, sock, restarts, observed>>
        BY <1>2 DEF Execute
  <2>2. Head(todo) \in Calls /\ Head(todo).op = "sql"
        BY TodoTypes DEF Execute, Calling
  <2>3. s \in Statements
        BY <2>2, CallKinds DEF Sqls
  <2>4. IsDatabase(db')
        BY <2>1, <2>3, MemoryTypes, RunType
  <2>5. todo' \in Seq(Calls)
        BY <2>1, TodoTypes DEF Execute, Calling
  <2>. QED  BY <2>1, <2>4, <2>5 DEF TypeOK, memory, observed
<1>. QED  BY <1>1, <1>2

LEMMA CloseStepType ==
    ASSUME TypeOK, Close
    PROVE  TypeOK'
<1>1. todo' \in Seq(Calls)
      BY TodoTypes DEF Close, Calling
<1>. QED  BY <1>1 DEF Close, TypeOK, memory, observed

\* The steps of the surroundings.
LEMMA EnvironmentType ==
    ASSUME TypeOK,
           \/ \E fd \in Fds : Connect(fd) \/ Hangup(fd) \/ Reset(fd)
           \/ Restart
    PROVE  TypeOK'
<1>1. CASE \E fd \in Fds : Connect(fd) \/ Hangup(fd) \/ Reset(fd)
      BY <1>1 DEF Connect, Hangup, Reset, TypeOK, memory, observed
<1>2. CASE Restart
      BY <1>2, MemoryTypes, LoadType DEF Restart, TypeOK, observed
<1>. QED  BY <1>1, <1>2

\* Init fits the assumption about the first database.
LEMMA InitType == Init => TypeOK
<1>. SUFFICES ASSUME Init PROVE TypeOK
     OBVIOUS
<1>1. IsMap(mapuser, Users, Accounts) /\ IsMap(roomMap, Rooms, RoomRecords)
      BY InitDbAssumption, LoadType DEF Init
<1>. QED  BY <1>1, InitDbAssumption DEF Init, TypeOK

\* Every step of the server and of its surroundings keeps the types.
LEMMA NextType == TypeOK /\ [Next]_vars => TypeOK'
<1>. SUFFICES ASSUME TypeOK, [Next]_vars PROVE TypeOK'
     OBVIOUS
<1>1. ASSUME NEW fd \in Fds, NEW p \in Packages, Receive(fd, p)
      PROVE  TypeOK'
      BY <1>1, ReceiveType DEF Receive
<1>2. ASSUME NEW fd \in Fds, Disconnect(fd)
      PROVE  TypeOK'
      BY <1>2, DisconnectType
<1>3. CASE Call
      BY <1>3, WriteType, ReplayStepType, ExecuteType, CloseStepType DEF Call
<1>4. CASE Crash \/ \E fd \in Fds : Sigpipe(fd)
      BY <1>4, DiesType DEF Crash, Sigpipe, TypeOK
<1>5. CASE \/ \E fd \in Fds : Connect(fd) \/ Hangup(fd) \/ Reset(fd)
           \/ Restart
      BY <1>5, EnvironmentType
<1>6. CASE Stopped \/ UNCHANGED vars
      BY <1>6 DEF Stopped, vars, memory, observed, TypeOK
<1>. QED  BY <1>1, <1>2, <1>3, <1>4, <1>5, <1>6 DEF Next

\* In every behaviour of the server each variable keeps its type: no handler
\* leaves a null account, a negative capacity or a call without a receiver.
THEOREM TypeCorrect == Spec => []TypeOK
<1>1. Init => TypeOK
      BY InitType
<1>2. TypeOK /\ [Next]_vars => TypeOK'
      BY NextType
<1>. QED  BY <1>1, <1>2, PTL DEF Spec

\* The server is not started again.
LEMMA NeverAgain ==
    ASSUME MaxRestarts = 0, restarts = 0, [Next]_vars
    PROVE  restarts' = 0
<1>1. ASSUME NEW c \in Fds, NEW p \in Packages, Receive(c, p)
      PROVE  restarts' = restarts
      BY <1>1 DEF Receive, analyzePackage, Does, Answers, Refuse, Login,
         WithFunction, JoinRoom, OneToOneChat, LeaveChatUser, AddUser,
         handleModifyUser, DeleteUser, addRoom, ModifyRoom, DeleteRoom,
         ShowRoom, getListRoles, getUserOnline, FindUser
<1>2. CASE Call
      BY <1>2 DEF Call, Write, ReplayRow, ReplayEnd, ReplayJunk, Execute, Close
<1>3. CASE \E c \in Fds : Disconnect(c) \/ Sigpipe(c) \/ Connect(c) \/ Hangup(c)
                          \/ Reset(c)
      BY <1>3 DEF Disconnect, Sigpipe, Connect, Hangup, Reset
<1>4. CASE Crash \/ Stopped \/ UNCHANGED vars
      BY <1>4 DEF Crash, Stopped, vars
<1>5. CASE Restart
      BY <1>5 DEF Restart
<1>. QED  BY <1>1, <1>2, <1>3, <1>4, <1>5 DEF Next

-----------------------------------------------------------------------------
(* The rooms.                                                              *)

\* Room::add keeps a room sound when its two tests pass.
LEMMA AddSound ==
    ASSUME NEW room \in RoomRecords, Sound(room), NEW fd, CanAdd(room, fd)
    PROVE  Sound(Add(room, fd))
<1>. DEFINE s == room.members
            n == Len(s)
<1>1. s \in Seq(Fds) /\ n \in Nat /\ room.capacity \in Nat
      BY DEF RoomRecords
<1>2. /\ Add(room, fd).members = Append(s, fd)
      /\ Add(room, fd).capacity = room.capacity
      BY DEF Add, RoomRecords
<1>3. n < room.capacity /\ \A i \in 1..n : s[i] # fd
      BY DEF CanAdd, find, getOnlUser
<1>4. \A i, j \in 1..n : s[i] = s[j] => i = j
      BY DEF Sound, getOnlUser
<1>5. /\ Len(Append(s, fd)) = n + 1
      /\ Append(s, fd)[n + 1] = fd
      /\ \A i \in 1..n : Append(s, fd)[i] = s[i]
      BY <1>1
<1>6. \A i \in 1..(n + 1) : i \in 1..n \/ i = n + 1
      BY <1>1
<1>7. n + 1 <= room.capacity
      BY <1>1, <1>3
<1>. HIDE DEF s, n
<1>8. ASSUME NEW i \in 1..(n + 1), NEW j \in 1..(n + 1),
             Append(s, fd)[i] = Append(s, fd)[j]
      PROVE  i = j
      BY <1>3, <1>4, <1>5, <1>6, <1>8
<1>. QED  BY <1>2, <1>5, <1>7, <1>8 DEF Sound, getOnlUser

\* Room::removeUser keeps a room sound: the shift repeats no member.
LEMMA RemoveSound ==
    ASSUME NEW room \in RoomRecords, Sound(room), NEW fd
    PROVE  Sound(removeUser(room, fd))
<1>1. CASE ~find(room, fd)
      BY <1>1 DEF removeUser
<1>2. CASE find(room, fd)
  <2>. DEFINE s == room.members
              n == Len(s)
              First(i) == s[i] = fd /\ \A j \in 1..(i - 1) : s[j] # fd
              k == CHOOSE i \in 1..n : First(i)
  <2>1. s \in Seq(Fds) /\ n \in Nat /\ room.capacity \in Nat
        BY DEF RoomRecords
  <2>2. n <= room.capacity /\ \A i, j \in 1..n : s[i] = s[j] => i = j
        BY DEF Sound, getOnlUser
  <2>3. PICK i \in 1..n : s[i] = fd
        BY <1>2 DEF find, getOnlUser
  <2>4. First(i)
    <3>1. \A j \in 1..(i - 1) : j \in 1..n /\ j # i
          BY <2>1, <2>3
    <3>. QED  BY <2>2, <2>3, <3>1
  <2>5. k \in 1..n /\ n - 1 \in Nat
        BY <2>1, <2>3, <2>4
  <2>6. removeUser(room, fd) = [room EXCEPT !.members = Shift(s, k)]
        BY <1>2 DEF removeUser, getOnlUser
  <2>. HIDE DEF k
  <2>7. /\ Len(Shift(s, k)) = n - 1
        /\ \A j \in 1..(n - 1) :
              Shift(s, k)[j] = IF j < k THEN s[j] ELSE s[j + 1]
    <3>1. \A j \in 1..(n - 1) : j \in 1..n /\ j + 1 \in 1..n
          BY <2>1
    <3>2. Shift(s, k) \in [1..(n - 1) -> Fds]
          BY <2>1, <3>1 DEF Shift
    <3>3. Len(Shift(s, k)) = n - 1
          BY <2>5, <3>2
    <3>. QED  BY <3>3 DEF Shift
  <2>8. ASSUME NEW a \in 1..(n - 1), NEW b \in 1..(n - 1),
               Shift(s, k)[a] = Shift(s, k)[b]
        PROVE  a = b
    <3>. DEFINE from(j) == IF j < k THEN j ELSE j + 1
    <3>1. from(a) \in 1..n /\ from(b) \in 1..n
          BY <2>1, <2>5
    <3>2. Shift(s, k)[a] = s[from(a)] /\ Shift(s, k)[b] = s[from(b)]
          BY <2>7
    <3>3. from(a) = from(b)
          BY <2>2, <2>8, <3>1, <3>2
    <3>. QED  BY <2>1, <2>5, <3>3
  <2>9. removeUser(room, fd).members = Shift(s, k)
        /\ removeUser(room, fd).capacity = room.capacity
        BY <2>6 DEF RoomRecords
  <2>10. n - 1 <= room.capacity
         BY <2>1, <2>2
  <2>. HIDE DEF s, n
  <2>. QED  BY <2>7, <2>8, <2>9, <2>10 DEF Sound, getOnlUser
<1>. QED  BY <1>1, <1>2

\* Room::setCapacity keeps a room sound: it is refused below the members.
LEMMA CapacitySound ==
    ASSUME NEW room \in RoomRecords, Sound(room), NEW c \in Int
    PROVE  Sound(setCapacity(room, c))
<1>1. Len(room.members) \in Nat
      BY DEF RoomRecords
<1>2. CASE c < Len(room.members)
      BY <1>2 DEF setCapacity, getOnlUser
<1>3. CASE ~(c < Len(room.members))
  <2>. DEFINE new == [room EXCEPT !.capacity = c]
  <2>1. setCapacity(room, c) = new
        BY <1>3 DEF setCapacity, getOnlUser
  <2>2. new.members = room.members /\ new.capacity = c
        BY DEF RoomRecords
  <2>3. Len(room.members) <= c
        BY <1>1, <1>3
  <2>. HIDE DEF new
  <2>. QED  BY <2>1, <2>2, <2>3 DEF Sound, getOnlUser
<1>. QED  BY <1>2, <1>3

LEMMA RenamedSound ==
    ASSUME NEW room \in RoomRecords, Sound(room), NEW id
    PROVE  Sound(setRoomID(room, id))
<1>1. /\ setRoomID(room, id).members = room.members
      /\ setRoomID(room, id).capacity = room.capacity
      BY DEF setRoomID, RoomRecords
<1>. QED  BY <1>1 DEF Sound, getOnlUser

\* A new room, and with them all the rooms of a server that starts.
LEMMA NewSound ==
    ASSUME NEW id, NEW c \in Nat
    PROVE  Sound(NewRoom(id, c))
BY DEF NewRoom, Sound, getOnlUser

LEMMA LoadSound ==
    ASSUME NEW d, IsDatabase(d)
    PROVE  \A r \in DOMAIN mapRoom(d) : Sound(mapRoom(d)[r])
<1>1. \A r \in DOMAIN d.rooms : d.rooms[r] \in Nat
      BY DEF IsDatabase, IsMap
<1>. QED  BY <1>1, NewSound DEF mapRoom

\* One room of the map is replaced by a sound one.
LEMMA ReplaceSound ==
    ASSUME NEW m, \A x \in DOMAIN m : Sound(m[x]), NEW r, NEW room, Sound(room)
    PROVE  /\ \A x \in DOMAIN [m EXCEPT ![r] = room] :
                 Sound([m EXCEPT ![r] = room][x])
           /\ \A x \in DOMAIN Put(m, r, room) : Sound(Put(m, r, room)[x])
           /\ \A x \in DOMAIN Insert(m, r, room) : Sound(Insert(m, r, room)[x])
           /\ \A x \in DOMAIN Erase(m, r) : Sound(Erase(m, r)[x])
BY DEF Put, Insert, Erase, Restrict

LEMMA LeaveSound ==
    ASSUME TypeOK, RoomsSound, NEW fd, NEW st
    PROVE  \A r \in DOMAIN RoomsWithout(fd, st) : Sound(RoomsWithout(fd, st)[r])
<1>1. CASE st.name \notin DOMAIN roomMap
      BY <1>1 DEF RoomsWithout, RoomsSound
<1>2. CASE st.name \in DOMAIN roomMap
  <2>. DEFINE room == removeUser(roomMap[st.name], fd)
  <2>1. roomMap[st.name] \in RoomRecords
        BY <1>2, MemoryTypes, MapValue
  <2>2. Sound(room)
        BY <1>2, <2>1, RemoveSound DEF RoomsSound
  <2>. DEFINE rest == Erase(roomMap, st.name)
  <2>3. RoomsWithout(fd, st) = Insert(rest, room.roomID, room)
        BY <1>2 DEF RoomsWithout
  <2>4. \A x \in DOMAIN rest : Sound(rest[x])
        BY <2>2, ReplaceSound DEF RoomsSound
  <2>. HIDE DEF room, rest
  <2>. QED  BY <2>2, <2>3, <2>4, ReplaceSound
<1>. QED  BY <1>1, <1>2

\* A member is added to one room, if its two tests pass.
LEMMA EnterSound ==
    ASSUME TypeOK, RoomsSound, NEW r \in DOMAIN roomMap, NEW fd,
           CanAdd(roomMap[r], fd), roomMap' = [roomMap EXCEPT ![r] = Add(@, fd)]
    PROVE  RoomsSound'
<1>1. roomMap[r] \in RoomRecords
      BY MemoryTypes, MapValue
<1>2. Sound(Add(roomMap[r], fd))
      BY <1>1, AddSound DEF RoomsSound
<1>. QED  BY <1>2, ReplaceSound DEF RoomsSound

\* The handlers of the administrators that change a room.
LEMMA AdminRoomsSound ==
    ASSUME TypeOK, RoomsSound, NEW fd, NEW r, NEW c \in Int,
           addRoom(fd, r, c) \/ ModifyRoom(fd, r, c) \/ DeleteRoom(fd, r)
    PROVE  RoomsSound'
<1>1. CASE UNCHANGED roomMap
      BY <1>1 DEF RoomsSound
<1>2. CASE addRoom(fd, r, c) /\ ~UNCHANGED roomMap
  <2>1. PICK id : roomMap' = Put(roomMap, r, NewRoom(id, c)) /\ c \in Nat
        BY <1>2 DEF addRoom, Answers, memory
  <2>2. Sound(NewRoom(id, c))
        BY <2>1, NewSound
  <2>. QED  BY <2>1, <2>2, ReplaceSound DEF RoomsSound
<1>3. CASE ModifyRoom(fd, r, c) /\ ~UNCHANGED roomMap
  <2>. DEFINE room == setRoomID(roomMap[r], r)
  <2>1. /\ roomMap' = [roomMap EXCEPT ![r] = setCapacity(room, c)]
        /\ r \in DOMAIN roomMap
        BY <1>3 DEF ModifyRoom, MayModifyRoom, Answers, memory
  <2>2. roomMap[r] \in RoomRecords /\ r \in Rooms
        BY <2>1, MemoryTypes, MapValue DEF IsMap
  <2>3. room \in RoomRecords /\ Sound(room)
        BY <2>1, <2>2, RoomOperations, RenamedSound DEF RoomsSound
  <2>. HIDE DEF room
  <2>4. Sound(setCapacity(room, c))
        BY <2>3, CapacitySound
  <2>. QED  BY <2>1, <2>4, ReplaceSound DEF RoomsSound
<1>4. CASE DeleteRoom(fd, r) /\ ~UNCHANGED roomMap
  <2>1. roomMap' = Erase(roomMap, r)
        BY <1>4 DEF DeleteRoom, Answers, memory
  <2>2. Sound(NewRoom(r, 0))
        BY NewSound
  <2>. QED  BY <2>1, <2>2, ReplaceSound DEF RoomsSound
<1>. QED  BY <1>1, <1>2, <1>3, <1>4

\* The handler of a package leaves the rooms sound.
LEMMA ReceiveSound ==
    ASSUME TypeOK, RoomsSound, NEW fd \in Fds, NEW p \in Packages,
           analyzePackage(fd, p)
    PROVE  RoomsSound'
<1>1. CASE UNCHANGED roomMap
      BY <1>1 DEF RoomsSound
<1>2. CASE Login(fd, p.user, p.password) /\ ~UNCHANGED roomMap
  <2>. DEFINE r == mapuser[p.user].state.name
  <2>1. /\ roomMap' = [roomMap EXCEPT ![r] = Add(@, fd)]
        /\ r \in DOMAIN roomMap
        /\ CanAdd(roomMap[r], fd)
        BY <1>2 DEF Login, Answers, memory, Returns
  <2>. QED  BY <2>1, EnterSound
<1>3. CASE JoinRoom(fd, p.room) /\ ~UNCHANGED roomMap
  <2>1. /\ roomMap' = [roomMap EXCEPT ![p.room] = Add(@, fd)]
        /\ p.room \in DOMAIN roomMap
        /\ CanAdd(roomMap[p.room], fd)
        BY <1>3 DEF JoinRoom, Answers, memory
  <2>. QED  BY <2>1, EnterSound
<1>4. CASE LeaveChatUser(fd) /\ ~UNCHANGED roomMap
  <2>. DEFINE st == mapuser[findUserByfd(mapuser, fd)].state
  <2>1. roomMap' = RoomsWithout(fd, st)
        BY <1>4 DEF LeaveChatUser, Answers, memory
  <2>. QED  BY <2>1, LeaveSound DEF RoomsSound
<1>5. CASE /\ p.type \in {"createRoom", "modifyRoom", "deleteRoom"}
           /\ \/ p.type = "createRoom" /\ addRoom(fd, p.room, p.capacity)
              \/ p.type = "modifyRoom" /\ ModifyRoom(fd, p.room, p.capacity)
              \/ p.type = "deleteRoom" /\ DeleteRoom(fd, p.room)
  <2>1. CASE p.type \in {"createRoom", "modifyRoom"}
    <3>1. p.capacity \in Int
          BY <2>1, CapacitiesAssumption DEF Packages
    <3>. QED  BY <1>5, <2>1, <3>1, AdminRoomsSound
  <2>2. CASE p.type = "deleteRoom"
        BY <1>5, <2>2, AdminRoomsSound, 0 \in Int
  <2>. QED  BY <1>5, <2>1, <2>2
<1>6. \/ UNCHANGED roomMap
      \/ Login(fd, p.user, p.password)
      \/ JoinRoom(fd, p.room)
      \/ LeaveChatUser(fd)
      \/ p.type = "createRoom" /\ addRoom(fd, p.room, p.capacity)
      \/ p.type = "modifyRoom" /\ ModifyRoom(fd, p.room, p.capacity)
      \/ p.type = "deleteRoom" /\ DeleteRoom(fd, p.room)
      BY DEF analyzePackage, Refuse, Answers, WithFunction, OneToOneChat,
             AddUser, handleModifyUser, DeleteUser, ShowRoom, getListRoles,
             getUserOnline, FindUser, memory
<1>. QED  BY <1>1, <1>2, <1>3, <1>4, <1>5, <1>6

\* Every other step: a member leaves with its connection, the process ends or
\* is started again, or the rooms stay as they are.
LEMMA NextSound == TypeOK /\ RoomsSound /\ [Next]_vars => RoomsSound'
<1>. SUFFICES ASSUME TypeOK, RoomsSound, [Next]_vars PROVE RoomsSound'
     OBVIOUS
<1>1. ASSUME NEW fd \in Fds, NEW p \in Packages, Receive(fd, p)
      PROVE  RoomsSound'
      BY <1>1, ReceiveSound DEF Receive
<1>2. ASSUME NEW fd \in Fds, Disconnect(fd)
      PROVE  RoomsSound'
  <2>. DEFINE st == mapuser[findUserByfd(mapuser, fd)].state
  <2>1. UNCHANGED roomMap \/ roomMap' = RoomsWithout(fd, st)
        BY <1>2 DEF Disconnect, changeStateUserOff, memory
  <2>. QED  BY <2>1, LeaveSound DEF RoomsSound
<1>3. CASE roomMap' = Empty
      BY <1>3 DEF Empty, RoomsSound
<1>4. CASE Restart
      BY <1>4, MemoryTypes, LoadSound DEF Restart, RoomsSound
<1>5. CASE UNCHANGED roomMap
      BY <1>5 DEF RoomsSound
<1>6. Call => UNCHANGED roomMap \/ roomMap' = Empty
      BY DEF Call, Write, ReplayRow, ReplayEnd, ReplayJunk, Execute, Close,
             Dies, memory
<1>7. \/ \E fd \in Fds, p \in Packages : Receive(fd, p)
      \/ \E fd \in Fds : Disconnect(fd)
      \/ Restart
      \/ UNCHANGED roomMap
      \/ roomMap' = Empty
      BY <1>6 DEF Next, Sigpipe, Connect, Hangup, Reset, Crash, Stopped, Dies,
                  memory, vars
<1>. QED  BY <1>1, <1>2, <1>3, <1>4, <1>5, <1>7

\* No room ever holds more members than its capacity, or one of them twice,
\* whatever the number of rooms, users and connections: Room::add, removeUser,
\* setCapacity and the handlers that call them fit together.
THEOREM RoomsStaySound == Spec => []RoomsSound
<1>1. Init => RoomsSound
      BY InitDbAssumption, LoadSound DEF Init, RoomsSound
<1>2. TypeOK /\ RoomsSound /\ [Next]_vars => RoomsSound'
      BY NextSound
<1>. QED  BY <1>1, <1>2, TypeCorrect, PTL DEF Spec

-----------------------------------------------------------------------------
(* The names of the rooms.                                                 *)

\* A room that getRoomID does not return the name of the map for: both names
\* are known to be ambiguous.
NamesRead ==
    \A r \in DOMAIN roomMap :
        roomMap[r].roomID # r => {r, roomMap[r].roomID} \subseteq misread

\* Room::add, removeUser and setCapacity leave the name alone.
LEMMA SameName ==
    ASSUME NEW room \in RoomRecords, NEW x
    PROVE  /\ Add(room, x).roomID = room.roomID
           /\ removeUser(room, x).roomID = room.roomID
           /\ setCapacity(room, x).roomID = room.roomID
           /\ setRoomID(room, x).roomID = x
BY DEF Add, removeUser, setCapacity, setRoomID, RoomRecords

\* LeaveRoom: the other rooms stay, and so does this one under its name,
\* unless the name was read back longer.
LEMMA LeaveOthers ==
    ASSUME TypeOK, NamesRead, NEW fd, NEW st
    PROVE  /\ DOMAIN RoomsWithout(fd, st) \ misread = DOMAIN roomMap \ misread
           /\ \A x \in DOMAIN roomMap \ misread :
                 RoomsWithout(fd, st)[x] =
                    IF x = st.name THEN removeUser(roomMap[x], fd) ELSE roomMap[x]
<1>1. CASE st.name \notin DOMAIN roomMap
      BY <1>1 DEF RoomsWithout
<1>2. CASE st.name \in DOMAIN roomMap
  <2>. DEFINE r == st.name
              left == removeUser(roomMap[r], fd)
              rest == Erase(roomMap, r)
              id == left.roomID
              others == RoomsWithout(fd, st)
  <2>1. others = Insert(rest, id, left)
        BY <1>2 DEF RoomsWithout
  <2>2. id = r \/ {r, id} \subseteq misread
    <3>1. id = roomMap[r].roomID
          BY <1>2, MemoryTypes, MapValue, SameName
    <3>. QED  BY <1>2, <3>1 DEF NamesRead
  <2>3. DOMAIN rest = DOMAIN roomMap \ {r} /\ \A x \in DOMAIN rest : rest[x] = roomMap[x]
        BY EraseValues
  <2>. HIDE DEF rest, id
  <2>4. /\ DOMAIN others = (DOMAIN roomMap \ {r}) \cup {id}
        /\ \A x \in DOMAIN others : x # id => others[x] = roomMap[x]
        /\ id \notin DOMAIN rest => others[id] = left
        BY <2>1, <2>3 DEF Insert, Put
  <2>. HIDE DEF others, left
  <2>5. DOMAIN others \ misread = DOMAIN roomMap \ misread
        BY <1>2, <2>2, <2>4
  <2>6. ASSUME NEW x \in DOMAIN roomMap \ misread
        PROVE  others[x] = IF x = r THEN left ELSE roomMap[x]
    <3>1. CASE x = r
          BY <2>2, <2>3, <2>4, <3>1
    <3>2. CASE x # r
          BY <2>2, <2>4, <3>2
    <3>. QED  BY <3>1, <3>2
  <2>. QED  BY <2>5, <2>6 DEF others, left
<1>. QED  BY <1>1, <1>2

\* LeaveRoom puts the room back under the name it returns.
LEMMA LeaveNames ==
    ASSUME TypeOK, NamesRead, NEW fd, NEW st,
           roomMap' = RoomsWithout(fd, st), UNCHANGED misread
    PROVE  NamesRead'
<1>1. CASE st.name \notin DOMAIN roomMap
      BY <1>1 DEF RoomsWithout, NamesRead
<1>2. CASE st.name \in DOMAIN roomMap
  <2>. DEFINE left == removeUser(roomMap[st.name], fd)
              rest == Erase(roomMap, st.name)
  <2>1. roomMap' = Insert(rest, left.roomID, left)
        BY <1>2 DEF RoomsWithout
  <2>2. /\ DOMAIN rest \subseteq DOMAIN roomMap
        /\ \A x \in DOMAIN rest : rest[x] = roomMap[x]
    <3>1. /\ DOMAIN rest = DOMAIN roomMap \ {st.name}
          /\ \A x \in DOMAIN roomMap : x # st.name => rest[x] = roomMap[x]
          BY EraseValues
    <3>. HIDE DEF rest
    <3>. QED  BY <3>1
  <2>. HIDE DEF left, rest
  <2>3. \A x \in DOMAIN roomMap' :
            \/ x \in DOMAIN roomMap /\ roomMap'[x] = roomMap[x]
            \/ roomMap'[x].roomID = x
        BY <2>1, <2>2 DEF Insert, Put
  <2>. QED  BY <2>3 DEF NamesRead
<1>. QED  BY <1>1, <1>2

\* One room is replaced by another one of the same name.
LEMMA ReplaceNames ==
    ASSUME NamesRead, NEW r, NEW room,
           r \in DOMAIN roomMap => room.roomID \in {r, roomMap[r].roomID},
           roomMap' = [roomMap EXCEPT ![r] = room], UNCHANGED misread
    PROVE  NamesRead'
BY DEF NamesRead

\* The handler of a package.
LEMMA ReceiveNames ==
    ASSUME TypeOK, NamesRead, NEW fd \in Fds, NEW p \in Packages,
           analyzePackage(fd, p)
    PROVE  NamesRead'
<1>1. CASE UNCHANGED <<roomMap, misread>>
      BY <1>1 DEF NamesRead
<1>2. ASSUME NEW r, roomMap' = [roomMap EXCEPT ![r] = Add(@, fd)],
             UNCHANGED misread
      PROVE  NamesRead'
  <2>1. r \in DOMAIN roomMap => Add(roomMap[r], fd).roomID = roomMap[r].roomID
        BY MemoryTypes, MapValue, SameName
  <2>. QED  BY <1>2, <2>1, ReplaceNames
<1>3. CASE LeaveChatUser(fd) /\ ~UNCHANGED <<roomMap, misread>>
  <2>1. /\ roomMap' = RoomsWithout(fd, mapuser[findUserByfd(mapuser, fd)].state)
        /\ UNCHANGED misread
        BY <1>3 DEF LeaveChatUser, Answers, memory
  <2>. QED  BY <2>1, LeaveNames
<1>4. CASE addRoom(fd, p.room, p.capacity) /\ ~UNCHANGED <<roomMap, misread>>
  <2>. DEFINE r == p.room
  <2>1. PICK id : /\ roomMap' = Put(roomMap, r, NewRoom(id, p.capacity))
                  /\ misread' = misread \cup (IF id = r THEN {} ELSE {r, id})
        BY <1>4 DEF addRoom, Answers, memory
  <2>2. NewRoom(id, p.capacity).roomID = id
        BY DEF NewRoom
  <2>3. \A x \in DOMAIN roomMap' :
            IF x = r THEN roomMap'[x].roomID = id
            ELSE x \in DOMAIN roomMap /\ roomMap'[x] = roomMap[x]
        BY <2>1, <2>2 DEF Put
  <2>. QED  BY <2>1, <2>3 DEF NamesRead
<1>5. CASE ModifyRoom(fd, p.room, p.capacity) /\ ~UNCHANGED <<roomMap, misread>>
  <2>. DEFINE r == p.room
              room == setCapacity(setRoomID(roomMap[r], r), p.capacity)
  <2>1. /\ r \in DOMAIN roomMap
        /\ roomMap' = [roomMap EXCEPT ![r] = room]
        /\ UNCHANGED misread
        BY <1>5 DEF ModifyRoom, MayModifyRoom, Answers, memory
  <2>2. roomMap[r] \in RoomRecords /\ r \in Rooms
        BY <2>1, MemoryTypes, MapValue DEF IsMap
  <2>3. setRoomID(roomMap[r], r) \in RoomRecords
        BY <2>2, RoomOperations
  <2>4. room.roomID = r
        BY <2>2, <2>3, SameName
  <2>. HIDE DEF room
  <2>. QED  BY <2>1, <2>4, ReplaceNames
<1>6. CASE DeleteRoom(fd, p.room) /\ ~UNCHANGED <<roomMap, misread>>
  <2>1. roomMap' = Erase(roomMap, p.room) /\ UNCHANGED misread
        BY <1>6 DEF DeleteRoom, Answers, memory
  <2>2. \A x \in DOMAIN roomMap' : x \in DOMAIN roomMap /\ roomMap'[x] = roomMap[x]
        BY <2>1 DEF Erase, Restrict
  <2>. QED  BY <2>1, <2>2 DEF NamesRead
<1>7. \/ UNCHANGED <<roomMap, misread>>
      \/ \E r : roomMap' = [roomMap EXCEPT ![r] = Add(@, fd)] /\ UNCHANGED misread
      \/ LeaveChatUser(fd)
      \/ addRoom(fd, p.room, p.capacity)
      \/ ModifyRoom(fd, p.room, p.capacity)
      \/ DeleteRoom(fd, p.room)
      BY DEF analyzePackage, Refuse, Answers, Login, JoinRoom, WithFunction,
             OneToOneChat, AddUser, handleModifyUser, DeleteUser, ShowRoom,
             getListRoles, getUserOnline, FindUser, memory
<1>. QED  BY <1>1, <1>2, <1>3, <1>4, <1>5, <1>6, <1>7

\* A room whose name is read back otherwise was created so, and both names are
\* in misread, as long as the process runs: mapRoom reads every name as it is.
THEOREM NamesAreRead == Spec => []NamesRead
<1>1. Init => NamesRead
      BY DEF Init, mapRoom, NewRoom, NamesRead
<1>2. TypeOK /\ NamesRead /\ [Next]_vars => NamesRead'
  <2>. SUFFICES ASSUME TypeOK, NamesRead, [Next]_vars PROVE NamesRead'
       OBVIOUS
  <2>1. ASSUME NEW fd \in Fds, NEW p \in Packages, Receive(fd, p)
        PROVE  NamesRead'
        BY <2>1, ReceiveNames DEF Receive
  <2>2. ASSUME NEW fd \in Fds, Disconnect(fd)
        PROVE  NamesRead'
    <3>. DEFINE st == mapuser[findUserByfd(mapuser, fd)].state
    <3>1. UNCHANGED misread /\ (UNCHANGED roomMap \/ roomMap' = RoomsWithout(fd, st))
          BY <2>2 DEF Disconnect, changeStateUserOff
    <3>. QED  BY <3>1, LeaveNames DEF NamesRead
  <2>3. CASE roomMap' = Empty
        BY <2>3 DEF Empty, NamesRead
  <2>4. CASE Restart
        BY <2>4 DEF Restart, mapRoom, NewRoom, NamesRead
  <2>5. CASE UNCHANGED <<roomMap, misread>>
        BY <2>5 DEF NamesRead
  <2>6. Call => UNCHANGED <<roomMap, misread>> \/ roomMap' = Empty
        BY DEF Call, Write, ReplayRow, ReplayEnd, ReplayJunk, Execute, Close,
               Dies, memory
  <2>7. \/ \E fd \in Fds, p \in Packages : Receive(fd, p)
        \/ \E fd \in Fds : Disconnect(fd)
        \/ Restart
        \/ UNCHANGED <<roomMap, misread>>
        \/ roomMap' = Empty
        BY <2>6 DEF Next, Sigpipe, Connect, Hangup, Reset, Crash, Stopped, Dies,
                    memory, vars
  <2>. QED  BY <2>1, <2>2, <2>3, <2>4, <2>5, <2>7
<1>. QED  BY <1>1, <1>2, TypeCorrect, PTL DEF Spec

-----------------------------------------------------------------------------
(* The states of the users and the lists of the rooms.                     *)

Sits(account) == account.state.type = 2

\* Whoever is in a room is online and in its list.  Nothing keeps two users
\* from sharing a connection; then they are in different rooms, so that one of
\* them can leave its room without taking the other out of the list.  Rooms
\* whose name is ambiguous are left out.
Seated(m, rooms, ambiguous) ==
    /\ \A u \in DOMAIN m : Sits(m[u]) => m[u].fd # NoFd
    /\ \A u \in DOMAIN m : Sits(m[u]) /\ m[u].state.name \notin ambiguous =>
          /\ m[u].state.name \in DOMAIN rooms
          /\ m[u].fd \in listClients(rooms[m[u].state.name])
    /\ \A u, v \in DOMAIN m :
          u # v /\ Sits(m[u]) /\ Sits(m[v]) /\ m[u].fd = m[v].fd
          /\ m[u].state.name \notin ambiguous
              => m[u].state.name # m[v].state.name

SeatedInv == restarts = 0 => Seated(mapuser, roomMap, misread)

\* Who is written to after Room::add, removeUser, setCapacity.
LEMMA AddClients ==
    ASSUME NEW room \in RoomRecords, NEW fd \in Fds
    PROVE  /\ listClients(room) \subseteq listClients(Add(room, fd))
           /\ fd \in listClients(Add(room, fd))
           /\ CanAdd(room, fd) => fd \notin listClients(room)
<1>. DEFINE s == room.members
            n == Len(s)
<1>1. s \in Seq(Fds) /\ n \in Nat
      BY DEF RoomRecords
<1>2. Add(room, fd).members = Append(s, fd)
      BY DEF Add, RoomRecords
<1>3. /\ Len(Append(s, fd)) = n + 1
      /\ Append(s, fd)[n + 1] = fd
      /\ \A i \in 1..n : Append(s, fd)[i] = s[i]
      BY <1>1
<1>4. n + 1 \in 1..(n + 1) /\ \A i \in 1..n : i \in 1..(n + 1)
      BY <1>1
<1>5. listClients(room) = {s[i] : i \in 1..n}
      BY DEF listClients, getOnlUser
<1>6. listClients(Add(room, fd)) = {Append(s, fd)[i] : i \in 1..(n + 1)}
      BY <1>2, <1>3 DEF listClients, getOnlUser
<1>7. CanAdd(room, fd) => \A i \in 1..n : s[i] # fd
      BY DEF CanAdd, find, getOnlUser
<1>. HIDE DEF s, n
<1>. QED  BY <1>3, <1>4, <1>5, <1>6, <1>7

\* In the list of the room, fd was at place k; those behind it have moved up.
RemovedAt(room, fd, k) ==
    /\ room.members[k] = fd
    /\ Len(removeUser(room, fd).members) = Len(room.members) - 1
    /\ \A j \in 1..(Len(room.members) - 1) :
          removeUser(room, fd).members[j] =
             IF j < k THEN room.members[j] ELSE room.members[j + 1]

\* Room::removeUser closes the gap at the first occurrence.
LEMMA RemovedPosition ==
    ASSUME NEW room \in RoomRecords, NEW fd, find(room, fd)
    PROVE  \E k \in 1..Len(room.members) : RemovedAt(room, fd, k)
<1>. DEFINE s == room.members
            n == Len(s)
            First(i) == s[i] = fd /\ \A j \in 1..(i - 1) : s[j] # fd
            k == CHOOSE i \in 1..n : First(i)
<1>1. s \in Seq(Fds) /\ n \in Nat
      BY DEF RoomRecords
<1>2. \E i \in 1..n : First(i)
  <2>. DEFINE places == {i \in 1..n : s[i] = fd}
  <2>1. places \in SUBSET Nat /\ places # {}
        BY DEF find, getOnlUser
  <2>2. PICK i \in places : \A j \in places : i <= j
        BY <2>1, LeastNat
  <2>3. \A j \in 1..(i - 1) : j \in 1..n /\ ~(i <= j)
        BY <1>1, <2>2
  <2>. QED  BY <2>2, <2>3
<1>3. k \in 1..n /\ s[k] = fd
      BY <1>2
<1>4. removeUser(room, fd).members = Shift(s, k)
      BY DEF removeUser, getOnlUser, RoomRecords
<1>. HIDE DEF k
<1>5. /\ Len(Shift(s, k)) = n - 1
      /\ \A j \in 1..(n - 1) :
            Shift(s, k)[j] = IF j < k THEN s[j] ELSE s[j + 1]
  <2>1. \A j \in 1..(n - 1) : j \in 1..n /\ j + 1 \in 1..n
        BY <1>1
  <2>2. Shift(s, k) \in [1..(n - 1) -> Fds]
        BY <1>1, <2>1 DEF Shift
  <2>3. Len(Shift(s, k)) = n - 1
        BY <1>1, <1>3, <2>2
  <2>. QED  BY <2>3 DEF Shift
<1>6. /\ room.members[k] = fd
      /\ Len(removeUser(room, fd).members) = Len(room.members) - 1
      /\ \A j \in 1..(Len(room.members) - 1) :
            removeUser(room, fd).members[j] =
               IF j < k THEN room.members[j] ELSE room.members[j + 1]
      BY <1>3, <1>4, <1>5
<1>7. RemovedAt(room, fd, k)
      BY <1>6, Zenon DEF RemovedAt
<1>. QED  BY <1>3, <1>7, Zenon

\* The others stay in the list ...
LEMMA RemoveClients ==
    ASSUME NEW room \in RoomRecords, NEW fd, NEW other \in listClients(room),
           other # fd
    PROVE  other \in listClients(removeUser(room, fd))
<1>1. CASE ~find(room, fd)
      BY <1>1 DEF removeUser
<1>2. CASE find(room, fd)
  <2>0. PICK k \in 1..Len(room.members) : RemovedAt(room, fd, k)
        BY <1>2, RemovedPosition
  <2>. DEFINE s == room.members
              n == Len(s)
              left == removeUser(room, fd).members
  <2>1. n \in Nat /\ k \in 1..n
        BY DEF RoomRecords
  <2>2. /\ s[k] = fd /\ Len(left) = n - 1
        /\ \A j \in 1..(n - 1) : left[j] = IF j < k THEN s[j] ELSE s[j + 1]
        BY <2>0 DEF RemovedAt
  <2>3. PICK i \in 1..n : other = s[i]
        BY DEF listClients, getOnlUser
  <2>4. i # k
        BY <2>2, <2>3
  <2>5. listClients(removeUser(room, fd)) = {left[j] : j \in 1..(n - 1)}
        BY <2>2 DEF listClients, getOnlUser
  <2>. HIDE DEF s, n, left
  <2>6. CASE i < k
        BY <2>1, <2>2, <2>3, <2>5, <2>6
  <2>7. CASE ~(i < k)
    <3>1. i - 1 \in 1..(n - 1) /\ ~(i - 1 < k) /\ (i - 1) + 1 = i
          BY <2>1, <2>2, <2>3, <2>4, <2>7
    <3>. QED  BY <2>2, <2>3, <2>5, <3>1
  <2>. QED  BY <2>6, <2>7
<1>. QED  BY <1>1, <1>2

\* ... nobody comes in and, where nobody is in it twice, the one goes.
LEMMA RemovedClients ==
    ASSUME NEW room \in RoomRecords, NEW fd
    PROVE  /\ listClients(removeUser(room, fd)) \subseteq listClients(room)
           /\ Sound(room) => fd \notin listClients(removeUser(room, fd))
<1>1. CASE ~find(room, fd)
      BY <1>1 DEF removeUser, find, listClients
<1>2. CASE find(room, fd)
  <2>0. PICK k \in 1..Len(room.members) : RemovedAt(room, fd, k)
        BY <1>2, RemovedPosition
  <2>. DEFINE s == room.members
              n == Len(s)
              left == removeUser(room, fd).members
  <2>1. n \in Nat /\ k \in 1..n
        BY DEF RoomRecords
  <2>2. /\ s[k] = fd /\ Len(left) = n - 1
        /\ \A j \in 1..(n - 1) : left[j] = IF j < k THEN s[j] ELSE s[j + 1]
        BY <2>0 DEF RemovedAt
  <2>3. /\ listClients(removeUser(room, fd)) = {left[j] : j \in 1..(n - 1)}
        /\ listClients(room) = {s[i] : i \in 1..n}
        /\ Sound(room) => \A i \in 1..n : s[i] = fd => i = k
        BY <2>2 DEF listClients, getOnlUser, Sound
  <2>. HIDE DEF s, n, left
  <2>4. ASSUME NEW j \in 1..(n - 1)
        PROVE  \E i \in 1..n : left[j] = s[i] /\ i # k
    <3>1. CASE j < k
      <4>1. j \in 1..n /\ left[j] = s[j] /\ j # k
            BY <2>1, <2>2, <3>1
      <4>. QED  BY <4>1
    <3>2. CASE ~(j < k)
      <4>1. j + 1 \in 1..n /\ left[j] = s[j + 1] /\ j + 1 # k
            BY <2>1, <2>2, <3>2
      <4>. QED  BY <4>1
    <3>. QED  BY <3>1, <3>2
  <2>. QED  BY <2>3, <2>4
<1>. QED  BY <1>1, <1>2

LEMMA CapacityClients ==
    ASSUME NEW room \in RoomRecords, NEW c
    PROVE  /\ listClients(setCapacity(room, c)) = listClients(room)
           /\ listClients(setRoomID(room, c)) = listClients(room)
BY DEF setCapacity, setRoomID, listClients, getOnlUser, RoomRecords

LEMMA NoClients ==
    ASSUME NEW room \in RoomRecords, getOnlUser(room) = 0
    PROVE  listClients(room) = {}
BY DEF listClients, getOnlUser

\* The users who sit in n sat there in m.
LEMMA FewerSeated ==
    ASSUME NEW m, NEW rooms, NEW M, Seated(m, rooms, M), NEW n,
           \A u \in DOMAIN n : Sits(n[u]) =>
              /\ u \in DOMAIN m
              /\ n[u].state = m[u].state
              /\ n[u].fd = m[u].fd
    PROVE  Seated(n, rooms, M)
BY DEF Seated, Sits

\* The lists have lost nobody.
LEMMA MoreListed ==
    ASSUME NEW m, NEW rooms, NEW M, Seated(m, rooms, M), NEW others, NEW N,
           M \subseteq N,
           \A r \in DOMAIN rooms :
              r \in DOMAIN others /\ listClients(rooms[r]) \subseteq listClients(others[r])
    PROVE  Seated(m, others, N)
BY DEF Seated

\* JoinRoom.
LEMMA JoinSeated ==
    ASSUME NEW m, IsMap(m, Users, Accounts), NEW rooms,
           IsMap(rooms, Rooms, RoomRecords), NEW M, Seated(m, rooms, M),
           NEW u \in DOMAIN m, NEW fd \in Fds, m[u].fd = fd,
           NEW r \in DOMAIN rooms, CanAdd(rooms[r], fd)
    PROVE  Seated(SetState(m, u, InRoom(r)), [rooms EXCEPT ![r] = Add(@, fd)], M)
<1>. DEFINE n == SetState(m, u, InRoom(r))
            others == [rooms EXCEPT ![r] = Add(@, fd)]
<1>1. \A x \in DOMAIN m : m[x] \in Accounts
      BY DEF IsMap
<1>2. /\ DOMAIN n = DOMAIN m
      /\ \A x \in DOMAIN m :
            /\ n[x].fd = m[x].fd
            /\ n[x].state = IF x = u THEN InRoom(r) ELSE m[x].state
      BY <1>1 DEF SetState, Accounts
<1>3. rooms[r] \in RoomRecords
      BY MapValue
<1>4. /\ listClients(rooms[r]) \subseteq listClients(Add(rooms[r], fd))
      /\ fd \in listClients(Add(rooms[r], fd))
      /\ fd \notin listClients(rooms[r])
      BY <1>3, AddClients
<1>5. /\ DOMAIN others = DOMAIN rooms
      /\ \A x \in DOMAIN rooms :
            others[x] = IF x = r THEN Add(rooms[r], fd) ELSE rooms[x]
      OBVIOUS
<1>6. InRoom(r).type = 2 /\ InRoom(r).name = r
      BY DEF InRoom
<1>. HIDE DEF n, others
<1>7. ASSUME NEW x \in DOMAIN n, Sits(n[x])
      PROVE  n[x].fd # NoFd
  <2>1. CASE x = u
        BY <1>2, <2>1, FdAssumption
  <2>2. CASE x # u
        BY <1>2, <1>7, <2>2 DEF Sits, Seated
  <2>. QED  BY <2>1, <2>2
<1>8. ASSUME NEW x \in DOMAIN n, Sits(n[x]), n[x].state.name \notin M
      PROVE  /\ n[x].state.name \in DOMAIN others
             /\ n[x].fd \in listClients(others[n[x].state.name])
  <2>1. CASE x = u
        BY <1>2, <1>4, <1>5, <1>6, <2>1
  <2>2. CASE x # u
    <3>1. /\ Sits(m[x]) /\ n[x].state = m[x].state /\ n[x].fd = m[x].fd
          BY <1>2, <1>8, <2>2 DEF Sits
    <3>. QED  BY <1>2, <1>4, <1>5, <1>8, <3>1 DEF Seated
  <2>. QED  BY <2>1, <2>2
<1>9. ASSUME NEW x \in DOMAIN n, NEW y \in DOMAIN n, x # y, Sits(n[x]),
             Sits(n[y]), n[x].fd = n[y].fd, n[x].state.name \notin M
      PROVE  n[x].state.name # n[y].state.name
  <2>1. CASE x # u /\ y # u
        BY <1>2, <1>9, <2>1 DEF Seated, Sits
  <2>2. ASSUME NEW z \in DOMAIN m, z # u, Sits(n[z]), n[z].fd = fd, r \notin M
        PROVE  n[z].state.name # r
    <3>1. Sits(m[z]) /\ n[z].state = m[z].state /\ m[z].fd = fd
          BY <1>2, <2>2 DEF Sits
    <3>2. r \in DOMAIN rooms
          OBVIOUS
    <3>3. SUFFICES ASSUME m[z].state.name = r PROVE FALSE
          BY <3>1
    <3>4. fd \in listClients(rooms[r])
          BY <2>2, <3>1, <3>3 DEF Seated
    <3>. QED  BY <1>4, <3>4
  <2>3. n[u].fd = fd /\ n[u].state.name = r
        BY <1>2, <1>6
  <2>. QED  BY <1>2, <1>9, <2>1, <2>2, <2>3
<1>10. Seated(n, others, M)
       BY <1>7, <1>8, <1>9 DEF Seated
<1>. QED  BY <1>10 DEF n, others

\* LeaveChatUser and Disconnect: u sits no more.
LEMMA LeaveSeated ==
    ASSUME TypeOK, NamesRead, Seated(mapuser, roomMap, misread),
           NEW u \in DOMAIN mapuser, Sits(mapuser[u]), NEW n,
           \A x \in DOMAIN n : Sits(n[x]) =>
              /\ x \in DOMAIN mapuser /\ x # u
              /\ n[x].state = mapuser[x].state
              /\ n[x].fd = mapuser[x].fd
    PROVE  Seated(n, RoomsWithout(mapuser[u].fd, mapuser[u].state), misread)
<1>. DEFINE fd == mapuser[u].fd
            r == mapuser[u].state.name
            others == RoomsWithout(fd, mapuser[u].state)
<1>1. /\ DOMAIN others \ misread = DOMAIN roomMap \ misread
      /\ \A x \in DOMAIN roomMap \ misread :
            others[x] = IF x = r THEN removeUser(roomMap[x], fd) ELSE roomMap[x]
      BY LeaveOthers
<1>. HIDE DEF others
<1>2. ASSUME NEW x \in DOMAIN n, Sits(n[x]), n[x].state.name \notin misread
      PROVE  /\ n[x].state.name \in DOMAIN others
             /\ n[x].fd \in listClients(others[n[x].state.name])
  <2>. DEFINE s == n[x].state.name
  <2>1. /\ x \in DOMAIN mapuser /\ x # u /\ Sits(mapuser[x])
        /\ n[x].state = mapuser[x].state /\ n[x].fd = mapuser[x].fd
        BY <1>2 DEF Sits
  <2>2. s \in DOMAIN roomMap \ misread /\ n[x].fd \in listClients(roomMap[s])
        BY <1>2, <2>1 DEF Seated
  <2>3. CASE s # r
        BY <1>1, <2>2, <2>3
  <2>4. CASE s = r
    <3>1. n[x].fd # fd
          BY <1>2, <2>1, <2>4 DEF Seated
    <3>2. roomMap[s] \in RoomRecords
          BY <2>2, MemoryTypes, MapValue
    <3>3. n[x].fd \in listClients(removeUser(roomMap[s], fd))
          BY <2>2, <3>1, <3>2, RemoveClients
    <3>. QED  BY <1>1, <2>2, <2>4, <3>3
  <2>. QED  BY <2>3, <2>4
<1>3. ASSUME NEW x \in DOMAIN n, Sits(n[x])
      PROVE  n[x].fd # NoFd
      BY <1>3 DEF Seated, Sits
<1>4. ASSUME NEW x \in DOMAIN n, NEW y \in DOMAIN n, x # y, Sits(n[x]),
             Sits(n[y]), n[x].fd = n[y].fd, n[x].state.name \notin misread
      PROVE  n[x].state.name # n[y].state.name
      BY <1>4 DEF Seated, Sits
<1>5. Seated(n, others, misread)
      BY <1>2, <1>3, <1>4 DEF Seated
<1>. QED  BY <1>5 DEF others

-----------------------------------------------------------------------------
(* The handlers and the states.                                            *)

\* The account of a connection.
LEMMA SenderAccount ==
    ASSUME TypeOK, NEW fd, checkfd(fd)
    PROVE  /\ findUserByfd(mapuser, fd) \in DOMAIN mapuser
           /\ mapuser[findUserByfd(mapuser, fd)].fd = fd
BY MemoryTypes, FindUser_Is DEF checkfd

\* A user who is offline sits in no room.
LEMMA OfflineStands ==
    ASSUME TypeOK, Seated(mapuser, roomMap, misread), NEW u \in DOMAIN mapuser,
           mapuser[u].fd = NoFd
    PROVE  ~Sits(mapuser[u])
BY DEF Seated

LEMMA StandsSeated ==
    ASSUME TypeOK, Seated(mapuser, roomMap, misread), NEW u, NEW st, st.type # 2,
           mapuser' = SetState(mapuser, u, st)
    PROVE  Seated(mapuser', roomMap, misread)
<1>1. \A x \in DOMAIN mapuser : mapuser[x] \in Accounts
      BY MemoryTypes DEF IsMap
<1>2. /\ DOMAIN mapuser' = DOMAIN mapuser
      /\ \A x \in DOMAIN mapuser :
            /\ mapuser'[x].fd = mapuser[x].fd
            /\ mapuser'[x].state = IF x = u THEN st ELSE mapuser[x].state
      BY <1>1 DEF SetState, Accounts
<1>. QED  BY <1>2, FewerSeated DEF Sits

LEMMA LoginSeated ==
    ASSUME TypeOK, Seated(mapuser, roomMap, misread), NEW fd, NEW u, NEW p,
           Login(fd, u, p)
    PROVE  Seated(mapuser', roomMap', misread')
<1>1. CASE ~LoginAccepted(u, p)
      BY <1>1 DEF Login, Answers, memory
<1>2. CASE LoginAccepted(u, p)
  <2>1. u \in DOMAIN mapuser /\ ~Sits(mapuser[u])
        BY <1>2, OfflineStands DEF LoginAccepted
  <2>2. ~Returns(u)
        BY <2>1 DEF Returns, Sits
  <2>3. mapuser' = [mapuser EXCEPT ![u].fd = fd] /\ UNCHANGED <<roomMap, misread>>
        BY <1>2, <2>2 DEF Login
  <2>4. \A x \in DOMAIN mapuser : mapuser[x] \in Accounts
        BY MemoryTypes DEF IsMap
  <2>5. /\ DOMAIN mapuser' = DOMAIN mapuser
        /\ \A x \in DOMAIN mapuser :
              /\ mapuser'[x].state = mapuser[x].state
              /\ x # u => mapuser'[x].fd = mapuser[x].fd
        BY <2>3, <2>4 DEF Accounts
  <2>6. Seated(mapuser', roomMap, misread)
        BY <2>1, <2>5, FewerSeated DEF Sits
  <2>. QED  BY <2>3, <2>6
<1>. QED  BY <1>1, <1>2

LEMMA JoinRoomSeated ==
    ASSUME TypeOK, Seated(mapuser, roomMap, misread), NEW fd \in Fds, checkfd(fd), NEW r,
           JoinRoom(fd, r)
    PROVE  Seated(mapuser', roomMap', misread')
<1>1. CASE UNCHANGED <<mapuser, roomMap, misread>>
      BY <1>1
<1>2. CASE ~UNCHANGED <<mapuser, roomMap, misread>>
  <2>. DEFINE u == findUserByfd(mapuser, fd)
  <2>1. /\ r \in DOMAIN roomMap /\ CanAdd(roomMap[r], fd)
        /\ roomMap' = [roomMap EXCEPT ![r] = Add(@, fd)]
        /\ mapuser' = SetState(mapuser, u, InRoom(r))
        /\ UNCHANGED misread
        BY <1>2 DEF JoinRoom, Answers, memory
  <2>2. u \in DOMAIN mapuser /\ mapuser[u].fd = fd
        BY SenderAccount
  <2>. HIDE DEF u
  <2>. QED  BY <2>1, <2>2, MemoryTypes, JoinSeated
<1>. QED  BY <1>1, <1>2

LEMMA LeaveChatUserSeated ==
    ASSUME TypeOK, NamesRead, Seated(mapuser, roomMap, misread), NEW fd, checkfd(fd),
           LeaveChatUser(fd)
    PROVE  Seated(mapuser', roomMap', misread')
<1>1. CASE UNCHANGED <<mapuser, roomMap, misread>>
      BY <1>1
<1>2. CASE ~UNCHANGED <<mapuser, roomMap, misread>>
  <2>. DEFINE u == findUserByfd(mapuser, fd)
              st == mapuser[u].state
  <2>1. /\ mapuser' = SetState(mapuser, u, Idle)
        /\ roomMap' = IF st.type = 2 THEN RoomsWithout(fd, st) ELSE roomMap
        /\ UNCHANGED misread
        BY <1>2 DEF LeaveChatUser, Answers, memory
  <2>2. u \in DOMAIN mapuser /\ mapuser[u].fd = fd
        BY SenderAccount
  <2>3. Idle.type # 2
        BY DEF Idle
  <2>. HIDE DEF u
  <2>4. CASE ~Sits(mapuser[u])
        BY <2>1, <2>3, <2>4, StandsSeated DEF Sits
  <2>5. CASE Sits(mapuser[u])
    <3>1. \A x \in DOMAIN mapuser : mapuser[x] \in Accounts
          BY MemoryTypes DEF IsMap
    <3>2. /\ DOMAIN mapuser' = DOMAIN mapuser
          /\ \A x \in DOMAIN mapuser :
                /\ mapuser'[x].fd = mapuser[x].fd
                /\ mapuser'[x].state = IF x = u THEN Idle ELSE mapuser[x].state
          BY <2>1, <3>1 DEF SetState, Accounts
    <3>3. roomMap' = RoomsWithout(mapuser[u].fd, mapuser[u].state)
          BY <2>1, <2>2, <2>5 DEF Sits
    <3>. QED  BY <2>1, <2>2, <2>3, <2>5, <3>2, <3>3, LeaveSeated DEF Sits
  <2>. QED  BY <2>4, <2>5
<1>. QED  BY <1>1, <1>2

LEMMA DisconnectSeated ==
    ASSUME TypeOK, NamesRead, Seated(mapuser, roomMap, misread), NEW fd, Disconnect(fd)
    PROVE  Seated(mapuser', roomMap', misread')
<1>1. CASE ~checkfd(fd)
      BY <1>1 DEF Disconnect
<1>2. CASE checkfd(fd)
  <2>. DEFINE u == findUserByfd(mapuser, fd)
              st == mapuser[u].state
  <2>1. /\ mapuser' = [mapuser EXCEPT ![u].state = Idle, ![u].fd = NoFd]
        /\ roomMap' = IF st.type = 2 THEN RoomsWithout(fd, st) ELSE roomMap
        /\ UNCHANGED misread
        BY <1>2 DEF Disconnect, changeStateUserOff
  <2>2. u \in DOMAIN mapuser /\ mapuser[u].fd = fd
        BY <1>2, SenderAccount
  <2>. HIDE DEF u
  <2>3. \A x \in DOMAIN mapuser : mapuser[x] \in Accounts
        BY MemoryTypes DEF IsMap
  <2>4. /\ DOMAIN mapuser' = DOMAIN mapuser
        /\ mapuser'[u].state = Idle
        /\ \A x \in DOMAIN mapuser : x # u => mapuser'[x] = mapuser[x]
        BY <2>1, <2>2, <2>3 DEF Accounts
  <2>5. \A x \in DOMAIN mapuser' : Sits(mapuser'[x]) =>
            /\ x \in DOMAIN mapuser /\ x # u
            /\ mapuser'[x].state = mapuser[x].state
            /\ mapuser'[x].fd = mapuser[x].fd
        BY <2>4 DEF Sits, Idle
  <2>6. CASE ~Sits(mapuser[u])
    <3>1. UNCHANGED <<roomMap, misread>>
          BY <2>1, <2>6 DEF Sits
    <3>2. Seated(mapuser', roomMap, misread)
          BY <2>5, FewerSeated
    <3>. QED  BY <3>1, <3>2
  <2>7. CASE Sits(mapuser[u])
    <3>1. roomMap' = RoomsWithout(mapuser[u].fd, mapuser[u].state)
          BY <2>1, <2>2, <2>7 DEF Sits
    <3>. QED  BY <2>1, <2>2, <2>5, <2>7, <3>1, LeaveSeated
  <2>. QED  BY <2>6, <2>7
<1>. QED  BY <1>1, <1>2

\* The administrators change an account that is offline, or a room that is
\* empty.
LEMMA AccountsSeated ==
    ASSUME TypeOK, Seated(mapuser, roomMap, misread), NEW fd, NEW u, NEW p, NEW role,
           \/ AddUser(fd, u, p, role)
           \/ DeleteUser(fd, u)
           \/ handleModifyUser(fd, u, p, role)
    PROVE  Seated(mapuser', roomMap', misread')
<1>1. \A x \in DOMAIN mapuser : mapuser[x] \in Accounts
      BY MemoryTypes DEF IsMap
<1>2. \A x \in DOMAIN mapuser' : Sits(mapuser'[x]) =>
          /\ x \in DOMAIN mapuser
          /\ mapuser'[x].state = mapuser[x].state
          /\ mapuser'[x].fd = mapuser[x].fd
  <2>1. CASE UNCHANGED mapuser
        BY <2>1
  <2>2. CASE AddUser(fd, u, p, role) /\ ~UNCHANGED mapuser
    <3>. DEFINE account == [password |-> p, role |-> NormalRole(role),
                            state |-> Idle, fd |-> NoFd]
    <3>1. mapuser' = Put(mapuser, u, account)
          BY <2>2 DEF AddUser, Answers, memory
    <3>2. ~Sits(account)
          BY DEF Sits, Idle
    <3>. HIDE DEF account
    <3>3. \A x \in DOMAIN mapuser' : IF x = u THEN mapuser'[x] = account
                                     ELSE x \in DOMAIN mapuser
                                          /\ mapuser'[x] = mapuser[x]
          BY <3>1 DEF Put
    <3>. QED  BY <3>2, <3>3
  <2>3. CASE DeleteUser(fd, u) /\ ~UNCHANGED mapuser
    <3>1. mapuser' = Erase(mapuser, u)
          BY <2>3 DEF DeleteUser, Answers, memory
    <3>. QED  BY <3>1 DEF Erase, Restrict
  <2>4. CASE handleModifyUser(fd, u, p, role) /\ ~UNCHANGED mapuser
    <3>1. \E new : mapuser' = [mapuser EXCEPT ![u].password = p, ![u].role = new]
          BY <2>4 DEF handleModifyUser, Answers, memory
    <3>. QED  BY <1>1, <3>1 DEF Accounts
  <2>. QED  BY <2>1, <2>2, <2>3, <2>4
<1>3. UNCHANGED <<roomMap, misread>>
      BY DEF AddUser, DeleteUser, handleModifyUser, Answers, memory
<1>. QED  BY <1>2, <1>3, FewerSeated

LEMMA AdminRoomsSeated ==
    ASSUME TypeOK, Seated(mapuser, roomMap, misread), NEW fd, NEW r, NEW c,
           addRoom(fd, r, c) \/ ModifyRoom(fd, r, c) \/ DeleteRoom(fd, r)
    PROVE  Seated(mapuser', roomMap', misread')
<1>1. UNCHANGED mapuser
      BY DEF addRoom, ModifyRoom, DeleteRoom, Answers, memory
<1>2. \A x \in DOMAIN roomMap : roomMap[x] \in RoomRecords
      BY MemoryTypes DEF IsMap
<1>3. CASE UNCHANGED <<roomMap, misread>>
      BY <1>1, <1>3
<1>4. CASE addRoom(fd, r, c) /\ ~UNCHANGED <<roomMap, misread>>
  <2>1. PICK id : /\ r \notin DOMAIN roomMap
                  /\ roomMap' = Put(roomMap, r, NewRoom(id, c))
                  /\ misread \subseteq misread'
        BY <1>4 DEF addRoom, Answers, memory
  <2>2. ASSUME NEW x \in DOMAIN roomMap
        PROVE  x \in DOMAIN roomMap' /\ roomMap'[x] = roomMap[x]
    <3>1. x # r
          BY <2>1
    <3>. QED  BY <2>1, <3>1 DEF Put
  <2>. QED  BY <1>1, <2>1, <2>2, MoreListed
<1>5. CASE ModifyRoom(fd, r, c) /\ ~UNCHANGED <<roomMap, misread>>
  <2>. DEFINE room == setCapacity(setRoomID(roomMap[r], r), c)
  <2>1. /\ roomMap' = [roomMap EXCEPT ![r] = room]
        /\ r \in DOMAIN roomMap
        /\ UNCHANGED misread
        BY <1>5 DEF ModifyRoom, MayModifyRoom, Answers, memory
  <2>2. listClients(room) = listClients(roomMap[r])
    <3>1. roomMap[r] \in RoomRecords /\ r \in Rooms
          BY <1>2, <2>1, MemoryTypes DEF IsMap
    <3>2. setRoomID(roomMap[r], r) \in RoomRecords
          BY <3>1, RoomOperations
    <3>. QED  BY <3>1, <3>2, CapacityClients
  <2>. HIDE DEF room
  <2>3. \A x \in DOMAIN roomMap :
            x \in DOMAIN roomMap' /\ listClients(roomMap'[x]) = listClients(roomMap[x])
        BY <2>1, <2>2
  <2>. QED  BY <1>1, <2>1, <2>3, MoreListed
<1>6. CASE DeleteRoom(fd, r) /\ ~UNCHANGED <<roomMap, misread>>
  <2>1. /\ r \in DOMAIN roomMap /\ getOnlUser(roomMap[r]) = 0
        /\ roomMap' = Erase(roomMap, r)
        /\ UNCHANGED misread
        BY <1>6 DEF DeleteRoom, MayDeleteRoom, Answers, memory
  <2>2. listClients(roomMap[r]) = {}
        BY <1>2, <2>1, NoClients
  <2>3. /\ DOMAIN roomMap' = DOMAIN roomMap \ {r}
        /\ \A x \in DOMAIN roomMap : x # r => roomMap'[x] = roomMap[x]
        BY <2>1, EraseValues
  <2>. QED  BY <1>1, <2>1, <2>2, <2>3 DEF Seated
<1>. QED  BY <1>3, <1>4, <1>5, <1>6

LEMMA ReceiveSeated ==
    ASSUME TypeOK, NamesRead, Seated(mapuser, roomMap, misread), NEW fd \in Fds, NEW p \in Packages,
           analyzePackage(fd, p)
    PROVE  Seated(mapuser', roomMap', misread')
<1>1. CASE UNCHANGED <<mapuser, roomMap, misread>>
      BY <1>1
<1>2. CASE Login(fd, p.user, p.password)
      BY <1>2, LoginSeated
<1>3. CASE checkfd(fd) /\ p.type = "withh" /\ WithFunction(fd, p.user)
          /\ ~UNCHANGED <<mapuser, roomMap, misread>>
  <2>1. /\ \E u : mapuser' = SetState(mapuser, u, WithUser(p.user))
        /\ UNCHANGED <<roomMap, misread>>
        BY <1>3 DEF WithFunction, Answers, memory
  <2>2. WithUser(p.user).type # 2
        BY DEF WithUser
  <2>. QED  BY <2>1, <2>2, StandsSeated
<1>4. CASE checkfd(fd) /\ JoinRoom(fd, p.room)
      BY <1>4, JoinRoomSeated
<1>5. CASE checkfd(fd) /\ LeaveChatUser(fd)
      BY <1>5, LeaveChatUserSeated
<1>6. CASE \/ AddUser(fd, p.user, p.password, p.role)
           \/ DeleteUser(fd, p.user)
           \/ handleModifyUser(fd, p.user, p.password, p.role)
      BY <1>6, AccountsSeated
<1>7. CASE \/ addRoom(fd, p.room, p.capacity)
           \/ ModifyRoom(fd, p.room, p.capacity)
           \/ DeleteRoom(fd, p.room)
      BY <1>7, AdminRoomsSeated
<1>8. \/ UNCHANGED <<mapuser, roomMap, misread>>
      \/ Login(fd, p.user, p.password)
      \/ checkfd(fd) /\ p.type = "withh" /\ WithFunction(fd, p.user)
      \/ checkfd(fd) /\ JoinRoom(fd, p.room)
      \/ checkfd(fd) /\ LeaveChatUser(fd)
      \/ AddUser(fd, p.user, p.password, p.role)
      \/ DeleteUser(fd, p.user)
      \/ handleModifyUser(fd, p.user, p.password, p.role)
      \/ addRoom(fd, p.room, p.capacity)
      \/ ModifyRoom(fd, p.room, p.capacity)
      \/ DeleteRoom(fd, p.room)
      BY DEF analyzePackage, Refuse, Answers, OneToOneChat, ShowRoom,
             getListRoles, getUserOnline, FindUser, memory
<1>. QED  BY <1>1, <1>2, <1>3, <1>4, <1>5, <1>6, <1>7, <1>8

\* Only Restart counts.
LEMMA RestartsKept ==
    ASSUME [Next]_vars
    PROVE  Restart \/ UNCHANGED restarts
<1>1. ASSUME NEW fd \in Fds, NEW p \in Packages, Receive(fd, p)
      PROVE  UNCHANGED restarts
  <2>1. analyzePackage(fd, p)
        BY <1>1 DEF Receive
  <2>2. UNCHANGED <<up, sock, db, restarts, seen, dropped>>
        BY <2>1 DEF analyzePackage, Refuse, Answers, Does, Login, WithFunction,
           JoinRoom, OneToOneChat, LeaveChatUser, ShowRoom, getListRoles,
           AddUser, handleModifyUser, DeleteUser, ModifyRoom, DeleteRoom,
           addRoom, getUserOnline, FindUser
  <2>. QED  BY <2>2
<1>2. ASSUME NEW fd \in Fds,
             Disconnect(fd) \/ Write(fd) \/ Sigpipe(fd) \/ Connect(fd)
             \/ Hangup(fd) \/ Reset(fd)
      PROVE  UNCHANGED restarts
      BY <1>2 DEF Disconnect, Write, Sigpipe, Connect, Hangup, Reset
<1>3. ASSUME ReplayRow \/ ReplayEnd \/ ReplayJunk \/ Execute \/ Close \/ Crash
             \/ Stopped \/ UNCHANGED vars
      PROVE  UNCHANGED restarts
      BY <1>3 DEF ReplayRow, ReplayEnd, ReplayJunk, Execute, Close, Crash,
         Stopped, vars
<1>. QED  BY <1>1, <1>2, <1>3 DEF Next, Call

LEMMA NextSeated == TypeOK /\ NamesRead /\ SeatedInv /\ [Next]_vars => SeatedInv'
<1>. SUFFICES ASSUME TypeOK, NamesRead, SeatedInv, [Next]_vars, restarts' = 0
              PROVE  Seated(mapuser', roomMap', misread')
     BY DEF SeatedInv
<1>1. Restart => restarts' # 0
      BY DEF Restart, TypeOK
<1>2. UNCHANGED restarts
      BY <1>1, RestartsKept
<1>3. Seated(mapuser, roomMap, misread)
      BY <1>2 DEF SeatedInv
<1>4. ASSUME NEW fd \in Fds, NEW p \in Packages, Receive(fd, p)
      PROVE  Seated(mapuser', roomMap', misread')
      BY <1>3, <1>4, ReceiveSeated DEF Receive
<1>5. ASSUME NEW fd \in Fds, Disconnect(fd)
      PROVE  Seated(mapuser', roomMap', misread')
      BY <1>3, <1>5, DisconnectSeated
<1>6. CASE Dies
      BY <1>6 DEF Dies, Empty, Seated
<1>7. CASE UNCHANGED <<mapuser, roomMap, misread>>
      BY <1>3, <1>7
<1>8. \/ \E fd \in Fds, p \in Packages : Receive(fd, p)
      \/ \E fd \in Fds : Disconnect(fd)
      \/ Dies
      \/ UNCHANGED <<mapuser, roomMap, misread>>
      BY <1>1, <1>2 DEF Next, Call, Write, ReplayRow, ReplayEnd, ReplayJunk,
             Execute, Close, Sigpipe, Connect, Hangup, Reset, Crash, Stopped,
             memory, vars
<1>. QED  BY <1>4, <1>5, <1>6, <1>7, <1>8

\* A user whose state says "in room r" is in the list of r, for any rooms and
\* connections, as long as the server is not restarted: the state and the list
\* are changed together, and nobody who leaves takes another out of the list.
\* The exception are the names of rooms that were created and read back longer,
\* and these longer names, as long as the process runs.
THEOREM StatesMatchLists == Spec => []InRoomIsMember
<1>1. Init => SeatedInv
  <2>1. ASSUME Init, NEW u \in DOMAIN mapuser
        PROVE  ~Sits(mapuser[u])
        BY <2>1, InitDbAssumption DEF Init, mapUser, StateOf, Idle, Sits
  <2>. QED  BY <2>1 DEF SeatedInv, Seated
<1>2. TypeOK /\ NamesRead /\ SeatedInv /\ [Next]_vars => SeatedInv'
      BY NextSeated
<1>3. SeatedInv => InRoomIsMember
      BY DEF SeatedInv, Seated, Sits, InRoomIsMember
<1>. QED  BY <1>1, <1>2, <1>3, TypeCorrect, NamesAreRead, PTL DEF Spec

-----------------------------------------------------------------------------
(* Memory and database.                                                    *)
(*                                                                         *)
(* That they agree is not inductive as it stands, because a statement is   *)
(* run some steps after its handler has changed the memory.  The           *)
(* strengthening (Agrees) says what those steps may find: no statement     *)
(* that changes the tables of users and rooms is left and memory and       *)
(* tables agree, or one is left and they agree once it is run.  A          *)
(* statement a key could reject is the first call of its handler, so that  *)
(* what the handler has tested still holds when it is run.  The names of   *)
(* misread are left out.                                                   *)

\* The maps of a server that has loaded d, connections and members apart.
Mirrors(m, rooms, d, M) ==
    /\ DOMAIN m = DOMAIN d.users
    /\ \A u \in DOMAIN m :
          /\ m[u].password = d.users[u].password
          /\ m[u].role = d.users[u].role
          /\ m[u].state = StateOf(d.users[u].state)
    /\ DOMAIN rooms \ M = DOMAIN d.rooms \ M
    /\ \A r \in DOMAIN rooms \ M : rooms[r].capacity = d.rooms[r]

NoSql(calls) == \A i \in 1..Len(calls) : calls[i].op # "sql"

\* The only statements are about the table of messages.
Still(calls) ==
    \A i \in 1..Len(calls) :
        calls[i].op = "sql" => calls[i].stmt.op = "deleteMessageOfUser"

StateOps == {"clearState", "updateState"}

\* s is not rejected on database d, or in one of the two cases that the tests
\* of the handlers miss.
Passes(d, s, M) ==
    Rejected(d, s) =>
        \/ s.op = "insertUser" /\ s.user \notin DOMAIN d.users
        \/ s.op = "insertRoom" /\ s.room \notin DOMAIN d.rooms \ M

\* What may be called before the statement s that decides, on database d.
Precedes(before, s, d, M) ==
    \/ before = <<>> /\ Passes(d, s, M)
    \/ NoSql(before) /\ s.op \in StateOps
    \/ s.op = "updateState" /\ before = Sql(clearState(s.user))

\* Of the calls left, s decides what the tables will be.
Decides(before, s, after) ==
    /\ todo = before \o Sql(s) \o after
    /\ NoSql(after)
    /\ Precedes(before, s, db, misread)
    /\ Mirrors(mapuser, roomMap, Run(db, s), misread)

Agrees ==
    up => \/ Still(todo) /\ Mirrors(mapuser, roomMap, db, misread)
          \/ \E before, after \in Seq(Calls), s \in Statements :
                Decides(before, s, after)

DatabaseInv ==
    /\ Agrees
    /\ ~up => todo = <<>>

-----------------------------------------------------------------------------
(* Lists of calls.                                                         *)

\* A call of two lists is a call of one of them.
LEMMA CallOfConcat ==
    ASSUME NEW s \in Seq(Calls), NEW t \in Seq(Calls), NEW i \in 1..Len(s \o t)
    PROVE  \/ \E j \in 1..Len(s) : (s \o t)[i] = s[j]
           \/ \E j \in 1..Len(t) : (s \o t)[i] = t[j]
<1>1. /\ Len(s) \in Nat /\ Len(t) \in Nat
      /\ Len(s \o t) = Len(s) + Len(t)
      /\ (s \o t)[i] = IF i <= Len(s) THEN s[i] ELSE t[i - Len(s)]
      BY ConcatProperties
<1>2. CASE i <= Len(s)
      BY <1>1, <1>2
<1>3. CASE ~(i <= Len(s))
  <2>1. i - Len(s) \in 1..Len(t)
        BY <1>1, <1>3
  <2>. QED  BY <1>1, <1>3, <2>1
<1>. QED  BY <1>2, <1>3

\* The head of a list and the calls of its tail are calls of the list.
LEMMA CallOfTail ==
    ASSUME NEW s \in Seq(Calls), s # <<>>
    PROVE  /\ Tail(s) \in Seq(Calls)
           /\ \E j \in 1..Len(s) : Head(s) = s[j]
           /\ \A i \in 1..Len(Tail(s)) :
                 \E j \in 1..Len(s) : Tail(s)[i] = s[j]
<1>1. /\ Len(s) \in Nat \ {0} /\ Len(Tail(s)) = Len(s) - 1
      /\ \A i \in 1..(Len(s) - 1) : Tail(s)[i] = s[i + 1]
      /\ Head(s) = s[1] /\ Tail(s) \in Seq(Calls)
      OBVIOUS
<1>2. \A i \in 1..(Len(s) - 1) : i + 1 \in 1..Len(s)
      BY <1>1
<1>3. 1 \in 1..Len(s)
      BY <1>1
<1>. QED  BY <1>1, <1>2, <1>3

LEMMA ListsAssociate ==
    ASSUME NEW s \in Seq(Calls), NEW t \in Seq(Calls), NEW x \in Seq(Calls)
    PROVE  (s \o t) \o x = s \o (t \o x)
BY ConcatAssociative

LEMMA NoSqlNone == NoSql(<<>>)
BY DEF NoSql

LEMMA NoSqlOne ==
    ASSUME NEW c, c.op # "sql"
    PROVE  NoSql(<<c>>)
BY DEF NoSql

LEMMA NoSqlConcat ==
    ASSUME NEW s \in Seq(Calls), NEW t \in Seq(Calls), NoSql(s), NoSql(t)
    PROVE  s \o t \in Seq(Calls) /\ NoSql(s \o t)
<1>1. s \o t \in Seq(Calls)
      BY TwoListsType
<1>2. ASSUME NEW i \in 1..Len(s \o t)
      PROVE  (s \o t)[i].op # "sql"
  <2>1. \/ \E j \in 1..Len(s) : (s \o t)[i] = s[j]
        \/ \E j \in 1..Len(t) : (s \o t)[i] = t[j]
        BY CallOfConcat
  <2>. QED  BY <2>1 DEF NoSql
<1>. QED  BY <1>1, <1>2 DEF NoSql

LEMMA NoSqlTail ==
    ASSUME NEW s \in Seq(Calls), s # <<>>, NoSql(s)
    PROVE  NoSql(Tail(s)) /\ Head(s).op # "sql"
BY CallOfTail DEF NoSql

\* What is not a statement is not one about users and rooms.
LEMMA NoSqlIsStill ==
    ASSUME NEW s, NoSql(s)
    PROVE  Still(s)
BY DEF NoSql, Still

LEMMA StillConcat ==
    ASSUME NEW s \in Seq(Calls), NEW t \in Seq(Calls), Still(s), Still(t)
    PROVE  s \o t \in Seq(Calls) /\ Still(s \o t)
<1>1. s \o t \in Seq(Calls)
      BY TwoListsType
<1>2. ASSUME NEW i \in 1..Len(s \o t)
      PROVE  (s \o t)[i].op = "sql"
                 => (s \o t)[i].stmt.op = "deleteMessageOfUser"
  <2>1. \/ \E j \in 1..Len(s) : (s \o t)[i] = s[j]
        \/ \E j \in 1..Len(t) : (s \o t)[i] = t[j]
        BY CallOfConcat
  <2>. QED  BY <2>1 DEF Still
<1>. QED  BY <1>1, <1>2 DEF Still

LEMMA StillTail ==
    ASSUME NEW s \in Seq(Calls), s # <<>>, Still(s)
    PROVE  /\ Still(Tail(s))
           /\ Head(s).op = "sql" => Head(s).stmt.op = "deleteMessageOfUser"
BY CallOfTail DEF Still

\* What the handlers write.
LEMMA NoSqlWriteAll ==
    ASSUME NEW fds, NEW pk
    PROVE  NoSql(WriteAll(fds, pk))
<1>1. NoSql(<<[op |-> "write", fds |-> fds, pk |-> pk]>>)
      BY NoSqlOne
<1>. QED  BY <1>1, NoSqlNone DEF WriteAll

LEMMA ReplyCalls ==
    ASSUME NEW fd \in Fds, NEW type \in AnswerTypes
    PROVE  Reply(fd, type) \in Seq(Calls) /\ NoSql(Reply(fd, type))
BY ReplyType, NoSqlWriteAll DEF Reply

LEMMA NoSqlParts ==
    ASSUME NEW m, NEW fd, NEW st, NEW online, NEW r
    PROVE  /\ NoSql(notificationOffline(m, fd, online))
           /\ NoSql(LeaveNotice(fd, st))
           /\ NoSql(RoomChat(r))
BY NoSqlWriteAll, NoSqlNone DEF notificationOffline, LeaveNotice, RoomChat

LEMMA StillOfflineMessage ==
    ASSUME NEW m, IsMap(m, Users, Accounts), NEW fd \in Fds, On(m, fd) # {}
    PROVE  Still(handleOfflineMessage(m, fd))
<1>. DEFINE u == findUserByfd(m, fd)
            replay == <<[op |-> "replay", fd |-> fd, user |-> u, after |-> 0]>>
<1>1. u \in Users
      BY FindUser_Is
<1>2. replay \in Seq(Calls) /\ Still(replay)
      BY <1>1, ReplayType, NoSqlOne, NoSqlIsStill
<1>3. Sql(deleteMessageOfUser(u)) \in Seq(Calls)
      BY <1>1, StatementTypes, SqlType
<1>4. Still(Sql(deleteMessageOfUser(u)))
      BY DEF Still, Sql, deleteMessageOfUser
<1>5. Still(replay \o Sql(deleteMessageOfUser(u)))
      BY <1>2, <1>3, <1>4, StillConcat
<1>6. Still(<<>>)
      BY NoSqlNone, NoSqlIsStill
<1>. QED  BY <1>5, <1>6 DEF handleOfflineMessage

-----------------------------------------------------------------------------
(* What the statements do to the tables of users and rooms.                *)

\* A state is read back as it was written.
LEMMA StateOfColumn ==
    ASSUME NEW st \in States
    PROVE  StateOf(ColumnOf(st)) = st
BY DEF States, Idle, WithUser, InRoom, ColumnOf, StateOf

SameTables(d, e) == d.users = e.users /\ d.rooms = e.rooms

LEMMA MirrorsSame ==
    ASSUME NEW m, NEW rooms, NEW M, NEW d, NEW e, SameTables(d, e),
           Mirrors(m, rooms, d, M)
    PROVE  Mirrors(m, rooms, e, M)
BY DEF Mirrors, SameTables

\* The statements about messages leave the two tables alone.
LEMMA RunMessages ==
    ASSUME NEW d, IsDatabase(d), NEW s,
           s.op \in {"saveMessage", "deleteMessageOfUser"}
    PROVE  SameTables(d, Run(d, s))
BY DEF Run, RunSaveMessage, RunDeleteMessageOfUser, IsDatabase, SameTables

\* The tables after SetState.
LEMMA SetStateTables ==
    ASSUME NEW d, IsDatabase(d), NEW u \in DOMAIN d.users, NEW column
    PROVE  /\ RunSetState(d, u, column).rooms = d.rooms
           /\ RunSetState(d, u, column).users =
                  [d.users EXCEPT ![u].state = column]
BY DEF RunSetState, IsDatabase

\* A row of the table of users with another state.
LEMMA SetStateRows ==
    ASSUME NEW d, IsDatabase(d), NEW u \in DOMAIN d.users, NEW column
    PROVE  /\ DOMAIN RunSetState(d, u, column).users = DOMAIN d.users
           /\ \A x \in DOMAIN d.users :
                 LET row == RunSetState(d, u, column).users[x]
                 IN  /\ row.password = d.users[x].password
                     /\ row.role = d.users[x].role
                     /\ row.state = IF x = u THEN column ELSE d.users[x].state
<1>. DEFINE users == RunSetState(d, u, column).users
            new == [d.users[u] EXCEPT !.state = column]
<1>1. \A x \in DOMAIN d.users : d.users[x] \in UserRows
      BY DEF IsDatabase, IsMap
<1>2. users = [d.users EXCEPT ![u] = new]
      BY SetStateTables
<1>3. /\ new.password = d.users[u].password
      /\ new.role = d.users[u].role
      /\ new.state = column
      BY <1>1 DEF UserRows
<1>. HIDE DEF users, new
<1>4. /\ DOMAIN users = DOMAIN d.users
      /\ \A x \in DOMAIN d.users : users[x] = IF x = u THEN new ELSE d.users[x]
      BY <1>2
<1>. QED  BY <1>3, <1>4 DEF users

\* clearState before updateState of the same user makes no difference.
LEMMA ClearThenUpdate ==
    ASSUME NEW d, IsDatabase(d), NEW u \in Users, NEW st \in States
    PROVE  SameTables(Run(d, updateState(u, st)),
                      Run(Run(d, clearState(u)), updateState(u, st)))
<1>. DEFINE e == RunSetState(d, u, <<>>)
            column == ColumnOf(st)
<1>1. /\ Run(d, clearState(u)) = e
      /\ Run(d, updateState(u, st)) = RunSetState(d, u, column)
      /\ Run(e, updateState(u, st)) = RunSetState(e, u, column)
      BY DEF Run, clearState, updateState
<1>2. CASE u \notin DOMAIN d.users
      BY <1>1, <1>2 DEF RunSetState, SameTables
<1>3. CASE u \in DOMAIN d.users
  <2>1. IsDatabase(e)
        BY SetStateType DEF Columns
  <2>2. e.rooms = d.rooms /\ e.users = [d.users EXCEPT ![u].state = <<>>]
        BY <1>3, SetStateTables
  <2>3. u \in DOMAIN e.users
        BY <1>3, <2>2
  <2>. HIDE DEF e, column
  <2>4. /\ RunSetState(e, u, column).rooms = e.rooms
        /\ RunSetState(e, u, column).users = [e.users EXCEPT ![u].state = column]
        BY <2>1, <2>3, SetStateTables
  <2>5. /\ RunSetState(d, u, column).rooms = d.rooms
        /\ RunSetState(d, u, column).users = [d.users EXCEPT ![u].state = column]
        BY <1>3, SetStateTables
  <2>6. [e.users EXCEPT ![u].state = column] = [d.users EXCEPT ![u].state = column]
        BY <2>2
  <2>. QED  BY <1>1, <2>2, <2>4, <2>5, <2>6 DEF SameTables
<1>. QED  BY <1>2, <1>3

\* A map in which the state of one account has changed, and the table after
\* the statement for it.
LEMMA MirrorsState ==
    ASSUME NEW m, NEW rooms, NEW M, NEW d, IsDatabase(d), Mirrors(m, rooms, d, M),
           NEW u \in DOMAIN m, NEW st \in States, NEW n,
           DOMAIN n = DOMAIN m,
           \A x \in DOMAIN m :
              /\ n[x].password = m[x].password
              /\ n[x].role = m[x].role
              /\ n[x].state = IF x = u THEN st ELSE m[x].state
    PROVE  Mirrors(n, rooms, RunSetState(d, u, ColumnOf(st)), M)
<1>. DEFINE e == RunSetState(d, u, ColumnOf(st))
<1>1. u \in DOMAIN d.users
      BY DEF Mirrors
<1>2. e.rooms = d.rooms
      BY <1>1, SetStateTables
<1>3. /\ DOMAIN e.users = DOMAIN d.users
      /\ \A x \in DOMAIN d.users :
            /\ e.users[x].password = d.users[x].password
            /\ e.users[x].role = d.users[x].role
            /\ e.users[x].state =
                   IF x = u THEN ColumnOf(st) ELSE d.users[x].state
      BY <1>1, SetStateRows
<1>4. StateOf(ColumnOf(st)) = st
      BY StateOfColumn
<1>. HIDE DEF e
<1>5. ASSUME NEW x \in DOMAIN m
      PROVE  /\ n[x].password = e.users[x].password
             /\ n[x].role = e.users[x].role
             /\ n[x].state = StateOf(e.users[x].state)
  <2>1. CASE x = u
        BY <1>3, <1>4, <2>1 DEF Mirrors
  <2>2. CASE x # u
        BY <1>3, <2>2 DEF Mirrors
  <2>. QED  BY <2>1, <2>2
<1>6. DOMAIN n = DOMAIN e.users
      BY <1>3 DEF Mirrors
<1>7. Mirrors(n, rooms, e, M)
      BY <1>2, <1>5, <1>6 DEF Mirrors
<1>. QED  BY <1>7 DEF e

\* The same for SetState, with the two statements that say so.
LEMMA MirrorsSetState ==
    ASSUME NEW m, IsMap(m, Users, Accounts), NEW rooms, NEW M, NEW d, IsDatabase(d),
           Mirrors(m, rooms, d, M), NEW u \in DOMAIN m
    PROVE  /\ \A st \in States :
                 Mirrors(SetState(m, u, st), rooms, Run(d, updateState(u, st)), M)
           /\ Mirrors(SetState(m, u, Idle), rooms, Run(d, clearState(u)), M)
<1>1. ASSUME NEW st \in States
      PROVE  Mirrors(SetState(m, u, st), rooms, RunSetState(d, u, ColumnOf(st)), M)
  <2>1. \A x \in DOMAIN m : m[x] \in Accounts
        BY DEF IsMap
  <2>2. /\ DOMAIN SetState(m, u, st) = DOMAIN m
        /\ \A x \in DOMAIN m :
              /\ SetState(m, u, st)[x].password = m[x].password
              /\ SetState(m, u, st)[x].role = m[x].role
              /\ SetState(m, u, st)[x].state = IF x = u THEN st ELSE m[x].state
        BY <2>1 DEF SetState, Accounts
  <2>. QED  BY <2>2, MirrorsState
<1>2. Idle \in States /\ ColumnOf(Idle) = <<>>
      BY DEF States, Idle, ColumnOf
<1>. QED  BY <1>1, <1>2 DEF Run, updateState, clearState

\* Connections are not in the tables.
LEMMA MirrorsConnection ==
    ASSUME NEW m, IsMap(m, Users, Accounts), NEW rooms, NEW M, NEW d,
           Mirrors(m, rooms, d, M), NEW u, NEW fd
    PROVE  Mirrors([m EXCEPT ![u].fd = fd], rooms, d, M)
<1>1. \A x \in DOMAIN m : m[x] \in Accounts
      BY DEF IsMap
<1>. QED  BY <1>1 DEF Mirrors, Accounts

\* Members are not in the tables either.
LEMMA MirrorsRooms ==
    ASSUME NEW m, NEW rooms, NEW M, NEW d, Mirrors(m, rooms, d, M), NEW others,
           DOMAIN others \ M = DOMAIN rooms \ M,
           \A r \in DOMAIN rooms \ M : others[r].capacity = rooms[r].capacity
    PROVE  Mirrors(m, others, d, M)
BY DEF Mirrors

\* The operations of Room that keep the capacity.
LEMMA RoomCapacity ==
    ASSUME NEW room \in RoomRecords, NEW fd
    PROVE  /\ Add(room, fd).capacity = room.capacity
           /\ removeUser(room, fd).capacity = room.capacity
BY DEF Add, removeUser, RoomRecords

LEMMA EnterCapacity ==
    ASSUME IsMap(roomMap, Rooms, RoomRecords), NEW r, NEW fd
    PROVE  /\ DOMAIN [roomMap EXCEPT ![r] = Add(@, fd)] = DOMAIN roomMap
           /\ \A x \in DOMAIN roomMap :
                 [roomMap EXCEPT ![r] = Add(@, fd)][x].capacity
                     = roomMap[x].capacity
<1>1. \A x \in DOMAIN roomMap : roomMap[x] \in RoomRecords
      BY DEF IsMap
<1>. QED  BY <1>1, RoomCapacity

LEMMA EnterMirrors ==
    ASSUME IsMap(roomMap, Rooms, RoomRecords), NEW m, NEW M, NEW d,
           Mirrors(m, roomMap, d, M), NEW r, NEW fd
    PROVE  Mirrors(m, [roomMap EXCEPT ![r] = Add(@, fd)], d, M)
<1>. DEFINE others == [roomMap EXCEPT ![r] = Add(@, fd)]
<1>1. /\ DOMAIN others = DOMAIN roomMap
      /\ \A x \in DOMAIN roomMap : others[x].capacity = roomMap[x].capacity
      BY EnterCapacity
<1>. HIDE DEF others
<1>2. Mirrors(m, others, d, M)
      BY <1>1, MirrorsRooms
<1>. QED  BY <1>2 DEF others

LEMMA LeaveMirrors ==
    ASSUME TypeOK, NamesRead, NEW m, NEW d, Mirrors(m, roomMap, d, misread),
           NEW fd, NEW st
    PROVE  Mirrors(m, RoomsWithout(fd, st), d, misread)
<1>1. /\ DOMAIN RoomsWithout(fd, st) \ misread = DOMAIN roomMap \ misread
      /\ \A x \in DOMAIN roomMap \ misread :
            RoomsWithout(fd, st)[x] =
               IF x = st.name THEN removeUser(roomMap[x], fd) ELSE roomMap[x]
      BY LeaveOthers
<1>2. \A x \in DOMAIN roomMap \ misread :
          RoomsWithout(fd, st)[x].capacity = roomMap[x].capacity
  <2>1. \A x \in DOMAIN roomMap : roomMap[x] \in RoomRecords
        BY MemoryTypes DEF IsMap
  <2>. QED  BY <1>1, <2>1, RoomCapacity
<1>. QED  BY <1>1, <1>2, MirrorsRooms

-----------------------------------------------------------------------------
(* What a handler has to show.                                             *)

\* Between two handlers memory and tables agree.
LEMMA MirrorsWhenIdle ==
    ASSUME TypeOK, DatabaseInv, up, todo = <<>>
    PROVE  Mirrors(mapuser, roomMap, db, misread)
<1>1. ASSUME NEW before \in Seq(Calls), NEW after \in Seq(Calls),
             NEW s \in Statements, Decides(before, s, after)
      PROVE  FALSE
  <2>. DEFINE q == Sql(s)
  <2>1. q \in Seq(Calls) /\ Len(q) = 1
        BY SqlType DEF Sql
  <2>2. todo = before \o q \o after
        BY <1>1 DEF Decides
  <2>. HIDE DEF q
  <2>3. /\ before \o q \in Seq(Calls)
        /\ Len(before \o q) = Len(before) + Len(q)
    <3>1. before \o q \in Seq(Calls)
          BY <2>1, TwoListsType
    <3>2. Len(before \o q) = Len(before) + Len(q)
          BY <2>1, ConcatProperties
    <3>. QED  BY <3>1, <3>2
  <2>4. Len(todo) = Len(before) + Len(q) + Len(after)
        BY <2>2, <2>3, ConcatProperties
  <2>. QED  BY <2>1, <2>4
<1>. QED  BY <1>1 DEF DatabaseInv, Agrees

\* It makes no statement about users and rooms ...
LEMMA StillAgrees ==
    ASSUME up', Still(todo'), Mirrors(mapuser', roomMap', db', misread')
    PROVE  DatabaseInv'
BY DEF DatabaseInv, Agrees

\* ... or it makes one, with calls before and after it ...
LEMMA DecisionAgrees ==
    ASSUME NEW before \in Seq(Calls), NEW s \in Statements,
           NEW after \in Seq(Calls),
           up', todo' = before \o Sql(s) \o after,
           NoSql(after), Precedes(before, s, db', misread'),
           Mirrors(mapuser', roomMap', Run(db', s), misread')
    PROVE  DatabaseInv'
<1>1. Decides(before, s, after)'
      BY DEF Decides
<1>. QED  BY <1>1 DEF DatabaseInv, Agrees

\* ... or makes it first.
LEMMA FirstAgrees ==
    ASSUME NEW s \in Statements, NEW after \in Seq(Calls),
           up', todo' = Sql(s) \o after,
           NoSql(after), Passes(db', s, misread') \/ s.op \in StateOps,
           Mirrors(mapuser', roomMap', Run(db', s), misread')
    PROVE  DatabaseInv'
<1>1. <<>> \in Seq(Calls) /\ Sql(s) \in Seq(Calls)
      BY SqlType
<1>2. <<>> \o Sql(s) = Sql(s)
      BY <1>1, ConcatEmptySeq
<1>3. todo' = <<>> \o Sql(s) \o after
      BY <1>2
<1>4. Precedes(<<>>, s, db', misread')
      BY NoSqlNone DEF Precedes
<1>. QED  BY <1>1, <1>3, <1>4, DecisionAgrees

\* A statement that sets a state is not rejected.
LEMMA StateNotRejected ==
    ASSUME NEW d, NEW s, s.op \in StateOps
    PROVE  ~Rejected(d, s)
BY DEF Rejected, StateOps

-----------------------------------------------------------------------------
(* The handlers.                                                           *)

LEMMA AnswersAgrees ==
    ASSUME TypeOK, DatabaseInv, up, todo = <<>>, NEW fd, NEW type,
           Answers(fd, type)
    PROVE  DatabaseInv'
<1>1. /\ up' /\ UNCHANGED <<mapuser, roomMap, misread, db>>
      /\ todo' = Reply(fd, type)
      BY DEF Answers, Does, memory
<1>2. Still(Reply(fd, type))
      BY NoSqlWriteAll, NoSqlIsStill DEF Reply
<1>. QED  BY <1>1, <1>2, MirrorsWhenIdle, StillAgrees

LEMMA LoginAgrees ==
    ASSUME TypeOK, DatabaseInv, up, todo = <<>>, NEW fd \in Fds, NEW u, NEW p,
           Login(fd, u, p)
    PROVE  DatabaseInv'
<1>1. CASE ~LoginAccepted(u, p)
      BY <1>1, AnswersAgrees DEF Login
<1>2. CASE LoginAccepted(u, p)
  <2>. DEFINE m == [mapuser EXCEPT ![u].fd = fd]
              r == mapuser[u].state.name
              told == WriteAll({fd}, LoginAnswer(u, p, mapuser[u].role))
              stored == handleOfflineMessage(m, fd)
              partners == notificationOffline(m, fd, TRUE)
  <2>1. u \in DOMAIN mapuser /\ u \in Users /\ mapuser[u] \in Accounts
        BY <1>2, MemoryTypes, MapValue DEF LoginAccepted
  <2>2. p \in Passwords /\ mapuser[u].role \in Roles
        BY <1>2, <2>1 DEF LoginAccepted, Accounts
  <2>3. IsMap(m, Users, Accounts) /\ On(m, fd) # {}
    <3>1. IsMap(m, Users, Accounts)
          BY MemoryTypes, AccountUpdate
    <3>2. u \in DOMAIN m /\ m[u].fd = fd
          BY <2>1, MemoryTypes DEF IsMap, Accounts
    <3>. QED  BY <3>1, <3>2 DEF On
  <2>4. /\ mapuser' = m /\ up' /\ UNCHANGED <<misread, db>>
        /\ \/ UNCHANGED roomMap
           \/ roomMap' = [roomMap EXCEPT ![r] = Add(@, fd)]
        BY <1>2 DEF Login, Does
  <2>5. Mirrors(m, roomMap, db, misread)
        BY MemoryTypes, MirrorsWhenIdle, MirrorsConnection
  <2>6. Mirrors(m, roomMap', db, misread')
    <3>. HIDE DEF m, r
    <3>0. UNCHANGED misread
          BY <2>4
    <3>1. CASE UNCHANGED roomMap
          BY <2>5, <3>0, <3>1
    <3>2. CASE roomMap' = [roomMap EXCEPT ![r] = Add(@, fd)]
          BY <2>5, <3>0, <3>2, MemoryTypes, EnterMirrors
    <3>. QED  BY <2>4, <3>1, <3>2
  <2>7. todo' = <<>> \/ todo' = told \o stored \o partners
        BY <1>2 DEF Login, Does
  <2>8. told \in Seq(Calls) /\ Still(told)
        BY <2>1, <2>2, LoginAnswerType, WriteAllType, NoSqlWriteAll, NoSqlIsStill
  <2>9. stored \in Seq(Calls) /\ Still(stored)
        BY <2>3, OfflineMessageType, StillOfflineMessage
  <2>10. partners \in Seq(Calls) /\ Still(partners)
        BY <2>3, NotificationType, NoSqlParts, NoSqlIsStill
  <2>. HIDE DEF told, stored, partners, m
  <2>11. Still(told \o stored \o partners)
         BY <2>8, <2>9, <2>10, StillConcat
  <2>. QED  BY <2>4, <2>6, <2>7, <2>11, NoSqlNone, NoSqlIsStill, StillAgrees
<1>. QED  BY <1>1, <1>2

LEMMA WithFunctionAgrees ==
    ASSUME TypeOK, DatabaseInv, up, todo = <<>>, NEW fd \in Fds, checkfd(fd),
           NEW v \in Users, WithFunction(fd, v)
    PROVE  DatabaseInv'
<1>1. CASE v \notin DOMAIN mapuser \/ mapuser[v].fd = fd
      BY <1>1, AnswersAgrees DEF WithFunction
<1>2. CASE ~(v \notin DOMAIN mapuser \/ mapuser[v].fd = fd)
  <2>. DEFINE u == findUserByfd(mapuser, fd)
              s == updateState(u, WithUser(v))
              answer == WriteAll({fd}, StatusAnswer("withSuccess",
                                                    mapuser[v].fd # NoFd))
  <2>1. u \in DOMAIN mapuser /\ u \in Users /\ WithUser(v) \in States
        BY SenderType DEF States
  <2>2. s \in Statements /\ s.op \in StateOps
        BY <2>1, StatementTypes DEF updateState, StateOps
  <2>3. StatusAnswer("withSuccess", mapuser[v].fd # NoFd) \in AnswerPackages
        BY AnswerTypeOK DEF AnswerTypes
  <2>4. answer \in Seq(Calls) /\ NoSql(answer)
        BY <2>3, WriteAllType, NoSqlWriteAll
  <2>5. /\ mapuser' = SetState(mapuser, u, WithUser(v))
        /\ todo' = Sql(s) \o answer
        /\ up' /\ UNCHANGED <<roomMap, misread, db>>
        BY <1>2 DEF WithFunction, Does
  <2>6. Mirrors(mapuser', roomMap', Run(db', s), misread')
        BY <2>1, <2>5, MemoryTypes, MirrorsWhenIdle, MirrorsSetState
  <2>. HIDE DEF s, answer
  <2>. QED  BY <2>2, <2>4, <2>5, <2>6, FirstAgrees
<1>. QED  BY <1>1, <1>2

LEMMA JoinRoomAgrees ==
    ASSUME TypeOK, DatabaseInv, up, todo = <<>>, NEW fd \in Fds, checkfd(fd),
           NEW r \in Rooms, JoinRoom(fd, r)
    PROVE  DatabaseInv'
<1>1. CASE r \notin DOMAIN roomMap \/ ~CanAdd(roomMap[r], fd)
      BY <1>1, AnswersAgrees DEF JoinRoom
<1>2. CASE r \in DOMAIN roomMap /\ CanAdd(roomMap[r], fd)
  <2>. DEFINE u == findUserByfd(mapuser, fd)
              s == updateState(u, InRoom(r))
              before == Sql(clearState(u))
              answer == Reply(fd, "joinSuccess")
  <2>1. u \in DOMAIN mapuser /\ u \in Users /\ InRoom(r) \in States
        BY SenderType DEF States
  <2>2. s \in Statements /\ before \in Seq(Calls)
        BY <2>1, StatementTypes, SqlType
  <2>3. answer \in Seq(Calls) /\ NoSql(answer)
        BY ReplyCalls DEF AnswerTypes
  <2>4. /\ roomMap' = [roomMap EXCEPT ![r] = Add(@, fd)]
        /\ mapuser' = SetState(mapuser, u, InRoom(r))
        /\ todo' = before \o Sql(s) \o answer
        /\ up' /\ UNCHANGED <<misread, db>>
        BY <1>2 DEF JoinRoom, Does
  <2>5. Mirrors(mapuser', roomMap, Run(db', s), misread)
        BY <2>1, <2>4, MemoryTypes, MirrorsWhenIdle, MirrorsSetState
  <2>6. Mirrors(mapuser', roomMap', Run(db', s), misread')
    <3>. HIDE DEF u, s
    <3>. QED  BY <2>4, <2>5, MemoryTypes, EnterMirrors
  <2>7. Precedes(before, s, db', misread')
        BY DEF Precedes, updateState
  <2>. HIDE DEF s, before, answer
  <2>. QED  BY <2>2, <2>3, <2>4, <2>6, <2>7, DecisionAgrees
<1>. QED  BY <1>1, <1>2

\* A stored message: its sender and its receiver have accounts, so that the
\* foreign keys accept it.
LEMMA OneToOneChatAgrees ==
    ASSUME TypeOK, DatabaseInv, up, todo = <<>>, NEW fd, checkfd(fd),
           NEW mess \in Texts, OneToOneChat(fd, mess)
    PROVE  DatabaseInv'
<1>. DEFINE u == LastUserByfd(mapuser, fd)
            st == mapuser[u].state
            id == Len(chats) + 1
            row == [id |-> id, sender |-> u, receiver |-> st.name, mess |-> mess]
            s == saveMessage(row)
<1>1. up' /\ UNCHANGED <<mapuser, roomMap, misread, db>>
      BY DEF OneToOneChat, Does, memory
<1>2. Mirrors(mapuser', roomMap', db', misread')
      BY <1>1, MirrorsWhenIdle
<1>3. CASE NoSql(todo')
      BY <1>1, <1>2, <1>3, NoSqlIsStill, StillAgrees
<1>4. CASE /\ st.type = 1 /\ st.name \in DOMAIN mapuser
           /\ todo' = Sql(s)
  <2>1. u \in DOMAIN mapuser /\ u \in Users
        BY MemoryTypes, LastUser_Is DEF checkfd
  <2>2. st.name \in Users
        BY <1>4, MemoryTypes, MapValue
  <2>3. id \in Nat
        BY MemoryTypes
  <2>. HIDE DEF u, st, id
  <2>4. row \in MessageRows
        BY <2>1, <2>2, <2>3 DEF MessageRows
  <2>5. s \in Statements
        BY <2>4, SaveMessageType
  <2>6. u \in DOMAIN db.users /\ st.name \in DOMAIN db.users
        BY <1>4, <2>1, MirrorsWhenIdle DEF Mirrors
  <2>7. Passes(db', s, misread')
        BY <1>1, <2>6 DEF Passes, Rejected, saveMessage
  <2>8. SameTables(db, Run(db, s))
        BY MemoryTypes, RunMessages DEF saveMessage
  <2>9. Mirrors(mapuser', roomMap', Run(db', s), misread')
        BY <1>1, <1>2, <2>8, MirrorsSame
  <2>10. todo' = Sql(s) \o <<>>
    <3>1. Sql(s) \in Seq(Calls)
          BY <2>5, SqlType
    <3>. QED  BY <1>4, <3>1, ConcatEmptySeq
  <2>. HIDE DEF s
  <2>. QED  BY <1>1, <2>5, <2>7, <2>9, <2>10, NoCallType, NoSqlNone, FirstAgrees
<1>5. CASE st.type = 1 /\ st.name \in DOMAIN mapuser
  <2>1. todo' = Deliver(u, st.name, mess, id)
        BY <1>5 DEF OneToOneChat, Does
  <2>. QED  BY <1>3, <1>4, <1>5, <2>1, NoSqlWriteAll DEF Deliver
<1>6. CASE ~(st.type = 1 /\ st.name \in DOMAIN mapuser)
  <2>1. todo' = IF st.type = 2 THEN RoomChat(st.name) ELSE <<>>
        BY <1>6 DEF OneToOneChat, Does
  <2>. QED  BY <1>3, <2>1, NoSqlParts, NoSqlNone
<1>. QED  BY <1>5, <1>6

LEMMA LeaveChatUserAgrees ==
    ASSUME TypeOK, NamesRead, DatabaseInv, up, todo = <<>>, NEW fd \in Fds, checkfd(fd),
           LeaveChatUser(fd)
    PROVE  DatabaseInv'
<1>. DEFINE u == findUserByfd(mapuser, fd)
            st == mapuser[u].state
<1>1. CASE st.name = NoName
      BY <1>1, AnswersAgrees DEF LeaveChatUser
<1>2. CASE st.name # NoName
  <2>. DEFINE notice == IF st.type = 2 THEN LeaveNotice(fd, st) ELSE <<>>
              s == clearState(u)
              answer == Reply(fd, "successTerminate")
  <2>1. /\ mapuser' = SetState(mapuser, u, Idle)
        /\ roomMap' = IF st.type = 2 THEN RoomsWithout(fd, st) ELSE roomMap
        /\ todo' = notice \o Sql(s) \o answer
        /\ up' /\ UNCHANGED <<misread, db>>
        BY <1>2 DEF LeaveChatUser, Does
  <2>2. u \in DOMAIN mapuser /\ u \in Users
        BY SenderType
  <2>3. s \in Statements /\ s.op \in StateOps
        BY <2>2, StatementTypes DEF clearState, StateOps
  <2>4. notice \in Seq(Calls) /\ NoSql(notice)
        BY LeaveTypes, NoCallType, NoSqlParts, NoSqlNone
  <2>5. answer \in Seq(Calls) /\ NoSql(answer)
        BY ReplyCalls DEF AnswerTypes
  <2>6. Mirrors(mapuser', roomMap, Run(db', s), misread)
        BY <2>1, <2>2, MemoryTypes, MirrorsWhenIdle, MirrorsSetState
  <2>7. Mirrors(mapuser', roomMap', Run(db', s), misread')
    <3>. HIDE DEF u, st, s
    <3>. QED  BY <2>1, <2>6, LeaveMirrors
  <2>8. Precedes(notice, s, db', misread')
    <3>. HIDE DEF notice, s
    <3>. QED  BY <2>3, <2>4 DEF Precedes
  <2>. HIDE DEF notice, s, answer
  <2>. QED  BY <2>1, <2>3, <2>4, <2>5, <2>7, <2>8, DecisionAgrees
<1>. QED  BY <1>1, <1>2

\* A statement of an administrator and the answer.
LEMMA AdminAgrees ==
    ASSUME NEW s \in Statements, NEW fd \in Fds, NEW type \in AnswerTypes,
           up', todo' = Sql(s) \o Reply(fd, type), Passes(db', s, misread'),
           Mirrors(mapuser', roomMap', Run(db', s), misread')
    PROVE  DatabaseInv'
BY ReplyCalls, FirstAgrees

LEMMA AddUserAgrees ==
    ASSUME TypeOK, DatabaseInv, up, todo = <<>>, NEW fd \in Fds,
           NEW u \in Users \cup {NoName}, NEW p \in Passwords \cup {NoName},
           NEW role \in Roles \cup {NoRole}, AddUser(fd, u, p, role)
    PROVE  DatabaseInv'
<1>. DEFINE refused ==
         ~CheckAdmin(fd) \/ u \in DOMAIN mapuser \/ u = NoName \/ p = NoName
<1>1. CASE refused
      BY <1>1, AnswersAgrees DEF AddUser
<1>2. CASE ~refused
  <2>. DEFINE new == NormalRole(role)
              s == insertUser(u, p, new)
              account == [password |-> p, role |-> new, state |-> Idle,
                          fd |-> NoFd]
              row == [password |-> p, state |-> <<>>, role |-> new]
  <2>1. u \in Users /\ p \in Passwords /\ new \in Roles
        BY <1>2, NormalRoleType
  <2>. HIDE DEF new
  <2>2. /\ mapuser' = Put(mapuser, u, account)
        /\ todo' = Sql(s) \o Reply(fd, "createSuccess")
        /\ up' /\ UNCHANGED <<roomMap, misread, db>>
        BY <1>2 DEF AddUser, Does, new
  <2>3. s \in Statements /\ "createSuccess" \in AnswerTypes
        BY <2>1, StatementTypes DEF AnswerTypes
  <2>4. Mirrors(mapuser, roomMap, db, misread) /\ u \notin DOMAIN mapuser
        BY <1>2, MirrorsWhenIdle
  <2>5. Passes(db', s, misread')
        BY <2>2, <2>4 DEF Passes, Rejected, insertUser, Mirrors
  <2>6. /\ Run(db', s).users = Put(db.users, u, row)
        /\ Run(db', s).rooms = db.rooms
    <3>1. Run(db, s) = [db EXCEPT !.users = Put(db.users, u, row)]
          BY DEF Run, insertUser, RunInsertUser
    <3>. HIDE DEF s, row
    <3>. QED  BY <2>2, <3>1, MemoryTypes, DatabaseFields
  <2>7. account.state = StateOf(row.state)
        BY DEF StateOf
  <2>8. Mirrors(mapuser', roomMap', Run(db', s), misread')
        BY <2>2, <2>4, <2>6, <2>7 DEF Mirrors, Put
  <2>. HIDE DEF s
  <2>. QED  BY <2>2, <2>3, <2>5, <2>8, AdminAgrees
<1>. QED  BY <1>1, <1>2

\* The test of the stored messages keeps the foreign keys from rejecting the
\* deletion.
LEMMA DeleteUserAgrees ==
    ASSUME TypeOK, DatabaseInv, up, todo = <<>>, NEW fd \in Fds,
           NEW u \in Users, DeleteUser(fd, u)
    PROVE  DatabaseInv'
<1>1. CASE ~MayDelete(fd, u)
      BY <1>1, AnswersAgrees DEF DeleteUser
<1>2. CASE MayDelete(fd, u)
  <2>. DEFINE s == deleteUser(u)
  <2>1. /\ mapuser' = Erase(mapuser, u)
        /\ todo' = Sql(s) \o Reply(fd, "deleteSuccess")
        /\ up' /\ UNCHANGED <<roomMap, misread, db>>
        BY <1>2 DEF DeleteUser, Does
  <2>2. s \in Statements /\ "deleteSuccess" \in AnswerTypes
        BY StatementTypes DEF AnswerTypes
  <2>3. Passes(db', s, misread')
        BY <1>2, <2>1 DEF Passes, Rejected, deleteUser, MayDelete, haveOfflineMessage
  <2>4. /\ Run(db', s).users = Erase(db.users, u)
        /\ Run(db', s).rooms = db.rooms
        BY <2>1, MemoryTypes, DatabaseFields DEF Run, deleteUser, RunDeleteUser
  <2>5. Mirrors(mapuser', roomMap', Run(db', s), misread')
        BY <2>1, <2>4, MirrorsWhenIdle DEF Mirrors, Erase, Restrict
  <2>. HIDE DEF s
  <2>. QED  BY <2>1, <2>2, <2>3, <2>5, AdminAgrees
<1>. QED  BY <1>1, <1>2

\* The account and the row after a change of password and role.
Modified(account, p, role) ==
    [account EXCEPT !.password = p, !.role = role]

LEMMA ModifiedFields ==
    ASSUME NEW a, NEW p, NEW role
    PROVE  /\ a \in Accounts =>
                 /\ Modified(a, p, role).password = p
                 /\ Modified(a, p, role).role = role
                 /\ Modified(a, p, role).state = a.state
                 /\ Modified(a, p, role).fd = a.fd
           /\ a \in UserRows =>
                 /\ Modified(a, p, role).password = p
                 /\ Modified(a, p, role).role = role
                 /\ Modified(a, p, role).state = a.state
BY DEF Modified, Accounts, UserRows

LEMMA ModifyUserAgrees ==
    ASSUME TypeOK, DatabaseInv, up, todo = <<>>, NEW fd \in Fds, NEW u,
           NEW p \in Passwords \cup {NoName}, NEW role \in Roles \cup {NoRole},
           handleModifyUser(fd, u, p, role)
    PROVE  DatabaseInv'
<1>1. CASE ~MayModify(fd, u, p)
      BY <1>1, AnswersAgrees DEF handleModifyUser
<1>2. CASE MayModify(fd, u, p)
  <2>. DEFINE new == NormalRole(role)
              s == modifyUser(u, p, new)
              account == Modified(mapuser[u], p, new)
              row == Modified(db.users[u], p, new)
  <2>1. /\ Mirrors(mapuser, roomMap, db, misread)
        /\ u \in DOMAIN mapuser /\ u \in DOMAIN db.users
        BY <1>2, MirrorsWhenIdle DEF MayModify, Mirrors
  <2>2. u \in Users /\ p \in Passwords /\ new \in Roles
        BY <1>2, <2>1, MemoryTypes, MapValue, NormalRoleType DEF MayModify
  <2>. HIDE DEF new
  <2>3. /\ todo' = Sql(s) \o Reply(fd, "modifySuccess")
        /\ up' /\ UNCHANGED <<roomMap, misread, db>>
        BY <1>2 DEF handleModifyUser, Does, new
  <2>4. mapuser' = [mapuser EXCEPT ![u] = account]
        BY <1>2 DEF handleModifyUser, Modified, new
  <2>5. s \in Statements /\ "modifySuccess" \in AnswerTypes
        BY <2>2, StatementTypes DEF AnswerTypes
  <2>6. Passes(db', s, misread')
        BY DEF Passes, Rejected, modifyUser
  <2>7. /\ Run(db', s).users = [db.users EXCEPT ![u] = row]
        /\ Run(db', s).rooms = db.rooms
    <3>1. Run(db, s) = RunModifyUser(db, u, p, new)
          BY DEF Run, modifyUser
    <3>. HIDE DEF s
    <3>. QED  BY <2>1, <2>3, <3>1, MemoryTypes
              DEF RunModifyUser, IsDatabase, Modified
  <2>8. mapuser[u] \in Accounts /\ db.users[u] \in UserRows
        BY <2>1, MemoryTypes DEF IsMap, IsDatabase
  <2>9. /\ account.password = row.password
        /\ account.role = row.role
        /\ account.state = StateOf(row.state)
        BY <2>1, <2>8, ModifiedFields DEF Mirrors
  <2>. HIDE DEF account, row, s
  <2>10. Mirrors(mapuser', roomMap', Run(db', s), misread')
         BY <2>1, <2>3, <2>4, <2>7, <2>9 DEF Mirrors
  <2>. QED  BY <2>3, <2>5, <2>6, <2>10, AdminAgrees
<1>. QED  BY <1>1, <1>2

LEMMA AddRoomAgrees ==
    ASSUME TypeOK, NamesRead, DatabaseInv, up, todo = <<>>, NEW fd \in Fds,
           NEW r \in Rooms \cup {NoName}, NEW c \in Int,
           addRoom(fd, r, c)
    PROVE  DatabaseInv'
<1>. DEFINE refused ==
         ~CheckAdmin(fd) \/ r \in DOMAIN roomMap \/ r = NoName \/ c < 0
<1>1. CASE refused
      BY <1>1, AnswersAgrees DEF addRoom
<1>2. CASE ~refused
  <2>0. PICK id \in ReadBack[r] :
           /\ roomMap' = Put(roomMap, r, NewRoom(id, c))
           /\ misread' = misread \cup (IF id = r THEN {} ELSE {r, id})
           /\ todo' = Sql(insertRoom(id, c)) \o Reply(fd, "createSuccess")
           /\ up' /\ UNCHANGED <<mapuser, db>>
        BY <1>2 DEF addRoom, Does
  <2>. DEFINE s == insertRoom(id, c)
  <2>1. r \in Rooms /\ id \in Rooms /\ c \in Nat
        BY <1>2, ReadBackAssumption
  <2>2. s \in Statements /\ "createSuccess" \in AnswerTypes
        BY <2>1, RoomStatementTypes DEF AnswerTypes
  <2>3. Mirrors(mapuser, roomMap, db, misread) /\ r \notin DOMAIN roomMap
        BY <1>2, MirrorsWhenIdle
  <2>4. Passes(db', s, misread')
    <3>1. s.op = "insertRoom" /\ s.room = id
          BY DEF insertRoom
    <3>2. id \notin DOMAIN db.rooms \ misread'
          BY <2>0, <2>3 DEF Mirrors
    <3>. QED  BY <2>0, <3>1, <3>2 DEF Passes
  <2>5. /\ Run(db', s).users = db.users
        /\ Run(db', s).rooms = Put(db.rooms, id, c)
    <3>1. Run(db, s) = [db EXCEPT !.rooms = Put(db.rooms, id, c)]
          BY DEF Run, insertRoom, RunInsertRoom
    <3>. HIDE DEF s
    <3>. QED  BY <2>0, <3>1, MemoryTypes, DatabaseFields
  <2>. DEFINE e == Run(db', s)
              room == NewRoom(id, c)
  <2>6. room.capacity = c
        BY DEF NewRoom
  <2>. HIDE DEF s, e, room
  <2>7. /\ DOMAIN roomMap' = DOMAIN roomMap \cup {r}
        /\ roomMap'[r] = room
        /\ \A x \in DOMAIN roomMap : x # r => roomMap'[x] = roomMap[x]
        BY <2>0 DEF Put, room
  <2>8. /\ DOMAIN e.rooms = DOMAIN db.rooms \cup {id}
        /\ e.rooms[id] = c
        /\ \A x \in DOMAIN db.rooms : x # id => e.rooms[x] = db.rooms[x]
        BY <2>5 DEF Put, e
  <2>9. DOMAIN roomMap' \ misread' = DOMAIN e.rooms \ misread'
        BY <2>0, <2>3, <2>7, <2>8 DEF Mirrors
  <2>10. ASSUME NEW x \in DOMAIN roomMap' \ misread'
         PROVE  roomMap'[x].capacity = e.rooms[x]
    <3>1. CASE x = r
          BY <2>0, <2>6, <2>7, <2>8, <3>1
    <3>2. CASE x # r
      <4>1. x \in DOMAIN roomMap \ misread /\ x \in DOMAIN db.rooms /\ x # id
            BY <2>0, <2>3, <2>7, <3>2 DEF Mirrors
      <4>. QED  BY <2>3, <2>7, <2>8, <3>2, <4>1 DEF Mirrors
    <3>. QED  BY <3>1, <3>2
  <2>11. Mirrors(mapuser', roomMap', e, misread')
         BY <2>0, <2>3, <2>5, <2>9, <2>10 DEF Mirrors, e
  <2>12. Mirrors(mapuser', roomMap', Run(db', s), misread')
         BY <2>11 DEF e
  <2>. QED  BY <2>0, <2>2, <2>4, <2>12, AdminAgrees DEF s
<1>. QED  BY <1>1, <1>2

LEMMA ModifyRoomAgrees ==
    ASSUME TypeOK, NamesRead, DatabaseInv, up, todo = <<>>, NEW fd \in Fds, NEW r,
           NEW c \in Int, ModifyRoom(fd, r, c)
    PROVE  DatabaseInv'
<1>1. CASE ~MayModifyRoom(fd, r, c)
      BY <1>1, AnswersAgrees DEF ModifyRoom
<1>2. CASE MayModifyRoom(fd, r, c)
  <2>. DEFINE s == modifyRoom(r, c)
              room == setCapacity(setRoomID(roomMap[r], r), c)
  <2>1. /\ roomMap' = [roomMap EXCEPT ![r] = room]
        /\ todo' = Sql(s) \o Reply(fd, "modifySuccess")
        /\ up' /\ UNCHANGED <<mapuser, misread, db>>
        BY <1>2 DEF ModifyRoom, Does
  <2>2. /\ r \in Rooms /\ c \in Nat /\ r \in DOMAIN roomMap
        /\ roomMap[r] \in RoomRecords
        BY <1>2, MemoryTypes, MapValue DEF MayModifyRoom
  <2>3. s \in Statements /\ "modifySuccess" \in AnswerTypes
        BY <2>2, RoomStatementTypes DEF AnswerTypes
  <2>4. Passes(db', s, misread')
        BY DEF Passes, Rejected, modifyRoom
  <2>5. room.capacity = c
        BY <1>2, <2>2
           DEF MayModifyRoom, setCapacity, setRoomID, getOnlUser, RoomRecords
  <2>6. Mirrors(mapuser, roomMap, db, misread)
        BY MirrorsWhenIdle
  <2>. DEFINE e == Run(db', s)
  <2>7. /\ e.users = db.users
        /\ e.rooms = IF r \in DOMAIN db.rooms THEN [db.rooms EXCEPT ![r] = c]
                     ELSE db.rooms
    <3>1. Run(db, s) = IF r \in DOMAIN db.rooms THEN [db EXCEPT !.rooms[r] = c]
                       ELSE db
          BY DEF Run, modifyRoom, RunModifyRoom
    <3>2. db = [users |-> db.users, rooms |-> db.rooms, messages |-> db.messages]
          BY MemoryTypes DEF IsDatabase
    <3>. HIDE DEF s
    <3>. QED  BY <2>1, <3>1, <3>2
  <2>. HIDE DEF s, room, e
  <2>8. /\ DOMAIN roomMap' = DOMAIN roomMap
        /\ \A x \in DOMAIN roomMap : roomMap'[x] = IF x = r THEN room ELSE roomMap[x]
        BY <2>1
  <2>9. /\ DOMAIN e.rooms = DOMAIN db.rooms
        /\ \A x \in DOMAIN db.rooms : e.rooms[x] = IF x = r THEN c ELSE db.rooms[x]
        BY <2>7
  <2>10. DOMAIN roomMap' \ misread = DOMAIN e.rooms \ misread
         BY <2>6, <2>8, <2>9 DEF Mirrors
  <2>11. \A x \in DOMAIN roomMap' \ misread : roomMap'[x].capacity = e.rooms[x]
         BY <2>5, <2>6, <2>8, <2>9 DEF Mirrors
  <2>12. Mirrors(mapuser', roomMap', Run(db', s), misread')
         BY <2>1, <2>6, <2>7, <2>10, <2>11 DEF Mirrors, e
  <2>. QED  BY <2>1, <2>3, <2>4, <2>12, AdminAgrees
<1>. QED  BY <1>1, <1>2

LEMMA DeleteRoomAgrees ==
    ASSUME TypeOK, NamesRead, DatabaseInv, up, todo = <<>>, NEW fd \in Fds,
           NEW r \in Rooms, DeleteRoom(fd, r)
    PROVE  DatabaseInv'
<1>1. CASE ~MayDeleteRoom(fd, r)
      BY <1>1, AnswersAgrees DEF DeleteRoom
<1>2. CASE MayDeleteRoom(fd, r)
  <2>. DEFINE id == roomMap[r].roomID
              s == deleteRoom(id)
              e == Run(db', s)
  <2>1. /\ roomMap' = Erase(roomMap, r)
        /\ todo' = Sql(s) \o Reply(fd, "deleteSuccess")
        /\ up' /\ UNCHANGED <<mapuser, misread, db>>
        BY <1>2 DEF DeleteRoom, Does
  <2>2. id \in Rooms /\ (id = r \/ {r, id} \subseteq misread)
    <3>1. r \in DOMAIN roomMap
          BY <1>2 DEF MayDeleteRoom
    <3>2. roomMap[r] \in RoomRecords
          BY <3>1, MemoryTypes, MapValue
    <3>. QED  BY <3>1, <3>2 DEF NamesRead, RoomRecords
  <2>. HIDE DEF id
  <2>3. s \in Statements /\ "deleteSuccess" \in AnswerTypes
        BY <2>2, RoomStatementTypes, 0 \in Nat DEF AnswerTypes
  <2>4. Passes(db', s, misread')
        BY DEF Passes, Rejected, deleteRoom
  <2>5. /\ e.users = db.users
        /\ e.rooms = Erase(db.rooms, id)
    <3>1. Run(db, s) = [db EXCEPT !.rooms = Erase(db.rooms, id)]
          BY DEF Run, deleteRoom, RunDeleteRoom
    <3>. HIDE DEF s
    <3>. QED  BY <2>1, <3>1, MemoryTypes, DatabaseFields
  <2>6. Mirrors(mapuser, roomMap, db, misread)
        BY MirrorsWhenIdle
  <2>. HIDE DEF s, e
  <2>7. /\ DOMAIN roomMap' = DOMAIN roomMap \ {r}
        /\ \A x \in DOMAIN roomMap : x # r => roomMap'[x] = roomMap[x]
        BY <2>1, EraseValues
  <2>8. /\ DOMAIN e.rooms = DOMAIN db.rooms \ {id}
        /\ \A x \in DOMAIN db.rooms : x # id => e.rooms[x] = db.rooms[x]
        BY <2>5 DEF Erase, Restrict
  <2>9. DOMAIN roomMap' \ misread = DOMAIN e.rooms \ misread
        BY <2>2, <2>6, <2>7, <2>8 DEF Mirrors
  <2>10. \A x \in DOMAIN roomMap' \ misread : roomMap'[x].capacity = e.rooms[x]
         BY <2>2, <2>6, <2>7, <2>8 DEF Mirrors
  <2>11. Mirrors(mapuser', roomMap', Run(db', s), misread')
         BY <2>1, <2>5, <2>6, <2>9, <2>10 DEF Mirrors, e
  <2>. QED  BY <2>1, <2>3, <2>4, <2>11, AdminAgrees
<1>. QED  BY <1>1, <1>2

\* Every handler of a package.
LEMMA ReceiveAgrees ==
    ASSUME TypeOK, NamesRead, DatabaseInv, NEW fd \in Fds, NEW p \in Packages,
           Receive(fd, p)
    PROVE  DatabaseInv'
<1>1. up /\ todo = <<>> /\ analyzePackage(fd, p)
      BY DEF Receive, Reads, Visits
<1>2. CASE \E type : Answers(fd, type)
      BY <1>1, <1>2, AnswersAgrees
<1>3. CASE Login(fd, p.user, p.password)
      BY <1>1, <1>3, LoginAgrees
<1>4. CASE checkfd(fd) /\ p.type = "withh" /\ WithFunction(fd, p.user)
  <2>1. p.user \in Users
        BY <1>4 DEF Packages
  <2>. QED  BY <1>1, <1>4, <2>1, WithFunctionAgrees
<1>5. CASE checkfd(fd) /\ p.type = "joinn" /\ JoinRoom(fd, p.room)
  <2>1. p.room \in Rooms
        BY <1>5 DEF Packages
  <2>. QED  BY <1>1, <1>5, <2>1, JoinRoomAgrees
<1>6. CASE checkfd(fd) /\ p.type = "sendMess" /\ OneToOneChat(fd, p.mess)
  <2>1. p.mess \in Texts
        BY <1>6 DEF Packages
  <2>. QED  BY <1>1, <1>6, <2>1, OneToOneChatAgrees
<1>7. CASE checkfd(fd) /\ LeaveChatUser(fd)
      BY <1>1, <1>7, LeaveChatUserAgrees
<1>8. CASE \/ /\ p.type = "createUser"
              /\ AddUser(fd, p.user, p.password, p.role)
           \/ /\ p.type = "modifyUser"
              /\ handleModifyUser(fd, p.user, p.password, p.role)
  <2>1. /\ p.user \in Users \cup {NoName}
        /\ p.password \in Passwords \cup {NoName}
        /\ p.role \in Roles \cup {NoRole}
        BY <1>8 DEF Packages
  <2>. QED  BY <1>1, <1>8, <2>1, AddUserAgrees, ModifyUserAgrees
<1>9. CASE p.type = "deleteUser" /\ DeleteUser(fd, p.user)
  <2>1. p.user \in Users
        BY <1>9 DEF Packages
  <2>. QED  BY <1>1, <1>9, <2>1, DeleteUserAgrees
<1>10. CASE \/ p.type = "createRoom" /\ addRoom(fd, p.room, p.capacity)
            \/ p.type = "modifyRoom" /\ ModifyRoom(fd, p.room, p.capacity)
  <2>1. p.room \in Rooms \cup {NoName} /\ p.capacity \in Int
        BY <1>10, CapacitiesAssumption DEF Packages
  <2>. QED  BY <1>1, <1>10, <2>1, AddRoomAgrees, ModifyRoomAgrees
<1>11. CASE p.type = "deleteRoom" /\ DeleteRoom(fd, p.room)
  <2>1. p.room \in Rooms
        BY <1>11 DEF Packages
  <2>. QED  BY <1>1, <1>11, <2>1, DeleteRoomAgrees
<1>. QED  BY <1>1, <1>2, <1>3, <1>4, <1>5, <1>6, <1>7, <1>8, <1>9, <1>10, <1>11
          DEF analyzePackage, Refuse, ShowRoom, getListRoles, getUserOnline,
              FindUser

LEMMA DisconnectAgrees ==
    ASSUME TypeOK, NamesRead, DatabaseInv, NEW fd \in Fds, Disconnect(fd)
    PROVE  DatabaseInv'
<1>. DEFINE close == <<[op |-> "close", fd |-> fd]>>
<1>1. up /\ todo = <<>> /\ up' /\ UNCHANGED <<misread, db>>
      BY DEF Disconnect, Visits
<1>2. close \in Seq(Calls) /\ NoSql(close)
      BY CloseType, NoSqlOne
<1>3. CASE ~checkfd(fd)
  <2>1. todo' = close /\ UNCHANGED <<mapuser, roomMap>>
        BY <1>3 DEF Disconnect, memory
  <2>. QED  BY <1>1, <1>2, <2>1, NoSqlIsStill, MirrorsWhenIdle, StillAgrees
<1>4. CASE checkfd(fd)
  <2>. DEFINE u == findUserByfd(mapuser, fd)
              st == mapuser[u].state
              told == notificationOffline(mapuser, fd, FALSE)
              notice == IF st.type = 2 THEN LeaveNotice(fd, st) ELSE <<>>
              s == clearState(u)
              off == SetState(mapuser, u, Idle)
  <2>1. /\ mapuser' = [mapuser EXCEPT ![u].state = Idle, ![u].fd = NoFd]
        /\ roomMap' = IF st.type = 2 THEN RoomsWithout(fd, st) ELSE roomMap
        /\ todo' = told \o notice \o Sql(s) \o close
        BY <1>4 DEF Disconnect, changeStateUserOff
  <2>2. u \in DOMAIN mapuser /\ u \in Users
        BY <1>4, SenderType
  <2>3. s \in Statements /\ s.op \in StateOps
        BY <2>2, StatementTypes DEF clearState, StateOps
  <2>4. told \in Seq(Calls) /\ NoSql(told)
        BY MemoryTypes, NotificationType, NoSqlParts
  <2>5. notice \in Seq(Calls) /\ NoSql(notice)
        BY LeaveTypes, NoCallType, NoSqlParts, NoSqlNone
  <2>6. mapuser' = [off EXCEPT ![u].fd = NoFd]
        BY <2>1 DEF SetState
  <2>7. IsMap(off, Users, Accounts)
        BY MemoryTypes, SetStateIsMap DEF States
  <2>8. Mirrors(off, roomMap, Run(db, s), misread)
        BY <1>1, <2>2, MemoryTypes, MirrorsWhenIdle, MirrorsSetState
  <2>. HIDE DEF u, st, s, off, told, notice
  <2>9. Mirrors(mapuser', roomMap, Run(db, s), misread)
        BY <2>6, <2>7, <2>8, MirrorsConnection
  <2>10. Mirrors(mapuser', roomMap', Run(db, s), misread')
         BY <1>1, <2>1, <2>9, LeaveMirrors
  <2>11. told \o notice \in Seq(Calls) /\ NoSql(told \o notice)
         BY <2>4, <2>5, NoSqlConcat
  <2>12. Precedes(told \o notice, s, db', misread')
         BY <2>3, <2>11 DEF Precedes
  <2>. HIDE DEF close
  <2>. QED  BY <1>1, <1>2, <2>1, <2>3, <2>10, <2>11, <2>12, DecisionAgrees
<1>. QED  BY <1>3, <1>4

-----------------------------------------------------------------------------
(* The calls.                                                              *)

\* The head and the tail of what is left when the head is no statement.
LEMMA BeforeDecision ==
    ASSUME NEW before \in Seq(Calls), NEW s \in Statements,
           NEW after \in Seq(Calls), Decides(before, s, after),
           Head(todo).op # "sql"
    PROVE  /\ before # <<>> /\ NoSql(before) /\ s.op \in StateOps
           /\ Head(todo) = Head(before)
           /\ Tail(todo) = Tail(before) \o Sql(s) \o after
<1>. DEFINE q == Sql(s)
<1>1. q \in Seq(Calls) /\ Head(q).op = "sql" /\ q # <<>>
      BY SqlType DEF Sql
<1>2. Head(Sql(clearState(s.user))).op = "sql"
      BY DEF Sql
<1>3. todo = before \o q \o after /\ Precedes(before, s, db, misread)
      BY DEF Decides
<1>. HIDE DEF q
<1>4. q \o after \in Seq(Calls) /\ before \o q \in Seq(Calls)
      BY <1>1, TwoListsType
<1>5. before # <<>>
  <2>1. CASE before = <<>>
    <3>1. before \o q = q
          BY <1>1, <2>1, ConcatEmptySeq
    <3>2. Head(q \o after) = Head(q)
          BY <1>1
    <3>. QED  BY <1>1, <1>3, <3>1, <3>2
  <2>. QED  BY <2>1
<1>6. todo = before \o (q \o after)
      BY <1>1, <1>3, ListsAssociate
<1>7. /\ Head(todo) = Head(before)
      /\ Tail(todo) = Tail(before) \o (q \o after)
      BY <1>4, <1>5, <1>6
<1>8. Tail(before) \in Seq(Calls)
      BY <1>5
<1>9. Tail(todo) = Tail(before) \o q \o after
      BY <1>1, <1>7, <1>8, ListsAssociate
<1>10. NoSql(before) /\ s.op \in StateOps
       BY <1>2, <1>3, <1>5, <1>7 DEF Precedes
<1>. QED  BY <1>5, <1>7, <1>9, <1>10 DEF q

\* A call that is no statement is replaced by others that are none.
LEMMA OtherCallAgrees ==
    ASSUME TypeOK, DatabaseInv, up, todo # <<>>, Head(todo).op # "sql",
           UNCHANGED <<up, mapuser, roomMap, misread, db>>,
           NEW first \in Seq(Calls), NoSql(first), todo' = first \o Tail(todo)
    PROVE  DatabaseInv'
<1>1. todo \in Seq(Calls) /\ Tail(todo) \in Seq(Calls)
      BY TodoTypes DEF TypeOK
<1>2. CASE Still(todo) /\ Mirrors(mapuser, roomMap, db, misread)
  <2>1. Still(Tail(todo))
        BY <1>1, <1>2, StillTail
  <2>2. Still(todo')
        BY <1>1, <2>1, NoSqlIsStill, StillConcat
  <2>. QED  BY <1>2, <2>2, StillAgrees
<1>3. ASSUME NEW before \in Seq(Calls), NEW after \in Seq(Calls),
             NEW s \in Statements, Decides(before, s, after)
      PROVE  DatabaseInv'
  <2>. DEFINE q == Sql(s)
  <2>1. /\ before # <<>> /\ NoSql(before) /\ s.op \in StateOps
        /\ Tail(todo) = Tail(before) \o q \o after
        BY <1>3, BeforeDecision
  <2>2. q \in Seq(Calls)
        BY SqlType
  <2>3. Tail(before) \in Seq(Calls) /\ NoSql(Tail(before))
        BY <2>1, CallOfTail, NoSqlTail
  <2>4. /\ first \o Tail(before) \in Seq(Calls)
        /\ NoSql(first \o Tail(before))
        BY <2>3, NoSqlConcat
  <2>. DEFINE rest == Tail(before) \o q
  <2>. HIDE DEF q
  <2>5. rest \in Seq(Calls)
        BY <2>2, <2>3, TwoListsType
  <2>6. todo' = (first \o rest) \o after
    <3>1. todo' = first \o (rest \o after)
          BY <2>1
    <3>. HIDE DEF rest
    <3>. QED  BY <2>5, <3>1, ListsAssociate
  <2>7. first \o rest = (first \o Tail(before)) \o q
        BY <2>2, <2>3, ListsAssociate
  <2>8. todo' = (first \o Tail(before)) \o Sql(s) \o after
        BY <2>6, <2>7 DEF q
  <2>9. Precedes(first \o Tail(before), s, db', misread')
        BY <2>1, <2>4 DEF Precedes
  <2>10. NoSql(after) /\ Mirrors(mapuser', roomMap', Run(db', s), misread')
         BY <1>3 DEF Decides
  <2>. QED  BY <2>4, <2>8, <2>9, <2>10, DecisionAgrees
<1>. QED  BY <1>2, <1>3 DEF DatabaseInv, Agrees

LEMMA WriteAgrees ==
    ASSUME TypeOK, DatabaseInv, NEW fd \in Fds, Write(fd)
    PROVE  DatabaseInv'
<1>. DEFINE w == Head(todo)
            first == IF w.fds = {fd} THEN <<>> ELSE <<[w EXCEPT !.fds = @ \ {fd}]>>
<1>1. /\ up /\ todo # <<>> /\ w.op = "write"
      /\ todo' = first \o Tail(todo)
      /\ UNCHANGED <<up, mapuser, roomMap, misread, db>>
      BY DEF Write, Calling, AfterWrite, memory
<1>2. w \in Writes
      BY <1>1, TodoTypes, CallKinds
<1>3. /\ [w EXCEPT !.fds = @ \ {fd}] \in Calls
      /\ [w EXCEPT !.fds = @ \ {fd}].op = "write"
      BY <1>2 DEF Writes, Calls
<1>4. first \in Seq(Calls) /\ NoSql(first)
      BY <1>3, NoCallType, OneCallType, NoSqlNone, NoSqlOne
<1>. HIDE DEF first
<1>. QED  BY <1>1, <1>4, OtherCallAgrees

LEMMA CloseAgrees ==
    ASSUME TypeOK, DatabaseInv, Close
    PROVE  DatabaseInv'
<1>1. /\ up /\ todo # <<>> /\ Head(todo).op = "close"
      /\ todo' = Tail(todo)
      /\ UNCHANGED <<up, mapuser, roomMap, misread, db>>
      BY DEF Close, Calling, memory
<1>2. todo' = <<>> \o Tail(todo)
      BY <1>1, TodoTypes, ConcatEmptySeq
<1>. QED  BY <1>1, <1>2, NoCallType, NoSqlNone, OtherCallAgrees

LEMMA ReplayAgrees ==
    ASSUME TypeOK, DatabaseInv, ReplayRow \/ ReplayEnd \/ ReplayJunk
    PROVE  DatabaseInv'
<1>. DEFINE c == Head(todo)
<1>1. /\ up /\ todo # <<>> /\ c.op = "replay"
      /\ UNCHANGED <<up, mapuser, roomMap, misread, db>>
      BY DEF ReplayRow, ReplayEnd, ReplayJunk, Calling, memory
<1>2. c \in Calls /\ c \in Replays /\ c.fd \in Fds
      BY <1>1, TodoTypes, CallKinds DEF Replays
<1>3. Tail(todo) \in Seq(Calls) /\ todo \in Seq(Calls)
      BY <1>1, TodoTypes DEF TypeOK
<1>4. CASE ReplayRow
  <2>1. PICK row \in NextRow(c) :
           todo' = WriteAll({c.fd}, ChatAnswer(row.id))
                   \o <<[c EXCEPT !.after = row.id]>> \o Tail(todo)
        BY <1>4 DEF ReplayRow
  <2>. DEFINE told == WriteAll({c.fd}, ChatAnswer(row.id))
              next == <<[c EXCEPT !.after = row.id]>>
  <2>2. row.id \in Nat
        BY DEF NextRow, Rest, getMessageOfUser, TypeOK, IsDatabase, MessageRows
  <2>3. told \in Seq(Calls) /\ NoSql(told)
        BY <1>2, <2>2, ChatAnswerType, WriteAllType, NoSqlWriteAll
  <2>4. /\ [c EXCEPT !.after = row.id] \in Calls
        /\ [c EXCEPT !.after = row.id].op = "replay"
        BY <1>2, <2>2 DEF Replays, Calls
  <2>5. next \in Seq(Calls) /\ NoSql(next)
        BY <2>4, OneCallType, NoSqlOne
  <2>. HIDE DEF told, next
  <2>6. told \o next \in Seq(Calls) /\ NoSql(told \o next)
        BY <2>3, <2>5, NoSqlConcat
  <2>7. todo' = (told \o next) \o Tail(todo)
        BY <2>1 DEF told, next
  <2>. QED  BY <1>1, <2>6, <2>7, OtherCallAgrees
<1>5. CASE ReplayEnd
  <2>1. todo' = <<>> \o Tail(todo)
        BY <1>3, <1>5, ConcatEmptySeq DEF ReplayEnd
  <2>. QED  BY <1>1, <2>1, NoCallType, NoSqlNone, OtherCallAgrees
<1>6. CASE ReplayJunk
  <2>. DEFINE told == Reply(c.fd, "sendMess")
  <2>1. told \in Seq(Calls) /\ NoSql(told)
        BY <1>2, ReplyCalls DEF AnswerTypes
  <2>2. <<c>> \in Seq(Calls) /\ NoSql(<<c>>)
        BY <1>1, <1>2, OneCallType, NoSqlOne
  <2>3. todo = <<c>> \o Tail(todo)
        BY <1>1, <1>3
  <2>4. todo' = told \o todo
        BY <1>6 DEF ReplayJunk
  <2>. HIDE DEF told, c
  <2>5. todo' = (told \o <<c>>) \o Tail(todo)
        BY <1>3, <2>1, <2>2, <2>3, <2>4, ListsAssociate
  <2>6. told \o <<c>> \in Seq(Calls) /\ NoSql(told \o <<c>>)
        BY <2>1, <2>2, NoSqlConcat
  <2>. QED  BY <1>1, <2>5, <2>6, OtherCallAgrees DEF c
<1>. QED  BY <1>4, <1>5, <1>6

\* The statement that decides, at the head of what is left.
LEMMA HeadOfDecision ==
    ASSUME NEW before \in Seq(Calls), NEW s \in Statements,
           NEW after \in Seq(Calls), Decides(before, s, after),
           Head(todo).op = "sql"
    PROVE  \/ /\ before = <<>> /\ Passes(db, s, misread)
              /\ Head(todo).stmt = s /\ Tail(todo) = after
           \/ /\ s.op = "updateState"
              /\ Head(todo).stmt = clearState(s.user)
              /\ Tail(todo) = Sql(s) \o after
<1>. DEFINE q == Sql(s)
            clear == Sql(clearState(s.user))
<1>1. q \in Seq(Calls) /\ q # <<>> /\ Head(q).stmt = s /\ Tail(q) = <<>>
      BY SqlType DEF Sql
<1>2. clear # <<>> /\ Head(clear).stmt = clearState(s.user) /\ Tail(clear) = <<>>
      BY DEF Sql
<1>3. todo = before \o q \o after /\ Precedes(before, s, db, misread)
      BY DEF Decides
<1>. HIDE DEF q, clear
<1>4. q \o after \in Seq(Calls) /\ todo = before \o (q \o after)
      BY <1>1, <1>3, TwoListsType, ListsAssociate
<1>5. CASE before = <<>>
  <2>1. todo = q \o after
        BY <1>4, <1>5, ConcatEmptySeq
  <2>2. Head(todo) = Head(q) /\ Tail(todo) = Tail(q) \o after
        BY <1>1, <2>1
  <2>3. Tail(todo) = after
        BY <1>1, <2>2, ConcatEmptySeq
  <2>4. Passes(db, s, misread)
        BY <1>3, <1>5, StateNotRejected DEF Precedes, Passes, Sql
  <2>. QED  BY <1>1, <1>5, <2>2, <2>3, <2>4
<1>6. CASE before # <<>>
  <2>1. /\ Head(todo) = Head(before)
        /\ Tail(todo) = Tail(before) \o (q \o after)
        BY <1>4, <1>6
  <2>2. ~NoSql(before)
        BY <1>6, <2>1, NoSqlTail
  <2>3. s.op = "updateState" /\ before = clear
        BY <1>3, <1>6, <2>2 DEF Precedes, clear
  <2>4. Tail(todo) = q \o after
        BY <1>2, <1>4, <2>1, <2>3, ConcatEmptySeq
  <2>. QED  BY <1>2, <2>1, <2>3, <2>4 DEF q
<1>. QED  BY <1>5, <1>6

\* No statement is rejected but in the two cases ...
LEMMA StatementAccepted ==
    ASSUME TypeOK, DatabaseInv, up, todo # <<>>, Head(todo).op = "sql"
    PROVE  Passes(db, Head(todo).stmt, misread)
<1>1. CASE Still(todo)
  <2>1. Head(todo).stmt.op = "deleteMessageOfUser"
        BY <1>1, StillTail DEF TypeOK
  <2>. QED  BY <2>1 DEF Passes, Rejected
<1>2. ASSUME NEW before \in Seq(Calls), NEW after \in Seq(Calls),
             NEW s \in Statements, Decides(before, s, after)
      PROVE  Passes(db, Head(todo).stmt, misread)
  <2>1. Passes(db, clearState(s.user), misread)
        BY DEF Passes, Rejected, clearState
  <2>. QED  BY <1>2, <2>1, HeadOfDecision
<1>. QED  BY <1>1, <1>2 DEF DatabaseInv, Agrees

\* ... and the one that decides makes memory and tables agree.
LEMMA ExecuteAgrees ==
    ASSUME TypeOK, DatabaseInv, Execute
    PROVE  DatabaseInv'
<1>. DEFINE head == Head(todo).stmt
<1>0. CASE Rejected(db, head)
      BY <1>0 DEF Execute, Dies, DatabaseInv, Agrees
<1>. SUFFICES ASSUME ~Rejected(db, head) PROVE DatabaseInv'
     BY <1>0
<1>1. /\ up /\ todo # <<>> /\ Head(todo).op = "sql"
      /\ db' = Run(db, head)
      /\ todo' = Tail(todo)
      /\ UNCHANGED <<up, mapuser, roomMap, misread>>
      BY DEF Execute, Calling, memory
<1>2. CASE Still(todo) /\ Mirrors(mapuser, roomMap, db, misread)
  <2>1. Still(todo') /\ head.op = "deleteMessageOfUser"
        BY <1>1, <1>2, StillTail DEF TypeOK
  <2>2. SameTables(db, Run(db, head))
        BY <2>1, MemoryTypes, RunMessages
  <2>3. Mirrors(mapuser', roomMap', db', misread')
        BY <1>1, <1>2, <2>2, MirrorsSame
  <2>. QED  BY <1>1, <2>1, <2>3, StillAgrees
<1>3. ASSUME NEW before \in Seq(Calls), NEW after \in Seq(Calls),
             NEW s \in Statements, Decides(before, s, after)
      PROVE  DatabaseInv'
  <2>1. NoSql(after) /\ Mirrors(mapuser, roomMap, Run(db, s), misread)
        BY <1>3 DEF Decides
  <2>2. CASE head = s /\ todo' = after
        BY <1>1, <2>1, <2>2, NoSqlIsStill, StillAgrees
  <2>3. CASE /\ s.op = "updateState"
             /\ head = clearState(s.user)
             /\ todo' = Sql(s) \o after
    <3>1. s = updateState(s.user, s.state) /\ s.user \in Users /\ s.state \in States
          BY <2>3 DEF Statements, updateState
    <3>2. SameTables(Run(db, s), Run(db', s))
          BY <1>1, <2>3, <3>1, MemoryTypes, ClearThenUpdate
    <3>3. Mirrors(mapuser', roomMap', Run(db', s), misread')
          BY <1>1, <2>1, <3>2, MirrorsSame
    <3>. QED  BY <1>1, <2>1, <2>3, <3>3, StateNotRejected, FirstAgrees DEF StateOps
  <2>. QED  BY <1>1, <1>3, <2>2, <2>3, HeadOfDecision
<1>. QED  BY <1>1, <1>2, <1>3 DEF DatabaseInv, Agrees

-----------------------------------------------------------------------------
(* The theorems about memory and tables.                                   *)

\* mapUser and mapRoom.
LEMMA LoadMirrors ==
    ASSUME NEW d, NEW M
    PROVE  Mirrors(mapUser(d), mapRoom(d), d, M)
BY DEF mapUser, mapRoom, NewRoom, Mirrors

LEMMA InitAgrees == Init => DatabaseInv
<1>. SUFFICES ASSUME Init PROVE DatabaseInv
     OBVIOUS
<1>1. up /\ todo = <<>> /\ Mirrors(mapuser, roomMap, db, misread)
      BY LoadMirrors DEF Init
<1>. QED  BY <1>1, NoSqlNone, NoSqlIsStill DEF DatabaseInv, Agrees

LEMMA NextAgrees == TypeOK /\ NamesRead /\ DatabaseInv /\ [Next]_vars => DatabaseInv'
<1>. SUFFICES ASSUME TypeOK, NamesRead, DatabaseInv, [Next]_vars PROVE DatabaseInv'
     OBVIOUS
<1>1. ASSUME NEW fd \in Fds, NEW p \in Packages, Receive(fd, p)
      PROVE  DatabaseInv'
      BY <1>1, ReceiveAgrees
<1>2. ASSUME NEW fd \in Fds, Disconnect(fd)
      PROVE  DatabaseInv'
      BY <1>2, DisconnectAgrees
<1>3. CASE Call
      BY <1>3, WriteAgrees, ReplayAgrees, ExecuteAgrees, CloseAgrees DEF Call
<1>4. CASE Crash \/ \E fd \in Fds : Sigpipe(fd)
      BY <1>4 DEF Crash, Sigpipe, Dies, DatabaseInv, Agrees
<1>5. CASE Restart
  <2>1. /\ up' /\ todo' = <<>> /\ db' = db
        /\ mapuser' = mapUser(db) /\ roomMap' = mapRoom(db)
        BY <1>5 DEF Restart, DatabaseInv
  <2>2. Mirrors(mapuser', roomMap', db', misread')
        BY <2>1, LoadMirrors
  <2>. QED  BY <2>1, <2>2, NoSqlNone, NoSqlIsStill, StillAgrees
<1>6. CASE UNCHANGED <<up, mapuser, roomMap, misread, todo, db>>
      BY <1>6 DEF DatabaseInv, Agrees, Decides
<1>7. \/ \E fd \in Fds, p \in Packages : Receive(fd, p)
      \/ \E fd \in Fds : Disconnect(fd)
      \/ Call \/ Crash \/ (\E fd \in Fds : Sigpipe(fd)) \/ Restart
      \/ UNCHANGED <<up, mapuser, roomMap, misread, todo, db>>
      BY DEF Next, Connect, Hangup, Reset, Stopped, memory, vars
<1>. QED  BY <1>1, <1>2, <1>3, <1>4, <1>5, <1>6, <1>7

LEMMA DatabaseInvariant == Spec => [](TypeOK /\ DatabaseInv)
<1>1. Init => TypeOK /\ DatabaseInv
      BY InitType, InitAgrees
<1>2. TypeOK /\ NamesRead /\ DatabaseInv /\ [Next]_vars => (TypeOK /\ DatabaseInv)'
      BY NextType, NextAgrees
<1>. QED  BY <1>1, <1>2, NamesAreRead, PTL DEF Spec

\* Between two handlers the maps of the server and the tables agree, for any
\* accounts, rooms and connections, and whenever the server has been killed:
\* what a handler changes in memory its statements change in the tables, and
\* mapUser and mapRoom read it back.  The exception are the names of rooms that
\* were created and read back longer, and these longer names, as long as the
\* process runs.
THEOREM MemoryIsTables == Spec => []MemoryMirrorsDatabase
<1>1. TypeOK /\ DatabaseInv => MemoryMirrorsDatabase
      BY MirrorsWhenIdle DEF Mirrors, MemoryMirrorsDatabase
<1>. QED  BY <1>1, DatabaseInvariant, PTL

\* A statement violates a key of init.sql only when it creates an account or a
\* room whose name is in no row (the collation takes it for that of a row), or
\* a room whose name is or was read back longer.  The keys are never looked at,
\* but in all other cases the tests on the maps are tests of the tables, and
\* what haveOfflineMessage has found is still so when the account is deleted.
THEOREM StatementsAccepted == Spec => []NoStatementRejected
<1>1. TypeOK /\ DatabaseInv => NoStatementRejected
      BY StatementAccepted DEF Passes, NoStatementRejected, Calling
<1>. QED  BY <1>1, DatabaseInvariant, PTL

-----------------------------------------------------------------------------
(* An administrator survives.                                              *)

AdminInMemory == up => \E u \in DOMAIN mapuser : mapuser[u].role = ADMIN

AdminInv == AdminSurvives /\ AdminInMemory

\* A step that leaves accounts and roles in memory as they are.
SameAccounts ==
    /\ DOMAIN mapuser' = DOMAIN mapuser
    /\ \A u \in DOMAIN mapuser : mapuser'[u].role = mapuser[u].role

LEMMA SameAccountsKeep ==
    ASSUME AdminInMemory, SameAccounts, UNCHANGED up
    PROVE  AdminInMemory'
BY DEF AdminInMemory, SameAccounts

\* States and connections are not roles.
LEMMA AccountsUpdate ==
    ASSUME TypeOK, NEW u
    PROVE  /\ \A st : mapuser' = SetState(mapuser, u, st) => SameAccounts
           /\ \A fd : mapuser' = [mapuser EXCEPT ![u].fd = fd] => SameAccounts
           /\ \A st, fd :
                 mapuser' = [mapuser EXCEPT ![u].state = st, ![u].fd = fd]
                 => SameAccounts
           /\ UNCHANGED mapuser => SameAccounts
<1>1. \A x \in DOMAIN mapuser : mapuser[x] \in Accounts
      BY MemoryTypes DEF IsMap
<1>. QED  BY <1>1 DEF SameAccounts, SetState, Accounts

\* The administrator that asks is online, so it is not the account it changes.
LEMMA AskerStays ==
    ASSUME TypeOK, NEW fd \in Fds, CheckAdmin(fd), NEW u,
           u \in DOMAIN mapuser => mapuser[u].fd = NoFd
    PROVE  \E x \in DOMAIN mapuser : x # u /\ mapuser[x].role = ADMIN
<1>. DEFINE x == findUserByfd(mapuser, fd)
<1>1. x \in DOMAIN mapuser /\ mapuser[x].fd = fd
      BY MemoryTypes, FindUser_Is DEF CheckAdmin, checkfd
<1>2. x # u
      BY <1>1, FdAssumption
<1>. QED  BY <1>1, <1>2 DEF CheckAdmin

\* The handlers that are not about accounts.
LEMMA HandlersKeepAccounts ==
    ASSUME TypeOK, NEW fd,
           \/ \E type : Answers(fd, type)
           \/ \E u, p : Login(fd, u, p)
           \/ \E v : WithFunction(fd, v)
           \/ \E r : JoinRoom(fd, r)
           \/ \E mess : OneToOneChat(fd, mess)
           \/ LeaveChatUser(fd)
           \/ \E r, c : addRoom(fd, r, c)
           \/ \E r, c : ModifyRoom(fd, r, c)
           \/ \E r : DeleteRoom(fd, r)
    PROVE  SameAccounts /\ UNCHANGED up
<1>1. \/ UNCHANGED mapuser
      \/ \E u : mapuser' = [mapuser EXCEPT ![u].fd = fd]
      \/ \E u, st : mapuser' = SetState(mapuser, u, st)
      BY DEF Answers, Login, WithFunction, JoinRoom, OneToOneChat,
             LeaveChatUser, addRoom, ModifyRoom, DeleteRoom, memory
<1>2. UNCHANGED up
      BY DEF Answers, Does, Login, WithFunction, JoinRoom, OneToOneChat,
             LeaveChatUser, addRoom, ModifyRoom, DeleteRoom
<1>. QED  BY <1>1, <1>2, AccountsUpdate

\* The three that are: the account created is new, the one deleted or modified
\* is offline.
LEMMA AccountHandlersKeepAdmin ==
    ASSUME TypeOK, AdminInMemory, up, NEW fd \in Fds, NEW u, NEW p, NEW role,
           \/ AddUser(fd, u, p, role)
           \/ DeleteUser(fd, u)
           \/ handleModifyUser(fd, u, p, role)
    PROVE  AdminInMemory'
<1>1. CASE \E type : Answers(fd, type)
      BY <1>1, HandlersKeepAccounts, SameAccountsKeep
<1>2. CASE ~\E type : Answers(fd, type)
  <2>1. PICK x \in DOMAIN mapuser : mapuser[x].role = ADMIN
        BY DEF AdminInMemory
  <2>2. CASE AddUser(fd, u, p, role)
    <3>1. /\ u \notin DOMAIN mapuser
          /\ \E account : mapuser' = Put(mapuser, u, account)
          BY <1>2, <2>2 DEF AddUser
    <3>2. x \in DOMAIN mapuser' /\ mapuser'[x].role = ADMIN
          BY <2>1, <3>1 DEF Put
    <3>. QED  BY <3>2 DEF AdminInMemory
  <2>3. CASE DeleteUser(fd, u)
    <3>1. MayDelete(fd, u) /\ mapuser' = Erase(mapuser, u)
          BY <1>2, <2>3 DEF DeleteUser
    <3>2. PICK y \in DOMAIN mapuser : y # u /\ mapuser[y].role = ADMIN
          BY <3>1, AskerStays DEF MayDelete
    <3>3. y \in DOMAIN mapuser' /\ mapuser'[y].role = ADMIN
          BY <3>1, <3>2 DEF Erase, Restrict
    <3>. QED  BY <3>3 DEF AdminInMemory
  <2>4. CASE handleModifyUser(fd, u, p, role)
    <3>1. /\ MayModify(fd, u, p)
          /\ \E new : mapuser' = [mapuser EXCEPT ![u].password = p,
                                                 ![u].role = new]
          BY <1>2, <2>4 DEF handleModifyUser
    <3>2. PICK y \in DOMAIN mapuser : y # u /\ mapuser[y].role = ADMIN
          BY <3>1, AskerStays DEF MayModify
    <3>3. y \in DOMAIN mapuser' /\ mapuser'[y].role = ADMIN
          BY <3>1, <3>2
    <3>. QED  BY <3>3 DEF AdminInMemory
  <2>. QED  BY <2>2, <2>3, <2>4
<1>. QED  BY <1>1, <1>2

LEMMA ReceiveKeepsAdmin ==
    ASSUME TypeOK, AdminInMemory, NEW fd \in Fds, NEW p \in Packages,
           Receive(fd, p)
    PROVE  AdminInMemory'
<1>1. up /\ analyzePackage(fd, p)
      BY DEF Receive, Reads, Visits
<1>2. CASE \/ AddUser(fd, p.user, p.password, p.role)
           \/ DeleteUser(fd, p.user)
           \/ handleModifyUser(fd, p.user, p.password, p.role)
      BY <1>1, <1>2, AccountHandlersKeepAdmin
<1>3. CASE ~(\/ AddUser(fd, p.user, p.password, p.role)
             \/ DeleteUser(fd, p.user)
             \/ handleModifyUser(fd, p.user, p.password, p.role))
  <2>1. SameAccounts /\ UNCHANGED up
        BY <1>1, <1>3, HandlersKeepAccounts
        DEF analyzePackage, Refuse, ShowRoom, getListRoles, getUserOnline,
            FindUser
  <2>. QED  BY <2>1, SameAccountsKeep
<1>. QED  BY <1>2, <1>3

LEMMA DisconnectKeepsAdmin ==
    ASSUME TypeOK, AdminInMemory, NEW fd \in Fds, Disconnect(fd)
    PROVE  AdminInMemory'
<1>1. \/ UNCHANGED mapuser
      \/ \E u : mapuser' = [mapuser EXCEPT ![u].state = Idle, ![u].fd = NoFd]
      BY DEF Disconnect, changeStateUserOff, memory
<1>2. UNCHANGED up
      BY DEF Disconnect
<1>. QED  BY <1>1, <1>2, AccountsUpdate, SameAccountsKeep

\* The table after a statement: the roles it had, or those of the memory.
LEMMA ExecuteKeepsAdmin ==
    ASSUME TypeOK, DatabaseInv, AdminInv, Execute
    PROVE  AdminInv'
<1>. DEFINE head == Head(todo).stmt
<1>0. CASE Rejected(db, head)
      BY <1>0 DEF Execute, Dies, AdminInv, AdminSurvives, AdminInMemory
<1>. SUFFICES ASSUME ~Rejected(db, head) PROVE AdminInv'
     BY <1>0
<1>1. /\ up /\ todo # <<>> /\ Head(todo).op = "sql"
      /\ db' = Run(db, head)
      /\ UNCHANGED <<up, mapuser>>
      BY DEF Execute, Calling, memory
<1>2. AdminInMemory' /\ IsDatabase(db)
      BY <1>1, MemoryTypes DEF AdminInv, AdminInMemory
<1>3. PICK a \in DOMAIN db.users : db.users[a].role = ADMIN
      BY DEF AdminInv, AdminSurvives
<1>4. CASE Still(todo)
  <2>1. head.op = "deleteMessageOfUser"
        BY <1>1, <1>4, StillTail DEF TypeOK
  <2>2. db'.users = db.users
        BY <1>1, <1>2, <2>1, RunMessages DEF SameTables
  <2>. QED  BY <1>2, <1>3, <2>2 DEF AdminInv, AdminSurvives
<1>5. ASSUME NEW before \in Seq(Calls), NEW after \in Seq(Calls),
             NEW s \in Statements, Decides(before, s, after)
      PROVE  AdminInv'
  <2>1. Mirrors(mapuser, roomMap, Run(db, s), misread)
        BY <1>5 DEF Decides
  <2>2. CASE head = s
    <3>1. Mirrors(mapuser, roomMap, db', misread)
          BY <1>1, <2>1, <2>2
    <3>2. PICK u \in DOMAIN mapuser : mapuser[u].role = ADMIN
          BY <1>1 DEF AdminInv, AdminInMemory
    <3>3. u \in DOMAIN db'.users /\ db'.users[u].role = ADMIN
          BY <3>1, <3>2 DEF Mirrors
    <3>. QED  BY <1>2, <3>3 DEF AdminInv, AdminSurvives
  <2>3. CASE head = clearState(s.user)
    <3>1. db' = RunSetState(db, s.user, <<>>)
          BY <1>1, <2>3 DEF Run, clearState
    <3>2. CASE s.user \notin DOMAIN db.users
          BY <1>2, <1>3, <3>1, <3>2 DEF RunSetState, AdminInv, AdminSurvives
    <3>3. CASE s.user \in DOMAIN db.users
      <4>1. a \in DOMAIN db'.users /\ db'.users[a].role = db.users[a].role
            BY <1>2, <3>1, <3>3, SetStateRows
      <4>. QED  BY <1>2, <1>3, <4>1 DEF AdminInv, AdminSurvives
    <3>. QED  BY <3>2, <3>3
  <2>. QED  BY <1>1, <1>5, <2>2, <2>3, HeadOfDecision
<1>. QED  BY <1>4, <1>5, <1>1 DEF DatabaseInv, Agrees

LEMMA InitAdmin == Init => AdminInv
<1>. SUFFICES ASSUME Init PROVE AdminInv
     OBVIOUS
<1>1. mapuser = mapUser(InitDb) /\ db = InitDb
      BY DEF Init
<1>2. \E u \in DOMAIN InitDb.users : InitDb.users[u].role = ADMIN
      BY InitDbAssumption
<1>. QED  BY <1>1, <1>2 DEF AdminInv, AdminSurvives, AdminInMemory, mapUser

LEMMA NextAdmin ==
    TypeOK /\ DatabaseInv /\ AdminInv /\ [Next]_vars => AdminInv'
<1>. SUFFICES ASSUME TypeOK, DatabaseInv, AdminInv, [Next]_vars
              PROVE  AdminInv'
     OBVIOUS
<1>1. ASSUME NEW fd \in Fds, NEW p \in Packages, Receive(fd, p)
      PROVE  AdminInv'
  <2>1. AdminInMemory'
        BY <1>1, ReceiveKeepsAdmin DEF AdminInv
  <2>2. UNCHANGED db
        BY <1>1 DEF Receive, analyzePackage, Refuse, Answers, Does, Login,
               WithFunction, JoinRoom, OneToOneChat, LeaveChatUser, ShowRoom,
               getListRoles, AddUser, handleModifyUser, DeleteUser, ModifyRoom,
               DeleteRoom, addRoom, getUserOnline, FindUser
  <2>. QED  BY <2>1, <2>2 DEF AdminInv, AdminSurvives
<1>2. ASSUME NEW fd \in Fds, Disconnect(fd)
      PROVE  AdminInv'
  <2>1. UNCHANGED db
        BY <1>2 DEF Disconnect
  <2>. QED  BY <1>2, <2>1, DisconnectKeepsAdmin DEF AdminInv, AdminSurvives
<1>3. CASE Execute
      BY <1>3, ExecuteKeepsAdmin
<1>4. CASE Crash \/ \E fd \in Fds : Sigpipe(fd)
      BY <1>4 DEF Crash, Sigpipe, Dies, AdminInv, AdminSurvives, AdminInMemory
<1>5. CASE Restart
  <2>1. db' = db /\ mapuser' = mapUser(db)
        BY <1>5 DEF Restart
  <2>. QED  BY <2>1 DEF AdminInv, AdminSurvives, AdminInMemory, mapUser
<1>6. CASE UNCHANGED <<up, mapuser, db>>
      BY <1>6 DEF AdminInv, AdminSurvives, AdminInMemory
<1>7. \/ \E fd \in Fds, p \in Packages : Receive(fd, p)
      \/ \E fd \in Fds : Disconnect(fd)
      \/ Execute \/ Crash \/ (\E fd \in Fds : Sigpipe(fd)) \/ Restart
      \/ UNCHANGED <<up, mapuser, db>>
      BY DEF Next, Call, Write, ReplayRow, ReplayEnd, ReplayJunk, Close, Connect,
             Hangup, Reset, Stopped, memory, vars
<1>. QED  BY <1>1, <1>2, <1>3, <1>4, <1>5, <1>6, <1>7

\* There is always an administrator to log in, for any set of accounts and
\* any number of crashes, although DeleteUser never looks at the role of the
\* account it deletes: the administrator that asks is online, and an account
\* that is online is neither deleted nor modified.
THEOREM AdminStays == Spec => []AdminSurvives
<1>1. Init => TypeOK /\ DatabaseInv /\ AdminInv
      BY InitType, InitAgrees, InitAdmin
<1>2. TypeOK /\ NamesRead /\ DatabaseInv /\ AdminInv /\ [Next]_vars
          => (TypeOK /\ DatabaseInv /\ AdminInv)'
      BY NextType, NextAgrees, NextAdmin
<1>3. AdminInv => AdminSurvives
      BY DEF AdminInv
<1>. QED  BY <1>1, <1>2, <1>3, NamesAreRead, PTL DEF Spec
=============================================================================
