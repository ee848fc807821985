----------------------------- MODULE ChatServer -----------------------------
(***************************************************************************)
(* The chat server (server/service/sock_connect.cpp) over its database.    *)
(*                                                                         *)
(* The server is one thread: poll() reports a descriptor, one package is   *)
(* read from it and one handler runs to its end.  What other processes can *)
(* observe of a handler is the order of its calls to write(), to the       *)
(* database and to close(): the server may be killed between two of them,  *)
(* and a peer may leave.  A handler is therefore one action that changes   *)
(* the memory of the process (mapuser, roomMap) and queues its calls in    *)
(* todo; each call is a step of its own; no package is read before todo is *)
(* empty.  The clients are open here: any connection may send any package  *)
(* of Requests at any time, as far as LoginOnce allows.                    *)
(***************************************************************************)
EXTENDS Protocol, Database, Room

CONSTANTS
    NoFd,        \* the -1 of mapuser: the user is offline
    Rank,        \* the order of the keys of std::map<user,int>
    InitDb,      \* the database the server is first started on
    ReadBack,    \* the names getRoomID may return for a room of a given name
    LoginOnce,   \* no loginn on a connection that is already logged in
    MaxChats,    \* bound: private messages accepted
    MaxRestarts  \* bound: times the server is started again

ASSUME FdAssumption == NoFd \notin Fds

ASSUME RankAssumption ==
    /\ IsFiniteSet(Users)
    /\ Rank \in [Users -> 0..(Cardinality(Users) - 1)]
    /\ \A u, v \in Users : Rank[u] = Rank[v] => u = v

\* Room::Room copies a name without its terminator into bytes nothing has
\* initialised: it is read back as it is or longer.
ASSUME ReadBackAssumption ==
    /\ ReadBack \in [Rooms -> SUBSET Rooms]
    /\ \A r \in Rooms : r \in ReadBack[r]

ASSUME InitDbAssumption ==
    /\ IsDatabase(InitDb)
    /\ InitDb.messages = {}
    /\ \A u \in DOMAIN InitDb.users : InitDb.users[u].state = <<>>
    /\ \E u \in DOMAIN InitDb.users : InitDb.users[u].role = ADMIN

ASSUME ParameterAssumption ==
    /\ LoginOnce \in BOOLEAN
    /\ MaxChats \in Nat
    /\ MaxRestarts \in Nat

VARIABLES
    up,        \* the server process runs
    mapuser,   \* std::map<user,int>: account |-> password, role, state, fd
    roomMap,   \* std::map<string,Room>
    todo,      \* the calls the running handler has not made yet
    reading,   \* the new connection whose first read() the loop waits in
    sock,      \* state of each descriptor, as far as the kernel knows
    db,        \* the database
    restarts,  \* times the server was started again
    chats,     \* observation: the private messages accepted, in order
    seen,      \* observation: numbers of the messages each user was written
    dropped,   \* observation: messages written to a connection already closed
    misread    \* observation: names of rooms created with a name read back
               \* longer, and these longer ones, since the server was started

memory == <<mapuser, roomMap, misread>>
observed == <<chats, seen, dropped>>
vars == <<up, memory, todo, reading, sock, db, restarts, observed>>

-----------------------------------------------------------------------------
(* The calls of a handler that others can observe.                         *)

\* write(fd, &pk, sizeof(package)) for every fd of a set, the order left open.
Writes == [op : {"write"}, fds : SUBSET Fds, pk : AnswerPackages]

\* The loop of handleOfflineMessage, which has written the rows up to after.
Replays == [op : {"replay"}, fd : Fds, user : Users, after : Nat]

Sqls == [op : {"sql"}, stmt : Statements]

Closes == [op : {"close"}, fd : Fds]

Calls == Writes \cup Replays \cup Sqls \cup Closes

WriteAll(fds, pk) ==
    IF fds = {} THEN <<>> ELSE <<[op |-> "write", fds |-> fds, pk |-> pk]>>

Reply(fd, type) == WriteAll({fd}, Answer(type))

Sql(stmt) == <<[op |-> "sql", stmt |-> stmt]>>

-----------------------------------------------------------------------------
(* Lookups in mapuser, which is a parameter where a handler has changed it *)
(* before the lookup.                                                      *)

Online(m) == {u \in DOMAIN m : m[u].fd # NoFd}

\* The accounts whose descriptor is fd: one in normal operation, but nothing
\* in the code keeps a connection from logging in twice.
On(m, fd) == {u \in DOMAIN m : m[u].fd = fd}

\* bool checkfd(int)
checkfd(fd) == On(mapuser, fd) # {}

\* user findUserByfd(int): the first in the order of the map.
findUserByfd(m, fd) ==
    CHOOSE u \in On(m, fd) : \A v \in On(m, fd) : Rank[u] <= Rank[v]

\* The loop at the head of OneToOneChat has no break: the last one stays.
LastUserByfd(m, fd) ==
    CHOOSE u \in On(m, fd) : \A v \in On(m, fd) : Rank[v] <= Rank[u]

\* bool CheckAdmin(int)
CheckAdmin(fd) ==
    checkfd(fd) /\ mapuser[findUserByfd(mapuser, fd)].role = ADMIN

\* The connections notificationOffline writes to: the users online whose
\* state says that they chat with the user of fd.
Partners(m, fd) ==
    IF On(m, fd) = {} THEN {}
    ELSE {m[v].fd : v \in {w \in Online(m) :
                              m[w].state = WithUser(findUserByfd(m, fd))}}

\* Mutant: the partners are told of the end of a connection only.
TellsEndOnly(m, fd, online) ==
    IF online THEN <<>>
    ELSE WriteAll(Partners(m, fd), StatusAnswer("checkparty", online))

\* void notificationOffline(int, eType)
notificationOffline(m, fd, online) ==
    WriteAll(Partners(m, fd), StatusAnswer("checkparty", online))

SetState(m, u, st) == [m EXCEPT ![u].state = st]

\* Mutant: the room is not put back.
RoomsErased(fd, st) ==
    IF st.name \in DOMAIN roomMap THEN Erase(roomMap, st.name) ELSE roomMap

\* LeaveRoom: what it does to roomMap, where the room is put back under the
\* name that is read back from it ...
RoomsWithout(fd, st) ==
    IF st.name \in DOMAIN roomMap
    THEN LET left == removeUser(roomMap[st.name], fd)
         IN  Insert(Erase(roomMap, st.name), left.roomID, left)
    ELSE roomMap

\* ... and the "left room." it writes to those who stay.
LeaveNotice(fd, st) ==
    IF st.name \in DOMAIN roomMap
    THEN WriteAll(listClients(removeUser(roomMap[st.name], fd)),
                  Answer("sendMess"))
    ELSE <<>>

-----------------------------------------------------------------------------
\* mapUser: every account of the table, offline, in the state stored for it.
mapUser(d) ==
    [u \in DOMAIN d.users |->
        [password |-> d.users[u].password, role |-> d.users[u].role,
         state |-> StateOf(d.users[u].state), fd |-> NoFd]]

\* mapRoom: every room of the table, empty.
mapRoom(d) == [r \in DOMAIN d.rooms |-> NewRoom(r, d.rooms[r])]

Init ==
    /\ up = TRUE
    /\ mapuser = mapUser(InitDb)
    /\ roomMap = mapRoom(InitDb)
    /\ todo = <<>>
    /\ reading = NoFd
    /\ sock = [fd \in Fds |-> "free"]
    /\ db = InitDb
    /\ restarts = 0
    /\ chats = <<>>
    /\ seen = [u \in Users |-> <<>>]
    /\ dropped = {}
    /\ misread = {}

-----------------------------------------------------------------------------
(* The handlers.  Each one leaves sock, db and the observations alone and  *)
(* ends in Does(calls), the calls it makes in order.                       *)

Does(calls) ==
    /\ todo' = calls
    /\ reading' = NoFd
    /\ UNCHANGED <<up, sock, db, restarts, seen, dropped>>

\* A handler that only answers.
Answers(fd, type) == Does(Reply(fd, type)) /\ UNCHANGED <<memory, chats>>

\* The refusal of analyzePackage: write() gets the address of the pointer to
\* the package, so what arrives has any type.
Refuse(fd) == Answers(fd, "garbage")

\* Mutant: the stored messages are not deleted after they are written ...
ReplayOnly(m, fd) ==
    LET u == findUserByfd(m, fd)
    IN  IF getMessageOfUser(db, u) = {} THEN <<>>
        ELSE <<[op |-> "replay", fd |-> fd, user |-> u, after |-> 0]>>

\* Mutant: ... or before.
DeleteThenReplay(m, fd) ==
    LET u == findUserByfd(m, fd)
    IN  IF getMessageOfUser(db, u) = {} THEN <<>>
        ELSE Sql(deleteMessageOfUser(u))
             \o <<[op |-> "replay", fd |-> fd, user |-> u, after |-> 0]>>

\* handleOfflineMessage, called after the user of fd is set online.
handleOfflineMessage(m, fd) ==
    LET u == findUserByfd(m, fd)
    IN  IF getMessageOfUser(db, u) = {} THEN <<>>
        ELSE <<[op |-> "replay", fd |-> fd, user |-> u, after |-> 0]>>
             \o Sql(deleteMessageOfUser(u))

\* The tests of Login, in its order.
LoginAccepted(u, p) ==
    u \in DOMAIN mapuser /\ mapuser[u].fd = NoFd /\ mapuser[u].password = p

\* The state read from the database at the start puts the user in a room.
Returns(u) ==
    mapuser[u].state.type = 2 /\ mapuser[u].state.name \in DOMAIN roomMap

\* When the room has no place the handler returns at once, without an answer.
Login(fd, u, p) ==
    IF ~LoginAccepted(u, p) THEN Answers(fd, "loginFail")
    ELSE LET m == [mapuser EXCEPT ![u].fd = fd]
             r == mapuser[u].state.name
         IN  /\ mapuser' = m
             /\ UNCHANGED <<misread, chats>>
             /\ IF Returns(u) /\ ~CanAdd(roomMap[r], fd)
                THEN Does(<<>>) /\ UNCHANGED roomMap
                ELSE /\ roomMap' = IF Returns(u)
                                   THEN [roomMap EXCEPT ![r] = Add(@, fd)]
                                   ELSE roomMap
                     /\ Does(WriteAll({fd}, LoginAnswer(u, p, mapuser[u].role))
                             \o handleOfflineMessage(m, fd)
                             \o notificationOffline(m, fd, TRUE))

\* The room the sender may be in is not left.
WithFunction(fd, v) ==
    IF v \notin DOMAIN mapuser \/ mapuser[v].fd = fd
    THEN Answers(fd, "withFail")
    ELSE LET u == findUserByfd(mapuser, fd)
         IN  /\ mapuser' = SetState(mapuser, u, WithUser(v))
             /\ Does(Sql(updateState(u, WithUser(v)))
                     \o WriteAll({fd}, StatusAnswer("withSuccess",
                                                    mapuser[v].fd # NoFd)))
             /\ UNCHANGED <<roomMap, misread, chats>>

\* Nor is it left here.
JoinRoom(fd, r) ==
    IF r \notin DOMAIN roomMap THEN Answers(fd, "joinFail")
    ELSE IF ~CanAdd(roomMap[r], fd) THEN Answers(fd, "joinFail")
    ELSE LET u == findUserByfd(mapuser, fd)
         IN  /\ roomMap' = [roomMap EXCEPT ![r] = Add(@, fd)]
             /\ mapuser' = SetState(mapuser, u, InRoom(r))
             /\ Does(Sql(clearState(u)) \o Sql(updateState(u, InRoom(r)))
                     \o Reply(fd, "joinSuccess"))
             /\ UNCHANGED <<misread, chats>>

\* RoomChat writes to every member, the sender included when it is one.
RoomChat(r) ==
    IF r \in DOMAIN roomMap
    THEN WriteAll(listClients(roomMap[r]), Answer("sendMess"))
    ELSE <<>>

\* One private message: written to the receiver or kept in the database.
Deliver(u, v, mess, id) ==
    IF mapuser[v].fd = NoFd
    THEN Sql(saveMessage([id |-> id, sender |-> u, receiver |-> v,
                          mess |-> mess]))
    ELSE WriteAll({mapuser[v].fd}, ChatAnswer(id))

\* A message in no state, or to an account that is gone, has no effect.
OneToOneChat(fd, mess) ==
    LET u == LastUserByfd(mapuser, fd)
        st == mapuser[u].state
    IN  /\ UNCHANGED memory
        /\ IF st.type = 1 /\ st.name \in DOMAIN mapuser
           THEN /\ Len(chats) < MaxChats
                /\ chats' = Append(chats, [from |-> u, to |-> st.name,
                                           mess |-> mess])
                /\ Does(Deliver(u, st.name, mess, Len(chats) + 1))
           ELSE /\ Does(IF st.type = 2 THEN RoomChat(st.name) ELSE <<>>)
                /\ UNCHANGED chats

LeaveChatUser(fd) ==
    LET u == findUserByfd(mapuser, fd)
        st == mapuser[u].state
    IN  IF st.name = NoName THEN Answers(fd, "failTerminate")
        ELSE /\ mapuser' = SetState(mapuser, u, Idle)
             /\ roomMap' = IF st.type = 2 THEN RoomsWithout(fd, st) ELSE roomMap
             /\ Does((IF st.type = 2 THEN LeaveNotice(fd, st) ELSE <<>>)
                     \o Sql(clearState(u)) \o Reply(fd, "successTerminate"))
             /\ UNCHANGED <<misread, chats>>

\* Mutant: the name is not looked up.
AddsAgain(fd, u, p, role) ==
    IF ~CheckAdmin(fd) \/ u = NoName \/ p = NoName
    THEN Answers(fd, "createFail")
    ELSE /\ mapuser' = Insert(mapuser, u, [password |-> p, role |-> NormalRole(role),
                                       state |-> Idle, fd |-> NoFd])
         /\ Does(Sql(insertUser(u, p, NormalRole(role)))
                 \o Reply(fd, "createSuccess"))
         /\ UNCHANGED <<roomMap, misread, chats>>

AddUser(fd, u, p, role) ==
    IF ~CheckAdmin(fd) \/ u \in DOMAIN mapuser \/ u = NoName \/ p = NoName
    THEN Answers(fd, "createFail")
    ELSE /\ mapuser' = Put(mapuser, u,
                           [password |-> p, role |-> NormalRole(role),
                            state |-> Idle, fd |-> NoFd])
         /\ Does(Sql(insertUser(u, p, NormalRole(role)))
                 \o Reply(fd, "createSuccess"))
         /\ UNCHANGED <<roomMap, misread, chats>>

\* Mutant: an account that is online may be deleted.
MayDeleteOnline(fd, u) ==
    CheckAdmin(fd) /\ u \in DOMAIN mapuser /\ ~haveOfflineMessage(db, u)

\* Mutant: an account with stored messages may be deleted.
MayDeleteStored(fd, u) ==
    CheckAdmin(fd) /\ u \in DOMAIN mapuser /\ mapuser[u].fd = NoFd

\* The fourth test reads the role of the account built from the package,
\* which is that of user(), not the role of the account found.
MayDelete(fd, u) ==
    /\ CheckAdmin(fd)
    /\ u \in DOMAIN mapuser
    /\ mapuser[u].fd = NoFd
    /\ NoRole # ADMIN
    /\ ~haveOfflineMessage(db, u)

DeleteUser(fd, u) ==
    IF ~MayDelete(fd, u) THEN Answers(fd, "deleteFail")
    ELSE /\ mapuser' = Erase(mapuser, u)
         /\ Does(Sql(deleteUser(u)) \o Reply(fd, "deleteSuccess"))
         /\ UNCHANGED <<roomMap, misread, chats>>

MayModify(fd, u, p) ==
    /\ CheckAdmin(fd)
    /\ u \in DOMAIN mapuser
    /\ p # NoName
    /\ mapuser[u].fd = NoFd

\* The state restored for an offline user stays.
handleModifyUser(fd, u, p, role) ==
    IF ~MayModify(fd, u, p) THEN Answers(fd, "modifyFail")
    ELSE /\ mapuser' = [mapuser EXCEPT ![u].password = p,
                                       ![u].role = NormalRole(role)]
         /\ Does(Sql(modifyUser(u, p, NormalRole(role)))
                 \o Reply(fd, "modifySuccess"))
         /\ UNCHANGED <<roomMap, misread, chats>>

\* The map has the room under the name of the package, the table under the
\* one that is read back.
addRoom(fd, r, c) ==
    IF ~CheckAdmin(fd) \/ r \in DOMAIN roomMap \/ r = NoName \/ c < 0
    THEN Answers(fd, "createFail")
    ELSE \E id \in ReadBack[r] :
            /\ roomMap' = Put(roomMap, r, NewRoom(id, c))
            /\ misread' = misread \cup (IF id = r THEN {} ELSE {r, id})
            /\ Does(Sql(insertRoom(id, c)) \o Reply(fd, "createSuccess"))
            /\ UNCHANGED <<mapuser, chats>>

MayModifyRoom(fd, r, c) ==
    CheckAdmin(fd) /\ r \in DOMAIN roomMap /\ c > 0 /\ getOnlUser(roomMap[r]) = 0

\* From here on the name is read back as it is; a row under a longer one stays.
ModifyRoom(fd, r, c) ==
    IF ~MayModifyRoom(fd, r, c) THEN Answers(fd, "modifyFail")
    ELSE /\ roomMap' = [roomMap EXCEPT ![r] = setCapacity(setRoomID(@, r), c)]
         /\ Does(Sql(modifyRoom(r, c)) \o Reply(fd, "modifySuccess"))
         /\ UNCHANGED <<mapuser, misread, chats>>

MayDeleteRoom(fd, r) ==
    CheckAdmin(fd) /\ r \in DOMAIN roomMap /\ getOnlUser(roomMap[r]) = 0

DeleteRoom(fd, r) ==
    IF ~MayDeleteRoom(fd, r) THEN Answers(fd, "deleteFail")
    ELSE /\ roomMap' = Erase(roomMap, r)
         /\ Does(Sql(deleteRoom(roomMap[r].roomID)) \o Reply(fd, "deleteSuccess"))
         /\ UNCHANGED <<mapuser, misread, chats>>

\* The four handlers that only read: the text of the answer is left out.
ShowRoom(fd) == Answers(fd, "allRoom")
getListRoles(fd) == Answers(fd, "showRoles")
getUserOnline(fd) == Answers(fd, "showUsers")
FindUser(fd) == Answers(fd, "showUsers")

analyzePackage(fd, p) ==
    IF ~checkfd(fd) /\ p.type # "loginn" THEN Refuse(fd)
    ELSE \/ p.type = "loginn" /\ Login(fd, p.user, p.password)
         \/ p.type = "withh" /\ WithFunction(fd, p.user)
         \/ p.type = "joinn" /\ JoinRoom(fd, p.room)
         \/ p.type = "sendMess" /\ OneToOneChat(fd, p.mess)
         \/ p.type = "terminateChat" /\ LeaveChatUser(fd)
         \/ p.type = "showRoom" /\ ShowRoom(fd)
         \/ p.type = "getRoles" /\ getListRoles(fd)
         \/ p.type = "createUser" /\ AddUser(fd, p.user, p.password, p.role)
         \/ /\ p.type = "modifyUser"
            /\ handleModifyUser(fd, p.user, p.password, p.role)
         \/ p.type = "deleteUser" /\ DeleteUser(fd, p.user)
         \/ p.type = "modifyRoom" /\ ModifyRoom(fd, p.room, p.capacity)
         \/ p.type = "deleteRoom" /\ DeleteRoom(fd, p.room)
         \/ p.type = "createRoom" /\ addRoom(fd, p.room, p.capacity)
         \/ p.type = "getuser" /\ getUserOnline(fd)
         \/ p.type = "finduser" /\ FindUser(fd)

\* The loop reads: no handler runs, and no other connection keeps it waiting.
Visits(fd) == up /\ todo = <<>> /\ reading \in {NoFd, fd}

\* A package is read: the connection is open, or its peer has closed it after
\* sending the package.
Reads(fd) == Visits(fd) /\ sock[fd] \in {"open", "closed"}

Receive(fd, p) ==
    /\ Reads(fd)
    /\ LoginOnce /\ p.type = "loginn" => ~checkfd(fd)
    /\ analyzePackage(fd, p)

-----------------------------------------------------------------------------
\* Mutant: the descriptor of the user is not reset ...
OffKeepsFd(fd) ==
    LET u == findUserByfd(mapuser, fd)
        st == mapuser[u].state
    IN  /\ mapuser' = [mapuser EXCEPT ![u].state = Idle]
        /\ roomMap' = IF st.type = 2 THEN RoomsWithout(fd, st) ELSE roomMap

\* Mutant: ... the room is not left ...
OffKeepsRoom(fd) ==
    /\ mapuser' = [mapuser EXCEPT ![findUserByfd(mapuser, fd)].state = Idle,
                                  ![findUserByfd(mapuser, fd)].fd = NoFd]
    /\ UNCHANGED roomMap

\* Mutant: ... or the state stays.
OffKeepsState(fd) ==
    LET u == findUserByfd(mapuser, fd)
        st == mapuser[u].state
    IN  /\ mapuser' = [mapuser EXCEPT ![u].fd = NoFd]
        /\ roomMap' = IF st.type = 2 THEN RoomsWithout(fd, st) ELSE roomMap

\* bool changeStateUserOff(int) and its effect on the memory.
changeStateUserOff(fd) ==
    LET u == findUserByfd(mapuser, fd)
        st == mapuser[u].state
    IN  /\ mapuser' = [mapuser EXCEPT ![u].state = Idle, ![u].fd = NoFd]
        /\ roomMap' = IF st.type = 2 THEN RoomsWithout(fd, st) ELSE roomMap

\* Mutant: the descriptor is closed and nothing else is done.
OnlyCloses(fd) ==
    /\ Visits(fd)
    /\ sock[fd] \in {"closed", "reset"}
    /\ todo' = <<[op |-> "close", fd |-> fd]>>
    /\ reading' = NoFd
    /\ UNCHANGED <<up, memory, sock, db, restarts, observed>>

\* Execute, read() = 0 or ECONNRESET: the partners are told, the user is set
\* offline, the room and the state are left, the descriptor is closed.
Disconnect(fd) ==
    /\ Visits(fd)
    /\ sock[fd] \in {"closed", "reset"}
    /\ reading' = NoFd
    /\ UNCHANGED misread
    /\ IF checkfd(fd)
       THEN LET u == findUserByfd(mapuser, fd)
                st == mapuser[u].state
            IN  /\ changeStateUserOff(fd)
                /\ todo' = notificationOffline(mapuser, fd, FALSE)
                           \o (IF st.type = 2 THEN LeaveNotice(fd, st) ELSE <<>>)
                           \o Sql(clearState(u))
                           \o <<[op |-> "close", fd |-> fd]>>
       ELSE /\ todo' = <<[op |-> "close", fd |-> fd]>>
            /\ UNCHANGED <<mapuser, roomMap>>
    /\ UNCHANGED <<up, sock, db, restarts, observed>>

-----------------------------------------------------------------------------
(* The calls of the running handler, one by one.                           *)

Calling(op) == up /\ todo # <<>> /\ Head(todo).op = op

\* The process ends: the kernel closes its descriptors, its memory is gone.
Dies ==
    /\ up' = FALSE
    /\ mapuser' = Empty
    /\ roomMap' = Empty
    /\ misread' = {}
    /\ todo' = <<>>
    /\ reading' = NoFd
    /\ sock' = [fd \in Fds |-> "free"]

\* What is left to call after one write of a WriteAll.
AfterWrite(fd) ==
    LET w == Head(todo)
    IN  (IF w.fds = {fd} THEN <<>> ELSE <<[w EXCEPT !.fds = @ \ {fd}]>>)
        \o Tail(todo)

\* One write(): on an open connection the package reaches the process at the
\* other end, otherwise it is lost without an error the code looks at.
Write(fd) ==
    /\ Calling("write")
    /\ fd \in Head(todo).fds
    /\ todo' = AfterWrite(fd)
    /\ LET id == Head(todo).pk.id
       IN  IF id = 0 THEN UNCHANGED <<seen, dropped>>
           ELSE IF sock[fd] = "open"
           THEN /\ seen' = [seen EXCEPT ![chats[id].to] = Append(@, id)]
                /\ UNCHANGED dropped
           ELSE dropped' = dropped \cup {id} /\ UNCHANGED seen
    /\ UNCHANGED <<up, memory, reading, sock, db, restarts, chats>>

\* write() on a connection that was reset raises SIGPIPE, which main() leaves
\* at its default: the process ends.
Sigpipe(fd) ==
    /\ Calling("write")
    /\ fd \in Head(todo).fds
    /\ sock[fd] = "reset"
    /\ Dies
    /\ UNCHANGED <<db, restarts, observed>>

\* The rows getMessageOfUser returned that the loop has not reached, and the
\* one it is at, unless that one is blank.
Rest(c) == {row \in getMessageOfUser(db, c.user) : row.id > c.after}

\* Mutant: the rows come in no order.
AnyRow(c) == {row \in Rest(c) : row.mess # "blank"}

\* The oldest one: the SELECT has no ORDER BY, and InnoDB reads the rows of a
\* receiver in the order of the primary key.
NextRow(c) == {row \in Rest(c) : /\ row.mess # "blank"
                                 /\ \A other \in Rest(c) : row.id <= other.id}

\* while (strlen(messageArr->mess) > 0): the next row is written ...
ReplayRow ==
    /\ Calling("replay")
    /\ LET c == Head(todo)
       IN  \E row \in NextRow(c) :
              todo' = WriteAll({c.fd}, ChatAnswer(row.id))
                      \o <<[c EXCEPT !.after = row.id]>> \o Tail(todo)
    /\ UNCHANGED <<up, memory, reading, sock, db, restarts, observed>>

\* ... until a row is blank or, past the last one, the element that nothing
\* initialised is found empty ...
ReplayEnd ==
    /\ Calling("replay")
    /\ NextRow(Head(todo)) = {}
    /\ todo' = Tail(todo)
    /\ UNCHANGED <<up, memory, reading, sock, db, restarts, observed>>

\* ... or is found not empty, is written as if it were a message, and the loop
\* goes on behind it.
ReplayJunk ==
    /\ Calling("replay")
    /\ Rest(Head(todo)) = {}
    /\ todo' = Reply(Head(todo).fd, "sendMess") \o todo
    /\ UNCHANGED <<up, memory, reading, sock, db, restarts, observed>>

\* A statement; one the constraints reject throws an exception that nothing
\* catches, which ends the process.
Execute ==
    /\ Calling("sql")
    /\ IF Rejected(db, Head(todo).stmt)
       THEN Dies /\ UNCHANGED db
       ELSE /\ db' = Run(db, Head(todo).stmt)
            /\ todo' = Tail(todo)
            /\ UNCHANGED <<up, memory, reading, sock>>
    /\ UNCHANGED <<restarts, observed>>

Close ==
    /\ Calling("close")
    /\ sock' = [sock EXCEPT ![Head(todo).fd] = "free"]
    /\ todo' = Tail(todo)
    /\ UNCHANGED <<up, memory, reading, db, restarts, observed>>

Call ==
    \/ \E fd \in Fds : Write(fd)
    \/ ReplayRow
    \/ ReplayEnd
    \/ ReplayJunk
    \/ Execute
    \/ Close

-----------------------------------------------------------------------------
(* The surroundings: peers come and go, the server is killed and started.  *)

\* EventServer: a connection is accepted on a free descriptor.  The rest of the
\* round looks at its element, whose revents nothing has set: if they seem to
\* report something the loop waits in read() for what this client will send.
Connect(fd) ==
    /\ up
    /\ todo = <<>>
    /\ reading = NoFd
    /\ sock[fd] = "free"
    /\ sock' = [sock EXCEPT ![fd] = "open"]
    /\ reading' \in {NoFd, fd}
    /\ UNCHANGED <<up, memory, todo, db, restarts, observed>>

\* A client process ends; packages it has sent may still be read.
Hangup(fd) ==
    /\ sock[fd] = "open"
    /\ sock' = [sock EXCEPT ![fd] = "closed"]
    /\ UNCHANGED <<up, memory, todo, reading, db, restarts, observed>>

\* Its kernel answers a package, or left some unread: the connection is reset.
Reset(fd) ==
    /\ sock[fd] = "closed"
    /\ sock' = [sock EXCEPT ![fd] = "reset"]
    /\ UNCHANGED <<up, memory, todo, reading, db, restarts, observed>>

\* The process is killed, or the database is away and the code calls exit(0).
Crash ==
    /\ up
    /\ restarts < MaxRestarts
    /\ Dies
    /\ UNCHANGED <<db, restarts, observed>>

Restart ==
    /\ ~up
    /\ restarts < MaxRestarts
    /\ up' = TRUE
    /\ restarts' = restarts + 1
    /\ mapuser' = mapUser(db)
    /\ roomMap' = mapRoom(db)
    /\ UNCHANGED <<misread, todo, reading, sock, db, observed>>

\* Killed by a signal or an exception and never started again.
Stopped == ~up /\ restarts = MaxRestarts /\ UNCHANGED vars

Next ==
    \/ \E fd \in Fds : \E p \in Packages : Receive(fd, p)
    \/ \E fd \in Fds : Disconnect(fd)
    \/ Call
    \/ \E fd \in Fds : Sigpipe(fd)
    \/ \E fd \in Fds : Connect(fd) \/ Hangup(fd) \/ Reset(fd)
    \/ Crash
    \/ Restart
    \/ Stopped

Spec == Init /\ [][Next]_vars

-----------------------------------------------------------------------------
(* Properties.                                                             *)

Accounts == [password : Passwords, role : Roles, state : States,
             fd : Fds \cup {NoFd}]

RoomRecords == [roomID : Rooms, capacity : Nat, members : Seq(Fds)]

Chats == [from : Users, to : Users, mess : Texts]

\* Every variable holds a value of its type.
TypeOK ==
    /\ up \in BOOLEAN
    /\ IsMap(mapuser, Users, Accounts)
    /\ IsMap(roomMap, Rooms, RoomRecords)
    /\ todo \in Seq(Calls)
    /\ reading \in Fds \cup {NoFd}
    /\ sock \in [Fds -> {"free", "open", "closed", "reset"}]
    /\ IsDatabase(db)
    /\ restarts \in Nat
    /\ chats \in Seq(Chats)
    /\ seen \in [Users -> Seq(Nat)]
    /\ dropped \in SUBSET Nat
    /\ misread \in SUBSET Rooms

\* No room ever holds more members than its capacity or one of them twice,
\* whatever is joined, left, restored, resized and closed in between: the
\* guards of Room::add, the shift of removeUser and the emptiness tests of
\* ModifyRoom have to fit together.
RoomsSound == \A r \in DOMAIN roomMap : Sound(roomMap[r])

\* Between two handlers the maps of the server and the tables agree, so that a
\* restart (mapUser, mapRoom) finds what the server knew: every handler that
\* changes one of the two changes the other in the same way, except for names
\* of rooms that were read back longer, or that another one was read back as.
MemoryMirrorsDatabase ==
    up /\ todo = <<>> =>
        /\ DOMAIN mapuser = DOMAIN db.users
        /\ \A u \in DOMAIN mapuser :
              /\ mapuser[u].password = db.users[u].password
              /\ mapuser[u].role = db.users[u].role
              /\ mapuser[u].state = StateOf(db.users[u].state)
        /\ DOMAIN roomMap \ misread = DOMAIN db.rooms \ misread
        /\ \A r \in DOMAIN roomMap \ misread : roomMap[r].capacity = db.rooms[r]

\* No statement violates a key of init.sql when it is run; the exception would
\* end the server.  The tests are made on the maps and on an earlier query, and
\* miss two cases: a name that only the collation takes for that of a row, and
\* a room whose name is read back longer or was what another one was read as.
NoStatementRejected ==
    Calling("sql") =>
        LET s == Head(todo).stmt
        IN  Rejected(db, s) =>
              \/ s.op = "insertUser" /\ s.user \notin DOMAIN db.users
              \/ s.op = "insertRoom" /\ s.room \notin DOMAIN db.rooms \ misread

\* There is always an administrator to log in: deleting and demoting accounts
\* cannot remove the last one, also when the server is killed on the way.
AdminSurvives == \E u \in DOMAIN db.users : db.users[u].role = ADMIN

\* As long as the server is not restarted, a user whose state says "in room r"
\* is in the list of r and r exists: JoinRoom, LeaveChatUser, WithFunction,
\* DeleteRoom and the disconnect keep the two copies of this fact together,
\* unless r was read back under another name or another one as r.
InRoomIsMember ==
    restarts = 0 => \A u \in DOMAIN mapuser :
        mapuser[u].state.type = 2 /\ mapuser[u].state.name \notin misread =>
            /\ mapuser[u].state.name \in DOMAIN roomMap
            /\ mapuser[u].fd \in listClients(roomMap[mapuser[u].state.name])

\* As long as the server is not restarted, a user is written its private
\* messages at most once and in the order in which they were accepted, also
\* across the change from stored to direct delivery (handleOfflineMessage).
InOrderOnce ==
    restarts = 0 => \A u \in Users : \A i, j \in 1..Len(seen[u]) :
        i < j => seen[u][i] < seen[u][j]

\* As long as the server runs and was not restarted, every message it accepted
\* is waiting in the running handler, stored, written to its receiver, or was
\* written to a connection whose peer had gone.
EveryChatAccounted ==
    up /\ restarts = 0 => \A id \in 1..Len(chats) :
        \/ \E i \in 1..Len(todo) : todo[i].op = "write" /\ todo[i].pk.id = id
        \/ \E i \in 1..Len(todo) :
              todo[i].op = "sql" /\ todo[i].stmt.op = "saveMessage"
              /\ todo[i].stmt.row.id = id
        \/ \E row \in db.messages : row.id = id
        \/ \E i \in 1..Len(seen[chats[id].to]) : seen[chats[id].to][i] = id
        \/ id \in dropped

\* A stored message with a text leaves the database only after it was written
\* to its receiver (or to a connection already closed), also when the server is
\* killed between the writes and deleteMessageOfUser.
StoredUntilWritten ==
    [][\A row \in db.messages :
          row.mess = "text" /\ row \notin db'.messages =>
              \/ \E i \in 1..Len(seen[row.receiver]) :
                    seen[row.receiver][i] = row.id
              \/ row.id \in dropped]_vars

\* A user whose process has gone is set offline, however busy the others keep
\* the server (or the server is killed), unless the loop waits for ever for the
\* first package of a new connection.
GoneIsSetOffline ==
    []<>(reading = NoFd) =>
        \A u \in Users, fd \in Fds :
            /\ u \in DOMAIN mapuser
            /\ mapuser[u].fd = fd
            /\ sock[fd] \in {"closed", "reset"}
            ~> (u \in DOMAIN mapuser => mapuser[u].fd # fd)
=============================================================================
