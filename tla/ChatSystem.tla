----------------------------- MODULE ChatSystem -----------------------------
(***************************************************************************)
(* The server and its client processes, connected: ChatServer reads only   *)
(* what a process of ChatClient has sent, in the order it was sent, and    *)
(* what it writes is handled by the receiving thread of the process.       *)
(*                                                                         *)
(* A package of the server is handled by the client in the step that       *)
(* writes it.  A later arrival gives no other order of packages at the     *)
(* server: until the answer arrives main either waits or, woken by another *)
(* package, sends on, which it can do here too, before the request is read.*)
(***************************************************************************)
EXTENDS ChatServer, ChatClient

\* What a client may send and when is said here; a client logs in first.
ASSUME ClientAssumption == ~LoginOnce /\ "loginn" \in Requests

server == vars
all == <<vars, client, queue>>

SystemInit == Init /\ ClientInit

-----------------------------------------------------------------------------
\* Private messages typed and not read yet, of the MaxChats there may be.
Typed ==
    Cardinality({s \in Fds \X (1..MaxQueue) :
                    /\ s[2] <= Len(queue[s[1]])
                    /\ queue[s[1]][s[2]].type = "sendMess"})

\* A user types a line at a prompt.
Type(c) ==
    /\ sock[c] = "open"
    /\ ReadsLine(c)
    /\ \E pk \in Packages :
          /\ pk.type = "sendMess" => Len(chats) + Typed < MaxChats
          /\ Line(c, pk)
    /\ UNCHANGED server

\* A line typed while the server is away.
TypeAway(c) ==
    /\ sock[c] = "free"
    /\ ReadsLine(c)
    /\ \E pk \in Packages : LineLost(c, pk)
    /\ UNCHANGED server

\* Main goes on to the wait after a send.
MainGoes(c) == Goes(c) /\ UNCHANGED server

SendRelogin(c) == sock[c] = "open" /\ Relogin(c) /\ UNCHANGED server

\* The server reads the oldest package of a connection.
ServerReads(c) ==
    /\ queue[c] # <<>>
    /\ Reads(c)
    /\ analyzePackage(c, Head(queue[c]))
    /\ queue' = [queue EXCEPT ![c] = Tail(@)]
    /\ UNCHANGED client

\* The end of the connection is read after what was sent on it.
ServerDisconnects(c) ==
    /\ queue[c] = <<>>
    /\ Disconnect(c)
    /\ UNCHANGED <<client, queue>>

\* What the server writes reaches the process, if it is still there.
ServerWrites(c) ==
    /\ Write(c)
    /\ IF sock[c] = "open"
       THEN \E p \in receiverHandler(client[c], Head(todo).pk) :
               client' = [client EXCEPT ![c] = p]
       ELSE UNCHANGED client
    /\ UNCHANGED queue

ServerCalls ==
    \/ \E c \in Fds : ServerWrites(c)
    \/ /\ ReplayRow \/ ReplayEnd \/ ReplayJunk \/ Close
       /\ UNCHANGED <<client, queue>>
    \/ /\ Execute
       /\ IF up' THEN UNCHANGED <<client, queue>> ELSE ConnectionsLost

\* A process starts, or one that lost its connection finds the server again.
Starts(c) == Connect(c) /\ StartProcess(c)

Reconnects(c) == Connect(c) /\ Reconnected(c)

\* The process is ended by its user, connected or not.
Exits(c) ==
    /\ ExitProcess(c)
    /\ IF sock[c] = "open" THEN Hangup(c) ELSE UNCHANGED server

\* With the connection reset, what was sent and not read is gone too.
ResetBy(c) ==
    /\ Reset(c)
    /\ queue' = [queue EXCEPT ![c] = <<>>]
    /\ UNCHANGED client

ServerDies ==
    /\ Crash \/ \E c \in Fds : Sigpipe(c)
    /\ ConnectionsLost

ServerStarts == Restart /\ UNCHANGED <<client, queue>>

ServerStopped == Stopped /\ UNCHANGED <<client, queue>>

SystemNext ==
    \/ \E c \in Fds :
          \/ Type(c) \/ TypeAway(c) \/ MainGoes(c) \/ SendRelogin(c)
          \/ ServerReads(c) \/ ServerDisconnects(c)
          \/ Starts(c) \/ Reconnects(c) \/ Exits(c) \/ ResetBy(c)
    \/ ServerCalls
    \/ ServerDies
    \/ ServerStarts
    \/ ServerStopped

SystemSpec == SystemInit /\ [][SystemNext]_all

\* The one thread of the server makes the calls of a handler one after the
\* other, the memory behind the stored messages is finite, and the rounds of
\* the poll loop visit every descriptor as long as the loop does not wait in
\* the first read() of a new connection (Visits).  Nothing is assumed of the
\* users.
SystemFairness ==
    /\ WF_all(ServerCalls)
    /\ SF_all(ServerCalls /\ ReplayEnd)
    /\ \A c \in Fds : SF_all(ServerReads(c) \/ ServerDisconnects(c))

FairSystemSpec == SystemSpec /\ SystemFairness

-----------------------------------------------------------------------------
(* Properties.                                                             *)

\* The account a connection is online with; what is on its way on c is over.
UserOf(c) == findUserByfd(mapuser, c)

Settled(c) ==
    sock[c] = "open" /\ queue[c] = <<>> /\ todo = <<>> /\ ~client[c].relogin

\* The count that ?listroom shows for a room is the number of online users
\* that are in it: its member list holds their connections and no other.  (Where
\* names of rooms are read back longer, LeaveRoom moves the others in a room to a
\* room that their state does not name.)
RoomCountsUsersInIt ==
    up => \A r \in DOMAIN roomMap :
        listClients(roomMap[r]) =
            {mapuser[u].fd : u \in {v \in Online(mapuser) :
                                       mapuser[v].state = InRoom(r)}}

\* When nothing is on its way, the prompt of a client and the state of its
\* user on the server are about the same peer or room.
PromptIsTheState ==
    \A c \in Fds :
        Settled(c) /\ checkfd(c) /\ client[c].flag_l =>
            mapuser[UserOf(c)].state =
                CASE client[c].flag_w -> WithUser(client[c].userw)
                  [] ~client[c].flag_w /\ client[c].flag_j ->
                        InRoom(client[c].roomw)
                  [] OTHER -> Idle

\* The connections whose prompt shows the peer that its user chats with.
ShowsPeer(c) ==
    /\ Settled(c)
    /\ checkfd(c)
    /\ client[c].flag_w
    /\ mapuser[UserOf(c)].state = WithUser(client[c].userw)

\* The "#" behind the name of the peer is shown (inputLine, test_with.py:25)
\* just when that peer is online; src/README:73 describes it the other way round.
PeerStatusIsTrue ==
    \A c \in Fds : ShowsPeer(c) =>
        (client[c].flag_w_online <=> client[c].userw \in Online(mapuser))

\* A private message is written only to a process whose user is its receiver.
PrivateChatsArePrivate ==
    \A c \in Fds :
        Calling("write") /\ c \in Head(todo).fds /\ Head(todo).pk.id # 0
        /\ sock[c] = "open"
        => client[c].user = chats[Head(todo).pk.id].to

\* A client whose login the server has accepted is told so.
AcceptedLoginIsTold ==
    \A c \in Fds : Settled(c) /\ checkfd(c) => client[c].flag_l

\* No account is online on a connection that is gone, and none shares its
\* connection with another.
OneConnectionPerUser ==
    \A u \in Online(mapuser) :
        /\ sock[mapuser[u].fd] # "free"
        /\ \A v \in Online(mapuser) : mapuser[u].fd = mapuser[v].fd => u = v

\* A client that waits before its request is read is woken, unless it or the
\* server ends or the loop waits for ever for another new connection.
WaitEnds ==
    []<>(reading = NoFd) =>
        \A c \in Fds :
            At(c, "wait") /\ queue[c] # <<>> ~> ~At(c, "wait") \/ ~up
=============================================================================
