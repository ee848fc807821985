---------------------------- MODULE SystemProofs ----------------------------
(***************************************************************************)
(* The proof that the composition of the server with its clients is the    *)
(* server: every step of ChatSystem is a step of ChatServer or leaves the  *)
(* server alone.  What has to be shown of the clients is that they send    *)
(* packages the server knows, the login they repeat after a reconnection   *)
(* included: its account and password are those of a loginSuccess.  The    *)
(* theorems about the server then hold of the system.                      *)
(*                                                                         *)
(* The second part is about logins: that a connection has one user, that   *)
(* its process knows of it, and that private messages go where they        *)
(* should, from the invariant LoginInv of the connections.                 *)
(***************************************************************************)
EXTENDS ChatSystem, MessageProofs

\* A process that is logged in, or about to be again, knows a password.
KnownClients ==
    {p \in Clients : p.flag_l \/ p.relogin => p.password \in Passwords}

ClientInv ==
    /\ client \in [Fds -> KnownClients]
    /\ queue \in [Fds -> Seq(Packages)]

-----------------------------------------------------------------------------
(* The operators on a client process.                                      *)

\* What the steps of a process leave of its login.
SameLogin(q, p) ==
    /\ q.alive = p.alive /\ q.user = p.user
    /\ q.flag_l = p.flag_l /\ q.relogin = p.relogin

LEMMA PlaceType ==
    ASSUME NEW p \in KnownClients, NEW place \in Places
    PROVE  LET q == [p EXCEPT !.at = place]
           IN  q \in KnownClients /\ SameLogin(q, p) /\ q.at = place
BY DEF KnownClients, Clients, SameLogin

LEMMA ProceedType ==
    ASSUME NEW p \in KnownClients
    PROVE  /\ Proceed(p) \in KnownClients
           /\ SameLogin(Proceed(p), p)
           /\ Proceed(p).at \in Prompts
           /\ Proceed(p).at = "login" <=> ~p.flag_l
<1>1. Prompt(p) \in Prompts /\ (Prompt(p) = "login" <=> ~p.flag_l)
      BY DEF Prompt, Prompts, KnownClients, Clients
<1>2. Prompt(p) \in Places
      BY <1>1 DEF Places
<1>. QED  BY <1>1, <1>2, PlaceType DEF Proceed

LEMMA SentType ==
    ASSUME NEW p \in KnownClients
    PROVE  /\ Sent(p) \in KnownClients
           /\ SameLogin(Sent(p), p) /\ Sent(p).at = "sent"
BY PlaceType DEF Sent, Places

LEMMA AimedType ==
    ASSUME NEW p \in KnownClients, NEW pk \in Packages
    PROVE  LET q == Aimed(p, pk)
           IN  q \in KnownClients /\ SameLogin(q, p) /\ q.at = p.at
<1>1. pk.type = "withh" => pk.user \in Users
      BY DEF Packages
<1>2. pk.type = "joinn" => pk.room \in Rooms
      BY DEF Packages
<1>. QED  BY <1>1, <1>2 DEF Aimed, KnownClients, Clients, SameLogin

LEMMA FreshType == Fresh \in KnownClients /\ NoClient \in KnownClients
BY DEF Fresh, NoClient, KnownClients, Clients, Places, Prompts

\* A package of the server leaves a process one that knows its password.
LEMMA FlagsType ==
    ASSUME NEW p \in KnownClients, NEW pk \in AnswerPackages
    PROVE  Flags(p, pk) \in KnownClients
<1>1. pk.online \in BOOLEAN
      BY DEF AnswerPackages
<1>2. CASE pk.type = "loginSuccess"
  <2>1. pk.user \in Users /\ pk.password \in Passwords /\ pk.role \in Roles
        BY <1>2 DEF AnswerPackages, AnswerTypes
  <2>2. KeepLogin(p, pk) \in KnownClients
        BY <2>1 DEF KeepLogin, KnownClients, Clients
  <2>. QED  BY <1>2, <2>2 DEF Flags
<1>3. CASE pk.type # "loginSuccess"
  <2>1. EndChat(p) \in KnownClients
        BY DEF EndChat, KnownClients, Clients
  <2>2. /\ [EndChat(p) EXCEPT !.flag_j = TRUE] \in KnownClients
        /\ [EndChat(p) EXCEPT !.flag_w = TRUE, !.flag_w_online = pk.online]
               \in KnownClients
    <3>1. ASSUME NEW q \in KnownClients
          PROVE  [q EXCEPT !.flag_j = TRUE] \in KnownClients
          BY DEF KnownClients, Clients
    <3>2. ASSUME NEW q \in KnownClients, NEW online \in BOOLEAN
          PROVE  [q EXCEPT !.flag_w = TRUE, !.flag_w_online = online]
                     \in KnownClients
          BY DEF KnownClients, Clients
    <3>. HIDE DEF KnownClients
    <3>. QED  BY <1>1, <2>1, <3>1, <3>2
  <2>3. [p EXCEPT !.flag_w_online = pk.online] \in KnownClients
        BY <1>1 DEF KnownClients, Clients
  <2>. QED  BY <1>3, <2>1, <2>2, <2>3 DEF Flags
<1>. QED  BY <1>2, <1>3

LEMMA ReceiverType ==
    ASSUME NEW p \in KnownClients, NEW pk \in AnswerPackages,
           NEW q \in receiverHandler(p, pk)
    PROVE  q \in KnownClients
<1>1. Flags(p, pk) \in KnownClients
      BY FlagsType
<1>2. Signal(Flags(p, pk)) \in KnownClients
      BY <1>1, ProceedType DEF Signal
<1>. QED  BY <1>1, <1>2 DEF receiverHandler

-----------------------------------------------------------------------------
(* The steps of the clients.                                               *)

\* A process of a slot changes.
LEMMA SlotType ==
    ASSUME ClientInv, NEW c \in Fds, NEW p \in KnownClients
    PROVE  [client EXCEPT ![c] = p] \in [Fds -> KnownClients]
BY DEF ClientInv

\* A package is sent.
LEMMA SendsType ==
    ASSUME ClientInv, NEW c \in Fds, NEW pk \in Packages, Sends(c, pk)
    PROVE  queue' \in [Fds -> Seq(Packages)]
<1>1. queue[c] \in Seq(Packages)
      BY DEF ClientInv
<1>2. Append(queue[c], pk) \in Seq(Packages)
      BY <1>1
<1>. QED  BY <1>2 DEF Sends, ClientInv

\* What main does leaves the login alone; a process that is not logged in stays
\* between its prompt and the wait for the answer.
Good(p, q) ==
    /\ p \in KnownClients
    /\ SameLogin(p, q)
    /\ p.at = "login" => ~p.flag_l
    /\ q.at \in {"login", "sent"} /\ ~p.flag_l => p.at \in {"login", "sent", "wait"}
    /\ p.at = "login" => q.at \in Prompts \cup {"break"}

MainSteps(c) ==
    \E p \in KnownClients :
        Good(p, client[c]) /\ client' = [client EXCEPT ![c] = p]

LEMMA SentIsGood ==
    ASSUME NEW q \in KnownClients, q.at \in Prompts \cup {"break"}
    PROVE  /\ Good(Sent(q), q)
           /\ Good(Proceed(q), q)
BY SentType, ProceedType DEF Good, SameLogin, Prompts

LEMMA GoesIsStep ==
    ASSUME ClientInv, NEW c \in Fds, AfterBreak(c) \/ CondWait(c)
    PROVE  MainSteps(c)
<1>. DEFINE q == client[c]
<1>1. q \in KnownClients
      BY DEF ClientInv
<1>2. CASE AfterBreak(c)
  <2>1. \/ client' = [client EXCEPT ![c] = Proceed(q)]
        \/ client' = [client EXCEPT ![c] = Sent(q)]
        BY <1>2 DEF AfterBreak
  <2>2. Good(Sent(q), q) /\ Good(Proceed(q), q)
        BY <1>1, <1>2, SentIsGood DEF AfterBreak, At
  <2>. QED  BY <2>1, <2>2 DEF MainSteps, Good
<1>3. CASE CondWait(c)
  <2>. DEFINE p == [q EXCEPT !.at = "wait"]
  <2>1. client' = [client EXCEPT ![c] = p]
        BY <1>3 DEF CondWait, ClientInv
  <2>2. p \in KnownClients /\ SameLogin(p, q) /\ p.at = "wait"
        BY <1>1, PlaceType DEF Places
  <2>. HIDE DEF p
  <2>. QED  BY <2>1, <2>2 DEF MainSteps, Good
<1>. QED  BY <1>2, <1>3

LEMMA LineIsStep ==
    ASSUME ClientInv, NEW c \in Fds, NEW pk \in Packages,
           Handler(c, pk) \/ LineLost(c, pk)
    PROVE  MainSteps(c)
<1>. DEFINE q == client[c]
            a == Aimed(q, pk)
<1>1. q \in KnownClients
      BY DEF ClientInv
<1>2. a \in KnownClients /\ SameLogin(a, q) /\ a.at = q.at
      BY <1>1, AimedType
<1>3. q.at \in Prompts
      BY DEF Handler, LineLost, loginHandler, MayLogin, commandHandler, MayCommand,
             ChatLine, Back, At, Prompts
<1>4. /\ Good(Sent(q), q) /\ Good(Proceed(q), q)
      /\ Good(Proceed(a), a)
      BY <1>1, <1>2, <1>3, SentIsGood
<1>5. Good(Proceed(a), q)
      BY <1>2, <1>4 DEF Good, SameLogin
<1>6. CASE loginHandler(c, pk) \/ Back(c, pk)
  <2>1. client' = [client EXCEPT ![c] = Sent(q)]
        BY <1>6 DEF loginHandler, Back
  <2>. QED  BY <1>4, <2>1 DEF MainSteps, Good
<1>7. CASE ChatLine(c, pk)
  <2>1. client' = [client EXCEPT ![c] = Proceed(q)]
        BY <1>7 DEF ChatLine
  <2>. QED  BY <1>4, <2>1 DEF MainSteps, Good
<1>8. CASE commandHandler(c, pk)
  <2>. DEFINE place == IF pk.type \in Breaks THEN "break" ELSE "sent"
              p == [a EXCEPT !.at = place]
  <2>1. client' = [client EXCEPT ![c] = p] /\ q.at = "command"
        BY <1>8 DEF commandHandler, MayCommand, At
  <2>2. p \in KnownClients /\ SameLogin(p, a) /\ p.at = place
        BY <1>2, PlaceType DEF Places
  <2>3. SameLogin(p, q)
        BY <1>2, <2>2 DEF SameLogin
  <2>. HIDE DEF p, q, a
  <2>4. Good(p, q)
        BY <2>1, <2>2, <2>3 DEF Good
  <2>. QED  BY <2>1, <2>2, <2>4 DEF q, MainSteps
<1>9. CASE client' = [client EXCEPT ![c] = Proceed(a)]
      BY <1>5, <1>9 DEF MainSteps, Good
<1>. QED  BY <1>6, <1>7, <1>8, <1>9 DEF Handler, LineLost

\* main sends a line of its user, or goes on without one.
LEMMA MainType ==
    ASSUME ClientInv, NEW c \in Fds, Goes(c) \/ \E pk \in Packages : Line(c, pk)
    PROVE  ClientInv'
<1>1. CASE Goes(c)
  <2>1. PICK p \in KnownClients : client' = [client EXCEPT ![c] = p]
        BY <1>1, GoesIsStep DEF Goes, MainSteps
  <2>. QED  BY <1>1, <2>1, SlotType DEF Goes, ClientInv
<1>2. ASSUME NEW pk \in Packages, Line(c, pk)
      PROVE  ClientInv'
  <2>1. Handler(c, pk) /\ Sends(c, pk)
        BY <1>2 DEF Line
  <2>2. PICK p \in KnownClients : client' = [client EXCEPT ![c] = p]
        BY <2>1, LineIsStep DEF MainSteps
  <2>. QED  BY <2>1, <2>2, SlotType, SendsType DEF ClientInv
<1>. QED  BY <1>1, <1>2

\* The login that is repeated is one the server has accepted before.
LEMMA ReloginType ==
    ASSUME ClientInv, NEW c \in Fds, Relogin(c)
    PROVE  ClientInv'
<1>. DEFINE pk == [type |-> "loginn", user |-> client[c].user,
                   password |-> client[c].password]
            p == [client[c] EXCEPT !.relogin = FALSE]
<1>1. client[c] \in KnownClients /\ client[c].relogin
      BY DEF ClientInv, Relogin
<1>2. pk \in Packages
      BY <1>1, ClientAssumption DEF KnownClients, Clients, Packages
<1>3. p \in KnownClients
      BY <1>1 DEF KnownClients, Clients
<1>4. Sends(c, pk) /\ client' = [client EXCEPT ![c] = p]
      BY DEF Relogin, ClientInv
<1>. HIDE DEF pk, p
<1>. QED  BY <1>2, <1>3, <1>4, SlotType, SendsType DEF ClientInv

\* The steps of a process that do not send.
LEMMA ProcessType ==
    ASSUME ClientInv, NEW c \in Fds,
           \/ \E pk \in Packages : LineLost(c, pk)
           \/ StartProcess(c) \/ Reconnected(c) \/ ExitProcess(c)
    PROVE  ClientInv'
<1>1. client[c] \in KnownClients
      BY DEF ClientInv
<1>2. [client[c] EXCEPT !.relogin = client[c].flag_l] \in KnownClients
      BY <1>1 DEF KnownClients, Clients
<1>3. PICK p \in KnownClients : client' = [client EXCEPT ![c] = p]
  <2>1. CASE \E pk \in Packages : LineLost(c, pk)
        BY <2>1, LineIsStep DEF MainSteps
  <2>. QED  BY <1>1, <1>2, <2>1, FreshType
            DEF StartProcess, Reconnected, ExitProcess, ClientInv
<1>4. UNCHANGED queue
      BY DEF LineLost, StartProcess, Reconnected, ExitProcess
<1>. QED  BY <1>3, <1>4, SlotType DEF ClientInv

\* What the server writes is handled.
LEMMA ServerWritesType ==
    ASSUME TypeOK, ClientInv, NEW c \in Fds, ServerWrites(c)
    PROVE  ClientInv'
<1>1. Head(todo) \in Writes
      BY TodoTypes, CallKinds DEF ServerWrites, Write, Calling
<1>2. Head(todo).pk \in AnswerPackages /\ client[c] \in KnownClients
      BY <1>1 DEF Writes, ClientInv
<1>3. CASE sock[c] = "open"
  <2>1. PICK p \in receiverHandler(client[c], Head(todo).pk) :
           client' = [client EXCEPT ![c] = p]
        BY <1>3 DEF ServerWrites
  <2>2. p \in KnownClients
        BY <1>2, ReceiverType
  <2>. QED  BY <2>1, <2>2, SlotType DEF ServerWrites, ClientInv
<1>4. CASE sock[c] # "open"
      BY <1>4 DEF ServerWrites, ClientInv
<1>. QED  BY <1>3, <1>4

LEMMA ConnectionsLostType ==
    ASSUME ClientInv, ConnectionsLost
    PROVE  ClientInv'
<1>1. ASSUME NEW c \in Fds
      PROVE  [client[c] EXCEPT !.relogin = FALSE] \in KnownClients
  <2>1. client[c] \in KnownClients
        BY DEF ClientInv
  <2>. QED  BY <2>1 DEF KnownClients, Clients
<1>. QED  BY <1>1 DEF ConnectionsLost, ClientInv

\* A package is read, or is gone with its connection.
LEMMA QueueType ==
    ASSUME ClientInv, NEW c \in Fds,
           ServerReads(c) \/ ResetBy(c)
    PROVE  ClientInv'
<1>1. CASE ServerReads(c)
  <2>1. queue[c] \in Seq(Packages) /\ queue[c] # <<>>
        BY <1>1 DEF ServerReads, ClientInv
  <2>2. Tail(queue[c]) \in Seq(Packages)
        BY <2>1
  <2>. QED  BY <1>1, <2>2 DEF ServerReads, ClientInv
<1>2. CASE ResetBy(c)
      BY <1>2 DEF ResetBy, ClientInv
<1>. QED  BY <1>1, <1>2

-----------------------------------------------------------------------------
(* The system.                                                             *)

LEMMA InitClients == ClientInit => ClientInv
BY FreshType DEF ClientInit, ClientInv

LEMMA NextClients == TypeOK /\ ClientInv /\ [SystemNext]_all => ClientInv'
<1>. SUFFICES ASSUME TypeOK, ClientInv, [SystemNext]_all PROVE ClientInv'
     OBVIOUS
<1>1. CASE UNCHANGED <<client, queue>>
      BY <1>1 DEF ClientInv
<1>2. ASSUME NEW c \in Fds, Type(c) \/ MainGoes(c)
      PROVE  ClientInv'
      BY <1>2, MainType DEF Type, MainGoes
<1>3. ASSUME NEW c \in Fds, SendRelogin(c)
      PROVE  ClientInv'
      BY <1>3, ReloginType DEF SendRelogin
<1>4. ASSUME NEW c \in Fds,
             TypeAway(c) \/ Starts(c) \/ Reconnects(c) \/ Exits(c)
      PROVE  ClientInv'
      BY <1>4, ProcessType DEF TypeAway, Starts, Reconnects, Exits
<1>5. ASSUME NEW c \in Fds, ServerReads(c) \/ ResetBy(c)
      PROVE  ClientInv'
      BY <1>5, QueueType
<1>6. ASSUME NEW c \in Fds, ServerDisconnects(c)
      PROVE  ClientInv'
      BY <1>1, <1>6 DEF ServerDisconnects
<1>7. CASE ServerCalls
  <2>1. CASE \E c \in Fds : ServerWrites(c)
        BY <2>1, ServerWritesType
  <2>2. CASE ConnectionsLost
        BY <2>2, ConnectionsLostType
  <2>. QED  BY <1>1, <1>7, <2>1, <2>2 DEF ServerCalls
<1>8. CASE ServerDies
      BY <1>8, ConnectionsLostType DEF ServerDies
<1>9. CASE ServerStarts \/ ServerStopped \/ UNCHANGED all
      BY <1>1, <1>9 DEF ServerStarts, ServerStopped, all
<1>. QED  BY <1>2, <1>3, <1>4, <1>5, <1>6, <1>7, <1>8, <1>9 DEF SystemNext

\* A step of the system is one of the server or none of it.
LEMMA ServerStep == ClientInv /\ [SystemNext]_all => [Next]_vars
<1>. SUFFICES ASSUME ClientInv, [SystemNext]_all PROVE [Next]_vars
     OBVIOUS
<1>1. CASE UNCHANGED vars
      BY <1>1
<1>2. ASSUME NEW c \in Fds,
             Type(c) \/ TypeAway(c) \/ MainGoes(c) \/ SendRelogin(c)
      PROVE  UNCHANGED vars
      BY <1>2 DEF Type, TypeAway, MainGoes, SendRelogin, server
<1>3. ASSUME NEW c \in Fds, ServerReads(c)
      PROVE  Next
  <2>1. Head(queue[c]) \in Packages
    <3>1. queue[c] \in Seq(Packages) /\ queue[c] # <<>>
          BY <1>3 DEF ServerReads, ClientInv
    <3>. QED  BY <3>1
  <2>2. Receive(c, Head(queue[c]))
        BY <1>3, ClientAssumption DEF ServerReads, Receive
  <2>. QED  BY <2>1, <2>2 DEF Next
<1>4. ASSUME NEW c \in Fds, ServerDisconnects(c)
      PROVE  Next
      BY <1>4 DEF ServerDisconnects, Next
<1>5. ASSUME NEW c \in Fds,
             Starts(c) \/ Reconnects(c) \/ Exits(c) \/ ResetBy(c)
      PROVE  Next \/ UNCHANGED vars
      BY <1>5 DEF Starts, Reconnects, Exits, ResetBy, Next, server
<1>6. CASE ServerCalls
      BY <1>6 DEF ServerCalls, ServerWrites, Call, Next
<1>7. CASE ServerDies \/ ServerStarts \/ ServerStopped
      BY <1>7 DEF ServerDies, ServerStarts, ServerStopped, Next
<1>8. CASE UNCHANGED all
      BY <1>8 DEF all
<1>. QED  BY <1>1, <1>2, <1>3, <1>4, <1>5, <1>6, <1>7, <1>8 DEF SystemNext

\* The clients keep their types: in particular the login a client repeats by
\* itself after a reconnection is one the server understands.
THEOREM ClientsTyped == SystemSpec => []ClientTypeOK
<1>1. SystemInit => TypeOK /\ ClientInv
      BY InitType, InitClients DEF SystemInit
<1>2. TypeOK /\ ClientInv /\ [SystemNext]_all => (TypeOK /\ ClientInv)'
      BY ServerStep, NextType, NextClients
<1>3. ClientInv => ClientTypeOK
      BY DEF ClientInv, KnownClients, ClientTypeOK
<1>. QED  BY <1>1, <1>2, <1>3, PTL DEF SystemSpec

\* The server connected to its clients implements the server whose clients
\* are open: nothing a client process can do, and no order of what is sent,
\* read, lost and closed, leads the server out of ChatServer.
THEOREM SystemIsServer == SystemSpec => Spec
<1>1. SystemInit => Init /\ TypeOK /\ ClientInv
      BY InitType, InitClients DEF SystemInit
<1>2. TypeOK /\ ClientInv /\ [SystemNext]_all => (TypeOK /\ ClientInv)'
      BY ServerStep, NextType, NextClients
<1>3. ClientInv /\ [SystemNext]_all => [Next]_vars
      BY ServerStep
<1>. QED  BY <1>1, <1>2, <1>3, PTL DEF SystemSpec, Spec

\* So what is proved of the server for every sequence of packages holds of the
\* server that serves these clients, with the exceptions its properties name:
\* rooms read back under another name, and names only the collation equates.
THEOREM SystemSound ==
    SystemSpec => [](/\ TypeOK /\ RoomsSound /\ InRoomIsMember
                     /\ MemoryMirrorsDatabase /\ NoStatementRejected
                     /\ AdminSurvives)
BY SystemIsServer, TypeCorrect, RoomsStaySound, StatesMatchLists,
   MemoryIsTables, StatementsAccepted, AdminStays, PTL

\* Among it what is proved of private messages, if no client sends a blank one.
THEOREM SystemKeepsChats ==
    ASSUME NoBlank
    PROVE  SystemSpec => []EveryChatAccounted /\ StoredUntilWritten
<1>1. Spec => []EveryChatAccounted
      BY ChatsAccounted
<1>2. Spec => StoredUntilWritten
      BY RowsKeptUntilWritten
<1>. QED  BY <1>1, <1>2, SystemIsServer, PTL

-----------------------------------------------------------------------------
(* Who is online on a connection, and whom the calls of a handler reach.   *)

\* A call of a handler that answers fd: what it writes goes to fd or to
\* somebody who is online, what is about a user to the connection of the user.
Fits(call, m, sent, fd) ==
    /\ call.op # "close"
    /\ call.op = "write" => \A d \in call.fds :
          /\ call.pk.type = "loginSuccess" => call.pk.user \in On(m, d)
          /\ call.pk.id # 0 => sent[call.pk.id].to \in On(m, d)
          /\ d = fd \/ On(m, d) # {}
    /\ call.op = "replay" => call.user \in On(m, call.fd)

AllFit(l, m, sent, fd) ==
    /\ l \in Seq(Calls)
    /\ \A call \in CallsIn(l) : Fits(call, m, sent, fd)

\* The lists of the rooms hold nobody who is not online ...
Listed ==
    \A r \in DOMAIN roomMap : \A d \in listClients(roomMap[r]) :
        On(mapuser, d) # {}

\* ... and nobody who is offline comes back into a room.
ComesToNoRoom ==
    \A u \in DOMAIN mapuser : mapuser[u].fd = NoFd => ~Returns(u)

SameConnections == \A d \in Fds : On(mapuser', d) = On(mapuser, d)

LEMMA FitConcat ==
    ASSUME NEW m, NEW sent, NEW fd,
           NEW s, AllFit(s, m, sent, fd), NEW t, AllFit(t, m, sent, fd)
    PROVE  AllFit(s \o t, m, sent, fd)
BY TwoListsType, CallsInConcat DEF AllFit

LEMMA FitNone ==
    ASSUME NEW m, NEW sent, NEW fd
    PROVE  AllFit(<<>>, m, sent, fd)
BY NoCallType, CallsInNone DEF AllFit

LEMMA FitSql ==
    ASSUME NEW m, NEW sent, NEW fd, NEW s \in Statements
    PROVE  AllFit(Sql(s), m, sent, fd)
<1>1. Fits([op |-> "sql", stmt |-> s], m, sent, fd)
      BY DEF Fits
<1>2. CallsIn(Sql(s)) = {[op |-> "sql", stmt |-> s]}
      BY CallsInOne DEF Sql
<1>. QED  BY <1>1, <1>2, SqlType DEF AllFit

\* A package that is neither a private message nor the answer to a login.
LEMMA FitWriteAll ==
    ASSUME NEW m, NEW sent, NEW fd, NEW fds \in SUBSET Fds,
           NEW pk \in AnswerPackages, pk.id = 0, pk.type # "loginSuccess",
           \A d \in fds : d = fd \/ On(m, d) # {}
    PROVE  AllFit(WriteAll(fds, pk), m, sent, fd)
<1>. DEFINE call == [op |-> "write", fds |-> fds, pk |-> pk]
<1>1. Fits(call, m, sent, fd)
      BY DEF Fits
<1>2. CallsIn(WriteAll(fds, pk)) \subseteq {call}
      BY CallsInOne, CallsInNone DEF WriteAll
<1>. HIDE DEF call
<1>. QED  BY <1>1, <1>2, WriteAllType DEF AllFit

LEMMA AnswerKinds ==
    ASSUME NEW type \in AnswerTypes, NEW online \in BOOLEAN
    PROVE  /\ Answer(type) \in AnswerPackages
           /\ Answer(type).id = 0 /\ Answer(type).type = type
           /\ StatusAnswer(type, online) \in AnswerPackages
           /\ StatusAnswer(type, online).id = 0
           /\ StatusAnswer(type, online).type = type
           /\ StatusAnswer(type, online).online = online
           /\ type # "loginSuccess"
BY AnswerTypeOK DEF Answer, StatusAnswer, AnswerTypes

LEMMA FitReply ==
    ASSUME NEW m, NEW sent, NEW fd \in Fds, NEW type \in AnswerTypes
    PROVE  AllFit(Reply(fd, type), m, sent, fd)
<1>1. Answer(type) \in AnswerPackages /\ Answer(type).id = 0
      /\ Answer(type).type # "loginSuccess"
      BY AnswerKinds
<1>2. {fd} \in SUBSET Fds /\ \A d \in {fd} : d = fd
      OBVIOUS
<1>. QED  BY <1>1, <1>2, FitWriteAll DEF Reply

LEMMA PartnersOnline ==
    ASSUME NEW m, IsMap(m, Users, Accounts), NEW fd
    PROVE  /\ Partners(m, fd) \in SUBSET Fds
           /\ \A d \in Partners(m, fd) : On(m, d) # {}
<1>1. \A x \in DOMAIN m : m[x].fd \in Fds \cup {NoFd}
      BY DEF IsMap, Accounts
<1>. QED  BY <1>1 DEF Partners, Online, On

LEMMA FitNotification ==
    ASSUME NEW m, IsMap(m, Users, Accounts), NEW fd, NEW sent, NEW c,
           NEW online \in BOOLEAN, NEW after,
           \A d \in Fds : d = c \/ On(m, d) = On(after, d)
    PROVE  AllFit(notificationOffline(m, fd, online), after, sent, c)
<1>1. /\ StatusAnswer("checkparty", online) \in AnswerPackages
      /\ StatusAnswer("checkparty", online).id = 0
      /\ StatusAnswer("checkparty", online).type # "loginSuccess"
      BY AnswerKinds DEF AnswerTypes
<1>2. /\ Partners(m, fd) \in SUBSET Fds
      /\ \A d \in Partners(m, fd) : d = c \/ On(after, d) # {}
      BY PartnersOnline
<1>. QED  BY <1>1, <1>2, FitWriteAll DEF notificationOffline

\* The notice of a user who leaves a room, and a line of text in a room.
LEMMA FitNotice ==
    ASSUME TypeOK, Listed, NEW fd \in Fds, NEW st, NEW m, NEW sent, NEW c,
           \A d \in Fds : d = c \/ On(m, d) = On(mapuser, d)
    PROVE  AllFit(IF st.type = 2 THEN LeaveNotice(fd, st) ELSE <<>>, m, sent, c)
<1>. SUFFICES ASSUME st.name \in DOMAIN roomMap
              PROVE  AllFit(LeaveNotice(fd, st), m, sent, c)
     BY FitNone DEF LeaveNotice
<1>. DEFINE room == roomMap[st.name]
            fds == listClients(removeUser(room, fd))
<1>1. room \in RoomRecords
      BY MemoryTypes, MapValue
<1>2. fds \subseteq listClients(room) /\ listClients(room) \in SUBSET Fds
      BY <1>1, RemovedClients, RoomOperations
<1>3. \A d \in fds : d = c \/ On(m, d) # {}
      BY <1>2 DEF Listed
<1>4. Answer("sendMess") \in AnswerPackages /\ Answer("sendMess").id = 0
      /\ Answer("sendMess").type # "loginSuccess"
      BY AnswerKinds DEF AnswerTypes
<1>5. LeaveNotice(fd, st) = WriteAll(fds, Answer("sendMess"))
      BY DEF LeaveNotice
<1>. HIDE DEF fds
<1>. QED  BY <1>2, <1>3, <1>4, <1>5, FitWriteAll

LEMMA FitRoomChat ==
    ASSUME TypeOK, Listed, NEW r, NEW sent, NEW c
    PROVE  AllFit(RoomChat(r), mapuser, sent, c)
<1>. SUFFICES ASSUME r \in DOMAIN roomMap
              PROVE  AllFit(RoomChat(r), mapuser, sent, c)
     BY FitNone DEF RoomChat
<1>. DEFINE fds == listClients(roomMap[r])
<1>1. fds \in SUBSET Fds
      BY MemoryTypes, MapValue, RoomOperations
<1>2. \A d \in fds : d = c \/ On(mapuser, d) # {}
      BY DEF Listed
<1>3. Answer("sendMess") \in AnswerPackages /\ Answer("sendMess").id = 0
      /\ Answer("sendMess").type # "loginSuccess"
      BY AnswerKinds DEF AnswerTypes
<1>4. RoomChat(r) = WriteAll(fds, Answer("sendMess"))
      BY DEF RoomChat
<1>. HIDE DEF fds
<1>. QED  BY <1>1, <1>2, <1>3, <1>4, FitWriteAll

\* A private message goes to the connection of its receiver.
LEMMA FitDeliver ==
    ASSUME TypeOK, NEW u \in Users, NEW v \in DOMAIN mapuser, NEW mess \in Texts,
           NEW sent, NEW id \in Nat, sent[id].to = v, NEW c
    PROVE  AllFit(Deliver(u, v, mess, id), mapuser, sent, c)
<1>1. v \in Users /\ mapuser[v].fd \in Fds \cup {NoFd}
  <2>1. v \in Users /\ mapuser[v] \in Accounts
        BY MemoryTypes, MapValue
  <2>. QED  BY <2>1 DEF Accounts
<1>2. CASE mapuser[v].fd = NoFd
  <2>. DEFINE row == [id |-> id, sender |-> u, receiver |-> v, mess |-> mess]
  <2>1. saveMessage(row) \in Statements
        BY <1>1, SaveMessageType DEF MessageRows
  <2>2. Deliver(u, v, mess, id) = Sql(saveMessage(row))
        BY <1>2 DEF Deliver
  <2>. HIDE DEF row
  <2>. QED  BY <2>1, <2>2, FitSql
<1>3. CASE mapuser[v].fd # NoFd
  <2>. DEFINE fds == {mapuser[v].fd}
              pk == ChatAnswer(id)
              call == [op |-> "write", fds |-> fds, pk |-> pk]
  <2>1. pk \in AnswerPackages /\ pk.id = id /\ pk.type # "loginSuccess"
        BY ChatAnswerType DEF ChatAnswer, Answer
  <2>2. fds \in SUBSET Fds /\ \A d \in fds : v \in On(mapuser, d)
        BY <1>1, <1>3 DEF On
  <2>3. Deliver(u, v, mess, id) = WriteAll(fds, pk)
        BY <1>3 DEF Deliver
  <2>. HIDE DEF fds, pk
  <2>4. Fits(call, mapuser, sent, c)
        BY <2>1, <2>2 DEF Fits
  <2>5. CallsIn(WriteAll(fds, pk)) \subseteq {call}
        BY CallsInOne, CallsInNone DEF WriteAll
  <2>. HIDE DEF call
  <2>. QED  BY <2>1, <2>2, <2>3, <2>4, <2>5, WriteAllType DEF AllFit
<1>. QED  BY <1>2, <1>3

\* The changes of the map of accounts that leave everybody connected as before.
LEMMA ConnectionsSame ==
    ASSUME TypeOK, NEW u
    PROVE  /\ UNCHANGED mapuser => SameConnections
           /\ \A st : mapuser' = SetState(mapuser, u, st) => SameConnections
           /\ \A p, role :
                 mapuser' = [mapuser EXCEPT ![u].password = p, ![u].role = role]
                 => SameConnections
           /\ mapuser[u].fd = NoFd /\ mapuser' = Erase(mapuser, u)
                 => SameConnections
           /\ \A account :
                 /\ mapuser' = Put(mapuser, u, account) /\ account.fd = NoFd
                 /\ u \notin DOMAIN mapuser
                 => SameConnections
<1>1. \A x \in DOMAIN mapuser : mapuser[x] \in Accounts
      BY MemoryTypes DEF IsMap
<1>2. \A st : mapuser' = SetState(mapuser, u, st) => SameConnections
      BY <1>1 DEF SameConnections, On, SetState, Accounts
<1>3. \A p, role :
         mapuser' = [mapuser EXCEPT ![u].password = p, ![u].role = role]
         => SameConnections
      BY <1>1 DEF SameConnections, On, Accounts
<1>4. mapuser[u].fd = NoFd /\ mapuser' = Erase(mapuser, u) => SameConnections
  <2>. SUFFICES ASSUME mapuser[u].fd = NoFd, mapuser' = Erase(mapuser, u),
                       NEW d \in Fds
                PROVE  On(mapuser', d) = On(mapuser, d)
       BY DEF SameConnections
  <2>1. /\ DOMAIN mapuser' = DOMAIN mapuser \ {u}
        /\ \A x \in DOMAIN mapuser' : mapuser'[x] = mapuser[x]
        BY EraseValues DEF Erase, Restrict
  <2>2. mapuser[u].fd # d
        BY FdAssumption
  <2>. QED  BY <2>1, <2>2 DEF On
<1>5. ASSUME NEW account, mapuser' = Put(mapuser, u, account),
             account.fd = NoFd, u \notin DOMAIN mapuser
      PROVE  SameConnections
  <2>. SUFFICES ASSUME NEW d \in Fds
                PROVE  On(mapuser', d) = On(mapuser, d)
       BY DEF SameConnections
  <2>1. /\ DOMAIN mapuser' = DOMAIN mapuser \cup {u}
        /\ mapuser'[u].fd = NoFd
        /\ \A x \in DOMAIN mapuser : mapuser'[x] = mapuser[x]
        BY <1>5 DEF Put
  <2>2. NoFd # d
        BY FdAssumption
  <2>. QED  BY <2>1, <2>2 DEF On
<1>6. UNCHANGED mapuser => SameConnections
      BY DEF SameConnections
<1>. QED  BY <1>2, <1>3, <1>4, <1>5, <1>6

\* After a handler of fd everybody is connected as before, and its calls fit.
Handled(fd) == SameConnections /\ AllFit(todo', mapuser', chats', fd)

LEMMA AnswersHandled ==
    ASSUME TypeOK, NEW fd \in Fds, NEW type \in AnswerTypes, Answers(fd, type)
    PROVE  Handled(fd)
<1>1. UNCHANGED mapuser /\ todo' = Reply(fd, type)
      BY DEF Answers, Does, memory
<1>. QED  BY <1>1, FitReply, ConnectionsSame DEF Handled

LEMMA WithFunctionHandled ==
    ASSUME TypeOK, NEW fd \in Fds, checkfd(fd), NEW v \in Users,
           WithFunction(fd, v)
    PROVE  Handled(fd)
<1>1. CASE v \notin DOMAIN mapuser \/ mapuser[v].fd = fd
      BY <1>1, AnswersHandled DEF WithFunction, AnswerTypes
<1>2. CASE ~(v \notin DOMAIN mapuser \/ mapuser[v].fd = fd)
  <2>. DEFINE u == findUserByfd(mapuser, fd)
              pk == StatusAnswer("withSuccess", mapuser[v].fd # NoFd)
              query == Sql(updateState(u, WithUser(v)))
              answer == WriteAll({fd}, pk)
  <2>1. u \in Users /\ WithUser(v) \in States
        BY SenderType DEF States
  <2>2. mapuser' = SetState(mapuser, u, WithUser(v)) /\ todo' = query \o answer
        BY <1>2 DEF WithFunction, Does
  <2>3. AllFit(query, mapuser', chats', fd)
        BY <2>1, StatementTypes, FitSql
  <2>4. pk \in AnswerPackages /\ pk.id = 0 /\ pk.type # "loginSuccess"
    <3>1. /\ "withSuccess" \in AnswerTypes
          /\ (mapuser[v].fd # NoFd) \in BOOLEAN
          BY DEF AnswerTypes
    <3>2. PICK type \in AnswerTypes, online \in BOOLEAN :
             type = "withSuccess" /\ online = (mapuser[v].fd # NoFd)
          BY <3>1
    <3>3. pk = StatusAnswer(type, online)
          BY <3>2
    <3>. HIDE DEF pk
    <3>. QED  BY <3>2, <3>3, AnswerKinds
  <2>5. {fd} \in SUBSET Fds /\ \A d \in {fd} : d = fd
        OBVIOUS
  <2>6. AllFit(answer, mapuser', chats', fd)
        BY <2>4, <2>5, FitWriteAll
  <2>. HIDE DEF query, answer
  <2>. QED  BY <2>2, <2>3, <2>6, FitConcat, ConnectionsSame DEF Handled
<1>. QED  BY <1>1, <1>2

LEMMA JoinRoomHandled ==
    ASSUME TypeOK, NEW fd \in Fds, checkfd(fd), NEW r \in Rooms,
           JoinRoom(fd, r)
    PROVE  Handled(fd)
<1>1. CASE r \notin DOMAIN roomMap \/ ~CanAdd(roomMap[r], fd)
      BY <1>1, AnswersHandled DEF JoinRoom, AnswerTypes
<1>2. CASE r \in DOMAIN roomMap /\ CanAdd(roomMap[r], fd)
  <2>. DEFINE u == findUserByfd(mapuser, fd)
              clear == Sql(clearState(u))
              update == Sql(updateState(u, InRoom(r)))
              answer == Reply(fd, "joinSuccess")
  <2>1. u \in Users /\ InRoom(r) \in States
        BY SenderType DEF States
  <2>2. /\ mapuser' = SetState(mapuser, u, InRoom(r))
        /\ todo' = clear \o update \o answer
        BY <1>2 DEF JoinRoom, Does
  <2>3. /\ AllFit(clear, mapuser', chats', fd)
        /\ AllFit(update, mapuser', chats', fd)
        BY <2>1, StatementTypes, FitSql
  <2>4. AllFit(answer, mapuser', chats', fd)
        BY FitReply DEF AnswerTypes
  <2>. HIDE DEF clear, update, answer
  <2>5. AllFit(clear \o update, mapuser', chats', fd)
        BY <2>3, FitConcat
  <2>. QED  BY <2>2, <2>4, <2>5, FitConcat, ConnectionsSame DEF Handled
<1>. QED  BY <1>1, <1>2

LEMMA LeaveChatUserHandled ==
    ASSUME TypeOK, Listed, NEW fd \in Fds, checkfd(fd), LeaveChatUser(fd)
    PROVE  Handled(fd)
<1>. DEFINE u == findUserByfd(mapuser, fd)
            st == mapuser[u].state
            notice == IF st.type = 2 THEN LeaveNotice(fd, st) ELSE <<>>
            clear == Sql(clearState(u))
            answer == Reply(fd, "successTerminate")
<1>1. CASE st.name = NoName
      BY <1>1, AnswersHandled DEF LeaveChatUser, AnswerTypes
<1>2. CASE st.name # NoName
  <2>1. u \in Users
        BY SenderType
  <2>2. mapuser' = SetState(mapuser, u, Idle) /\ todo' = notice \o clear \o answer
        BY <1>2 DEF LeaveChatUser, Does
  <2>3. SameConnections
        BY <2>2, ConnectionsSame
  <2>4. AllFit(notice, mapuser', chats', fd)
        BY <2>3, FitNotice DEF SameConnections
  <2>5. AllFit(clear, mapuser', chats', fd)
        BY <2>1, StatementTypes, FitSql
  <2>6. AllFit(answer, mapuser', chats', fd)
        BY FitReply DEF AnswerTypes
  <2>. HIDE DEF notice, clear, answer
  <2>7. AllFit(notice \o clear, mapuser', chats', fd)
        BY <2>4, <2>5, FitConcat
  <2>. QED  BY <2>2, <2>3, <2>6, <2>7, FitConcat DEF Handled
<1>. QED  BY <1>1, <1>2

LEMMA OneToOneChatHandled ==
    ASSUME TypeOK, Listed, NEW fd \in Fds, checkfd(fd), NEW mess \in Texts,
           OneToOneChat(fd, mess)
    PROVE  Handled(fd)
<1>. DEFINE u == LastUserByfd(mapuser, fd)
            st == mapuser[u].state
            id == Len(chats) + 1
<1>1. UNCHANGED mapuser
      BY DEF OneToOneChat, memory
<1>2. u \in Users
      BY MemoryTypes, LastUser_Is DEF checkfd, IsMap
<1>3. CASE st.type = 1 /\ st.name \in DOMAIN mapuser
  <2>1. /\ chats' = Append(chats, [from |-> u, to |-> st.name, mess |-> mess])
        /\ todo' = Deliver(u, st.name, mess, id)
        BY <1>3 DEF OneToOneChat, Does
  <2>2. chats \in Seq(Chats) /\ id \in Nat
        BY MemoryTypes
  <2>3. chats'[id].to = st.name
        BY <2>1, <2>2
  <2>. HIDE DEF u, st, id
  <2>4. AllFit(Deliver(u, st.name, mess, id), mapuser, chats', fd)
        BY <1>2, <1>3, <2>2, <2>3, FitDeliver
  <2>. QED  BY <1>1, <2>1, <2>4, ConnectionsSame DEF Handled
<1>4. CASE ~(st.type = 1 /\ st.name \in DOMAIN mapuser)
  <2>1. todo' = IF st.type = 2 THEN RoomChat(st.name) ELSE <<>>
        BY <1>4 DEF OneToOneChat, Does
  <2>2. AllFit(todo', mapuser, chats', fd)
        BY <2>1, FitRoomChat, FitNone
  <2>. QED  BY <1>1, <2>2, ConnectionsSame DEF Handled
<1>. QED  BY <1>3, <1>4

\* The handlers of the administrators: a statement and an answer.
LEMMA StatementHandled ==
    ASSUME TypeOK, NEW fd \in Fds, NEW s \in Statements, NEW type \in AnswerTypes,
           Does(Sql(s) \o Reply(fd, type)), SameConnections
    PROVE  Handled(fd)
<1>1. todo' = Sql(s) \o Reply(fd, type)
      BY DEF Does
<1>2. AllFit(Sql(s), mapuser', chats', fd)
      BY FitSql
<1>3. AllFit(Reply(fd, type), mapuser', chats', fd)
      BY FitReply
<1>. QED  BY <1>1, <1>2, <1>3, FitConcat DEF Handled

LEMMA AccountsHandled ==
    ASSUME TypeOK, NEW fd \in Fds, NEW u \in Users \cup {NoName},
           NEW p \in Passwords \cup {NoName}, NEW role \in Roles \cup {NoRole},
           \/ AddUser(fd, u, p, role)
           \/ handleModifyUser(fd, u, p, role)
           \/ u \in Users /\ DeleteUser(fd, u)
    PROVE  Handled(fd)
<1>1. CASE \E type \in AnswerTypes : Answers(fd, type)
      BY <1>1, AnswersHandled
<1>2. CASE AddUser(fd, u, p, role) /\ ~\E type \in AnswerTypes : Answers(fd, type)
  <2>. DEFINE account == [password |-> p, role |-> NormalRole(role),
                          state |-> Idle, fd |-> NoFd]
  <2>1. /\ u \in Users /\ p \in Passwords /\ u \notin DOMAIN mapuser
        /\ mapuser' = Put(mapuser, u, account)
        /\ Does(Sql(insertUser(u, p, NormalRole(role)))
                \o Reply(fd, "createSuccess"))
        BY <1>2 DEF AddUser, AnswerTypes
  <2>2. account.fd = NoFd
        OBVIOUS
  <2>. HIDE DEF account
  <2>3. SameConnections
        BY <2>1, <2>2, ConnectionsSame
  <2>4. insertUser(u, p, NormalRole(role)) \in Statements
        BY <2>1, NormalRoleType, StatementTypes
  <2>. QED  BY <2>1, <2>3, <2>4, StatementHandled DEF AnswerTypes
<1>3. CASE handleModifyUser(fd, u, p, role)
           /\ ~\E type \in AnswerTypes : Answers(fd, type)
  <2>1. /\ u \in DOMAIN mapuser /\ p \in Passwords
        /\ mapuser' = [mapuser EXCEPT ![u].password = p,
                                      ![u].role = NormalRole(role)]
        /\ Does(Sql(modifyUser(u, p, NormalRole(role)))
                \o Reply(fd, "modifySuccess"))
        BY <1>3 DEF handleModifyUser, MayModify, AnswerTypes
  <2>2. SameConnections
        BY <2>1, ConnectionsSame
  <2>3. modifyUser(u, p, NormalRole(role)) \in Statements
        BY <2>1, MemoryTypes, MapValue, NormalRoleType, StatementTypes
  <2>. QED  BY <2>1, <2>2, <2>3, StatementHandled DEF AnswerTypes
<1>4. CASE u \in Users /\ DeleteUser(fd, u)
           /\ ~\E type \in AnswerTypes : Answers(fd, type)
  <2>1. /\ mapuser[u].fd = NoFd /\ mapuser' = Erase(mapuser, u)
        /\ Does(Sql(deleteUser(u)) \o Reply(fd, "deleteSuccess"))
        BY <1>4 DEF DeleteUser, MayDelete, AnswerTypes
  <2>2. SameConnections
        BY <2>1, ConnectionsSame
  <2>3. deleteUser(u) \in Statements
        BY <1>4, StatementTypes
  <2>. QED  BY <2>1, <2>2, <2>3, StatementHandled DEF AnswerTypes
<1>. QED  BY <1>1, <1>2, <1>3, <1>4

LEMMA RoomsHandled ==
    ASSUME TypeOK, NEW fd \in Fds, NEW r \in Rooms \cup {NoName}, NEW c \in Int,
           addRoom(fd, r, c) \/ ModifyRoom(fd, r, c) \/ DeleteRoom(fd, r)
    PROVE  Handled(fd)
<1>1. CASE \E type \in AnswerTypes : Answers(fd, type)
      BY <1>1, AnswersHandled
<1>2. CASE ~\E type \in AnswerTypes : Answers(fd, type)
  <2>1. UNCHANGED mapuser
        BY <1>2 DEF addRoom, ModifyRoom, DeleteRoom, AnswerTypes
  <2>2. SameConnections
        BY <2>1, ConnectionsSame
  <2>3. \/ \E id \in Rooms :
              Does(Sql(insertRoom(id, c)) \o Reply(fd, "createSuccess")) /\ c \in Nat
        \/ /\ Does(Sql(modifyRoom(r, c)) \o Reply(fd, "modifySuccess"))
           /\ r \in DOMAIN roomMap /\ c \in Nat
        \/ /\ Does(Sql(deleteRoom(roomMap[r].roomID)) \o Reply(fd, "deleteSuccess"))
           /\ r \in DOMAIN roomMap
    <3>1. r \in Rooms => ReadBack[r] \subseteq Rooms
          BY ReadBackAssumption
    <3>. QED  BY <1>2, <3>1 DEF addRoom, ModifyRoom, DeleteRoom, AnswerTypes,
                  MayModifyRoom, MayDeleteRoom
  <2>4. ASSUME NEW x \in DOMAIN roomMap
        PROVE  x \in Rooms /\ roomMap[x].roomID \in Rooms
    <3>1. x \in Rooms /\ roomMap[x] \in RoomRecords
          BY MemoryTypes, MapValue
    <3>. QED  BY <3>1 DEF RoomRecords
  <2>. QED  BY <2>2, <2>3, <2>4, StatementHandled, RoomStatementTypes
            DEF AnswerTypes
<1>. QED  BY <1>1, <1>2

-----------------------------------------------------------------------------
(* The invariant of the login.  A connection is in one of two states, told *)
(* by flag_l of the process at its end: In, the server has accepted a      *)
(* login on it, or Out.  Between the two the answer of the server is on    *)
(* its way (LoginTold, LoginRefused).  A process that is not logged in     *)
(* sends nothing but a login and waits for the answer; what could go wrong *)
(* is that something else wakes it, so that it sends another: nothing is   *)
(* written to a connection nobody is online on (Quiet).                    *)

\* A call that writes to c.
Reaches(call, c) ==
    \/ call.op = "write" /\ c \in call.fds
    \/ call.op = "replay" /\ call.fd = c

Quiet(l, c) == \A call \in CallsIn(l) : ~Reaches(call, c)

\* The places of the logins among the packages not read yet.
Logins(q) == {i \in 1..Len(q) : q[i].type = "loginn"}

Over(c) == On(mapuser, c) = {} /\ queue[c] = <<>> /\ sock[c] # "open"

\* A call is made on the connection of the user it is about, and only a
\* connection that is over is closed.
Addresses(call) ==
    /\ call.op = "write" => \A d \in call.fds :
          /\ call.pk.type = "loginSuccess" => call.pk.user \in On(mapuser, d)
          /\ call.pk.id # 0 => chats[call.pk.id].to \in On(mapuser, d)
    /\ call.op = "replay" => call.user \in On(mapuser, call.fd)
    /\ call.op = "close" => Over(call.fd)

Addressed == \A call \in CallsIn(todo) : Addresses(call)

TellsLogin(l, c) ==
    /\ l # <<>> /\ Head(l).op = "write" /\ Head(l).fds = {c}
    /\ Head(l).pk.type = "loginSuccess"

LoginTold(c) == TellsLogin(todo, c)

LoginRefused(c) == On(mapuser, c) = {} /\ todo = Reply(c, "loginFail")

\* Who is at the two ends of connection c.
Held(c) ==
    /\ sock[c] = "free" => On(mapuser, c) = {} /\ queue[c] = <<>>
    /\ client[c].alive => sock[c] \in {"free", "open"}
    /\ sock[c] = "open" => client[c].alive
    /\ \A u, v \in On(mapuser, c) : u = v
    /\ \A i, j \in Logins(queue[c]) : i = j
    /\ Logins(queue[c]) # {} => On(mapuser, c) = {}
    /\ IF client[c].flag_l THEN client[c].at # "login"
                           ELSE client[c].at \in {"login", "sent", "wait"}

\* Its process has been told of a login; a new connection repeats it.
In(c) ==
    /\ client[c].relogin => On(mapuser, c) = {} /\ Logins(queue[c]) = {}
    /\ On(mapuser, c) # {} => LoginTold(c) \/ client[c].user \in On(mapuser, c)

\* Its process has not.
Out(c) ==
    /\ ~client[c].relogin
    /\ \A i \in 1..Len(queue[c]) : queue[c][i].type = "loginn"
    /\ \/ /\ LoginTold(c) \/ LoginRefused(c)
          /\ client[c].at \in {"sent", "wait"} /\ queue[c] = <<>>
       \/ /\ On(mapuser, c) = {} /\ Quiet(todo, c)
          /\ client[c].at = "login" => queue[c] = <<>>

Talks(c) ==
    sock[c] = "open" => (IF client[c].flag_l THEN In(c) ELSE Out(c))

LoginInv ==
    /\ ~up => todo = <<>>
    /\ Addressed
    /\ \A c \in Fds : Held(c) /\ Talks(c)

LEMMA FlagsLogin ==
    ASSUME NEW p \in KnownClients, NEW pk \in AnswerPackages
    PROVE  LET q == Flags(p, pk)
           IN  /\ q.at = p.at /\ q.alive = p.alive /\ q.relogin = p.relogin
               /\ pk.type # "loginSuccess" => SameLogin(q, p)
               /\ pk.type = "loginSuccess" => q.flag_l /\ q.user = pk.user
<1>. p \in Clients
     BY DEF KnownClients
<1>1. CASE pk.type = "loginSuccess"
  <2>1. Flags(p, pk) = KeepLogin(p, pk)
        BY <1>1 DEF Flags
  <2>. QED  BY <1>1, <2>1 DEF KeepLogin, Clients
<1>2. CASE pk.type # "loginSuccess"
  <2>1. EndChat(p) \in Clients /\ SameLogin(EndChat(p), p) /\ EndChat(p).at = p.at
        BY DEF EndChat, SameLogin, Clients
  <2>2. ASSUME NEW e \in Clients, SameLogin(e, p), e.at = p.at
        PROVE  /\ SameLogin([e EXCEPT !.flag_j = TRUE], p)
               /\ [e EXCEPT !.flag_j = TRUE].at = p.at
               /\ \A b : /\ SameLogin([e EXCEPT !.flag_w_online = b], p)
                         /\ [e EXCEPT !.flag_w_online = b].at = p.at
               /\ \A b : LET f == [e EXCEPT !.flag_w = TRUE, !.flag_w_online = b]
                         IN  SameLogin(f, p) /\ f.at = p.at
        BY <2>2 DEF SameLogin, Clients
  <2>3. SameLogin(p, p)
        BY DEF SameLogin
  <2>4. SameLogin(Flags(p, pk), p) /\ Flags(p, pk).at = p.at
        BY <1>2, <2>1, <2>2, <2>3 DEF Flags
  <2>. QED  BY <1>2, <2>4 DEF SameLogin
<1>. QED  BY <1>1, <1>2

\* A process after a package of the server.
LEMMA ReceiverLogin ==
    ASSUME NEW p \in KnownClients, NEW pk \in AnswerPackages,
           NEW q \in receiverHandler(p, pk)
    PROVE  /\ q.alive = p.alive /\ q.relogin = p.relogin
           /\ pk.type # "loginSuccess" => SameLogin(q, p)
           /\ pk.type = "loginSuccess" => q.flag_l /\ q.user = pk.user
           /\ \/ q.at = p.at
              \/ p.at = "wait" /\ q.at \in {"login", "command", "with", "room"}
                 /\ (q.at = "login" <=> ~q.flag_l)
           /\ pk.type \in {"loginSuccess", "loginFail"} => q.at # "wait"
<1>. DEFINE f == Flags(p, pk)
<1>1. f \in KnownClients
      BY FlagsType
<1>2. /\ f.at = p.at /\ f.alive = p.alive /\ f.relogin = p.relogin
      /\ pk.type # "loginSuccess" => SameLogin(f, p)
      /\ pk.type = "loginSuccess" => f.flag_l /\ f.user = pk.user
      BY FlagsLogin
<1>3. q = f \/ q = Signal(f)
      BY DEF receiverHandler
<1>4. pk.type \in {"loginSuccess", "loginFail"} => q = Signal(f)
      BY DEF receiverHandler, Signals
<1>. HIDE DEF f
<1>5. CASE q = Signal(f) /\ f.at = "wait"
  <2>1. q = Proceed(f)
        BY <1>5 DEF Signal
  <2>2. /\ SameLogin(q, f) /\ q.at \in {"login", "command", "with", "room"}
        /\ q.at = "login" <=> ~f.flag_l
        BY <1>1, <2>1, ProceedType DEF Prompts
  <2>3. q.at = "login" <=> ~q.flag_l
        BY <2>2 DEF SameLogin
  <2>4. q.at # "wait" /\ p.at = "wait"
        BY <1>2, <1>5, <2>2
  <2>5. /\ q.alive = p.alive /\ q.relogin = p.relogin
        /\ pk.type # "loginSuccess" => SameLogin(q, p)
        /\ pk.type = "loginSuccess" => q.flag_l /\ q.user = pk.user
        BY <1>2, <2>2 DEF SameLogin
  <2>. QED  BY <2>2, <2>3, <2>4, <2>5
<1>6. CASE q = f /\ (pk.type \in {"loginSuccess", "loginFail"} => f.at # "wait")
      BY <1>2, <1>6
<1>. QED  BY <1>3, <1>4, <1>5, <1>6 DEF Signal

LEMMA CallInTypes ==
    ASSUME TypeOK, NEW call \in CallsIn(todo)
    PROVE  call \in Calls /\ (call.op = "close" => call.fd \in Fds)
<1>1. call \in Calls
      BY DEF TypeOK, CallsIn
<1>. QED  BY <1>1, CallKinds DEF Closes

\* A step of one connection: the others are left as they are.
LEMMA OneSlot ==
    ASSUME TypeOK, LoginInv, NEW c \in Fds,
           UNCHANGED <<up, mapuser, todo, chats>>,
           \A d \in Fds : d # c =>
               /\ client'[d] = client[d] /\ queue'[d] = queue[d]
               /\ sock'[d] = sock[d],
           todo # <<>> /\ Over(c) => Over(c)', (Held(c) /\ Talks(c))'
    PROVE  LoginInv'
<1>1. ASSUME NEW d \in Fds, d # c
      PROVE  /\ Over(d) => Over(d)'
             /\ (Held(d) /\ Talks(d))'
  <2>1. Held(d) /\ Talks(d)
        BY DEF LoginInv
  <2>2. client'[d] = client[d] /\ queue'[d] = queue[d] /\ sock'[d] = sock[d]
        BY <1>1
  <2>. QED  BY <2>1, <2>2 DEF Over, Held, Talks, In, Out, LoginTold, LoginRefused
<1>2. Addressed'
  <2>1. \A d \in Fds : todo # <<>> /\ Over(d) => Over(d)'
        BY <1>1
  <2>2. ASSUME NEW call \in CallsIn(todo)
        PROVE  Addresses(call)'
    <3>1. Addresses(call) /\ (call.op = "close" => call.fd \in Fds)
          BY CallInTypes DEF LoginInv, Addressed
    <3>2. todo # <<>>
          BY CallsInNone
    <3>. QED  BY <2>1, <3>1, <3>2 DEF Addresses
  <2>. QED  BY <2>2 DEF Addressed
<1>3. (~up => todo = <<>>)'
      BY DEF LoginInv
<1>. QED  BY <1>1, <1>2, <1>3 DEF LoginInv

LEMMA LoginsSent ==
    ASSUME NEW q \in Seq(Packages), NEW pk \in Packages
    PROVE  /\ Len(Append(q, pk)) = Len(q) + 1
           /\ \A i \in 1..Len(q) : Append(q, pk)[i] = q[i]
           /\ Append(q, pk)[Len(q) + 1] = pk
           /\ pk.type # "loginn" => Logins(Append(q, pk)) = Logins(q)
           /\ Logins(q) = {} => Logins(Append(q, pk)) \subseteq {Len(q) + 1}
<1>1. Len(Append(q, pk)) = Len(q) + 1 /\ Len(q) \in Nat
      OBVIOUS
<1>2. /\ \A i \in 1..Len(q) : Append(q, pk)[i] = q[i]
      /\ Append(q, pk)[Len(q) + 1] = pk
      OBVIOUS
<1>. DEFINE r == Append(q, pk)
<1>. HIDE DEF r
<1>3. \A i \in 1..Len(r) : i \in 1..Len(q) \/ i = Len(q) + 1
      BY <1>1 DEF r
<1>. QED  BY <1>1, <1>2, <1>3 DEF Logins, r

LEMMA NoLogins == Logins(<<>>) = {}
BY DEF Logins

\* A user types a line: a login, if the process is not logged in.
LEMMA TypeKeepsLogin ==
    ASSUME TypeOK, ClientInv, LoginInv, NEW c \in Fds, Type(c)
    PROVE  LoginInv'
<1>1. /\ sock[c] = "open" /\ UNCHANGED vars
      /\ client[c] \in KnownClients /\ queue[c] \in Seq(Packages)
      BY DEF Type, server, ClientInv
<1>2. PICK pk \in Packages : Line(c, pk)
      BY DEF Type
<1>3. Handler(c, pk) /\ Sends(c, pk)
      BY <1>2 DEF Line
<1>4. /\ queue'[c] = Append(queue[c], pk)
      /\ \A d \in Fds : d # c => queue'[d] = queue[d]
      BY <1>1, <1>3 DEF Sends, ClientInv
<1>5. PICK p \in KnownClients :
         Good(p, client[c]) /\ client' = [client EXCEPT ![c] = p]
      BY <1>3, LineIsStep DEF MainSteps
<1>6. IF pk.type = "loginn"
      THEN /\ client[c].at = "login"
           /\ client' = [client EXCEPT ![c] = Sent(client[c])]
      ELSE client[c].at \in {"command", "with", "room"}
      BY <1>3 DEF Handler, loginHandler, MayLogin, commandHandler, MayCommand,
         UserCommands, AdminCommands, ChatLine, Back, At
<1>7. /\ SameLogin(client'[c], client[c])
      /\ client'[c].at # "login" \/ ~client'[c].flag_l
      /\ client'[c].at \in Places
      /\ \A d \in Fds : d # c => client'[d] = client[d]
      /\ pk.type = "loginn" => client'[c].at = "sent"
  <2>1. client'[c] = p /\ \A d \in Fds : d # c => client'[d] = client[d]
        BY <1>5 DEF ClientInv
  <2>2. p.at \in Places
        BY DEF KnownClients, Clients
  <2>3. pk.type = "loginn" => client'[c].at = "sent"
        BY <1>1, <1>6, SentType DEF ClientInv
  <2>. QED  BY <1>5, <2>1, <2>2, <2>3 DEF Good
<1>8. Held(c) /\ Talks(c)
      BY DEF LoginInv
<1>9. CASE pk.type = "loginn"
  <2>1. /\ client[c].at = "login" /\ ~client[c].flag_l
        /\ Out(c) /\ queue[c] = <<>> /\ On(mapuser, c) = {} /\ Quiet(todo, c)
        BY <1>1, <1>6, <1>8, <1>9 DEF Held, Talks, Out
  <2>2. /\ \A i \in 1..Len(queue'[c]) : queue'[c][i] = pk
        /\ \A i, j \in Logins(queue'[c]) : i = j
    <3>1. Len(queue'[c]) = 1 /\ queue'[c][1] = pk
          BY <1>4, <2>1
    <3>. QED  BY <3>1 DEF Logins
  <2>3. Held(c)'
        BY <1>1, <1>7, <1>8, <1>9, <2>1, <2>2 DEF Held, SameLogin, vars, memory, observed
  <2>4. Talks(c)'
        BY <1>1, <1>7, <1>9, <2>1, <2>2 DEF Talks, Out, SameLogin, vars, memory, observed
  <2>. QED  BY <1>1, <1>4, <1>7, <2>3, <2>4, OneSlot DEF Over, vars, memory, observed
<1>10. CASE pk.type # "loginn"
  <2>1. client[c].flag_l /\ In(c)
        BY <1>1, <1>6, <1>8, <1>10 DEF Held, Talks
  <2>2. Logins(queue'[c]) = Logins(queue[c])
        BY <1>1, <1>4, <1>10, LoginsSent
  <2>3. Held(c)'
        BY <1>1, <1>7, <1>8, <2>1, <2>2 DEF Held, SameLogin, vars, memory, observed
  <2>4. Talks(c)'
        BY <1>1, <1>7, <2>1, <2>2 DEF Talks, In, LoginTold, SameLogin, vars, memory, observed
  <2>. QED  BY <1>1, <1>4, <1>7, <2>3, <2>4, OneSlot DEF Over, vars, memory, observed
<1>. QED  BY <1>9, <1>10

\* A new connection is used by nobody until its process logs in.
LEMMA ConnectionKeepsLogin ==
    ASSUME TypeOK, ClientInv, LoginInv, NEW c \in Fds,
           Starts(c) \/ Reconnects(c)
    PROVE  LoginInv'
<1>1. /\ todo = <<>> /\ sock[c] = "free" /\ sock' = [sock EXCEPT ![c] = "open"]
      /\ UNCHANGED <<up, mapuser, todo, chats, queue>>
      BY DEF Starts, Reconnects, Connect, memory, observed, StartProcess,
             Reconnected
<1>2. /\ sock'[c] = "open"
      /\ \A d \in Fds : d # c => sock'[d] = sock[d]
      BY <1>1 DEF TypeOK
<1>3. Held(c) /\ On(mapuser, c) = {} /\ queue[c] = <<>>
      BY <1>1 DEF LoginInv, Held
<1>4. /\ client'[c].alive
      /\ \A d \in Fds : d # c => client'[d] = client[d]
      /\ client'[c].at # "login" \/ ~client'[c].flag_l
      /\ ~client'[c].flag_l =>
            /\ client'[c].at \in {"login", "sent", "wait"}
            /\ ~client'[c].relogin
  <2>1. client[c] \in Clients
        BY DEF ClientInv, KnownClients
  <2>2. CASE Starts(c)
        BY <2>2, FreshType DEF Starts, StartProcess, ClientInv, Fresh
  <2>3. CASE Reconnects(c)
    <3>1. /\ client[c].alive
          /\ client' = [client EXCEPT ![c] =
                           [client[c] EXCEPT !.relogin = client[c].flag_l]]
          BY <2>3 DEF Reconnects, Reconnected
    <3>2. /\ client'[c] = [client[c] EXCEPT !.relogin = client[c].flag_l]
          /\ \A d \in Fds : d # c => client'[d] = client[d]
          BY <3>1 DEF ClientInv
    <3>3. /\ client'[c].alive /\ client'[c].flag_l = client[c].flag_l
          /\ client'[c].at = client[c].at
          /\ client'[c].relogin = client[c].flag_l
          BY <2>1, <3>1, <3>2 DEF Clients
    <3>. QED  BY <1>3, <3>2, <3>3 DEF Held
  <2>. QED  BY <2>2, <2>3
<1>5. Held(c)'
      BY <1>1, <1>2, <1>3, <1>4, NoLogins DEF Held
<1>6. Talks(c)'
  <2>1. Quiet(<<>>, c)
        BY CallsInNone DEF Quiet
  <2>. QED  BY <1>1, <1>3, <1>4, <2>1, NoLogins DEF Talks, In, Out
<1>. QED  BY <1>1, <1>2, <1>4, <1>5, <1>6, OneSlot

\* A process ends, or the end of its connection is lost.
LEMMA EndKeepsLogin ==
    ASSUME TypeOK, ClientInv, LoginInv, NEW c \in Fds, Exits(c) \/ ResetBy(c)
    PROVE  LoginInv'
<1>1. Held(c) /\ Talks(c)
      BY DEF LoginInv
<1>2. CASE Exits(c)
  <2>1. /\ client[c].alive /\ client' = [client EXCEPT ![c] = NoClient]
        /\ UNCHANGED <<up, mapuser, todo, chats, queue>>
        /\ IF sock[c] = "open" THEN sock' = [sock EXCEPT ![c] = "closed"]
                               ELSE UNCHANGED sock
        BY <1>2 DEF Exits, ExitProcess, Hangup, server, vars, memory, observed
  <2>2. /\ client'[c] = NoClient /\ ~client'[c].alive
        /\ ~client'[c].flag_l /\ client'[c].at = "login"
        /\ \A d \in Fds : d # c =>
              client'[d] = client[d] /\ sock'[d] = sock[d]
        BY <2>1 DEF ClientInv, NoClient, Fresh, TypeOK
  <2>3. sock'[c] # "open" /\ (sock'[c] = "free" => sock[c] = "free")
        BY <1>1, <2>1 DEF Held, TypeOK
  <2>4. Held(c)' /\ Talks(c)'
        BY <1>1, <2>1, <2>2, <2>3 DEF Held, Talks
  <2>. QED  BY <2>1, <2>2, <2>3, <2>4, OneSlot DEF Over
<1>3. CASE ResetBy(c)
  <2>1. /\ sock[c] = "closed" /\ sock' = [sock EXCEPT ![c] = "reset"]
        /\ queue' = [queue EXCEPT ![c] = <<>>]
        /\ UNCHANGED <<up, mapuser, todo, chats, client>>
        BY <1>3 DEF ResetBy, Reset, memory, observed
  <2>2. /\ sock'[c] = "reset" /\ queue'[c] = <<>>
        /\ \A d \in Fds : d # c => queue'[d] = queue[d] /\ sock'[d] = sock[d]
        BY <2>1 DEF ClientInv, TypeOK
  <2>3. Held(c)' /\ Talks(c)'
        BY <1>1, <2>1, <2>2, NoLogins DEF Held, Talks
  <2>. QED  BY <2>1, <2>2, <2>3, OneSlot DEF Over
<1>. QED  BY <1>2, <1>3

\* The login repeated after a reconnection is the only one on its way.
LEMMA ReloginKeepsLogin ==
    ASSUME TypeOK, ClientInv, LoginInv, NEW c \in Fds, SendRelogin(c)
    PROVE  LoginInv'
<1>. DEFINE pk == [type |-> "loginn", user |-> client[c].user,
                   password |-> client[c].password]
<1>1. /\ sock[c] = "open" /\ UNCHANGED vars /\ client[c].relogin
      /\ client' = [client EXCEPT ![c] = [client[c] EXCEPT !.relogin = FALSE]]
      /\ Sends(c, pk) /\ client[c] \in Clients /\ queue[c] \in Seq(Packages)
      BY DEF SendRelogin, Relogin, server, ClientInv, KnownClients
<1>2. pk \in Packages /\ pk.type = "loginn"
      BY <1>1, ClientAssumption DEF ClientInv, KnownClients, Clients, Packages
<1>3. /\ queue'[c] = Append(queue[c], pk)
      /\ \A d \in Fds : d # c =>
            queue'[d] = queue[d] /\ client'[d] = client[d]
      BY <1>1 DEF Sends, ClientInv
<1>4. /\ client'[c].alive = client[c].alive /\ client'[c].at = client[c].at
      /\ client'[c].flag_l = client[c].flag_l
      /\ client'[c].user = client[c].user /\ ~client'[c].relogin
      BY <1>1 DEF Clients, ClientInv
<1>. HIDE DEF pk
<1>5. Held(c) /\ client[c].flag_l /\ In(c)
      BY <1>1 DEF LoginInv, Talks, Out
<1>6. On(mapuser, c) = {} /\ Logins(queue[c]) = {}
      BY <1>1, <1>5 DEF In
<1>7. \A i, j \in Logins(queue'[c]) : i = j
      BY <1>1, <1>2, <1>3, <1>6, LoginsSent
<1>8. Held(c)'
      BY <1>1, <1>4, <1>5, <1>6, <1>7 DEF Held, vars, memory, observed
<1>9. Talks(c)'
      BY <1>1, <1>4, <1>5, <1>6 DEF Talks, In, vars, memory, observed
<1>. QED  BY <1>1, <1>3, <1>8, <1>9, OneSlot DEF Over, vars, memory, observed

\* A line typed while the server is away.
LEMMA AwayKeepsLogin ==
    ASSUME TypeOK, ClientInv, LoginInv, NEW c \in Fds, TypeAway(c)
    PROVE  LoginInv'
<1>1. sock[c] = "free" /\ UNCHANGED vars /\ UNCHANGED queue
      BY DEF TypeAway, LineLost, server
<1>2. PICK p \in KnownClients :
         Good(p, client[c]) /\ client' = [client EXCEPT ![c] = p]
      BY LineIsStep DEF TypeAway, MainSteps
<1>3. client'[c] = p /\ \A d \in Fds : d # c => client'[d] = client[d]
      BY <1>2 DEF ClientInv
<1>4. Held(c)
      BY DEF LoginInv
<1>5. client[c].at \in {"login", "sent"} \/ client[c].flag_l
      BY <1>4 DEF Held, TypeAway, LineLost, Handler, loginHandler, MayLogin,
         commandHandler, MayCommand, ChatLine, Back, At
<1>6. Held(c)' /\ Talks(c)'
      BY <1>1, <1>2, <1>3, <1>4, <1>5 DEF Good, Held, Talks, SameLogin, vars, memory, observed
<1>. QED  BY <1>1, <1>3, <1>6, OneSlot DEF Over, vars, memory, observed

\* Main goes on to the wait.
LEMMA MainGoesKeepsLogin ==
    ASSUME TypeOK, ClientInv, LoginInv, NEW c \in Fds, MainGoes(c)
    PROVE  LoginInv'
<1>1. UNCHANGED vars /\ UNCHANGED queue
      BY DEF MainGoes, Goes, server
<1>2. PICK p \in KnownClients :
         Good(p, client[c]) /\ client' = [client EXCEPT ![c] = p]
      BY GoesIsStep DEF MainGoes, Goes, MainSteps
<1>3. client'[c] = p /\ \A d \in Fds : d # c => client'[d] = client[d]
      BY <1>2 DEF ClientInv
<1>4. Held(c) /\ Talks(c)
      BY DEF LoginInv
<1>5. client[c].at = "sent" \/ client[c].at = "break"
      BY DEF MainGoes, Goes, AfterBreak, CondWait, At
<1>6. client[c].flag_l \/ (client[c].at = "sent" /\ p.at \in {"sent", "wait"})
  <2>1. client[c].flag_l \/ client[c].at = "sent"
        BY <1>4, <1>5 DEF Held
  <2>2. client[c].at = "sent" => p.at # "login"
        BY <1>2 DEF Good, Prompts
  <2>. QED  BY <1>2, <2>1, <2>2 DEF Good, SameLogin
<1>7. Held(c)'
      BY <1>1, <1>2, <1>3, <1>4, <1>6 DEF Good, Held, SameLogin, vars, memory, observed
<1>8. Talks(c)'
  <2>1. ASSUME sock[c] = "open", client[c].flag_l
        PROVE  In(c)'
        BY <1>1, <1>2, <1>3, <1>4, <2>1
        DEF Talks, In, LoginTold, Good, SameLogin, vars, memory, observed
  <2>2. ASSUME sock[c] = "open", ~client[c].flag_l
        PROVE  Out(c)'
        BY <1>1, <1>2, <1>3, <1>4, <1>6, <2>2
        DEF Talks, Out, LoginTold, LoginRefused, Good, SameLogin, vars, memory, observed
  <2>. QED  BY <1>1, <1>2, <1>3, <2>1, <2>2 DEF Talks, Good, SameLogin, vars, memory, observed
<1>. QED  BY <1>1, <1>3, <1>7, <1>8, OneSlot DEF Over, vars, memory, observed

\* A server that starts finds nobody online.
LEMMA StartKeepsLogin ==
    ASSUME TypeOK, LoginInv, ServerStarts
    PROVE  LoginInv'
<1>1. /\ todo = <<>> /\ mapuser' = mapUser(db)
      /\ UNCHANGED <<todo, sock, client, queue>>
      BY DEF ServerStarts, Restart, LoginInv
<1>2. \A c \in Fds : On(mapuser', c) = {}
      BY <1>1, FdAssumption DEF mapUser, On
<1>3. ASSUME NEW c \in Fds
      PROVE  Held(c)' /\ Talks(c)'
  <2>1. Held(c) /\ Talks(c)
        BY DEF LoginInv
  <2>2. ~LoginTold(c) /\ ~LoginRefused(c)
        BY <1>1 DEF LoginTold, TellsLogin, LoginRefused, Reply, WriteAll
  <2>3. Held(c)'
        BY <1>1, <1>2, <1>3, <2>1 DEF Held
  <2>4. Talks(c)'
        BY <1>1, <1>2, <1>3, <2>1, <2>2 DEF Talks, In, Out, Quiet, Reaches
  <2>. QED  BY <2>3, <2>4
<1>4. Addressed'
      BY <1>1, CallsInNone DEF Addressed
<1>. QED  BY <1>1, <1>3, <1>4 DEF LoginInv

\* The end of the server is the end of every connection.
LEMMA LossKeepsLogin ==
    ASSUME ClientInv, LoginInv, Dies, ConnectionsLost
    PROVE  LoginInv'
<1>1. /\ todo' = <<>> /\ mapuser' = Empty
      /\ \A c \in Fds : sock'[c] = "free" /\ queue'[c] = <<>>
      BY DEF Dies, ConnectionsLost
<1>2. ASSUME NEW c \in Fds
      PROVE  Held(c)' /\ Talks(c)'
  <2>1. Held(c) /\ client[c] \in Clients
        BY DEF LoginInv, ClientInv, KnownClients
  <2>2. client'[c].at = client[c].at /\ client'[c].flag_l = client[c].flag_l
        BY <2>1 DEF ConnectionsLost, Clients
  <2>3. On(mapuser', c) = {}
        BY <1>1 DEF On, Empty
  <2>. QED  BY <1>1, <2>1, <2>2, <2>3, NoLogins DEF Held, Talks
<1>3. Addressed'
      BY <1>1, CallsInNone DEF Addressed
<1>. QED  BY <1>1, <1>2, <1>3 DEF LoginInv

\* A call that is no write: what it puts before the calls that are left goes
\* where the call itself goes.
LEMMA CallsGoOn ==
    ASSUME TypeOK, LoginInv, up, todo # <<>>, Head(todo).op # "write",
           UNCHANGED <<up, mapuser, chats, client, queue>>,
           \A d \in Fds : sock'[d] = sock[d] \/ (Over(d) /\ sock'[d] = "free"),
           \A call \in CallsIn(todo') :
              \/ call \in CallsIn(todo)
              \/ /\ Addresses(call) /\ call.op # "close"
                 /\ \A c \in Fds : Reaches(call, c) => ~Quiet(todo, c)
    PROVE  LoginInv'
<1>1. \A d \in Fds : Over(d) => Over(d)'
      BY DEF Over
<1>2. ASSUME NEW call \in CallsIn(todo')
      PROVE  Addresses(call)'
  <2>1. Addresses(call)
        BY DEF LoginInv, Addressed
  <2>2. call.op = "close" => call.fd \in Fds
        BY CallInTypes
  <2>. QED  BY <1>1, <2>1, <2>2 DEF Addresses
<1>3. ASSUME NEW c \in Fds
      PROVE  Held(c)' /\ Talks(c)'
  <2>1. Held(c) /\ Talks(c)
        BY DEF LoginInv
  <2>2. ~LoginTold(c) /\ ~LoginRefused(c)
    <3>1. LoginRefused(c) => Head(todo).op = "write"
          BY DEF LoginRefused, Reply, WriteAll
    <3>. QED  BY <3>1 DEF LoginTold, TellsLogin
  <2>3. Quiet(todo, c) => Quiet(todo, c)'
        BY DEF Quiet
  <2>4. Held(c)'
        BY <2>1 DEF Held, Over
  <2>5. Talks(c)'
        BY <2>1, <2>2, <2>3 DEF Talks, In, Out
  <2>. QED  BY <2>4, <2>5
<1>. QED  BY <1>2, <1>3 DEF LoginInv, Addressed

\* The loop of handleOfflineMessage writes to the connection of its user.
LEMMA ReplayKeepsLogin ==
    ASSUME TypeOK, RowsAreChats, LoginInv,
           ReplayRow \/ ReplayEnd \/ ReplayJunk, UNCHANGED <<client, queue>>
    PROVE  LoginInv'
<1>. DEFINE c == Head(todo)
<1>1. /\ up /\ todo # <<>> /\ c.op = "replay" /\ todo \in Seq(Calls)
      /\ UNCHANGED <<up, mapuser, chats, sock>>
      BY DEF ReplayRow, ReplayEnd, ReplayJunk, Calling, memory, observed, TypeOK
<1>2. /\ c \in Replays /\ c.fd \in Fds /\ c.user \in Users
      /\ Tail(todo) \in Seq(Calls) /\ c \in CallsIn(todo)
      /\ CallsIn(Tail(todo)) \subseteq CallsIn(todo)
      BY <1>1, CallsInTail, CallKinds DEF Replays
<1>3. c.user \in On(mapuser, c.fd)
      BY <1>1, <1>2 DEF LoginInv, Addressed, Addresses
<1>4. ~Quiet(todo, c.fd)
      BY <1>1, <1>2 DEF Quiet, Reaches
<1>5. CASE ReplayRow
  <2>1. PICK row \in NextRow(c) :
           todo' = WriteAll({c.fd}, ChatAnswer(row.id))
                   \o <<[c EXCEPT !.after = row.id]>> \o Tail(todo)
        BY <1>5 DEF ReplayRow
  <2>. DEFINE next == [c EXCEPT !.after = row.id]
              write == [op |-> "write", fds |-> {c.fd}, pk |-> ChatAnswer(row.id)]
  <2>2. row \in db.messages /\ row.receiver = c.user /\ row.id \in Nat
    <3>1. row \in db.messages /\ row.receiver = c.user
          BY DEF NextRow, Rest, getMessageOfUser
    <3>. QED  BY <3>1, MemoryTypes DEF IsDatabase, MessageRows
  <2>3. /\ next \in Calls /\ next.op = "replay" /\ next.user = c.user
        /\ next.fd = c.fd
        BY <1>1, <1>2, <2>2 DEF Replays, Calls
  <2>4. /\ write \in Calls /\ write.op = "write" /\ write.pk.id = row.id
        /\ write.fds = {c.fd} /\ write.pk.type = "sendMess"
        BY <1>2, <2>2, ChatAnswerType DEF Calls, Writes, ChatAnswer, Answer
  <2>5. WriteAll({c.fd}, ChatAnswer(row.id)) = <<write>>
        BY DEF WriteAll
  <2>. HIDE DEF next, write, c
  <2>6. CallsIn(todo') = {write, next} \cup CallsIn(Tail(todo))
    <3>1. <<write>> \in Seq(Calls) /\ <<next>> \in Seq(Calls)
          BY <2>3, <2>4, OneCallType
    <3>2. <<write>> \o <<next>> \in Seq(Calls)
          BY <3>1, TwoListsType
    <3>3. CallsIn(<<write>> \o <<next>>) = {write, next}
          BY <3>1, CallsInConcat, CallsInOne
    <3>4. todo' = <<write>> \o <<next>> \o Tail(todo)
          BY <2>1, <2>5 DEF next
    <3>. QED  BY <1>2, <3>2, <3>3, <3>4, CallsInConcat
  <2>7. Addresses(write)
        BY <1>3, <2>2, <2>4 DEF Addresses, RowsAreChats
  <2>8. Addresses(next)
        BY <1>3, <2>3 DEF Addresses
  <2>9. /\ \A d : Reaches(write, d) => d = c.fd
        /\ \A d : Reaches(next, d) => d = c.fd
        /\ write.op # "close" /\ next.op # "close"
        BY <2>3, <2>4 DEF Reaches
  <2>. QED  BY <1>1, <1>2, <1>4, <2>6, <2>7, <2>8, <2>9, CallsGoOn DEF c
<1>6. CASE ReplayEnd
  <2>1. todo' = Tail(todo)
        BY <1>6 DEF ReplayEnd
  <2>. QED  BY <1>1, <1>2, <2>1, CallsGoOn
<1>7. CASE ReplayJunk
  <2>. DEFINE write == [op |-> "write", fds |-> {c.fd}, pk |-> Answer("sendMess")]
  <2>1. todo' = <<write>> \o todo
        BY <1>7 DEF ReplayJunk, Reply, WriteAll
  <2>2. /\ write \in Calls /\ write.op = "write" /\ write.fds = {c.fd}
        /\ write.pk.id = 0 /\ write.pk.type = "sendMess"
        BY <1>2, AnswerTypeOK DEF Calls, Writes, AnswerTypes, Answer
  <2>. HIDE DEF write, c
  <2>3. CallsIn(todo') = {write} \cup CallsIn(todo)
    <3>1. <<write>> \in Seq(Calls) /\ CallsIn(<<write>>) = {write}
          BY <2>2, OneCallType, CallsInOne
    <3>. QED  BY <1>1, <2>1, <3>1, CallsInConcat
  <2>4. Addresses(write) /\ (\A d : Reaches(write, d) => d = c.fd)
        BY <2>2 DEF Addresses, Reaches
  <2>. QED  BY <1>1, <1>4, <2>2, <2>3, <2>4, CallsGoOn DEF c
<1>. QED  BY <1>5, <1>6, <1>7

\* A statement is accepted, or the server ends.
LEMMA ExecuteKeepsLogin ==
    ASSUME TypeOK, ClientInv, LoginInv, Execute,
           IF up' THEN UNCHANGED <<client, queue>> ELSE ConnectionsLost
    PROVE  LoginInv'
<1>1. /\ up /\ todo # <<>> /\ Head(todo).op = "sql" /\ todo \in Seq(Calls)
      /\ chats' = chats
      BY DEF Execute, Calling, observed, TypeOK
<1>2. CASE Rejected(db, Head(todo).stmt)
      BY <1>2, LossKeepsLogin DEF Execute, Dies
<1>3. CASE ~Rejected(db, Head(todo).stmt)
  <2>1. /\ todo' = Tail(todo)
        /\ UNCHANGED <<up, mapuser, sock, client, queue>>
        BY <1>1, <1>3 DEF Execute, memory
  <2>2. CallsIn(Tail(todo)) \subseteq CallsIn(todo)
        BY <1>1, CallsInTail
  <2>. QED  BY <1>1, <2>1, <2>2, CallsGoOn
<1>. QED  BY <1>2, <1>3

LEMMA CloseKeepsLogin ==
    ASSUME TypeOK, LoginInv, Close, UNCHANGED <<client, queue>>
    PROVE  LoginInv'
<1>1. /\ up /\ todo # <<>> /\ Head(todo).op = "close" /\ todo \in Seq(Calls)
      /\ sock' = [sock EXCEPT ![Head(todo).fd] = "free"] /\ todo' = Tail(todo)
      /\ UNCHANGED <<up, mapuser, chats>>
      BY DEF Close, Calling, memory, observed, TypeOK
<1>2. /\ CallsIn(Tail(todo)) \subseteq CallsIn(todo)
      /\ Head(todo) \in CallsIn(todo)
      BY <1>1, CallsInTail
<1>3. Over(Head(todo).fd)
      BY <1>1, <1>2 DEF LoginInv, Addressed, Addresses
<1>4. \A d \in Fds : sock'[d] = sock[d] \/ (Over(d) /\ sock'[d] = "free")
      BY <1>1, <1>3 DEF TypeOK
<1>. QED  BY <1>1, <1>2, <1>4, CallsGoOn

\* The calls that are left after one write.
LEMMA CallsAfterWrite ==
    ASSUME TypeOK, NEW c \in Fds, Write(c)
    PROVE  /\ Head(todo) \in Writes /\ Head(todo) \in CallsIn(todo)
           /\ Head(todo).pk \in AnswerPackages /\ c \in Head(todo).fds
           /\ todo' \in Seq(Calls)
           /\ \A call \in CallsIn(todo') :
                 \/ call \in CallsIn(todo)
                 \/ call = [Head(todo) EXCEPT !.fds = @ \ {c}]
<1>. DEFINE w == Head(todo)
            less == [w EXCEPT !.fds = @ \ {c}]
            first == IF w.fds = {c} THEN <<>> ELSE <<less>>
<1>1. /\ todo # <<>> /\ w.op = "write" /\ todo \in Seq(Calls) /\ c \in w.fds
      /\ todo' = first \o Tail(todo)
      BY DEF Write, Calling, AfterWrite, TypeOK
<1>2. /\ w \in Writes /\ w \in CallsIn(todo) /\ Tail(todo) \in Seq(Calls)
      /\ CallsIn(Tail(todo)) \subseteq CallsIn(todo)
      BY <1>1, CallsInTail, CallKinds
<1>3. less \in Calls
      BY <1>2 DEF Writes, Calls
<1>. HIDE DEF less
<1>4. first \in Seq(Calls) /\ CallsIn(first) \subseteq {less}
      BY <1>3, NoCallType, OneCallType, CallsInOne, CallsInNone
<1>. HIDE DEF first
<1>5. todo' \in Seq(Calls) /\ CallsIn(todo') = CallsIn(first) \cup CallsIn(Tail(todo))
      BY <1>1, <1>2, <1>4, CallsInConcat, TwoListsType
<1>. QED  BY <1>1, <1>2, <1>4, <1>5 DEF less, Writes

\* The answer to a login makes its process one that is logged in, or lets it
\* try again; no other package does.
LEMMA WriteKeepsLogin ==
    ASSUME TypeOK, ClientInv, LoginInv, NEW c \in Fds, ServerWrites(c)
    PROVE  LoginInv'
<1>. DEFINE w == Head(todo)
            pk == w.pk
            p == client[c]
            q == client'[c]
<1>1. /\ up /\ todo # <<>> /\ w.op = "write"
      /\ UNCHANGED <<up, mapuser, chats, sock, queue>>
      BY DEF ServerWrites, Write, Calling, memory
<1>2. /\ w \in Writes /\ w \in CallsIn(todo) /\ pk \in AnswerPackages
      /\ c \in w.fds
      /\ \A call \in CallsIn(todo') :
            call \in CallsIn(todo) \/ call = [w EXCEPT !.fds = @ \ {c}]
      BY CallsAfterWrite DEF ServerWrites
<1>3. Addresses(w) /\ Held(c) /\ Talks(c) /\ p \in KnownClients
      BY <1>2 DEF LoginInv, Addressed, ClientInv
<1>4. Addressed'
  <2>1. ASSUME NEW call \in CallsIn(todo')
        PROVE  Addresses(call)
    <3>1. CASE call \in CallsIn(todo)
          BY <3>1 DEF LoginInv, Addressed
    <3>2. CASE call = [w EXCEPT !.fds = @ \ {c}]
      <4>1. /\ call.op = "write" /\ call.pk = pk
            /\ call.fds \subseteq w.fds
            BY <1>1, <1>2, <3>2 DEF Writes
      <4>. QED  BY <1>1, <1>3, <4>1 DEF Addresses
    <3>. QED  BY <1>2, <3>1, <3>2
  <2>. QED  BY <1>1, <2>1 DEF Addressed, Addresses, Over
<1>5. ASSUME NEW d \in Fds, Quiet(todo, d)
      PROVE  Quiet(todo, d)'
  <2>1. \A call \in CallsIn(todo') : ~Reaches(call, d)
        BY <1>1, <1>2, <1>5 DEF Quiet, Reaches, Writes
  <2>. QED  BY <2>1 DEF Quiet
<1>6. ASSUME NEW d \in Fds, d # c
      PROVE  Held(d)' /\ Talks(d)'
  <2>1. Held(d) /\ Talks(d) /\ client'[d] = client[d]
        BY <1>6 DEF LoginInv, ServerWrites, ClientInv
  <2>2. ~LoginTold(d) /\ ~LoginRefused(d)
    <3>1. LoginRefused(d) => w.fds = {d}
          BY DEF LoginRefused, Reply, WriteAll
    <3>. QED  BY <1>2, <1>6, <3>1 DEF LoginTold, TellsLogin
  <2>3. Held(d)'
        BY <1>1, <2>1 DEF Held
  <2>4. Talks(d)'
        BY <1>1, <1>5, <2>1, <2>2 DEF Talks, In, Out
  <2>. QED  BY <2>3, <2>4
<1>7. CASE sock[c] # "open"
  <2>1. UNCHANGED client
        BY <1>7 DEF ServerWrites
  <2>2. Held(c)' /\ Talks(c)'
        BY <1>1, <1>3, <1>7, <2>1 DEF Held, Talks
  <2>. QED  BY <1>1, <1>4, <1>6, <2>2 DEF LoginInv
<1>8. CASE sock[c] = "open"
  <2>1. q \in receiverHandler(p, pk)
        BY <1>8 DEF ServerWrites, ClientInv
  <2>2. /\ q.alive = p.alive /\ q.relogin = p.relogin
        /\ pk.type # "loginSuccess" => SameLogin(q, p)
        /\ pk.type = "loginSuccess" => q.flag_l /\ q.user = pk.user
        /\ \/ q.at = p.at
           \/ p.at = "wait" /\ q.at \in {"login", "command", "with", "room"}
              /\ (q.at = "login" <=> ~q.flag_l)
        /\ pk.type \in {"loginSuccess", "loginFail"} => q.at # "wait"
        BY <1>2, <1>3, <2>1, ReceiverLogin
  <2>3. pk.type = "loginSuccess" => q.user \in On(mapuser, c)
        BY <1>1, <1>2, <1>3, <2>2 DEF Addresses
  <2>4. CASE p.flag_l
    <3>1. In(c) /\ p.at # "login"
          BY <1>3, <1>8, <2>4 DEF Talks, Held
    <3>2. q.flag_l
          BY <2>2, <2>4 DEF SameLogin
    <3>3. q.at # "login"
          BY <2>2, <3>1, <3>2
    <3>4. On(mapuser, c) # {} => q.user \in On(mapuser, c)
          BY <2>2, <2>3, <3>1 DEF In, LoginTold, TellsLogin, SameLogin
    <3>5. Held(c)'
          BY <1>1, <1>3, <2>2, <3>2, <3>3 DEF Held
    <3>6. Talks(c)'
          BY <1>1, <2>2, <3>1, <3>2, <3>4 DEF Talks, In
    <3>. QED  BY <1>1, <1>4, <1>6, <3>5, <3>6 DEF LoginInv
  <2>5. CASE ~p.flag_l
    <3>1. Out(c) /\ ~Quiet(todo, c)
          BY <1>1, <1>2, <1>3, <1>8, <2>5 DEF Talks, Quiet, Reaches
    <3>2. /\ LoginTold(c) \/ LoginRefused(c)
          /\ p.at \in {"sent", "wait"} /\ queue[c] = <<>> /\ ~p.relogin
          BY <3>1 DEF Out
    <3>3. CASE LoginTold(c)
      <4>1. q.flag_l /\ q.at # "login" /\ ~q.relogin /\ q.user \in On(mapuser, c)
            BY <2>2, <2>3, <3>2, <3>3 DEF LoginTold, TellsLogin
      <4>2. Held(c)'
            BY <1>1, <1>3, <2>2, <4>1 DEF Held
      <4>3. Talks(c)'
            BY <1>1, <4>1 DEF Talks, In
      <4>. QED  BY <1>1, <1>4, <1>6, <4>2, <4>3 DEF LoginInv
    <3>4. CASE LoginRefused(c)
      <4>1. /\ todo = Reply(c, "loginFail") /\ On(mapuser, c) = {}
            /\ pk.type = "loginFail" /\ w.fds = {c} /\ Tail(todo) = <<>>
            BY <3>4 DEF LoginRefused, Reply, WriteAll, Answer
      <4>2. todo' = <<>>
        <5>1. todo' = <<>> \o <<>>
              BY <4>1 DEF ServerWrites, Write, AfterWrite
        <5>. QED  BY <5>1, NoCallType, ConcatEmptySeq
      <4>3. ~q.flag_l /\ q.at \in {"login", "sent"} /\ ~q.relogin
            BY <2>2, <2>5, <3>2, <4>1 DEF SameLogin
      <4>4. Held(c)'
            BY <1>1, <1>3, <2>2, <4>3 DEF Held
      <4>5. Quiet(<<>>, c)
            BY CallsInNone DEF Quiet
      <4>6. Talks(c)'
            BY <1>1, <3>2, <4>1, <4>2, <4>3, <4>5 DEF Talks, Out
      <4>. QED  BY <1>1, <1>4, <1>6, <4>4, <4>6 DEF LoginInv
    <3>. QED  BY <3>2, <3>3, <3>4
  <2>. QED  BY <2>4, <2>5
<1>. QED  BY <1>7, <1>8

LEMMA LoginsRead ==
    ASSUME NEW q \in Seq(Packages), q # <<>>, \A i, j \in Logins(q) : i = j
    PROVE  /\ Head(q) \in Packages
           /\ \A i, j \in Logins(Tail(q)) : i = j
           /\ Logins(Tail(q)) # {} => Logins(q) # {}
           /\ Head(q).type = "loginn" => Logins(q) # {} /\ Logins(Tail(q)) = {}
           /\ (\A i \in 1..Len(q) : q[i].type = "loginn") =>
                 Head(q).type = "loginn" /\ Tail(q) = <<>>
<1>1. /\ Len(q) \in Nat /\ Len(q) > 0 /\ Head(q) = q[1] /\ Head(q) \in Packages
      /\ Tail(q) \in Seq(Packages) /\ Len(Tail(q)) = Len(q) - 1
      OBVIOUS
<1>2. ASSUME NEW i \in 1..Len(Tail(q))
      PROVE  i + 1 \in 1..Len(q) /\ Tail(q)[i] = q[i + 1]
      BY <1>1
<1>3. \A i \in Logins(Tail(q)) : i + 1 \in Logins(q) /\ i \in Nat
      BY <1>1, <1>2 DEF Logins
<1>4. Head(q).type = "loginn" => 1 \in Logins(q)
      BY <1>1 DEF Logins
<1>5. ASSUME NEW i \in Logins(Tail(q)), NEW j \in Logins(Tail(q))
      PROVE  i = j
  <2>1. i + 1 = j + 1
        BY <1>3
  <2>. QED  BY <1>3, <2>1
<1>6. ASSUME Head(q).type = "loginn", NEW i \in Logins(Tail(q))
      PROVE  FALSE
  <2>1. i + 1 = 1 /\ i \in Nat /\ i # 0
    <3>1. i + 1 = 1 /\ i \in Nat
          BY <1>3, <1>4, <1>6
    <3>2. i # 0
          BY <1>1, <1>6 DEF Logins
    <3>. QED  BY <3>1, <3>2
  <2>. QED  BY <2>1
<1>7. ASSUME \A i \in 1..Len(q) : q[i].type = "loginn"
      PROVE  Head(q).type = "loginn" /\ Tail(q) = <<>>
  <2>1. Head(q).type = "loginn"
        BY <1>1, <1>7
  <2>2. Logins(Tail(q)) = {}
        BY <1>6, <2>1
  <2>3. \A i \in 1..Len(Tail(q)) : i \in Logins(Tail(q))
        BY <1>2, <1>7 DEF Logins
  <2>4. ~(1 \in 1..Len(Tail(q)))
        BY <2>2, <2>3
  <2>5. Len(Tail(q)) = 0
        BY <1>1, <2>4
  <2>6. \A s \in Seq(Packages) : Len(s) = 0 => s = <<>>
        OBVIOUS
  <2>. QED  BY <1>1, <2>1, <2>5, <2>6
<1>. QED  BY <1>1, <1>3, <1>4, <1>5, <1>6, <1>7

\* Every handler but an accepted login leaves the connections of the users.
LEMMA ReceiveHandled ==
    ASSUME TypeOK, Listed, NEW fd \in Fds, NEW p \in Packages,
           analyzePackage(fd, p),
           p.type = "loginn" => ~LoginAccepted(p.user, p.password)
    PROVE  /\ Handled(fd)
           /\ p.type = "loginn" => todo' = Reply(fd, "loginFail")
<1>1. CASE ~checkfd(fd) /\ p.type # "loginn"
      BY <1>1, AnswersHandled DEF analyzePackage, Refuse, AnswerTypes
<1>2. CASE p.type = "loginn" /\ Login(fd, p.user, p.password)
  <2>1. Answers(fd, "loginFail")
        BY <1>2 DEF Login
  <2>. QED  BY <2>1, AnswersHandled DEF AnswerTypes, Answers, Does
<1>3. CASE checkfd(fd) /\ p.type = "withh" /\ WithFunction(fd, p.user)
  <2>1. p.user \in Users
        BY <1>3 DEF Packages
  <2>. QED  BY <1>3, <2>1, WithFunctionHandled
<1>4. CASE checkfd(fd) /\ p.type = "joinn" /\ JoinRoom(fd, p.room)
  <2>1. p.room \in Rooms
        BY <1>4 DEF Packages
  <2>. QED  BY <1>4, <2>1, JoinRoomHandled
<1>5. CASE checkfd(fd) /\ p.type = "sendMess" /\ OneToOneChat(fd, p.mess)
  <2>1. p.mess \in Texts
        BY <1>5 DEF Packages
  <2>. QED  BY <1>5, <2>1, OneToOneChatHandled
<1>6. CASE checkfd(fd) /\ p.type = "terminateChat" /\ LeaveChatUser(fd)
      BY <1>6, LeaveChatUserHandled
<1>7. CASE /\ p.type \in {"showRoom", "getRoles", "getuser", "finduser"}
           /\ ShowRoom(fd) \/ getListRoles(fd) \/ getUserOnline(fd) \/ FindUser(fd)
      BY <1>7, AnswersHandled
      DEF ShowRoom, getListRoles, getUserOnline, FindUser, AnswerTypes
<1>8. CASE \/ p.type = "createUser" /\ AddUser(fd, p.user, p.password, p.role)
           \/ /\ p.type = "modifyUser"
              /\ handleModifyUser(fd, p.user, p.password, p.role)
  <2>1. /\ p.user \in Users \cup {NoName}
        /\ p.password \in Passwords \cup {NoName}
        /\ p.role \in Roles \cup {NoRole}
        BY <1>8 DEF Packages
  <2>. QED  BY <1>8, <2>1, AccountsHandled
<1>9. CASE p.type = "deleteUser" /\ DeleteUser(fd, p.user)
  <2>1. p.user \in Users
        BY <1>9 DEF Packages
  <2>. QED  BY <1>9, <2>1, AccountsHandled
<1>10. CASE \/ p.type = "modifyRoom" /\ ModifyRoom(fd, p.room, p.capacity)
            \/ p.type = "createRoom" /\ addRoom(fd, p.room, p.capacity)
  <2>1. p.room \in Rooms \cup {NoName} /\ p.capacity \in Int
        BY <1>10, CapacitiesAssumption DEF Packages
  <2>. QED  BY <1>10, <2>1, RoomsHandled
<1>11. CASE p.type = "deleteRoom" /\ DeleteRoom(fd, p.room)
  <2>1. p.room \in Rooms
        BY <1>11 DEF Packages
  <2>. QED  BY <1>11, <2>1, RoomsHandled
<1>. QED  BY <1>1, <1>2, <1>3, <1>4, <1>5, <1>6, <1>7, <1>8, <1>9, <1>10,
             <1>11 DEF analyzePackage

\* The answer to a login that is accepted, and what is written behind it.
LEMMA FitLogin ==
    ASSUME NEW m, IsMap(m, Users, Accounts), NEW sent, NEW fd \in Fds,
           NEW u \in On(m, fd), NEW p \in Passwords, NEW role \in Roles,
           NEW l, l = WriteAll({fd}, LoginAnswer(u, p, role))
                      \o handleOfflineMessage(m, fd)
                      \o notificationOffline(m, fd, TRUE)
    PROVE  AllFit(l, m, sent, fd)
<1>. DEFINE pk == LoginAnswer(u, p, role)
            call == [op |-> "write", fds |-> {fd}, pk |-> pk]
            stored == handleOfflineMessage(m, fd)
            partners == notificationOffline(m, fd, TRUE)
<1>1. u \in Users /\ On(m, fd) # {}
      BY DEF On, IsMap
<1>2. /\ pk \in AnswerPackages /\ pk.type = "loginSuccess" /\ pk.user = u
      /\ pk.id = 0
      BY <1>1, LoginAnswerType DEF LoginAnswer, Answer
<1>. HIDE DEF pk
<1>3. /\ call \in Calls /\ Fits(call, m, sent, fd)
      /\ call.op = "write" /\ call.fds = {fd} /\ call.pk = pk
      BY <1>2 DEF Fits, Calls, Writes
<1>4. WriteAll({fd}, pk) = <<call>>
      BY DEF WriteAll
<1>. HIDE DEF call
<1>5. AllFit(<<call>>, m, sent, fd)
      BY <1>3, OneCallType, CallsInOne DEF AllFit
<1>6. AllFit(stored, m, sent, fd)
  <2>. DEFINE v == findUserByfd(m, fd)
              loop == [op |-> "replay", fd |-> fd, user |-> v, after |-> 0]
  <2>1. v \in Users /\ v \in DOMAIN m /\ m[v].fd = fd
        BY <1>1, FindUser_Is
  <2>2. v \in On(m, fd) /\ <<loop>> \in Seq(Calls)
        BY <2>1, ReplayType DEF On
  <2>. HIDE DEF v
  <2>3. Fits(loop, m, sent, fd)
        BY <2>2 DEF Fits
  <2>4. AllFit(<<loop>>, m, sent, fd)
        BY <2>2, <2>3, CallsInOne DEF AllFit
  <2>5. AllFit(Sql(deleteMessageOfUser(v)), m, sent, fd)
        BY <2>1, StatementTypes, FitSql
  <2>6. stored = <<>> \/ stored = <<loop>> \o Sql(deleteMessageOfUser(v))
        BY DEF handleOfflineMessage, v
  <2>. HIDE DEF loop, stored
  <2>. QED  BY <2>4, <2>5, <2>6, FitConcat, FitNone
<1>7. AllFit(partners, m, sent, fd)
      BY FitNotification
<1>. HIDE DEF stored, partners
<1>8. AllFit(<<call>> \o stored \o partners, m, sent, fd)
  <2>1. AllFit(<<call>> \o stored, m, sent, fd)
        BY <1>5, <1>6, FitConcat
  <2>. QED  BY <1>7, <2>1, FitConcat
<1>. QED  BY <1>4, <1>8 DEF pk, stored, partners

LEMMA LoginToldFirst ==
    ASSUME NEW m, IsMap(m, Users, Accounts), NEW fd \in Fds,
           NEW u \in On(m, fd), NEW p \in Passwords, NEW role \in Roles,
           NEW l, l = WriteAll({fd}, LoginAnswer(u, p, role))
                      \o handleOfflineMessage(m, fd)
                      \o notificationOffline(m, fd, TRUE)
    PROVE  TellsLogin(l, fd)
<1>. DEFINE pk == LoginAnswer(u, p, role)
            call == [op |-> "write", fds |-> {fd}, pk |-> pk]
            stored == handleOfflineMessage(m, fd)
            partners == notificationOffline(m, fd, TRUE)
<1>1. u \in Users /\ On(m, fd) # {}
      BY DEF On, IsMap
<1>2. pk \in AnswerPackages /\ pk.type = "loginSuccess"
      BY <1>1, LoginAnswerType DEF LoginAnswer, Answer
<1>3. stored \in Seq(Calls) /\ partners \in Seq(Calls)
      BY <1>1, OfflineMessageType, NotificationType
<1>4. l = <<call>> \o stored \o partners
      BY DEF WriteAll
<1>. HIDE DEF pk, stored, partners
<1>5. call \in Calls /\ call.op = "write" /\ call.fds = {fd} /\ call.pk = pk
      BY <1>2 DEF Calls, Writes
<1>. HIDE DEF call
<1>6. l = <<call>> \o (stored \o partners)
      BY <1>3, <1>4, <1>5, OneCallType, ListsAssociate
<1>7. stored \o partners \in Seq(Calls)
      BY <1>3, TwoListsType
<1>8. \A s \in Seq(Calls) : <<call>> \o s # <<>> /\ Head(<<call>> \o s) = call
      BY <1>5
<1>9. l # <<>> /\ Head(l) = call
      BY <1>6, <1>7, <1>8
<1>. QED  BY <1>2, <1>5, <1>9 DEF TellsLogin

\* A login that is accepted: the user is the only one of the connection, and
\* the answer is the first call.
LEMMA AcceptedLogin ==
    ASSUME TypeOK, ComesToNoRoom, NEW fd \in Fds, NEW u, NEW p,
           LoginAccepted(u, p), Login(fd, u, p)
    PROVE  /\ On(mapuser', fd) = On(mapuser, fd) \cup {u}
           /\ \A d \in Fds : d # fd => On(mapuser', d) = On(mapuser, d)
           /\ AllFit(todo', mapuser', chats', fd)
           /\ LoginTold(fd)'
           /\ UNCHANGED <<up, sock>>
<1>. DEFINE m == [mapuser EXCEPT ![u].fd = fd]
            role == mapuser[u].role
<1>1. /\ u \in DOMAIN mapuser /\ mapuser[u].fd = NoFd /\ mapuser[u].password = p
      /\ mapuser[u] \in Accounts
      BY MemoryTypes, MapValue DEF LoginAccepted
<1>2. p \in Passwords /\ role \in Roles
      BY <1>1 DEF Accounts
<1>3. /\ mapuser' = m
      /\ Does(WriteAll({fd}, LoginAnswer(u, p, role))
              \o handleOfflineMessage(m, fd) \o notificationOffline(m, fd, TRUE))
      BY <1>1 DEF Login, ComesToNoRoom
<1>4. IsMap(m, Users, Accounts)
      BY MemoryTypes, AccountUpdate
<1>5. /\ On(m, fd) = On(mapuser, fd) \cup {u}
      /\ \A d \in Fds : d # fd => On(m, d) = On(mapuser, d)
  <2>1. /\ DOMAIN m = DOMAIN mapuser /\ m[u].fd = fd
        /\ \A x \in DOMAIN m : x # u => m[x] = mapuser[x]
        BY <1>1 DEF Accounts
  <2>. HIDE DEF m
  <2>. QED  BY <1>1, <2>1, FdAssumption DEF On
<1>. HIDE DEF m, role
<1>6. u \in On(m, fd)
      BY <1>5
<1>7. AllFit(todo', m, chats', fd) /\ TellsLogin(todo', fd)
  <2>1. todo' = WriteAll({fd}, LoginAnswer(u, p, role))
                \o handleOfflineMessage(m, fd) \o notificationOffline(m, fd, TRUE)
        BY <1>3 DEF Does
  <2>2. AllFit(todo', m, chats', fd)
        BY <1>2, <1>4, <1>6, <2>1, FitLogin
  <2>3. TellsLogin(todo', fd)
        BY <1>2, <1>4, <1>6, <2>1, LoginToldFirst
  <2>. QED  BY <2>2, <2>3
<1>. QED  BY <1>3, <1>5, <1>7 DEF LoginTold, Does

\* The other connections, when a handler starts: nobody is connected or gone
\* there, and the calls reach only those who are connected.
LEMMA OthersKeepLogin ==
    ASSUME LoginInv, todo = <<>>, NEW c \in Fds, NEW d \in Fds, d # c,
           UNCHANGED <<client, sock>>, queue'[d] = queue[d],
           On(mapuser', d) = On(mapuser, d),
           \A call \in CallsIn(todo') :
              call.op = "close" \/ Fits(call, mapuser', chats', c)
    PROVE  Held(d)' /\ Talks(d)'
<1>1. Held(d) /\ Talks(d)
      BY DEF LoginInv
<1>2. ~LoginTold(d) /\ ~LoginRefused(d)
      BY DEF LoginTold, TellsLogin, LoginRefused, Reply, WriteAll
<1>3. On(mapuser, d) = {} => Quiet(todo, d)'
  <2>1. ASSUME On(mapuser, d) = {}, NEW call \in CallsIn(todo')
        PROVE  ~Reaches(call, d)
        BY <2>1 DEF Fits, Reaches
  <2>. QED  BY <2>1 DEF Quiet
<1>4. Held(d)'
      BY <1>1 DEF Held
<1>5. Talks(d)'
      BY <1>1, <1>2, <1>3 DEF Talks, In, Out
<1>. QED  BY <1>4, <1>5

\* A package of a connection is read; what is left of the queue is as before.
LEMMA ReadKeepsLogin ==
    ASSUME TypeOK, ClientInv, Listed, ComesToNoRoom, LoginInv,
           NEW c \in Fds, ServerReads(c)
    PROVE  LoginInv'
<1>. DEFINE q == queue[c]
            p == Head(q)
<1>1. /\ todo = <<>> /\ up /\ q # <<>> /\ q \in Seq(Packages)
      /\ analyzePackage(c, p)
      /\ queue'[c] = Tail(q) /\ (\A d \in Fds : d # c => queue'[d] = queue[d])
      /\ UNCHANGED client
      BY DEF ServerReads, Reads, Visits, ClientInv
<1>2. Held(c) /\ Talks(c)
      BY DEF LoginInv
<1>3. /\ p \in Packages
      /\ \A i, j \in Logins(queue'[c]) : i = j
      /\ Logins(queue'[c]) # {} => Logins(q) # {}
      /\ p.type = "loginn" => Logins(q) # {} /\ Logins(queue'[c]) = {}
      /\ (\A i \in 1..Len(q) : q[i].type = "loginn") =>
            p.type = "loginn" /\ queue'[c] = <<>>
      BY <1>1, <1>2, LoginsRead DEF Held
<1>4. ASSUME NEW d \in Fds
      PROVE  ~LoginTold(d) /\ ~LoginRefused(d)
      BY <1>1 DEF LoginTold, TellsLogin, LoginRefused, Reply, WriteAll
<1>. HIDE DEF p
<1>5. UNCHANGED <<up, sock>>
      BY <1>1 DEF analyzePackage, Does, Answers, Refuse, Login, WithFunction,
         JoinRoom, OneToOneChat, LeaveChatUser, AddUser, handleModifyUser,
         DeleteUser, addRoom, ModifyRoom, DeleteRoom, ShowRoom, getListRoles,
         getUserOnline, FindUser
<1>6. SUFFICES ASSUME /\ AllFit(todo', mapuser', chats', c)
                      /\ \A d \in Fds : d # c => On(mapuser', d) = On(mapuser, d),
                      (Held(c) /\ Talks(c))'
               PROVE  LoginInv'
  <2>. DEFINE accepted == p.type = "loginn" /\ LoginAccepted(p.user, p.password)
  <2>1. CASE accepted
    <3>1. On(mapuser, c) = {} /\ Logins(q) # {} /\ queue'[c] = Tail(q)
          BY <1>1, <1>2, <1>3, <2>1 DEF Held
    <3>2. Login(c, p.user, p.password)
          BY <1>1, <2>1 DEF analyzePackage
    <3>3. /\ On(mapuser', c) = {p.user} /\ LoginTold(c)'
          /\ AllFit(todo', mapuser', chats', c)
          /\ \A d \in Fds : d # c => On(mapuser', d) = On(mapuser, d)
          BY <2>1, <3>1, <3>2, AcceptedLogin
    <3>4. Held(c)'
      <4>1. sock[c] # "free"
            BY DEF ServerReads, Reads
      <4>. QED  BY <1>1, <1>2, <1>3, <1>5, <2>1, <3>3, <4>1 DEF Held
    <3>5. Talks(c)'
      <4>1. ASSUME sock[c] = "open", client[c].flag_l
            PROVE  In(c)'
        <5>1. In(c)
              BY <1>2, <4>1 DEF Talks
        <5>2. ~client[c].relogin
              BY <3>1, <5>1 DEF In
        <5>. QED  BY <1>1, <3>3, <5>2 DEF In
      <4>2. ASSUME sock[c] = "open", ~client[c].flag_l
            PROVE  Out(c)'
        <5>1. Out(c)
              BY <1>2, <4>2 DEF Talks
        <5>2. /\ queue'[c] = <<>> /\ ~client[c].relogin
              /\ client[c].at \in {"sent", "wait"} /\ client' = client
              BY <1>1, <1>2, <1>3, <1>4, <4>2, <5>1 DEF Out, Held
        <5>3. \A i \in 1..Len(queue'[c]) : queue'[c][i].type = "loginn"
              BY <5>2
        <5>. QED  BY <3>3, <5>2, <5>3 DEF Out
      <4>. QED  BY <1>1, <1>5, <4>1, <4>2 DEF Talks
    <3>. QED  BY <1>6, <3>3, <3>4, <3>5
  <2>2. CASE ~accepted
    <3>1. Handled(c) /\ (p.type = "loginn" => todo' = Reply(c, "loginFail"))
          BY <1>1, <1>3, <2>2, ReceiveHandled
    <3>2. /\ On(mapuser', c) = On(mapuser, c)
          /\ AllFit(todo', mapuser', chats', c)
          /\ \A d \in Fds : d # c => On(mapuser', d) = On(mapuser, d)
          BY <3>1 DEF Handled, SameConnections
    <3>3. Held(c)'
      <4>1. sock[c] # "free"
            BY DEF ServerReads, Reads
      <4>. QED  BY <1>1, <1>2, <1>3, <1>5, <3>2, <4>1 DEF Held
    <3>4. Talks(c)'
      <4>1. ASSUME sock[c] = "open", client[c].flag_l
            PROVE  In(c)'
        <5>1. In(c) /\ ~LoginTold(c)
              BY <1>2, <1>4, <4>1 DEF Talks
        <5>2. client[c].relogin =>
                 On(mapuser', c) = {} /\ Logins(queue'[c]) = {}
              BY <1>3, <3>2, <5>1 DEF In
        <5>3. On(mapuser', c) # {} => client[c].user \in On(mapuser', c)
              BY <3>2, <5>1 DEF In
        <5>. QED  BY <1>1, <5>2, <5>3 DEF In
      <4>2. ASSUME sock[c] = "open", ~client[c].flag_l
            PROVE  Out(c)'
        <5>1. Out(c)
              BY <1>2, <4>2 DEF Talks
        <5>2. /\ p.type = "loginn" /\ queue'[c] = <<>> /\ ~client[c].relogin
              /\ client[c].at \in {"sent", "wait"} /\ On(mapuser, c) = {}
              /\ client' = client
              BY <1>1, <1>2, <1>3, <1>4, <4>2, <5>1 DEF Out, Held
        <5>3. LoginRefused(c)'
              BY <3>1, <3>2, <5>2 DEF LoginRefused
        <5>4. \A i \in 1..Len(queue'[c]) : queue'[c][i].type = "loginn"
              BY <5>2
        <5>. QED  BY <5>2, <5>3, <5>4 DEF Out
      <4>. QED  BY <1>1, <1>5, <4>1, <4>2 DEF Talks
    <3>. QED  BY <1>6, <3>2, <3>3, <3>4
  <2>. QED  BY <2>1, <2>2
<1>7. Addressed'
  <2>1. ASSUME NEW call \in CallsIn(todo')
        PROVE  Addresses(call)'
    <3>1. Fits(call, mapuser', chats', c)
          BY <1>6 DEF AllFit
    <3>. QED  BY <3>1 DEF Fits, Addresses
  <2>. QED  BY <2>1 DEF Addressed
<1>8. ASSUME NEW d \in Fds, d # c
      PROVE  Held(d)' /\ Talks(d)'
  <2>1. \A call \in CallsIn(todo') : Fits(call, mapuser', chats', c)
        BY <1>6 DEF AllFit
  <2>. QED  BY <1>1, <1>5, <1>6, <1>8, <2>1, OthersKeepLogin
<1>. QED  BY <1>1, <1>5, <1>6, <1>7, <1>8 DEF LoginInv

\* The handler of the end of a connection sets its user offline first; closing
\* it is its last call.
LEMMA DisconnectHandled ==
    ASSUME TypeOK, Listed, NEW fd \in Fds, Disconnect(fd),
           \A u, v \in On(mapuser, fd) : u = v
    PROVE  /\ On(mapuser', fd) = {}
           /\ \A d \in Fds : d # fd => On(mapuser', d) = On(mapuser, d)
           /\ \A call \in CallsIn(todo') :
                 \/ Fits(call, mapuser', chats', fd)
                 \/ call.op = "close" /\ call.fd = fd
<1>. DEFINE close == [op |-> "close", fd |-> fd]
<1>1. <<close>> \in Seq(Calls) /\ CallsIn(<<close>>) = {close}
      BY CloseType, CallsInOne
<1>2. CASE ~checkfd(fd)
  <2>1. todo' = <<close>> /\ mapuser' = mapuser /\ On(mapuser, fd) = {}
        BY <1>2 DEF Disconnect, checkfd
  <2>. QED  BY <1>1, <2>1
<1>3. CASE checkfd(fd)
  <2>. DEFINE u == findUserByfd(mapuser, fd)
              st == mapuser[u].state
              told == notificationOffline(mapuser, fd, FALSE)
              notice == IF st.type = 2 THEN LeaveNotice(fd, st) ELSE <<>>
              clear == Sql(clearState(u))
  <2>1. /\ todo' = told \o notice \o clear \o <<close>>
        /\ mapuser' = [mapuser EXCEPT ![u].state = Idle, ![u].fd = NoFd]
        BY <1>3 DEF Disconnect, changeStateUserOff
  <2>2. u \in Users /\ u \in DOMAIN mapuser /\ u \in On(mapuser, fd)
        BY <1>3, MemoryTypes, FindUser_Is DEF checkfd, On
  <2>3. /\ On(mapuser', fd) = {}
        /\ \A d \in Fds : d # fd => On(mapuser', d) = On(mapuser, d)
    <3>. HIDE DEF u
    <3>1. /\ mapuser[u] \in Accounts /\ mapuser[u].fd = fd
          /\ \A v \in On(mapuser, fd) : v = u
          BY <2>2, MemoryTypes, MapValue DEF On
    <3>2. /\ DOMAIN mapuser' = DOMAIN mapuser /\ mapuser'[u].fd = NoFd
          /\ \A v \in DOMAIN mapuser : v # u => mapuser'[v] = mapuser[v]
          BY <2>1, <2>2, <3>1 DEF Accounts
    <3>. QED  BY <2>2, <3>1, <3>2, FdAssumption DEF On
  <2>. DEFINE m == mapuser'
              sent == chats'
  <2>4. \A d \in Fds : d = fd \/ On(m, d) = On(mapuser, d)
        BY <2>3
  <2>5. AllFit(told, m, sent, fd)
    <3>1. \A d \in Fds : d = fd \/ On(mapuser, d) = On(m, d)
          BY <2>4
    <3>. HIDE DEF m
    <3>. QED  BY <3>1, MemoryTypes, FitNotification
  <2>6. AllFit(notice, m, sent, fd)
    <3>. HIDE DEF m, sent
    <3>. QED  BY <2>4, FitNotice
  <2>7. AllFit(clear, m, sent, fd)
        BY <2>2, StatementTypes, FitSql
  <2>. HIDE DEF told, notice, clear, m, sent, close
  <2>8. AllFit(told \o notice \o clear, m, sent, fd)
    <3>1. AllFit(told \o notice, m, sent, fd)
          BY <2>5, <2>6, FitConcat
    <3>. QED  BY <2>7, <3>1, FitConcat
  <2>9. CallsIn(todo') = CallsIn(told \o notice \o clear) \cup {close}
        BY <1>1, <2>1, <2>8, CallsInConcat DEF AllFit
  <2>10. close.op = "close" /\ close.fd = fd
        BY DEF close
  <2>. QED  BY <2>3, <2>8, <2>9, <2>10 DEF AllFit, m, sent
<1>. QED  BY <1>2, <1>3

LEMMA DisconnectKeepsLogin ==
    ASSUME TypeOK, Listed, LoginInv, NEW c \in Fds, ServerDisconnects(c)
    PROVE  LoginInv'
<1>1. /\ Disconnect(c) /\ up /\ todo = <<>> /\ queue[c] = <<>>
      /\ sock[c] \in {"closed", "reset"}
      /\ UNCHANGED <<up, sock, client, queue>>
      BY DEF ServerDisconnects, Disconnect, Visits
<1>2. Held(c)
      BY DEF LoginInv
<1>3. /\ On(mapuser', c) = {}
      /\ \A d \in Fds : d # c => On(mapuser', d) = On(mapuser, d)
      /\ \A call \in CallsIn(todo') :
            \/ Fits(call, mapuser', chats', c)
            \/ call.op = "close" /\ call.fd = c
      BY <1>1, <1>2, DisconnectHandled DEF Held
<1>4. Held(c)' /\ Talks(c)'
      BY <1>1, <1>2, <1>3, NoLogins DEF Held, Talks
<1>5. ASSUME NEW call \in CallsIn(todo')
      PROVE  Addresses(call)'
  <2>1. Over(c)'
        BY <1>1, <1>3 DEF Over
  <2>. QED  BY <1>3, <2>1 DEF Fits, Addresses
<1>6. ASSUME NEW d \in Fds, d # c
      PROVE  Held(d)' /\ Talks(d)'
      BY <1>1, <1>3, <1>6, OthersKeepLogin
<1>. QED  BY <1>1, <1>4, <1>5, <1>6 DEF LoginInv, Addressed

\* Initially there is no connection.
LEMMA InitLogin == SystemInit => LoginInv
<1>. SUFFICES ASSUME SystemInit PROVE LoginInv
     OBVIOUS
<1>1. /\ up /\ todo = <<>> /\ mapuser = mapUser(InitDb)
      /\ \A c \in Fds : sock[c] = "free" /\ queue[c] = <<>> /\ client[c] = NoClient
      BY DEF SystemInit, Init, ClientInit
<1>2. \A c \in Fds : On(mapuser, c) = {}
      BY <1>1, FdAssumption DEF mapUser, On
<1>3. \A c \in Fds : Held(c) /\ Talks(c)
      BY <1>1, <1>2, NoLogins DEF Held, Talks, NoClient, Fresh
<1>4. Addressed
      BY <1>1, CallsInNone DEF Addressed
<1>. QED  BY <1>1, <1>3, <1>4 DEF LoginInv

LEMMA NextLogin ==
    ASSUME TypeOK, ClientInv, RowsAreChats, Listed, ComesToNoRoom, LoginInv,
           [SystemNext]_all
    PROVE  LoginInv'
<1>1. ASSUME NEW c \in Fds,
             Type(c) \/ TypeAway(c) \/ MainGoes(c) \/ SendRelogin(c)
      PROVE  LoginInv'
      BY <1>1, TypeKeepsLogin, AwayKeepsLogin, MainGoesKeepsLogin,
         ReloginKeepsLogin
<1>2. ASSUME NEW c \in Fds, ServerReads(c) \/ ServerDisconnects(c)
      PROVE  LoginInv'
      BY <1>2, ReadKeepsLogin, DisconnectKeepsLogin
<1>3. ASSUME NEW c \in Fds, Starts(c) \/ Reconnects(c)
      PROVE  LoginInv'
      BY <1>3, ConnectionKeepsLogin
<1>4. ASSUME NEW c \in Fds, Exits(c) \/ ResetBy(c)
      PROVE  LoginInv'
      BY <1>4, EndKeepsLogin
<1>5. CASE ServerCalls
  <2>1. CASE \E c \in Fds : ServerWrites(c)
        BY <2>1, WriteKeepsLogin
  <2>2. CASE /\ ReplayRow \/ ReplayEnd \/ ReplayJunk
             /\ UNCHANGED <<client, queue>>
        BY <2>2, ReplayKeepsLogin
  <2>3. CASE Close /\ UNCHANGED <<client, queue>>
        BY <2>3, CloseKeepsLogin
  <2>4. CASE /\ Execute
             /\ IF up' THEN UNCHANGED <<client, queue>> ELSE ConnectionsLost
        BY <2>4, ExecuteKeepsLogin
  <2>. QED  BY <1>5, <2>1, <2>2, <2>3, <2>4 DEF ServerCalls
<1>6. CASE ServerDies
  <2>1. Dies
        BY <1>6 DEF ServerDies, Crash, Sigpipe
  <2>. QED  BY <1>6, <2>1, LossKeepsLogin DEF ServerDies
<1>7. CASE ServerStarts
      BY <1>7, StartKeepsLogin
<1>8. CASE ServerStopped \/ UNCHANGED all
  <2>1. UNCHANGED <<up, todo, mapuser, chats, sock, client, queue>>
        BY <1>8 DEF ServerStopped, Stopped, vars, memory, observed, all
  <2>2. \A c \in Fds : On(mapuser', c) = On(mapuser, c)
        BY <2>1
  <2>3. Addressed'
        BY <2>1 DEF LoginInv, Addressed, Addresses, Over
  <2>4. ASSUME NEW c \in Fds
        PROVE  Held(c)' /\ Talks(c)'
    <3>1. Held(c) /\ Talks(c) /\ On(mapuser', c) = On(mapuser, c)
          BY <2>2 DEF LoginInv
    <3>2. Held(c)'
          BY <2>1, <3>1 DEF Held
    <3>3. /\ LoginTold(c)' <=> LoginTold(c)
          /\ LoginRefused(c)' <=> LoginRefused(c)
          BY <2>1, <3>1 DEF LoginTold, LoginRefused
    <3>4. In(c) => In(c)'
          BY <2>1, <3>1, <3>3 DEF In
    <3>5. Out(c) => Out(c)'
          BY <2>1, <3>1, <3>3 DEF Out
    <3>. QED  BY <2>1, <3>1, <3>2, <3>4, <3>5 DEF Talks
  <2>. QED  BY <2>1, <2>3, <2>4 DEF LoginInv
<1>. QED  BY <1>1, <1>2, <1>3, <1>4, <1>5, <1>6, <1>7, <1>8 DEF SystemNext

\* As long as the lists of the rooms hold nobody who is offline, and nobody
\* comes back into a room, the login of every client is in one of its states.
LEMMA LoginKept ==
    SystemSpec /\ [](Listed /\ ComesToNoRoom)
        => [](TypeOK /\ ClientInv /\ LoginInv)
<1>1. SystemInit => TypeOK /\ ClientInv /\ LoginInv
      BY InitType, InitClients, InitLogin DEF SystemInit
<1>2. TypeOK /\ ClientInv /\ [SystemNext]_all => (TypeOK /\ ClientInv)'
      BY ServerStep, NextType, NextClients
<1>3. MessageInv => RowsAreChats
      BY DEF MessageInv
<1>4. /\ TypeOK /\ ClientInv /\ RowsAreChats
      /\ Listed /\ ComesToNoRoom /\ LoginInv /\ [SystemNext]_all
      => LoginInv'
      BY NextLogin
<1>. QED  BY <1>1, <1>2, <1>3, <1>4, SystemIsServer, MessageInvariant, PTL
          DEF SystemSpec

\* Where no room is used that is so.
LEMMA NoRooms ==
    ASSUME Rooms = {}
    PROVE  SystemSpec => [](TypeOK /\ ClientInv /\ LoginInv)
<1>1. TypeOK => Listed /\ ComesToNoRoom
  <2>. SUFFICES ASSUME TypeOK PROVE Listed /\ ComesToNoRoom
       OBVIOUS
  <2>1. DOMAIN roomMap = {}
        BY MemoryTypes DEF IsMap
  <2>. QED  BY <2>1 DEF Listed, ComesToNoRoom, Returns
<1>2. SystemSpec => []TypeOK
      BY SystemIsServer, TypeCorrect, PTL
<1>. QED  BY <1>1, <1>2, LoginKept, PTL

\* What the invariant says of an account that is online on a connection.
LEMMA OnlineIsIn ==
    ASSUME TypeOK, LoginInv, NEW u \in Online(mapuser)
    PROVE  /\ mapuser[u].fd \in Fds /\ u \in On(mapuser, mapuser[u].fd)
           /\ sock[mapuser[u].fd] # "free"
           /\ \A v \in On(mapuser, mapuser[u].fd) : u = v
<1>1. mapuser[u].fd \in Fds /\ u \in On(mapuser, mapuser[u].fd)
  <2>1. u \in DOMAIN mapuser /\ mapuser[u].fd # NoFd
        BY DEF Online
  <2>2. mapuser[u] \in Accounts
        BY <2>1, MemoryTypes, MapValue
  <2>. QED  BY <2>1, <2>2 DEF On, Accounts
<1>2. Held(mapuser[u].fd)
      BY <1>1 DEF LoginInv
<1>. QED  BY <1>1, <1>2 DEF Held

\* Users are told apart by their connections: the server looks an account up
\* by the descriptor of its connection and takes the first it finds
\* (findUserByfd), which is the right one as long as no connection carries two.
\* A login on a connection that has one would break that; the client process
\* sends none, since nothing but the answer wakes it from the login.
THEOREM OneUserPerConnection ==
    ASSUME Rooms = {}
    PROVE  SystemSpec => []OneConnectionPerUser
<1>1. TypeOK /\ LoginInv => OneConnectionPerUser
  <2>. SUFFICES ASSUME TypeOK, LoginInv, NEW u \in Online(mapuser)
                PROVE  /\ sock[mapuser[u].fd] # "free"
                       /\ \A v \in Online(mapuser) :
                             mapuser[u].fd = mapuser[v].fd => u = v
       BY DEF OneConnectionPerUser
  <2>. QED  BY OnlineIsIn
<1>. QED  BY <1>1, NoRooms, PTL

\* A client the server takes for logged in knows that it is: the answer to
\* its login is never lost, refused or overtaken on an open connection.
THEOREM AcceptedIsTold ==
    ASSUME Rooms = {}
    PROVE  SystemSpec => []AcceptedLoginIsTold
<1>1. LoginInv => AcceptedLoginIsTold
  <2>. SUFFICES ASSUME LoginInv, NEW c \in Fds, Settled(c), checkfd(c),
                       ~client[c].flag_l
                PROVE  FALSE
       BY DEF AcceptedLoginIsTold
  <2>1. Out(c)
        BY DEF LoginInv, Talks, Settled
  <2>. QED  BY <2>1 DEF Out, LoginTold, TellsLogin, LoginRefused, Settled,
                checkfd
<1>. QED  BY <1>1, NoRooms, PTL

\* A private message is written to its receiver alone: the process at the end
\* of the connection it goes to is one whose user has logged in as him.  The
\* server addresses the descriptor it finds in the map, so the map, the
\* connection and what the process was told have to agree at that moment.
THEOREM ChatsStayPrivate ==
    ASSUME Rooms = {}
    PROVE  SystemSpec => []PrivateChatsArePrivate
<1>1. TypeOK /\ LoginInv => PrivateChatsArePrivate
  <2>. SUFFICES ASSUME TypeOK, LoginInv, NEW c \in Fds, Calling("write"),
                       c \in Head(todo).fds, Head(todo).pk.id # 0,
                       sock[c] = "open"
                PROVE  client[c].user = chats[Head(todo).pk.id].to
       BY DEF PrivateChatsArePrivate
  <2>1. /\ todo # <<>> /\ Head(todo).op = "write" /\ todo \in Seq(Calls)
        BY DEF Calling, TypeOK
  <2>2. Head(todo) \in CallsIn(todo) /\ Head(todo) \in Writes
    <3>1. Head(todo) \in Calls
          BY <2>1
    <3>. QED  BY <2>1, <3>1 DEF CallsIn, Calls, Writes, Replays, Sqls, Closes
  <2>3. chats[Head(todo).pk.id].to \in On(mapuser, c)
        BY <2>1, <2>2 DEF LoginInv, Addressed, Addresses
  <2>4. Head(todo).pk.type # "loginSuccess"
        BY <2>2 DEF Writes, AnswerPackages, AnswerTypes
  <2>5. ~LoginTold(c) /\ ~LoginRefused(c) /\ ~Quiet(todo, c)
        BY <2>1, <2>2, <2>3, <2>4 DEF LoginTold, TellsLogin, LoginRefused,
           Quiet, Reaches
  <2>6. In(c)
        BY <2>5 DEF LoginInv, Talks, Out
  <2>7. client[c].user \in On(mapuser, c)
        BY <2>3, <2>5, <2>6 DEF In
  <2>. QED  BY <2>3, <2>7 DEF LoginInv, Held
<1>. QED  BY <1>1, NoRooms, PTL
=============================================================================
