----------------------------- MODULE ChatClient -----------------------------
(***************************************************************************)
(* The client processes (client/service/client.cpp).  A process has two    *)
(* threads: main reads lines from its user and sends packages, the other   *)
(* one receives packages and sets flags; main waits on a condition that    *)
(* nearly every received package signals.  The thread of Excecute is kept  *)
(* as the place it is at: one of its prompts, the wait, or between a send  *)
(* and the wait after it, where a signal finds nobody.                     *)
(*                                                                         *)
(* The client of slot c is the process whose connection has descriptor c   *)
(* on the server.  A process that has lost its connection keeps its slot:  *)
(* the server that comes back knows no descriptor, so a connection with    *)
(* another descriptor is the same behaviour with two slots exchanged.      *)
(***************************************************************************)
EXTENDS Protocol

CONSTANT MaxQueue   \* bound: packages sent on a connection and not yet read

ASSUME MaxQueueAssumption == MaxQueue \in Nat \ {0}

VARIABLES
    client,  \* the process of each slot
    queue    \* the packages sent on each connection that the server has not read

Prompts == {"login", "command", "with", "room"}

\* "break": commandHandler has been left with break; "sent": main is about to
\* wait.
Places == Prompts \cup {"break", "sent", "wait"}

\* The globals of client.cpp and the user that is logged in.
Clients ==
    [alive : BOOLEAN, at : Places,
     user : Users \cup {NoName}, password : Passwords \cup {NoName},
     role : Roles \cup {NoRole}, flag_l : BOOLEAN,
     flag_w : BOOLEAN, flag_j : BOOLEAN, flag_w_online : BOOLEAN,
     userw : Users \cup {NoName}, roomw : Rooms \cup {NoName},
     relogin : BOOLEAN]

Fresh ==
    [alive |-> TRUE, at |-> "login", user |-> NoName, password |-> NoName,
     role |-> NoRole, flag_l |-> FALSE, flag_w |-> FALSE, flag_j |-> FALSE,
     flag_w_online |-> FALSE, userw |-> NoName, roomw |-> NoName,
     relogin |-> FALSE]

NoClient == [Fresh EXCEPT !.alive = FALSE]

ClientInit ==
    /\ client = [c \in Fds |-> NoClient]
    /\ queue = [c \in Fds |-> <<>>]

-----------------------------------------------------------------------------
\* The prompt Excecute comes to with the flags of a process.
Prompt(p) ==
    CASE ~p.flag_l -> "login"
      [] p.flag_l /\ p.flag_w -> "with"
      [] p.flag_l /\ ~p.flag_w /\ p.flag_j -> "room"
      [] OTHER -> "command"

\* Main goes on to its next prompt.
Proceed(p) == [p EXCEPT !.at = Prompt(p)]

\* pthread_cond_signal(&cond)
Signal(p) == IF p.at = "wait" THEN Proceed(p) ELSE p

\* Mutant: the password is not kept for the next connection.
KeepNoPassword(p, pk) ==
    [p EXCEPT !.user = pk.user, !.role = pk.role, !.flag_l = TRUE]

\* What a loginSuccess tells is kept, for the login after a reconnection.
KeepLogin(p, pk) ==
    [p EXCEPT !.user = pk.user, !.password = pk.password, !.role = pk.role,
              !.flag_l = TRUE]

\* Mutant: the flag of the room stays set.
EndWith(p) == [p EXCEPT !.flag_w = FALSE]

\* The chat or the room is over.
EndChat(p) == [p EXCEPT !.flag_w = FALSE, !.flag_j = FALSE]

\* The flags a package sets ...
Flags(p, pk) ==
    CASE pk.type = "loginSuccess" -> KeepLogin(p, pk)
      [] pk.type = "joinSuccess" -> [EndChat(p) EXCEPT !.flag_j = TRUE]
      [] pk.type = "withSuccess" ->
            [EndChat(p) EXCEPT !.flag_w = TRUE, !.flag_w_online = pk.online]
      [] pk.type = "checkparty" -> [p EXCEPT !.flag_w_online = pk.online]
      [] pk.type = "successTerminate" -> EndChat(p)
      [] OTHER -> p

\* Mutant: a refused ?join does not wake main.
SignalsNotOnJoinFail(pk) ==
    CASE pk.type \in {"checkparty", "failTerminate", "joinFail"} -> {FALSE}
      [] pk.type = "garbage" -> BOOLEAN
      [] OTHER -> {TRUE}

\* ... and the types that do not signal: failTerminate falls to the default
\* of the switch; a package of garbage has any type, so it may do either.
Signals(pk) ==
    CASE pk.type \in {"checkparty", "failTerminate"} -> {FALSE}
      [] pk.type = "garbage" -> BOOLEAN
      [] OTHER -> {TRUE}

\* receiverHandler: the states a process may be in after a package.
receiverHandler(p, pk) ==
    {IF s THEN Signal(Flags(p, pk)) ELSE Flags(p, pk) : s \in Signals(pk)}

-----------------------------------------------------------------------------
(* What main sends, on a connection that is up.                            *)

Sends(c, pk) ==
    /\ Len(queue[c]) < MaxQueue
    /\ queue' = [queue EXCEPT ![c] = Append(@, pk)]

At(c, place) == client[c].alive /\ client[c].at = place

\* Main has shown a prompt and reads a line of its user.
ReadsLine(c) == client[c].alive /\ client[c].at \in Prompts

\* Main goes on to pthread_cond_wait.
Sent(p) == [p EXCEPT !.at = "sent"]

MayLogin(c, pk) == At(c, "login") /\ pk.type = "loginn" /\ pk.user # NoName

\* loginHandler, which Excecute waits after.
loginHandler(c, pk) ==
    /\ MayLogin(c, pk)
    /\ client' = [client EXCEPT ![c] = Sent(@)]

UserCommands == {"withh", "joinn", "showRoom", "getuser", "finduser"}

AdminCommands ==
    {"getRoles", "createUser", "modifyUser", "deleteUser", "createRoom",
     "modifyRoom", "deleteRoom"}

\* The three commands after which commandHandler breaks out of its loop.
Breaks == {"withh", "joinn", "showRoom"}

MayCommand(c, pk) ==
    /\ At(c, "command")
    /\ \/ pk.type \in UserCommands
       \/ pk.type \in AdminCommands /\ client[c].role = ADMIN

\* ?with and ?join set userw or roomw before they send.
Aimed(p, pk) ==
    [p EXCEPT !.userw = IF pk.type = "withh" THEN pk.user ELSE @,
              !.roomw = IF pk.type = "joinn" THEN pk.room ELSE @]

commandHandler(c, pk) ==
    /\ MayCommand(c, pk)
    /\ client' = [client EXCEPT ![c] =
          [Aimed(@, pk) EXCEPT !.at =
              IF pk.type \in Breaks THEN "break" ELSE "sent"]]

\* withHandler and roomHandler, a line of text: main does not wait.
ChatLine(c, pk) ==
    /\ At(c, "with") \/ At(c, "room")
    /\ pk.type = "sendMess"
    /\ client' = [client EXCEPT ![c] = Proceed(@)]

\* withHandler and roomHandler, "?back".
Back(c, pk) ==
    /\ At(c, "with") \/ At(c, "room")
    /\ pk.type = "terminateChat"
    /\ client' = [client EXCEPT ![c] = Sent(@)]

Handler(c, pk) ==
    loginHandler(c, pk) \/ commandHandler(c, pk) \/ ChatLine(c, pk) \/ Back(c, pk)

Line(c, pk) == Handler(c, pk) /\ Sends(c, pk)

\* Excecute after commandHandler: main waits if neither flag is set; they may
\* have changed since the prompt was shown.
AfterBreak(c) ==
    /\ At(c, "break")
    /\ client' = [client EXCEPT ![c] =
          IF @.flag_w \/ @.flag_j THEN Proceed(@) ELSE Sent(@)]

\* pthread_cond_wait: from here on a signal wakes main.
CondWait(c) ==
    /\ At(c, "sent")
    /\ client' = [client EXCEPT ![c].at = "wait"]

\* What main does without its user.
Goes(c) == (AfterBreak(c) \/ CondWait(c)) /\ UNCHANGED queue

\* doRecieving after a reconnection: the login of the account is sent again.
Relogin(c) ==
    /\ client[c].alive
    /\ client[c].relogin
    /\ Sends(c, [type |-> "loginn", user |-> client[c].user,
                 password |-> client[c].password])
    /\ client' = [client EXCEPT ![c].relogin = FALSE]

\* The commands after which main waits also when sendPackage refuses.
WaitsAnyway == {"getuser", "finduser", "modifyRoom", "getRoles", "terminateChat"}

\* Without a connection: what is sent before the disconnection is noticed is
\* lost; afterwards sendPackage refuses ("Server is not found") and main is back
\* at a prompt, but for the commands that wait all the same.
LineLost(c, pk) ==
    /\ \/ Handler(c, pk)
       \/ /\ MayLogin(c, pk) \/ MayCommand(c, pk)
          /\ pk.type \notin WaitsAnyway
          /\ client' = [client EXCEPT ![c] = Proceed(Aimed(@, pk))]
    /\ UNCHANGED queue

-----------------------------------------------------------------------------
(* Steps taken with the connection.                                        *)

\* main, connectServer: the process starts and is connected.
StartProcess(c) ==
    /\ ~client[c].alive
    /\ client' = [client EXCEPT ![c] = Fresh]
    /\ UNCHANGED queue

\* doRecieving: the receiving thread has reconnected.
Reconnected(c) ==
    /\ client[c].alive
    /\ client' = [client EXCEPT ![c].relogin = client[c].flag_l]
    /\ UNCHANGED queue

\* The process ends; what it has sent stays in the connection.
ExitProcess(c) ==
    /\ client[c].alive
    /\ client' = [client EXCEPT ![c] = NoClient]
    /\ UNCHANGED queue

\* Every connection is gone with the packages in it.
ConnectionsLost ==
    /\ queue' = [c \in Fds |-> <<>>]
    /\ client' = [c \in Fds |-> [client[c] EXCEPT !.relogin = FALSE]]

ClientTypeOK ==
    /\ client \in [Fds -> Clients]
    /\ queue \in [Fds -> Seq(Packages)]
=============================================================================
