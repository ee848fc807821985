--------------------------- MODULE ClientThreads ---------------------------
(***************************************************************************)
(* The two threads of one client process (client/service/client.cpp).      *)
(* ChatClient knows no mutex and takes the look at flag_check with the     *)
(* send, and a package with all it does, as one step each.  Here main      *)
(* reads flag_check, sends and calls pthread_cond_wait; the receiving      *)
(* thread sets the flags one by one, signals and reconnects.  The mutex of *)
(* pthread_cond_wait is locked by the receiving thread, once and only if   *)
(* it is free, and nothing unlocks it but the wait itself, which does not  *)
(* look at its owner.                                                      *)
(*                                                                         *)
(* The server is what ChatServer lets a client see of it: it answers the   *)
(* requests in order, writes messages of others and may end.               *)
(***************************************************************************)
EXTENDS Integers, Sequences

CONSTANTS
    Commands,     \* the requests the user of the process types
    MaxRequests,  \* bound: packages in one direction of the connection
    MaxStrays,    \* bound: packages of the server that answer no request
    MaxDeaths     \* bound: times the server ends

VARIABLES
    pc,          \* where main is
    req,         \* the type of the package it has prepared last
    ret,         \* where it goes on after sending it or after the wait
    rpc,         \* where the receiving thread is
    effects,     \* what receiverHandler has not done yet of the last package
    mutex,       \* who locked it last, or "free"
    late,        \* the receiving thread started after the first wait began
    flag_check,  \* FLAG_ON: the server is known to be away
    flag_l,
    flag_w,
    flag_j,
    sock,        \* the socket: connected, ended, reset or new
    requests,    \* packages the server has not read
    answers,     \* packages the process has not received
    strays,
    deaths,
    why          \* observation: why the wait after the last request may not end

main == <<pc, req, ret>>
receiver == <<rpc, effects, late>>
flags == <<flag_l, flag_w, flag_j>>
wire == <<sock, requests, answers>>
bounds == <<strays, deaths>>
vars == <<main, receiver, mutex, flag_check, flags, wire, bounds, why>>

\* main, connectServer: the process is connected and has created the thread.
Init ==
    /\ pc = "excecute" /\ req = "none" /\ ret = "none"
    /\ rpc = "start" /\ effects = <<>> /\ late = FALSE
    /\ mutex = "free"
    /\ flag_check = FALSE
    /\ flag_l = FALSE /\ flag_w = FALSE /\ flag_j = FALSE
    /\ sock = "up" /\ requests = <<>> /\ answers = <<>>
    /\ strays = 0 /\ deaths = 0
    /\ why = {}

-----------------------------------------------------------------------------
(* Main: the prompts.  A dialogue can be left with ?ignore.                *)

\* Where main is busy with a request.
Pending == {"check", "send", "break", "unlock", "wait", "relock"}

\* Main goes on; of a request that is over nothing is kept.
Continue(next, reasons) ==
    /\ pc' = next
    /\ IF next \in Pending
       THEN why' = why \cup reasons /\ UNCHANGED <<req, ret>>
       ELSE why' = {} /\ req' = "none" /\ ret' = "none"

\* What happens outside is a reason if it happens to a request.
Note(reason) == why' = IF pc \in Pending THEN why \cup {reason} ELSE why

\* From a place main goes on by itself to another.
Goes(place, next) ==
    /\ pc = place
    /\ Continue(next, {})
    /\ UNCHANGED <<receiver, mutex, flag_check, flags, wire, bounds>>

\* At a prompt the user has typed what makes a request; first is what is done
\* with it first.
Types(place, type, first, next) ==
    /\ pc = place
    /\ pc' = first
    /\ req' = type
    /\ ret' = next
    /\ UNCHANGED <<receiver, mutex, flag_check, flags, wire, bounds, why>>

Asks(place, type, next) == Types(place, type, "check", next)

Excecute == Goes("excecute", IF flag_l THEN "command" ELSE "login")

loginHandler == Asks("login", "loginn", "excecute")

\* The requests after which commandHandler breaks out of its loop.
Breaks == {"withh", "joinn", "showRoom"}

\* The commands that have a dialogue of more than one request, or repeat it.
Dialogues == {"createUser", "modifyUser", "createRoom"}

commandHandler == Goes("command", IF flag_w \/ flag_j THEN "break" ELSE "line")

CommandLine ==
    \/ \E type \in Commands \ Dialogues : Asks("line", type, "command")
    \/ \E type \in Commands \cap Dialogues : Goes("line", type)

\* ?ignore
Ignores == \E type \in Dialogues : Goes(type, "command")

createNewUser ==
    \/ Asks("createUser", "getRoles", "createRole")
    \/ Asks("createRole", "createUser", "createUser")

\* modifyHandler sends its getRoles without looking at flag_check.
modifyHandler ==
    \/ Types("modifyUser", "getRoles", "send", "modifyRole")
    \/ Asks("modifyRole", "modifyUser", "command")

createNewRoom == Asks("createRoom", "createRoom", "createRoom")

withHandler == Goes("with", IF flag_w THEN "withLine" ELSE "room")

roomHandler == Goes("room", IF flag_j THEN "roomLine" ELSE "excecute")

\* A line of a chat: a message or ?back.
ChatLine ==
    \E type \in {"sendMess", "terminateChat"} :
        \/ Asks("withLine", type, "room")
        \/ Asks("roomLine", type, "excecute")

Prompted ==
    \/ loginHandler
    \/ CommandLine
    \/ Ignores
    \/ createNewUser
    \/ modifyHandler
    \/ createNewRoom
    \/ ChatLine

-----------------------------------------------------------------------------
(* Main: sending and waiting.                                              *)

\* The requests after which main waits whether or not they were sent.
WaitsAnyway == {"getuser", "finduser", "modifyRoom", "getRoles", "terminateChat"}

AfterSend(sent) ==
    CASE req \in Breaks -> IF sent THEN "break" ELSE "command"
      [] req = "sendMess" -> ret
      [] req \notin Breaks \cup {"sendMess"} ->
            IF sent \/ req \in WaitsAnyway THEN "unlock" ELSE ret

\* sendPackage: if(flag_check==FLAG_OFF)
CheckFlag ==
    /\ pc = "check"
    /\ IF flag_check THEN Continue(AfterSend(FALSE), {"unsent"})
                     ELSE Continue("send", {})
    /\ UNCHANGED <<receiver, mutex, flag_check, flags, wire, bounds>>

\* send(): to a connection the server has ended the first one is answered by a
\* reset; the next one, and one on a socket that is not connected, raises
\* SIGPIPE, which ends the process.
Puts(type) ==
    /\ requests' = IF sock = "up" THEN Append(requests, type) ELSE requests
    /\ sock' = IF sock = "dead" THEN "reset" ELSE sock
    /\ UNCHANGED answers

Fatal == sock \in {"reset", "raw"}

Send ==
    /\ pc = "send"
    /\ Len(requests) < MaxRequests
    /\ Puts(req)
    /\ Continue(IF Fatal THEN "killed" ELSE AfterSend(TRUE),
                IF sock = "up" THEN {} ELSE {"lost"})
    /\ rpc' = IF Fatal THEN "killed" ELSE rpc
    /\ UNCHANGED <<effects, late, mutex, flag_check, flags, bounds>>

\* Excecute, if (!flag_w && !flag_j) after commandHandler.
BreakWait ==
    /\ pc = "break"
    /\ IF flag_w \/ flag_j
       THEN Continue("with", {})
       ELSE pc' = "unlock" /\ ret' = "with" /\ UNCHANGED <<req, why>>
    /\ UNCHANGED <<receiver, mutex, flag_check, flags, wire, bounds>>

\* pthread_cond_wait: the mutex is unlocked, whoever has locked it ...
Wait ==
    /\ pc = "unlock"
    /\ pc' = "wait"
    /\ mutex' = "free"
    /\ UNCHANGED <<req, ret, receiver, flag_check, flags, wire, bounds, why>>

\* ... and locked again after the signal.
Relock ==
    /\ pc = "relock"
    /\ mutex = "free"
    /\ mutex' = "main"
    /\ Continue(ret, {})
    /\ UNCHANGED <<receiver, flag_check, flags, wire, bounds>>

\* What main does without its user.
Runs ==
    \/ Excecute
    \/ commandHandler
    \/ withHandler
    \/ roomHandler
    \/ CheckFlag
    \/ Send
    \/ BreakWait
    \/ Wait
    \/ Relock

-----------------------------------------------------------------------------
(* The receiving thread.                                                   *)

Locked == IF mutex = "free" THEN "receiver" ELSE mutex

\* pthread_mutex_trylock, before the loop.
Start ==
    /\ rpc = "start"
    /\ rpc' = "recv"
    /\ mutex' = Locked
    /\ late' = (pc = "wait")
    /\ UNCHANGED <<main, effects, flag_check, flags, wire, bounds, why>>

\* Mutant: the flags are reset after the end of a chat, main is not woken.
EffectsUnsignalled(type) ==
    CASE type = "loginSuccess" -> <<"setL", "signal">>
      [] type = "withSuccess" -> <<"setW", "clearJ", "signal">>
      [] type = "joinSuccess" -> <<"clearW", "setJ", "signal">>
      [] type = "successTerminate" -> <<"clearW", "clearJ">>
      [] type \in {"checkparty", "failTerminate"} -> <<>>
      [] OTHER -> <<"signal">>

\* receiverHandler: the writes to the flags and the signal of each type; "text"
\* is any of those that are printed only.
EffectsOf(type) ==
    CASE type = "loginSuccess" -> <<"setL", "signal">>
      [] type = "withSuccess" -> <<"setW", "clearJ", "signal">>
      [] type = "joinSuccess" -> <<"clearW", "setJ", "signal">>
      [] type = "successTerminate" -> <<"clearW", "clearJ", "signal">>
      [] type \in {"checkparty", "failTerminate"} -> <<>>
      [] OTHER -> <<"signal">>

\* Mutant: the mutex is taken for every package.
RecvLocking ==
    /\ rpc = "recv"
    /\ answers # <<>>
    /\ effects' = EffectsOf(Head(answers))
    /\ rpc' = IF effects' = <<>> THEN "recv" ELSE "handle"
    /\ answers' = Tail(answers)
    /\ flag_check' = FALSE
    /\ IF Head(answers) = "failTerminate" THEN Note("silent") ELSE UNCHANGED why
    /\ mutex' = Locked
    /\ UNCHANGED <<main, late, flags, sock, requests, bounds>>

\* recv() returns a package.
Recv ==
    /\ rpc = "recv"
    /\ answers # <<>>
    /\ effects' = EffectsOf(Head(answers))
    /\ rpc' = IF effects' = <<>> THEN "recv" ELSE "handle"
    /\ answers' = Tail(answers)
    /\ flag_check' = FALSE
    /\ IF Head(answers) = "failTerminate" THEN Note("silent") ELSE UNCHANGED why
    /\ UNCHANGED <<main, mutex, late, flags, sock, requests, bounds>>

\* One write or the signal; a signal that finds nobody waiting is gone.
Handle ==
    /\ rpc = "handle"
    /\ LET e == Head(effects)
       IN  /\ flag_l' = (flag_l \/ e = "setL")
           /\ flag_w' = ((flag_w \/ e = "setW") /\ e # "clearW")
           /\ flag_j' = ((flag_j \/ e = "setJ") /\ e # "clearJ")
           /\ pc' = IF e = "signal" /\ pc = "wait" THEN "relock" ELSE pc
           /\ IF e = "signal" /\ pc # "wait" THEN Note("early") ELSE UNCHANGED why
    /\ effects' = Tail(effects)
    /\ rpc' = IF Len(effects) = 1 THEN "recv" ELSE "handle"
    /\ UNCHANGED <<req, ret, late, mutex, flag_check, wire, bounds>>

\* recv() returns 0; after a reset it fails once before, which is printed.
\* flag_check is cleared for every result, then set.
RecvEnd ==
    /\ rpc = "recv"
    /\ answers = <<>>
    /\ sock \in {"dead", "reset"}
    /\ rpc' = "lost"
    /\ flag_check' = FALSE
    /\ UNCHANGED <<main, effects, late, mutex, flags, wire, bounds, why>>

\* Mutant: the socket is replaced with flag_check cleared.
SetFlagNot ==
    /\ rpc = "lost"
    /\ rpc' = "reconnect"
    /\ UNCHANGED <<main, effects, late, mutex, flag_check, flags, wire, bounds, why>>

SetFlag ==
    /\ rpc = "lost"
    /\ rpc' = "reconnect"
    /\ flag_check' = TRUE
    /\ Note("lost")
    /\ UNCHANGED <<main, effects, late, mutex, flags, wire, bounds>>

\* reconnectServer: close() and socket(), which returns the same number.
NewSocket ==
    /\ rpc = "reconnect"
    /\ sock' = "raw"
    /\ rpc' = "connect"
    /\ UNCHANGED <<main, effects, late, mutex, flag_check, flags, requests, answers,
                   bounds, why>>

\* connect(), which fails as long as the server is away, with a new socket
\* for every try.
Reconnect ==
    /\ rpc = "connect"
    /\ sock' = "up"
    /\ rpc' = "connected"
    /\ UNCHANGED <<main, effects, late, mutex, flag_check, flags, requests, answers,
                   bounds, why>>

Reconnected ==
    /\ rpc = "connected"
    /\ flag_check' = FALSE
    /\ rpc' = IF flag_l THEN "relogin" ELSE "recv"
    /\ UNCHANGED <<main, effects, late, mutex, flags, wire, bounds, why>>

\* The login is sent again, by this thread.
Relogin ==
    /\ rpc = "relogin"
    /\ Puts("loginn")
    /\ rpc' = IF Fatal THEN "killed" ELSE "recv"
    /\ pc' = IF Fatal THEN "killed" ELSE pc
    /\ UNCHANGED <<req, ret, effects, late, mutex, flag_check, flags, bounds, why>>

doRecieving ==
    \/ Start
    \/ Recv
    \/ Handle
    \/ RecvEnd
    \/ SetFlag
    \/ NewSocket
    \/ Reconnect
    \/ Reconnected
    \/ Relogin

-----------------------------------------------------------------------------
(* The server.                                                             *)

\* What the handlers of ChatServer write to the connection of a request; a
\* line in a room comes back to its sender.  A restored room that is full
\* leaves a login without an answer.
AnswersTo(type) ==
    CASE type = "loginn" -> {<<"loginSuccess">>, <<"text">>}
                            \cup (IF deaths > 0 THEN {<<>>} ELSE {})
      [] type = "withh" -> {<<"withSuccess">>, <<"text">>}
      [] type = "joinn" -> {<<"joinSuccess">>, <<"text">>}
      [] type = "terminateChat" -> {<<"successTerminate">>, <<"failTerminate">>}
      [] type = "sendMess" -> {<<>>, <<"text">>}
      [] OTHER -> {<<"text">>}

Answers ==
    /\ sock = "up"
    /\ requests # <<>>
    /\ Len(answers) < MaxRequests
    /\ \E a \in AnswersTo(Head(requests)) :
          /\ answers' = answers \o a
          /\ IF a = <<>> /\ Head(requests) = "loginn"
             THEN Note("silent") ELSE UNCHANGED why
    /\ requests' = Tail(requests)
    /\ UNCHANGED <<main, receiver, mutex, flag_check, flags, sock, bounds>>

\* A message of another user, or the news that the peer has come or gone.
Stray ==
    /\ sock = "up"
    /\ strays < MaxStrays
    /\ Len(answers) < MaxRequests
    /\ strays' = strays + 1
    /\ \E type \in {"text", "checkparty"} : answers' = Append(answers, type)
    /\ UNCHANGED <<main, receiver, mutex, flag_check, flags, sock, requests, deaths,
                   why>>

\* The server ends; what it has written can still be received.
Ends ==
    /\ sock = "up"
    /\ deaths < MaxDeaths
    /\ deaths' = deaths + 1
    /\ sock' = "dead"
    /\ requests' = <<>>
    /\ Note("lost")
    /\ UNCHANGED <<main, receiver, mutex, flag_check, flags, answers, strays>>

Server == Answers \/ Stray \/ Ends

-----------------------------------------------------------------------------
Next ==
    \/ Prompted
    \/ Runs
    \/ doRecieving
    \/ Server

\* Both threads run and the server answers; nothing is assumed of the user.
Fairness ==
    /\ WF_vars(Runs)
    /\ WF_vars(doRecieving)
    /\ WF_vars(Answers)

Spec == Init /\ [][Next]_vars /\ Fairness

-----------------------------------------------------------------------------
(* Properties.                                                             *)

\* The receiving thread ran its first line when the first wait had begun: it
\* has the mutex for ever, and the wait cannot return.
HeldForEver == late /\ pc = "relock"

\* After a wait main locks the mutex without delay, although the receiving
\* thread never unlocks it, unless that thread was created but had not run
\* when the first wait began.
MutexNeverBlocks == pc = "relock" /\ ~HeldForEver => mutex = "free"

\* flag_check keeps main from sending on a socket that is new and not connected
\* yet, which would end the process, unless the loss was noticed between the
\* check and the send, or the send is the one of modifyHandler that does not
\* look.
CheckProtects ==
    pc = "send" /\ sock = "raw" =>
        "lost" \in why \/ (req = "getRoles" /\ ret = "modifyRole")

\* Main stays in pthread_cond_wait only if a signal came before the wait, the
\* connection was lost, the request was not sent or not answered with a package
\* that signals, or the receiving thread was late with the mutex: the wait ends
\* in every other interleaving of the two threads, also after a command that
\* finds the flags changing under it.
WaitEndsOrWhy ==
    pc \in {"wait", "relock"}
    ~> pc \notin {"wait", "relock"} \/ why # {} \/ HeldForEver

\* A package that will signal is still to come.
Owed ==
    \/ requests # <<>>
    \/ \E k \in 1..Len(answers) : EffectsOf(answers[k]) # <<>>
    \/ effects # <<>>

\* While main waits after it has sent a login, the result is still to come
\* from the receiving thread.
LoginIsAnswered == pc = "wait" /\ req = "loginn" => Owed
=============================================================================
