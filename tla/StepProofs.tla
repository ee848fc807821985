----------------------------- MODULE StepProofs -----------------------------
(***************************************************************************)
(* The proof that the prompt of a client and the state of its user on the  *)
(* server are about the same peer or room, and that the count of a room is *)
(* the number of its users: as long as no lines of text are sent, which    *)
(* wake clients that wait for something else, the server is not started    *)
(* again, which brings back states that no client knows of, and the names  *)
(* of rooms are read back as they are, without which a user who has left a *)
(* room that was moved to another name stays in its list.                  *)
(*                                                                         *)
(* The operators below take the maps, the calls, the process and what it   *)
(* has sent as parameters, so that a step is a change of these.            *)
(***************************************************************************)
EXTENDS SystemProofs

Undisturbed ==
    /\ "sendMess" \notin Requests
    /\ MaxRestarts = 0
    /\ \A r \in Rooms : ReadBack[r] = {r}

-----------------------------------------------------------------------------
(* What the calls l of a handler do to the process of connection c.        *)

WritesTo(call, c) == call.op = "write" /\ c \in call.fds

\* A call that takes the process from one place to another ...
Moving == {"loginSuccess", "joinSuccess", "withSuccess", "successTerminate"}

Moves(call, c) == WritesTo(call, c) /\ call.pk.type \in Moving

\* ... and one that wakes its main.
Wakes(call, c) ==
    WritesTo(call, c) /\ call.pk.type \notin {"checkparty", "failTerminate"}

Unmoved(l, c) == \A call \in CallsIn(l) : ~Moves(call, c)

Unwoken(l, c) == \A call \in CallsIn(l) : ~Wakes(call, c)

\* The last call answers c, and no other one is for c.
Answering(l, c) ==
    /\ l # <<>> /\ l[Len(l)].op = "write" /\ l[Len(l)].fds = {c}
    /\ \A i \in 1..(Len(l) - 1) : ~WritesTo(l[i], c)

LastType(l) == l[Len(l)].pk.type

NoReplay(l) == \A call \in CallsIn(l) : call.op # "replay"

-----------------------------------------------------------------------------
(* Where the process p at the end of c is when it has sent the packages q, *)
(* the calls l are still to come and the state of its user is st.          *)

Shows(p, st) ==
    st = CASE p.flag_w -> WithUser(p.userw)
           [] ~p.flag_w /\ p.flag_j -> InRoom(p.roomw)
           [] OTHER -> Idle

Nowhere(p) == ~p.flag_w /\ ~p.flag_j

\* Its main has sent something and comes to the wait, or waits.
Awaits(p) == p.at \in {"break", "sent", "wait"}

Backs(q) == \A i \in 1..Len(q) : q[i].type = "terminateChat"

\* It waits for the answer to the command pk.
Asks(p, pk) ==
    /\ Awaits(p)
    /\ pk.type # "terminateChat"
    /\ pk.type = "withh" => p.userw = pk.user
    /\ pk.type = "joinn" => p.roomw = pk.room

\* Its command is not sent, not read, or answered.
Commands(l, c, p, q) ==
    \/ Backs(q) /\ Unwoken(l, c)
    \/ q # <<>> /\ Asks(p, q[Len(q)]) /\ Unwoken(l, c)
    \/ Awaits(p) /\ q = <<>> /\ Answering(l, c)

\* Its prompt is the state of its user ...
Shown(l, c, p, q, st) ==
    /\ Unmoved(l, c)
    /\ Shows(p, st)
    /\ IF st = Idle THEN Commands(l, c, p, q) ELSE p.at # "command"

\* ... or will be when the answer to its ?join or ?with ...
Entering(l, c, p, q, st) ==
    /\ Answering(l, c) /\ Nowhere(p) /\ Awaits(p) /\ q = <<>>
    /\ \/ LastType(l) = "joinSuccess" /\ st = InRoom(p.roomw)
       \/ LastType(l) = "withSuccess" /\ st = WithUser(p.userw)

\* ... to its ?back ...
Leaving(l, c, p, q, st) ==
    /\ Answering(l, c) /\ LastType(l) = "successTerminate"
    /\ st = Idle /\ Backs(q) /\ p.at # "command"

\* ... or to its login arrives.
LoggingIn(l, c, p, q, st) ==
    /\ TellsLogin(l, c) /\ Unwoken(Tail(l), c)
    /\ Nowhere(p) /\ Awaits(p) /\ q = <<>> /\ st = Idle

Phase(l, c, p, q, st) ==
    \/ /\ p.flag_l
       /\ \/ Shown(l, c, p, q, st)
          \/ Entering(l, c, p, q, st)
          \/ Leaving(l, c, p, q, st)
    \/ ~p.flag_l /\ LoggingIn(l, c, p, q, st)

\* In the map of accounts m.
InStep(m, l, c, p, q) ==
    IF On(m, c) = {} THEN ~p.flag_l /\ Nowhere(p)
    ELSE \A u \in On(m, c) : Phase(l, c, p, q, m[u].state)

\* What the server reads of c: one login, or ?backs and behind them one other
\* command of a user who is nowhere.
Lined(m, c, q) ==
    \A i \in 1..Len(q) :
        IF On(m, c) = {} THEN i = 1 /\ q[i].type = "loginn"
        ELSE \/ q[i].type = "terminateChat"
             \/ /\ i = Len(q) /\ q[i].type # "loginn"
                /\ \A u \in On(m, c) : m[u].state = Idle

\* The mark on the prompt of a chat is right or about to be set.
Notified(l, c) ==
    \E call \in CallsIn(l) : WritesTo(call, c) /\ call.pk.type = "checkparty"

Marked(m, l, c, p) ==
    \A u \in On(m, c) :
        p.flag_w /\ m[u].state = WithUser(p.userw) =>
            \/ p.flag_w_online <=> p.userw \in Online(m)
            \/ Notified(l, c)

-----------------------------------------------------------------------------
(* The server.                                                             *)

\* What a call says of the peer of a user is true.
Truthful(m, call) ==
    call.op = "write" /\ call.pk.type \in {"checkparty", "withSuccess"} =>
        \A c \in call.fds : \A u \in On(m, c) :
            m[u].state.type = 1 =>
                (call.pk.online <=> m[u].state.name \in Online(m))

AllTruthful(m, l) == \A call \in CallsIn(l) : Truthful(m, call)

\* The lists of the rooms hold the connections of users who are in them.
Seats(m, rooms) ==
    \A r \in DOMAIN rooms : \A c \in listClients(rooms[r]) :
        \E u \in On(m, c) : m[u].state = InRoom(r)

OfflineIdle(m) == \A u \in DOMAIN m : m[u].fd = NoFd => m[u].state = Idle

Steady(c) ==
    /\ sock[c] = "open" =>
          /\ InStep(mapuser, todo, c, client[c], queue[c])
          /\ Marked(mapuser, todo, c, client[c])
    /\ Lined(mapuser, c, queue[c])
    /\ up /\ sock[c] = "free" => ~client[c].alive

StepInv ==
    /\ chats = <<>> /\ NoReplay(todo) /\ AllTruthful(mapuser, todo)
    /\ Seats(mapuser, roomMap) /\ OfflineIdle(mapuser)
    /\ \A c \in Fds : Steady(c)

-----------------------------------------------------------------------------
(* The calls that are left.                                                *)

LEMMA EmptyList ==
    ASSUME NEW S, NEW l \in Seq(S)
    PROVE  l = <<>> <=> Len(l) = 0
OBVIOUS

LEMMA ListParts ==
    ASSUME NEW S, NEW l \in Seq(S), l # <<>>
    PROVE  /\ Len(l) \in Nat /\ Len(l) >= 1 /\ Head(l) = l[1]
           /\ Tail(l) \in Seq(S) /\ Len(Tail(l)) = Len(l) - 1
           /\ \A i \in 1..(Len(l) - 1) : Tail(l)[i] = l[i + 1]
           /\ Tail(l) = <<>> <=> Len(l) = 1
<1>1. /\ Len(l) \in Nat /\ Len(l) >= 1 /\ Head(l) = l[1]
      /\ Tail(l) \in Seq(S) /\ Len(Tail(l)) = Len(l) - 1
      /\ \A i \in 1..(Len(l) - 1) : Tail(l)[i] = l[i + 1]
      OBVIOUS
<1>2. Tail(l) = <<>> <=> Len(Tail(l)) = 0
      BY <1>1, EmptyList
<1>. QED  BY <1>1, <1>2

LEMMA ConcatParts ==
    ASSUME NEW S, NEW s \in Seq(S), NEW l \in Seq(S)
    PROVE  /\ Len(s \o l) = Len(s) + Len(l) /\ Len(s) \in Nat /\ Len(l) \in Nat
           /\ \A i \in 1..Len(s) : (s \o l)[i] = s[i]
           /\ \A i \in (Len(s) + 1)..(Len(s) + Len(l)) :
                 (s \o l)[i] = l[i - Len(s)]
OBVIOUS

LEMMA AnswerComes ==
    ASSUME NEW l \in Seq(Calls), NEW c, Answering(l, c), WritesTo(Head(l), c)
    PROVE  Tail(l) = <<>> /\ Head(l).fds = {c} /\ Head(l).pk.type = LastType(l)
<1>1. l # <<>> /\ Len(l) \in Nat /\ Len(l) >= 1 /\ Head(l) = l[1]
      BY ListParts DEF Answering
<1>2. Len(l) = 1
  <2>1. ASSUME NEW n \in Nat, n >= 1, n # 1
        PROVE  1 \in 1..(n - 1)
        BY <2>1
  <2>2. Len(l) # 1 => ~WritesTo(l[1], c)
        BY <1>1, <2>1 DEF Answering
  <2>. QED  BY <1>1, <2>2
<1>. QED  BY <1>1, <1>2, ListParts DEF Answering, LastType

LEMMA AnswerStays ==
    ASSUME NEW l \in Seq(Calls), NEW c, Answering(l, c), ~WritesTo(Head(l), c)
    PROVE  Answering(Tail(l), c) /\ LastType(Tail(l)) = LastType(l)
<1>1. /\ l # <<>> /\ Len(l) \in Nat /\ Len(l) >= 1 /\ Head(l) = l[1]
      /\ Len(Tail(l)) = Len(l) - 1 /\ (Tail(l) = <<>> <=> Len(l) = 1)
      /\ \A i \in 1..(Len(l) - 1) : Tail(l)[i] = l[i + 1]
      BY ListParts DEF Answering
<1>2. Len(l) # 1
      BY <1>1 DEF Answering, WritesTo
<1>3. Tail(l) # <<>> /\ Tail(l)[Len(Tail(l))] = l[Len(l)]
      BY <1>1, <1>2
<1>4. \A i \in 1..(Len(Tail(l)) - 1) : ~WritesTo(Tail(l)[i], c)
      BY <1>1 DEF Answering
<1>. QED  BY <1>3, <1>4 DEF Answering, LastType

LEMMA AnswerBehind ==
    ASSUME NEW s \in Seq(Calls), NEW l \in Seq(Calls), NEW c, Answering(l, c),
           \A call \in CallsIn(s) : ~WritesTo(call, c)
    PROVE  Answering(s \o l, c) /\ LastType(s \o l) = LastType(l)
<1>. DEFINE k == s \o l
<1>1. /\ Len(k) = Len(s) + Len(l) /\ Len(s) \in Nat /\ Len(l) \in Nat
      /\ \A i \in 1..Len(s) : k[i] = s[i]
      /\ \A i \in (Len(s) + 1)..(Len(s) + Len(l)) : k[i] = l[i - Len(s)]
      BY ConcatParts
<1>2. Len(l) >= 1 /\ k # <<>>
      BY ListParts DEF Answering
<1>. HIDE DEF k
<1>3. k[Len(k)] = l[Len(l)]
      BY <1>1, <1>2
<1>4. ASSUME NEW i \in 1..(Len(k) - 1)
      PROVE  ~WritesTo(k[i], c)
  <2>1. CASE i <= Len(s)
        BY <1>1, <2>1 DEF CallsIn
  <2>2. CASE i > Len(s)
    <3>1. i - Len(s) \in 1..(Len(l) - 1) /\ k[i] = l[i - Len(s)]
          BY <1>1, <2>2
    <3>. QED  BY <3>1 DEF Answering
  <2>. QED  BY <1>1, <2>1, <2>2
<1>5. Answering(k, c) /\ LastType(k) = LastType(l)
      BY <1>2, <1>3, <1>4 DEF Answering, LastType
<1>. QED  BY <1>5 DEF k

\* A call that is not for c has been made, or a part of it.
LEMMA PhaseGoesOn ==
    ASSUME NEW l \in Seq(Calls), l # <<>>, NEW c, ~WritesTo(Head(l), c),
           NEW p, NEW q, NEW st, Phase(l, c, p, q, st),
           NEW s \in Seq(Calls), \A call \in CallsIn(s) : ~WritesTo(call, c)
    PROVE  Phase(s \o Tail(l), c, p, q, st)
<1>. DEFINE k == s \o Tail(l)
<1>1. /\ Tail(l) \in Seq(Calls) /\ CallsIn(Tail(l)) \subseteq CallsIn(l)
      /\ CallsIn(k) = CallsIn(s) \cup CallsIn(Tail(l))
      BY CallsInTail, CallsInConcat
<1>2. Answering(l, c) => Answering(k, c) /\ LastType(k) = LastType(l)
      BY <1>1, AnswerStays, AnswerBehind
<1>. HIDE DEF k
<1>3. /\ Unmoved(l, c) => Unmoved(k, c)
      /\ Unwoken(l, c) => Unwoken(k, c)
      BY <1>1 DEF Unmoved, Unwoken, Moves, Wakes
<1>4. ~TellsLogin(l, c)
      BY DEF TellsLogin, WritesTo
<1>5. Shown(l, c, p, q, st) => Shown(k, c, p, q, st)
      BY <1>2, <1>3 DEF Shown, Commands
<1>6. Entering(l, c, p, q, st) => Entering(k, c, p, q, st)
      BY <1>2 DEF Entering
<1>7. Leaving(l, c, p, q, st) => Leaving(k, c, p, q, st)
      BY <1>2 DEF Leaving
<1>8. Phase(k, c, p, q, st)
      BY <1>4, <1>5, <1>6, <1>7 DEF Phase, LoggingIn
<1>. QED  BY <1>8 DEF k

-----------------------------------------------------------------------------
(* A package reaches a process.                                            *)

\* What a package makes of the flags.
Sets(p, pk, x) ==
    /\ x.userw = p.userw /\ x.roomw = p.roomw
    /\ x.flag_l <=> p.flag_l \/ pk.type = "loginSuccess"
    /\ pk.type = "joinSuccess" => ~x.flag_w /\ x.flag_j
    /\ pk.type = "withSuccess" => x.flag_w /\ x.flag_w_online = pk.online
    /\ pk.type = "successTerminate" => Nowhere(x)
    /\ pk.type \notin {"joinSuccess", "withSuccess", "successTerminate"}
       => x.flag_w = p.flag_w /\ x.flag_j = p.flag_j
    /\ pk.type \notin {"withSuccess", "checkparty"}
       => x.flag_w_online = p.flag_w_online
    /\ pk.type = "checkparty" => x.flag_w_online = pk.online

LEMMA FlagsSteps ==
    ASSUME NEW p \in KnownClients, NEW pk \in AnswerPackages,
           NEW x, x = Flags(p, pk)
    PROVE  Sets(p, pk, x) /\ x.at = p.at
<1>1. p \in Clients
      BY DEF KnownClients
<1>2. CASE pk.type = "loginSuccess"
  <2>1. x = KeepLogin(p, pk)
        BY <1>2 DEF Flags
  <2>2. /\ x.userw = p.userw /\ x.roomw = p.roomw /\ x.at = p.at
        /\ x.flag_l /\ x.flag_w = p.flag_w /\ x.flag_j = p.flag_j
        /\ x.flag_w_online = p.flag_w_online
        BY <1>1, <2>1 DEF KeepLogin, Clients
  <2>. QED  BY <1>2, <2>2 DEF Sets
<1>3. CASE pk.type = "joinSuccess"
  <2>1. x = [EndChat(p) EXCEPT !.flag_j = TRUE]
        BY <1>3 DEF Flags
  <2>2. /\ x.userw = p.userw /\ x.roomw = p.roomw /\ x.at = p.at
        /\ x.flag_l = p.flag_l /\ ~x.flag_w /\ x.flag_j
        /\ x.flag_w_online = p.flag_w_online
        BY <1>1, <2>1 DEF EndChat, Clients
  <2>. QED  BY <1>3, <2>2 DEF Sets
<1>4. CASE pk.type = "withSuccess"
  <2>1. x = [EndChat(p) EXCEPT !.flag_w = TRUE, !.flag_w_online = pk.online]
        BY <1>4 DEF Flags
  <2>2. /\ x.userw = p.userw /\ x.roomw = p.roomw /\ x.at = p.at
        /\ x.flag_l = p.flag_l /\ x.flag_w /\ x.flag_w_online = pk.online
        BY <1>1, <2>1 DEF EndChat, Clients
  <2>. QED  BY <1>4, <2>2 DEF Sets
<1>5. CASE pk.type = "checkparty"
  <2>1. x = [p EXCEPT !.flag_w_online = pk.online]
        BY <1>5 DEF Flags
  <2>2. /\ x.userw = p.userw /\ x.roomw = p.roomw /\ x.at = p.at
        /\ x.flag_l = p.flag_l /\ x.flag_w = p.flag_w /\ x.flag_j = p.flag_j
        /\ x.flag_w_online = pk.online
        BY <1>1, <2>1 DEF Clients
  <2>. QED  BY <1>5, <2>2 DEF Sets
<1>6. CASE pk.type = "successTerminate"
  <2>1. x = EndChat(p)
        BY <1>6 DEF Flags
  <2>2. /\ x.userw = p.userw /\ x.roomw = p.roomw /\ x.at = p.at
        /\ x.flag_l = p.flag_l /\ ~x.flag_w /\ ~x.flag_j
        /\ x.flag_w_online = p.flag_w_online
        BY <1>1, <2>1 DEF EndChat, Clients
  <2>. QED  BY <1>6, <2>2 DEF Nowhere, Sets
<1>7. CASE pk.type \notin {"loginSuccess", "joinSuccess", "withSuccess",
                           "checkparty", "successTerminate"}
  <2>1. x = p
        BY <1>7 DEF Flags
  <2>. QED  BY <1>1, <1>7, <2>1 DEF Sets, Clients
<1>. QED  BY <1>2, <1>3, <1>4, <1>5, <1>6, <1>7

\* Main stays where it is or, woken from the wait, comes to its prompt.
LEMMA ReceiverSteps ==
    ASSUME NEW p \in KnownClients, NEW pk \in AnswerPackages,
           NEW x \in receiverHandler(p, pk)
    PROVE  /\ Sets(p, pk, x)
           /\ x.at = p.at \/ (p.at = "wait" /\ x.at = Prompt(x))
           /\ pk.type \in {"checkparty", "failTerminate"} => x.at = p.at
           /\ p.at = "wait" /\ pk.type \in Moving => x.at = Prompt(x)
<1>. DEFINE f == Flags(p, pk)
<1>1. f \in KnownClients
      BY FlagsType
<1>2. x = f \/ x = Signal(f)
      BY DEF receiverHandler
<1>3. pk.type \in {"checkparty", "failTerminate"} => x = f
      BY DEF receiverHandler, Signals
<1>4. pk.type \in Moving => x = Signal(f)
      BY DEF receiverHandler, Signals, Moving
<1>5. Sets(p, pk, f) /\ f.at = p.at
      BY FlagsSteps
<1>6. ASSUME NEW g, g = f
      PROVE  /\ g \in Clients
             /\ g.at = "wait" =>
                  /\ Signal(g).at = Prompt(Signal(g))
                  /\ Signal(g).userw = g.userw /\ Signal(g).roomw = g.roomw
                  /\ Signal(g).flag_l = g.flag_l /\ Signal(g).flag_w = g.flag_w
                  /\ Signal(g).flag_j = g.flag_j
                  /\ Signal(g).flag_w_online = g.flag_w_online
             /\ g.at # "wait" => Signal(g) = g
  <2>1. g \in Clients
        BY <1>1, <1>6 DEF KnownClients
  <2>. HIDE DEF f
  <2>. QED  BY <2>1 DEF Signal, Proceed, Prompt, Clients
<1>7. CASE x = f
      BY <1>1, <1>4, <1>5, <1>6, <1>7
<1>8. CASE x = Signal(f) /\ f.at = "wait"
  <2>. HIDE DEF f
  <2>1. /\ x.at = Prompt(x) /\ x.userw = f.userw /\ x.roomw = f.roomw
        /\ x.flag_l = f.flag_l /\ x.flag_w = f.flag_w /\ x.flag_j = f.flag_j
        /\ x.flag_w_online = f.flag_w_online
        BY <1>6, <1>8
  <2>2. Sets(p, pk, x)
        BY <1>5, <2>1 DEF Sets, Nowhere
  <2>3. pk.type \in {"checkparty", "failTerminate"} => x.at = p.at
        BY <1>3, <1>5
  <2>. QED  BY <1>5, <1>8, <2>1, <2>2, <2>3
<1>. QED  BY <1>2, <1>6, <1>7, <1>8

LEMMA PromptSteps ==
    ASSUME NEW p \in KnownClients, p.flag_l
    PROVE  /\ Nowhere(p) <=> Prompt(p) = "command"
           /\ ~Nowhere(p) => Prompt(p) \in {"with", "room"}
BY DEF KnownClients, Clients, Prompt, Nowhere

LEMMA PlaceShown ==
    ASSUME NEW p \in KnownClients, NEW st
    PROVE  /\ Nowhere(p) => (Shows(p, st) <=> st = Idle)
           /\ Shows(p, Idle) => Nowhere(p)
BY DEF KnownClients, Clients, Nowhere, Shows, Idle, WithUser, InRoom

\* Nothing is left of a handler.
LEMMA NothingLeft ==
    ASSUME NEW c
    PROVE  /\ Unmoved(<<>>, c) /\ Unwoken(<<>>, c) /\ Backs(<<>>)
           /\ ~Answering(<<>>, c) /\ ~TellsLogin(<<>>, c) /\ ~Notified(<<>>, c)
BY CallsInNone DEF Unmoved, Unwoken, Backs, Answering, TellsLogin, Notified

\* The head of the calls reaches the process of c.
LEMMA PhaseArrives ==
    ASSUME NEW l \in Seq(Calls), l # <<>>, NEW c, WritesTo(Head(l), c),
           NEW pk, pk = Head(l).pk, pk \in AnswerPackages,
           NEW p \in KnownClients, NEW x \in receiverHandler(p, pk),
           NEW q, NEW st, Phase(l, c, p, q, st),
           NEW s \in Seq(Calls), Head(l).fds = {c} => s = <<>>,
           \A call \in CallsIn(s) : ~WritesTo(call, c)
    PROVE  Phase(s \o Tail(l), c, x, q, st)
<1>. DEFINE k == s \o Tail(l)
<1>1. /\ Tail(l) \in Seq(Calls)
      /\ CallsIn(l) = {Head(l)} \cup CallsIn(Tail(l))
      /\ CallsIn(k) = CallsIn(s) \cup CallsIn(Tail(l))
      BY CallsInTail, CallsInConcat
<1>2. s = <<>> => k = Tail(l)
      BY <1>1
<1>. HIDE DEF k
<1>3. /\ Unmoved(l, c) => Unmoved(k, c) /\ pk.type \notin Moving
      /\ Unwoken(l, c) => /\ Unwoken(k, c)
                          /\ pk.type \in {"checkparty", "failTerminate"}
      /\ Unwoken(Tail(l), c) => Unwoken(k, c) /\ Unmoved(k, c)
      BY <1>1 DEF Unmoved, Unwoken, Moves, Wakes, Moving
<1>4. Answering(l, c) => k = <<>> /\ pk.type = LastType(l)
      BY <1>2, AnswerComes
<1>5. /\ x \in KnownClients /\ Sets(p, pk, x)
      /\ x.at = p.at \/ (p.at = "wait" /\ x.at = Prompt(x))
      /\ pk.type \in {"checkparty", "failTerminate"} => x.at = p.at
      /\ p.at = "wait" /\ pk.type \in Moving => x.at = Prompt(x)
      BY ReceiverSteps, ReceiverType
<1>6. ASSUME p.flag_l, Shown(l, c, p, q, st)
      PROVE  Phase(k, c, x, q, st)
  <2>1. /\ pk.type \notin Moving /\ Unmoved(k, c)
        /\ x.flag_l /\ x.flag_w = p.flag_w /\ x.flag_j = p.flag_j
        /\ x.userw = p.userw /\ x.roomw = p.roomw
        BY <1>3, <1>5, <1>6 DEF Shown, Sets, Moving
  <2>2. Shows(x, st)
        BY <1>6, <2>1 DEF Shown, Shows
  <2>3. CASE st # Idle
    <3>1. ~Nowhere(x)
          BY <1>5, <2>2, <2>3, PlaceShown
    <3>2. x.at # "command"
          BY <1>5, <1>6, <2>1, <2>3, <3>1, PromptSteps DEF Shown
    <3>. QED  BY <2>1, <2>2, <2>3, <3>2 DEF Shown, Phase
  <2>4. ASSUME st = Idle
        PROVE  Phase(k, c, x, q, st)
    <3>1. ASSUME Backs(q), Unwoken(l, c)
          PROVE  Commands(k, c, x, q)
          BY <1>3, <3>1 DEF Commands
    <3>2. ASSUME q # <<>>, Asks(p, q[Len(q)]), Unwoken(l, c)
          PROVE  Commands(k, c, x, q)
      <4>1. Asks(x, q[Len(q)]) /\ Unwoken(k, c)
            BY <1>3, <1>5, <2>1, <3>2 DEF Asks, Awaits
      <4>. QED  BY <3>2, <4>1 DEF Commands
    <3>3. ASSUME Awaits(p), q = <<>>, Answering(l, c)
          PROVE  Commands(k, c, x, q)
          BY <1>4, <3>3, NothingLeft DEF Commands
    <3>4. Commands(k, c, x, q)
          BY <1>6, <2>4, <3>1, <3>2, <3>3 DEF Shown, Commands
    <3>. QED  BY <2>1, <2>2, <2>4, <3>4 DEF Shown, Phase
  <2>. QED  BY <2>3, <2>4
<1>7. ASSUME p.flag_l, Entering(l, c, p, q, st)
      PROVE  Phase(k, c, x, q, st)
  <2>1. /\ k = <<>> /\ q = <<>> /\ Awaits(p)
        /\ \/ pk.type = "joinSuccess" /\ st = InRoom(p.roomw)
           \/ pk.type = "withSuccess" /\ st = WithUser(p.userw)
        BY <1>4, <1>7 DEF Entering
  <2>2. /\ x.flag_l /\ ~Nowhere(x)
        /\ x.at = Prompt(x) \/ x.at \in {"break", "sent"}
        BY <1>5, <1>7, <2>1 DEF Sets, Moving, Nowhere, Awaits
  <2>3. Shows(x, st)
        BY <1>5, <2>1 DEF Sets, Shows
  <2>4. st # Idle /\ x.at # "command"
        BY <1>5, <2>1, <2>2, PromptSteps DEF Idle, InRoom, WithUser
  <2>. QED  BY <2>1, <2>2, <2>3, <2>4, NothingLeft DEF Shown, Phase
<1>8. ASSUME p.flag_l, Leaving(l, c, p, q, st)
      PROVE  Phase(k, c, x, q, st)
  <2>1. /\ k = <<>> /\ st = Idle /\ Backs(q)
        /\ x.flag_l /\ Nowhere(x)
        BY <1>4, <1>5, <1>8 DEF Leaving, Sets
  <2>2. Shows(x, st)
        BY <1>5, <2>1, PlaceShown
  <2>. QED  BY <2>1, <2>2, NothingLeft DEF Shown, Commands, Phase
<1>9. ASSUME ~p.flag_l, LoggingIn(l, c, p, q, st)
      PROVE  Phase(k, c, x, q, st)
  <2>1. /\ pk.type = "loginSuccess" /\ k = Tail(l) /\ st = Idle /\ q = <<>>
        /\ Unwoken(k, c) /\ Unmoved(k, c)
        BY <1>2, <1>3, <1>9 DEF LoggingIn, TellsLogin
  <2>2. x.flag_l /\ Nowhere(x)
        BY <1>5, <1>9, <2>1 DEF LoggingIn, Sets, Nowhere
  <2>3. Shows(x, st)
        BY <1>5, <2>1, <2>2, PlaceShown
  <2>. QED  BY <2>1, <2>2, <2>3, NothingLeft DEF Shown, Commands, Phase
<1>10. Phase(k, c, x, q, st)
       BY <1>6, <1>7, <1>8, <1>9 DEF Phase
<1>. QED  BY <1>10 DEF k

-----------------------------------------------------------------------------
(* The steps of the processes.                                             *)

\* What one connection needs, with everything else as it is.
LEMMA OneSlotSteps ==
    ASSUME TypeOK, StepInv, NEW c \in Fds,
           UNCHANGED <<up, mapuser, roomMap, todo, chats>>,
           \A d \in Fds : d # c =>
               /\ client'[d] = client[d] /\ queue'[d] = queue[d]
               /\ sock'[d] = sock[d],
           Steady(c)'
    PROVE  StepInv'
<1>1. ASSUME NEW d \in Fds, d # c
      PROVE  Steady(d)'
  <2>1. Steady(d)
        BY DEF StepInv
  <2>2. client'[d] = client[d] /\ queue'[d] = queue[d] /\ sock'[d] = sock[d]
        BY <1>1
  <2>. QED  BY <2>1, <2>2 DEF Steady
<1>2. \A d \in Fds : Steady(d)'
      BY <1>1
<1>. QED  BY <1>2 DEF StepInv

\* What the invariants say of the process at the end of an open connection.
LEMMA SlotFacts ==
    ASSUME ClientInv, LoginInv, StepInv, NEW c \in Fds, sock[c] = "open"
    PROVE  /\ client[c] \in KnownClients /\ queue[c] \in Seq(Packages)
           /\ InStep(mapuser, todo, c, client[c], queue[c])
           /\ Marked(mapuser, todo, c, client[c])
           /\ Lined(mapuser, c, queue[c])
           /\ client[c].flag_l => On(mapuser, c) # {} /\ client[c].at # "login"
           /\ ~client[c].flag_l => /\ Out(c)
                                   /\ client[c].at \in {"login", "sent", "wait"}
           /\ \A u, v \in On(mapuser, c) : u = v
<1>1. Steady(c) /\ Held(c) /\ Talks(c)
      BY DEF StepInv, LoginInv
<1>2. client[c].flag_l => On(mapuser, c) # {}
      BY <1>1 DEF Steady, InStep
<1>. QED  BY <1>1, <1>2 DEF ClientInv, Steady, Held, Talks

\* Main goes from one place to another, with the rest as it was.
MovedOn(p, x) ==
    /\ x.flag_l = p.flag_l /\ x.flag_w = p.flag_w /\ x.flag_j = p.flag_j
    /\ x.flag_w_online = p.flag_w_online
    /\ x.userw = p.userw /\ x.roomw = p.roomw

LEMMA PlaceMoves ==
    ASSUME NEW p \in Clients, NEW place, NEW x, x = [p EXCEPT !.at = place]
    PROVE  MovedOn(p, x) /\ x.at = place
BY DEF MovedOn, Clients

\* A line sent at a prompt.
LEMMA LineSteps ==
    ASSUME ClientInv, NEW c \in Fds, NEW pk \in Packages, Line(c, pk),
           "sendMess" \notin Requests
    PROVE  /\ queue'[c] = Append(queue[c], pk)
           /\ \A d \in Fds : d # c =>
                 client'[d] = client[d] /\ queue'[d] = queue[d]
           /\ client'[c].flag_l = client[c].flag_l
           /\ client'[c].flag_w = client[c].flag_w
           /\ client'[c].flag_j = client[c].flag_j
           /\ client'[c].flag_w_online = client[c].flag_w_online
           /\ Awaits(client'[c])
           /\ \/ pk.type = "loginn" /\ client[c].at = "login"
              \/ /\ pk.type \notin {"loginn", "terminateChat"}
                 /\ client[c].at = "command"
                 /\ pk.type = "withh" => client'[c].userw = pk.user
                 /\ pk.type = "joinn" => client'[c].roomw = pk.room
              \/ /\ pk.type = "terminateChat"
                 /\ client[c].at \in {"with", "room"}
                 /\ client'[c].userw = client[c].userw
                 /\ client'[c].roomw = client[c].roomw
<1>1. client[c] \in Clients
      BY DEF ClientInv, KnownClients
<1>2. Handler(c, pk) /\ Sends(c, pk)
      BY DEF Line
<1>3. /\ queue'[c] = Append(queue[c], pk)
      /\ \A d \in Fds : d # c => queue'[d] = queue[d]
      BY <1>2 DEF Sends, ClientInv
<1>4. ~ChatLine(c, pk)
      BY DEF ChatLine, Packages
<1>5. ASSUME loginHandler(c, pk) \/ Back(c, pk)
      PROVE  /\ client' = [client EXCEPT ![c] = Sent(client[c])]
             /\ \/ client[c].at = "login" /\ pk.type = "loginn"
                \/ client[c].at \in {"with", "room"} /\ pk.type = "terminateChat"
      BY <1>5 DEF loginHandler, MayLogin, Back, At
<1>6. CASE loginHandler(c, pk) \/ Back(c, pk)
  <2>1. /\ client'[c] = Sent(client[c])
        /\ \A d \in Fds : d # c => client'[d] = client[d]
        BY <1>5, <1>6 DEF ClientInv
  <2>2. MovedOn(client[c], client'[c]) /\ Awaits(client'[c])
        BY <1>1, <2>1, PlaceMoves DEF Sent, Awaits
  <2>. QED  BY <1>3, <1>5, <1>6, <2>1, <2>2 DEF MovedOn
<1>7. CASE commandHandler(c, pk)
  <2>. DEFINE a == Aimed(client[c], pk)
              place == IF pk.type \in Breaks THEN "break" ELSE "sent"
  <2>1. /\ a \in Clients
        /\ a.flag_l = client[c].flag_l /\ a.flag_w = client[c].flag_w
        /\ a.flag_j = client[c].flag_j
        /\ a.flag_w_online = client[c].flag_w_online
        /\ pk.type = "withh" => a.userw = pk.user
        /\ pk.type = "joinn" => a.roomw = pk.room
    <3>1. pk.type = "withh" => pk.user \in Users
          BY DEF Packages
    <3>2. pk.type = "joinn" => pk.room \in Rooms
          BY DEF Packages
    <3>. QED  BY <1>1, <3>1, <3>2 DEF Aimed, Clients
  <2>2. client' = [client EXCEPT ![c] = [a EXCEPT !.at = place]]
        BY <1>7 DEF commandHandler
  <2>3. client[c].at = "command" /\ pk.type \notin {"loginn", "terminateChat"}
        BY <1>7 DEF commandHandler, MayCommand, At, UserCommands, AdminCommands
  <2>4. place \in {"break", "sent"}
        OBVIOUS
  <2>. HIDE DEF a, place
  <2>5. /\ client'[c] = [a EXCEPT !.at = place]
        /\ \A d \in Fds : d # c => client'[d] = client[d]
        BY <2>2 DEF ClientInv
  <2>6. MovedOn(a, client'[c]) /\ Awaits(client'[c])
        BY <2>1, <2>4, <2>5, PlaceMoves DEF Awaits
  <2>. QED  BY <1>3, <2>1, <2>3, <2>5, <2>6 DEF MovedOn
<1>. QED  BY <1>2, <1>4, <1>6, <1>7 DEF Handler

LEMMA LineBehind ==
    ASSUME NEW q \in Seq(Packages), NEW pk \in Packages,
           NEW r, r = Append(q, pk)
    PROVE  /\ r \in Seq(Packages) /\ r # <<>> /\ r[Len(r)] = pk
           /\ Backs(q) /\ pk.type = "terminateChat" => Backs(r)
           /\ Backs(q) => \A i \in 1..Len(r) : i = Len(r) \/ r[i].type = "terminateChat"
           /\ q = <<>> => \A i \in 1..Len(r) : i = 1 /\ r[i] = pk
<1>1. /\ r \in Seq(Packages) /\ Len(r) = Len(q) + 1 /\ Len(q) \in Nat
      /\ (\A i \in 1..Len(q) : r[i] = q[i]) /\ r[Len(q) + 1] = pk
      OBVIOUS
<1>2. r # <<>> /\ r[Len(r)] = pk
  <2>1. Len(r) # 0
        BY <1>1
  <2>. QED  BY <1>1, <2>1, EmptyList
<1>3. \A i \in 1..Len(r) : i \in 1..Len(q) \/ i = Len(r)
      BY <1>1
<1>4. q = <<>> => Len(q) = 0
      BY EmptyList
<1>. QED  BY <1>1, <1>2, <1>3, <1>4 DEF Backs

\* A user types a line: ?back at the prompt of a chat or a room, a command of
\* a user who is in neither, or a login.
LEMMA TypeSteps ==
    ASSUME TypeOK, ClientInv, LoginInv, StepInv, NEW c \in Fds, Type(c),
           "sendMess" \notin Requests
    PROVE  StepInv'
<1>. DEFINE p == client[c]
            x == client'[c]
            q == queue[c]
            r == queue'[c]
<1>1. sock[c] = "open" /\ UNCHANGED vars
      BY DEF Type, server
<1>2. PICK pk \in Packages : Line(c, pk)
      BY DEF Type
<1>3. /\ r = Append(q, pk)
      /\ \A d \in Fds : d # c => client'[d] = client[d] /\ queue'[d] = queue[d]
      /\ x.flag_l = p.flag_l /\ x.flag_w = p.flag_w /\ x.flag_j = p.flag_j
      /\ x.flag_w_online = p.flag_w_online
      /\ Awaits(x)
      BY <1>2, LineSteps
<1>4. \/ pk.type = "loginn" /\ p.at = "login"
      \/ /\ pk.type \notin {"loginn", "terminateChat"} /\ p.at = "command"
         /\ pk.type = "withh" => x.userw = pk.user
         /\ pk.type = "joinn" => x.roomw = pk.room
      \/ /\ pk.type = "terminateChat" /\ p.at \in {"with", "room"}
         /\ x.userw = p.userw /\ x.roomw = p.roomw
      BY <1>2, LineSteps
<1>5. /\ p \in KnownClients /\ q \in Seq(Packages)
      /\ InStep(mapuser, todo, c, p, q) /\ Marked(mapuser, todo, c, p)
      /\ Lined(mapuser, c, q)
      /\ p.flag_l => On(mapuser, c) # {} /\ p.at # "login"
      /\ ~p.flag_l => Out(c) /\ p.at \in {"login", "sent", "wait"}
      BY <1>1, SlotFacts
<1>. HIDE DEF p, x, q, r
<1>6. /\ r # <<>> /\ r[Len(r)] = pk
      /\ Backs(q) /\ pk.type = "terminateChat" => Backs(r)
      /\ Backs(q) => \A i \in 1..Len(r) : i = Len(r) \/ r[i].type = "terminateChat"
      /\ q = <<>> => \A i \in 1..Len(r) : i = 1 /\ r[i] = pk
  <2>1. q \in Seq(Packages) /\ pk \in Packages
        BY <1>5
  <2>2. r = Append(q, pk)
        BY <1>3
  <2>3. r # <<>>
        BY <2>1, <2>2, LineBehind
  <2>4. r[Len(r)] = pk
        BY <2>1, <2>2, LineBehind
  <2>5. Backs(q) /\ pk.type = "terminateChat" => Backs(r)
        BY <2>1, <2>2, LineBehind
  <2>6. Backs(q) => \A i \in 1..Len(r) : i = Len(r) \/ r[i].type = "terminateChat"
        BY <2>1, <2>2, LineBehind
  <2>7. q = <<>> => \A i \in 1..Len(r) : i = 1 /\ r[i] = pk
        BY <2>1, <2>2, LineBehind
  <2>. QED  BY <2>3, <2>4, <2>5, <2>6, <2>7
<1>7. CASE pk.type = "loginn"
  <2>1. /\ p.at = "login" /\ ~p.flag_l /\ On(mapuser, c) = {} /\ q = <<>>
        BY <1>4, <1>5, <1>7 DEF Out, p, q
  <2>2. InStep(mapuser, todo, c, x, r)
        BY <1>3, <1>5, <2>1 DEF InStep, Nowhere
  <2>3. Marked(mapuser, todo, c, x) /\ Lined(mapuser, c, r)
        BY <1>6, <1>7, <2>1 DEF Marked, Lined
  <2>4. Steady(c)'
        BY <1>1, <2>2, <2>3 DEF Steady, vars, memory, observed, x, r
  <2>. QED  BY <1>1, <1>3, <2>4, OneSlotSteps DEF vars, memory, observed
<1>8. CASE pk.type \notin {"loginn", "terminateChat"}
  <2>1. /\ p.at = "command" /\ p.flag_l /\ On(mapuser, c) # {}
        BY <1>4, <1>5, <1>8
  <2>2. ASSUME NEW u \in On(mapuser, c)
        PROVE  /\ Shown(todo, c, p, q, mapuser[u].state)
               /\ mapuser[u].state = Idle /\ Nowhere(p)
               /\ Backs(q) /\ Unwoken(todo, c)
    <3>1. Phase(todo, c, p, q, mapuser[u].state)
          BY <1>5 DEF InStep
    <3>2. Shown(todo, c, p, q, mapuser[u].state)
          BY <2>1, <3>1 DEF Phase, Entering, Leaving, Awaits
    <3>3. mapuser[u].state = Idle /\ Nowhere(p)
          BY <1>5, <2>1, <3>2, PlaceShown DEF Shown
    <3>. QED  BY <2>1, <3>2, <3>3 DEF Shown, Commands, Asks, Awaits
  <2>3. Awaits(x) /\ Nowhere(x) /\ x.flag_l /\ Backs(q)
    <3>1. PICK u \in On(mapuser, c) : TRUE
          BY <2>1
    <3>. QED  BY <1>3, <2>1, <2>2, <3>1 DEF Nowhere
  <2>4. Asks(x, r[Len(r)])
        BY <1>4, <1>6, <1>8, <2>3 DEF Asks
  <2>5. ASSUME NEW u \in On(mapuser, c)
        PROVE  Phase(todo, c, x, r, mapuser[u].state)
    <3>1. Commands(todo, c, x, r)
          BY <1>6, <2>2, <2>4 DEF Commands
    <3>2. Shows(x, mapuser[u].state) /\ Unmoved(todo, c)
          BY <2>2, <2>3 DEF Shows, Nowhere, Shown
    <3>. QED  BY <2>2, <2>3, <3>1, <3>2 DEF Shown, Phase
  <2>6. InStep(mapuser, todo, c, x, r)
        BY <2>1, <2>5 DEF InStep
  <2>7. Marked(mapuser, todo, c, x)
        BY <2>3 DEF Marked, Nowhere
  <2>8. Lined(mapuser, c, r)
        BY <1>6, <1>8, <2>1, <2>2, <2>3 DEF Lined
  <2>9. Steady(c)'
        BY <1>1, <2>6, <2>7, <2>8 DEF Steady, vars, memory, observed, x, r
  <2>. QED  BY <1>1, <1>3, <2>9, OneSlotSteps DEF vars, memory, observed
<1>9. CASE pk.type = "terminateChat"
  <2>1. /\ p.at \in {"with", "room"} /\ p.flag_l /\ On(mapuser, c) # {}
        /\ x.userw = p.userw /\ x.roomw = p.roomw
        /\ Awaits(x) /\ x.at # "command"
        BY <1>3, <1>4, <1>5, <1>9 DEF Awaits
  <2>2. ASSUME NEW u \in On(mapuser, c)
        PROVE  Backs(q) /\ Phase(todo, c, x, r, mapuser[u].state)
    <3>. DEFINE st == mapuser[u].state
    <3>1. Phase(todo, c, p, q, st)
          BY <1>5 DEF InStep
    <3>2. st # Idle => Backs(q)
      <4>1. st # Idle => \A i \in 1..Len(q) : q[i].type = "terminateChat"
            BY <1>5, <2>1 DEF Lined
      <4>. QED  BY <4>1 DEF Backs
    <3>. HIDE DEF st
    <3>3. \/ Shown(todo, c, p, q, st)
          \/ Leaving(todo, c, p, q, st)
          BY <2>1, <3>1 DEF Phase, Entering, Awaits
    <3>4. CASE Shown(todo, c, p, q, st)
      <4>1. Shows(x, st) /\ Unmoved(todo, c)
            BY <1>3, <2>1, <3>4 DEF Shown, Shows
      <4>2. CASE st # Idle
        <5>1. Shown(todo, c, x, r, st)
              BY <2>1, <4>1, <4>2 DEF Shown
        <5>. QED  BY <1>3, <2>1, <3>2, <4>2, <5>1 DEF Phase, st
      <4>3. CASE st = Idle
        <5>1. Backs(q) /\ Unwoken(todo, c)
              BY <2>1, <3>4, <4>3 DEF Shown, Commands, Asks, Awaits
        <5>2. Commands(todo, c, x, r)
              BY <1>6, <1>9, <5>1 DEF Commands
        <5>3. Shown(todo, c, x, r, st)
              BY <4>1, <4>3, <5>2 DEF Shown
        <5>. QED  BY <1>3, <2>1, <5>1, <5>3 DEF Phase, st
      <4>. QED  BY <4>2, <4>3
    <3>5. CASE Leaving(todo, c, p, q, st)
      <4>1. Backs(q) /\ Leaving(todo, c, x, r, st)
            BY <1>6, <1>9, <2>1, <3>5 DEF Leaving
      <4>. QED  BY <1>3, <2>1, <4>1 DEF Phase, st
    <3>. QED  BY <3>3, <3>4, <3>5
  <2>3. InStep(mapuser, todo, c, x, r)
        BY <2>1, <2>2 DEF InStep
  <2>4. Marked(mapuser, todo, c, x)
        BY <1>3, <1>5, <2>1 DEF Marked
  <2>5. Backs(r)
    <3>1. PICK u \in On(mapuser, c) : TRUE
          BY <2>1
    <3>. QED  BY <1>6, <1>9, <2>2, <3>1
  <2>6. Lined(mapuser, c, r)
        BY <2>1, <2>5 DEF Lined, Backs
  <2>7. Steady(c)'
        BY <1>1, <2>3, <2>4, <2>6 DEF Steady, vars, memory, observed, x, r
  <2>. QED  BY <1>1, <1>3, <2>7, OneSlotSteps DEF vars, memory, observed
<1>. QED  BY <1>7, <1>8, <1>9

\* A process that has lost its connection, or repeats its login after that:
\* there is none as long as the server runs.
LEMMA AwaySteps ==
    ASSUME TypeOK, ClientInv, LoginInv, StepInv, NEW c \in Fds,
           TypeAway(c) \/ SendRelogin(c) \/ Reconnects(c)
    PROVE  StepInv'
<1>1. Steady(c) /\ Talks(c)
      BY DEF StepInv, LoginInv
<1>2. CASE TypeAway(c)
  <2>1. /\ sock[c] = "free" /\ UNCHANGED vars /\ UNCHANGED queue /\ client[c].alive
        BY <1>2 DEF TypeAway, LineLost, Handler, loginHandler, MayLogin,
           commandHandler, MayCommand, ChatLine, Back, At, server
  <2>2. PICK p : client' = [client EXCEPT ![c] = p]
        BY <1>2, LineIsStep DEF TypeAway, MainSteps
  <2>3. \A d \in Fds : d # c => client'[d] = client[d]
        BY <2>2 DEF ClientInv
  <2>4. Steady(c)'
        BY <1>1, <2>1 DEF Steady, vars, memory, observed
  <2>. QED  BY <2>1, <2>3, <2>4, OneSlotSteps DEF vars, memory, observed
<1>3. CASE SendRelogin(c)
  <2>1. sock[c] = "open" /\ client[c].relogin
        BY <1>3 DEF SendRelogin, Relogin
  <2>2. client[c].flag_l /\ On(mapuser, c) = {}
        BY <1>1, <2>1 DEF Talks, In, Out
  <2>. QED  BY <1>1, <2>1, <2>2 DEF Steady, InStep
<1>4. CASE Reconnects(c)
      BY <1>1, <1>4 DEF Reconnects, Connect, Reconnected, Steady
<1>. QED  BY <1>2, <1>3, <1>4

\* Main goes on to the wait: it still awaits the answer, or finds that it is
\* somewhere by now.
LEMMA GoesSteps ==
    ASSUME TypeOK, ClientInv, LoginInv, StepInv, NEW c \in Fds, MainGoes(c)
    PROVE  StepInv'
<1>. DEFINE p == client[c]
            x == client'[c]
            q == queue[c]
<1>1. UNCHANGED vars /\ UNCHANGED queue
      BY DEF MainGoes, Goes, server
<1>2. p \in KnownClients /\ p \in Clients
      BY DEF ClientInv, KnownClients
<1>3. /\ MovedOn(p, x) /\ x.at # "command"
      /\ Nowhere(p) => Awaits(x)
      /\ \A d \in Fds : d # c => client'[d] = client[d]
  <2>1. CASE AfterBreak(c)
    <3>1. /\ x = IF p.flag_w \/ p.flag_j THEN Proceed(p) ELSE Sent(p)
          /\ \A d \in Fds : d # c => client'[d] = client[d]
          BY <2>1 DEF AfterBreak, ClientInv
    <3>2. p.at = "break"
          BY <2>1 DEF AfterBreak, At
    <3>. HIDE DEF p, x
    <3>3. MovedOn(p, x)
          BY <1>2, <3>1, PlaceMoves DEF Proceed, Sent
    <3>4. Nowhere(p) => x.at = "sent"
          BY <1>2, <3>1, PlaceMoves DEF Nowhere, Sent
    <3>5. ~Nowhere(p) => x.at # "command"
      <4>1. ~Nowhere(p) => x = [p EXCEPT !.at = Prompt(p)]
            BY <3>1 DEF Nowhere, Proceed
      <4>2. ~Nowhere(p) => x.at = Prompt(p)
            BY <1>2, <4>1, PlaceMoves
      <4>3. ~p.flag_l => Prompt(p) = "login"
            BY DEF Prompt
      <4>4. p.flag_l \/ ~p.flag_l
            BY <1>2 DEF Clients
      <4>. QED  BY <1>2, <4>2, <4>3, <4>4, PromptSteps
    <3>6. Nowhere(p) => Awaits(x)
          BY <3>4 DEF Awaits
    <3>7. x.at # "command"
          BY <3>4, <3>5
    <3>8. \A d \in Fds : d # c => client'[d] = client[d]
          BY <3>1
    <3>. QED  BY <3>3, <3>6, <3>7, <3>8
  <2>2. CASE CondWait(c)
    <3>1. /\ x = [p EXCEPT !.at = "wait"]
          /\ \A d \in Fds : d # c => client'[d] = client[d]
          BY <2>2 DEF CondWait, ClientInv
    <3>2. p.at = "sent"
          BY <2>2 DEF CondWait, At
    <3>. HIDE DEF p, x
    <3>. QED  BY <1>2, <3>1, <3>2, PlaceMoves DEF Awaits
  <2>. QED  BY <2>1, <2>2 DEF MainGoes, Goes
<1>4. x \in KnownClients /\ x.alive = p.alive
  <2>0. PICK y \in KnownClients :
            Good(y, client[c]) /\ client' = [client EXCEPT ![c] = y]
        BY GoesIsStep DEF MainGoes, Goes, MainSteps
  <2>1. x = y
        BY <2>0 DEF ClientInv
  <2>. QED  BY <2>0, <2>1 DEF Good, SameLogin
<1>5. Steady(c)
      BY DEF StepInv
<1>6. ASSUME NEW st, Phase(todo, c, p, q, st)
      PROVE  Phase(todo, c, x, q, st)
  <2>. HIDE DEF p, x, q
  <2>1. Nowhere(x) <=> Nowhere(p)
        BY <1>3 DEF MovedOn, Nowhere
  <2>2. Shows(p, st) => Shows(x, st)
        BY <1>3 DEF MovedOn, Shows
  <2>3. ASSUME Commands(todo, c, p, q), Nowhere(p)
        PROVE  Commands(todo, c, x, q)
        BY <1>3, <2>3 DEF Commands, Asks, MovedOn
  <2>4. Shown(todo, c, p, q, st) => Shown(todo, c, x, q, st)
        BY <1>2, <1>3, <2>2, <2>3, PlaceShown DEF Shown
  <2>5. Entering(todo, c, p, q, st) => Entering(todo, c, x, q, st)
        BY <1>3, <2>1 DEF Entering, MovedOn
  <2>6. Leaving(todo, c, p, q, st) => Leaving(todo, c, x, q, st)
        BY <1>3 DEF Leaving
  <2>7. LoggingIn(todo, c, p, q, st) => LoggingIn(todo, c, x, q, st)
        BY <1>3, <2>1 DEF LoggingIn
  <2>. QED  BY <1>3, <1>6, <2>4, <2>5, <2>6, <2>7 DEF Phase, MovedOn
<1>7. Steady(c)'
  <2>1. ASSUME sock[c] = "open"
        PROVE  /\ InStep(mapuser, todo, c, x, q)
               /\ Marked(mapuser, todo, c, x)
    <3>1. InStep(mapuser, todo, c, p, q) /\ Marked(mapuser, todo, c, p)
          BY <1>5, <2>1 DEF Steady
    <3>. HIDE DEF p, x, q
    <3>2. InStep(mapuser, todo, c, x, q)
          BY <1>3, <1>6, <3>1 DEF InStep, MovedOn, Nowhere
    <3>. QED  BY <1>3, <3>1, <3>2 DEF Marked, MovedOn
  <2>2. sock[c] = "free" /\ up => ~client'[c].alive
        BY <1>4, <1>5 DEF Steady
  <2>. QED  BY <1>1, <1>5, <2>1, <2>2 DEF Steady, vars, memory, observed
<1>. QED  BY <1>1, <1>3, <1>7, OneSlotSteps DEF vars, memory, observed

\* A process starts: its user is nowhere.
LEMMA StartsSteps ==
    ASSUME TypeOK, ClientInv, LoginInv, StepInv, NEW c \in Fds, Starts(c)
    PROVE  StepInv'
<1>1. /\ up /\ todo = <<>> /\ sock[c] = "free"
      /\ sock' = [sock EXCEPT ![c] = "open"]
      /\ client' = [client EXCEPT ![c] = Fresh]
      /\ UNCHANGED <<up, mapuser, roomMap, todo, chats, queue>>
      BY DEF Starts, Connect, StartProcess, memory, observed
<1>2. /\ sock'[c] = "open" /\ client'[c] = Fresh
      /\ \A d \in Fds : d # c => sock'[d] = sock[d] /\ client'[d] = client[d]
      BY <1>1 DEF TypeOK, ClientInv
<1>3. On(mapuser, c) = {} /\ Lined(mapuser, c, queue[c])
      BY <1>1 DEF LoginInv, Held, StepInv, Steady
<1>4. InStep(mapuser, todo, c, Fresh, queue[c]) /\ Marked(mapuser, todo, c, Fresh)
      BY <1>3 DEF InStep, Marked, Nowhere, Fresh
<1>5. Steady(c)'
      BY <1>1, <1>2, <1>3, <1>4 DEF Steady
<1>. QED  BY <1>1, <1>2, <1>5, OneSlotSteps

LEMMA EndsSteps ==
    ASSUME TypeOK, ClientInv, LoginInv, StepInv, NEW c \in Fds,
           Exits(c) \/ ResetBy(c)
    PROVE  StepInv'
<1>1. Steady(c) /\ Held(c)
      BY DEF StepInv, LoginInv
<1>2. CASE Exits(c)
  <2>1. /\ client' = [client EXCEPT ![c] = NoClient]
        /\ UNCHANGED <<up, mapuser, roomMap, todo, chats, queue>>
        /\ IF sock[c] = "open" THEN sock' = [sock EXCEPT ![c] = "closed"]
                               ELSE UNCHANGED sock
        BY <1>2 DEF Exits, ExitProcess, Hangup, server, vars, memory, observed
  <2>2. /\ ~client'[c].alive /\ sock'[c] # "open"
        /\ \A d \in Fds : d # c => sock'[d] = sock[d] /\ client'[d] = client[d]
        BY <2>1 DEF TypeOK, ClientInv, NoClient, Fresh
  <2>3. Steady(c)'
        BY <1>1, <2>1, <2>2 DEF Steady
  <2>. QED  BY <2>1, <2>2, <2>3, OneSlotSteps
<1>3. CASE ResetBy(c)
  <2>1. /\ sock' = [sock EXCEPT ![c] = "reset"]
        /\ queue' = [queue EXCEPT ![c] = <<>>]
        /\ UNCHANGED <<up, mapuser, roomMap, todo, chats, client>>
        BY <1>3 DEF ResetBy, Reset, memory, observed
  <2>2. /\ sock'[c] = "reset" /\ queue'[c] = <<>>
        /\ \A d \in Fds : d # c => sock'[d] = sock[d] /\ queue'[d] = queue[d]
        BY <2>1 DEF TypeOK, ClientInv
  <2>3. Lined(mapuser, c, <<>>)
        BY DEF Lined
  <2>4. Steady(c)'
        BY <2>1, <2>2, <2>3 DEF Steady
  <2>. QED  BY <2>1, <2>2, <2>4, OneSlotSteps
<1>. QED  BY <1>2, <1>3

-----------------------------------------------------------------------------
(* The calls of the server.                                                *)

\* The end of the server, which is not started again.
LEMMA LossSteps ==
    ASSUME StepInv, Dies, ConnectionsLost, UNCHANGED chats
    PROVE  StepInv'
<1>1. /\ ~up' /\ todo' = <<>> /\ mapuser' = Empty /\ roomMap' = Empty
      /\ \A c \in Fds : sock'[c] = "free" /\ queue'[c] = <<>>
      BY DEF Dies, ConnectionsLost
<1>2. NoReplay(<<>>) /\ AllTruthful(Empty, <<>>)
      BY CallsInNone DEF NoReplay, AllTruthful
<1>3. Seats(Empty, Empty) /\ OfflineIdle(Empty)
      BY DEF Seats, OfflineIdle, Empty
<1>4. ASSUME NEW c \in Fds
      PROVE  Steady(c)'
  <2>1. Lined(Empty, c, <<>>)
        BY DEF Lined
  <2>. QED  BY <1>1, <2>1 DEF Steady
<1>. QED  BY <1>1, <1>2, <1>3, <1>4 DEF StepInv

\* A call that writes nothing.
LEMMA SilentSteps ==
    ASSUME TypeOK, StepInv, todo # <<>>, Head(todo).op # "write",
           todo' = Tail(todo), UNCHANGED <<up, mapuser, roomMap, chats, client, queue>>,
           \A c \in Fds : \/ sock'[c] = sock[c]
                          \/ sock'[c] = "free" /\ ~client[c].alive
    PROVE  StepInv'
<1>1. /\ todo \in Seq(Calls) /\ Tail(todo) \in Seq(Calls)
      /\ CallsIn(Tail(todo)) \subseteq CallsIn(todo)
      BY CallsInTail DEF TypeOK
<1>2. NoReplay(Tail(todo)) /\ AllTruthful(mapuser, Tail(todo))
      BY <1>1 DEF StepInv, NoReplay, AllTruthful
<1>3. ASSUME NEW c, ~WritesTo(Head(todo), c), NEW p, NEW q, NEW st,
             Phase(todo, c, p, q, st)
      PROVE  Phase(Tail(todo), c, p, q, st)
  <2>1. \A call \in CallsIn(<<>>) : ~WritesTo(call, c)
        BY CallsInNone
  <2>2. Phase(<<>> \o Tail(todo), c, p, q, st)
        BY <1>1, <1>3, <2>1, NoCallType, PhaseGoesOn
  <2>3. <<>> \o Tail(todo) = Tail(todo)
        BY <1>1
  <2>. QED  BY <2>2, <2>3
<1>4. ASSUME NEW c \in Fds
      PROVE  Steady(c)'
  <2>1. Steady(c) /\ ~WritesTo(Head(todo), c)
        BY DEF StepInv, WritesTo
  <2>2. sock[c] = "open" => InStep(mapuser, Tail(todo), c, client[c], queue[c])
        BY <1>3, <2>1 DEF Steady, InStep
  <2>3. Notified(todo, c) => Notified(Tail(todo), c)
        BY <2>1, CallsInTail DEF Notified, TypeOK
  <2>4. sock[c] = "open" => Marked(mapuser, Tail(todo), c, client[c])
        BY <2>1, <2>3 DEF Steady, Marked
  <2>. QED  BY <2>1, <2>2, <2>4 DEF Steady
<1>. QED  BY <1>2, <1>4 DEF StepInv

LEMMA ExecuteSteps ==
    ASSUME TypeOK, ClientInv, StepInv, Execute,
           IF up' THEN UNCHANGED <<client, queue>> ELSE ConnectionsLost
    PROVE  StepInv'
<1>1. up /\ todo # <<>> /\ Head(todo).op = "sql" /\ UNCHANGED chats
      BY DEF Execute, Calling, observed
<1>2. CASE Rejected(db, Head(todo).stmt)
      BY <1>1, <1>2, LossSteps DEF Execute, Dies
<1>3. CASE ~Rejected(db, Head(todo).stmt)
  <2>1. /\ todo' = Tail(todo)
        /\ UNCHANGED <<up, mapuser, roomMap, sock, client, queue>>
        BY <1>1, <1>3 DEF Execute, memory
  <2>. QED  BY <1>1, <2>1, SilentSteps
<1>. QED  BY <1>2, <1>3

LEMMA CloseSteps ==
    ASSUME TypeOK, LoginInv, StepInv, Close, UNCHANGED <<client, queue>>
    PROVE  StepInv'
<1>. DEFINE fd == Head(todo).fd
<1>1. /\ up /\ todo # <<>> /\ Head(todo).op = "close" /\ todo \in Seq(Calls)
      /\ sock' = [sock EXCEPT ![fd] = "free"] /\ todo' = Tail(todo)
      /\ UNCHANGED <<up, mapuser, roomMap, chats>>
      BY DEF Close, Calling, memory, observed, TypeOK
<1>2. Over(fd)
      BY <1>1, CallsInTail DEF LoginInv, Addressed, Addresses
<1>3. ASSUME NEW c \in Fds
      PROVE  sock'[c] = sock[c] \/ (sock'[c] = "free" /\ ~client[c].alive)
  <2>1. c # fd => sock'[c] = sock[c]
        BY <1>1 DEF TypeOK
  <2>2. c = fd => sock'[c] = "free" /\ ~client[c].alive
        BY <1>1, <1>2 DEF LoginInv, StepInv, Steady, Held, Over, TypeOK
  <2>. QED  BY <2>1, <2>2
<1>. QED  BY <1>1, <1>3, SilentSteps

\* A call that is for c and others has reached one of these.
LEMMA PhaseShared ==
    ASSUME NEW l \in Seq(Calls), l # <<>>, NEW c, WritesTo(Head(l), c),
           Head(l).fds # {c}, NEW p, NEW q, NEW st, Phase(l, c, p, q, st),
           NEW less \in Calls, less.op = "write", less.pk = Head(l).pk
    PROVE  Phase(<<less>> \o Tail(l), c, p, q, st)
<1>. DEFINE k == <<less>> \o Tail(l)
<1>1. /\ Tail(l) \in Seq(Calls) /\ CallsIn(l) = {Head(l)} \cup CallsIn(Tail(l))
      /\ CallsIn(k) = {less} \cup CallsIn(Tail(l))
  <2>1. <<less>> \in Seq(Calls) /\ CallsIn(<<less>>) = {less}
        BY OneCallType, CallsInOne
  <2>2. Tail(l) \in Seq(Calls) /\ CallsIn(l) = {Head(l)} \cup CallsIn(Tail(l))
        BY CallsInTail
  <2>. QED  BY <2>1, <2>2, CallsInConcat
<1>. HIDE DEF k
<1>2. ~Answering(l, c) /\ ~TellsLogin(l, c)
      BY AnswerComes DEF TellsLogin
<1>3. /\ Unmoved(l, c) => Unmoved(k, c)
      /\ Unwoken(l, c) => Unwoken(k, c)
      BY <1>1 DEF Unmoved, Unwoken, Moves, Wakes, WritesTo
<1>4. Shown(l, c, p, q, st) => Shown(k, c, p, q, st)
      BY <1>2, <1>3 DEF Shown, Commands
<1>5. Phase(k, c, p, q, st)
      BY <1>2, <1>4 DEF Phase, Entering, Leaving, LoggingIn
<1>. QED  BY <1>5 DEF k

\* What is left of the calls when the first one, w, has been written to c.
Written(w, c) == IF w.fds = {c} THEN <<>> ELSE <<[w EXCEPT !.fds = @ \ {c}]>>

LEMMA WrittenParts ==
    ASSUME TypeOK, NEW c \in Fds, Write(c),
           NEW w, w = Head(todo), NEW s, s = Written(w, c)
    PROVE  /\ todo \in Seq(Calls) /\ todo # <<>> /\ WritesTo(w, c)
           /\ w \in Writes /\ w \in CallsIn(todo) /\ w.pk \in AnswerPackages
           /\ todo' = s \o Tail(todo) /\ s \in Seq(Calls)
           /\ w.fds = {c} => s = <<>>
           /\ \A d : w.fds # {d} /\ WritesTo(w, d) /\ d # c =>
                 \E less \in Calls :
                    /\ s = <<less>> /\ less.op = "write" /\ less.pk = w.pk
                    /\ d \in less.fds
           /\ \A call \in CallsIn(s) :
                 /\ call.op = "write" /\ call.pk = w.pk
                 /\ call.fds = w.fds \ {c}
<1>. DEFINE less == [w EXCEPT !.fds = @ \ {c}]
<1>1. /\ todo # <<>> /\ w.op = "write" /\ todo \in Seq(Calls) /\ c \in w.fds
      /\ todo' = s \o Tail(todo)
      BY DEF Write, Calling, AfterWrite, Written, TypeOK
<1>2. w \in Writes /\ w \in CallsIn(todo)
      BY <1>1, CallsInTail, CallKinds
<1>3. /\ less \in Calls /\ less.op = "write" /\ less.pk = w.pk
      /\ less.fds = w.fds \ {c}
      BY <1>1, <1>2 DEF Writes, Calls
<1>4. s = IF w.fds = {c} THEN <<>> ELSE <<less>>
      BY DEF Written
<1>. HIDE DEF less
<1>5. s \in Seq(Calls) /\ CallsIn(s) \subseteq {less}
      BY <1>3, <1>4, NoCallType, OneCallType, CallsInOne, CallsInNone
<1>6. ASSUME NEW d, WritesTo(w, d), d # c
      PROVE  s = <<less>> /\ d \in less.fds
      BY <1>3, <1>4, <1>6 DEF WritesTo
<1>. QED  BY <1>1, <1>2, <1>3, <1>4, <1>5, <1>6 DEF WritesTo, Writes

\* The process at the end of a connection somebody is online on is written to.
LEMMA ArrivalSteps ==
    ASSUME TypeOK, ClientInv, LoginInv, StepInv, NEW c \in Fds, Write(c),
           sock[c] = "open", NEW w, w = Head(todo),
           NEW x \in receiverHandler(client[c], w.pk)
    PROVE  /\ InStep(mapuser, todo', c, x, queue[c])
           /\ Marked(mapuser, todo', c, x)
<1>. DEFINE p == client[c]
            s == Written(w, c)
            q == queue[c]
<1>1. /\ todo \in Seq(Calls) /\ todo # <<>> /\ WritesTo(w, c)
      /\ w \in CallsIn(todo) /\ w.pk \in AnswerPackages
      /\ todo' = s \o Tail(todo) /\ s \in Seq(Calls)
      /\ w.fds = {c} => s = <<>>
  <2>1. /\ todo \in Seq(Calls) /\ todo # <<>> /\ w \in CallsIn(todo)
        /\ todo' = s \o Tail(todo) /\ s \in Seq(Calls)
        BY WrittenParts
  <2>2. WritesTo(w, c) /\ w.pk \in AnswerPackages
        BY WrittenParts
  <2>3. w.fds = {c} => s = <<>>
        BY WrittenParts
  <2>. QED  BY <2>1, <2>2, <2>3
<1>2. \A call \in CallsIn(s) : ~WritesTo(call, c)
      BY WrittenParts DEF WritesTo
<1>3. /\ p \in KnownClients
      /\ InStep(mapuser, todo, c, p, q) /\ Marked(mapuser, todo, c, p)
      /\ ~p.flag_l => Out(c)
      BY SlotFacts
<1>4. Sets(p, w.pk, x)
      BY <1>1, <1>3, ReceiverSteps
<1>. HIDE DEF p, s, q
<1>5. InStep(mapuser, todo', c, x, q)
  <2>1. CASE On(mapuser, c) = {}
    <3>1. ~p.flag_l /\ Nowhere(p) /\ Out(c)
          BY <1>3, <2>1 DEF InStep
    <3>2. ~LoginTold(c) /\ ~Quiet(todo, c)
          BY <1>1, <2>1 DEF LoginTold, TellsLogin, LoginInv, Addressed,
             Addresses, WritesTo, Quiet, Reaches
    <3>3. LoginRefused(c)
          BY <3>1, <3>2 DEF Out
    <3>4. w.pk.type = "loginFail"
          BY <3>3 DEF LoginRefused, Reply, WriteAll, Answer
    <3>5. ~x.flag_l /\ Nowhere(x)
          BY <1>4, <3>1, <3>4 DEF Sets, Nowhere
    <3>. QED  BY <2>1, <3>5 DEF InStep
  <2>2. ASSUME NEW u \in On(mapuser, c)
        PROVE  Phase(todo', c, x, q, mapuser[u].state)
    <3>1. Phase(todo, c, p, q, mapuser[u].state)
          BY <1>3, <2>2 DEF InStep
    <3>2. x \in receiverHandler(p, w.pk)
          BY DEF p
    <3>. QED  BY <1>1, <1>2, <1>3, <3>1, <3>2, PhaseArrives
  <2>. QED  BY <2>1, <2>2 DEF InStep
<1>6. Marked(mapuser, todo', c, x)
  <2>. SUFFICES ASSUME NEW u \in On(mapuser, c), x.flag_w,
                       mapuser[u].state = WithUser(x.userw)
                PROVE  \/ x.flag_w_online <=> x.userw \in Online(mapuser)
                       \/ Notified(todo', c)
       BY DEF Marked
  <2>1. CASE w.pk.type \in {"checkparty", "withSuccess"}
    <3>1. x.flag_w_online = w.pk.online
          BY <1>4, <2>1 DEF Sets
    <3>2. w.pk.online <=> x.userw \in Online(mapuser)
      <4>1. Truthful(mapuser, w)
            BY <1>1 DEF StepInv, AllTruthful
      <4>2. mapuser[u].state.type = 1 /\ mapuser[u].state.name = x.userw
            BY DEF WithUser
      <4>. QED  BY <1>1, <2>1, <4>1, <4>2 DEF Truthful, WritesTo
    <3>. QED  BY <3>1, <3>2
  <2>2. CASE w.pk.type \notin {"checkparty", "withSuccess"}
    <3>1. /\ x.flag_w_online = p.flag_w_online /\ x.userw = p.userw
          /\ p.flag_w
          BY <1>4, <2>2 DEF Sets, Nowhere
    <3>2. \/ p.flag_w_online <=> p.userw \in Online(mapuser)
          \/ Notified(todo, c)
          BY <1>3, <3>1 DEF Marked
    <3>3. Notified(todo, c) => Notified(todo', c)
      <4>1. CallsIn(todo) = {w} \cup CallsIn(Tail(todo)) /\ Tail(todo) \in Seq(Calls)
            BY <1>1, CallsInTail
      <4>2. CallsIn(todo') = CallsIn(s) \cup CallsIn(Tail(todo))
            BY <1>1, <4>1, CallsInConcat
      <4>. QED  BY <2>2, <4>1, <4>2 DEF Notified
    <3>. QED  BY <3>1, <3>2, <3>3
  <2>. QED  BY <2>1, <2>2
<1>. QED  BY <1>5, <1>6 DEF q

\* A write to one connection leaves the processes of the others in step.
LEMMA OthersInWrite ==
    ASSUME TypeOK, StepInv, NEW c \in Fds, Write(c), NEW d \in Fds, d # c,
           sock[d] = "open"
    PROVE  /\ InStep(mapuser, todo', d, client[d], queue[d])
           /\ Marked(mapuser, todo', d, client[d])
<1>. DEFINE w == Head(todo)
            s == Written(w, c)
            p == client[d]
            q == queue[d]
<1>1. /\ todo \in Seq(Calls) /\ todo # <<>> /\ WritesTo(w, c)
      /\ w \in Writes /\ todo' = s \o Tail(todo) /\ s \in Seq(Calls)
  <2>1. todo \in Seq(Calls) /\ todo # <<>>
        BY WrittenParts
  <2>2. WritesTo(w, c) /\ w \in Writes
        BY WrittenParts
  <2>3. todo' = s \o Tail(todo)
        BY DEF Write, AfterWrite, Written
  <2>4. s \in Seq(Calls)
        BY WrittenParts
  <2>. QED  BY <2>1, <2>2, <2>3, <2>4
<1>2. w.fds # {d}
      BY <1>1 DEF WritesTo
<1>3. WritesTo(w, d) => \E less \in Calls :
         /\ s = <<less>> /\ less.op = "write" /\ less.pk = w.pk /\ d \in less.fds
      BY <1>2, WrittenParts
<1>4. \A call \in CallsIn(s) :
         call.op = "write" /\ call.pk = w.pk /\ call.fds = w.fds \ {c}
      BY WrittenParts
<1>5. InStep(mapuser, todo, d, p, q) /\ Marked(mapuser, todo, d, p)
      BY DEF StepInv, Steady
<1>. HIDE DEF s, p, q
<1>6. ASSUME NEW st, Phase(todo, d, p, q, st)
      PROVE  Phase(todo', d, p, q, st)
  <2>1. CASE WritesTo(w, d)
    <3>1. PICK less \in Calls :
             s = <<less>> /\ less.op = "write" /\ less.pk = w.pk
          BY <1>3, <2>1
    <3>. QED  BY <1>1, <1>2, <1>6, <2>1, <3>1, PhaseShared
  <2>2. CASE ~WritesTo(w, d)
    <3>1. \A call \in CallsIn(s) : ~WritesTo(call, d)
          BY <1>1, <1>4, <2>2 DEF WritesTo
    <3>. QED  BY <1>1, <1>6, <2>2, <3>1, PhaseGoesOn
  <2>. QED  BY <2>1, <2>2
<1>7. InStep(mapuser, todo', d, p, q)
      BY <1>5, <1>6 DEF InStep
<1>8. Notified(todo, d) => Notified(todo', d)
  <2>1. CallsIn(todo) = {w} \cup CallsIn(Tail(todo)) /\ Tail(todo) \in Seq(Calls)
        BY <1>1, CallsInTail
  <2>2. CallsIn(todo') = CallsIn(s) \cup CallsIn(Tail(todo))
        BY <1>1, <2>1, CallsInConcat
  <2>3. WritesTo(w, d) => \E less \in CallsIn(s) :
           less.pk = w.pk /\ WritesTo(less, d)
        BY <1>3, CallsInOne DEF WritesTo
  <2>. QED  BY <2>1, <2>2, <2>3 DEF Notified
<1>9. Marked(mapuser, todo', d, p)
      BY <1>5, <1>8 DEF Marked
<1>. QED  BY <1>7, <1>9 DEF p, q

LEMMA WriteSteps ==
    ASSUME TypeOK, ClientInv, LoginInv, StepInv, NEW c \in Fds, ServerWrites(c)
    PROVE  StepInv'
<1>. DEFINE w == Head(todo)
            s == Written(w, c)
<1>1. /\ Write(c) /\ UNCHANGED <<up, mapuser, roomMap, sock, chats, queue>>
      BY DEF ServerWrites, Write, memory
<1>2. /\ todo \in Seq(Calls) /\ todo # <<>> /\ w \in CallsIn(todo)
      /\ todo' = s \o Tail(todo) /\ s \in Seq(Calls)
      BY <1>1, WrittenParts
<1>3. \A call \in CallsIn(s) :
         call.op = "write" /\ call.pk = w.pk /\ call.fds = w.fds \ {c}
      BY <1>1, WrittenParts
<1>. HIDE DEF s
<1>4. CallsIn(todo') = CallsIn(s) \cup CallsIn(Tail(todo))
      /\ CallsIn(Tail(todo)) \subseteq CallsIn(todo)
      BY <1>2, CallsInTail, CallsInConcat
<1>5. NoReplay(todo') /\ AllTruthful(mapuser, todo')
  <2>1. w.op = "write"
        BY <1>1 DEF Write, Calling
  <2>2. Truthful(mapuser, w)
        BY <1>2 DEF StepInv, AllTruthful
  <2>3. \A call \in CallsIn(s) : Truthful(mapuser, call) /\ call.op # "replay"
        BY <1>3, <2>1, <2>2 DEF Truthful
  <2>. QED  BY <1>4, <2>3 DEF StepInv, NoReplay, AllTruthful
<1>6. ASSUME NEW d \in Fds, sock[d] # "open"
      PROVE  Steady(d)'
  <2>1. client'[d] = client[d]
        BY <1>6 DEF ServerWrites, ClientInv
  <2>. QED  BY <1>1, <1>6, <2>1 DEF StepInv, Steady
<1>7. ASSUME NEW d \in Fds, d # c, sock[d] = "open"
      PROVE  Steady(d)'
  <2>1. client'[d] = client[d]
        BY <1>7 DEF ServerWrites, ClientInv
  <2>2. /\ InStep(mapuser, todo', d, client[d], queue[d])
        /\ Marked(mapuser, todo', d, client[d])
        BY <1>1, <1>7, OthersInWrite
  <2>. QED  BY <1>1, <1>7, <2>1, <2>2 DEF StepInv, Steady
<1>8. CASE sock[c] = "open"
  <2>1. client'[c] \in receiverHandler(client[c], w.pk)
        BY <1>8 DEF ServerWrites, ClientInv
  <2>2. /\ InStep(mapuser, todo', c, client'[c], queue[c])
        /\ Marked(mapuser, todo', c, client'[c])
        BY <1>1, <1>8, <2>1, ArrivalSteps
  <2>3. Steady(c)'
        BY <1>1, <1>8, <2>2 DEF StepInv, Steady
  <2>. QED  BY <1>1, <1>5, <1>6, <1>7, <2>3 DEF StepInv
<1>. QED  BY <1>1, <1>5, <1>6, <1>7, <1>8 DEF StepInv

-----------------------------------------------------------------------------
(* What a handler makes of the other connections.                          *)

\* Everybody else is where he was.
Stays(m, n, c) ==
    \A d \in Fds : d # c =>
        /\ On(n, d) = On(m, d)
        /\ \A u \in On(m, d) : n[u].state = m[u].state

\* A call of a handler of c tells others of a peer, truly, or writes to those
\* in a room.
Gentle(m, call, c) ==
    /\ call.op # "replay"
    /\ Truthful(m, call)
    /\ \A d \in Fds : d # c /\ WritesTo(call, d) /\ call.pk.type # "checkparty" =>
          /\ call.pk.type \notin Moving
          /\ \A u \in On(m, d) : m[u].state # Idle

AllGentle(m, l, c) ==
    l \in Seq(Calls) /\ \A call \in CallsIn(l) : Gentle(m, call, c)

\* Who chats with somebody that comes or goes is told.
Warned(m, n, l, d) ==
    \A u \in On(n, d) : n[u].state.type = 1 =>
        \/ n[u].state.name \in Online(n) <=> n[u].state.name \in Online(m)
        \/ Notified(l, d)

LEMMA OthersInStep ==
    ASSUME NEW m, NEW n, NEW c, NEW l, Stays(m, n, c), AllGentle(n, l, c),
           NEW d \in Fds, d # c, NEW p, NEW q
    PROVE  /\ InStep(m, <<>>, d, p, q) => InStep(n, l, d, p, q)
           /\ Lined(m, d, q) => Lined(n, d, q)
           /\ Marked(m, <<>>, d, p) /\ Warned(m, n, l, d) => Marked(n, l, d, p)
<1>1. On(n, d) = On(m, d) /\ \A u \in On(m, d) : n[u].state = m[u].state
      BY DEF Stays
<1>2. ASSUME NEW u \in On(n, d), Phase(<<>>, d, p, q, n[u].state)
      PROVE  Phase(l, d, p, q, n[u].state)
  <2>. DEFINE st == n[u].state
  <2>1. p.flag_l /\ Shown(<<>>, d, p, q, st)
        BY <1>2, NothingLeft DEF Phase, Entering, Leaving, LoggingIn
  <2>2. Unmoved(l, d) /\ (st = Idle => Unwoken(l, d))
        BY <1>2 DEF AllGentle, Gentle, Unmoved, Unwoken, Moves, Wakes, Moving
  <2>. HIDE DEF st
  <2>3. st = Idle => Commands(l, d, p, q)
        BY <2>1, <2>2, NothingLeft DEF Shown, Commands
  <2>4. Shown(l, d, p, q, st)
        BY <2>1, <2>2, <2>3 DEF Shown
  <2>. QED  BY <2>1, <2>4 DEF Phase, st
<1>3. InStep(m, <<>>, d, p, q) => InStep(n, l, d, p, q)
      BY <1>1, <1>2 DEF InStep
<1>4. Lined(m, d, q) => Lined(n, d, q)
      BY <1>1 DEF Lined
<1>5. ASSUME Marked(m, <<>>, d, p), Warned(m, n, l, d)
      PROVE  Marked(n, l, d, p)
  <2>. SUFFICES ASSUME NEW u \in On(n, d), p.flag_w, n[u].state = WithUser(p.userw)
                PROVE  \/ p.flag_w_online <=> p.userw \in Online(n)
                       \/ Notified(l, d)
       BY DEF Marked
  <2>1. p.flag_w_online <=> p.userw \in Online(m)
        BY <1>1, <1>5, NothingLeft DEF Marked
  <2>2. n[u].state.type = 1 /\ n[u].state.name = p.userw
        BY DEF WithUser
  <2>. QED  BY <1>5, <2>1, <2>2 DEF Warned
<1>. QED  BY <1>3, <1>4, <1>5

\* After a handler of c everything but c is as it should be.
Attended(c) ==
    /\ Stays(mapuser, mapuser', c)
    /\ AllGentle(mapuser', todo', c)
    /\ Seats(mapuser', roomMap') /\ OfflineIdle(mapuser')
    /\ \A d \in Fds : d # c => Warned(mapuser, mapuser', todo', d)
    /\ UNCHANGED chats

LEMMA AttendedSteps ==
    ASSUME StepInv, todo = <<>>, NEW c \in Fds, Attended(c),
           UNCHANGED <<up, sock, client>>,
           \A d \in Fds : d # c => queue'[d] = queue[d],
           Steady(c)'
    PROVE  StepInv'
<1>1. ASSUME NEW d \in Fds, d # c
      PROVE  Steady(d)'
  <2>1. Steady(d)
        BY DEF StepInv
  <2>. DEFINE p == client[d]
              q == queue[d]
  <2>2. /\ InStep(mapuser, <<>>, d, p, q) => InStep(mapuser', todo', d, p, q)
        /\ Lined(mapuser, d, q) => Lined(mapuser', d, q)
        /\ Marked(mapuser, <<>>, d, p) => Marked(mapuser', todo', d, p)
    <3>1. Warned(mapuser, mapuser', todo', d)
          BY <1>1 DEF Attended
    <3>2. Stays(mapuser, mapuser', c) /\ AllGentle(mapuser', todo', c)
          BY DEF Attended
    <3>. HIDE DEF p, q
    <3>. QED  BY <1>1, <3>1, <3>2, OthersInStep
  <2>3. client'[d] = client[d] /\ queue'[d] = queue[d] /\ sock'[d] = sock[d]
        BY <1>1
  <2>. QED  BY <2>1, <2>2, <2>3 DEF Steady
<1>2. NoReplay(todo') /\ AllTruthful(mapuser', todo')
      BY DEF Attended, AllGentle, Gentle, NoReplay, AllTruthful
<1>3. \A d \in Fds : Steady(d)'
      BY <1>1
<1>. QED  BY <1>2, <1>3 DEF StepInv, Attended

-----------------------------------------------------------------------------
(* The calls of the handlers.                                              *)

LEMMA GentleConcat ==
    ASSUME NEW m, NEW c, NEW s, AllGentle(m, s, c), NEW t, AllGentle(m, t, c)
    PROVE  AllGentle(m, s \o t, c)
BY TwoListsType, CallsInConcat DEF AllGentle

LEMMA GentleNone ==
    ASSUME NEW m, NEW c
    PROVE  AllGentle(m, <<>>, c)
BY NoCallType, CallsInNone DEF AllGentle

\* A call that writes nothing.
LEMMA GentleOther ==
    ASSUME NEW m, NEW c, NEW call \in Calls, call.op \in {"sql", "close"}
    PROVE  AllGentle(m, <<call>>, c)
BY OneCallType, CallsInOne DEF AllGentle, Gentle, Truthful, WritesTo

LEMMA GentleSql ==
    ASSUME NEW m, NEW c, NEW s \in Statements
    PROVE  AllGentle(m, Sql(s), c) /\ \A call \in CallsIn(Sql(s)) : ~WritesTo(call, c)
<1>. DEFINE call == [op |-> "sql", stmt |-> s]
<1>1. call \in Calls /\ call.op = "sql"
      BY DEF Calls, Sqls
<1>2. Sql(s) = <<call>>
      BY DEF Sql
<1>. HIDE DEF call
<1>. QED  BY <1>1, <1>2, GentleOther, CallsInOne DEF WritesTo

\* A package to connections of which none is idle.
LEMMA GentleWriteAll ==
    ASSUME NEW m, NEW c, NEW fds \in SUBSET Fds, NEW pk \in AnswerPackages,
           pk.type \notin Moving \cup {"checkparty"},
           \A d \in fds : d # c /\ \A u \in On(m, d) : m[u].state # Idle
    PROVE  /\ AllGentle(m, WriteAll(fds, pk), c)
           /\ \A call \in CallsIn(WriteAll(fds, pk)) : ~WritesTo(call, c)
<1>. DEFINE call == [op |-> "write", fds |-> fds, pk |-> pk]
<1>1. call.op = "write" /\ call.fds = fds /\ call.pk = pk
      OBVIOUS
<1>2. CallsIn(WriteAll(fds, pk)) \subseteq {call}
      BY CallsInOne, CallsInNone DEF WriteAll
<1>. HIDE DEF call
<1>3. Gentle(m, call, c) /\ ~WritesTo(call, c)
      BY <1>1 DEF Gentle, Truthful, WritesTo, Moving
<1>. QED  BY <1>2, <1>3, WriteAllType DEF AllGentle

\* The handler ends with the answer pk to c, and writes nothing else to it.
Concludes(m, l, c, pk) ==
    \E s : /\ l = s \o WriteAll({c}, pk)
           /\ AllGentle(m, s, c)
           /\ \A call \in CallsIn(s) : ~WritesTo(call, c)

LEMMA AnswerAlone ==
    ASSUME NEW c \in Fds, NEW pk \in AnswerPackages,
           NEW l, l = WriteAll({c}, pk)
    PROVE  /\ l \in Seq(Calls) /\ Answering(l, c) /\ LastType(l) = pk.type
           /\ CallsIn(l) = {[op |-> "write", fds |-> {c}, pk |-> pk]}
<1>. DEFINE call == [op |-> "write", fds |-> {c}, pk |-> pk]
<1>1. call \in Calls /\ call.op = "write" /\ call.fds = {c} /\ call.pk = pk
      BY DEF Calls, Writes
<1>2. l = <<call>>
      BY DEF WriteAll
<1>. HIDE DEF call
<1>3. l \in Seq(Calls) /\ l # <<>> /\ Len(l) = 1 /\ l[1] = call
  <2>1. l \in Seq(Calls)
        BY <1>1, <1>2, OneCallType
  <2>2. Len(l) = 1 /\ l[1] = call
        BY <1>2
  <2>3. l # <<>>
        BY <2>1, <2>2, EmptyList
  <2>. QED  BY <2>1, <2>2, <2>3
<1>4. \A i \in 1..(Len(l) - 1) : FALSE
  <2>1. \A i \in 1..(1 - 1) : FALSE
        OBVIOUS
  <2>. QED  BY <1>3, <2>1, Zenon
<1>5. Answering(l, c)
  <2>1. \A i \in 1..(Len(l) - 1) : ~WritesTo(l[i], c)
        BY <1>4, Zenon
  <2>2. l[Len(l)] = call
        BY <1>3
  <2>. QED  BY <1>1, <1>3, <2>1, <2>2 DEF Answering
<1>6. LastType(l) = pk.type
      BY <1>1, <1>3 DEF LastType
<1>7. CallsIn(l) = {call}
      BY <1>2, CallsInOne
<1>. QED  BY <1>3, <1>5, <1>6, <1>7 DEF call

LEMMA Concluded ==
    ASSUME NEW m, NEW l, NEW c \in Fds, NEW pk \in AnswerPackages,
           Concludes(m, l, c, pk),
           pk.type = "withSuccess" => \A u \in On(m, c) :
               m[u].state.type = 1 => (pk.online <=> m[u].state.name \in Online(m)),
           pk.type # "checkparty"
    PROVE  /\ AllGentle(m, l, c) /\ Answering(l, c) /\ LastType(l) = pk.type
           /\ pk.type \notin Moving => Unmoved(l, c)
           /\ pk.type = "failTerminate" => Unwoken(l, c)
<1>1. PICK s : /\ l = s \o WriteAll({c}, pk)
               /\ AllGentle(m, s, c)
               /\ \A call \in CallsIn(s) : ~WritesTo(call, c)
      BY DEF Concludes
<1>. DEFINE call == [op |-> "write", fds |-> {c}, pk |-> pk]
            t == WriteAll({c}, pk)
<1>2. /\ t \in Seq(Calls) /\ Answering(t, c) /\ LastType(t) = pk.type
      /\ CallsIn(t) = {call}
      BY AnswerAlone
<1>3. call.op = "write" /\ call.fds = {c} /\ call.pk = pk
      OBVIOUS
<1>. HIDE DEF call, t
<1>4. s \in Seq(Calls) /\ l = s \o t
      BY <1>1 DEF AllGentle, t
<1>5. Answering(l, c) /\ LastType(l) = pk.type
  <2>1. \A g \in CallsIn(s) : ~WritesTo(g, c)
        BY <1>1
  <2>2. t \in Seq(Calls) /\ Answering(t, c) /\ LastType(t) = pk.type
        BY <1>2
  <2>3. Answering(s \o t, c) /\ LastType(s \o t) = LastType(t)
        BY <1>4, <2>1, <2>2, AnswerBehind
  <2>. QED  BY <1>4, <2>2, <2>3
<1>6. Gentle(m, call, c)
      BY <1>3 DEF Gentle, Truthful, WritesTo
<1>7. AllGentle(m, l, c)
  <2>1. AllGentle(m, t, c)
        BY <1>2, <1>6 DEF AllGentle
  <2>. QED  BY <1>1, <1>4, <2>1, GentleConcat
<1>8. CallsIn(l) = CallsIn(s) \cup {call}
      BY <1>2, <1>4, CallsInConcat
<1>9. pk.type \notin Moving => Unmoved(l, c)
      BY <1>1, <1>3, <1>8 DEF Unmoved, Moves
<1>10. pk.type = "failTerminate" => Unwoken(l, c)
       BY <1>1, <1>3, <1>8 DEF Unwoken, Wakes
<1>. QED  BY <1>5, <1>7, <1>9, <1>10

-----------------------------------------------------------------------------
(* What the server reads.                                                  *)

LEMMA NoneLeft ==
    ASSUME NEW m, NEW c
    PROVE  Lined(m, c, <<>>) /\ Backs(<<>>)
BY DEF Lined, Backs

\* The oldest package of a connection nobody is online on ...
LEMMA LoginLined ==
    ASSUME NEW m, NEW c, NEW q \in Seq(Packages), q # <<>>, Lined(m, c, q),
           On(m, c) = {}
    PROVE  Head(q).type = "loginn" /\ Tail(q) = <<>>
<1>1. /\ Len(q) \in Nat /\ Len(q) >= 1 /\ Head(q) = q[1]
      /\ Tail(q) = <<>> <=> Len(q) = 1
      BY ListParts
<1>2. \A i \in 1..Len(q) : i = 1 /\ q[i].type = "loginn"
      BY DEF Lined
<1>3. ASSUME NEW n \in Nat, n >= 1, \A i \in 1..n : i = 1
      PROVE  n = 1 /\ 1 \in 1..n
      BY <1>3
<1>4. Len(q) = 1 /\ 1 \in 1..Len(q)
      BY <1>1, <1>2, <1>3
<1>. QED  BY <1>1, <1>2, <1>4

\* ... and of one somebody is.
LEMMA CommandLined ==
    ASSUME NEW m, NEW c, NEW q \in Seq(Packages), q # <<>>, Lined(m, c, q),
           On(m, c) # {}
    PROVE  /\ Head(q) \in Packages /\ Tail(q) \in Seq(Packages)
           /\ Head(q).type # "loginn"
           /\ Head(q).type # "terminateChat" =>
                 /\ Tail(q) = <<>> /\ q[Len(q)] = Head(q) /\ ~Backs(q)
                 /\ \A u \in On(m, c) : m[u].state = Idle
           /\ Head(q).type = "terminateChat" /\ q[Len(q)].type # "terminateChat"
                 => Tail(q) # <<>>
           /\ Tail(q) # <<>> => Tail(q)[Len(Tail(q))] = q[Len(q)]
           /\ Backs(q) => Backs(Tail(q))
           /\ Lined(m, c, Tail(q))
           /\ (\E u \in On(m, c) : m[u].state # Idle) => Backs(q)
<1>. DEFINE r == Tail(q)
<1>1. /\ Len(q) \in Nat /\ Len(q) >= 1 /\ Head(q) = q[1]
      /\ r \in Seq(Packages) /\ Len(r) = Len(q) - 1
      /\ \A i \in 1..(Len(q) - 1) : r[i] = q[i + 1]
      /\ r = <<>> <=> Len(q) = 1
      BY ListParts
<1>2. \A i \in 1..Len(q) :
         \/ q[i].type = "terminateChat"
         \/ /\ i = Len(q) /\ q[i].type # "loginn"
            /\ \A u \in On(m, c) : m[u].state = Idle
      BY DEF Lined
<1>3. 1 \in 1..Len(q) /\ Head(q) \in Packages
      BY <1>1
<1>. HIDE DEF r
<1>4. \A i \in 1..Len(r) :
         /\ i + 1 \in 1..Len(q) /\ r[i] = q[i + 1]
         /\ i = Len(r) <=> i + 1 = Len(q)
      BY <1>1
<1>5. /\ Head(q).type # "loginn"
      /\ Head(q).type # "terminateChat" =>
            /\ r = <<>> /\ q[Len(q)] = Head(q) /\ ~Backs(q)
            /\ \A u \in On(m, c) : m[u].state = Idle
  <2>1. Head(q).type # "terminateChat" =>
           /\ 1 = Len(q) /\ q[1].type # "loginn"
           /\ \A u \in On(m, c) : m[u].state = Idle
        BY <1>1, <1>2, <1>3
  <2>2. Backs(q) => q[1].type = "terminateChat"
        BY <1>3 DEF Backs
  <2>. QED  BY <1>1, <2>1, <2>2
<1>6. Head(q).type = "terminateChat" /\ q[Len(q)].type # "terminateChat" => r # <<>>
      BY <1>1
<1>7. r # <<>> => r[Len(r)] = q[Len(q)]
  <2>1. r # <<>> => Len(r) >= 1 /\ Len(r) \in Nat
        BY <1>1
  <2>. QED  BY <1>4, <2>1, <1>1
<1>8. Backs(q) => Backs(r)
      BY <1>4 DEF Backs
<1>9. Lined(m, c, r)
      BY <1>2, <1>4 DEF Lined
<1>10. (\E u \in On(m, c) : m[u].state # Idle) => Backs(q)
       BY <1>2 DEF Backs
<1>. QED  BY <1>1, <1>3, <1>5, <1>6, <1>7, <1>8, <1>9, <1>10 DEF r

\* What is behind it, when the handler has moved nobody or only back.
LEMMA LinedAgain ==
    ASSUME NEW m, NEW n, NEW c, NEW q, Lined(m, c, q), On(n, c) = On(m, c),
           \A u \in On(m, c) : n[u].state \in {m[u].state, Idle}
    PROVE  Lined(n, c, q)
BY DEF Lined

\* The process of a user of whom the server reads q.
LEMMA PhaseWaiting ==
    ASSUME NEW c, NEW p, NEW q, NEW st, Phase(<<>>, c, p, q, st), q # <<>>
    PROVE  /\ p.flag_l /\ Shows(p, st)
           /\ IF st = Idle THEN Backs(q) \/ Asks(p, q[Len(q)])
                           ELSE p.at # "command"
BY NothingLeft DEF Phase, Shown, Entering, Leaving, LoggingIn, Commands

\* The answer pk to the command of a user in state st, who is in state new then.
Follows(command, pk, st, new) ==
    \/ /\ pk.type \notin Moving \cup {"checkparty", "failTerminate"}
       /\ command.type # "terminateChat" /\ new = st
    \/ /\ pk.type = "failTerminate"
       /\ command.type = "terminateChat" /\ st = Idle /\ new = Idle
    \/ /\ pk.type = "successTerminate"
       /\ command.type = "terminateChat" /\ st # Idle /\ new = Idle
    \/ /\ pk.type = "joinSuccess"
       /\ command.type = "joinn" /\ new = InRoom(command.room)
    \/ /\ pk.type = "withSuccess"
       /\ command.type = "withh" /\ new = WithUser(command.user)

\* The process is left with the answer on its way.
LEMMA PhaseAnswered ==
    ASSUME NEW c, NEW p \in KnownClients, NEW q \in Seq(Packages), q # <<>>,
           NEW m, NEW u \in On(m, c), Lined(m, c, q),
           NEW st, st = m[u].state, Phase(<<>>, c, p, q, st),
           NEW pk, NEW new, Follows(Head(q), pk, st, new),
           NEW l, Answering(l, c), LastType(l) = pk.type,
           pk.type \notin Moving => Unmoved(l, c),
           pk.type = "failTerminate" => Unwoken(l, c)
    PROVE  Phase(l, c, p, Tail(q), new) /\ (p.flag_w => new = Idle)
<1>. DEFINE command == Head(q)
            r == Tail(q)
            last == q[Len(q)]
<1>1. On(m, c) # {}
      OBVIOUS
<1>2. /\ command.type # "terminateChat" =>
            r = <<>> /\ last = command /\ ~Backs(q) /\ st = Idle
      /\ command.type = "terminateChat" /\ last.type # "terminateChat" => r # <<>>
      /\ r # <<>> => r[Len(r)] = last
      /\ Backs(q) => Backs(r)
      /\ st # Idle => Backs(q)
  <2>1. command.type # "terminateChat" =>
            r = <<>> /\ last = command /\ ~Backs(q) /\ st = Idle
        BY <1>1, CommandLined
  <2>2. command.type = "terminateChat" /\ last.type # "terminateChat" => r # <<>>
        BY <1>1, CommandLined
  <2>3. r # <<>> => r[Len(r)] = last
        BY <1>1, CommandLined
  <2>4. (Backs(q) => Backs(r)) /\ (st # Idle => Backs(q))
        BY <1>1, CommandLined
  <2>. QED  BY <2>1, <2>2, <2>3, <2>4
<1>3. /\ p.flag_l /\ Shows(p, st)
      /\ IF st = Idle THEN Backs(q) \/ Asks(p, last) ELSE p.at # "command"
      BY PhaseWaiting
<1>. HIDE DEF command, r, last
<1>4. st = Idle => Nowhere(p)
      BY <1>3, PlaceShown
<1>5. CASE command.type # "terminateChat"
  <2>1. /\ r = <<>> /\ st = Idle /\ Nowhere(p) /\ Awaits(p)
        /\ command.type = "withh" => p.userw = command.user
        /\ command.type = "joinn" => p.roomw = command.room
        BY <1>2, <1>3, <1>4, <1>5 DEF Asks
  <2>2. ASSUME pk.type \notin Moving /\ new = Idle
        PROVE  Phase(l, c, p, r, new)
    <3>1. Commands(l, c, p, r) /\ Unmoved(l, c)
          BY <2>1, <2>2 DEF Commands
    <3>2. Shown(l, c, p, r, new)
          BY <1>3, <2>1, <2>2, <3>1 DEF Shown
    <3>. QED  BY <1>3, <3>2 DEF Phase
  <2>3. ASSUME \/ pk.type = "joinSuccess" /\ new = InRoom(p.roomw)
               \/ pk.type = "withSuccess" /\ new = WithUser(p.userw)
        PROVE  Phase(l, c, p, r, new)
    <3>1. Entering(l, c, p, r, new)
          BY <2>1, <2>3 DEF Entering
    <3>. QED  BY <1>3, <3>1 DEF Phase
  <2>4. \/ pk.type \notin Moving /\ new = Idle
        \/ \/ pk.type = "joinSuccess" /\ new = InRoom(p.roomw)
           \/ pk.type = "withSuccess" /\ new = WithUser(p.userw)
        BY <1>5, <2>1 DEF Follows, command
  <2>5. Phase(l, c, p, r, new)
        BY <2>2, <2>3, <2>4, Zenon
  <2>6. ~p.flag_w
        BY <2>1 DEF Nowhere
  <2>. QED  BY <2>5, <2>6 DEF r
<1>6. CASE pk.type = "failTerminate"
  <2>1. st = Idle /\ new = Idle /\ Nowhere(p) /\ Unwoken(l, c)
        /\ command.type = "terminateChat"
        BY <1>4, <1>6 DEF Follows, command, Moving
  <2>2. Commands(l, c, p, r)
    <3>1. CASE Backs(q)
          BY <1>2, <2>1, <3>1 DEF Commands
    <3>2. CASE Asks(p, last)
          BY <1>2, <2>1, <3>2 DEF Commands, Asks
    <3>. QED  BY <1>3, <2>1, <3>1, <3>2
  <2>3. Unmoved(l, c)
        BY <1>6 DEF Moving
  <2>4. Shown(l, c, p, r, new)
        BY <1>3, <2>1, <2>2, <2>3 DEF Shown
  <2>. QED  BY <1>3, <2>1, <2>4 DEF Phase, Nowhere, r
<1>7. CASE pk.type = "successTerminate"
  <2>1. st # Idle /\ new = Idle /\ Backs(r) /\ p.at # "command"
        BY <1>2, <1>3, <1>7 DEF Follows, command, Moving
  <2>2. Leaving(l, c, p, r, new)
        BY <1>7, <2>1 DEF Leaving
  <2>. QED  BY <1>3, <2>1, <2>2 DEF Phase, r
<1>8. command.type # "terminateChat" \/ pk.type \in {"failTerminate", "successTerminate"}
      BY DEF Follows, command
<1>. QED  BY <1>5, <1>6, <1>7, <1>8

\* After a handler of c, which answers pk, everybody is connected as before and
\* everybody else is where he was.
Replied(c, pk) ==
    /\ Stays(mapuser, mapuser', c)
    /\ On(mapuser', c) = On(mapuser, c) /\ Online(mapuser') = Online(mapuser)
    /\ Seats(mapuser', roomMap') /\ OfflineIdle(mapuser') /\ chats' = chats
    /\ Concludes(mapuser', todo', c, pk)

\* A withSuccess says whether the peer is online.
TruePeer(m, c, pk) ==
    pk.type = "withSuccess" => \A u \in On(m, c) :
        m[u].state.type = 1 => (pk.online <=> m[u].state.name \in Online(m))

LEMMA RepliedIsAttended ==
    ASSUME NEW c \in Fds, NEW pk \in AnswerPackages, Replied(c, pk),
           TruePeer(mapuser', c, pk), pk.type # "checkparty"
    PROVE  Attended(c)
<1>1. Concludes(mapuser', todo', c, pk)
      BY DEF Replied
<1>2. AllGentle(mapuser', todo', c)
  <2>. DEFINE m == mapuser'
              l == todo'
  <2>1. /\ Concludes(m, l, c, pk)
        /\ pk.type = "withSuccess" => \A u \in On(m, c) :
              m[u].state.type = 1 => (pk.online <=> m[u].state.name \in Online(m))
        BY <1>1 DEF TruePeer
  <2>. HIDE DEF m, l
  <2>2. AllGentle(m, l, c)
        BY <2>1, Concluded
  <2>. QED  BY <2>2 DEF m, l
<1>. QED  BY <1>2 DEF Replied, Attended, Warned

LEMMA RepliedSteps ==
    ASSUME TypeOK, ClientInv, LoginInv, StepInv, NEW c \in Fds, ServerReads(c),
           UNCHANGED <<up, sock>>, On(mapuser, c) # {},
           NEW pk \in AnswerPackages, Replied(c, pk), TruePeer(mapuser', c, pk),
           \A u \in On(mapuser, c) :
              Follows(Head(queue[c]), pk, mapuser[u].state, mapuser'[u].state)
    PROVE  StepInv'
<1>. DEFINE m == mapuser'
            l == todo'
            p == client[c]
            q == queue[c]
<1>1. /\ todo = <<>> /\ q # <<>> /\ q \in Seq(Packages)
      /\ queue'[c] = Tail(q) /\ (\A d \in Fds : d # c => queue'[d] = queue[d])
      /\ UNCHANGED client
      BY DEF ServerReads, Reads, Visits, ClientInv
<1>2. pk.type # "checkparty"
      BY DEF Follows, Moving
<1>3. Attended(c)
      BY <1>2, RepliedIsAttended
<1>4. /\ Answering(l, c) /\ LastType(l) = pk.type
      /\ pk.type \notin Moving => Unmoved(l, c)
      /\ pk.type = "failTerminate" => Unwoken(l, c)
  <2>1. /\ Concludes(m, l, c, pk)
        /\ pk.type = "withSuccess" => \A u \in On(m, c) :
              m[u].state.type = 1 => (pk.online <=> m[u].state.name \in Online(m))
        BY DEF TruePeer, Replied
  <2>. HIDE DEF m, l
  <2>. QED  BY <1>2, <2>1, Concluded
<1>5. Lined(mapuser, c, q)
      BY DEF StepInv, Steady
<1>6. On(m, c) = On(mapuser, c)
      BY DEF Replied
<1>. HIDE DEF m, l, p, q
<1>7. Lined(m, c, Tail(q))
  <2>1. Lined(mapuser, c, Tail(q))
        BY <1>1, <1>5, CommandLined
  <2>2. CASE Tail(q) = <<>>
        BY <2>2, NoneLeft
  <2>3. CASE Tail(q) # <<>>
    <3>1. Head(q).type = "terminateChat"
          BY <1>1, <1>5, <2>3, CommandLined
    <3>2. \A u \in On(mapuser, c) : m[u].state \in {mapuser[u].state, Idle}
          BY <3>1 DEF Follows, m, q
    <3>. QED  BY <1>6, <2>1, <3>2, LinedAgain
  <2>. QED  BY <2>2, <2>3
<1>8. ASSUME sock[c] = "open"
      PROVE  InStep(m, l, c, p, Tail(q)) /\ Marked(m, l, c, p)
  <2>1. p \in KnownClients /\ InStep(mapuser, todo, c, p, q)
        BY <1>8, SlotFacts DEF p, q
  <2>2. ASSUME NEW u \in On(m, c)
        PROVE  Phase(l, c, p, Tail(q), m[u].state) /\ (p.flag_w => m[u].state = Idle)
    <3>1. u \in On(mapuser, c) /\ Phase(<<>>, c, p, q, mapuser[u].state)
          BY <1>1, <1>6, <2>1, <2>2 DEF InStep
    <3>2. Follows(Head(q), pk, mapuser[u].state, m[u].state)
          BY <3>1 DEF m, q
    <3>. QED  BY <1>1, <1>4, <1>5, <2>1, <3>1, <3>2, PhaseAnswered
  <2>. QED  BY <1>6, <2>2 DEF InStep, Marked, Idle, WithUser
<1>9. Steady(c)'
  <2>1. /\ sock'[c] = sock[c] /\ sock[c] # "free" /\ client'[c] = p
        /\ queue'[c] = Tail(q) /\ mapuser' = m /\ todo' = l
        BY <1>1 DEF ServerReads, Reads, Visits, m, l, p
  <2>. QED  BY <1>7, <1>8, <2>1 DEF Steady
<1>. QED  BY <1>1, <1>3, <1>9, AttendedSteps

-----------------------------------------------------------------------------
(* The handlers.                                                           *)

LEMMA OnlineSomewhere ==
    ASSUME NEW m, IsMap(m, Users, Accounts), NEW u
    PROVE  u \in Online(m) <=> \E d \in Fds : u \in On(m, d)
<1>1. \A x \in DOMAIN m : m[x].fd \in Fds \cup {NoFd}
      BY DEF IsMap, Accounts
<1>. QED  BY <1>1, FdAssumption DEF Online, On

LEMMA OnlineSame ==
    ASSUME NEW m, IsMap(m, Users, Accounts), NEW n, IsMap(n, Users, Accounts),
           \A d \in Fds : On(n, d) = On(m, d)
    PROVE  Online(n) = Online(m)
<1>1. \A u : u \in Online(n) <=> u \in Online(m)
      BY OnlineSomewhere
<1>. QED  BY <1>1

\* The account of a connection is the only one on it.
LEMMA SenderAlone ==
    ASSUME TypeOK, LoginInv, NEW c \in Fds, checkfd(c),
           NEW u, u = findUserByfd(mapuser, c)
    PROVE  /\ On(mapuser, c) = {u} /\ u \in DOMAIN mapuser /\ u \in Users
           /\ mapuser[u].fd = c /\ mapuser[u].state \in States
<1>1. u \in DOMAIN mapuser /\ mapuser[u].fd = c
      BY SenderAccount
<1>2. u \in On(mapuser, c)
      BY <1>1 DEF On
<1>3. \A v \in On(mapuser, c) : u = v
      BY <1>2 DEF LoginInv, Held
<1>4. u \in Users /\ mapuser[u] \in Accounts
      BY <1>1, MemoryTypes, MapValue DEF IsMap
<1>. QED  BY <1>1, <1>2, <1>3, <1>4 DEF Accounts

\* The others stay in their rooms, and those who stay in one of them too.
LEMMA SeatsKept ==
    ASSUME NEW m, NEW rooms, Seats(m, rooms), NEW n, NEW c, Stays(m, n, c),
           NEW others, \A r \in DOMAIN others : listClients(others[r]) \subseteq Fds,
           \A r \in DOMAIN others : \A d \in listClients(others[r]) :
              IF d = c THEN \E u \in On(n, c) : n[u].state = InRoom(r)
                       ELSE r \in DOMAIN rooms /\ d \in listClients(rooms[r])
    PROVE  Seats(n, others)
<1>. SUFFICES ASSUME NEW r \in DOMAIN others, NEW d \in listClients(others[r])
              PROVE  \E u \in On(n, d) : n[u].state = InRoom(r)
     BY DEF Seats
<1>1. CASE d = c
      BY <1>1
<1>2. CASE d # c
  <2>1. d \in Fds /\ r \in DOMAIN rooms /\ d \in listClients(rooms[r])
        BY <1>2
  <2>2. PICK u \in On(m, d) : m[u].state = InRoom(r)
        BY <2>1 DEF Seats
  <2>. QED  BY <1>2, <2>1, <2>2 DEF Stays
<1>. QED  BY <1>1, <1>2

LEMMA ClientsTypes ==
    ASSUME TypeOK
    PROVE  \A r \in DOMAIN roomMap :
              /\ roomMap[r] \in RoomRecords
              /\ listClients(roomMap[r]) \subseteq Fds
<1>. SUFFICES ASSUME NEW r \in DOMAIN roomMap
              PROVE  /\ roomMap[r] \in RoomRecords
                     /\ listClients(roomMap[r]) \subseteq Fds
     OBVIOUS
<1>1. roomMap[r] \in RoomRecords
      BY MemoryTypes, MapValue
<1>. QED  BY <1>1, RoomOperations

\* Nobody is moved and nobody is added to a list.
LEMMA PlacesReplied ==
    ASSUME TypeOK, TypeOK', StepInv, NEW c \in Fds, NEW pk \in AnswerPackages,
           \A d \in Fds : On(mapuser', d) = On(mapuser, d),
           \A u \in Online(mapuser) : mapuser'[u].state = mapuser[u].state,
           OfflineIdle(mapuser'),
           \A r \in DOMAIN roomMap' : \A d \in listClients(roomMap'[r]) :
              r \in DOMAIN roomMap /\ d \in listClients(roomMap[r]),
           UNCHANGED chats, Concludes(mapuser', todo', c, pk)
    PROVE  /\ Replied(c, pk)
           /\ \A u \in On(mapuser, c) : mapuser'[u].state = mapuser[u].state
<1>. DEFINE n == mapuser'
            others == roomMap'
<1>1. IsMap(mapuser, Users, Accounts) /\ IsMap(n, Users, Accounts)
      BY DEF TypeOK
<1>2. \A r \in DOMAIN others : listClients(others[r]) \subseteq Fds
      BY ClientsTypes
<1>. HIDE DEF n, others
<1>3. Online(n) = Online(mapuser)
      BY <1>1, OnlineSame DEF n
<1>4. \A d \in Fds : \A u \in On(mapuser, d) : n[u].state = mapuser[u].state
      BY <1>1, OnlineSomewhere DEF n
<1>5. \A d \in Fds : Stays(mapuser, n, d)
      BY <1>4 DEF Stays, n
<1>6. Seats(n, others)
  <2>1. \A r \in DOMAIN others : \A d \in listClients(others[r]) :
           \E u \in On(n, d) : n[u].state = InRoom(r)
        BY <1>2, <1>4 DEF StepInv, Seats, n, others
  <2>. QED  BY <2>1 DEF Seats
<1>. QED  BY <1>3, <1>4, <1>5, <1>6 DEF Replied, n, others

LEMMA ConcludesAlone ==
    ASSUME NEW m, NEW c \in Fds, NEW pk \in AnswerPackages
    PROVE  Concludes(m, WriteAll({c}, pk), c, pk)
<1>1. WriteAll({c}, pk) \in Seq(Calls)
      BY AnswerAlone
<1>2. WriteAll({c}, pk) = <<>> \o WriteAll({c}, pk)
      BY <1>1
<1>. QED  BY <1>2, GentleNone, CallsInNone DEF Concludes

LEMMA ConcludesSql ==
    ASSUME NEW m, NEW c \in Fds, NEW pk, NEW s \in Statements
    PROVE  Concludes(m, Sql(s) \o WriteAll({c}, pk), c, pk)
BY GentleSql DEF Concludes

\* A refusal, or an answer that shows something.
LEMMA AnswersReplied ==
    ASSUME TypeOK, TypeOK', StepInv, NEW c \in Fds, NEW type \in AnswerTypes,
           Answers(c, type)
    PROVE  /\ Replied(c, Answer(type))
           /\ \A u \in On(mapuser, c) : mapuser'[u].state = mapuser[u].state
<1>1. /\ UNCHANGED <<mapuser, roomMap, chats>>
      /\ todo' = WriteAll({c}, Answer(type))
      BY DEF Answers, Does, memory, Reply
<1>2. Concludes(mapuser', todo', c, Answer(type))
      BY <1>1, AnswerKinds, ConcludesAlone
<1>. QED  BY <1>1, <1>2, AnswerKinds, PlacesReplied DEF StepInv

\* The answers after which c is where it was, and a handler that gives one.
Remarks == AnswerTypes \ (Moving \cup {"checkparty", "failTerminate"})

StaysPut(c) ==
    \E type \in Remarks :
        /\ Replied(c, Answer(type))
        /\ \A u \in On(mapuser, c) : mapuser'[u].state = mapuser[u].state

LEMMA AnswersStill ==
    ASSUME TypeOK, TypeOK', StepInv, NEW c \in Fds, NEW type \in Remarks,
           Answers(c, type)
    PROVE  StaysPut(c)
BY AnswersReplied DEF StaysPut, Remarks

LEMMA StatementStill ==
    ASSUME TypeOK, TypeOK', StepInv, NEW c \in Fds, NEW s \in Statements,
           NEW type \in Remarks, Does(Sql(s) \o Reply(c, type)),
           \A d \in Fds : On(mapuser', d) = On(mapuser, d),
           \A u \in Online(mapuser) : mapuser'[u].state = mapuser[u].state,
           OfflineIdle(mapuser'),
           \A r \in DOMAIN roomMap' : \A d \in listClients(roomMap'[r]) :
              r \in DOMAIN roomMap /\ d \in listClients(roomMap[r]),
           UNCHANGED chats
    PROVE  StaysPut(c)
<1>1. type \in AnswerTypes /\ Answer(type) \in AnswerPackages
      BY AnswerKinds DEF Remarks
<1>2. Concludes(mapuser', todo', c, Answer(type))
  <2>1. todo' = Sql(s) \o WriteAll({c}, Answer(type))
        BY DEF Does, Reply
  <2>. QED  BY <1>1, <2>1, ConcludesSql
<1>3. Replied(c, Answer(type))
      BY <1>1, <1>2, PlacesReplied
<1>4. \A u \in On(mapuser, c) : mapuser'[u].state = mapuser[u].state
      BY <1>1, <1>2, PlacesReplied
<1>. QED  BY <1>3, <1>4 DEF StaysPut

\* The accounts: only one who is offline is changed, or comes or goes.
LEMMA AccountsStill ==
    ASSUME TypeOK, TypeOK', StepInv, NEW c \in Fds,
           NEW u \in Users \cup {NoName}, NEW p \in Passwords \cup {NoName},
           NEW role \in Roles \cup {NoRole},
           \/ AddUser(c, u, p, role)
           \/ handleModifyUser(c, u, p, role)
           \/ u \in Users /\ DeleteUser(c, u)
    PROVE  StaysPut(c)
<1>1. CASE \E type \in {"createFail", "modifyFail", "deleteFail"} : Answers(c, type)
      BY <1>1, AnswersStill DEF Remarks, AnswerTypes, Moving
<1>2. OfflineIdle(mapuser)
      BY DEF StepInv
<1>3. \A x \in DOMAIN mapuser : mapuser[x] \in Accounts
      BY MemoryTypes, MapValue
<1>4. CASE AddUser(c, u, p, role) /\ ~Answers(c, "createFail")
  <2>. DEFINE account == [password |-> p, role |-> NormalRole(role),
                          state |-> Idle, fd |-> NoFd]
  <2>1. /\ u \in Users /\ p \in Passwords /\ u \notin DOMAIN mapuser
        /\ mapuser' = Put(mapuser, u, account)
        /\ Does(Sql(insertUser(u, p, NormalRole(role)))
                \o Reply(c, "createSuccess"))
        /\ UNCHANGED <<roomMap, chats>>
        BY <1>4 DEF AddUser
  <2>2. account.fd = NoFd /\ account.state = Idle
        OBVIOUS
  <2>. HIDE DEF account
  <2>3. \A d \in Fds : On(mapuser', d) = On(mapuser, d)
        BY <2>1, <2>2, ConnectionsSame DEF SameConnections
  <2>4. /\ DOMAIN mapuser' = DOMAIN mapuser \cup {u} /\ mapuser'[u] = account
        /\ \A x \in DOMAIN mapuser : mapuser'[x] = mapuser[x]
        BY <2>1 DEF Put
  <2>5. /\ \A x \in Online(mapuser) : mapuser'[x].state = mapuser[x].state
        /\ OfflineIdle(mapuser')
        BY <1>2, <2>2, <2>4 DEF Online, OfflineIdle
  <2>6. insertUser(u, p, NormalRole(role)) \in Statements
        BY <2>1, NormalRoleType, StatementTypes
  <2>. QED  BY <2>1, <2>3, <2>5, <2>6, StatementStill
            DEF Remarks, AnswerTypes, Moving
<1>5. CASE handleModifyUser(c, u, p, role) /\ ~Answers(c, "modifyFail")
  <2>1. /\ u \in DOMAIN mapuser /\ p \in Passwords
        /\ mapuser' = [mapuser EXCEPT ![u].password = p,
                                      ![u].role = NormalRole(role)]
        /\ Does(Sql(modifyUser(u, p, NormalRole(role)))
                \o Reply(c, "modifySuccess"))
        /\ UNCHANGED <<roomMap, chats>>
        BY <1>5 DEF handleModifyUser, MayModify
  <2>2. \A d \in Fds : On(mapuser', d) = On(mapuser, d)
        BY <2>1, ConnectionsSame DEF SameConnections
  <2>3. /\ DOMAIN mapuser' = DOMAIN mapuser
        /\ \A x \in DOMAIN mapuser : /\ mapuser'[x].state = mapuser[x].state
                                     /\ mapuser'[x].fd = mapuser[x].fd
        BY <1>3, <2>1 DEF Accounts
  <2>4. /\ \A x \in Online(mapuser) : mapuser'[x].state = mapuser[x].state
        /\ OfflineIdle(mapuser')
        BY <1>2, <2>3 DEF Online, OfflineIdle
  <2>5. modifyUser(u, p, NormalRole(role)) \in Statements
        BY <2>1, MemoryTypes, MapValue, NormalRoleType, StatementTypes
  <2>. QED  BY <2>1, <2>2, <2>4, <2>5, StatementStill
            DEF Remarks, AnswerTypes, Moving
<1>6. CASE u \in Users /\ DeleteUser(c, u) /\ ~Answers(c, "deleteFail")
  <2>1. /\ mapuser[u].fd = NoFd /\ mapuser' = Erase(mapuser, u)
        /\ Does(Sql(deleteUser(u)) \o Reply(c, "deleteSuccess"))
        /\ UNCHANGED <<roomMap, chats>>
        BY <1>6 DEF DeleteUser, MayDelete
  <2>2. \A d \in Fds : On(mapuser', d) = On(mapuser, d)
        BY <2>1, ConnectionsSame DEF SameConnections
  <2>3. /\ DOMAIN mapuser' = DOMAIN mapuser \ {u}
        /\ \A x \in DOMAIN mapuser' : mapuser'[x] = mapuser[x]
        BY <2>1, EraseValues DEF Erase, Restrict
  <2>4. /\ \A x \in Online(mapuser) : mapuser'[x].state = mapuser[x].state
        /\ OfflineIdle(mapuser')
        BY <1>2, <2>1, <2>3 DEF Online, OfflineIdle
  <2>5. deleteUser(u) \in Statements
        BY <1>6, StatementTypes
  <2>. QED  BY <2>1, <2>2, <2>4, <2>5, StatementStill
            DEF Remarks, AnswerTypes, Moving
<1>. QED  BY <1>1, <1>4, <1>5, <1>6

\* The rooms: only one that is empty is changed, or goes.
LEMMA RoomsStill ==
    ASSUME TypeOK, TypeOK', StepInv, NEW c \in Fds,
           NEW r \in Rooms \cup {NoName}, NEW k \in Int,
           addRoom(c, r, k) \/ ModifyRoom(c, r, k) \/ DeleteRoom(c, r)
    PROVE  StaysPut(c)
<1>1. CASE \E type \in {"createFail", "modifyFail", "deleteFail"} : Answers(c, type)
      BY <1>1, AnswersStill DEF Remarks, AnswerTypes, Moving
<1>2. \A x \in DOMAIN roomMap : x \in Rooms /\ roomMap[x] \in RoomRecords
      BY MemoryTypes, MapValue
<1>3. ASSUME UNCHANGED <<mapuser, chats>>,
             \A x \in DOMAIN roomMap' : \A d \in listClients(roomMap'[x]) :
                x \in DOMAIN roomMap /\ d \in listClients(roomMap[x]),
             NEW s \in Statements, NEW type \in Remarks,
             Does(Sql(s) \o Reply(c, type))
      PROVE  StaysPut(c)
  <2>1. OfflineIdle(mapuser')
        BY <1>3 DEF StepInv
  <2>. QED  BY <1>3, <2>1, StatementStill
<1>4. CASE addRoom(c, r, k) /\ ~Answers(c, "createFail")
  <2>1. /\ r \in Rooms /\ r \notin DOMAIN roomMap /\ k \in Nat
        /\ \E id \in ReadBack[r] :
              /\ roomMap' = Put(roomMap, r, NewRoom(id, k))
              /\ Does(Sql(insertRoom(id, k)) \o Reply(c, "createSuccess"))
        /\ UNCHANGED <<mapuser, chats>>
        BY <1>4 DEF addRoom
  <2>2. PICK id \in ReadBack[r] :
           /\ roomMap' = Put(roomMap, r, NewRoom(id, k))
           /\ Does(Sql(insertRoom(id, k)) \o Reply(c, "createSuccess"))
        BY <2>1
  <2>3. /\ DOMAIN roomMap' = DOMAIN roomMap \cup {r} /\ roomMap'[r] = NewRoom(id, k)
        /\ \A x \in DOMAIN roomMap : roomMap'[x] = roomMap[x]
        BY <2>1, <2>2 DEF Put
  <2>4. listClients(NewRoom(id, k)) = {}
        BY <2>1 DEF NewRoom, listClients, getOnlUser
  <2>5. insertRoom(id, k) \in Statements
        BY <2>1, <2>2, RoomStatementTypes, ReadBackAssumption
  <2>. QED  BY <1>3, <2>1, <2>2, <2>3, <2>4, <2>5 DEF Remarks, AnswerTypes, Moving
<1>5. CASE ModifyRoom(c, r, k) /\ ~Answers(c, "modifyFail")
  <2>. DEFINE room == setRoomID(roomMap[r], r)
  <2>1. /\ roomMap' = [roomMap EXCEPT ![r] = setCapacity(room, k)]
        /\ r \in DOMAIN roomMap /\ k \in Nat
        /\ Does(Sql(modifyRoom(r, k)) \o Reply(c, "modifySuccess"))
        /\ UNCHANGED <<mapuser, chats>>
        BY <1>5 DEF ModifyRoom, MayModifyRoom
  <2>2. /\ DOMAIN roomMap' = DOMAIN roomMap
        /\ roomMap'[r] = setCapacity(room, k)
        /\ \A x \in DOMAIN roomMap : x # r => roomMap'[x] = roomMap[x]
        BY <2>1
  <2>3. room \in RoomRecords /\ listClients(room) = listClients(roomMap[r])
        BY <1>2, <2>1 DEF setRoomID, RoomRecords, listClients, getOnlUser
  <2>. HIDE DEF room
  <2>4. listClients(setCapacity(room, k)) = listClients(roomMap[r])
        BY <2>1, <2>3, CapacityClients
  <2>5. modifyRoom(r, k) \in Statements
        BY <1>2, <2>1, RoomStatementTypes
  <2>. QED  BY <1>3, <2>1, <2>2, <2>4, <2>5 DEF Remarks, AnswerTypes, Moving
<1>6. CASE DeleteRoom(c, r) /\ ~Answers(c, "deleteFail")
  <2>1. /\ roomMap' = Erase(roomMap, r) /\ r \in DOMAIN roomMap
        /\ Does(Sql(deleteRoom(roomMap[r].roomID)) \o Reply(c, "deleteSuccess"))
        /\ UNCHANGED <<mapuser, chats>>
        BY <1>6 DEF DeleteRoom, MayDeleteRoom
  <2>2. /\ DOMAIN roomMap' = DOMAIN roomMap \ {r}
        /\ \A x \in DOMAIN roomMap' : roomMap'[x] = roomMap[x]
        BY <2>1, EraseValues DEF Erase, Restrict
  <2>3. deleteRoom(roomMap[r].roomID) \in Statements
    <3>1. roomMap[r].roomID \in Rooms
          BY <1>2, <2>1 DEF RoomRecords
    <3>. QED  BY <3>1, RoomStatementTypes
  <2>. QED  BY <1>3, <2>1, <2>2, <2>3 DEF Remarks, AnswerTypes, Moving
<1>. QED  BY <1>1, <1>4, <1>5, <1>6

-----------------------------------------------------------------------------
(* The three handlers that move a user.                                    *)

\* The state of the only user of c is set.
LEMMA StateSet ==
    ASSUME TypeOK, NEW c \in Fds, NEW u, On(mapuser, c) = {u}, NEW st \in States,
           NEW n, n = SetState(mapuser, u, st), OfflineIdle(mapuser)
    PROVE  /\ IsMap(n, Users, Accounts) /\ Stays(mapuser, n, c)
           /\ \A d \in Fds : On(n, d) = On(mapuser, d)
           /\ Online(n) = Online(mapuser) /\ n[u].state = st
           /\ OfflineIdle(n)
<1>1. u \in DOMAIN mapuser /\ mapuser[u].fd = c
      BY DEF On
<1>2. \A x \in DOMAIN mapuser : mapuser[x] \in Accounts
      BY MemoryTypes, MapValue
<1>3. /\ DOMAIN n = DOMAIN mapuser /\ n[u].state = st
      /\ \A x \in DOMAIN mapuser : n[x].fd = mapuser[x].fd
      /\ \A x \in DOMAIN mapuser : x # u => n[x].state = mapuser[x].state
      BY <1>1, <1>2 DEF SetState, Accounts
<1>4. IsMap(n, Users, Accounts)
      BY MemoryTypes, SetStateIsMap
<1>5. /\ \A d \in Fds : On(n, d) = On(mapuser, d)
      /\ Online(n) = Online(mapuser)
      BY <1>3 DEF On, Online
<1>6. Stays(mapuser, n, c)
      BY <1>1, <1>3, <1>5 DEF Stays, On
<1>7. OfflineIdle(n)
      BY <1>1, <1>3, FdAssumption DEF OfflineIdle
<1>. QED  BY <1>3, <1>4, <1>5, <1>6, <1>7

LEMMA IdleInNoRoom ==
    ASSUME StepInv, NEW c, \A u \in On(mapuser, c) : mapuser[u].state = Idle
    PROVE  \A r \in DOMAIN roomMap : c \notin listClients(roomMap[r])
<1>1. \A r : InRoom(r) # Idle
  <2>1. \A r : InRoom(r).type = 2 /\ Idle.type = 0
        BY DEF InRoom, Idle
  <2>. QED  BY <2>1
<1>. QED  BY <1>1 DEF StepInv, Seats

LEMMA WithReplied ==
    ASSUME TypeOK, TypeOK', LoginInv, StepInv, NEW c \in Fds, checkfd(c),
           NEW v \in Users, WithFunction(c, v),
           \A u \in On(mapuser, c) : mapuser[u].state = Idle
    PROVE  \/ StaysPut(c)
           \/ \E pk \in AnswerPackages :
                 /\ Replied(c, pk) /\ TruePeer(mapuser', c, pk)
                 /\ pk.type = "withSuccess"
                 /\ \A u \in On(mapuser, c) : mapuser'[u].state = WithUser(v)
<1>1. CASE v \notin DOMAIN mapuser \/ mapuser[v].fd = c
      BY <1>1, AnswersStill DEF WithFunction, Remarks, AnswerTypes, Moving
<1>2. CASE ~(v \notin DOMAIN mapuser \/ mapuser[v].fd = c)
  <2>. DEFINE u == findUserByfd(mapuser, c)
              online == mapuser[v].fd # NoFd
              pk == StatusAnswer("withSuccess", online)
              n == mapuser'
  <2>1. /\ n = SetState(mapuser, u, WithUser(v))
        /\ todo' = Sql(updateState(u, WithUser(v))) \o WriteAll({c}, pk)
        /\ UNCHANGED <<roomMap, chats>>
        BY <1>2 DEF WithFunction, Does
  <2>2. pk \in AnswerPackages /\ pk.type = "withSuccess" /\ pk.online = online
    <3>1. "withSuccess" \in AnswerTypes
          BY DEF AnswerTypes
    <3>2. online \in BOOLEAN
          OBVIOUS
    <3>. HIDE DEF online
    <3>. QED  BY <3>1, <3>2, AnswerKinds
  <2>3. On(mapuser, c) = {u} /\ u \in Users /\ WithUser(v) \in States
        BY SenderAlone DEF States
  <2>. HIDE DEF u, pk, n
  <2>4. /\ IsMap(n, Users, Accounts) /\ Stays(mapuser, n, c)
        /\ \A d \in Fds : On(n, d) = On(mapuser, d)
        /\ Online(n) = Online(mapuser) /\ n[u].state = WithUser(v)
        /\ OfflineIdle(n)
        BY <2>1, <2>3, StateSet DEF StepInv
  <2>5. Concludes(n, todo', c, pk)
    <3>1. updateState(u, WithUser(v)) \in Statements
          BY <2>3, StatementTypes
    <3>. QED  BY <2>1, <3>1, ConcludesSql
  <2>6. Seats(n, roomMap)
    <3>1. \A r \in DOMAIN roomMap : c \notin listClients(roomMap[r])
          BY IdleInNoRoom
    <3>2. \A r \in DOMAIN roomMap : listClients(roomMap[r]) \subseteq Fds
          BY ClientsTypes
    <3>3. Seats(mapuser, roomMap)
          BY DEF StepInv
    <3>4. \A r \in DOMAIN roomMap : \A d \in listClients(roomMap[r]) :
             IF d = c THEN \E w \in On(n, c) : n[w].state = InRoom(r)
                      ELSE r \in DOMAIN roomMap /\ d \in listClients(roomMap[r])
          BY <3>1
    <3>. QED  BY <2>4, <3>2, <3>3, <3>4, SeatsKept
  <2>7. Replied(c, pk)
        BY <2>1, <2>4, <2>5, <2>6 DEF Replied, n
  <2>8. TruePeer(n, c, pk)
    <3>1. online <=> v \in Online(mapuser)
          BY <1>2 DEF Online
    <3>2. WithUser(v).name = v
          BY DEF WithUser
    <3>3. \A w \in On(n, c) : n[w].state.name = v
          BY <2>3, <2>4, <3>2
    <3>. HIDE DEF online
    <3>. QED  BY <2>2, <2>4, <3>1, <3>3 DEF TruePeer
  <2>. QED  BY <2>2, <2>3, <2>4, <2>7, <2>8 DEF n
<1>. QED  BY <1>1, <1>2

\* Nobody but fd comes into the list.
LEMMA AddedClients ==
    ASSUME NEW room \in RoomRecords, NEW fd \in Fds
    PROVE  listClients(Add(room, fd)) \subseteq listClients(room) \cup {fd}
<1>. DEFINE s == room.members
            n == Len(s)
<1>1. s \in Seq(Fds) /\ n \in Nat
      BY DEF RoomRecords
<1>2. Add(room, fd).members = Append(s, fd)
      BY DEF Add, RoomRecords
<1>3. /\ Len(Append(s, fd)) = n + 1
      /\ Append(s, fd)[n + 1] = fd
      /\ \A i \in 1..n : Append(s, fd)[i] = s[i]
      BY <1>1
<1>4. \A i \in 1..(n + 1) : i \in 1..n \/ i = n + 1
      BY <1>1
<1>5. listClients(room) = {s[i] : i \in 1..n}
      BY DEF listClients, getOnlUser
<1>6. listClients(Add(room, fd)) = {Append(s, fd)[i] : i \in 1..(n + 1)}
      BY <1>2, <1>3 DEF listClients, getOnlUser
<1>. HIDE DEF s, n
<1>. QED  BY <1>3, <1>4, <1>5, <1>6

LEMMA JoinReplied ==
    ASSUME TypeOK, TypeOK', LoginInv, StepInv, NEW c \in Fds, checkfd(c),
           NEW r \in Rooms, JoinRoom(c, r),
           \A u \in On(mapuser, c) : mapuser[u].state = Idle
    PROVE  \/ StaysPut(c)
           \/ /\ Replied(c, Answer("joinSuccess"))
              /\ \A u \in On(mapuser, c) : mapuser'[u].state = InRoom(r)
<1>1. CASE r \notin DOMAIN roomMap \/ ~CanAdd(roomMap[r], c)
      BY <1>1, AnswersStill DEF JoinRoom, Remarks, AnswerTypes, Moving
<1>2. CASE r \in DOMAIN roomMap /\ CanAdd(roomMap[r], c)
  <2>. DEFINE u == findUserByfd(mapuser, c)
              pk == Answer("joinSuccess")
              clear == Sql(clearState(u))
              update == Sql(updateState(u, InRoom(r)))
              n == mapuser'
              others == roomMap'
  <2>1. /\ n = SetState(mapuser, u, InRoom(r))
        /\ todo' = clear \o update \o WriteAll({c}, pk)
        /\ others = [roomMap EXCEPT ![r] = Add(@, c)]
        /\ UNCHANGED chats
        BY <1>2 DEF JoinRoom, Does, Reply
  <2>2. On(mapuser, c) = {u} /\ u \in Users /\ InRoom(r) \in States
        BY SenderAlone DEF States
  <2>3. /\ AllGentle(n, clear, c) /\ AllGentle(n, update, c)
        /\ \A call \in CallsIn(clear) \cup CallsIn(update) : ~WritesTo(call, c)
    <3>1. clearState(u) \in Statements /\ updateState(u, InRoom(r)) \in Statements
          BY <2>2, StatementTypes
    <3>. QED  BY <3>1, GentleSql
  <2>. HIDE DEF u, pk, clear, update, n, others
  <2>4. /\ IsMap(n, Users, Accounts) /\ Stays(mapuser, n, c)
        /\ \A d \in Fds : On(n, d) = On(mapuser, d)
        /\ Online(n) = Online(mapuser) /\ n[u].state = InRoom(r)
        /\ OfflineIdle(n)
        BY <2>1, <2>2, StateSet DEF StepInv
  <2>5. Concludes(n, todo', c, pk)
    <3>1. AllGentle(n, clear \o update, c)
          BY <2>3, GentleConcat
    <3>2. \A call \in CallsIn(clear \o update) : ~WritesTo(call, c)
          BY <2>3, CallsInConcat DEF AllGentle
    <3>. QED  BY <2>1, <3>1, <3>2 DEF Concludes
  <2>6. Seats(n, others)
    <3>1. \A x \in DOMAIN roomMap : /\ roomMap[x] \in RoomRecords
                                    /\ listClients(roomMap[x]) \subseteq Fds
          BY ClientsTypes
    <3>2. /\ DOMAIN others = DOMAIN roomMap
          /\ \A x \in DOMAIN others : x # r => others[x] = roomMap[x]
          /\ listClients(others[r]) \subseteq listClients(roomMap[r]) \cup {c}
          BY <1>2, <2>1, <3>1, AddedClients
    <3>3. \A x \in DOMAIN roomMap : c \notin listClients(roomMap[x])
          BY IdleInNoRoom
    <3>4. u \in On(n, c) /\ n[u].state = InRoom(r)
          BY <2>2, <2>4
    <3>5. \A x \in DOMAIN others : listClients(others[x]) \subseteq Fds
          BY <1>2, <3>1, <3>2
    <3>6. Seats(mapuser, roomMap)
          BY DEF StepInv
    <3>7. ASSUME NEW x \in DOMAIN others, NEW d \in listClients(others[x])
          PROVE  IF d = c THEN \E w \in On(n, c) : n[w].state = InRoom(x)
                          ELSE x \in DOMAIN roomMap /\ d \in listClients(roomMap[x])
      <4>1. CASE x = r
            BY <3>2, <3>4, <3>7, <4>1
      <4>2. CASE x # r
            BY <3>2, <3>3, <3>7, <4>2
      <4>. QED  BY <4>1, <4>2
    <3>. QED  BY <2>4, <3>5, <3>6, <3>7, SeatsKept
  <2>7. Replied(c, pk)
        BY <2>1, <2>4, <2>5, <2>6 DEF Replied, n, others
  <2>. QED  BY <2>2, <2>4, <2>7 DEF n, pk
<1>. QED  BY <1>1, <1>2

\* The notice that c has left reaches those who stay, and c is in no list.
Notice(c, st) == IF st.type = 2 THEN LeaveNotice(c, st) ELSE <<>>

LEMMA NoticeGentle ==
    ASSUME TypeOK, RoomsSound, LoginInv, StepInv, NEW c \in Fds, NEW st,
           NEW n, Stays(mapuser, n, c)
    PROVE  /\ AllGentle(n, Notice(c, st), c)
           /\ \A call \in CallsIn(Notice(c, st)) : ~WritesTo(call, c)
<1>1. CASE st.type = 2 /\ st.name \in DOMAIN roomMap
  <2>. DEFINE room == roomMap[st.name]
              fds == listClients(removeUser(room, c))
              pk == Answer("sendMess")
  <2>1. room \in RoomRecords /\ listClients(room) \subseteq Fds /\ Sound(room)
        BY <1>1, ClientsTypes DEF RoomsSound
  <2>2. fds \subseteq listClients(room) /\ c \notin fds
        BY <2>1, RemovedClients
  <2>3. Notice(c, st) = WriteAll(fds, pk)
        BY <1>1 DEF Notice, LeaveNotice
  <2>4. pk \in AnswerPackages /\ pk.type = "sendMess"
        BY AnswerKinds DEF AnswerTypes
  <2>5. ASSUME NEW d \in fds
        PROVE  d # c /\ \A u \in On(n, d) : n[u].state # Idle
    <3>1. d \in Fds /\ d # c /\ d \in listClients(room)
          BY <2>1, <2>2
    <3>2. PICK v \in On(mapuser, d) : mapuser[v].state = InRoom(st.name)
          BY <1>1, <3>1 DEF StepInv, Seats
    <3>3. \A u \in On(mapuser, d) : u = v
          BY <3>1 DEF LoginInv, Held
    <3>4. On(n, d) = On(mapuser, d) /\ n[v].state = InRoom(st.name)
          BY <3>1, <3>2 DEF Stays
    <3>5. InRoom(st.name).type = 2 /\ Idle.type = 0
          BY DEF InRoom, Idle
    <3>. QED  BY <3>1, <3>3, <3>4, <3>5
  <2>6. fds \in SUBSET Fds /\ pk.type \notin Moving \cup {"checkparty"}
        BY <2>1, <2>2, <2>4 DEF Moving
  <2>. HIDE DEF fds, pk
  <2>7. /\ AllGentle(n, WriteAll(fds, pk), c)
        /\ \A call \in CallsIn(WriteAll(fds, pk)) : ~WritesTo(call, c)
        BY <2>4, <2>5, <2>6, GentleWriteAll
  <2>. QED  BY <2>3, <2>7
<1>2. CASE ~(st.type = 2 /\ st.name \in DOMAIN roomMap)
  <2>1. Notice(c, st) = <<>>
        BY <1>2 DEF Notice, LeaveNotice
  <2>. QED  BY <2>1, GentleNone, CallsInNone
<1>. QED  BY <1>1, <1>2

LEMMA SeatsLeft ==
    ASSUME TypeOK, RoomsSound, NamesRead, misread = {}, StepInv, NEW c \in Fds,
           NEW u, On(mapuser, c) = {u}, NEW st, st = mapuser[u].state,
           NEW n, Stays(mapuser, n, c),
           NEW others,
           others = IF st.type = 2 THEN RoomsWithout(c, st) ELSE roomMap
    PROVE  Seats(n, others)
<1>1. \A r \in DOMAIN roomMap : /\ roomMap[r] \in RoomRecords
                                /\ listClients(roomMap[r]) \subseteq Fds
                                /\ Sound(roomMap[r])
      BY ClientsTypes DEF RoomsSound
<1>2. \A r \in DOMAIN roomMap : c \in listClients(roomMap[r]) =>
         st.type = 2 /\ st.name = r
  <2>1. \A r : InRoom(r).type = 2 /\ InRoom(r).name = r
        BY DEF InRoom
  <2>. QED  BY <2>1 DEF StepInv, Seats
<1>3. ASSUME NEW r \in DOMAIN others
      PROVE  /\ r \in DOMAIN roomMap
             /\ listClients(others[r]) \subseteq listClients(roomMap[r])
             /\ c \notin listClients(others[r])
  <2>1. CASE st.type = 2 /\ st.name \in DOMAIN roomMap
    <3>1. /\ DOMAIN others = DOMAIN roomMap
          /\ others[r] = IF r = st.name THEN removeUser(roomMap[r], c)
                                        ELSE roomMap[r]
      <4>1. others = RoomsWithout(c, st)
            BY <2>1
      <4>2. /\ DOMAIN others \ misread = DOMAIN roomMap \ misread
            /\ \A x \in DOMAIN roomMap \ misread :
                  others[x] = IF x = st.name THEN removeUser(roomMap[x], c)
                                             ELSE roomMap[x]
            BY <4>1, LeaveOthers
      <4>. QED  BY <1>3, <4>2
    <3>2. CASE r = st.name
          BY <1>1, <1>3, <3>1, <3>2, RemovedClients
    <3>3. CASE r # st.name
          BY <1>2, <1>3, <3>1, <3>3
    <3>. QED  BY <3>2, <3>3
  <2>2. CASE ~(st.type = 2 /\ st.name \in DOMAIN roomMap)
    <3>1. others = roomMap
          BY <2>2 DEF RoomsWithout
    <3>. QED  BY <1>2, <1>3, <2>2, <3>1
  <2>. QED  BY <2>1, <2>2
<1>4. \A r \in DOMAIN others : listClients(others[r]) \subseteq Fds
      BY <1>1, <1>3
<1>5. \A r \in DOMAIN others : \A d \in listClients(others[r]) :
         IF d = c THEN \E w \in On(n, c) : n[w].state = InRoom(r)
                  ELSE r \in DOMAIN roomMap /\ d \in listClients(roomMap[r])
      BY <1>3
<1>6. Seats(mapuser, roomMap)
      BY DEF StepInv
<1>. QED  BY <1>4, <1>5, <1>6, SeatsKept

LEMMA IdleName ==
    ASSUME NEW st \in States
    PROVE  st.name = NoName <=> st = Idle
<1>1. \A x : WithUser(x).name = x /\ InRoom(x).name = x /\ Idle.name = NoName
      BY DEF WithUser, InRoom, Idle
<1>2. \/ st = Idle
      \/ \E x \in Users \cup Rooms : st = WithUser(x) \/ st = InRoom(x)
      BY DEF States
<1>3. NoName \notin Users \cup Rooms
      BY NamesAssumption
<1>. QED  BY <1>1, <1>2, <1>3

LEMMA LeaveReplied ==
    ASSUME TypeOK, TypeOK', RoomsSound, NamesRead, misread = {}, LoginInv, StepInv,
           NEW c \in Fds, checkfd(c), LeaveChatUser(c)
    PROVE  \/ /\ Replied(c, Answer("failTerminate"))
              /\ \A u \in On(mapuser, c) :
                    mapuser[u].state = Idle /\ mapuser'[u].state = Idle
           \/ /\ Replied(c, Answer("successTerminate"))
              /\ \A u \in On(mapuser, c) :
                    mapuser[u].state # Idle /\ mapuser'[u].state = Idle
<1>. DEFINE u == findUserByfd(mapuser, c)
            st == mapuser[u].state
<1>1. On(mapuser, c) = {u} /\ u \in Users /\ st \in States
      BY SenderAlone
<1>2. st.name = NoName <=> st = Idle
      BY <1>1, IdleName
<1>3. CASE st.name = NoName
  <2>1. Answers(c, "failTerminate")
        BY <1>3 DEF LeaveChatUser
  <2>. HIDE DEF u
  <2>2. /\ Replied(c, Answer("failTerminate"))
        /\ \A v \in On(mapuser, c) : mapuser'[v].state = mapuser[v].state
        BY <2>1, AnswersReplied DEF AnswerTypes
  <2>. QED  BY <1>1, <1>2, <1>3, <2>2
<1>4. CASE st.name # NoName
  <2>. DEFINE pk == Answer("successTerminate")
              clear == Sql(clearState(u))
              n == mapuser'
              others == roomMap'
  <2>1. /\ n = SetState(mapuser, u, Idle)
        /\ todo' = Notice(c, st) \o clear \o WriteAll({c}, pk)
        /\ others = IF st.type = 2 THEN RoomsWithout(c, st) ELSE roomMap
        /\ UNCHANGED chats
        BY <1>4 DEF LeaveChatUser, Does, Reply, Notice
  <2>2. /\ AllGentle(n, clear, c)
        /\ \A call \in CallsIn(clear) : ~WritesTo(call, c)
        BY <1>1, StatementTypes, GentleSql
  <2>. HIDE DEF u, pk, clear, n, others
  <2>3. Idle \in States
        BY DEF States
  <2>4. /\ Stays(mapuser, n, c)
        /\ \A d \in Fds : On(n, d) = On(mapuser, d)
        /\ Online(n) = Online(mapuser) /\ n[u].state = Idle
        /\ OfflineIdle(n)
    <3>1. u \in Users /\ On(mapuser, c) = {u} /\ OfflineIdle(mapuser)
          BY <1>1 DEF StepInv, u
    <3>2. n = SetState(mapuser, u, Idle)
          BY <2>1
    <3>. QED  BY <2>3, <3>1, <3>2, StateSet
  <2>5. /\ AllGentle(n, Notice(c, st), c)
        /\ \A call \in CallsIn(Notice(c, st)) : ~WritesTo(call, c)
        BY <2>4, NoticeGentle
  <2>6. Concludes(n, todo', c, pk)
    <3>1. AllGentle(n, Notice(c, st) \o clear, c)
          BY <2>2, <2>5, GentleConcat
    <3>2. \A call \in CallsIn(Notice(c, st) \o clear) : ~WritesTo(call, c)
          BY <2>2, <2>5, CallsInConcat DEF AllGentle
    <3>. QED  BY <2>1, <3>1, <3>2 DEF Concludes
  <2>7. Seats(n, others)
        BY <1>1, <2>1, <2>4, SeatsLeft
  <2>8. Replied(c, pk)
        BY <2>1, <2>4, <2>6, <2>7 DEF Replied, n, others
  <2>. QED  BY <1>1, <1>2, <1>4, <2>4, <2>8 DEF n, pk
<1>. QED  BY <1>3, <1>4

-----------------------------------------------------------------------------
(* The peers of a user who comes or goes.                                  *)

\* What is written to them is the state of the peer, and nothing else.
LEMMA PartnersGentle ==
    ASSUME NEW k, IsMap(k, Users, Accounts), NEW n, NEW c \in Fds,
           NEW w, On(k, c) = {w}, NEW online \in BOOLEAN,
           online <=> w \in Online(n),
           \A d \in Fds : d # c => \A u, v \in On(k, d) : u = v,
           Stays(k, n, c), \A u \in On(n, c) : n[u].state.type # 1,
           NEW l, l = notificationOffline(k, c, online)
    PROVE  AllGentle(n, l, c) /\ Unwoken(l, c)
<1>. DEFINE pk == StatusAnswer("checkparty", online)
            fds == Partners(k, c)
            call == [op |-> "write", fds |-> fds, pk |-> pk]
<1>1. /\ call.op = "write" /\ call.fds = fds /\ call.pk = pk
      /\ pk.type = "checkparty" /\ pk.online = online
  <2>1. pk.type = "checkparty" /\ pk.online = online
        BY DEF StatusAnswer, Answer
  <2>. QED  BY <2>1
<1>2. CallsIn(l) \subseteq {call}
      BY CallsInOne, CallsInNone DEF notificationOffline, WriteAll
<1>3. l \in Seq(Calls) /\ fds \in SUBSET Fds
      BY NotificationType, PartnersOnline
<1>4. findUserByfd(k, c) = w
  <2>1. findUserByfd(k, c) \in On(k, c)
        BY FindUser_Is DEF On
  <2>. QED  BY <2>1
<1>5. \A d \in fds : \E v \in On(k, d) : k[v].state = WithUser(w)
      BY <1>4 DEF Partners, On, Online
<1>. HIDE DEF pk, fds, call
<1>6. ASSUME NEW d \in fds, NEW u \in On(n, d), n[u].state.type = 1
      PROVE  n[u].state.name = w
  <2>1. d \in Fds /\ d # c
        BY <1>3, <1>6
  <2>2. PICK v \in On(k, d) : k[v].state = WithUser(w)
        BY <1>5
  <2>3. u \in On(k, d) /\ u = v /\ n[u].state = k[u].state
        BY <2>1, <2>2 DEF Stays
  <2>. QED  BY <2>2, <2>3 DEF WithUser
<1>7. Gentle(n, call, c) /\ ~Wakes(call, c)
      BY <1>1, <1>6 DEF Gentle, Truthful, Wakes
<1>. QED  BY <1>2, <1>3, <1>7 DEF AllGentle, Unwoken

LEMMA PartnersTold ==
    ASSUME NEW k, IsMap(k, Users, Accounts), NEW c \in Fds, NEW w,
           On(k, c) = {w}, NEW online, NEW l, l = notificationOffline(k, c, online),
           NEW d \in Fds, NEW u \in On(k, d), k[u].state = WithUser(w)
    PROVE  Notified(l, d)
<1>. DEFINE pk == StatusAnswer("checkparty", online)
            fds == Partners(k, c)
            call == [op |-> "write", fds |-> fds, pk |-> pk]
<1>1. /\ call.op = "write" /\ call.fds = fds /\ call.pk = pk
      /\ pk.type = "checkparty"
  <2>1. pk.type = "checkparty"
        BY DEF StatusAnswer, Answer
  <2>. QED  BY <2>1
<1>2. findUserByfd(k, c) = w
  <2>1. findUserByfd(k, c) \in On(k, c)
        BY FindUser_Is DEF On
  <2>. QED  BY <2>1
<1>3. d \in fds
      BY <1>2, FdAssumption DEF Partners, On, Online
<1>4. l = <<call>>
      BY <1>3 DEF notificationOffline, WriteAll
<1>. HIDE DEF pk, fds, call
<1>. QED  BY <1>1, <1>3, <1>4, CallsInOne DEF Notified, WritesTo

\* Who is told of w is warned, when nobody else comes or goes.
LEMMA PartnersWarned ==
    ASSUME NEW k, IsMap(k, Users, Accounts), NEW m, NEW n, IsMap(n, Users, Accounts),
           NEW c \in Fds, NEW w, On(k, c) = {w}, NEW online,
           Stays(k, n, c), \A x : x # w => (x \in Online(n) <=> x \in Online(m)),
           NEW l, \A call \in CallsIn(notificationOffline(k, c, online)) :
                     call \in CallsIn(l),
           NEW d \in Fds, d # c
    PROVE  Warned(m, n, l, d)
<1>. SUFFICES ASSUME NEW u \in On(n, d), n[u].state.type = 1
              PROVE  \/ n[u].state.name \in Online(n) <=> n[u].state.name \in Online(m)
                     \/ Notified(l, d)
     BY DEF Warned
<1>1. n[u].state \in States
  <2>1. n[u] \in Accounts
        BY MapValue DEF On
  <2>. QED  BY <2>1 DEF Accounts
<1>2. \E x \in Users : n[u].state = WithUser(x)
  <2>1. \A x : InRoom(x).type = 2
        BY DEF InRoom
  <2>2. Idle.type = 0
        BY DEF Idle
  <2>. QED  BY <1>1, <2>1, <2>2 DEF States
<1>3. n[u].state = WithUser(n[u].state.name)
      BY <1>2 DEF WithUser
<1>4. CASE n[u].state.name # w
      BY <1>4
<1>5. CASE n[u].state.name = w
  <2>1. u \in On(k, d) /\ k[u].state = WithUser(w)
        BY <1>3, <1>5 DEF Stays
  <2>2. Notified(notificationOffline(k, c, online), d)
        BY <2>1, PartnersTold
  <2>. QED  BY <2>2 DEF Notified
<1>. QED  BY <1>4, <1>5

-----------------------------------------------------------------------------
(* The end of a connection.                                                *)

\* The user of a connection is set offline.
Unset(m, u) == [m EXCEPT ![u].state = Idle, ![u].fd = NoFd]

LEMMA SetOff ==
    ASSUME TypeOK, NEW c \in Fds, NEW u, On(mapuser, c) = {u},
           NEW n, n = Unset(mapuser, u),
           OfflineIdle(mapuser)
    PROVE  /\ IsMap(n, Users, Accounts) /\ Stays(mapuser, n, c) /\ On(n, c) = {}
           /\ u \notin Online(n)
           /\ \A x : x # u => (x \in Online(n) <=> x \in Online(mapuser))
           /\ OfflineIdle(n)
<1>1. u \in DOMAIN mapuser /\ mapuser[u].fd = c
      BY DEF On
<1>2. mapuser[u] \in Accounts
      BY <1>1, MemoryTypes, MapValue
<1>3. /\ DOMAIN n = DOMAIN mapuser /\ n[u].state = Idle /\ n[u].fd = NoFd
      /\ \A x \in DOMAIN mapuser : x # u => n[x] = mapuser[x]
      BY <1>1, <1>2 DEF Accounts, Unset
<1>4. IsMap(n, Users, Accounts)
      BY MemoryTypes, AccountUpdate DEF Unset
<1>5. /\ u \notin Online(n)
      /\ \A x : x # u => (x \in Online(n) <=> x \in Online(mapuser))
      BY <1>3 DEF Online
<1>6. \A d \in Fds : On(n, d) = On(mapuser, d) \ {u}
      BY <1>1, <1>3, FdAssumption DEF On
<1>7. Stays(mapuser, n, c) /\ On(n, c) = {}
  <2>1. \A d \in Fds : d # c => u \notin On(mapuser, d)
        BY <1>1 DEF On
  <2>2. \A d \in Fds : d # c => On(n, d) = On(mapuser, d)
    <3>1. \A S : u \notin S => S \ {u} = S
          OBVIOUS
    <3>. QED  BY <1>6, <2>1, <3>1, Zenon
  <2>3. \A d \in Fds : d # c =>
           \A x \in On(mapuser, d) : n[x].state = mapuser[x].state
        BY <1>3, <2>1 DEF On
  <2>. QED  BY <1>6, <2>2, <2>3 DEF Stays
<1>8. OfflineIdle(n)
      BY <1>3 DEF OfflineIdle
<1>. QED  BY <1>4, <1>5, <1>7, <1>8

LEMMA DisconnectSteps ==
    ASSUME TypeOK, TypeOK', RoomsSound, NamesRead, misread = {}, LoginInv, StepInv,
           NEW c \in Fds, ServerDisconnects(c)
    PROVE  StepInv'
<1>. DEFINE close == [op |-> "close", fd |-> c]
            u == findUserByfd(mapuser, c)
            st == mapuser[u].state
            told == notificationOffline(mapuser, c, FALSE)
            notice == Notice(c, st)
            clear == Sql(clearState(u))
            n == mapuser'
            others == roomMap'
<1>1. /\ up /\ todo = <<>> /\ queue[c] = <<>> /\ sock[c] \in {"closed", "reset"}
      /\ UNCHANGED <<up, sock, client, queue, chats>>
      BY DEF ServerDisconnects, Disconnect, Visits, observed
<1>2. Steady(c)'
      BY <1>1, NoneLeft DEF Steady
<1>3. close \in Calls /\ close.op = "close"
      BY DEF Calls, Closes
<1>4. CASE ~checkfd(c)
  <2>1. todo' = <<close>> /\ n = mapuser /\ others = roomMap
        BY <1>4 DEF ServerDisconnects, Disconnect
  <2>. HIDE DEF close
  <2>2. AllGentle(mapuser, <<close>>, c)
        BY <1>3, GentleOther
  <2>3. Stays(mapuser, mapuser, c)
        BY DEF Stays
  <2>. QED  BY <1>1, <1>2, <2>1, <2>2, <2>3, AttendedSteps
            DEF Attended, Warned, StepInv
<1>5. CASE checkfd(c)
  <2>1. /\ todo' = told \o notice \o clear \o <<close>>
        /\ n = Unset(mapuser, u)
        /\ others = IF st.type = 2 THEN RoomsWithout(c, st) ELSE roomMap
        BY <1>5 DEF ServerDisconnects, Disconnect, changeStateUserOff, Notice,
           Unset
  <2>2. On(mapuser, c) = {u} /\ u \in Users
        BY <1>5, SenderAlone
  <2>3. AllGentle(n, clear, c)
        BY <2>2, StatementTypes, GentleSql
  <2>. HIDE DEF close, u, told, notice, clear, n, others
  <2>4. /\ IsMap(n, Users, Accounts) /\ Stays(mapuser, n, c) /\ On(n, c) = {}
        /\ u \notin Online(n)
        /\ \A x : x # u => (x \in Online(n) <=> x \in Online(mapuser))
        /\ OfflineIdle(n)
    <3>1. OfflineIdle(mapuser)
          BY DEF StepInv
    <3>2. n = Unset(mapuser, u)
          BY <2>1
    <3>. QED  BY <2>2, <3>1, <3>2, SetOff
  <2>5. AllGentle(n, told, c)
    <3>1. \A d \in Fds : d # c => \A v, x \in On(mapuser, d) : v = x
          BY DEF LoginInv, Held
    <3>2. told = notificationOffline(mapuser, c, FALSE)
          BY DEF told
    <3>3. \A v \in On(n, c) : n[v].state.type # 1
          BY <2>4
    <3>. QED  BY <2>2, <2>4, <3>1, <3>2, <3>3, MemoryTypes, PartnersGentle
  <2>6. AllGentle(n, notice, c)
        BY <2>4, NoticeGentle DEF notice
  <2>7. AllGentle(n, <<close>>, c)
        BY <1>3, GentleOther
  <2>8. AllGentle(n, todo', c)
    <3>1. AllGentle(n, told \o notice, c)
          BY <2>5, <2>6, GentleConcat
    <3>2. AllGentle(n, told \o notice \o clear, c)
          BY <2>3, <3>1, GentleConcat
    <3>. QED  BY <2>1, <2>7, <3>2, GentleConcat
  <2>9. \A call \in CallsIn(told) : call \in CallsIn(todo')
    <3>1. /\ told \in Seq(Calls) /\ notice \in Seq(Calls) /\ clear \in Seq(Calls)
          /\ <<close>> \in Seq(Calls)
          BY <2>3, <2>5, <2>6, <2>7 DEF AllGentle
    <3>2. /\ told \o notice \in Seq(Calls)
          /\ told \o notice \o clear \in Seq(Calls)
          BY <3>1, TwoListsType
    <3>3. CallsIn(told) \subseteq CallsIn(told \o notice)
          BY <3>1, CallsInConcat
    <3>4. CallsIn(told \o notice) \subseteq CallsIn(told \o notice \o clear)
          BY <3>1, <3>2, CallsInConcat
    <3>5. CallsIn(told \o notice \o clear) \subseteq CallsIn(todo')
          BY <2>1, <3>1, <3>2, CallsInConcat
    <3>. QED  BY <3>3, <3>4, <3>5
  <2>10. ASSUME NEW d \in Fds, d # c
         PROVE  Warned(mapuser, n, todo', d)
    <3>1. \A call \in CallsIn(notificationOffline(mapuser, c, FALSE)) :
             call \in CallsIn(todo')
          BY <2>9 DEF told
    <3>. QED  BY <2>2, <2>4, <2>10, <3>1, MemoryTypes, PartnersWarned
  <2>11. Seats(n, others)
        BY <2>1, <2>2, <2>4, SeatsLeft
  <2>12. Attended(c)
        BY <1>1, <2>4, <2>8, <2>10, <2>11 DEF Attended, n, others
  <2>. QED  BY <1>1, <1>2, <2>12, AttendedSteps
<1>. QED  BY <1>4, <1>5

-----------------------------------------------------------------------------
(* A login.                                                                *)

LEMMA RefusedSteps ==
    ASSUME TypeOK, TypeOK', ClientInv, StepInv, NEW c \in Fds, ServerReads(c),
           UNCHANGED <<up, sock>>, On(mapuser, c) = {}, Answers(c, "loginFail")
    PROVE  StepInv'
<1>. DEFINE pk == Answer("loginFail")
<1>1. /\ todo = <<>> /\ queue[c] # <<>> /\ queue[c] \in Seq(Packages)
      /\ queue'[c] = Tail(queue[c]) /\ sock[c] # "free"
      /\ (\A d \in Fds : d # c => queue'[d] = queue[d])
      /\ UNCHANGED <<client, sock>> /\ UNCHANGED mapuser
      BY DEF ServerReads, Reads, Visits, ClientInv, Answers, memory
<1>2. pk \in AnswerPackages /\ pk.type = "loginFail" /\ Replied(c, pk)
      BY AnswersReplied, AnswerKinds DEF AnswerTypes
<1>. HIDE DEF pk
<1>3. Attended(c)
  <2>1. TruePeer(mapuser', c, pk)
        BY <1>2 DEF TruePeer
  <2>. QED  BY <1>2, <2>1, RepliedIsAttended
<1>4. Steady(c) /\ Lined(mapuser, c, queue[c])
      BY DEF StepInv, Steady
<1>5. queue'[c] = <<>>
      BY <1>1, <1>4, LoginLined
<1>6. Steady(c)'
  <2>1. Lined(mapuser', c, <<>>)
        BY NoneLeft
  <2>2. sock[c] = "open" => ~client[c].flag_l /\ Nowhere(client[c])
        BY <1>4 DEF Steady, InStep
  <2>. QED  BY <1>1, <1>5, <2>1, <2>2 DEF Steady, InStep, Marked
<1>. QED  BY <1>1, <1>3, <1>6, AttendedSteps

\* Without messages nothing is stored for anybody.
LEMMA NothingStored ==
    ASSUME RowsAreChats, chats = <<>>, NEW u
    PROVE  getMessageOfUser(db, u) = {}
<1>1. \A i \in 1..Len(chats) : FALSE
      OBVIOUS
<1>. QED  BY <1>1 DEF RowsAreChats, getMessageOfUser

\* A user is set online.
LEMMA SetOn ==
    ASSUME TypeOK, NEW c \in Fds, On(mapuser, c) = {}, NEW u \in DOMAIN mapuser,
           mapuser[u].fd = NoFd, NEW n, n = [mapuser EXCEPT ![u].fd = c],
           OfflineIdle(mapuser)
    PROVE  /\ IsMap(n, Users, Accounts) /\ Stays(mapuser, n, c) /\ On(n, c) = {u}
           /\ n[u].state = Idle /\ u \in Online(n)
           /\ \A x : x # u => (x \in Online(n) <=> x \in Online(mapuser))
           /\ OfflineIdle(n)
<1>1. mapuser[u] \in Accounts /\ mapuser[u].state = Idle
      BY MemoryTypes, MapValue DEF OfflineIdle
<1>2. /\ DOMAIN n = DOMAIN mapuser /\ n[u].fd = c /\ n[u].state = Idle
      /\ \A x \in DOMAIN mapuser : x # u => n[x] = mapuser[x]
      BY <1>1 DEF Accounts
<1>3. IsMap(n, Users, Accounts)
      BY MemoryTypes, AccountUpdate
<1>4. /\ u \in Online(n)
      /\ \A x : x # u => (x \in Online(n) <=> x \in Online(mapuser))
      BY <1>2, FdAssumption DEF Online
<1>5. On(n, c) = {u}
      BY <1>2 DEF On
<1>6. ASSUME NEW d \in Fds, d # c
      PROVE  /\ On(n, d) = On(mapuser, d)
             /\ \A x \in On(mapuser, d) : n[x].state = mapuser[x].state
      BY <1>2, <1>6, FdAssumption DEF On
<1>7. OfflineIdle(n)
      BY <1>2 DEF OfflineIdle
<1>. QED  BY <1>2, <1>3, <1>4, <1>5, <1>6, <1>7 DEF Stays

\* What an accepted login calls, when nothing is stored for the user.
LEMMA LoginCalls ==
    ASSUME NEW c \in Fds, NEW pk \in AnswerPackages,
           NEW told \in Seq(Calls)
    PROVE  /\ Tail(WriteAll({c}, pk) \o told) = told
           /\ CallsIn(told) \subseteq CallsIn(WriteAll({c}, pk) \o told)
<1>. DEFINE call == [op |-> "write", fds |-> {c}, pk |-> pk]
            t == WriteAll({c}, pk)
            l == t \o told
<1>1. t \in Seq(Calls) /\ CallsIn(t) = {call} /\ t = <<call>>
      BY AnswerAlone DEF WriteAll
<1>. HIDE DEF call, t
<1>2. l = t \o told
      OBVIOUS
<1>. HIDE DEF l
<1>3. Tail(l) = told
  <2>1. call \in Calls
        BY <1>1
  <2>2. \A s \in Seq(Calls) : Tail(<<call>> \o s) = s
        BY <2>1
  <2>. QED  BY <1>1, <1>2, <2>2
<1>4. CallsIn(told) \subseteq CallsIn(l)
      BY <1>1, <1>2, CallsInConcat
<1>. QED  BY <1>3, <1>4 DEF l, t

LEMMA LoginGentle ==
    ASSUME NEW c \in Fds, NEW pk \in AnswerPackages, pk.type = "loginSuccess",
           NEW n, NEW told, AllGentle(n, told, c),
           NEW l, l = WriteAll({c}, pk) \o told
    PROVE  AllGentle(n, l, c)
<1>. DEFINE call == [op |-> "write", fds |-> {c}, pk |-> pk]
            t == WriteAll({c}, pk)
<1>1. t \in Seq(Calls) /\ CallsIn(t) = {call}
      BY AnswerAlone
<1>2. call.op = "write" /\ call.fds = {c} /\ call.pk = pk
      OBVIOUS
<1>3. l = t \o told
      OBVIOUS
<1>. HIDE DEF call, t
<1>4. Gentle(n, call, c)
      BY <1>2 DEF Gentle, Truthful, WritesTo
<1>5. AllGentle(n, t, c)
      BY <1>1, <1>4 DEF AllGentle
<1>. QED  BY <1>3, <1>5, GentleConcat

LEMMA AcceptedSteps ==
    ASSUME TypeOK, TypeOK', ClientInv, RowsAreChats, LoginInv, StepInv,
           NEW c \in Fds, ServerReads(c), UNCHANGED <<up, sock>>,
           On(mapuser, c) = {}, NEW u, NEW p, LoginAccepted(u, p), Login(c, u, p)
    PROVE  StepInv'
<1>. DEFINE n == mapuser'
            pk == LoginAnswer(u, p, mapuser[u].role)
            told == notificationOffline(n, c, TRUE)
            l == todo'
            x == client[c]
<1>1. /\ todo = <<>> /\ queue[c] # <<>> /\ queue[c] \in Seq(Packages)
      /\ queue'[c] = Tail(queue[c]) /\ sock[c] # "free"
      /\ (\A d \in Fds : d # c => queue'[d] = queue[d])
      /\ UNCHANGED <<client, sock>>
      BY DEF ServerReads, Reads, Visits, ClientInv
<1>2. /\ u \in DOMAIN mapuser /\ mapuser[u].fd = NoFd /\ mapuser[u].password = p
      /\ mapuser[u].state = Idle /\ mapuser[u] \in Accounts /\ u \in Users
  <2>1. u \in DOMAIN mapuser /\ mapuser[u].fd = NoFd /\ mapuser[u].password = p
        BY DEF LoginAccepted
  <2>2. mapuser[u].state = Idle
        BY <2>1 DEF StepInv, OfflineIdle
  <2>3. mapuser[u] \in Accounts /\ u \in Users
        BY <2>1, MemoryTypes, MapValue DEF IsMap
  <2>. QED  BY <2>1, <2>2, <2>3
<1>3. ~Returns(u)
  <2>1. Idle.type = 0
        BY DEF Idle
  <2>. QED  BY <1>2, <2>1 DEF Returns
<1>4. /\ n = [mapuser EXCEPT ![u].fd = c] /\ UNCHANGED <<roomMap, chats>>
      /\ l = WriteAll({c}, pk) \o handleOfflineMessage(n, c) \o told
      BY <1>3 DEF Login, Does
<1>5. handleOfflineMessage(n, c) = <<>>
      BY NothingStored DEF handleOfflineMessage, StepInv
<1>6. /\ pk \in AnswerPackages /\ pk.type = "loginSuccess"
      /\ p \in Passwords /\ mapuser[u].role \in Roles
  <2>1. p \in Passwords /\ mapuser[u].role \in Roles
        BY <1>2 DEF Accounts
  <2>. QED  BY <1>2, <2>1, LoginAnswerType DEF LoginAnswer, Answer
<1>. HIDE DEF n, told, l, x
<1>7. /\ IsMap(n, Users, Accounts) /\ Stays(mapuser, n, c) /\ On(n, c) = {u}
      /\ n[u].state = Idle /\ u \in Online(n)
      /\ \A y : y # u => (y \in Online(n) <=> y \in Online(mapuser))
      /\ OfflineIdle(n)
  <2>1. OfflineIdle(mapuser)
        BY DEF StepInv
  <2>2. n = [mapuser EXCEPT ![u].fd = c]
        BY <1>4
  <2>. QED  BY <1>2, <2>1, <2>2, SetOn
<1>8. TellsLogin(l, c)
  <2>1. u \in On(n, c)
        BY <1>7
  <2>. QED  BY <1>4, <1>6, <1>7, <2>1, LoginToldFirst DEF told, pk
<1>. HIDE DEF pk
<1>9. Stays(n, n, c)
      BY DEF Stays
<1>10. AllGentle(n, told, c) /\ Unwoken(told, c)
  <2>1. \A d \in Fds : d # c => \A v, w \in On(n, d) : v = w
        BY <1>7 DEF LoginInv, Held, Stays
  <2>2. told = notificationOffline(n, c, TRUE)
        BY DEF told
  <2>3. \A v \in On(n, c) : n[v].state.type # 1
        BY <1>7 DEF Idle
  <2>. QED  BY <1>7, <1>9, <2>1, <2>2, <2>3, PartnersGentle
<1>11. /\ AllGentle(n, l, c) /\ Tail(l) = told
       /\ \A call \in CallsIn(told) : call \in CallsIn(l)
  <2>1. WriteAll({c}, pk) \o <<>> = WriteAll({c}, pk)
        BY <1>6, AnswerAlone
  <2>2. l = WriteAll({c}, pk) \o told
        BY <1>4, <1>5, <2>1
  <2>3. AllGentle(n, l, c)
        BY <1>6, <1>10, <2>2, LoginGentle
  <2>4. told \in Seq(Calls)
        BY <1>10 DEF AllGentle
  <2>5. Tail(l) = told /\ CallsIn(told) \subseteq CallsIn(l)
        BY <1>6, <2>2, <2>4, LoginCalls
  <2>. QED  BY <2>3, <2>5
<1>12. ASSUME NEW d \in Fds, d # c
       PROVE  Warned(mapuser, n, l, d)
  <2>1. \A call \in CallsIn(notificationOffline(n, c, TRUE)) : call \in CallsIn(l)
        BY <1>11 DEF told
  <2>. QED  BY <1>7, <1>9, <1>12, <2>1, PartnersWarned
<1>13. Seats(n, roomMap)
  <2>1. \A r \in DOMAIN roomMap : c \notin listClients(roomMap[r])
        BY IdleInNoRoom
  <2>2. \A r \in DOMAIN roomMap : listClients(roomMap[r]) \subseteq Fds
        BY ClientsTypes
  <2>3. Seats(mapuser, roomMap)
        BY DEF StepInv
  <2>4. \A r \in DOMAIN roomMap : \A d \in listClients(roomMap[r]) :
           IF d = c THEN \E w \in On(n, c) : n[w].state = InRoom(r)
                    ELSE r \in DOMAIN roomMap /\ d \in listClients(roomMap[r])
        BY <2>1
  <2>. QED  BY <1>7, <2>2, <2>3, <2>4, SeatsKept
<1>14. Attended(c)
       BY <1>4, <1>7, <1>11, <1>12, <1>13 DEF Attended, n, l
<1>15. Steady(c) /\ Lined(mapuser, c, queue[c])
       BY DEF StepInv, Steady
<1>16. queue'[c] = <<>>
       BY <1>1, <1>15, LoginLined
<1>17. ASSUME sock[c] = "open"
       PROVE  InStep(n, l, c, x, <<>>) /\ Marked(n, l, c, x)
  <2>1. ~x.flag_l /\ Nowhere(x)
        BY <1>15, <1>17 DEF Steady, InStep, x
  <2>2. Awaits(x)
        BY <1>1, <1>17, <2>1 DEF LoginInv, Held, Talks, Out, Awaits, x
  <2>3. \A v \in On(n, c) : n[v].state = Idle
        BY <1>7
  <2>4. Phase(l, c, x, <<>>, Idle)
        BY <1>8, <1>10, <1>11, <2>1, <2>2 DEF Phase, LoggingIn
  <2>5. \A y : WithUser(y).type = 1 /\ Idle.type = 0
        BY DEF WithUser, Idle
  <2>6. Marked(n, l, c, x)
        BY <2>3, <2>5 DEF Marked
  <2>. QED  BY <1>7, <2>3, <2>4, <2>6 DEF InStep
<1>18. Steady(c)'
  <2>1. /\ sock'[c] = sock[c] /\ client'[c] = x /\ mapuser' = n /\ todo' = l
        BY <1>1 DEF n, l, x
  <2>2. Lined(n, c, <<>>)
        BY NoneLeft
  <2>. QED  BY <1>1, <1>16, <1>17, <2>1, <2>2 DEF Steady
<1>. QED  BY <1>1, <1>14, <1>18, AttendedSteps

-----------------------------------------------------------------------------
(* A package is read.                                                      *)

\* A handler after which its user is where he was.
LEMMA StillSteps ==
    ASSUME TypeOK, ClientInv, LoginInv, StepInv, NEW c \in Fds, ServerReads(c),
           UNCHANGED <<up, sock>>, On(mapuser, c) # {}, StaysPut(c),
           Head(queue[c]).type # "terminateChat"
    PROVE  StepInv'
<1>1. PICK type \in Remarks :
         /\ Replied(c, Answer(type))
         /\ \A u \in On(mapuser, c) : mapuser'[u].state = mapuser[u].state
      BY DEF StaysPut
<1>. DEFINE pk == Answer(type)
<1>2. pk \in AnswerPackages /\ pk.type = type
      BY AnswerKinds DEF Remarks
<1>. HIDE DEF pk
<1>3. pk.type \notin Moving \cup {"checkparty", "failTerminate"}
      BY <1>2 DEF Remarks
<1>4. TruePeer(mapuser', c, pk)
      BY <1>3 DEF TruePeer, Moving
<1>5. \A u \in On(mapuser, c) :
         Follows(Head(queue[c]), pk, mapuser[u].state, mapuser'[u].state)
      BY <1>1, <1>3 DEF Follows
<1>6. Replied(c, pk)
      BY <1>1 DEF pk
<1>. QED  BY <1>2, <1>4, <1>5, <1>6, RepliedSteps

\* A command of a user who is nowhere, other than ?back.
LEMMA CommandSteps ==
    ASSUME TypeOK, TypeOK', ClientInv, LoginInv, StepInv, Undisturbed,
           NEW c \in Fds, ServerReads(c), UNCHANGED <<up, sock>>,
           On(mapuser, c) # {}, Head(queue[c]).type # "terminateChat"
    PROVE  StepInv'
<1>. DEFINE p == Head(queue[c])
<1>1. queue[c] # <<>> /\ queue[c] \in Seq(Packages) /\ analyzePackage(c, p)
      BY DEF ServerReads, ClientInv
<1>2. Lined(mapuser, c, queue[c])
      BY DEF StepInv, Steady
<1>3. /\ p \in Packages /\ p.type # "loginn"
      /\ \A u \in On(mapuser, c) : mapuser[u].state = Idle
      BY <1>1, <1>2, CommandLined
<1>. HIDE DEF p
<1>4. p.type # "terminateChat" /\ checkfd(c)
      BY DEF p, checkfd
<1>5. p.type # "sendMess"
      BY <1>3 DEF Packages, Undisturbed
<1>6. CASE StaysPut(c)
      BY <1>6, StillSteps
<1>7. CASE p.type = "withh" /\ WithFunction(c, p.user) /\ ~StaysPut(c)
  <2>1. p.user \in Users
        BY <1>3, <1>7 DEF Packages
  <2>2. PICK pk \in AnswerPackages :
           /\ Replied(c, pk) /\ TruePeer(mapuser', c, pk)
           /\ pk.type = "withSuccess"
           /\ \A u \in On(mapuser, c) : mapuser'[u].state = WithUser(p.user)
        BY <1>3, <1>4, <1>7, <2>1, WithReplied
  <2>3. \A u \in On(mapuser, c) :
           Follows(p, pk, mapuser[u].state, mapuser'[u].state)
        BY <1>7, <2>2 DEF Follows
  <2>. QED  BY <2>2, <2>3, RepliedSteps DEF p
<1>8. CASE p.type = "joinn" /\ JoinRoom(c, p.room) /\ ~StaysPut(c)
  <2>. DEFINE pk == Answer("joinSuccess")
  <2>1. p.room \in Rooms
        BY <1>3, <1>8 DEF Packages
  <2>2. /\ Replied(c, pk)
        /\ \A u \in On(mapuser, c) : mapuser'[u].state = InRoom(p.room)
        BY <1>3, <1>4, <1>8, <2>1, JoinReplied
  <2>3. pk \in AnswerPackages /\ pk.type = "joinSuccess"
        BY AnswerKinds DEF AnswerTypes
  <2>. HIDE DEF pk
  <2>4. \A u \in On(mapuser, c) :
           Follows(p, pk, mapuser[u].state, mapuser'[u].state)
        BY <1>8, <2>2, <2>3 DEF Follows
  <2>5. TruePeer(mapuser', c, pk)
        BY <2>3 DEF TruePeer
  <2>. QED  BY <2>2, <2>3, <2>4, <2>5, RepliedSteps DEF p
<1>9. CASE /\ p.type \in {"showRoom", "getRoles", "getuser", "finduser"}
           /\ ShowRoom(c) \/ getListRoles(c) \/ getUserOnline(c) \/ FindUser(c)
  <2>1. \E type \in Remarks : Answers(c, type)
        BY <1>9 DEF ShowRoom, getListRoles, getUserOnline, FindUser, Remarks,
           AnswerTypes, Moving
  <2>. QED  BY <2>1, <1>6, AnswersStill
<1>10. CASE \/ p.type = "createUser" /\ AddUser(c, p.user, p.password, p.role)
            \/ /\ p.type = "modifyUser"
               /\ handleModifyUser(c, p.user, p.password, p.role)
  <2>1. /\ p.user \in Users \cup {NoName}
        /\ p.password \in Passwords \cup {NoName}
        /\ p.role \in Roles \cup {NoRole}
        BY <1>3, <1>10 DEF Packages
  <2>. QED  BY <1>6, <1>10, <2>1, AccountsStill
<1>11. CASE p.type = "deleteUser" /\ DeleteUser(c, p.user)
  <2>1. /\ p.user \in Users /\ p.user \in Users \cup {NoName}
        /\ NoName \in Passwords \cup {NoName} /\ NoRole \in Roles \cup {NoRole}
        BY <1>3, <1>11 DEF Packages
  <2>. QED  BY <1>6, <1>11, <2>1, AccountsStill
<1>12. CASE \/ p.type = "modifyRoom" /\ ModifyRoom(c, p.room, p.capacity)
            \/ p.type = "createRoom" /\ addRoom(c, p.room, p.capacity)
  <2>1. p.room \in Rooms \cup {NoName} /\ p.capacity \in Int
        BY <1>3, <1>12, CapacitiesAssumption DEF Packages
  <2>. QED  BY <1>6, <1>12, <2>1, RoomsStill
<1>13. CASE p.type = "deleteRoom" /\ DeleteRoom(c, p.room)
  <2>1. p.room \in Rooms \cup {NoName} /\ 0 \in Int
        BY <1>3, <1>13 DEF Packages
  <2>. QED  BY <1>6, <1>13, <2>1, RoomsStill
<1>. QED  BY <1>1, <1>3, <1>4, <1>5, <1>6, <1>7, <1>8, <1>9, <1>10, <1>11,
             <1>12, <1>13 DEF analyzePackage

\* ?back.
LEMMA BackSteps ==
    ASSUME TypeOK, TypeOK', RoomsSound, NamesRead, misread = {}, ClientInv,
           LoginInv, StepInv, NEW c \in Fds, ServerReads(c), UNCHANGED <<up, sock>>,
           On(mapuser, c) # {}, Head(queue[c]).type = "terminateChat"
    PROVE  StepInv'
<1>. DEFINE p == Head(queue[c])
<1>1. LeaveChatUser(c) /\ checkfd(c) /\ p.type = "terminateChat"
  <2>1. analyzePackage(c, p)
        BY DEF ServerReads
  <2>. QED  BY <2>1 DEF analyzePackage, checkfd
<1>. HIDE DEF p
<1>2. \E type \in {"failTerminate", "successTerminate"} :
         /\ Replied(c, Answer(type))
         /\ \A u \in On(mapuser, c) :
               /\ mapuser'[u].state = Idle
               /\ type = "failTerminate" <=> mapuser[u].state = Idle
      BY <1>1, LeaveReplied
<1>3. PICK type \in {"failTerminate", "successTerminate"} :
         /\ Replied(c, Answer(type))
         /\ \A u \in On(mapuser, c) :
               /\ mapuser'[u].state = Idle
               /\ type = "failTerminate" <=> mapuser[u].state = Idle
      BY <1>2
<1>. DEFINE pk == Answer(type)
<1>4. pk \in AnswerPackages /\ pk.type = type
  <2>1. type \in AnswerTypes
        BY DEF AnswerTypes
  <2>. QED  BY <2>1, AnswerKinds
<1>5. Replied(c, pk)
      BY <1>3
<1>. HIDE DEF pk
<1>6. TruePeer(mapuser', c, pk)
      BY <1>4 DEF TruePeer
<1>7. \A u \in On(mapuser, c) :
         Follows(p, pk, mapuser[u].state, mapuser'[u].state)
      BY <1>1, <1>3, <1>4 DEF Follows
<1>. QED  BY <1>4, <1>5, <1>6, <1>7, RepliedSteps DEF p

LEMMA ReadSteps ==
    ASSUME TypeOK, TypeOK', RowsAreChats, RoomsSound, NamesRead, misread = {},
           ClientInv, LoginInv, StepInv, Undisturbed, NEW c \in Fds, ServerReads(c)
    PROVE  StepInv'
<1>. DEFINE p == Head(queue[c])
<1>1. queue[c] # <<>> /\ queue[c] \in Seq(Packages) /\ analyzePackage(c, p)
      BY DEF ServerReads, ClientInv
<1>2. Lined(mapuser, c, queue[c])
      BY DEF StepInv, Steady
<1>3. UNCHANGED <<up, sock>>
      BY <1>1 DEF analyzePackage, Does, Answers, Refuse, Login, WithFunction,
         JoinRoom, OneToOneChat, LeaveChatUser, AddUser, handleModifyUser,
         DeleteUser, addRoom, ModifyRoom, DeleteRoom, ShowRoom, getListRoles,
         getUserOnline, FindUser
<1>4. CASE On(mapuser, c) = {}
  <2>1. p.type = "loginn"
        BY <1>1, <1>2, <1>4, LoginLined
  <2>2. Login(c, p.user, p.password)
        BY <1>1, <2>1 DEF analyzePackage
  <2>3. CASE LoginAccepted(p.user, p.password)
        BY <1>3, <1>4, <2>2, <2>3, AcceptedSteps
  <2>4. CASE ~LoginAccepted(p.user, p.password)
    <3>1. Answers(c, "loginFail")
          BY <2>2, <2>4 DEF Login
    <3>. QED  BY <1>3, <1>4, <3>1, RefusedSteps
  <2>. QED  BY <2>3, <2>4
<1>5. CASE On(mapuser, c) # {} /\ p.type # "terminateChat"
      BY <1>3, <1>5, CommandSteps
<1>6. CASE On(mapuser, c) # {} /\ p.type = "terminateChat"
      BY <1>3, <1>6, BackSteps
<1>. QED  BY <1>4, <1>5, <1>6

-----------------------------------------------------------------------------
(* The system.                                                             *)

LEMMA InitSteps == SystemInit => StepInv /\ restarts = 0
<1>. SUFFICES ASSUME SystemInit PROVE StepInv /\ restarts = 0
     OBVIOUS
<1>1. /\ up /\ todo = <<>> /\ chats = <<>> /\ restarts = 0
      /\ mapuser = mapUser(InitDb) /\ roomMap = mapRoom(InitDb)
      /\ \A c \in Fds : sock[c] = "free" /\ queue[c] = <<>> /\ client[c] = NoClient
      BY DEF SystemInit, Init, ClientInit
<1>2. OfflineIdle(mapuser)
      BY <1>1, InitDbAssumption DEF OfflineIdle, mapUser, StateOf
<1>3. Seats(mapuser, roomMap)
  <2>1. \A r \in DOMAIN roomMap : listClients(roomMap[r]) = {}
    <3>1. \A x, k : listClients(NewRoom(x, k)) = {}
      <4>1. \A i \in 1..Len(<<>>) : FALSE
            OBVIOUS
      <4>. QED  BY <4>1 DEF NewRoom, listClients, getOnlUser
    <3>. QED  BY <1>1, <3>1 DEF mapRoom
  <2>. QED  BY <2>1 DEF Seats
<1>4. NoReplay(todo) /\ AllTruthful(mapuser, todo)
      BY <1>1, CallsInNone DEF NoReplay, AllTruthful
<1>5. \A c \in Fds : Steady(c)
      BY <1>1, NoneLeft DEF Steady, NoClient, Fresh
<1>. QED  BY <1>1, <1>2, <1>3, <1>4, <1>5 DEF StepInv

LEMMA NextSteps ==
    ASSUME Undisturbed, TypeOK, TypeOK', RowsAreChats, RoomsSound, NamesRead,
           misread = {}, ClientInv, LoginInv, StepInv, [SystemNext]_all
    PROVE  StepInv'
<1>1. ASSUME NEW c \in Fds, Type(c)
      PROVE  StepInv'
      BY <1>1, TypeSteps DEF Undisturbed
<1>2. ASSUME NEW c \in Fds,
             TypeAway(c) \/ SendRelogin(c) \/ Reconnects(c) \/ MainGoes(c)
      PROVE  StepInv'
      BY <1>2, AwaySteps, GoesSteps
<1>3. ASSUME NEW c \in Fds, ServerReads(c)
      PROVE  StepInv'
      BY <1>3, ReadSteps
<1>4. ASSUME NEW c \in Fds, ServerDisconnects(c)
      PROVE  StepInv'
      BY <1>4, DisconnectSteps
<1>5. ASSUME NEW c \in Fds, Starts(c)
      PROVE  StepInv'
      BY <1>5, StartsSteps
<1>6. ASSUME NEW c \in Fds, Exits(c) \/ ResetBy(c)
      PROVE  StepInv'
      BY <1>6, EndsSteps
<1>7. CASE ServerCalls
  <2>1. CASE \E c \in Fds : ServerWrites(c)
        BY <2>1, WriteSteps
  <2>2. CASE ReplayRow \/ ReplayEnd \/ ReplayJunk
    <3>1. todo # <<>> /\ Head(todo).op = "replay" /\ todo \in Seq(Calls)
          BY <2>2 DEF ReplayRow, ReplayEnd, ReplayJunk, Calling, TypeOK
    <3>2. Head(todo) \in CallsIn(todo)
          BY <3>1, CallsInTail
    <3>. QED  BY <3>1, <3>2 DEF StepInv, NoReplay
  <2>3. CASE Close /\ UNCHANGED <<client, queue>>
        BY <2>3, CloseSteps
  <2>4. CASE /\ Execute
             /\ IF up' THEN UNCHANGED <<client, queue>> ELSE ConnectionsLost
        BY <2>4, ExecuteSteps
  <2>. QED  BY <1>7, <2>1, <2>2, <2>3, <2>4 DEF ServerCalls
<1>8. CASE ServerDies
  <2>1. Dies /\ UNCHANGED chats
        BY <1>8 DEF ServerDies, Crash, Sigpipe, observed
  <2>. QED  BY <1>8, <2>1, LossSteps DEF ServerDies
<1>9. CASE ServerStarts
  <2>1. restarts < 0 /\ restarts \in Nat
        BY <1>9 DEF ServerStarts, Restart, Undisturbed, TypeOK
  <2>. QED  BY <2>1
<1>10. CASE ServerStopped \/ UNCHANGED all
  <2>1. UNCHANGED <<up, todo, mapuser, roomMap, chats, sock, client, queue>>
        BY <1>10 DEF ServerStopped, Stopped, vars, memory, observed, all
  <2>2. \A c \in Fds : Steady(c)'
        BY <2>1 DEF StepInv, Steady
  <2>. QED  BY <2>1, <2>2 DEF StepInv
<1>. QED  BY <1>1, <1>2, <1>3, <1>4, <1>5, <1>6, <1>7, <1>8, <1>9, <1>10
          DEF SystemNext

\* No name becomes ambiguous.
LEMMA NamesKept ==
    ASSUME Undisturbed
    PROVE  Spec => [](NamesRead /\ misread = {})
<1>1. Init => misread = {}
      BY DEF Init
<1>2. TypeOK /\ misread = {} /\ [Next]_vars => (misread = {})'
  <2>. SUFFICES ASSUME misread = {}, [Next]_vars PROVE misread' = {}
       OBVIOUS
  <2>1. ASSUME NEW fd \in Fds, NEW p \in Packages, Receive(fd, p)
        PROVE  misread' = {}
    <3>1. \/ UNCHANGED misread
          \/ p.type = "createRoom" /\ addRoom(fd, p.room, p.capacity)
          BY <2>1 DEF Receive, analyzePackage, Answers, Refuse, Login, WithFunction,
             JoinRoom, OneToOneChat, LeaveChatUser, AddUser, handleModifyUser,
             DeleteUser, ModifyRoom, DeleteRoom, ShowRoom, getListRoles,
             getUserOnline, FindUser, memory
    <3>2. CASE addRoom(fd, p.room, p.capacity) /\ p.type = "createRoom"
      <4>1. p.room \in Rooms \cup {NoName}
            BY <3>2 DEF Packages
      <4>2. CASE Answers(fd, "createFail")
            BY <4>2 DEF Answers, memory
      <4>3. CASE ~Answers(fd, "createFail")
        <5>1. /\ p.room \in Rooms
              /\ \E id \in ReadBack[p.room] :
                    misread' = misread \cup (IF id = p.room THEN {} ELSE {p.room, id})
              BY <3>2, <4>1, <4>3 DEF addRoom
        <5>. QED  BY <5>1 DEF Undisturbed
      <4>. QED  BY <4>2, <4>3
    <3>. QED  BY <3>1, <3>2
  <2>2. CASE UNCHANGED misread \/ misread' = {}
        BY <2>2
  <2>3. \/ \E fd \in Fds, p \in Packages : Receive(fd, p)
        \/ UNCHANGED misread \/ misread' = {}
        BY DEF Next, Call, Write, ReplayRow, ReplayEnd, ReplayJunk, Execute, Close,
               Disconnect, Sigpipe, Connect, Hangup, Reset, Crash, Restart, Stopped,
               Dies, memory, vars
  <2>. QED  BY <2>1, <2>2, <2>3
<1>. QED  BY <1>1, <1>2, NamesAreRead, TypeCorrect, PTL DEF Spec

LEMMA StepsKept ==
    ASSUME Undisturbed
    PROVE  SystemSpec =>
              [](/\ TypeOK /\ ClientInv /\ LoginInv /\ StepInv
                 /\ InRoomIsMember /\ restarts = 0 /\ misread = {})
<1>1. TypeOK /\ StepInv => Listed /\ ComesToNoRoom
  <2>. SUFFICES ASSUME TypeOK, StepInv PROVE Listed /\ ComesToNoRoom
       OBVIOUS
  <2>1. Listed
        BY DEF StepInv, Seats, Listed
  <2>2. ComesToNoRoom
        BY DEF StepInv, OfflineIdle, ComesToNoRoom, Returns, Idle
  <2>. QED  BY <2>1, <2>2
<1>2. SystemInit => TypeOK /\ ClientInv /\ LoginInv /\ StepInv /\ restarts = 0
      BY InitType, InitClients, InitLogin, InitSteps DEF SystemInit
<1>3. TypeOK /\ ClientInv /\ [SystemNext]_all => (TypeOK /\ ClientInv)'
      BY ServerStep, NextType, NextClients
<1>4. MessageInv => RowsAreChats
      BY DEF MessageInv
<1>5. /\ TypeOK /\ ClientInv /\ RowsAreChats
      /\ Listed /\ ComesToNoRoom /\ LoginInv /\ [SystemNext]_all
      => LoginInv'
      BY NextLogin
<1>6. /\ TypeOK /\ TypeOK' /\ RowsAreChats /\ RoomsSound /\ NamesRead
      /\ misread = {} /\ ClientInv /\ LoginInv /\ StepInv /\ [SystemNext]_all
      => StepInv'
      BY NextSteps
<1>7. ClientInv /\ restarts = 0 /\ [SystemNext]_all => (restarts = 0)'
      BY ServerStep, NeverAgain DEF Undisturbed
<1>. QED  BY <1>1, <1>2, <1>3, <1>4, <1>5, <1>6, <1>7, SystemIsServer,
             SystemSound, MessageInvariant, NamesKept, PTL DEF SystemSpec

\* The number of users a room shows is the number of users who are in it.  The
\* server moves a user to a chat or to another room without taking him out of
\* the list of his room, and counts on clients that leave the one before they
\* ask for the other: these do, while no line of text wakes them too early and
\* no room is moved to another name with the users in its list.
THEOREM RoomsCountTheirUsers ==
    ASSUME Undisturbed
    PROVE  SystemSpec => []RoomCountsUsersInIt
<1>1. /\ TypeOK /\ LoginInv /\ StepInv /\ InRoomIsMember /\ restarts = 0
      /\ misread = {}
      => RoomCountsUsersInIt
  <2>. SUFFICES ASSUME TypeOK, LoginInv, StepInv, InRoomIsMember, restarts = 0,
                       misread = {}, NEW r \in DOMAIN roomMap
                PROVE  listClients(roomMap[r]) =
                          {mapuser[u].fd : u \in {v \in Online(mapuser) :
                                              mapuser[v].state = InRoom(r)}}
       BY DEF RoomCountsUsersInIt
  <2>1. ASSUME NEW d \in listClients(roomMap[r])
        PROVE  \E u \in Online(mapuser) :
                  mapuser[u].state = InRoom(r) /\ d = mapuser[u].fd
    <3>1. d \in Fds
          BY ClientsTypes
    <3>2. PICK u \in On(mapuser, d) : mapuser[u].state = InRoom(r)
          BY DEF StepInv, Seats
    <3>. QED  BY <3>1, <3>2, FdAssumption DEF On, Online
  <2>2. ASSUME NEW u \in Online(mapuser), mapuser[u].state = InRoom(r)
        PROVE  mapuser[u].fd \in listClients(roomMap[r])
    <3>1. InRoom(r).type = 2 /\ InRoom(r).name = r
          BY DEF InRoom
    <3>. QED  BY <2>2, <3>1 DEF Online, InRoomIsMember
  <2>. QED  BY <2>1, <2>2
<1>. QED  BY <1>1, StepsKept, PTL

\* What the prompt of a client shows, and what the server does with a line it
\* types there, are about the same peer or room: the two learn of every move
\* at different times, the server when it reads the command and the client when
\* the answer arrives, and no order of commands and answers drives them apart.
THEOREM PromptsAreStates ==
    ASSUME Undisturbed
    PROVE  SystemSpec => []PromptIsTheState
<1>1. TypeOK /\ LoginInv /\ StepInv => PromptIsTheState
  <2>. SUFFICES ASSUME TypeOK, LoginInv, StepInv, NEW c \in Fds, Settled(c),
                       checkfd(c), client[c].flag_l
                PROVE  Shows(client[c], mapuser[UserOf(c)].state)
       BY DEF PromptIsTheState, Shows
  <2>1. UserOf(c) \in On(mapuser, c)
        BY SenderAlone DEF UserOf
  <2>2. Phase(<<>>, c, client[c], <<>>, mapuser[UserOf(c)].state)
        BY <2>1 DEF StepInv, Steady, InStep, Settled
  <2>. QED  BY <2>2, NothingLeft DEF Phase, Shown, Entering, Leaving, LoggingIn
<1>. QED  BY <1>1, StepsKept, PTL

\* The mark that a client shows at the prompt of a chat is right: no login and
\* no end of a connection of the peer slips between the withSuccess that sets
\* the mark first and the checkparty that corrects it.
THEOREM PeerMarksAreTrue ==
    ASSUME Undisturbed
    PROVE  SystemSpec => []PeerStatusIsTrue
<1>1. TypeOK /\ LoginInv /\ StepInv => PeerStatusIsTrue
  <2>. SUFFICES ASSUME TypeOK, LoginInv, StepInv, NEW c \in Fds, Settled(c),
                       checkfd(c), client[c].flag_w,
                       mapuser[UserOf(c)].state = WithUser(client[c].userw)
                PROVE  client[c].flag_w_online <=>
                          client[c].userw \in Online(mapuser)
       BY DEF PeerStatusIsTrue, ShowsPeer
  <2>1. UserOf(c) \in On(mapuser, c)
        BY SenderAlone DEF UserOf
  <2>2. Marked(mapuser, <<>>, c, client[c])
        BY DEF StepInv, Steady, Settled
  <2>. QED  BY <2>1, <2>2, NothingLeft DEF Marked
<1>. QED  BY <1>1, StepsKept, PTL

\* With rooms too the login of a client is told to it, and no connection has
\* two users, while no line wakes a client that waits for that answer.
THEOREM LoginsAreTold ==
    ASSUME Undisturbed
    PROVE  SystemSpec => []AcceptedLoginIsTold /\ []OneConnectionPerUser
<1>1. TypeOK /\ StepInv => AcceptedLoginIsTold
  <2>. SUFFICES ASSUME TypeOK, StepInv, NEW c \in Fds, Settled(c), checkfd(c)
                PROVE  client[c].flag_l
       BY DEF AcceptedLoginIsTold
  <2>1. PICK u \in On(mapuser, c) : TRUE
        BY DEF checkfd
  <2>2. Phase(<<>>, c, client[c], <<>>, mapuser[u].state)
        BY <2>1 DEF StepInv, Steady, InStep, Settled
  <2>. QED  BY <2>2, NothingLeft DEF Phase, LoggingIn
<1>2. TypeOK /\ LoginInv => OneConnectionPerUser
  <2>. SUFFICES ASSUME TypeOK, LoginInv, NEW u \in Online(mapuser)
                PROVE  /\ sock[mapuser[u].fd] # "free"
                       /\ \A v \in Online(mapuser) :
                             mapuser[u].fd = mapuser[v].fd => u = v
       BY DEF OneConnectionPerUser
  <2>. QED  BY OnlineIsIn
<1>. QED  BY <1>1, <1>2, StepsKept, PTL
=============================================================================
