--------------------------- MODULE MessageProofs ---------------------------
(***************************************************************************)
(* Theorems about the private messages of ChatServer, for every set of     *)
(* accounts, rooms and descriptors: none that was accepted is lost while   *)
(* the server runs, none that is stored is deleted before it was written,  *)
(* and each user is written its messages in order and once.                *)
(*                                                                         *)
(* The invariant says where the handler that delivers a message is (the    *)
(* phases Handing, Storing, Looping, Giving and Forgetting, told by the    *)
(* calls it has left) and, for each phase, which stored messages were      *)
(* written and how the next one compares with those written before.  What  *)
(* a blank message in the table would do (it ends the loop of              *)
(* handleOfflineMessage) and what two users on one connection would do are *)
(* not excluded by the code: the parts that depend on it are conditional   *)
(* on NoBlank and LoginOnce, and so are the theorems.                      *)
(***************************************************************************)
EXTENDS ChatServerProofs

NoBlank == "blank" \notin Texts

\* Where whoever goes online is written what is stored for him ...
Fetched == LoginOnce /\ (restarts = 0 \/ Rooms = {})

\* ... and the order of messages is kept.
Ordered == LoginOnce /\ restarts = 0

CallsIn(l) == {l[i] : i \in 1..Len(l)}

\* A write of a private message, the loop over stored ones, or a statement
\* about the table of messages.
AboutMessages(c) ==
    \/ c.op = "replay"
    \/ c.op = "write" /\ c.pk.id # 0
    \/ c.op = "sql" /\ c.stmt.op \in {"saveMessage", "deleteMessageOfUser"}

Silent(l) == \A c \in CallsIn(l) : ~AboutMessages(c)

SaveCall(row) == [op |-> "sql", stmt |-> saveMessage(row)]
ForgetCall(u) == [op |-> "sql", stmt |-> deleteMessageOfUser(u)]

\* What a list of calls does next about messages.
Hands(l, id) ==
    /\ l # <<>> /\ Head(l).op = "write" /\ Head(l).pk.id = id
    /\ \E fd \in Fds : Head(l).fds = {fd}

Stores(l, row) == l # <<>> /\ Head(l) = SaveCall(row) /\ Silent(Tail(l))

Forgets(l, u) == l # <<>> /\ Head(l) = ForgetCall(u) /\ Silent(Tail(l))

Loops(l, u, after) ==
    /\ l # <<>> /\ Head(l).op = "replay"
    /\ Head(l).user = u /\ Head(l).after = after
    /\ Forgets(Tail(l), u)

Leads(l, u, after) ==
    \E before, rest \in Seq(Calls) :
        l = before \o rest /\ Silent(before) /\ Loops(rest, u, after)

-----------------------------------------------------------------------------
(* The invariant.                                                          *)

\* Message id was written to u, or to a connection of u already closed.
Told(id, u) == id \in dropped \/ \E i \in 1..Len(seen[u]) : seen[u][i] = id

\* What u was written is older than id.
Above(u, id) == \A i \in 1..Len(seen[u]) : seen[u][i] < id

Kept(u) == getMessageOfUser(db, u)

ToldBefore(u, id) ==
    NoBlank => \A row \in Kept(u) : row.id < id => Told(row.id, u)

Handing(id) ==
    /\ Hands(todo, id) /\ Silent(Tail(todo))
    /\ id \in 1..Len(chats)
    /\ Ordered => Above(chats[id].to, id)
    /\ Fetched => Kept(chats[id].to) = {}

Storing(row) ==
    /\ Stores(todo, row)
    /\ row.id \in 1..Len(chats) /\ chats[row.id].to = row.receiver
    /\ Ordered => Above(row.receiver, row.id)
    /\ row.receiver \in DOMAIN mapuser => mapuser[row.receiver].fd = NoFd

Looping(u, after) ==
    /\ Leads(todo, u, after)
    /\ ToldBefore(u, after + 1)
    /\ Ordered => \A row \in Kept(u) : row.id > after => Above(u, row.id)

Giving(u, id) ==
    /\ Hands(todo, id) /\ Loops(Tail(todo), u, id)
    /\ id \in 1..Len(chats) /\ chats[id].to = u
    /\ \E row \in Kept(u) : row.id = id
    /\ ToldBefore(u, id)
    /\ Ordered => Above(u, id)

Forgetting(u) ==
    /\ Forgets(todo, u)
    /\ NoBlank => \A row \in Kept(u) : Told(row.id, u)

Course ==
    \/ Silent(todo)
    \/ \E id \in Nat : Handing(id)
    \/ \E row \in MessageRows : Storing(row)
    \/ \E u \in Users, id \in Nat : Looping(u, id) \/ Giving(u, id)
    \/ \E u \in Users : Forgetting(u)

RowsAreChats ==
    \A row \in db.messages :
        row.id \in 1..Len(chats) /\ chats[row.id].to = row.receiver

Served(u) == ForgetCall(u) \in CallsIn(todo)

Absent(u) == u \in DOMAIN mapuser => mapuser[u].fd = NoFd

\* Stored messages are for users who are offline, and newer than what these
\* were written, unless the loop over them is under way.
RowsWait ==
    \A row \in db.messages :
        \/ Served(row.receiver)
        \/ /\ Ordered => Above(row.receiver, row.id)
           /\ Fetched => Absent(row.receiver)

SeenAreChats == Ordered => \A u \in Users : Above(u, Len(chats) + 1)

Increasing(u) ==
    \A i, j \in 1..Len(seen[u]) : i < j => seen[u][i] < seen[u][j]

SeenInOrder == Ordered => \A u \in Users : Increasing(u)

Waits(id) ==
    \E c \in CallsIn(todo) :
        \/ c.op = "write" /\ c.pk.id = id
        \/ c.op = "sql" /\ c.stmt.op = "saveMessage" /\ c.stmt.row.id = id

Accounted(id) ==
    \/ Waits(id)
    \/ \E row \in db.messages : row.id = id
    \/ Told(id, chats[id].to)

AllAccounted ==
    NoBlank /\ up /\ restarts = 0 => \A id \in 1..Len(chats) : Accounted(id)

MessageInv ==
    /\ RowsAreChats
    /\ up => Course /\ RowsWait
    /\ SeenAreChats
    /\ SeenInOrder
    /\ AllAccounted

-----------------------------------------------------------------------------
(* Lists of calls.                                                         *)

LEMMA CallsInNone == CallsIn(<<>>) = {}
BY DEF CallsIn

LEMMA CallsInOne ==
    ASSUME NEW c
    PROVE  CallsIn(<<c>>) = {c}
BY DEF CallsIn

LEMMA OnlyCall ==
    ASSUME NEW c
    PROVE  <<c>> # <<>> /\ Head(<<c>>) = c /\ Tail(<<c>>) = <<>>
OBVIOUS

LEMMA CallsInConcat ==
    ASSUME NEW s \in Seq(Calls), NEW t \in Seq(Calls)
    PROVE  CallsIn(s \o t) = CallsIn(s) \cup CallsIn(t)
<1>1. /\ Len(s) \in Nat /\ Len(t) \in Nat
      /\ Len(s \o t) = Len(s) + Len(t)
      /\ \A i \in 1..Len(s) : (s \o t)[i] = s[i]
      /\ \A i \in 1..Len(t) : (s \o t)[Len(s) + i] = t[i]
  <2>1. Len(s) \in Nat /\ Len(t) \in Nat /\ Len(s \o t) = Len(s) + Len(t)
        BY ConcatProperties
  <2>2. \A i \in 1..Len(s) : (s \o t)[i] = s[i]
        OBVIOUS
  <2>3. \A i \in 1..Len(t) : (s \o t)[Len(s) + i] = t[i]
        OBVIOUS
  <2>. QED  BY <2>1, <2>2, <2>3
<1>2. CallsIn(s \o t) \subseteq CallsIn(s) \cup CallsIn(t)
      BY CallOfConcat DEF CallsIn
<1>3. CallsIn(s) \subseteq CallsIn(s \o t)
      BY <1>1 DEF CallsIn
<1>4. CallsIn(t) \subseteq CallsIn(s \o t)
  <2>1. \A i \in 1..Len(t) : Len(s) + i \in 1..Len(s \o t)
        BY <1>1
  <2>. QED  BY <1>1, <2>1 DEF CallsIn
<1>. QED  BY <1>2, <1>3, <1>4

LEMMA CallsInTail ==
    ASSUME NEW s \in Seq(Calls), s # <<>>
    PROVE  /\ Tail(s) \in Seq(Calls)
           /\ Head(s) \in Calls
           /\ CallsIn(s) = {Head(s)} \cup CallsIn(Tail(s))
<1>1. /\ Tail(s) \in Seq(Calls)
      /\ Head(s) \in Calls
      /\ <<Head(s)>> \in Seq(Calls)
      /\ s = <<Head(s)>> \o Tail(s)
      OBVIOUS
<1>2. CallsIn(<<Head(s)>> \o Tail(s)) = CallsIn(<<Head(s)>>) \cup CallsIn(Tail(s))
      BY <1>1, CallsInConcat
<1>. QED  BY <1>1, <1>2, CallsInOne

LEMMA SilentNone == Silent(<<>>)
BY CallsInNone DEF Silent

LEMMA SilentOne ==
    ASSUME NEW c, ~AboutMessages(c)
    PROVE  Silent(<<c>>)
BY CallsInOne DEF Silent

LEMMA SilentConcat ==
    ASSUME NEW s \in Seq(Calls), NEW t \in Seq(Calls)
    PROVE  /\ s \o t \in Seq(Calls)
           /\ Silent(s) /\ Silent(t) => Silent(s \o t)
BY TwoListsType, CallsInConcat DEF Silent

LEMMA SilentThree ==
    ASSUME NEW s \in Seq(Calls), NEW t \in Seq(Calls), NEW x \in Seq(Calls),
           Silent(s), Silent(t), Silent(x)
    PROVE  Silent(s \o t \o x)
<1>1. s \o t \in Seq(Calls) /\ Silent(s \o t)
      BY SilentConcat
<1>. QED  BY <1>1, SilentConcat

LEMMA SilentTail ==
    ASSUME NEW s \in Seq(Calls), s # <<>>, Silent(s)
    PROVE  Silent(Tail(s)) /\ ~AboutMessages(Head(s))
BY CallsInTail DEF Silent

\* The numbers in the packages.
LEMMA AnswerIds ==
    ASSUME NEW type, NEW online, NEW u, NEW p, NEW role, NEW id
    PROVE  /\ Answer(type).id = 0
           /\ StatusAnswer(type, online).id = 0
           /\ LoginAnswer(u, p, role).id = 0
           /\ ChatAnswer(id).id = id
BY DEF Answer, StatusAnswer, LoginAnswer, ChatAnswer

LEMMA SilentWriteAll ==
    ASSUME NEW fds, NEW pk, pk.id = 0
    PROVE  Silent(WriteAll(fds, pk))
<1>1. ~AboutMessages([op |-> "write", fds |-> fds, pk |-> pk])
      BY DEF AboutMessages
<1>. QED  BY <1>1, SilentOne, SilentNone DEF WriteAll

LEMMA SilentReply ==
    ASSUME NEW fd, NEW type
    PROVE  Silent(Reply(fd, type))
BY SilentWriteAll, AnswerIds DEF Reply

LEMMA SilentSql ==
    ASSUME NEW s, s.op \notin {"saveMessage", "deleteMessageOfUser"}
    PROVE  Silent(Sql(s))
<1>1. ~AboutMessages([op |-> "sql", stmt |-> s])
      BY DEF AboutMessages
<1>. QED  BY <1>1, SilentOne DEF Sql

\* The statements that are not about messages.
LEMMA SilentStatements ==
    ASSUME NEW u, NEW st, NEW p, NEW role, NEW r, NEW c
    PROVE  /\ Silent(Sql(clearState(u)))
           /\ Silent(Sql(updateState(u, st)))
           /\ Silent(Sql(insertUser(u, p, role)))
           /\ Silent(Sql(modifyUser(u, p, role)))
           /\ Silent(Sql(deleteUser(u)))
           /\ Silent(Sql(insertRoom(r, c)))
           /\ Silent(Sql(modifyRoom(r, c)))
           /\ Silent(Sql(deleteRoom(r)))
BY SilentSql DEF clearState, updateState, insertUser, modifyUser, deleteUser,
                 insertRoom, modifyRoom, deleteRoom

LEMMA SilentParts ==
    ASSUME NEW m, NEW fd, NEW st, NEW online, NEW r
    PROVE  /\ Silent(notificationOffline(m, fd, online))
           /\ Silent(LeaveNotice(fd, st))
           /\ Silent(RoomChat(r))
BY SilentWriteAll, AnswerIds, SilentNone
   DEF notificationOffline, LeaveNotice, RoomChat

\* The loop over stored messages, seen from the front of a list.
LEMMA LeadsHere ==
    ASSUME NEW l \in Seq(Calls), NEW u, NEW after, Loops(l, u, after)
    PROVE  Leads(l, u, after)
<1>1. <<>> \in Seq(Calls) /\ l = <<>> \o l
      BY ConcatEmptySeq
<1>. QED  BY <1>1, SilentNone DEF Leads

LEMMA LeadsBehind ==
    ASSUME NEW s \in Seq(Calls), Silent(s), NEW l \in Seq(Calls), NEW u,
           NEW after, Leads(l, u, after)
    PROVE  Leads(s \o l, u, after)
<1>1. PICK before \in Seq(Calls), rest \in Seq(Calls) :
         l = before \o rest /\ Silent(before) /\ Loops(rest, u, after)
      BY DEF Leads
<1>2. s \o l = (s \o before) \o rest
      BY <1>1, ListsAssociate
<1>3. s \o before \in Seq(Calls) /\ Silent(s \o before)
      BY <1>1, SilentConcat
<1>. QED  BY <1>1, <1>2, <1>3 DEF Leads

LEMMA LeadsHead ==
    ASSUME NEW l \in Seq(Calls), NEW u, NEW after, Leads(l, u, after)
    PROVE  /\ l # <<>>
           /\ \/ Loops(l, u, after)
              \/ ~AboutMessages(Head(l)) /\ Leads(Tail(l), u, after)
<1>1. PICK before \in Seq(Calls), rest \in Seq(Calls) :
         l = before \o rest /\ Silent(before) /\ Loops(rest, u, after)
      BY DEF Leads
<1>2. rest # <<>>
      BY <1>1 DEF Loops
<1>3. CASE before = <<>>
  <2>1. l = rest
        BY <1>1, <1>3, ConcatEmptySeq
  <2>. QED  BY <1>1, <1>2, <2>1
<1>4. CASE before # <<>>
  <2>1. /\ Tail(before) \in Seq(Calls) /\ Silent(Tail(before))
        /\ ~AboutMessages(Head(before))
        BY <1>1, <1>4, CallsInTail, SilentTail
  <2>2. /\ before \o rest # <<>>
        /\ Head(before \o rest) = Head(before)
        /\ Tail(before \o rest) = Tail(before) \o rest
        BY <1>4
  <2>3. Leads(Tail(l), u, after)
        BY <1>1, <2>1, <2>2 DEF Leads
  <2>. QED  BY <1>1, <2>1, <2>2, <2>3
<1>. QED  BY <1>3, <1>4

\* The deletion that ends it.
LEMMA ForgetsServes ==
    ASSUME NEW l \in Seq(Calls), NEW u
    PROVE  /\ Forgets(l, u) => ForgetCall(u) \in CallsIn(l)
           /\ \A after : Loops(l, u, after) => ForgetCall(u) \in CallsIn(l)
           /\ \A after : Leads(l, u, after) => ForgetCall(u) \in CallsIn(l)
<1>1. ASSUME NEW s \in Seq(Calls), Forgets(s, u)
      PROVE  ForgetCall(u) \in CallsIn(s)
      BY <1>1, CallsInTail DEF Forgets
<1>2. ASSUME NEW s \in Seq(Calls), NEW after, Loops(s, u, after)
      PROVE  ForgetCall(u) \in CallsIn(s)
  <2>1. s # <<>> /\ Forgets(Tail(s), u)
        BY <1>2 DEF Loops
  <2>. QED  BY <1>1, <2>1, CallsInTail
<1>3. ASSUME NEW after, Leads(l, u, after)
      PROVE  ForgetCall(u) \in CallsIn(l)
      BY <1>2, <1>3, CallsInConcat DEF Leads
<1>. QED  BY <1>1, <1>2, <1>3

LEMMA CallsAboutMessages ==
    ASSUME NEW u, NEW row
    PROVE  AboutMessages(ForgetCall(u)) /\ AboutMessages(SaveCall(row))
BY DEF AboutMessages, ForgetCall, SaveCall, deleteMessageOfUser, saveMessage

-----------------------------------------------------------------------------
(* What a phase says of the calls left.                                    *)

\* A call that is not about messages comes first: nothing is under way, or it
\* is written before the loop.
LEMMA CourseOther ==
    ASSUME TypeOK, Course, todo # <<>>, ~AboutMessages(Head(todo))
    PROVE  \/ Silent(todo)
           \/ \E u \in Users, id \in Nat : Looping(u, id) /\ Leads(Tail(todo), u, id)
<1>1. todo \in Seq(Calls)
      BY DEF TypeOK
<1>2. ASSUME NEW id \in Nat, Handing(id)
      PROVE  Silent(todo)
      BY <1>1, <1>2, CallsInTail DEF Handing, Silent
<1>3. ~\E row \in MessageRows : Storing(row)
      BY CallsAboutMessages DEF Storing, Stores
<1>4. ~\E u \in Users : Forgetting(u)
      BY CallsAboutMessages DEF Forgetting, Forgets
<1>5. ASSUME NEW u \in Users, NEW id \in Nat, Giving(u, id)
      PROVE  FALSE
  <2>1. Head(todo).op = "write" /\ Head(todo).pk.id = id /\ id # 0
        BY <1>5 DEF Giving, Hands
  <2>. QED  BY <2>1 DEF AboutMessages
<1>6. ASSUME NEW u \in Users, NEW id \in Nat, Looping(u, id)
      PROVE  Leads(Tail(todo), u, id)
  <2>1. ~Loops(todo, u, id)
        BY DEF Loops, AboutMessages
  <2>. QED  BY <1>1, <1>6, <2>1, LeadsHead DEF Looping
<1>. QED  BY <1>2, <1>3, <1>4, <1>5, <1>6 DEF Course

\* A private message is written next.
LEMMA CourseWrite ==
    ASSUME TypeOK, Course, todo # <<>>, Head(todo).op = "write",
           Head(todo).pk.id # 0
    PROVE  \/ Handing(Head(todo).pk.id)
           \/ \E u \in Users : Giving(u, Head(todo).pk.id)
<1>1. todo \in Seq(Calls) /\ AboutMessages(Head(todo))
      BY DEF TypeOK, AboutMessages
<1>2. ~Silent(todo)
      BY <1>1, SilentTail
<1>3. ~\E row \in MessageRows : Storing(row)
      BY DEF Storing, Stores, SaveCall
<1>4. ~\E u \in Users : Forgetting(u)
      BY DEF Forgetting, Forgets, ForgetCall
<1>5. ASSUME NEW u \in Users, NEW id \in Nat, Looping(u, id)
      PROVE  FALSE
  <2>1. ~Loops(todo, u, id)
        BY DEF Loops
  <2>. QED  BY <1>1, <1>5, <2>1, LeadsHead DEF Looping
<1>. QED  BY <1>2, <1>3, <1>4, <1>5 DEF Course, Handing, Giving, Hands

\* The loop is at its next row.
LEMMA CourseReplay ==
    ASSUME TypeOK, Course, todo # <<>>, Head(todo).op = "replay"
    PROVE  /\ Head(todo).user \in Users /\ Head(todo).after \in Nat
           /\ Looping(Head(todo).user, Head(todo).after)
           /\ Loops(todo, Head(todo).user, Head(todo).after)
<1>1. todo \in Seq(Calls) /\ AboutMessages(Head(todo))
      BY DEF TypeOK, AboutMessages
<1>2. ~Silent(todo)
      BY <1>1, SilentTail
<1>3. ~\E row \in MessageRows : Storing(row)
      BY DEF Storing, Stores, SaveCall
<1>4. ~\E u \in Users : Forgetting(u)
      BY DEF Forgetting, Forgets, ForgetCall
<1>5. /\ ~\E id \in Nat : Handing(id)
      /\ ~\E u \in Users, id \in Nat : Giving(u, id)
      BY DEF Handing, Giving, Hands
<1>6. PICK u \in Users, id \in Nat : Looping(u, id)
      BY <1>2, <1>3, <1>4, <1>5 DEF Course
<1>7. Loops(todo, u, id)
      BY <1>1, <1>6, LeadsHead DEF Looping
<1>. QED  BY <1>6, <1>7 DEF Loops

\* A statement about messages is run next.
LEMMA CourseSql ==
    ASSUME TypeOK, Course, todo # <<>>, Head(todo).op = "sql",
           AboutMessages(Head(todo))
    PROVE  \/ \E row \in MessageRows : Storing(row)
           \/ \E u \in Users : Forgetting(u)
<1>1. todo \in Seq(Calls)
      BY DEF TypeOK
<1>2. ~Silent(todo)
      BY <1>1, SilentTail
<1>3. /\ ~\E id \in Nat : Handing(id)
      /\ ~\E u \in Users, id \in Nat : Giving(u, id)
      BY DEF Handing, Giving, Hands
<1>4. ASSUME NEW u \in Users, NEW id \in Nat, Looping(u, id)
      PROVE  FALSE
  <2>1. ~Loops(todo, u, id)
        BY DEF Loops
  <2>. QED  BY <1>1, <1>4, <2>1, LeadsHead DEF Looping
<1>. QED  BY <1>2, <1>3, <1>4 DEF Course

-----------------------------------------------------------------------------
(* The calls.                                                              *)

\* A call that is not about messages is replaced by others that are not.
LEMMA OtherCallDelivers ==
    ASSUME TypeOK, MessageInv, up, todo # <<>>, ~AboutMessages(Head(todo)),
           UNCHANGED <<up, mapuser, restarts, chats, seen, dropped>>,
           db'.messages = db.messages,
           NEW first \in Seq(Calls), Silent(first), todo' = first \o Tail(todo)
    PROVE  MessageInv'
<1>1. /\ todo \in Seq(Calls) /\ Tail(todo) \in Seq(Calls)
      /\ CallsIn(todo) = {Head(todo)} \cup CallsIn(Tail(todo))
      /\ CallsIn(todo') = CallsIn(first) \cup CallsIn(Tail(todo))
      BY CallsInTail, CallsInConcat DEF TypeOK
<1>2. \A c \in CallsIn(todo) : AboutMessages(c) => c \in CallsIn(todo')
      BY <1>1
<1>3. Course'
  <2>1. CASE Silent(todo)
    <3>1. Silent(Tail(todo))
          BY <1>1, <2>1, SilentTail
    <3>2. Silent(todo')
          BY <1>1, <3>1, SilentConcat
    <3>. QED  BY <3>2 DEF Course
  <2>2. ASSUME NEW u \in Users, NEW id \in Nat, Looping(u, id),
               Leads(Tail(todo), u, id)
        PROVE  Course'
    <3>1. Leads(todo', u, id)
          BY <1>1, <2>2, LeadsBehind
    <3>2. Looping(u, id)'
          BY <2>2, <3>1 DEF Looping, ToldBefore, Told, Above, Kept,
                            getMessageOfUser, Ordered
    <3>. QED  BY <3>2 DEF Course
  <2>. QED  BY <2>1, <2>2, CourseOther DEF MessageInv
<1>4. RowsWait'
  <2>1. \A u : Served(u) => Served(u)'
        BY <1>2, CallsAboutMessages DEF Served
  <2>. QED  BY <2>1 DEF MessageInv, RowsWait, Above, Ordered, Fetched, Absent
<1>5. AllAccounted'
  <2>1. ASSUME NEW id \in 1..Len(chats), Waits(id)
        PROVE  Waits(id)'
    <3>1. Len(chats) \in Nat
          BY MemoryTypes
    <3>. QED  BY <1>2, <2>1, <3>1 DEF Waits, AboutMessages
  <2>. QED  BY <2>1 DEF MessageInv, AllAccounted, Accounted, Told
<1>. QED  BY <1>3, <1>4, <1>5 DEF MessageInv, RowsAreChats, SeenAreChats,
             SeenInOrder, Increasing, Above, Ordered

\* A message is given to its receiver: it is appended to what the receiver was
\* written, or the connection was closed.
LEMMA GivenTo ==
    ASSUME TypeOK, NEW id \in Nat, NEW v \in Users,
           \/ seen' = [seen EXCEPT ![v] = Append(@, id)] /\ UNCHANGED dropped
           \/ dropped' = dropped \cup {id} /\ UNCHANGED seen
    PROVE  /\ Told(id, v)'
           /\ \A u \in Users, x \in Nat : Told(x, u) => Told(x, u)'
           /\ \A u \in Users, x \in Nat :
                 Above(u, x) /\ (u # v \/ id < x) => Above(u, x)'
           /\ \A u \in Users :
                 Increasing(u) /\ (u = v => Above(v, id)) => Increasing(u)'
<1>1. seen \in [Users -> Seq(Nat)]
      BY DEF TypeOK
<1>2. CASE dropped' = dropped \cup {id} /\ UNCHANGED seen
      BY <1>2 DEF Told, Above, Increasing
<1>3. CASE seen' = [seen EXCEPT ![v] = Append(@, id)] /\ UNCHANGED dropped
  <2>. DEFINE s == seen[v]
              n == Len(s)
  <2>1. s \in Seq(Nat) /\ n \in Nat
        BY <1>1
  <2>2. /\ seen'[v] = Append(s, id)
        /\ \A u \in Users : u # v => seen'[u] = seen[u]
        BY <1>1, <1>3
  <2>3. /\ Len(Append(s, id)) = n + 1
        /\ Append(s, id)[n + 1] = id
        /\ \A i \in 1..n : Append(s, id)[i] = s[i]
        BY <2>1
  <2>4. /\ n + 1 \in 1..(n + 1)
        /\ \A i \in 1..n : i \in 1..(n + 1)
        /\ \A i \in 1..(n + 1) : i \in 1..n \/ i = n + 1
        BY <2>1
  <2>5. \A i \in 1..n : s[i] \in Nat
        BY <2>1
  <2>. HIDE DEF s, n
  <2>6. Told(id, v)'
        BY <2>2, <2>3, <2>4 DEF Told
  <2>7. ASSUME NEW u \in Users, NEW x \in Nat, Told(x, u)
        PROVE  Told(x, u)'
    <3>1. CASE u # v
          BY <1>3, <2>2, <2>7, <3>1 DEF Told
    <3>2. CASE u = v
          BY <1>3, <2>2, <2>3, <2>4, <2>7, <3>2 DEF Told, s, n
    <3>. QED  BY <3>1, <3>2
  <2>8. ASSUME NEW u \in Users, NEW x \in Nat, Above(u, x), u # v \/ id < x
        PROVE  Above(u, x)'
    <3>1. CASE u # v
          BY <2>2, <2>8, <3>1 DEF Above
    <3>2. CASE u = v
          BY <2>2, <2>3, <2>4, <2>8, <3>2 DEF Above, s, n
    <3>. QED  BY <3>1, <3>2
  <2>9. ASSUME NEW u \in Users, Increasing(u), u = v => Above(v, id)
        PROVE  Increasing(u)'
    <3>1. CASE u # v
          BY <2>2, <2>9, <3>1 DEF Increasing
    <3>2. CASE u = v
      <4>1. ASSUME NEW i \in 1..(n + 1), NEW j \in 1..(n + 1), i < j
            PROVE  Append(s, id)[i] < Append(s, id)[j]
        <5>1. i \in 1..n
              BY <2>1, <4>1
        <5>2. CASE j \in 1..n
              BY <2>3, <2>9, <3>2, <4>1, <5>1, <5>2 DEF Increasing, s, n
        <5>3. CASE j = n + 1
              BY <2>3, <2>9, <3>2, <5>1, <5>3 DEF Above, s, n
        <5>. QED  BY <2>4, <5>2, <5>3
      <4>. QED  BY <2>2, <2>3, <3>2, <4>1 DEF Increasing
    <3>. QED  BY <3>1, <3>2
  <2>. QED  BY <2>6, <2>7, <2>8, <2>9
<1>. QED  BY <1>2, <1>3

\* A private message is written.
LEMMA MessageDelivers ==
    ASSUME TypeOK, MessageInv, NEW fd \in Fds, Write(fd),
           NEW id, id = Head(todo).pk.id, id # 0, NEW v, v = chats[id].to
    PROVE  MessageInv'
<1>1. /\ up /\ todo # <<>> /\ Head(todo).op = "write" /\ fd \in Head(todo).fds
      /\ todo' = AfterWrite(fd)
      /\ UNCHANGED <<up, mapuser, db, restarts, chats>>
      BY DEF Write, Calling, memory
<1>2. Handing(id) \/ \E u \in Users : Giving(u, id)
      BY <1>1, CourseWrite DEF MessageInv
<1>3. Hands(todo, id) /\ id \in 1..Len(chats)
      BY <1>2 DEF Handing, Giving
<1>4. todo' = Tail(todo)
  <2>1. Head(todo).fds = {fd}
        BY <1>1, <1>3 DEF Hands
  <2>2. Tail(todo) \in Seq(Calls)
        BY <1>1, TodoTypes
  <2>. QED  BY <1>1, <2>1, <2>2, ConcatEmptySeq DEF AfterWrite
<1>5. /\ chats \in Seq(Chats) /\ Len(chats) \in Nat /\ id \in Nat
      /\ \A x \in 1..Len(chats) : chats[x].to \in Users
  <2>1. chats \in Seq(Chats) /\ Len(chats) \in Nat
        BY MemoryTypes
  <2>2. \A x \in 1..Len(chats) : chats[x] \in Chats
        BY <2>1
  <2>. QED  BY <1>3, <2>1, <2>2 DEF Chats
<1>6. v \in Users
      BY <1>3, <1>5
<1>7. \/ seen' = [seen EXCEPT ![v] = Append(@, id)] /\ UNCHANGED dropped
      \/ dropped' = dropped \cup {id} /\ UNCHANGED seen
      BY DEF Write
<1>8. /\ todo \in Seq(Calls) /\ Tail(todo) \in Seq(Calls)
      /\ CallsIn(todo) = {Head(todo)} \cup CallsIn(todo')
      BY <1>1, <1>4, CallsInTail DEF TypeOK
<1>9. \A row \in db.messages :
         row \in MessageRows /\ row.id \in Nat /\ row.receiver \in Users
      BY MemoryTypes DEF IsDatabase, MessageRows
<1>10. /\ Told(id, v)'
       /\ \A u \in Users, x \in Nat : Told(x, u) => Told(x, u)'
       /\ \A u \in Users, x \in Nat :
             Above(u, x) /\ (u # v \/ id < x) => Above(u, x)'
       /\ \A u \in Users :
             Increasing(u) /\ (u = v => Above(v, id)) => Increasing(u)'
       BY <1>5, <1>6, <1>7, GivenTo
<1>11. Ordered => Above(v, id)
       BY <1>2 DEF Handing, Giving
<1>12. /\ \A row : row \in Kept(v) <=> row \in db.messages /\ row.receiver = v
       /\ Handing(id) /\ Fetched => Kept(v) = {}
       /\ \A u \in Users : Giving(u, id) => v = u /\ Served(u)
  <2>1. ASSUME NEW u \in Users, Giving(u, id)
        PROVE  Served(u)
        BY <1>4, <1>8, <2>1, ForgetsServes DEF Giving, Served
  <2>. QED  BY <2>1 DEF Kept, getMessageOfUser, Handing, Giving
<1>13. RowsAreChats' /\ SeenAreChats' /\ SeenInOrder'
  <2>1. RowsAreChats'
        BY <1>1 DEF MessageInv, RowsAreChats
  <2>2. SeenAreChats'
    <3>1. id < Len(chats) + 1 /\ Len(chats) + 1 \in Nat
          BY <1>3, <1>5
    <3>. QED  BY <1>1, <1>10, <3>1 DEF MessageInv, SeenAreChats, Ordered, Above
  <2>3. SeenInOrder'
        BY <1>1, <1>10, <1>11
        DEF MessageInv, SeenInOrder, Ordered, Increasing
  <2>. QED  BY <2>1, <2>2, <2>3
<1>14. AllAccounted'
  <2>. SUFFICES ASSUME NoBlank, up, restarts = 0, NEW x \in 1..Len(chats)
                PROVE  Accounted(x)'
       BY <1>1 DEF AllAccounted
  <2>1. x \in Nat /\ chats[x].to \in Users /\ Accounted(x)
        BY <1>5 DEF MessageInv, AllAccounted
  <2>2. CASE Waits(x)
    <3>1. CASE x = id
          BY <1>1, <1>10, <3>1 DEF Accounted, Told
    <3>2. CASE x # id
          BY <1>1, <1>8, <2>2, <3>2 DEF Waits, Accounted
    <3>. QED  BY <3>1, <3>2
  <2>3. CASE Told(x, chats[x].to)
    <3>1. Told(x, chats[x].to)'
          BY <1>1, <1>10, <2>1, <2>3 DEF Told
    <3>. QED  BY <3>1 DEF Accounted
  <2>. QED  BY <1>1, <2>1, <2>2, <2>3 DEF Accounted
<1>15. RowsWait'
  <2>. SUFFICES ASSUME NEW row \in db.messages
                PROVE  \/ Served(row.receiver)'
                       \/ /\ Ordered => Above(row.receiver, row.id)'
                          /\ Fetched => Absent(row.receiver)
       BY <1>1 DEF RowsWait, Ordered, Fetched, Absent, Above, Served
  <2>1. CASE Served(row.receiver)
    <3>1. Head(todo) # ForgetCall(row.receiver)
          BY <1>1 DEF ForgetCall
    <3>. QED  BY <1>8, <2>1, <3>1 DEF Served
  <2>2. CASE /\ ~Served(row.receiver)
             /\ Ordered => Above(row.receiver, row.id)
             /\ Fetched => Absent(row.receiver)
    <3>1. Fetched => row.receiver # v
          BY <1>2, <1>12, <2>2
    <3>2. Ordered => Fetched
          BY DEF Ordered, Fetched
    <3>. QED  BY <1>9, <1>10, <2>2, <3>1, <3>2
  <2>. QED  BY <1>1, <2>1, <2>2 DEF MessageInv, RowsWait
<1>16. Course'
  <2>1. CASE Handing(id)
        BY <1>4, <2>1 DEF Handing, Course
  <2>2. ASSUME NEW u \in Users, Giving(u, id)
        PROVE  Course'
    <3>1. Leads(todo', u, id)
          BY <1>4, <1>8, <2>2, LeadsHere DEF Giving
    <3>2. u = v
          BY <1>12, <2>2
    <3>3. ToldBefore(u, id + 1)'
      <4>1. ASSUME NEW row \in Kept(u), row.id < id + 1, NoBlank
            PROVE  Told(row.id, u)'
        <5>1. row.id \in Nat
              BY <1>9, <1>12, <3>2, <4>1
        <5>2. CASE row.id = id
              BY <1>10, <3>2, <5>2
        <5>3. CASE row.id < id
              BY <1>10, <2>2, <4>1, <5>1, <5>3 DEF Giving, ToldBefore
        <5>. QED  BY <1>5, <4>1, <5>1, <5>2, <5>3
      <4>. QED  BY <1>1, <4>1 DEF ToldBefore, Kept, Told
    <3>4. ASSUME NEW row \in Kept(u), row.id > id, Ordered
          PROVE  Above(u, row.id)'
      <4>1. row.id \in Nat
            BY <1>9, <1>12, <3>2, <3>4
      <4>2. Above(u, id) /\ \A i \in 1..Len(seen[u]) : seen[u][i] \in Nat
        <5>1. seen[u] \in Seq(Nat)
              BY DEF TypeOK
        <5>. QED  BY <2>2, <3>4, <5>1 DEF Giving
      <4>3. Above(u, row.id)
            BY <1>5, <3>4, <4>1, <4>2 DEF Above
      <4>. QED  BY <1>10, <3>4, <4>1, <4>3, <1>5
    <3>5. Looping(u, id)'
          BY <1>1, <3>1, <3>3, <3>4 DEF Looping, Kept, Ordered, Above
    <3>. QED  BY <1>5, <3>5 DEF Course
  <2>. QED  BY <1>2, <2>1, <2>2
<1>. QED  BY <1>13, <1>14, <1>15, <1>16 DEF MessageInv

\* Any other write.
LEMMA WriteDelivers ==
    ASSUME TypeOK, MessageInv, NEW fd \in Fds, Write(fd)
    PROVE  MessageInv'
<1>. DEFINE w == Head(todo)
            rest == [w EXCEPT !.fds = @ \ {fd}]
            first == IF w.fds = {fd} THEN <<>> ELSE <<rest>>
<1>1. CASE w.pk.id # 0
  <2>1. PICK id, v : id = Head(todo).pk.id /\ v = chats[id].to
        OBVIOUS
  <2>. QED  BY <1>1, <2>1, MessageDelivers
<1>2. CASE w.pk.id = 0
  <2>1. /\ up /\ todo # <<>> /\ w.op = "write"
        /\ todo' = first \o Tail(todo)
        /\ UNCHANGED <<up, mapuser, db, restarts, chats, seen, dropped>>
        BY <1>2 DEF Write, Calling, AfterWrite, memory
  <2>2. w \in Writes
        BY <2>1, TodoTypes, CallKinds
  <2>3. rest \in Calls /\ rest.op = "write" /\ rest.pk.id = 0
        BY <1>2, <2>2 DEF Writes, Calls
  <2>4. ~AboutMessages(w)
        BY <1>2, <2>1 DEF AboutMessages
  <2>5. ~AboutMessages(rest)
        BY <2>3 DEF AboutMessages
  <2>6. first \in Seq(Calls) /\ Silent(first)
        BY <2>3, <2>5, NoCallType, OneCallType, SilentNone, SilentOne
  <2>. HIDE DEF first, rest, w
  <2>7. ~AboutMessages(Head(todo)) /\ db'.messages = db.messages
        BY <2>1, <2>4 DEF w
  <2>. QED  BY <2>1, <2>6, <2>7, OtherCallDelivers
<1>. QED  BY <1>1, <1>2

LEMMA CloseDelivers ==
    ASSUME TypeOK, MessageInv, Close
    PROVE  MessageInv'
<1>1. /\ up /\ todo # <<>> /\ ~AboutMessages(Head(todo))
      /\ todo' = Tail(todo)
      /\ UNCHANGED <<up, mapuser, db, restarts, chats, seen, dropped>>
      BY DEF Close, Calling, AboutMessages, memory, observed
<1>2. todo' = <<>> \o Tail(todo)
      BY <1>1, TodoTypes, ConcatEmptySeq
<1>. QED  BY <1>1, <1>2, NoCallType, SilentNone, OtherCallDelivers

\* A step of the loop has to give the phase it ends in.
LEMMA CallsKept ==
    ASSUME TypeOK, MessageInv, up, todo # <<>>, Head(todo).op = "replay",
           UNCHANGED <<up, mapuser, db, restarts, chats, seen, dropped>>,
           CallsIn(Tail(todo)) \subseteq CallsIn(todo'), Course'
    PROVE  MessageInv'
<1>1. CallsIn(todo) = {Head(todo)} \cup CallsIn(Tail(todo))
      BY CallsInTail DEF TypeOK
<1>2. \A c \in CallsIn(todo) : c.op # "replay" => c \in CallsIn(todo')
      BY <1>1
<1>3. RowsWait'
  <2>1. \A u : Served(u) => Served(u)'
        BY <1>2 DEF Served, ForgetCall
  <2>. QED  BY <2>1 DEF MessageInv, RowsWait, Above, Ordered, Fetched, Absent
<1>4. AllAccounted'
  <2>1. ASSUME NEW id \in 1..Len(chats), Waits(id)
        PROVE  Waits(id)'
        BY <1>2, <2>1 DEF Waits
  <2>. QED  BY <2>1 DEF MessageInv, AllAccounted, Accounted, Told
<1>. QED  BY <1>3, <1>4 DEF MessageInv, RowsAreChats, SeenAreChats,
             SeenInOrder, Increasing, Above, Ordered

LEMMA TwoCallsFirst ==
    ASSUME NEW c \in Calls, NEW d \in Calls, NEW l \in Seq(Calls)
    PROVE  LET s == <<c>> \o <<d>> \o l
           IN  /\ s # <<>> /\ Head(s) = c /\ Tail(s) = <<d>> \o l
               /\ Tail(s) # <<>> /\ Head(Tail(s)) = d /\ Tail(Tail(s)) = l
<1>. DEFINE t == <<d>> \o l
<1>1. t \in Seq(Calls) /\ t # <<>> /\ Head(t) = d /\ Tail(t) = l
      OBVIOUS
<1>2. <<c>> \o <<d>> \o l = <<c>> \o t
      BY OneCallType, ListsAssociate
<1>. HIDE DEF t
<1>3. <<c>> \o t # <<>> /\ Head(<<c>> \o t) = c /\ Tail(<<c>> \o t) = t
      BY <1>1
<1>. QED  BY <1>1, <1>2, <1>3 DEF t

\* The next stored message is about to be written.
LEMMA ReplayRowDelivers ==
    ASSUME TypeOK, MessageInv, ReplayRow
    PROVE  MessageInv'
<1>1. /\ up /\ todo # <<>> /\ Head(todo).op = "replay"
      /\ UNCHANGED <<up, mapuser, db, restarts, chats, seen, dropped>>
      BY DEF ReplayRow, Calling, memory, observed
<1>2. PICK c : c = Head(todo)
      OBVIOUS
<1>3. PICK row \in NextRow(c) :
         todo' = WriteAll({c.fd}, ChatAnswer(row.id))
                 \o <<[c EXCEPT !.after = row.id]>> \o Tail(todo)
      BY <1>2 DEF ReplayRow
<1>4. PICK u : u = c.user
      OBVIOUS
<1>5. /\ c \in Replays /\ c.fd \in Fds /\ c.after \in Nat /\ u \in Users
      /\ todo \in Seq(Calls) /\ Tail(todo) \in Seq(Calls)
      BY <1>1, <1>2, <1>4, TodoTypes, CallKinds DEF Replays, TypeOK
<1>6. Looping(u, c.after) /\ Loops(todo, u, c.after)
      BY <1>1, <1>2, <1>4, CourseReplay DEF MessageInv
<1>7. \A r \in Kept(u) : r.id \in Nat
      BY MemoryTypes DEF IsDatabase, MessageRows, Kept, getMessageOfUser
<1>8. /\ row \in Kept(u) /\ row.id \in Nat /\ row.id > c.after
      /\ row \in db.messages /\ row.receiver = u
      /\ \A other \in Kept(u) : other.id < row.id => other.id < c.after + 1
      BY <1>4, <1>5, <1>7 DEF NextRow, Rest, Kept, getMessageOfUser
<1>. DEFINE next == [c EXCEPT !.after = row.id]
            write == [op |-> "write", fds |-> {c.fd}, pk |-> ChatAnswer(row.id)]
<1>9. /\ next \in Calls /\ next.op = "replay" /\ next.user = u
      /\ next.after = row.id
      BY <1>4, <1>5, <1>8 DEF Replays, Calls
<1>10. /\ write \in Calls /\ write.op = "write" /\ write.pk.id = row.id
       /\ write.fds = {c.fd}
       BY <1>5, <1>8, ChatAnswerType, AnswerIds DEF Calls, Writes
<1>11. WriteAll({c.fd}, ChatAnswer(row.id)) = <<write>>
       BY DEF WriteAll
<1>. HIDE DEF next, write
<1>12. todo' = <<write>> \o <<next>> \o Tail(todo)
       BY <1>3, <1>11 DEF next
<1>13. /\ todo' # <<>> /\ Head(todo') = write
       /\ Tail(todo') = <<next>> \o Tail(todo)
       /\ Tail(todo') # <<>> /\ Head(Tail(todo')) = next
       /\ Tail(Tail(todo')) = Tail(todo)
       BY <1>5, <1>9, <1>10, <1>12, TwoCallsFirst
<1>14. CallsIn(Tail(todo)) \subseteq CallsIn(todo')
  <2>1. <<write>> \in Seq(Calls) /\ <<next>> \in Seq(Calls)
        BY <1>9, <1>10, OneCallType
  <2>2. <<write>> \o <<next>> \in Seq(Calls)
        BY <2>1, TwoListsType
  <2>. QED  BY <1>5, <1>12, <2>2, CallsInConcat
<1>15. Giving(u, row.id)'
  <2>1. Hands(todo', row.id)
        BY <1>5, <1>10, <1>13 DEF Hands
  <2>2. Loops(Tail(todo'), u, row.id)
        BY <1>6, <1>9, <1>13 DEF Loops
  <2>3. row.id \in 1..Len(chats) /\ chats[row.id].to = u
        BY <1>8 DEF MessageInv, RowsAreChats
  <2>4. ToldBefore(u, row.id)
        BY <1>6, <1>8 DEF Looping, ToldBefore
  <2>5. Ordered => Above(u, row.id)
        BY <1>6, <1>8 DEF Looping
  <2>. QED  BY <1>1, <1>8, <2>1, <2>2, <2>3, <2>4, <2>5
            DEF Giving, ToldBefore, Kept, Told, Above, Ordered
<1>16. Course'
       BY <1>5, <1>8, <1>15 DEF Course
<1>. QED  BY <1>1, <1>14, <1>16, CallsKept

\* With no blank message, the loop ends behind the last row.
LEMMA LoopIsOver ==
    ASSUME TypeOK, NoBlank, NEW c, NextRow(c) = {}
    PROVE  Rest(c) = {}
<1>. SUFFICES ASSUME Rest(c) # {}
              PROVE  FALSE
     OBVIOUS
<1>. DEFINE T == {r.id : r \in Rest(c)}
<1>1. \A r \in Rest(c) : r.id \in Nat /\ r.mess \in Texts
      BY MemoryTypes DEF IsDatabase, MessageRows, Rest, getMessageOfUser
<1>2. T \in SUBSET Nat /\ T # {}
      BY <1>1
<1>3. PICK x \in T : \A y \in T : x <= y
      BY <1>2, LeastNat
<1>4. PICK r \in Rest(c) : r.id = x
      BY <1>3
<1>5. r.mess # "blank"
      BY <1>1 DEF NoBlank
<1>6. r \in NextRow(c)
      BY <1>3, <1>4, <1>5 DEF NextRow
<1>. QED  BY <1>6

\* The loop ends: if there is no blank message, every row was written.
LEMMA ReplayEndDelivers ==
    ASSUME TypeOK, MessageInv, ReplayEnd
    PROVE  MessageInv'
<1>1. /\ up /\ todo # <<>> /\ Head(todo).op = "replay"
      /\ UNCHANGED <<up, mapuser, db, restarts, chats, seen, dropped>>
      /\ todo' = Tail(todo)
      BY DEF ReplayEnd, Calling, memory, observed
<1>2. PICK c : c = Head(todo)
      OBVIOUS
<1>3. NextRow(c) = {}
      BY <1>2 DEF ReplayEnd
<1>4. PICK u : u = c.user
      OBVIOUS
<1>5. c.after \in Nat /\ u \in Users
      BY <1>1, <1>2, <1>4, TodoTypes, CallKinds DEF Replays
<1>6. Looping(u, c.after) /\ Loops(todo, u, c.after)
      BY <1>1, <1>2, <1>4, CourseReplay DEF MessageInv
<1>7. \A r \in Kept(u) : r.id \in Nat /\ r.mess \in Texts
      BY MemoryTypes DEF IsDatabase, MessageRows, Kept, getMessageOfUser
<1>8. NoBlank => Rest(c) = {}
      BY <1>3, LoopIsOver
<1>9. NoBlank => \A row \in Kept(u) : Told(row.id, u)
  <2>1. ASSUME NoBlank, NEW row \in Kept(u)
        PROVE  row.id < c.after + 1
        BY <1>4, <1>5, <1>7, <1>8, <2>1 DEF Rest, Kept
  <2>. QED  BY <1>6, <2>1 DEF Looping, ToldBefore
<1>10. Forgetting(u)'
       BY <1>1, <1>6, <1>9 DEF Forgetting, Loops, Kept, Told
<1>11. Course'
       BY <1>5, <1>10 DEF Course
<1>. QED  BY <1>1, <1>11, CallsKept

\* What is written behind the last row is no message.
LEMMA ReplayJunkDelivers ==
    ASSUME TypeOK, MessageInv, ReplayJunk
    PROVE  MessageInv'
<1>. DEFINE junk == Reply(Head(todo).fd, "sendMess")
<1>1. /\ up /\ todo # <<>> /\ Head(todo).op = "replay"
      /\ UNCHANGED <<up, mapuser, db, restarts, chats, seen, dropped>>
      /\ todo' = junk \o todo
      BY DEF ReplayJunk, Calling, memory, observed
<1>2. PICK u, after : u = Head(todo).user /\ after = Head(todo).after
      OBVIOUS
<1>3. Head(todo).fd \in Fds /\ after \in Nat /\ u \in Users
      BY <1>1, <1>2, TodoTypes, CallKinds DEF Replays
<1>4. junk \in Seq(Calls) /\ Silent(junk)
      BY <1>3, ReplyType, SilentReply DEF AnswerTypes
<1>. HIDE DEF junk
<1>5. Looping(u, after) /\ Leads(todo, u, after)
      BY <1>1, <1>2, CourseReplay DEF MessageInv, Looping
<1>6. todo \in Seq(Calls)
      BY DEF TypeOK
<1>7. Leads(todo', u, after)
      BY <1>1, <1>4, <1>5, <1>6, LeadsBehind
<1>8. Looping(u, after)'
      BY <1>1, <1>5, <1>7 DEF Looping, ToldBefore, Told, Kept, Above, Ordered
<1>9. CallsIn(Tail(todo)) \subseteq CallsIn(todo')
      BY <1>1, <1>4, <1>6, CallsInConcat, CallsInTail
<1>10. Course'
       BY <1>3, <1>8 DEF Course
<1>. QED  BY <1>1, <1>9, <1>10, CallsKept

\* The other statements leave the messages.
LEMMA RunOther ==
    ASSUME NEW d, IsDatabase(d), NEW s \in Statements,
           s.op \notin {"saveMessage", "deleteMessageOfUser"}
    PROVE  Run(d, s).messages = d.messages
<1>1. \A u, column : RunSetState(d, u, column).messages = d.messages
      BY DEF RunSetState, IsDatabase
<1>2. \A u, p, role : RunModifyUser(d, u, p, role).messages = d.messages
      BY DEF RunModifyUser, IsDatabase
<1>3. \A r, c : RunModifyRoom(d, r, c).messages = d.messages
      BY DEF RunModifyRoom, IsDatabase
<1>4. \A x : /\ [d EXCEPT !.users = x].messages = d.messages
             /\ [d EXCEPT !.rooms = x].messages = d.messages
      BY DatabaseFields
<1>. QED  BY <1>1, <1>2, <1>3, <1>4
          DEF Run, Statements, RunInsertUser, RunDeleteUser, RunInsertRoom,
              RunDeleteRoom

\* The two statements about them.
LEMMA RunMessageRows ==
    ASSUME NEW d, IsDatabase(d), NEW u, NEW row
    PROVE  /\ Run(d, saveMessage(row)).messages = d.messages \cup {row}
           /\ Run(d, deleteMessageOfUser(u)).messages =
                 {r \in d.messages : r.receiver # u}
BY DatabaseFields
   DEF Run, saveMessage, deleteMessageOfUser, RunSaveMessage,
       RunDeleteMessageOfUser

\* A message goes to the table, or those of one user are deleted.
LEMMA StoreDelivers ==
    ASSUME TypeOK, DatabaseInv, MessageInv, Execute, NEW row, Storing(row)
    PROVE  MessageInv'
<1>1. /\ up /\ todo # <<>> /\ Head(todo) = SaveCall(row)
      /\ Silent(Tail(todo)) /\ todo' = Tail(todo)
      /\ Head(todo).stmt = saveMessage(row)
  <2>1. /\ up /\ todo # <<>> /\ Head(todo) = SaveCall(row)
        /\ Silent(Tail(todo)) /\ Head(todo).op = "sql"
        /\ Head(todo).stmt = saveMessage(row)
        BY DEF Execute, Calling, Storing, Stores, SaveCall
  <2>2. ~Rejected(db, Head(todo).stmt)
        BY <2>1, StatementAccepted DEF Passes, saveMessage, Rejected,
           deleteMessageOfUser
  <2>. QED  BY <2>1, <2>2 DEF Execute
<1>2. /\ db' = Run(db, saveMessage(row))
      /\ UNCHANGED <<up, mapuser, restarts, chats, seen, dropped>>
  <2>1. ~Rejected(db, Head(todo).stmt)
        BY <1>1, StatementAccepted DEF Execute, Calling, Passes, saveMessage,
           Rejected, deleteMessageOfUser
  <2>. QED  BY <1>1, <2>1 DEF Execute, Calling, memory, observed
<1>3. db'.messages = db.messages \cup {row}
      BY <1>2, MemoryTypes, RunMessageRows
<1>4. CallsIn(todo) = {SaveCall(row)} \cup CallsIn(todo')
      BY <1>1, CallsInTail DEF TypeOK
<1>5. RowsWait'
  <2>1. \A u : Served(u) => Served(u)'
        BY <1>4 DEF Served, ForgetCall, SaveCall, saveMessage,
                    deleteMessageOfUser
  <2>2. /\ Ordered => Above(row.receiver, row.id)
        /\ Absent(row.receiver)
        BY DEF Storing, Absent
  <2>. QED  BY <1>1, <1>2, <1>3, <2>1, <2>2
            DEF MessageInv, RowsWait, Above, Ordered, Fetched, Absent
<1>6. AllAccounted'
  <2>1. ASSUME NEW id \in 1..Len(chats), Waits(id)
        PROVE  Waits(id)' \/ \E r \in db'.messages : r.id = id
    <3>1. PICK c \in CallsIn(todo) :
             \/ c.op = "write" /\ c.pk.id = id
             \/ c.op = "sql" /\ c.stmt.op = "saveMessage" /\ c.stmt.row.id = id
          BY <2>1 DEF Waits
    <3>2. CASE c \in CallsIn(todo')
          BY <3>1, <3>2 DEF Waits
    <3>3. CASE c = SaveCall(row)
          BY <1>3, <3>1, <3>3 DEF SaveCall, saveMessage
    <3>. QED  BY <1>4, <3>2, <3>3
  <2>. QED  BY <1>2, <1>3, <2>1 DEF MessageInv, AllAccounted, Accounted, Told
<1>. QED  BY <1>1, <1>2, <1>3, <1>5, <1>6
          DEF MessageInv, Course, RowsAreChats, Storing, SeenAreChats,
              SeenInOrder, Increasing, Above, Ordered

LEMMA ForgetDelivers ==
    ASSUME TypeOK, DatabaseInv, MessageInv, Execute, NEW u, Forgetting(u)
    PROVE  MessageInv'
<1>1. /\ up /\ todo # <<>> /\ Head(todo) = ForgetCall(u)
      /\ Silent(Tail(todo)) /\ todo' = Tail(todo)
      /\ Head(todo).stmt = deleteMessageOfUser(u)
  <2>1. /\ up /\ todo # <<>> /\ Head(todo) = ForgetCall(u)
        /\ Silent(Tail(todo)) /\ Head(todo).op = "sql"
        /\ Head(todo).stmt = deleteMessageOfUser(u)
        BY DEF Execute, Calling, Forgetting, Forgets, ForgetCall
  <2>2. ~Rejected(db, Head(todo).stmt)
        BY <2>1, StatementAccepted DEF Passes, saveMessage, Rejected,
           deleteMessageOfUser
  <2>. QED  BY <2>1, <2>2 DEF Execute
<1>2. /\ db' = Run(db, deleteMessageOfUser(u))
      /\ UNCHANGED <<up, mapuser, restarts, chats, seen, dropped>>
  <2>1. ~Rejected(db, Head(todo).stmt)
        BY <1>1, StatementAccepted DEF Execute, Calling, Passes, saveMessage,
           Rejected, deleteMessageOfUser
  <2>. QED  BY <1>1, <2>1 DEF Execute, Calling, memory, observed
<1>3. db'.messages = {r \in db.messages : r.receiver # u}
      BY <1>2, MemoryTypes, RunMessageRows
<1>4. CallsIn(todo) = {ForgetCall(u)} \cup CallsIn(todo')
      BY <1>1, CallsInTail DEF TypeOK
<1>5. RowsWait'
  <2>1. \A v : v # u /\ Served(v) => Served(v)'
        BY <1>4 DEF Served, ForgetCall, deleteMessageOfUser
  <2>. QED  BY <1>1, <1>2, <1>3, <2>1
            DEF MessageInv, RowsWait, Above, Ordered, Fetched, Absent
<1>6. AllAccounted'
  <2>. SUFFICES ASSUME NoBlank, up, restarts = 0, NEW id \in 1..Len(chats)
                PROVE  Accounted(id)'
       BY <1>2 DEF AllAccounted
  <2>1. Accounted(id)
        BY DEF MessageInv, AllAccounted
  <2>2. CASE Waits(id)
    <3>1. Waits(id)'
          BY <1>4, <2>2 DEF Waits, ForgetCall, deleteMessageOfUser
    <3>. QED  BY <3>1 DEF Accounted
  <2>3. ASSUME NEW row \in db.messages, row.id = id, row.receiver = u
        PROVE  Told(id, chats[id].to)
        BY <2>3 DEF MessageInv, RowsAreChats, Forgetting, Kept, getMessageOfUser
  <2>. QED  BY <1>2, <1>3, <2>1, <2>2, <2>3 DEF Accounted, Told
<1>. QED  BY <1>1, <1>2, <1>3, <1>5, <1>6
          DEF MessageInv, Course, RowsAreChats, SeenAreChats,
              SeenInOrder, Increasing, Above, Ordered

\* The process ends: nothing is deleted and nothing is written.
LEMMA DeathDelivers ==
    ASSUME MessageInv, Dies, UNCHANGED <<db, restarts, observed>>
    PROVE  MessageInv'
<1>1. ~up' /\ UNCHANGED <<db, restarts, chats, seen, dropped>>
      BY DEF Dies, observed
<1>. QED  BY <1>1 DEF MessageInv, RowsAreChats, SeenAreChats, SeenInOrder,
                      Increasing, Above, Ordered, AllAccounted

LEMMA ExecuteDelivers ==
    ASSUME TypeOK, DatabaseInv, MessageInv, Execute
    PROVE  MessageInv'
<1>0. CASE Rejected(db, Head(todo).stmt)
      BY <1>0, DeathDelivers DEF Execute
<1>. SUFFICES ASSUME ~Rejected(db, Head(todo).stmt) PROVE MessageInv'
     BY <1>0
<1>1. /\ up /\ todo # <<>> /\ Head(todo).op = "sql"
      /\ todo' = Tail(todo)
      /\ db' = Run(db, Head(todo).stmt)
      /\ UNCHANGED <<up, mapuser, restarts, chats, seen, dropped>>
      BY DEF Execute, Calling, memory, observed
<1>2. CASE AboutMessages(Head(todo))
      BY <1>1, <1>2, CourseSql, StoreDelivers, ForgetDelivers DEF MessageInv
<1>3. CASE ~AboutMessages(Head(todo))
  <2>1. /\ Head(todo).stmt \in Statements
        /\ Head(todo).stmt.op \notin {"saveMessage", "deleteMessageOfUser"}
        BY <1>1, <1>3, TodoTypes, CallKinds DEF AboutMessages, Sqls
  <2>2. db'.messages = db.messages
        BY <1>1, <2>1, MemoryTypes, RunOther
  <2>3. todo' = <<>> \o Tail(todo)
        BY <1>1, TodoTypes, ConcatEmptySeq
  <2>. QED  BY <1>1, <1>3, <2>2, <2>3, NoCallType, SilentNone,
               OtherCallDelivers
<1>. QED  BY <1>2, <1>3

-----------------------------------------------------------------------------
(* The handlers that are not about messages.                               *)

\* A list of calls that are not about messages.
Plain(l) == l \in Seq(Calls) /\ Silent(l)

LEMMA PlainConcat ==
    ASSUME NEW s, Plain(s), NEW t, Plain(t)
    PROVE  Plain(s \o t)
BY SilentConcat DEF Plain

LEMMA PlainNone == Plain(<<>>)
BY NoCallType, SilentNone DEF Plain

LEMMA PlainReply ==
    ASSUME NEW fd \in Fds, NEW type \in AnswerTypes
    PROVE  Plain(Reply(fd, type))
BY ReplyType, SilentReply DEF Plain

LEMMA PlainState ==
    ASSUME NEW u \in Users
    PROVE  /\ Plain(Sql(clearState(u)))
           /\ \A st \in States : Plain(Sql(updateState(u, st)))
BY StatementTypes, SqlType, SilentStatements DEF Plain

LEMMA PlainNotice ==
    ASSUME TypeOK, NEW fd, NEW st
    PROVE  Plain(IF st.type = 2 THEN LeaveNotice(fd, st) ELSE <<>>)
BY LeaveTypes, NoCallType, SilentParts, SilentNone DEF Plain

LEMMA AnswersPlain ==
    ASSUME NEW fd, NEW type, Answers(fd, type)
    PROVE  Silent(todo')
BY SilentReply DEF Answers, Does

LEMMA WithFunctionPlain ==
    ASSUME TypeOK, NEW fd \in Fds, checkfd(fd), NEW v \in Users,
           WithFunction(fd, v)
    PROVE  Silent(todo')
<1>1. CASE v \notin DOMAIN mapuser \/ mapuser[v].fd = fd
      BY <1>1, AnswersPlain DEF WithFunction
<1>2. CASE ~(v \notin DOMAIN mapuser \/ mapuser[v].fd = fd)
  <2>. DEFINE u == findUserByfd(mapuser, fd)
              pk == StatusAnswer("withSuccess", mapuser[v].fd # NoFd)
              query == Sql(updateState(u, WithUser(v)))
              answer == WriteAll({fd}, pk)
  <2>1. u \in Users /\ WithUser(v) \in States
        BY SenderType DEF States
  <2>2. Plain(query)
        BY <2>1, PlainState
  <2>3. pk \in AnswerPackages /\ pk.id = 0
        BY AnswerTypeOK, AnswerIds DEF AnswerTypes
  <2>4. Plain(answer)
        BY <2>3, WriteAllType, SilentWriteAll DEF Plain
  <2>5. todo' = query \o answer
        BY <1>2 DEF WithFunction, Does
  <2>. HIDE DEF query, answer
  <2>. QED  BY <2>2, <2>4, <2>5, PlainConcat DEF Plain
<1>. QED  BY <1>1, <1>2

LEMMA JoinRoomPlain ==
    ASSUME TypeOK, NEW fd \in Fds, checkfd(fd), NEW r \in Rooms,
           JoinRoom(fd, r)
    PROVE  Silent(todo')
<1>1. CASE r \notin DOMAIN roomMap \/ ~CanAdd(roomMap[r], fd)
      BY <1>1, AnswersPlain DEF JoinRoom
<1>2. CASE r \in DOMAIN roomMap /\ CanAdd(roomMap[r], fd)
  <2>. DEFINE u == findUserByfd(mapuser, fd)
              clear == Sql(clearState(u))
              update == Sql(updateState(u, InRoom(r)))
              answer == Reply(fd, "joinSuccess")
  <2>1. u \in Users /\ InRoom(r) \in States
        BY SenderType DEF States
  <2>2. Plain(clear) /\ Plain(update) /\ Plain(answer)
        BY <2>1, PlainState, PlainReply DEF AnswerTypes
  <2>3. todo' = clear \o update \o answer
        BY <1>2 DEF JoinRoom, Does
  <2>. HIDE DEF clear, update, answer
  <2>4. Plain(clear \o update)
        BY <2>2, PlainConcat
  <2>. QED  BY <2>2, <2>3, <2>4, PlainConcat DEF Plain
<1>. QED  BY <1>1, <1>2

LEMMA LeaveChatUserPlain ==
    ASSUME TypeOK, NEW fd \in Fds, checkfd(fd), LeaveChatUser(fd)
    PROVE  Silent(todo')
<1>. DEFINE u == findUserByfd(mapuser, fd)
            st == mapuser[u].state
<1>1. CASE st.name = NoName
      BY <1>1, AnswersPlain DEF LeaveChatUser
<1>2. CASE st.name # NoName
  <2>. DEFINE notice == IF st.type = 2 THEN LeaveNotice(fd, st) ELSE <<>>
              clear == Sql(clearState(u))
              answer == Reply(fd, "successTerminate")
  <2>1. todo' = notice \o clear \o answer
        BY <1>2 DEF LeaveChatUser, Does
  <2>2. Plain(notice) /\ Plain(clear) /\ Plain(answer)
        BY SenderType, PlainNotice, PlainState, PlainReply DEF AnswerTypes
  <2>. HIDE DEF notice, clear, answer
  <2>3. Plain(notice \o clear)
        BY <2>2, PlainConcat
  <2>. QED  BY <2>1, <2>2, <2>3, PlainConcat DEF Plain
<1>. QED  BY <1>1, <1>2

\* The statement of an administrator and the answer.
LEMMA AdminPlain ==
    ASSUME NEW fd \in Fds, NEW s \in Statements, NEW type \in AnswerTypes,
           s.op \notin {"saveMessage", "deleteMessageOfUser"},
           todo' = Sql(s) \o Reply(fd, type)
    PROVE  Silent(todo')
BY SqlType, SilentSql, PlainReply, PlainConcat DEF Plain

LEMMA AccountsPlain ==
    ASSUME TypeOK, NEW fd \in Fds, NEW u \in Users \cup {NoName},
           NEW p \in Passwords \cup {NoName}, NEW role \in Roles \cup {NoRole},
           AddUser(fd, u, p, role) \/ handleModifyUser(fd, u, p, role)
               \/ DeleteUser(fd, u)
    PROVE  Silent(todo')
<1>. DEFINE new == NormalRole(role)
<1>1. CASE \E type : Answers(fd, type)
      BY <1>1, AnswersPlain
<1>2. new \in Roles
      BY NormalRoleType
<1>3. CASE AddUser(fd, u, p, role) /\ ~\E type : Answers(fd, type)
  <2>1. /\ todo' = Sql(insertUser(u, p, new)) \o Reply(fd, "createSuccess")
        /\ u \in Users /\ p \in Passwords
        BY <1>3 DEF AddUser, Does
  <2>2. insertUser(u, p, new) \in Statements
        BY <1>2, <2>1, StatementTypes
  <2>. QED  BY <2>1, <2>2, AdminPlain DEF insertUser, AnswerTypes
<1>4. CASE handleModifyUser(fd, u, p, role) /\ ~\E type : Answers(fd, type)
  <2>1. /\ todo' = Sql(modifyUser(u, p, new)) \o Reply(fd, "modifySuccess")
        /\ u \in Users /\ p \in Passwords
        BY <1>4, MemoryTypes, MapValue DEF handleModifyUser, MayModify, Does
  <2>2. modifyUser(u, p, new) \in Statements
        BY <1>2, <2>1, StatementTypes
  <2>. QED  BY <2>1, <2>2, AdminPlain DEF modifyUser, AnswerTypes
<1>5. CASE DeleteUser(fd, u) /\ ~\E type : Answers(fd, type)
  <2>1. /\ todo' = Sql(deleteUser(u)) \o Reply(fd, "deleteSuccess")
        /\ u \in Users
        BY <1>5, MemoryTypes, MapValue DEF DeleteUser, MayDelete, Does
  <2>2. deleteUser(u) \in Statements
        BY <2>1, StatementTypes
  <2>. QED  BY <2>1, <2>2, AdminPlain DEF deleteUser, AnswerTypes
<1>. QED  BY <1>1, <1>3, <1>4, <1>5

LEMMA RoomsPlain ==
    ASSUME TypeOK, NEW fd \in Fds, NEW r \in Rooms \cup {NoName}, NEW c \in Int,
           addRoom(fd, r, c) \/ ModifyRoom(fd, r, c) \/ DeleteRoom(fd, r)
    PROVE  Silent(todo')
<1>1. CASE \E type : Answers(fd, type)
      BY <1>1, AnswersPlain
<1>2. CASE addRoom(fd, r, c) /\ ~\E type : Answers(fd, type)
  <2>1. PICK id \in ReadBack[r] :
           todo' = Sql(insertRoom(id, c)) \o Reply(fd, "createSuccess")
        BY <1>2 DEF addRoom, Does
  <2>2. id \in Rooms /\ c \in Nat
        BY <1>2, ReadBackAssumption DEF addRoom
  <2>. QED  BY <2>1, <2>2, RoomStatementTypes, AdminPlain DEF insertRoom, AnswerTypes
<1>3. CASE ModifyRoom(fd, r, c) /\ ~\E type : Answers(fd, type)
  <2>1. /\ todo' = Sql(modifyRoom(r, c)) \o Reply(fd, "modifySuccess")
        /\ r \in Rooms /\ c \in Nat
        BY <1>3, MemoryTypes, MapValue DEF ModifyRoom, MayModifyRoom, Does
  <2>. QED  BY <2>1, RoomStatementTypes, AdminPlain DEF modifyRoom, AnswerTypes
<1>4. CASE DeleteRoom(fd, r) /\ ~\E type : Answers(fd, type)
  <2>. DEFINE id == roomMap[r].roomID
  <2>1. /\ todo' = Sql(deleteRoom(id)) \o Reply(fd, "deleteSuccess")
        /\ r \in DOMAIN roomMap
        BY <1>4 DEF DeleteRoom, MayDeleteRoom, Does
  <2>2. roomMap[r] \in RoomRecords
        BY <2>1, MemoryTypes, MapValue
  <2>3. id \in Rooms
        BY <2>2 DEF RoomRecords
  <2>. HIDE DEF id
  <2>4. deleteRoom(id) \in Statements
        BY <2>3, RoomStatementTypes, 0 \in Nat
  <2>. QED  BY <2>1, <2>4, AdminPlain DEF deleteRoom, AnswerTypes
<1>. QED  BY <1>1, <1>2, <1>3, <1>4

LEMMA DisconnectPlain ==
    ASSUME TypeOK, NEW fd \in Fds, Disconnect(fd)
    PROVE  Silent(todo')
<1>. DEFINE close == <<[op |-> "close", fd |-> fd]>>
<1>1. Plain(close)
  <2>1. ~AboutMessages([op |-> "close", fd |-> fd])
        BY DEF AboutMessages
  <2>. QED  BY <2>1, CloseType, SilentOne DEF Plain
<1>2. CASE ~checkfd(fd)
      BY <1>1, <1>2 DEF Disconnect, Plain
<1>3. CASE checkfd(fd)
  <2>. DEFINE u == findUserByfd(mapuser, fd)
              st == mapuser[u].state
              told == notificationOffline(mapuser, fd, FALSE)
              notice == IF st.type = 2 THEN LeaveNotice(fd, st) ELSE <<>>
              clear == Sql(clearState(u))
  <2>1. todo' = told \o notice \o clear \o close
        BY <1>3 DEF Disconnect
  <2>2. Plain(told)
        BY MemoryTypes, NotificationType, SilentParts DEF Plain
  <2>3. Plain(notice) /\ Plain(clear)
        BY <1>3, SenderType, PlainNotice, PlainState
  <2>. HIDE DEF told, notice, clear, close
  <2>4. Plain(told \o notice)
        BY <2>2, <2>3, PlainConcat
  <2>5. Plain(told \o notice \o clear)
        BY <2>3, <2>4, PlainConcat
  <2>. QED  BY <1>1, <2>1, <2>5, PlainConcat DEF Plain
<1>. QED  BY <1>2, <1>3

-----------------------------------------------------------------------------
(* The handlers.                                                           *)

\* Nobody goes online.
NobodyMoves ==
    \A u \in DOMAIN mapuser' :
        mapuser'[u].fd # NoFd =>
            u \in DOMAIN mapuser /\ mapuser'[u].fd = mapuser[u].fd

\* Nobody does who has stored messages.
NoMailWaits ==
    \A u \in DOMAIN mapuser' :
        \/ mapuser'[u].fd = NoFd
        \/ u \in DOMAIN mapuser /\ mapuser[u].fd # NoFd
        \/ Kept(u) = {}

LEMMA IdleServesNobody ==
    ASSUME todo = <<>>
    PROVE  /\ \A u : ~Served(u)
           /\ \A id : ~Waits(id)
BY CallsInNone DEF Served, Waits

\* No handler is running: stored messages are for users who are offline.
LEMMA RowsOfIdle ==
    ASSUME MessageInv, up, todo = <<>>, NEW row \in db.messages
    PROVE  /\ Ordered => Above(row.receiver, row.id)
           /\ Fetched => Absent(row.receiver)
BY IdleServesNobody DEF MessageInv, RowsWait

\* A handler that is not about messages.
LEMMA CalmDelivers ==
    ASSUME TypeOK, MessageInv, up, todo = <<>>,
           UNCHANGED <<up, db, restarts, chats, seen, dropped>>,
           Silent(todo'), Fetched => NoMailWaits
    PROVE  MessageInv'
<1>1. Course'
      BY DEF Course
<1>2. RowsWait'
  <2>. SUFFICES ASSUME NEW row \in db.messages
                PROVE  /\ Ordered => Above(row.receiver, row.id)
                       /\ Fetched => Absent(row.receiver)'
       BY DEF RowsWait, Ordered, Fetched, Above
  <2>1. row \in Kept(row.receiver)
        BY DEF Kept, getMessageOfUser
  <2>. QED  BY <2>1, RowsOfIdle DEF NoMailWaits, Absent
<1>3. AllAccounted'
      BY IdleServesNobody DEF MessageInv, AllAccounted, Accounted, Told
<1>. QED  BY <1>1, <1>2, <1>3
          DEF MessageInv, RowsAreChats, SeenAreChats, SeenInOrder, Increasing,
              Above, Ordered

\* The map of accounts after each handler but Login.
LEMMA NobodyMovesIn ==
    ASSUME TypeOK, NEW u
    PROVE  /\ UNCHANGED mapuser => NobodyMoves
           /\ \A st : mapuser' = SetState(mapuser, u, st) => NobodyMoves
           /\ \A st : mapuser' = [mapuser EXCEPT ![u].state = st, ![u].fd = NoFd]
                 => NobodyMoves
           /\ \A p, role :
                 mapuser' = [mapuser EXCEPT ![u].password = p, ![u].role = role]
                 => NobodyMoves
           /\ mapuser' = Erase(mapuser, u) => NobodyMoves
           /\ \A account : mapuser' = Put(mapuser, u, account)
                           /\ account.fd = NoFd => NobodyMoves
<1>1. \A x \in DOMAIN mapuser : mapuser[x] \in Accounts
      BY MemoryTypes DEF IsMap
<1>2. UNCHANGED mapuser => NobodyMoves
      BY DEF NobodyMoves
<1>3. \A st : mapuser' = SetState(mapuser, u, st) => NobodyMoves
      BY <1>1 DEF NobodyMoves, SetState, Accounts
<1>4. \A st : mapuser' = [mapuser EXCEPT ![u].state = st, ![u].fd = NoFd]
                 => NobodyMoves
      BY <1>1 DEF NobodyMoves, Accounts
<1>5. \A p, role :
         mapuser' = [mapuser EXCEPT ![u].password = p, ![u].role = role]
         => NobodyMoves
      BY <1>1 DEF NobodyMoves, Accounts
<1>6. mapuser' = Erase(mapuser, u) => NobodyMoves
      BY EraseValues DEF NobodyMoves, Erase, Restrict
<1>7. \A account : mapuser' = Put(mapuser, u, account) /\ account.fd = NoFd
                      => NobodyMoves
      BY DEF NobodyMoves, Put
<1>. QED  BY <1>2, <1>3, <1>4, <1>5, <1>6, <1>7

LEMMA HandlersMoveNobody ==
    ASSUME TypeOK, NEW fd,
           \/ \E type : Answers(fd, type)
           \/ \E v : WithFunction(fd, v)
           \/ \E r : JoinRoom(fd, r)
           \/ \E mess : OneToOneChat(fd, mess)
           \/ LeaveChatUser(fd)
           \/ \E r, c : addRoom(fd, r, c)
           \/ \E r, c : ModifyRoom(fd, r, c)
           \/ \E r : DeleteRoom(fd, r)
           \/ \E u, p, role : AddUser(fd, u, p, role)
           \/ \E u : DeleteUser(fd, u)
           \/ \E u, p, role : handleModifyUser(fd, u, p, role)
           \/ Disconnect(fd)
    PROVE  NobodyMoves
<1>1. \/ UNCHANGED mapuser
      \/ \E u, st : mapuser' = SetState(mapuser, u, st)
      \/ \E u, st : mapuser' = [mapuser EXCEPT ![u].state = st, ![u].fd = NoFd]
      \/ \E u, p, role :
            mapuser' = [mapuser EXCEPT ![u].password = p, ![u].role = role]
      \/ \E u : mapuser' = Erase(mapuser, u)
      \/ \E u, p, role :
            mapuser' = Put(mapuser, u, [password |-> p, role |-> role,
                                        state |-> Idle, fd |-> NoFd])
      BY DEF Answers, WithFunction, JoinRoom, OneToOneChat, LeaveChatUser,
             addRoom, ModifyRoom, DeleteRoom, AddUser, DeleteUser,
             handleModifyUser, Disconnect, changeStateUserOff, memory
<1>2. ASSUME NEW u, NEW p, NEW role,
             mapuser' = Put(mapuser, u, [password |-> p, role |-> role,
                                         state |-> Idle, fd |-> NoFd])
      PROVE  NobodyMoves
  <2>. DEFINE account == [password |-> p, role |-> role,
                          state |-> Idle, fd |-> NoFd]
  <2>1. account.fd = NoFd /\ mapuser' = Put(mapuser, u, account)
        BY <1>2
  <2>. HIDE DEF account
  <2>. QED  BY <2>1, NobodyMovesIn
<1>3. ASSUME NEW u, NEW st, mapuser' = SetState(mapuser, u, st)
      PROVE  NobodyMoves
      BY <1>3, NobodyMovesIn
<1>4. ASSUME NEW u, NEW st,
             mapuser' = [mapuser EXCEPT ![u].state = st, ![u].fd = NoFd]
      PROVE  NobodyMoves
      BY <1>4, NobodyMovesIn
<1>5. ASSUME NEW u, NEW p, NEW role,
             mapuser' = [mapuser EXCEPT ![u].password = p, ![u].role = role]
      PROVE  NobodyMoves
      BY <1>5, NobodyMovesIn
<1>6. ASSUME NEW u, UNCHANGED mapuser \/ mapuser' = Erase(mapuser, u)
      PROVE  NobodyMoves
      BY <1>6, NobodyMovesIn
<1>. QED  BY <1>1, <1>2, <1>3, <1>4, <1>5, <1>6

LEMMA MovesSettle ==
    ASSUME NobodyMoves
    PROVE  NoMailWaits
BY DEF NobodyMoves, NoMailWaits

\* The list of calls of a Login that finds stored messages.
LEMMA LoginLeads ==
    ASSUME NEW told, Plain(told), NEW partners, Plain(partners),
           NEW fd \in Fds, NEW v \in Users, NEW l,
           l = told \o (<<[op |-> "replay", fd |-> fd, user |-> v, after |-> 0]>>
                        \o Sql(deleteMessageOfUser(v))) \o partners
    PROVE  Leads(l, v, 0)
<1>. DEFINE replay == [op |-> "replay", fd |-> fd, user |-> v, after |-> 0]
            s == <<replay>>
            forget == <<ForgetCall(v)>>
            rest == s \o (forget \o partners)
<1>1. s \in Seq(Calls) /\ partners \in Seq(Calls) /\ told \in Seq(Calls)
      BY ReplayType, 0 \in Nat DEF Plain
<1>2. forget \in Seq(Calls) /\ Sql(deleteMessageOfUser(v)) = forget
      BY StatementTypes, SqlType DEF Sql, ForgetCall
<1>3. forget \o partners \in Seq(Calls)
      BY <1>1, <1>2, TwoListsType
<1>4. /\ forget \o partners # <<>>
      /\ Head(forget \o partners) = ForgetCall(v)
      /\ Tail(forget \o partners) = partners
      BY <1>1, <1>2
<1>5. Forgets(forget \o partners, v)
      BY <1>4 DEF Forgets, Plain
<1>. HIDE DEF forget
<1>6. /\ rest \in Seq(Calls) /\ rest # <<>>
      /\ Head(rest) = replay /\ Tail(rest) = forget \o partners
  <2>. DEFINE t == forget \o partners
  <2>1. t \in Seq(Calls)
        BY <1>3
  <2>2. replay \in Calls
        BY <1>1
  <2>. HIDE DEF t, replay
  <2>3. /\ <<replay>> \o t \in Seq(Calls) /\ <<replay>> \o t # <<>>
        /\ Head(<<replay>> \o t) = replay /\ Tail(<<replay>> \o t) = t
        BY <2>1, <2>2
  <2>. QED  BY <2>3 DEF t
<1>7. Loops(rest, v, 0)
  <2>1. replay.op = "replay" /\ replay.user = v /\ replay.after = 0
        OBVIOUS
  <2>. QED  BY <1>5, <1>6, <2>1 DEF Loops
<1>8. l = told \o rest
  <2>. HIDE DEF s
  <2>1. s \o forget \in Seq(Calls)
        BY <1>1, <1>2, TwoListsType
  <2>2. l = (told \o (s \o forget)) \o partners
        BY <1>2 DEF s
  <2>3. l = told \o ((s \o forget) \o partners)
        BY <1>1, <2>1, <2>2, ListsAssociate
  <2>4. (s \o forget) \o partners = s \o (forget \o partners)
        BY <1>1, <1>2, ListsAssociate
  <2>. QED  BY <2>3, <2>4
<1>. QED  BY <1>1, <1>6, <1>7, <1>8 DEF Leads, Plain

\* What a Login that is accepted does: v is the user whose stored messages are
\* looked up.
Looked(fd, u, v) ==
    /\ v \in Users /\ v \in DOMAIN mapuser /\ mapuser'[v].fd = fd
    /\ \/ Silent(todo') /\ (Returns(u) \/ Kept(v) = {})
       \/ Leads(todo', v, 0)

LEMMA LoginLooks ==
    ASSUME TypeOK, NEW fd \in Fds, NEW u, NEW p, LoginAccepted(u, p),
           Login(fd, u, p)
    PROVE  /\ UNCHANGED <<up, db, restarts, chats, seen, dropped>>
           /\ u \in DOMAIN mapuser /\ mapuser[u].fd = NoFd
           /\ mapuser[u] \in Accounts
           /\ DOMAIN mapuser' = DOMAIN mapuser /\ mapuser'[u].fd = fd
           /\ \A x \in DOMAIN mapuser : x # u => mapuser'[x].fd = mapuser[x].fd
           /\ \E v : Looked(fd, u, v)
<1>. DEFINE m == [mapuser EXCEPT ![u].fd = fd]
            v == findUserByfd(m, fd)
            told == WriteAll({fd}, LoginAnswer(u, p, mapuser[u].role))
            stored == handleOfflineMessage(m, fd)
            partners == notificationOffline(m, fd, TRUE)
<1>1. u \in DOMAIN mapuser /\ u \in Users /\ mapuser[u] \in Accounts
      BY MemoryTypes, MapValue DEF LoginAccepted
<1>2. p \in Passwords /\ mapuser[u].role \in Roles /\ mapuser[u].fd = NoFd
      BY <1>1 DEF LoginAccepted, Accounts
<1>3. /\ IsMap(m, Users, Accounts) /\ DOMAIN m = DOMAIN mapuser
      /\ m[u].fd = fd
      /\ \A x \in DOMAIN mapuser : x # u => m[x].fd = mapuser[x].fd
  <2>1. IsMap(m, Users, Accounts)
        BY MemoryTypes, AccountUpdate
  <2>2. DOMAIN m = DOMAIN mapuser /\ m[u].fd = fd
        BY <1>1, MemoryTypes DEF IsMap, Accounts
  <2>3. \A x \in DOMAIN mapuser : x # u => m[x].fd = mapuser[x].fd
        BY MemoryTypes DEF IsMap
  <2>. QED  BY <2>1, <2>2, <2>3
<1>4. On(m, fd) # {}
      BY <1>1, <1>3 DEF On
<1>5. v \in Users /\ v \in DOMAIN m /\ m[v].fd = fd
      BY <1>3, <1>4, FindUser_Is
<1>6. mapuser' = m
      BY DEF Login
<1>7. Plain(told)
  <2>. DEFINE pk == LoginAnswer(u, p, mapuser[u].role)
  <2>1. pk \in AnswerPackages /\ pk.id = 0
        BY <1>1, <1>2, LoginAnswerType, AnswerIds
  <2>. HIDE DEF pk
  <2>2. Plain(WriteAll({fd}, pk))
        BY <2>1, WriteAllType, SilentWriteAll DEF Plain
  <2>. QED  BY <2>2 DEF pk
<1>8. Plain(partners)
      BY <1>3, NotificationType, SilentParts DEF Plain
<1>9. UNCHANGED <<up, db, restarts, chats, seen, dropped>>
      BY DEF Login, Does
<1>. HIDE DEF m, v, told, partners
<1>10. \/ Returns(u) /\ todo' = <<>>
       \/ todo' = told \o stored \o partners
       BY DEF Login, Does, m, told, partners
<1>11. stored = IF Kept(v) = {} THEN <<>>
                ELSE <<[op |-> "replay", fd |-> fd, user |-> v, after |-> 0]>>
                     \o Sql(deleteMessageOfUser(v))
       BY DEF handleOfflineMessage, Kept, v
<1>. HIDE DEF stored
<1>12. Looked(fd, u, v)
  <2>1. CASE Returns(u) /\ todo' = <<>>
        BY <1>3, <1>5, <1>6, <2>1, SilentNone DEF Looked
  <2>2. CASE todo' = told \o stored \o partners /\ Kept(v) = {}
    <3>1. Plain(told \o stored)
          BY <1>7, <1>11, <2>2, PlainNone, PlainConcat
    <3>2. Silent(todo')
          BY <1>8, <2>2, <3>1, PlainConcat DEF Plain
    <3>. QED  BY <1>3, <1>5, <1>6, <2>2, <3>2 DEF Looked
  <2>3. CASE todo' = told \o stored \o partners /\ Kept(v) # {}
    <3>1. todo' = told
              \o (<<[op |-> "replay", fd |-> fd, user |-> v, after |-> 0]>>
                  \o Sql(deleteMessageOfUser(v))) \o partners
          BY <1>11, <2>3
    <3>2. Leads(todo', v, 0)
          BY <1>5, <1>7, <1>8, <3>1, LoginLeads
    <3>. QED  BY <1>3, <1>5, <1>6, <3>2 DEF Looked
  <2>. QED  BY <1>10, <2>1, <2>2, <2>3
<1>. QED  BY <1>1, <1>2, <1>3, <1>6, <1>9, <1>12

\* Login: the connection is nobody else's, so the user whose stored messages
\* are written is the one that goes online.
LEMMA LoginDelivers ==
    ASSUME TypeOK, SeatedInv, MessageInv, up, todo = <<>>, NEW fd \in Fds,
           NEW u, NEW p, LoginOnce => ~checkfd(fd), Login(fd, u, p)
    PROVE  MessageInv'
<1>1. CASE ~LoginAccepted(u, p)
  <2>1. /\ Silent(todo') /\ NoMailWaits
        /\ UNCHANGED <<up, db, restarts, chats, seen, dropped>>
        BY <1>1, AnswersPlain, HandlersMoveNobody, MovesSettle
        DEF Login, Answers, Does
  <2>. QED  BY <2>1, CalmDelivers
<1>2. CASE LoginAccepted(u, p)
  <2>1. /\ UNCHANGED <<up, db, restarts, chats, seen, dropped>>
        /\ u \in DOMAIN mapuser /\ mapuser[u].fd = NoFd
        /\ mapuser[u] \in Accounts
        /\ DOMAIN mapuser' = DOMAIN mapuser /\ mapuser'[u].fd = fd
        /\ \A x \in DOMAIN mapuser : x # u => mapuser'[x].fd = mapuser[x].fd
        BY <1>2, LoginLooks
  <2>2. PICK v : Looked(fd, u, v)
        BY <1>2, LoginLooks
  <2>3. Fetched => v = u
    <3>. SUFFICES ASSUME Fetched, v # u PROVE FALSE
         OBVIOUS
    <3>1. v \in On(mapuser, fd)
          BY <2>1, <2>2 DEF On, Looked
    <3>. QED  BY <3>1 DEF checkfd, Fetched
  <2>4. Fetched => ~Returns(u)
    <3>1. restarts = 0 => ~Returns(u)
          BY <2>1, OfflineStands DEF SeatedInv, Returns, Sits
    <3>2. Rooms = {} => ~Returns(u)
          BY DEF Returns, TypeOK, IsMap
    <3>. QED  BY <3>1, <3>2 DEF Fetched
  <2>5. CASE Silent(todo') /\ (Returns(u) \/ Kept(v) = {})
    <3>1. Fetched => NoMailWaits
          BY <2>1, <2>3, <2>4, <2>5 DEF NoMailWaits
    <3>. QED  BY <2>1, <2>5, <3>1, CalmDelivers
  <2>6. CASE Leads(todo', v, 0)
    <3>1. v \in Users
          BY <2>2 DEF Looked
    <3>2. \A row \in Kept(v) : row \in db.messages /\ row.id \in 1..Len(chats)
          BY DEF Kept, getMessageOfUser, MessageInv, RowsAreChats
    <3>3. ToldBefore(v, 0 + 1)'
          BY <2>1, <3>2 DEF ToldBefore, Kept, Told
    <3>4. Ordered => \A row \in Kept(v) : row.id > 0 => Above(v, row.id)
          BY <3>2, RowsOfIdle DEF Kept, getMessageOfUser
    <3>5. Looping(v, 0)'
          BY <2>1, <2>6, <3>3, <3>4 DEF Looping, Kept, Above, Ordered
    <3>6. Course'
          BY <3>1, <3>5, 0 \in Nat DEF Course
    <3>7. Served(v)'
      <4>1. todo' \in Seq(Calls)
            BY <1>2, LoginType DEF TypeOK
      <4>. QED  BY <2>6, <4>1, ForgetsServes DEF Served
    <3>8. RowsWait'
      <4>. SUFFICES ASSUME NEW row \in db.messages, row.receiver # v
                    PROVE  /\ Ordered => Above(row.receiver, row.id)
                           /\ Fetched => Absent(row.receiver)'
           BY <2>1, <3>7 DEF RowsWait, Ordered, Fetched, Above, Served
      <4>. QED  BY <2>1, <2>3, RowsOfIdle DEF Absent
    <3>9. AllAccounted'
          BY <2>1, IdleServesNobody
          DEF MessageInv, AllAccounted, Accounted, Told
    <3>. QED  BY <2>1, <3>6, <3>8, <3>9
              DEF MessageInv, RowsAreChats, SeenAreChats, SeenInOrder,
                  Increasing, Above, Ordered
  <2>. QED  BY <2>2, <2>5, <2>6 DEF Looked
<1>. QED  BY <1>1, <1>2

\* A message is accepted: it is the newest, and either its receiver is offline
\* and it is stored, or there is none stored for the receiver and it is written.
LEMMA AcceptDelivers ==
    ASSUME TypeOK, MessageInv, up, todo = <<>>,
           UNCHANGED <<up, mapuser, db, restarts, seen, dropped>>,
           NEW from \in Users, NEW v \in DOMAIN mapuser, NEW mess \in Texts,
           NEW id, id = Len(chats) + 1,
           chats' = Append(chats, [from |-> from, to |-> v, mess |-> mess]),
           todo' = Deliver(from, v, mess, id)
    PROVE  MessageInv'
<1>. DEFINE row == [id |-> id, sender |-> from, receiver |-> v, mess |-> mess]
            pk == ChatAnswer(id)
            fd == mapuser[v].fd
<1>1. v \in Users /\ mapuser[v] \in Accounts
      BY MemoryTypes, MapValue
<1>2. chats \in Seq(Chats) /\ Len(chats) \in Nat /\ id \in Nat
      BY MemoryTypes
<1>3. /\ Len(chats') = id /\ id \in 1..Len(chats') /\ chats'[id].to = v
      /\ \A x \in 1..Len(chats) : x \in 1..Len(chats') /\ chats'[x] = chats[x]
      /\ \A x \in 1..Len(chats') : x = id \/ x \in 1..Len(chats)
  <2>. DEFINE chat == [from |-> from, to |-> v, mess |-> mess]
  <2>1. chat.to = v /\ chat \in Chats
        BY <1>1 DEF Chats
  <2>. HIDE DEF chat
  <2>2. /\ Len(Append(chats, chat)) = Len(chats) + 1
        /\ Append(chats, chat)[Len(chats) + 1] = chat
        /\ \A x \in 1..Len(chats) : Append(chats, chat)[x] = chats[x]
        BY <1>2, <2>1
  <2>3. chats' = Append(chats, chat)
        BY DEF chat
  <2>. QED  BY <1>2, <2>1, <2>2, <2>3
<1>4. Ordered => \A u \in Users : Above(u, id) /\ Above(u, id + 1)
  <2>1. ASSUME NEW u \in Users, Above(u, id)
        PROVE  Above(u, id + 1)
    <3>1. seen[u] \in Seq(Nat)
          BY DEF TypeOK
    <3>2. \A i \in 1..Len(seen[u]) : seen[u][i] \in Nat
          BY <3>1
    <3>. QED  BY <1>2, <2>1, <3>2 DEF Above
  <2>. QED  BY <2>1 DEF MessageInv, SeenAreChats
<1>5. ASSUME fd = NoFd
      PROVE  Course' /\ Waits(id)'
  <2>1. todo' = <<SaveCall(row)>>
        BY <1>5 DEF Deliver, Sql, SaveCall
  <2>2. row \in MessageRows /\ row.id = id /\ row.receiver = v
        BY <1>1, <1>2 DEF MessageRows
  <2>. HIDE DEF row
  <2>3. Stores(todo', row)
        BY <2>1, OnlyCall, SilentNone DEF Stores
  <2>4. Storing(row)'
        BY <1>1, <1>3, <1>4, <1>5, <2>2, <2>3 DEF Storing, Above, Ordered
  <2>5. Course'
        BY <2>2, <2>4 DEF Course
  <2>6. Waits(id)'
    <3>1. SaveCall(row) \in CallsIn(todo')
          BY <2>1, CallsInOne
    <3>2. /\ SaveCall(row).op = "sql"
          /\ SaveCall(row).stmt.op = "saveMessage"
          /\ SaveCall(row).stmt.row.id = id
          BY <2>2 DEF SaveCall, saveMessage
    <3>. QED  BY <3>1, <3>2 DEF Waits
  <2>. QED  BY <2>5, <2>6
<1>6. ASSUME fd # NoFd
      PROVE  Course' /\ Waits(id)'
  <2>. DEFINE write == [op |-> "write", fds |-> {fd}, pk |-> pk]
  <2>1. todo' = <<write>>
        BY <1>6 DEF Deliver, WriteAll
  <2>2. write.op = "write" /\ write.pk.id = id /\ write.fds = {fd} /\ fd \in Fds
        BY <1>1, <1>6, AnswerIds DEF Accounts
  <2>. HIDE DEF write, fd, pk
  <2>3. Hands(todo', id) /\ Silent(Tail(todo'))
        BY <2>1, <2>2, OnlyCall, SilentNone DEF Hands
  <2>4. Fetched => Kept(v) = {}
        BY <1>6, RowsOfIdle DEF Kept, getMessageOfUser, Absent, fd
  <2>5. Handing(id)'
        BY <1>1, <1>3, <1>4, <2>3, <2>4
        DEF Handing, Above, Ordered, Fetched, Kept, getMessageOfUser
  <2>6. Course'
        BY <1>2, <2>5 DEF Course
  <2>7. Waits(id)'
    <3>1. write \in CallsIn(todo')
          BY <2>1, CallsInOne
    <3>. QED  BY <2>2, <3>1 DEF Waits
  <2>. QED  BY <2>6, <2>7
<1>7. Course' /\ Waits(id)'
      BY <1>5, <1>6
<1>8. RowsAreChats'
      BY <1>3 DEF MessageInv, RowsAreChats
<1>9. RowsWait'
      BY RowsOfIdle DEF RowsWait, Above, Ordered, Fetched, Absent
<1>10. SeenAreChats' /\ SeenInOrder'
       BY <1>2, <1>3, <1>4
       DEF MessageInv, SeenAreChats, SeenInOrder, Increasing, Above, Ordered
<1>11. AllAccounted'
  <2>1. ASSUME NoBlank, up, restarts = 0, NEW x \in 1..Len(chats)
        PROVE  Accounted(x)'
        BY <1>3, <2>1, IdleServesNobody
        DEF MessageInv, AllAccounted, Accounted, Told
  <2>. QED  BY <1>3, <1>7, <2>1 DEF AllAccounted, Accounted
<1>. QED  BY <1>7, <1>8, <1>9, <1>10, <1>11 DEF MessageInv

LEMMA OneToOneChatDelivers ==
    ASSUME TypeOK, MessageInv, up, todo = <<>>, NEW fd \in Fds, checkfd(fd),
           NEW mess \in Texts, OneToOneChat(fd, mess)
    PROVE  MessageInv'
<1>. DEFINE u == LastUserByfd(mapuser, fd)
            st == mapuser[u].state
<1>1. UNCHANGED <<up, mapuser, db, restarts, seen, dropped>>
      BY DEF OneToOneChat, Does, memory
<1>2. CASE st.type = 1 /\ st.name \in DOMAIN mapuser
  <2>1. PICK from, v, id : from = u /\ v = st.name /\ id = Len(chats) + 1
        OBVIOUS
  <2>2. from \in Users
        BY <2>1, MemoryTypes, LastUser_Is DEF checkfd
  <2>3. /\ chats' = Append(chats, [from |-> from, to |-> v, mess |-> mess])
        /\ todo' = Deliver(from, v, mess, id)
        BY <1>2, <2>1 DEF OneToOneChat, Does
  <2>. QED  BY <1>1, <1>2, <2>1, <2>2, <2>3, AcceptDelivers
<1>3. CASE ~(st.type = 1 /\ st.name \in DOMAIN mapuser)
  <2>1. /\ todo' = IF st.type = 2 THEN RoomChat(st.name) ELSE <<>>
        /\ UNCHANGED chats
        BY <1>3 DEF OneToOneChat, Does
  <2>2. Silent(todo')
        BY <2>1, SilentParts, SilentNone
  <2>3. NoMailWaits
        BY HandlersMoveNobody, MovesSettle
  <2>. QED  BY <1>1, <2>1, <2>2, <2>3, CalmDelivers
<1>. QED  BY <1>2, <1>3

\* All handlers but Login and OneToOneChat are not about messages.
Calm ==
    /\ NobodyMoves
    /\ Silent(todo')
    /\ UNCHANGED <<up, db, restarts, chats, seen, dropped>>

HandledAs(fd, p) ==
    \/ p.type = "loginn" /\ Login(fd, p.user, p.password)
    \/ checkfd(fd) /\ p.type = "sendMess" /\ OneToOneChat(fd, p.mess)
    \/ Calm

LEMMA ReceiveKinds ==
    ASSUME TypeOK, NEW fd \in Fds, NEW p \in Packages, Receive(fd, p)
    PROVE  HandledAs(fd, p)
<1>1. analyzePackage(fd, p)
      BY DEF Receive
<1>2. CASE p.type = "loginn" /\ Login(fd, p.user, p.password)
      BY <1>2 DEF HandledAs
<1>3. CASE checkfd(fd) /\ p.type = "sendMess" /\ OneToOneChat(fd, p.mess)
      BY <1>3 DEF HandledAs
<1>4. ASSUME NobodyMoves, Silent(todo'),
             UNCHANGED <<up, db, restarts, chats, seen, dropped>>
      PROVE  HandledAs(fd, p)
      BY <1>4 DEF HandledAs, Calm
<1>5. CASE \E type : Answers(fd, type)
      BY <1>4, <1>5, AnswersPlain, HandlersMoveNobody DEF Answers, Does
<1>6. CASE checkfd(fd) /\ p.type = "withh" /\ WithFunction(fd, p.user)
  <2>1. p.user \in Users
        BY <1>6 DEF Packages
  <2>2. Silent(todo') /\ NobodyMoves
        BY <1>6, <2>1, WithFunctionPlain, HandlersMoveNobody
  <2>. QED  BY <1>4, <1>6, <2>2 DEF WithFunction, Answers, Does
<1>7. CASE checkfd(fd) /\ p.type = "joinn" /\ JoinRoom(fd, p.room)
  <2>1. p.room \in Rooms
        BY <1>7 DEF Packages
  <2>2. Silent(todo') /\ NobodyMoves
        BY <1>7, <2>1, JoinRoomPlain, HandlersMoveNobody
  <2>. QED  BY <1>4, <1>7, <2>2 DEF JoinRoom, Answers, Does
<1>8. CASE checkfd(fd) /\ LeaveChatUser(fd)
  <2>1. Silent(todo') /\ NobodyMoves
        BY <1>8, LeaveChatUserPlain, HandlersMoveNobody
  <2>. QED  BY <1>4, <1>8, <2>1 DEF LeaveChatUser, Answers, Does
<1>9. CASE \/ p.type = "createUser" /\ AddUser(fd, p.user, p.password, p.role)
           \/ /\ p.type = "modifyUser"
              /\ handleModifyUser(fd, p.user, p.password, p.role)
  <2>1. /\ p.user \in Users \cup {NoName}
        /\ p.password \in Passwords \cup {NoName}
        /\ p.role \in Roles \cup {NoRole}
        BY <1>9 DEF Packages
  <2>2. Silent(todo')
        BY <1>9, <2>1, AccountsPlain
  <2>3. NobodyMoves
        BY <1>9, HandlersMoveNobody
  <2>. QED  BY <1>4, <1>9, <2>2, <2>3 DEF AddUser, handleModifyUser, Answers, Does
<1>10. CASE p.type = "deleteUser" /\ DeleteUser(fd, p.user)
  <2>1. p.user \in Users
        BY <1>10 DEF Packages
  <2>2. Silent(todo')
    <3>1. CASE \E type : Answers(fd, type)
          BY <3>1, AnswersPlain
    <3>2. CASE ~\E type : Answers(fd, type)
      <4>1. todo' = Sql(deleteUser(p.user)) \o Reply(fd, "deleteSuccess")
            BY <1>10, <3>2 DEF DeleteUser, Does
      <4>. QED  BY <2>1, <4>1, StatementTypes, AdminPlain
                DEF deleteUser, AnswerTypes
    <3>. QED  BY <3>1, <3>2
  <2>3. NobodyMoves
        BY <1>10, HandlersMoveNobody
  <2>. QED  BY <1>4, <1>10, <2>2, <2>3 DEF DeleteUser, Answers, Does
<1>11. CASE \/ p.type = "createRoom" /\ addRoom(fd, p.room, p.capacity)
            \/ p.type = "modifyRoom" /\ ModifyRoom(fd, p.room, p.capacity)
            \/ p.type = "deleteRoom" /\ DeleteRoom(fd, p.room)
  <2>1. p.room \in Rooms \cup {NoName}
        BY <1>11 DEF Packages
  <2>2. p.type # "deleteRoom" => p.capacity \in Int
        BY <1>11, CapacitiesAssumption DEF Packages
  <2>3. Silent(todo')
        BY <1>11, <2>1, <2>2, RoomsPlain, 0 \in Int
  <2>4. NobodyMoves
        BY <1>11, HandlersMoveNobody
  <2>. QED  BY <1>4, <1>11, <2>3, <2>4
            DEF addRoom, ModifyRoom, DeleteRoom, Answers, Does
<1>. QED  BY <1>1, <1>2, <1>3, <1>5, <1>6, <1>7, <1>8, <1>9, <1>10, <1>11
          DEF analyzePackage, Refuse, ShowRoom, getListRoles, getUserOnline,
              FindUser

LEMMA ReceiveDelivers ==
    ASSUME TypeOK, SeatedInv, MessageInv, NEW fd \in Fds, NEW p \in Packages,
           Receive(fd, p)
    PROVE  MessageInv'
<1>1. /\ up /\ todo = <<>>
      /\ LoginOnce /\ p.type = "loginn" => ~checkfd(fd)
      BY DEF Receive, Reads, Visits
<1>2. CASE p.type = "loginn" /\ Login(fd, p.user, p.password)
      BY <1>1, <1>2, LoginDelivers
<1>3. CASE checkfd(fd) /\ p.type = "sendMess" /\ OneToOneChat(fd, p.mess)
  <2>1. p.mess \in Texts
        BY <1>3 DEF Packages
  <2>. QED  BY <1>1, <1>3, <2>1, OneToOneChatDelivers
<1>4. CASE Calm
      BY <1>1, <1>4, MovesSettle, CalmDelivers DEF Calm
<1>. QED  BY <1>2, <1>3, <1>4, ReceiveKinds DEF HandledAs

LEMMA DisconnectDelivers ==
    ASSUME TypeOK, MessageInv, NEW fd \in Fds, Disconnect(fd)
    PROVE  MessageInv'
<1>1. /\ up /\ todo = <<>>
      /\ UNCHANGED <<up, db, restarts, chats, seen, dropped>>
      BY DEF Disconnect, Visits, observed
<1>2. NoMailWaits
      BY HandlersMoveNobody, MovesSettle
<1>. QED  BY <1>1, <1>2, DisconnectPlain, CalmDelivers

-----------------------------------------------------------------------------
(* The theorems.                                                           *)

LEMMA InitDelivers == Init => MessageInv
<1>. SUFFICES ASSUME Init PROVE MessageInv
     OBVIOUS
<1>1. todo = <<>> /\ chats = <<>> /\ db.messages = {} /\ Len(chats) = 0
      BY InitDbAssumption DEF Init
<1>2. \A u \in Users : Len(seen[u]) = 0
      BY DEF Init
<1>. QED  BY <1>1, <1>2, SilentNone
          DEF MessageInv, RowsAreChats, Course, RowsWait, SeenAreChats,
              SeenInOrder, Increasing, Above, AllAccounted

\* Nothing the invariant speaks of has changed.
LEMMA SameDelivers ==
    ASSUME MessageInv,
           UNCHANGED <<up, mapuser, todo, db, restarts, chats, seen, dropped>>
    PROVE  MessageInv'
<1>1. /\ \A u : Kept(u)' = Kept(u) /\ (Served(u)' <=> Served(u))
      /\ \A u : Absent(u)' <=> Absent(u)
      /\ \A u, id : Above(u, id)' <=> Above(u, id)
      /\ \A u, id : Told(id, u)' <=> Told(id, u)
      /\ (Ordered' <=> Ordered) /\ (Fetched' <=> Fetched)
      BY DEF Kept, Served, Absent, Above, Told, Ordered, Fetched
<1>2. Course' <=> Course
      BY <1>1 DEF Course, Handing, Storing, Looping, Giving, Forgetting,
                  ToldBefore
<1>3. (RowsAreChats' <=> RowsAreChats) /\ (RowsWait' <=> RowsWait)
      BY <1>1 DEF RowsAreChats, RowsWait
<1>4. (SeenAreChats' <=> SeenAreChats) /\ (SeenInOrder' <=> SeenInOrder)
      BY <1>1 DEF SeenAreChats, SeenInOrder, Increasing
<1>5. AllAccounted' <=> AllAccounted
      BY <1>1 DEF AllAccounted, Accounted, Waits
<1>. QED  BY <1>2, <1>3, <1>4, <1>5 DEF MessageInv

LEMMA NextDelivers ==
    TypeOK /\ DatabaseInv /\ SeatedInv /\ MessageInv /\ [Next]_vars
        => MessageInv'
<1>. SUFFICES ASSUME TypeOK, DatabaseInv, SeatedInv, MessageInv, [Next]_vars
              PROVE  MessageInv'
     OBVIOUS
<1>1. ASSUME NEW fd \in Fds, NEW p \in Packages, Receive(fd, p)
      PROVE  MessageInv'
      BY <1>1, ReceiveDelivers
<1>2. ASSUME NEW fd \in Fds, Disconnect(fd)
      PROVE  MessageInv'
      BY <1>2, DisconnectDelivers
<1>3. CASE Call
      BY <1>3, WriteDelivers, ReplayRowDelivers, ReplayEndDelivers,
         ReplayJunkDelivers, ExecuteDelivers, CloseDelivers DEF Call
<1>4. CASE Crash \/ \E fd \in Fds : Sigpipe(fd)
      BY <1>4, DeathDelivers DEF Crash, Sigpipe
<1>5. CASE \E fd \in Fds : Connect(fd) \/ Hangup(fd) \/ Reset(fd)
  <2>1. UNCHANGED <<up, mapuser, todo, db, restarts, chats, seen, dropped>>
        BY <1>5 DEF Connect, Hangup, Reset, memory, observed
  <2>. QED  BY <2>1, SameDelivers
<1>6. CASE Restart
  <2>1. /\ todo' = <<>> /\ restarts' # 0
        /\ UNCHANGED <<db, chats, seen, dropped>>
        BY <1>6 DEF Restart, DatabaseInv, TypeOK, observed
  <2>2. \A u : Absent(u)'
        BY <1>6 DEF Restart, mapUser, Absent
  <2>. QED  BY <2>1, <2>2, SilentNone
            DEF MessageInv, RowsAreChats, Course, RowsWait, SeenAreChats,
                SeenInOrder, Ordered, AllAccounted
<1>7. CASE Stopped \/ UNCHANGED vars
  <2>1. UNCHANGED <<up, mapuser, todo, db, restarts, chats, seen, dropped>>
        BY <1>7 DEF Stopped, vars, memory, observed
  <2>. QED  BY <2>1, SameDelivers
<1>. QED  BY <1>1, <1>2, <1>3, <1>4, <1>5, <1>6, <1>7 DEF Next

LEMMA MessageInvariant ==
    Spec => [](TypeOK /\ DatabaseInv /\ SeatedInv /\ MessageInv)
<1>1. Init => SeatedInv
  <2>1. ASSUME Init, NEW u \in DOMAIN mapuser
        PROVE  ~Sits(mapuser[u])
        BY <2>1, InitDbAssumption DEF Init, mapUser, StateOf, Idle, Sits
  <2>. QED  BY <2>1 DEF SeatedInv, Seated
<1>2. TypeOK /\ NamesRead /\ SeatedInv /\ [Next]_vars => SeatedInv'
      BY NextSeated
<1>3. Init => MessageInv
      BY InitDelivers
<1>4. TypeOK /\ DatabaseInv /\ SeatedInv /\ MessageInv /\ [Next]_vars
          => MessageInv'
      BY NextDelivers
<1>. QED  BY <1>1, <1>2, <1>3, <1>4, NamesAreRead, DatabaseInvariant, PTL DEF Spec

\* No private message is lost while the server runs, for any accounts and
\* connections, when no message is blank: from its acceptance on it is in the
\* calls of the handler, or in the table, or was written.
THEOREM ChatsAccounted ==
    ASSUME NoBlank
    PROVE  Spec => []EveryChatAccounted
<1>1. MessageInv => EveryChatAccounted
      BY DEF MessageInv, AllAccounted, Accounted, Waits, CallsIn, Told,
             EveryChatAccounted
<1>. QED  BY <1>1, MessageInvariant, PTL

\* Every user is written its private messages in the order of their
\* acceptance and none twice, for any accounts and connections, when nobody
\* logs in twice on one connection: stored messages are older than those that
\* are written at once, and none is stored for a user who is online.
THEOREM WrittenInOrder ==
    ASSUME LoginOnce
    PROVE  Spec => []InOrderOnce
<1>1. MessageInv => InOrderOnce
      BY DEF MessageInv, SeenInOrder, Increasing, Ordered, InOrderOnce
<1>. QED  BY <1>1, MessageInvariant, PTL

\* Only deleteMessageOfUser takes rows from the table, and it is run when the
\* loop has written them.
LEMMA RowsGoWhenTold ==
    ASSUME NoBlank, TypeOK, DatabaseInv, MessageInv, [Next]_vars,
           NEW row \in db.messages, row \notin db'.messages
    PROVE  Told(row.id, row.receiver)
<1>1. CASE Execute
  <2>1. /\ up /\ todo # <<>> /\ Head(todo).op = "sql"
        /\ db' = Run(db, Head(todo).stmt)
        BY <1>1 DEF Execute, Calling
  <2>2. AboutMessages(Head(todo))
    <3>1. Head(todo).stmt \in Statements
          BY <2>1, TodoTypes, CallKinds DEF Sqls
    <3>. QED  BY <2>1, <3>1, MemoryTypes, RunOther DEF AboutMessages
  <2>3. ASSUME NEW r, Storing(r)
        PROVE  FALSE
    <3>1. Head(todo).stmt = saveMessage(r)
          BY <2>3 DEF Storing, Stores, SaveCall
    <3>. QED  BY <2>1, <3>1, MemoryTypes, RunMessageRows
  <2>4. ASSUME NEW u, Forgetting(u)
        PROVE  Told(row.id, row.receiver)
    <3>1. Head(todo).stmt = deleteMessageOfUser(u)
          BY <2>4 DEF Forgetting, Forgets, ForgetCall
    <3>2. row.receiver = u
          BY <2>1, <3>1, MemoryTypes, RunMessageRows
    <3>. QED  BY <2>4, <3>2 DEF Forgetting, Kept, getMessageOfUser
  <2>. QED  BY <2>1, <2>2, <2>3, <2>4, CourseSql DEF MessageInv
<1>2. CASE ~Execute
  <2>1. ASSUME NEW fd, NEW p, Receive(fd, p)
        PROVE  UNCHANGED db
        BY <2>1 DEF Receive, analyzePackage, Refuse, Answers, Does, Login,
             WithFunction, JoinRoom, OneToOneChat, LeaveChatUser, ShowRoom,
             getListRoles, AddUser, handleModifyUser, DeleteUser, ModifyRoom,
             DeleteRoom, addRoom, getUserOnline, FindUser
  <2>2. ASSUME NEW fd, Disconnect(fd) \/ Write(fd) \/ Sigpipe(fd)
        PROVE  UNCHANGED db
        BY <2>2 DEF Disconnect, Write, Sigpipe
  <2>3. ASSUME NEW fd, Connect(fd) \/ Hangup(fd) \/ Reset(fd)
        PROVE  UNCHANGED db
        BY <2>3 DEF Connect, Hangup, Reset
  <2>4. ASSUME \/ ReplayRow \/ ReplayEnd \/ ReplayJunk \/ Close \/ Crash
               \/ Restart \/ Stopped \/ UNCHANGED vars
        PROVE  UNCHANGED db
        BY <2>4 DEF ReplayRow, ReplayEnd, ReplayJunk, Close, Crash, Restart,
             Stopped, vars
  <2>5. UNCHANGED db
        BY <1>2, <2>1, <2>2, <2>3, <2>4 DEF Next, Call
  <2>. QED  BY <2>5
<1>. QED  BY <1>1, <1>2

\* No stored message is deleted before it was written to its receiver, for any
\* accounts and connections and any number of crashes, when no message is
\* blank: a handler that is cut short between the writes and the deletion
\* leaves the rows for the next login.
THEOREM RowsKeptUntilWritten ==
    ASSUME NoBlank
    PROVE  Spec => StoredUntilWritten
<1>. DEFINE A == \A row \in db.messages :
                    row.mess = "text" /\ row \notin db'.messages =>
                        \/ \E i \in 1..Len(seen[row.receiver]) :
                              seen[row.receiver][i] = row.id
                        \/ row.id \in dropped
<1>1. TypeOK /\ DatabaseInv /\ MessageInv /\ [Next]_vars => [A]_vars
      BY RowsGoWhenTold DEF Told
<1>. QED  BY <1>1, MessageInvariant, PTL DEF Spec, StoredUntilWritten
=============================================================================
