--------------------------- MODULE MailboxProofs ---------------------------
(***************************************************************************)
(* The proof that ChatServer implements Mailbox under the mapping of       *)
(* ServerMailbox, for every set of accounts and connections, any number of *)
(* messages and crashes between any two calls.                             *)
(*                                                                         *)
(* The mapped variables are functions of the calls left and of the rows of *)
(* the table.  Below they are operators on a set of calls C and a set of   *)
(* rows; only the calls that are about messages matter, and each phase of  *)
(* MessageProofs says which these are.                                     *)
(***************************************************************************)
EXTENDS ServerMailbox, MessageProofs

IdsOf(rows) == {row.id : row \in rows}

WritesIn(C) == {call.pk.id : call \in {w \in C : w.op = "write"}} \ {0}

SavesIn(C) ==
    {call.stmt.row.id : call \in {s \in C :
                            s.op = "sql" /\ s.stmt.op = "saveMessage"}}

RowsOf(rows, u) == {r \in rows : r.receiver = u}

UpTo(rows, u, after) == {r \in RowsOf(rows, u) : r.id <= after}

PassedIn(C, rows, call) ==
    CASE call.op = "replay" ->
            IdsOf(UpTo(rows, call.user, call.after))
      [] /\ call.op = "sql"
         /\ call.stmt.op = "deleteMessageOfUser"
         /\ \A other \in C : other.op # "replay" ->
            IdsOf(RowsOf(rows, call.stmt.user))
      [] OTHER -> {}

InHand(C, rows) == SavesIn(C) \cup (WritesIn(C) \ IdsOf(rows))

AllPassed(C, rows) == UNION {PassedIn(C, rows, call) : call \in C}

GivenOut(C, rows) == AllPassed(C, rows) \ WritesIn(C)

Hand == InHand(CallsIn(todo), db.messages)

Done == GivenOut(CallsIn(todo), db.messages)

Stored == IdsOf(db.messages)

ToOf(c) == [i \in 1..Len(c) |-> c[i].to]

To == ToOf(chats)

-----------------------------------------------------------------------------
(* Only calls about messages matter.                                       *)

LEMMA AboutOnly ==
    ASSUME NEW C, NEW A \in SUBSET C, NEW rows,
           \A c \in C : AboutMessages(c) => c \in A
    PROVE  /\ InHand(C, rows) = InHand(A, rows)
           /\ GivenOut(C, rows) = GivenOut(A, rows)
<1>1. WritesIn(C) = WritesIn(A)
      BY DEF WritesIn, AboutMessages
<1>2. SavesIn(C) = SavesIn(A)
      BY DEF SavesIn, AboutMessages
<1>3. \A c \in C : PassedIn(C, rows, c) = PassedIn(A, rows, c)
      BY DEF PassedIn, AboutMessages
<1>4. \A c \in C : c \notin A => PassedIn(C, rows, c) = {}
  <2>. SUFFICES ASSUME NEW c \in C, c \notin A
                PROVE  PassedIn(C, rows, c) = {}
       OBVIOUS
  <2>1. /\ c.op # "replay"
        /\ ~(c.op = "sql" /\ c.stmt.op = "deleteMessageOfUser")
        BY DEF AboutMessages
  <2>. QED  BY <2>1 DEF PassedIn
<1>5. AllPassed(C, rows) = AllPassed(A, rows)
      BY <1>3, <1>4 DEF AllPassed
<1>. QED  BY <1>1, <1>2, <1>5 DEF InHand, GivenOut

LEMMA NothingAbout ==
    ASSUME NEW rows
    PROVE  InHand({}, rows) = {} /\ GivenOut({}, rows) = {}
BY DEF InHand, GivenOut, WritesIn, SavesIn, AllPassed

LEMMA SilentMaps ==
    ASSUME NEW l, Silent(l), NEW rows
    PROVE  InHand(CallsIn(l), rows) = {} /\ GivenOut(CallsIn(l), rows) = {}
BY AboutOnly, NothingAbout DEF Silent

\* A message is in hand, to be written ...
LEMMA HandsMap ==
    ASSUME NEW l \in Seq(Calls), NEW id, id # 0, Hands(l, id), Silent(Tail(l)),
           NEW rows
    PROVE  /\ InHand(CallsIn(l), rows) = {id} \ IdsOf(rows)
           /\ GivenOut(CallsIn(l), rows) = {}
<1>. DEFINE w == Head(l)
            A == {w}
<1>1. l # <<>> /\ w.op = "write" /\ w.pk.id = id
      BY DEF Hands
<1>2. /\ A \in SUBSET CallsIn(l)
      /\ \A c \in CallsIn(l) : AboutMessages(c) => c \in A
      BY <1>1, CallsInTail DEF Silent
<1>. HIDE DEF w
<1>3. WritesIn(A) = {id} /\ SavesIn(A) = {} /\ PassedIn(A, rows, w) = {}
      BY <1>1 DEF WritesIn, SavesIn, PassedIn
<1>4. AllPassed(A, rows) = {}
      BY <1>3 DEF AllPassed
<1>5. InHand(A, rows) = {id} \ IdsOf(rows) /\ GivenOut(A, rows) = {}
      BY <1>3, <1>4 DEF InHand, GivenOut
<1>. QED  BY <1>2, <1>5, AboutOnly

\* ... or to be stored.
LEMMA StoresMap ==
    ASSUME NEW l \in Seq(Calls), NEW row, Stores(l, row), NEW rows
    PROVE  /\ InHand(CallsIn(l), rows) = {row.id}
           /\ GivenOut(CallsIn(l), rows) = {}
<1>. DEFINE s == SaveCall(row)
            A == {s}
<1>1. l # <<>> /\ Head(l) = s
      BY DEF Stores
<1>2. /\ A \in SUBSET CallsIn(l)
      /\ \A c \in CallsIn(l) : AboutMessages(c) => c \in A
      BY <1>1, CallsInTail DEF Stores, Silent
<1>3. s.op = "sql" /\ s.stmt.op = "saveMessage" /\ s.stmt.row = row
      BY DEF SaveCall, saveMessage
<1>. HIDE DEF s
<1>4. WritesIn(A) = {} /\ SavesIn(A) = {row.id} /\ PassedIn(A, rows, s) = {}
      BY <1>3 DEF WritesIn, SavesIn, PassedIn
<1>5. AllPassed(A, rows) = {}
      BY <1>4 DEF AllPassed
<1>6. InHand(A, rows) = {row.id} /\ GivenOut(A, rows) = {}
      BY <1>4, <1>5 DEF InHand, GivenOut
<1>. HIDE DEF A
<1>. QED  BY <1>2, <1>6, AboutOnly

LEMMA ForgetsMap ==
    ASSUME NEW l \in Seq(Calls), NEW u, Forgets(l, u), NEW rows
    PROVE  /\ InHand(CallsIn(l), rows) = {}
           /\ GivenOut(CallsIn(l), rows) = IdsOf(RowsOf(rows, u))
<1>. DEFINE f == ForgetCall(u)
            A == {f}
<1>1. l # <<>> /\ Head(l) = f
      BY DEF Forgets
<1>2. /\ A \in SUBSET CallsIn(l)
      /\ \A c \in CallsIn(l) : AboutMessages(c) => c \in A
      BY <1>1, CallsInTail DEF Forgets, Silent
<1>3. f.op = "sql" /\ f.stmt.op = "deleteMessageOfUser" /\ f.stmt.user = u
      BY DEF ForgetCall, deleteMessageOfUser
<1>. HIDE DEF f
<1>4. /\ WritesIn(A) = {} /\ SavesIn(A) = {}
      /\ PassedIn(A, rows, f) = IdsOf(RowsOf(rows, u))
      BY <1>3 DEF WritesIn, SavesIn, PassedIn
<1>5. AllPassed(A, rows) = IdsOf(RowsOf(rows, u))
      BY <1>4 DEF AllPassed
<1>6. InHand(A, rows) = {} /\ GivenOut(A, rows) = IdsOf(RowsOf(rows, u))
      BY <1>4, <1>5 DEF InHand, GivenOut
<1>. QED  BY <1>2, <1>6, AboutOnly

\* The loop over the messages of u, which has passed those up to after ...
LoopPair(A, r, u, after) ==
    /\ A = {r, ForgetCall(u)}
    /\ r.op = "replay" /\ r.user = u /\ r.after = after

LEMMA LoopMaps ==
    ASSUME NEW A, NEW r, NEW u, NEW after, NEW rows, LoopPair(A, r, u, after)
    PROVE  /\ WritesIn(A) = {} /\ SavesIn(A) = {}
           /\ AllPassed(A, rows) = IdsOf(UpTo(rows, u, after))
<1>. DEFINE f == ForgetCall(u)
<1>0. A = {r, f} /\ r.op = "replay" /\ r.user = u /\ r.after = after
      BY DEF LoopPair
<1>1. f.op = "sql" /\ f.stmt.op = "deleteMessageOfUser"
      BY DEF ForgetCall, deleteMessageOfUser
<1>. HIDE DEF f
<1>2. WritesIn(A) = {} /\ SavesIn(A) = {}
      BY <1>0, <1>1 DEF WritesIn, SavesIn
<1>3. /\ PassedIn(A, rows, r) = IdsOf(UpTo(rows, u, after))
      /\ PassedIn(A, rows, f) = {}
      BY <1>0, <1>1 DEF PassedIn
<1>4. AllPassed(A, rows) = IdsOf(UpTo(rows, u, after))
      BY <1>0, <1>3 DEF AllPassed
<1>. QED  BY <1>2, <1>4

LEMMA LoopsCalls ==
    ASSUME NEW l \in Seq(Calls), NEW u, NEW after, Loops(l, u, after)
    PROVE  /\ l # <<>> /\ {Head(l), ForgetCall(u)} \in SUBSET CallsIn(l)
           /\ \A c \in CallsIn(l) :
                 AboutMessages(c) => c \in {Head(l), ForgetCall(u)}
<1>1. /\ l # <<>> /\ Tail(l) # <<>> /\ Head(Tail(l)) = ForgetCall(u)
      /\ Silent(Tail(Tail(l)))
      BY DEF Loops, Forgets
<1>2. /\ Tail(l) \in Seq(Calls)
      /\ CallsIn(l) = {Head(l)} \cup CallsIn(Tail(l))
      /\ CallsIn(Tail(l)) = {ForgetCall(u)} \cup CallsIn(Tail(Tail(l)))
      BY <1>1, CallsInTail
<1>. QED  BY <1>1, <1>2 DEF Silent

LEMMA LeadsMap ==
    ASSUME NEW l \in Seq(Calls), NEW u, NEW after, Leads(l, u, after), NEW rows
    PROVE  /\ InHand(CallsIn(l), rows) = {}
           /\ GivenOut(CallsIn(l), rows) = IdsOf(UpTo(rows, u, after))
<1>1. PICK before \in Seq(Calls), rest \in Seq(Calls) :
         l = before \o rest /\ Silent(before) /\ Loops(rest, u, after)
      BY DEF Leads
<1>0. PICK r, A : r = Head(rest) /\ A = {r, ForgetCall(u)}
      OBVIOUS
<1>2. r.op = "replay" /\ r.user = u /\ r.after = after
      BY <1>1, <1>0 DEF Loops
<1>3. /\ A \in SUBSET CallsIn(l)
      /\ \A c \in CallsIn(l) : AboutMessages(c) => c \in A
  <2>1. CallsIn(l) = CallsIn(before) \cup CallsIn(rest)
        BY <1>1, CallsInConcat
  <2>. QED  BY <1>1, <1>0, <2>1, LoopsCalls DEF Silent
<1>4. /\ WritesIn(A) = {} /\ SavesIn(A) = {}
      /\ AllPassed(A, rows) = IdsOf(UpTo(rows, u, after))
  <2>1. LoopPair(A, r, u, after)
        BY <1>2, <1>0 DEF LoopPair
  <2>2. WritesIn(A) = {}
        BY <2>1, LoopMaps
  <2>3. SavesIn(A) = {}
        BY <2>1, LoopMaps
  <2>4. AllPassed(A, rows) = IdsOf(UpTo(rows, u, after))
        BY <2>1, LoopMaps
  <2>. QED  BY <2>2, <2>3, <2>4
<1>5. InHand(A, rows) = {} /\ GivenOut(A, rows) = IdsOf(UpTo(rows, u, after))
      BY <1>4 DEF InHand, GivenOut
<1>. QED  BY <1>3, <1>5, AboutOnly

\* ... and the next one is about to be written.
LEMMA GivesMap ==
    ASSUME NEW l \in Seq(Calls), NEW u, NEW id, id # 0, Hands(l, id),
           Loops(Tail(l), u, id), NEW rows
    PROVE  /\ InHand(CallsIn(l), rows) = {id} \ IdsOf(rows)
           /\ GivenOut(CallsIn(l), rows) = IdsOf(UpTo(rows, u, id)) \ {id}
<1>0. PICK w, r, B, A :
         /\ w = Head(l) /\ r = Head(Tail(l))
         /\ B = {r, ForgetCall(u)} /\ A = {w} \cup B
      OBVIOUS
<1>9. A = {w} \cup B
      BY <1>0
<1>1. l # <<>> /\ w.op = "write" /\ w.pk.id = id
      BY <1>0 DEF Hands
<1>2. r.op = "replay" /\ r.user = u /\ r.after = id
      BY <1>0 DEF Loops
<1>3. /\ A \in SUBSET CallsIn(l)
      /\ \A c \in CallsIn(l) : AboutMessages(c) => c \in A
  <2>1. Tail(l) \in Seq(Calls) /\ CallsIn(l) = {w} \cup CallsIn(Tail(l))
        BY <1>0, <1>1, CallsInTail
  <2>. QED  BY <1>0, <2>1, LoopsCalls
<1>4. /\ WritesIn(B) = {} /\ SavesIn(B) = {}
      /\ AllPassed(B, rows) = IdsOf(UpTo(rows, u, id))
  <2>1. LoopPair(B, r, u, id)
        BY <1>2, <1>0 DEF LoopPair
  <2>2. WritesIn(B) = {}
        BY <2>1, LoopMaps
  <2>3. SavesIn(B) = {}
        BY <2>1, LoopMaps
  <2>4. AllPassed(B, rows) = IdsOf(UpTo(rows, u, id))
        BY <2>1, LoopMaps
  <2>. QED  BY <2>2, <2>3, <2>4
<1>5. WritesIn(A) = {id} /\ SavesIn(A) = {}
  <2>1. \A c \in B : ~(c.op = "write" /\ c.pk.id # 0)
    <3>1. ASSUME NEW c \in B, c.op = "write", c.pk.id # 0
          PROVE  c.pk.id \in WritesIn(B)
          BY <3>1 DEF WritesIn
    <3>. QED  BY <3>1, <1>4
  <2>2. \A c \in B : ~(c.op = "sql" /\ c.stmt.op = "saveMessage")
        BY <1>4 DEF SavesIn
  <2>3. WritesIn(A) = {id}
        BY <1>9, <1>1, <2>1 DEF WritesIn
  <2>4. SavesIn(A) = {}
        BY <1>9, <1>1, <2>2 DEF SavesIn
  <2>. QED  BY <2>3, <2>4
<1>6. /\ \A c \in B : PassedIn(A, rows, c) = PassedIn(B, rows, c)
      /\ PassedIn(A, rows, w) = {}
  <2>1. PassedIn(A, rows, w) = {}
        BY <1>1 DEF PassedIn
  <2>2. ASSUME NEW c \in B
        PROVE  PassedIn(A, rows, c) = PassedIn(B, rows, c)
        BY <1>9, <1>1 DEF PassedIn
  <2>. QED  BY <2>1, <2>2
<1>7. AllPassed(A, rows) = IdsOf(UpTo(rows, u, id))
      BY <1>9, <1>4, <1>6 DEF AllPassed
<1>8. /\ InHand(A, rows) = {id} \ IdsOf(rows)
      /\ GivenOut(A, rows) = IdsOf(UpTo(rows, u, id)) \ {id}
      BY <1>5, <1>7 DEF InHand, GivenOut
<1>. QED  BY <1>3, <1>8, AboutOnly

-----------------------------------------------------------------------------
(* The steps of Mailbox, told with the operators above.                    *)

\* The mapped variables, now and after a step.
Mapped ==
    /\ SavedNext \cup (WrittenNext \ StoredIds) = Hand
    /\ (UNION {Passed(call) : call \in Pending}) \ WrittenNext = Done
    /\ StoredIds = Stored

LEMMA MappedNow == Mapped
<1>1. Pending = CallsIn(todo) /\ StoredIds = IdsOf(db.messages)
      BY DEF Pending, CallsIn, StoredIds, IdsOf
<1>2. WrittenNext = WritesIn(CallsIn(todo))
      BY <1>1 DEF WrittenNext, WritesIn
<1>3. SavedNext = SavesIn(CallsIn(todo))
      BY <1>1 DEF SavedNext, SavesIn
<1>4. \A call \in CallsIn(todo) :
         Passed(call) = PassedIn(CallsIn(todo), db.messages, call)
      BY <1>1 DEF Passed, PassedIn, IdsOf, UpTo, RowsOf, getMessageOfUser
<1>5. UNION {Passed(call) : call \in Pending} =
         AllPassed(CallsIn(todo), db.messages)
      BY <1>1, <1>4 DEF AllPassed
<1>. QED  BY <1>1, <1>2, <1>3, <1>5
          DEF Mapped, Hand, Done, Stored, InHand, GivenOut

LEMMA MappedThen == Mapped'
BY MappedNow, PTL

Observes == UNCHANGED <<chats, seen, dropped>>

Step == [M!Next]_(M!vars)

LEMMA SameStep ==
    ASSUME Observes, Hand' = Hand, Done' = Done, Stored' = Stored
    PROVE  Step
<1>1. UNCHANGED M!vars
      BY MappedNow, MappedThen DEF Mapped, Observes, M!vars
<1>. QED  BY <1>1 DEF Step

LEMMA KeepStep ==
    ASSUME Observes, Hand # {}, Hand' = {}, Stored' = Stored \cup Hand,
           Done' = Done
    PROVE  Step
<1>1. M!Keep
      BY MappedNow, MappedThen DEF Mapped, Observes, M!Keep
<1>. QED  BY <1>1 DEF Step, M!Next

LEMMA LoseStep ==
    ASSUME Observes, Hand' = {}, Done' = {}, Stored' = Stored
    PROVE  Step
<1>1. M!Lose
      BY MappedNow, MappedThen DEF Mapped, Observes, M!Lose
<1>. QED  BY <1>1 DEF Step, M!Next

\* The stored messages of a user, by their rows.
LEMMA OfRows ==
    ASSUME TypeOK, RowsAreChats, NEW v
    PROVE  M!Of(v) = IdsOf(RowsOf(db.messages, v))
<1>1. M!Of(v) = {id \in Stored : To[id] = v}
      BY MappedNow DEF Mapped, M!Of, To, ToOf
<1>2. \A row \in db.messages : To[row.id] = row.receiver
      BY DEF RowsAreChats, To, ToOf
<1>. QED  BY <1>1, <1>2 DEF Stored, IdsOf, RowsOf

LEMMA ForgetStep ==
    ASSUME TypeOK, RowsAreChats, Observes, NEW u \in Users,
           Hand' = Hand, Done = IdsOf(RowsOf(db.messages, u)), Done' = {},
           Stored' = Stored \ IdsOf(RowsOf(db.messages, u))
    PROVE  Step
<1>1. M!Of(u) = Done
      BY OfRows
<1>2. CASE Done = {}
      BY <1>1, <1>2, SameStep
<1>3. CASE Done # {}
  <2>1. M!Forget(u)
        BY <1>1, <1>3, MappedNow, MappedThen DEF Mapped, Observes, M!Forget
  <2>. QED  BY <2>1 DEF Step, M!Next
<1>. QED  BY <1>2, <1>3

\* What a write of message id does, here and in Mailbox.
Gives(id) ==
    \/ /\ seen' = [seen EXCEPT ![chats[id].to] = Append(@, id)]
       /\ UNCHANGED dropped
    \/ dropped' = dropped \cup {id} /\ UNCHANGED seen

LEMMA GivenSame ==
    ASSUME NEW id \in 1..Len(chats), Gives(id)
    PROVE  M!Given(id)
<1>1. To[id] = chats[id].to
      BY DEF To, ToOf
<1>. QED  BY <1>1 DEF Gives, M!Given, To, ToOf

LEMMA DeliverStep ==
    ASSUME TypeOK, RowsAreChats, UNCHANGED chats, NEW id \in 1..Len(chats),
           Gives(id), Kept(chats[id].to) = {},
           Hand = {id}, Hand' = {}, Done' = Done, Stored' = Stored
    PROVE  Step
<1>1. M!Of(To[id]) = {}
  <2>1. RowsOf(db.messages, chats[id].to) = {}
        BY DEF RowsOf, Kept, getMessageOfUser
  <2>2. To[id] = chats[id].to
        BY DEF To, ToOf
  <2>. QED  BY <2>1, <2>2, OfRows DEF IdsOf
<1>2. M!Deliver
      BY <1>1, GivenSame, MappedNow, MappedThen DEF Mapped, M!Deliver, To, ToOf
<1>. QED  BY <1>2 DEF Step, M!Next

LEMMA ReplayStep ==
    ASSUME TypeOK, RowsAreChats, UNCHANGED chats, NEW id \in 1..Len(chats),
           Gives(id), id \in Stored, id \notin Done,
           \A row \in RowsOf(db.messages, chats[id].to) :
              row.id < id => row.id \in Done,
           Hand' = Hand, Done' = Done \cup {id}, Stored' = Stored
    PROVE  Step
<1>1. M!Of(To[id]) = IdsOf(RowsOf(db.messages, chats[id].to))
  <2>1. To[id] = chats[id].to
        BY DEF To, ToOf
  <2>. QED  BY <2>1, OfRows
<1>2. \A older \in M!Of(To[id]) : older < id => older \in Done
      BY <1>1 DEF IdsOf
<1>3. M!Replay(id)
      BY <1>2, GivenSame, MappedNow, MappedThen DEF Mapped, M!Replay, To, ToOf
<1>4. id \in StoredIds
      BY MappedNow DEF Mapped
<1>. QED  BY <1>3, <1>4 DEF Step, M!Next

\* The receivers of a list of messages, and of one message more.
LEMMA ToOfType ==
    ASSUME NEW c \in Seq(Chats)
    PROVE  ToOf(c) \in Seq(Users) /\ Len(ToOf(c)) = Len(c)
<1>1. Len(c) \in Nat /\ \A i \in 1..Len(c) : c[i] \in Chats
      OBVIOUS
<1>2. ToOf(c) \in [1..Len(c) -> Users]
      BY <1>1 DEF ToOf, Chats
<1>3. ToOf(c) \in Seq(Users)
      BY <1>1, <1>2, SeqDef
<1>. QED  BY <1>1, <1>2, <1>3

LEMMA ToOfAppend ==
    ASSUME NEW c \in Seq(Chats), NEW chat \in Chats
    PROVE  ToOf(Append(c, chat)) = Append(ToOf(c), chat.to)
<1>. DEFINE d == Append(c, chat)
            v == chat.to
<1>1. /\ d \in Seq(Chats) /\ Len(d) = Len(c) + 1 /\ Len(c) \in Nat
      /\ d[Len(c) + 1] = chat
      /\ \A i \in 1..Len(c) : d[i] = c[i]
      BY AppendProperties
<1>2. v \in Users
      BY DEF Chats
<1>3. /\ ToOf(c) \in Seq(Users) /\ Len(ToOf(c)) = Len(c)
      /\ ToOf(d) \in Seq(Users) /\ Len(ToOf(d)) = Len(d)
      BY <1>1, ToOfType
<1>4. /\ Append(ToOf(c), v) \in Seq(Users)
      /\ Len(Append(ToOf(c), v)) = Len(c) + 1
      /\ Append(ToOf(c), v)[Len(c) + 1] = v
      /\ \A i \in 1..Len(c) : Append(ToOf(c), v)[i] = ToOf(c)[i]
      BY <1>2, <1>3, AppendProperties
<1>5. \A i \in 1..Len(d) : ToOf(d)[i] = Append(ToOf(c), v)[i]
  <2>1. ASSUME NEW i \in 1..Len(d), i # Len(c) + 1
        PROVE  ToOf(d)[i] = Append(ToOf(c), v)[i]
    <3>1. i \in 1..Len(c)
          BY <1>1, <2>1
    <3>. QED  BY <1>1, <1>4, <3>1 DEF ToOf
  <2>2. ToOf(d)[Len(c) + 1] = v
        BY <1>1 DEF ToOf
  <2>. QED  BY <1>4, <2>1, <2>2
<1>. HIDE DEF d, v
<1>6. ToOf(d) = Append(ToOf(c), v)
      BY <1>1, <1>3, <1>4, <1>5, SeqEqual
<1>. QED  BY <1>6 DEF d, v

LEMMA AcceptStep ==
    ASSUME TypeOK, NEW v \in Users, NEW chat \in Chats, chat.to = v,
           chats' = Append(chats, chat), UNCHANGED <<seen, dropped>>,
           Hand = {}, Hand' = {Len(chats) + 1}, Done = {}, Done' = {},
           Stored' = Stored
    PROVE  Step
<1>1. chats \in Seq(Chats)
      BY DEF TypeOK
<1>2. To' = Append(To, v) /\ Len(To) = Len(chats)
      BY <1>1, ToOfType, ToOfAppend DEF To
<1>3. M!Accept(v)
      BY <1>2, MappedNow, MappedThen DEF Mapped, M!Accept, To, ToOf
<1>. QED  BY <1>3 DEF Step, M!Next

-----------------------------------------------------------------------------
(* The steps of ChatServer.                                                *)

\* What was assumed of the instance, in the words of MessageProofs.
Restarts == MaxRestarts = 0 => restarts = 0

LEMMA NothingLeftOut == NoBlank /\ (LoginOnce /\ Restarts => Fetched)
BY NoReturnAssumption, NoBlankAssumption DEF NoBlank, Fetched, Restarts

\* Nothing is under way about messages, before and after.
LEMMA SilentStep ==
    ASSUME Silent(todo), Silent(todo'), Observes, db'.messages = db.messages
    PROVE  Step
<1>1. Hand = {} /\ Done = {}
      BY SilentMaps DEF Hand, Done
<1>2. Hand' = {} /\ Done' = {}
      BY SilentMaps DEF Hand, Done
<1>3. Stored' = Stored
      BY DEF Stored
<1>. QED  BY <1>1, <1>2, <1>3, SameStep

\* A call that is not about messages is replaced by others that are not.
LEMMA OtherCallStep ==
    ASSUME todo \in Seq(Calls), todo # <<>>, ~AboutMessages(Head(todo)),
           Observes, db'.messages = db.messages,
           NEW first \in Seq(Calls), Silent(first), todo' = first \o Tail(todo)
    PROVE  Step
<1>1. /\ Tail(todo) \in Seq(Calls)
      /\ CallsIn(todo) = {Head(todo)} \cup CallsIn(Tail(todo))
      BY CallsInTail
<1>2. CallsIn(todo') = CallsIn(first) \cup CallsIn(Tail(todo))
      BY <1>1, CallsInConcat
<1>0. PICK A, rows : A = CallsIn(Tail(todo)) /\ rows = db.messages
      OBVIOUS
<1>3. Hand = InHand(A, rows) /\ Done = GivenOut(A, rows)
  <2>1. /\ A \in SUBSET CallsIn(todo)
        /\ \A c \in CallsIn(todo) : AboutMessages(c) => c \in A
        BY <1>1, <1>0
  <2>. QED  BY <1>0, <2>1, AboutOnly DEF Hand, Done
<1>4. Hand' = InHand(A, rows) /\ Done' = GivenOut(A, rows)
  <2>1. /\ A \in SUBSET CallsIn(todo')
        /\ \A c \in CallsIn(todo') : AboutMessages(c) => c \in A
        BY <1>2, <1>0 DEF Silent
  <2>2. rows = db'.messages
        BY <1>0
  <2>. QED  BY <2>1, <2>2, AboutOnly DEF Hand, Done
<1>5. Stored' = Stored
      BY DEF Stored
<1>. QED  BY <1>3, <1>4, <1>5, SameStep

\* The process ends.
LEMMA DiesStep ==
    ASSUME Dies, UNCHANGED <<db, observed>>
    PROVE  Step
<1>1. Silent(todo') /\ Observes /\ Stored' = Stored
      BY SilentNone DEF Dies, Observes, observed, Stored
<1>2. Hand' = {} /\ Done' = {}
      BY <1>1, SilentMaps DEF Hand, Done
<1>. QED  BY <1>1, <1>2, LoseStep

\* A private message is written: a new one is delivered, or a stored one is
\* replayed.
LEMMA MessageStep ==
    ASSUME TypeOK, MessageInv, Fetched, NEW fd \in Fds, Write(fd),
           Head(todo).pk.id # 0
    PROVE  Step
<1>0. PICK id : id = Head(todo).pk.id
      OBVIOUS
<1>1. /\ up /\ todo # <<>> /\ Head(todo).op = "write" /\ fd \in Head(todo).fds
      /\ todo' = AfterWrite(fd) /\ UNCHANGED <<db, chats>> /\ id # 0
      BY <1>0 DEF Write, Calling
<1>2. Gives(id)
      BY <1>0 DEF Write, Gives
<1>3. Handing(id) \/ \E u \in Users : Giving(u, id)
      BY <1>1, <1>0, CourseWrite DEF MessageInv
<1>4. Hands(todo, id) /\ id \in 1..Len(chats)
      BY <1>3 DEF Handing, Giving
<1>5. todo' = Tail(todo) /\ todo \in Seq(Calls) /\ Tail(todo) \in Seq(Calls)
  <2>1. Head(todo).fds = {fd}
        BY <1>1, <1>4 DEF Hands
  <2>2. todo \in Seq(Calls) /\ Tail(todo) \in Seq(Calls)
        BY <1>1, TodoTypes DEF TypeOK
  <2>. QED  BY <1>1, <2>1, <2>2, ConcatEmptySeq DEF AfterWrite
<1>6. Stored' = Stored /\ RowsAreChats
      BY <1>1 DEF Stored, MessageInv
<1>7. CASE Handing(id)
  <2>1. Kept(chats[id].to) = {} /\ Silent(Tail(todo))
        BY <1>7 DEF Handing
  <2>2. id \notin Stored
        BY <1>6, <2>1
        DEF Stored, IdsOf, Kept, getMessageOfUser, RowsAreChats
  <2>3. Hand = {id} /\ Done = {}
        BY <1>1, <1>4, <1>5, <2>1, <2>2, HandsMap DEF Hand, Done, Stored
  <2>4. Hand' = {} /\ Done' = {}
        BY <1>5, <2>1, SilentMaps DEF Hand, Done
  <2>. QED  BY <1>1, <1>2, <1>4, <1>6, <2>1, <2>3, <2>4, DeliverStep
<1>8. ASSUME NEW u \in Users, Giving(u, id)
      PROVE  Step
  <2>1. /\ Loops(Tail(todo), u, id) /\ chats[id].to = u
        /\ \E row \in Kept(u) : row.id = id
        BY <1>8 DEF Giving
  <2>2. /\ Hand = {id} \ Stored
        /\ Done = IdsOf(UpTo(db.messages, u, id)) \ {id}
        BY <1>1, <1>4, <1>5, <2>1, GivesMap DEF Hand, Done, Stored
  <2>3. Leads(todo', u, id) /\ todo' \in Seq(Calls)
        BY <1>5, <2>1, LeadsHere
  <2>4. Hand' = {} /\ Done' = IdsOf(UpTo(db.messages, u, id))
        BY <1>1, <2>3, LeadsMap DEF Hand, Done
  <2>5. /\ id \in Stored /\ id \in Nat
        /\ id \in IdsOf(UpTo(db.messages, u, id))
        BY <1>4, <2>1 DEF Stored, IdsOf, UpTo, RowsOf, Kept, getMessageOfUser
  <2>6. \A row \in RowsOf(db.messages, u) :
           row.id < id => row.id \in IdsOf(UpTo(db.messages, u, id)) \ {id}
    <3>. SUFFICES ASSUME NEW row \in RowsOf(db.messages, u), row.id < id
                  PROVE  row \in UpTo(db.messages, u, id) /\ row.id # id
         BY DEF IdsOf
    <3>1. row.id \in Int
          BY <1>6 DEF RowsOf, RowsAreChats
    <3>. QED  BY <2>5, <3>1 DEF UpTo
  <2>7. Hand' = Hand
        BY <2>2, <2>4, <2>5
  <2>8. Done' = Done \cup {id} /\ id \notin Done
        BY <2>2, <2>4, <2>5
  <2>9. \A row \in RowsOf(db.messages, chats[id].to) :
           row.id < id => row.id \in Done
        BY <2>1, <2>2, <2>6
  <2>. QED  BY <1>1, <1>2, <1>4, <1>6, <2>5, <2>7, <2>8, <2>9, ReplayStep
<1>. QED  BY <1>3, <1>7, <1>8

LEMMA WriteStep ==
    ASSUME TypeOK, MessageInv, Fetched, NEW fd \in Fds, Write(fd)
    PROVE  Step
<1>. DEFINE w == Head(todo)
            rest == [w EXCEPT !.fds = @ \ {fd}]
            first == IF w.fds = {fd} THEN <<>> ELSE <<rest>>
<1>1. CASE w.pk.id # 0
      BY <1>1, MessageStep
<1>2. CASE w.pk.id = 0
  <2>1. /\ todo # <<>> /\ w.op = "write" /\ todo' = first \o Tail(todo)
        /\ UNCHANGED <<db, chats, seen, dropped>>
        BY <1>2 DEF Write, Calling, AfterWrite
  <2>2. w \in Writes
        BY <2>1, TodoTypes, CallKinds
  <2>3. rest \in Calls /\ rest.op = "write" /\ rest.pk.id = 0
        BY <1>2, <2>2 DEF Writes, Calls
  <2>4. ~AboutMessages(w) /\ ~AboutMessages(rest)
        BY <1>2, <2>1, <2>3 DEF AboutMessages
  <2>5. first \in Seq(Calls) /\ Silent(first)
        BY <2>3, <2>4, NoCallType, OneCallType, SilentNone, SilentOne
  <2>. HIDE DEF first, rest, w
  <2>6. ~AboutMessages(Head(todo)) /\ db'.messages = db.messages /\ Observes
        BY <2>1, <2>4 DEF w, Observes
  <2>7. todo \in Seq(Calls)
        BY DEF TypeOK
  <2>. QED  BY <2>1, <2>5, <2>6, <2>7, OtherCallStep
<1>. QED  BY <1>1, <1>2

LEMMA CloseStep ==
    ASSUME TypeOK, Close
    PROVE  Step
<1>1. /\ todo # <<>> /\ ~AboutMessages(Head(todo))
      /\ todo' = Tail(todo) /\ Observes /\ db'.messages = db.messages
      BY DEF Close, Calling, AboutMessages, Observes, observed
<1>2. todo' = <<>> \o Tail(todo)
      BY <1>1, TodoTypes, ConcatEmptySeq
<1>3. todo \in Seq(Calls)
      BY DEF TypeOK
<1>. QED  BY <1>1, <1>2, <1>3, NoCallType, SilentNone, OtherCallStep

\* The loop goes on to the next stored message, which is no step of Mailbox:
\* the message counts as given when it is written.
LEMMA ReplayRowStep ==
    ASSUME TypeOK, MessageInv, ReplayRow
    PROVE  Step
<1>1. /\ up /\ todo # <<>> /\ Head(todo).op = "replay"
      /\ UNCHANGED <<db, chats, seen, dropped>>
      BY DEF ReplayRow, Calling, observed
<1>2. PICK c : c = Head(todo)
      OBVIOUS
<1>3. PICK row \in NextRow(c) :
         todo' = WriteAll({c.fd}, ChatAnswer(row.id))
                 \o <<[c EXCEPT !.after = row.id]>> \o Tail(todo)
      BY <1>2 DEF ReplayRow
<1>4. PICK u, after, rows, id :
         u = c.user /\ after = c.after /\ rows = db.messages /\ id = row.id
      OBVIOUS
<1>5. /\ c \in Replays /\ c.fd \in Fds /\ after \in Nat /\ u \in Users
      /\ todo \in Seq(Calls) /\ Tail(todo) \in Seq(Calls)
      BY <1>1, <1>2, <1>4, TodoTypes, CallKinds DEF Replays, TypeOK
<1>6. Leads(todo, u, after) /\ Loops(todo, u, after)
      BY <1>1, <1>2, <1>4, CourseReplay DEF MessageInv, Looping
<1>7. \A r \in rows : r.id \in 1..Len(chats) /\ Len(chats) \in Nat
      BY <1>4 DEF MessageInv, RowsAreChats, TypeOK
<1>8. /\ row \in RowsOf(rows, u) /\ id \in Nat \ {0} /\ id > after
      /\ \A r \in RowsOf(rows, u) : r.id > after => id <= r.id
      BY <1>4, <1>5, <1>7 DEF NextRow, Rest, getMessageOfUser, RowsOf
<1>. DEFINE next == [c EXCEPT !.after = id]
            write == [op |-> "write", fds |-> {c.fd}, pk |-> ChatAnswer(id)]
<1>9. /\ next \in Calls /\ next.op = "replay" /\ next.user = u
      /\ next.after = id
      BY <1>4, <1>5, <1>8 DEF Replays, Calls
<1>10. /\ write \in Calls /\ write.op = "write" /\ write.pk.id = id
       /\ write.fds = {c.fd}
       BY <1>5, <1>8, ChatAnswerType, AnswerIds DEF Calls, Writes
<1>11. WriteAll({c.fd}, ChatAnswer(id)) = <<write>>
       BY DEF WriteAll
<1>12. todo' = <<write>> \o <<next>> \o Tail(todo)
       BY <1>3, <1>4, <1>11
<1>. HIDE DEF next, write
<1>13. /\ todo' # <<>> /\ Head(todo') = write
       /\ Tail(todo') = <<next>> \o Tail(todo)
       /\ Tail(todo') # <<>> /\ Head(Tail(todo')) = next
       /\ Tail(Tail(todo')) = Tail(todo)
       BY <1>5, <1>9, <1>10, <1>12, TwoCallsFirst
<1>14. todo' \in Seq(Calls)
  <2>1. <<write>> \in Seq(Calls) /\ <<next>> \in Seq(Calls)
        BY <1>9, <1>10, OneCallType
  <2>2. <<write>> \o <<next>> \in Seq(Calls)
        BY <2>1, TwoListsType
  <2>. QED  BY <1>5, <1>12, <2>2, TwoListsType
<1>15. Hands(todo', id) /\ Loops(Tail(todo'), u, id)
       BY <1>5, <1>6, <1>9, <1>10, <1>13 DEF Hands, Loops
<1>16. Hand = {} /\ Done = IdsOf(UpTo(rows, u, after))
       BY <1>4, <1>5, <1>6, LeadsMap DEF Hand, Done
<1>17. /\ Hand' = {id} \ IdsOf(rows)
       /\ Done' = IdsOf(UpTo(rows, u, id)) \ {id}
       BY <1>1, <1>4, <1>8, <1>14, <1>15, GivesMap DEF Hand, Done
<1>18. id \in IdsOf(rows)
       BY <1>4, <1>8 DEF IdsOf, RowsOf
<1>19. IdsOf(UpTo(rows, u, id)) \ {id} = IdsOf(UpTo(rows, u, after))
  <2>1. ASSUME NEW r \in RowsOf(rows, u)
        PROVE  r.id <= id /\ r.id # id <=> r.id <= after
    <3>1. r.id \in Nat
          BY <1>7 DEF RowsOf
    <3>. QED  BY <1>5, <1>8, <3>1
  <2>. QED  BY <2>1 DEF IdsOf, UpTo
<1>20. Observes /\ Stored' = Stored
       BY <1>1 DEF Observes, Stored
<1>. QED  BY <1>16, <1>17, <1>18, <1>19, <1>20, SameStep

\* Nor is its end: with no blank message, every row of the user was written.
LEMMA ReplayEndStep ==
    ASSUME TypeOK, MessageInv, ReplayEnd
    PROVE  Step
<1>1. /\ up /\ todo # <<>> /\ Head(todo).op = "replay"
      /\ UNCHANGED <<db, chats, seen, dropped>>
      /\ todo' = Tail(todo)
      BY DEF ReplayEnd, Calling, observed
<1>2. PICK c, u, after, rows :
         c = Head(todo) /\ u = c.user /\ after = c.after /\ rows = db.messages
      OBVIOUS
<1>3. after \in Nat /\ todo \in Seq(Calls) /\ Tail(todo) \in Seq(Calls)
      BY <1>1, <1>2, TodoTypes, CallKinds DEF Replays, TypeOK
<1>4. Leads(todo, u, after) /\ Forgets(Tail(todo), u)
      BY <1>1, <1>2, CourseReplay DEF MessageInv, Looping, Loops
<1>5. Rest(c) = {}
      BY <1>2, NothingLeftOut, LoopIsOver DEF ReplayEnd
<1>6. \A r \in RowsOf(rows, u) : r.id <= after
  <2>1. ASSUME NEW r \in RowsOf(rows, u)
        PROVE  r.id \in Nat /\ ~(r.id > after)
        BY <1>2, <1>5 DEF MessageInv, RowsAreChats, RowsOf, Rest,
                          getMessageOfUser, TypeOK
  <2>. QED  BY <1>3, <2>1
<1>7. UpTo(rows, u, after) = RowsOf(rows, u)
      BY <1>6 DEF UpTo
<1>8. Hand = {} /\ Done = IdsOf(UpTo(rows, u, after))
      BY <1>2, <1>3, <1>4, LeadsMap DEF Hand, Done
<1>9. Hand' = {} /\ Done' = IdsOf(RowsOf(rows, u))
      BY <1>1, <1>2, <1>3, <1>4, ForgetsMap DEF Hand, Done
<1>10. Observes /\ Stored' = Stored
       BY <1>1 DEF Observes, Stored
<1>. QED  BY <1>7, <1>8, <1>9, <1>10, SameStep

\* What is written behind the last row is no message.
LEMMA ReplayJunkStep ==
    ASSUME TypeOK, MessageInv, ReplayJunk
    PROVE  Step
<1>0. PICK junk, u, after, rows :
         /\ junk = Reply(Head(todo).fd, "sendMess")
         /\ u = Head(todo).user /\ after = Head(todo).after
         /\ rows = db.messages
      OBVIOUS
<1>1. /\ up /\ todo # <<>> /\ Head(todo).op = "replay"
      /\ UNCHANGED <<db, chats, seen, dropped>>
      /\ todo' = junk \o todo
      BY <1>0 DEF ReplayJunk, Calling, observed
<1>2. Head(todo).fd \in Fds
      BY <1>1, TodoTypes, CallKinds DEF Replays
<1>3. junk \in Seq(Calls) /\ Silent(junk) /\ todo \in Seq(Calls)
      BY <1>0, <1>2, ReplyType, SilentReply DEF AnswerTypes, TypeOK
<1>4. Leads(todo, u, after)
      BY <1>1, <1>0, CourseReplay DEF MessageInv, Looping
<1>5. Leads(todo', u, after) /\ todo' \in Seq(Calls)
      BY <1>1, <1>3, <1>4, LeadsBehind, TwoListsType
<1>6. Hand = {} /\ Done = IdsOf(UpTo(rows, u, after))
      BY <1>0, <1>3, <1>4, LeadsMap DEF Hand, Done
<1>7. Hand' = {} /\ Done' = IdsOf(UpTo(rows, u, after))
  <2>1. rows = db'.messages
        BY <1>1, <1>0
  <2>. QED  BY <1>5, <2>1, LeadsMap DEF Hand, Done
<1>8. Observes /\ Stored' = Stored
      BY <1>1 DEF Observes, Stored
<1>. QED  BY <1>6, <1>7, <1>8, SameStep

\* A statement: a message is stored, those of a user are forgotten, or another
\* table is meant.
LEMMA ExecuteStep ==
    ASSUME TypeOK, DatabaseInv, MessageInv, Execute
    PROVE  Step
<1>0. CASE Rejected(db, Head(todo).stmt)
      BY <1>0, DiesStep DEF Execute
<1>. SUFFICES ASSUME ~Rejected(db, Head(todo).stmt) PROVE Step
     BY <1>0
<1>1. /\ up /\ todo # <<>> /\ Head(todo).op = "sql"
      /\ todo' = Tail(todo) /\ db' = Run(db, Head(todo).stmt) /\ Observes
      BY DEF Execute, Calling, Observes, observed
<1>2. /\ todo \in Seq(Calls) /\ Tail(todo) \in Seq(Calls) /\ IsDatabase(db)
      /\ RowsAreChats
      BY <1>1, TodoTypes DEF TypeOK, MessageInv
<1>3. ASSUME NEW row, Storing(row)
      PROVE  Step
  <2>1. /\ Stores(todo, row) /\ Silent(todo')
        /\ Head(todo).stmt = saveMessage(row)
        BY <1>1, <1>3 DEF Storing, Stores, SaveCall
  <2>2. db'.messages = db.messages \cup {row}
        BY <1>1, <1>2, <2>1, RunMessageRows
  <2>3. Stored' = Stored \cup {row.id}
        BY <2>2 DEF Stored, IdsOf
  <2>4. Hand = {row.id} /\ Done = {}
        BY <1>2, <2>1, StoresMap DEF Hand, Done
  <2>5. Hand' = {} /\ Done' = {}
        BY <2>1, SilentMaps DEF Hand, Done
  <2>. QED  BY <1>1, <2>3, <2>4, <2>5, KeepStep
<1>4. ASSUME NEW u \in Users, Forgetting(u)
      PROVE  Step
  <2>1. /\ Forgets(todo, u) /\ Silent(todo')
        /\ Head(todo).stmt = deleteMessageOfUser(u)
        BY <1>1, <1>4 DEF Forgetting, Forgets, ForgetCall
  <2>2. db'.messages = {r \in db.messages : r.receiver # u}
        BY <1>1, <1>2, <2>1, RunMessageRows
  <2>3. \A r, s \in db.messages : r.id = s.id => r.receiver = s.receiver
        BY <1>2 DEF RowsAreChats
  <2>4. Stored' = Stored \ IdsOf(RowsOf(db.messages, u))
        BY <2>2, <2>3 DEF Stored, IdsOf, RowsOf
  <2>5. Hand = {} /\ Done = IdsOf(RowsOf(db.messages, u))
        BY <1>2, <2>1, ForgetsMap DEF Hand, Done
  <2>6. Hand' = {} /\ Done' = {}
        BY <2>1, SilentMaps DEF Hand, Done
  <2>. QED  BY <1>1, <1>2, <2>4, <2>5, <2>6, ForgetStep
<1>5. CASE AboutMessages(Head(todo))
      BY <1>1, <1>3, <1>4, <1>5, CourseSql DEF MessageInv
<1>6. CASE ~AboutMessages(Head(todo))
  <2>1. /\ Head(todo).stmt \in Statements
        /\ Head(todo).stmt.op \notin {"saveMessage", "deleteMessageOfUser"}
        BY <1>1, <1>6, TodoTypes, CallKinds DEF AboutMessages, Sqls
  <2>2. db'.messages = db.messages
        BY <1>1, <1>2, <2>1, RunOther
  <2>3. todo' = <<>> \o Tail(todo)
        BY <1>1, <1>2, ConcatEmptySeq
  <2>. QED  BY <1>1, <1>2, <1>6, <2>2, <2>3, NoCallType, SilentNone,
               OtherCallStep
<1>. QED  BY <1>5, <1>6

\* A message is accepted while nothing is under way.
LEMMA OneToOneChatStep ==
    ASSUME TypeOK, MessageInv, up, todo = <<>>, NEW fd \in Fds, checkfd(fd),
           NEW mess \in Texts, OneToOneChat(fd, mess)
    PROVE  Step
<1>0. PICK u, v, id, rows :
         /\ u = LastUserByfd(mapuser, fd) /\ v = mapuser[u].state.name
         /\ id = Len(chats) + 1 /\ rows = db.messages
      OBVIOUS
<1>1. UNCHANGED <<db, seen, dropped>>
      BY DEF OneToOneChat, Does
<1>2. CASE mapuser[u].state.type = 1 /\ v \in DOMAIN mapuser
  <2>. DEFINE chat == [from |-> u, to |-> v, mess |-> mess]
              row == [id |-> id, sender |-> u, receiver |-> v, mess |-> mess]
              fds == {mapuser[v].fd}
              write == [op |-> "write", fds |-> fds, pk |-> ChatAnswer(id)]
  <2>1. u \in Users /\ v \in Users /\ mapuser[v] \in Accounts
        BY <1>0, <1>2, MemoryTypes, MapValue, LastUser_Is DEF checkfd
  <2>2. chats' = Append(chats, chat) /\ todo' = Deliver(u, v, mess, id)
        BY <1>0, <1>2 DEF OneToOneChat, Does
  <2>3. chat \in Chats /\ chat.to = v /\ id \in Nat \ {0} /\ Len(chats) \in Nat
        BY <1>0, <2>1 DEF Chats, TypeOK
  <2>4. id \notin IdsOf(rows)
        BY <1>0, <2>3 DEF MessageInv, RowsAreChats, IdsOf
  <2>5. Hand = {} /\ Done = {}
        BY SilentNone, SilentMaps DEF Hand, Done
  <2>6. ASSUME mapuser[v].fd = NoFd
        PROVE  Hand' = {id} /\ Done' = {}
    <3>1. todo' = <<SaveCall(row)>> /\ row.id = id /\ row \in MessageRows
          BY <2>1, <2>2, <2>3, <2>6
          DEF Deliver, Sql, SaveCall, MessageRows
    <3>. HIDE DEF row
    <3>2. Stores(todo', row)
          BY <3>1, OnlyCall, SilentNone DEF Stores
    <3>3. todo' \in Seq(Calls)
      <4>1. saveMessage(row) \in Statements
            BY <3>1 DEF saveMessage, Statements
      <4>2. SaveCall(row) \in Calls
            BY <4>1 DEF SaveCall, Calls, Sqls
      <4>. QED  BY <3>1, <4>2, OneCallType
    <3>. QED  BY <3>1, <3>2, <3>3, StoresMap DEF Hand, Done
  <2>7. ASSUME mapuser[v].fd # NoFd
        PROVE  Hand' = {id} /\ Done' = {}
    <3>1. todo' = <<write>>
          BY <2>2, <2>7 DEF Deliver, WriteAll
    <3>2. /\ write.op = "write" /\ write.pk.id = id /\ write.fds = fds
          /\ mapuser[v].fd \in Fds /\ write \in Calls
          BY <2>1, <2>3, <2>7, AnswerIds, ChatAnswerType
          DEF Accounts, Writes, Calls
    <3>. HIDE DEF write
    <3>3. Hands(todo', id) /\ Silent(Tail(todo')) /\ todo' \in Seq(Calls)
          BY <3>1, <3>2, OnlyCall, SilentNone, OneCallType DEF Hands
    <3>4. Hand' = {id} \ IdsOf(rows) /\ Done' = {}
          BY <1>1, <1>0, <2>3, <3>3, HandsMap DEF Hand, Done
    <3>. QED  BY <2>4, <3>4
  <2>8. Hand' = {Len(chats) + 1} /\ Done' = {}
        BY <1>0, <2>6, <2>7
  <2>9. Stored' = Stored
        BY <1>1 DEF Stored
  <2>. HIDE DEF chat
  <2>. QED  BY <1>1, <2>1, <2>2, <2>3, <2>5, <2>8, <2>9, AcceptStep
<1>3. CASE ~(mapuser[u].state.type = 1 /\ v \in DOMAIN mapuser)
  <2>1. /\ todo' = IF mapuser[u].state.type = 2 THEN RoomChat(v) ELSE <<>>
        /\ UNCHANGED chats
        BY <1>0, <1>3 DEF OneToOneChat, Does
  <2>2. Silent(todo') /\ Silent(todo)
        BY <2>1, SilentParts, SilentNone
  <2>. QED  BY <1>1, <2>1, <2>2, SilentStep DEF Observes
<1>. QED  BY <1>2, <1>3

\* A login that finds stored messages starts the loop, which has passed none.
LEMMA LoginStep ==
    ASSUME TypeOK, MessageInv, up, todo = <<>>, NEW fd \in Fds,
           NEW u, NEW p, Login(fd, u, p)
    PROVE  Step
<1>1. Silent(todo)
      BY SilentNone
<1>2. CASE ~LoginAccepted(u, p)
  <2>1. Answers(fd, "loginFail")
        BY <1>2 DEF Login
  <2>2. Silent(todo') /\ Observes /\ db'.messages = db.messages
        BY <2>1, AnswersPlain DEF Answers, Does, Observes
  <2>. QED  BY <1>1, <2>2, SilentStep
<1>3. CASE LoginAccepted(u, p)
  <2>1. UNCHANGED <<db, chats, seen, dropped>> /\ \E v : Looked(fd, u, v)
        BY <1>3, LoginLooks
  <2>2. PICK v : Looked(fd, u, v)
        BY <2>1
  <2>3. Observes /\ db'.messages = db.messages /\ Stored' = Stored
        BY <2>1 DEF Observes, Stored
  <2>4. CASE Silent(todo')
        BY <1>1, <2>3, <2>4, SilentStep
  <2>5. CASE Leads(todo', v, 0)
    <3>1. Hand = {} /\ Done = {}
          BY <1>1, SilentMaps DEF Hand, Done
    <3>2. IdsOf(UpTo(db.messages, v, 0)) = {}
          BY DEF MessageInv, RowsAreChats, IdsOf, UpTo, RowsOf, TypeOK
    <3>3. todo' \in Seq(Calls)
          BY LoginType DEF TypeOK
    <3>4. Hand' = {} /\ Done' = IdsOf(UpTo(db'.messages, v, 0))
          BY <2>5, <3>3, LeadsMap DEF Hand, Done
    <3>. QED  BY <2>3, <3>1, <3>2, <3>4, SameStep
  <2>. QED  BY <2>2, <2>4, <2>5 DEF Looked
<1>. QED  BY <1>2, <1>3

LEMMA ReceiveStep ==
    ASSUME TypeOK, MessageInv, NEW fd \in Fds, NEW p \in Packages,
           Receive(fd, p)
    PROVE  Step
<1>1. up /\ todo = <<>> /\ Silent(todo)
      BY SilentNone DEF Receive, Reads, Visits
<1>2. CASE p.type = "loginn" /\ Login(fd, p.user, p.password)
      BY <1>1, <1>2, LoginStep
<1>3. CASE checkfd(fd) /\ p.type = "sendMess" /\ OneToOneChat(fd, p.mess)
  <2>1. p.mess \in Texts
        BY <1>3 DEF Packages
  <2>. QED  BY <1>1, <1>3, <2>1, OneToOneChatStep
<1>4. CASE Calm
  <2>1. Silent(todo') /\ Observes /\ db'.messages = db.messages
        BY <1>4 DEF Calm, Observes
  <2>. QED  BY <1>1, <2>1, SilentStep
<1>. QED  BY <1>2, <1>3, <1>4, ReceiveKinds DEF HandledAs

LEMMA DisconnectStep ==
    ASSUME TypeOK, NEW fd \in Fds, Disconnect(fd)
    PROVE  Step
<1>1. Silent(todo) /\ Observes /\ db'.messages = db.messages
      BY SilentNone DEF Disconnect, Visits, Observes, observed
<1>2. Silent(todo')
      BY DisconnectPlain
<1>. QED  BY <1>1, <1>2, SilentStep

\* The surroundings change nothing that is mapped.
LEMMA OutsideStep ==
    ASSUME UNCHANGED <<todo, db, chats, seen, dropped>>
    PROVE  Step
<1>1. Hand' = Hand /\ Done' = Done /\ Stored' = Stored /\ Observes
      BY DEF Hand, Done, Stored, Observes, CallsIn
<1>. QED  BY <1>1, SameStep

LEMMA NextStep ==
    ASSUME TypeOK, DatabaseInv, MessageInv, Fetched, [Next]_vars
    PROVE  Step
<1>1. ASSUME NEW fd \in Fds, NEW p \in Packages, Receive(fd, p)
      PROVE  Step
      BY <1>1, ReceiveStep
<1>2. ASSUME NEW fd \in Fds, Disconnect(fd)
      PROVE  Step
      BY <1>2, DisconnectStep
<1>3. CASE Call
      BY <1>3, WriteStep, ReplayRowStep, ReplayEndStep, ReplayJunkStep,
         ExecuteStep, CloseStep DEF Call
<1>4. CASE Crash \/ \E fd \in Fds : Sigpipe(fd)
      BY <1>4, DiesStep DEF Crash, Sigpipe
<1>5. CASE \/ \E fd \in Fds : Connect(fd) \/ Hangup(fd) \/ Reset(fd)
           \/ Restart \/ Stopped \/ UNCHANGED vars
  <2>1. UNCHANGED <<todo, db, chats, seen, dropped>>
        BY <1>5 DEF Connect, Hangup, Reset, Restart, Stopped, vars, observed
  <2>. QED  BY <2>1, OutsideStep
<1>. QED  BY <1>1, <1>2, <1>3, <1>4, <1>5 DEF Next

LEMMA InitStep == Init => M!Init
<1>. SUFFICES ASSUME Init
              PROVE  M!Init
     OBVIOUS
<1>1. chats = <<>> /\ seen = [u \in Users |-> <<>>] /\ dropped = {}
      BY DEF Init
<1>2. Silent(todo) /\ db.messages = {}
      BY SilentNone, InitDbAssumption DEF Init
<1>3. Hand = {} /\ Done = {} /\ Stored = {}
      BY <1>2, SilentMaps DEF Hand, Done, Stored, IdsOf
<1>4. To = <<>>
  <2>1. chats \in Seq(Chats) /\ Len(chats) = 0
        BY <1>1, EmptySeq
  <2>2. To \in Seq(Users) /\ Len(To) = 0
        BY <2>1, ToOfType DEF To
  <2>. QED  BY <2>2, EmptySeq
<1>. QED  BY <1>1, <1>3, <1>4, MappedNow DEF Mapped, M!Init, To, ToOf

-----------------------------------------------------------------------------
(* The theorem.                                                            *)

\* Private messages are neither lost, repeated nor reordered other than by the
\* end of the process, for any accounts and connections, when there are no
\* rooms or no restarts, no message is blank and nobody logs in twice on one
\* connection: ChatServer implements Mailbox.
THEOREM MailboxKept ==
    ASSUME LoginOnce
    PROVE  Spec => KeepsMailbox
<1>1. /\ TypeOK /\ DatabaseInv /\ MessageInv /\ Restarts /\ [Next]_vars
      => [M!Next]_(M!vars)
      BY NextStep, NothingLeftOut DEF Step
<1>2. Init => M!Init /\ Restarts
      BY InitStep DEF Init, Restarts
<1>3. Restarts /\ [Next]_vars => Restarts'
      BY NeverAgain DEF Restarts
<1>. QED  BY <1>1, <1>2, <1>3, MessageInvariant, PTL
          DEF Spec, KeepsMailbox, M!Spec
=============================================================================
