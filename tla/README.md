# A TLA+ verification of ChatServiceSocketCpp

The repository is a terminal chat service in C++: a server (`src/server`), a
client (`src/client`) and a MySQL database (`src/server/init.sql`). Users log
in, chat with one user or in a room, and messages to absent users are stored.
Administrators manage accounts and rooms. This directory holds TLA+ modules that
model the server, the client and the database, TLC configurations that check
them on small instances, and proofs for every instance checked by TLAPS.

Contents: 1 the system, 2 the modules, 3 modelling decisions, 4 the runs,
5 what the code does not keep, 6 the proofs, 7 what is not modelled, 8 the plan.

## 1. The system

### Parts, state and operations

| Part | State | Operations |
|---|---|---|
| Server, handlers (`server/service/sock_connect.cpp`) | `mapuser` (account -> password, role, state, descriptor), `roomMap` (room -> `Room`) | one handler for each type of package in `analyzePackage`; `changeStateUserOff` when a connection ends; `Init` at the start |
| Server, poll loop (same file, `EventServer`, `Execute`) | `client_fd[POLL_SIZE]`, `maxi`, `nready` | accept, read one package, find the end of a connection |
| Room (`server/models/Room.cpp`) | capacity, count and array of member descriptors | `add`, `removeUser`, `find`, `setCapacity`, `listClients` |
| Accounts (`server/models/user.h`) | password, role, `STATE` (nothing, a user, a room) | getters and setters |
| Packages (`models/package.h`, `commonStruct.h`) | a type and a union, copied raw to TCP | one setter per type |
| Database (`server/init.sql`, `server/responsibility`, `databaseAccess.cpp`) | tables `users`, `rooms`, `messages`, `roles` | stored procedures and statements, one transaction each |
| Database connection (`MySQLAccess.cpp`) | one connection per statement | `GetHandle`; it ends the server when MySQL is away |
| Client (`client/service/client.cpp`) | the flags `flag_l`, `flag_w`, `flag_w_online`, `flag_j`, the peer `userw`, the room `roomw`, the user that is logged in | main: read a line, send, wait; receiving thread: `receiverHandler`, `doRecieving` with reconnection |
| Text decoration, utilities, entry points, build and deployment | none | layout, copying, start-up |

### How the parts interact

The server is one thread. `poll()` reports descriptors; `Execute` reads one
package of one descriptor and runs its handler to the end. A handler reads and
writes the two maps, calls the database, and writes packages to any number of
connections. Between two handlers nothing is kept but the maps, the tables and
what the operating system holds of the connections. A restart rebuilds the maps
from the tables (`mapUser`, `mapRoom`).

A client process has two threads. Main shows a prompt chosen from the flags,
sends a package for a line and waits on a condition variable. The receiving
thread sets the flags from what the server writes and signals the condition for
nearly every package. If the server goes away the receiving thread tries to
connect again and repeats the login by itself.

### What is hard here

- A handler is not atomic for the outside: the process can be killed, or killed
  by `SIGPIPE` or an uncaught SQL exception, between any two of its calls.
- Facts are kept twice: a user's room in `STATE` and in the list of the room, an
  account in the map and in the table, a chat on the server and in the flags.
- Descriptors are reused by `accept()` as soon as they are closed; every list
  that still holds one then names another process.
- Main is woken by packages that are not its answer.
- Messages move from stored to direct delivery while a user logs in.
- After a restart everybody's state comes back and nobody is online.
- The two threads of a client share the flags, the socket and a condition
  variable; the mutex they have in common protects none of them.
- Copies of a `Room` share one array, and names and `revents` are read from
  memory nothing initialised.
- One room can have three names: its key in the map, the name its object gives
  back and the name of its row.
- The table of descriptors is finite, and a round over it ends early.

`PROJECT.json` lists the hazards of the code at their lines, each with the
properties that cover it, or the reason why none does.

### What makes each part correct

- *Handlers*: maps and tables agree between handlers; an administrator is always
  left; no statement violates a key; a user in a room is in its list; accepted
  messages are stored, delivered or known to have met a closed connection, in
  order and once; a user that has gone is set offline.
- *Private messages*: the server is a mailbox. What it accepts is handed over or
  stored, what is stored is handed out oldest first and then deleted, and only
  the end of the process loses or repeats a message.
- *Poll loop*: every connection that is accepted and not closed is in the part of
  the table `poll()` looks at, in one element; its end is read.
- *Room*: never more members than places, never one twice; each room has an
  array of its own that is allocated and long enough.
- *Client threads*: main gets the mutex back after a wait; it does not send on a
  new socket that is not connected yet; a wait whose answer was not lost ends.
- *Client and server*: prompt and state agree when nothing is under way, the
  peer's mark is true, room counts are true, an accepted login is told, private
  messages reach processes of their receiver only, a wait that began in time ends.

## 2. The modules

| Module | What it is |
|---|---|
| `Maps` | partial functions, for `std::map` and for tables |
| `ChatBase` | names, `STATE`, roles |
| `Room` | `Room.cpp` as operators on `[roomID, capacity, members]` |
| `Protocol` | packages of both directions |
| `Database` | the three tables, every statement that changes one, and the keys that reject it (`Rejected`) |
| `ChatServer` | the server over open clients; extends the five above |
| `ChatClient` | the client processes: place of main, flags, `receiverHandler` |
| `ChatSystem` | `ChatServer` and `ChatClient` connected by ordered connections |
| `Mailbox` | abstract: what the server promises about private messages |
| `ServerMailbox` | the mapping under which `ChatServer` implements `Mailbox` |
| `RoomTable` | abstract: what the handlers do to rooms that are values |
| `RoomHeap` | the rooms as objects with a shared array and a name that may not be terminated; implements `RoomTable` |
| `PollLoop` | `client_fd`, `maxi`, `nready`, `revents`: which descriptor is read next |
| `ClientThreads` | main and the receiving thread of one client, step by step |
| `MCChatServer`, `MCServerMailbox`, `MCChatSystem`, `MCRoomHeap` | values of the constants for TLC |
| `ChatServerProofs` | facts about maps, rooms and calls; `TypeOK`, `RoomsSound`, `InRoomIsMember`, `MemoryMirrorsDatabase`, `NoStatementRejected`, `AdminSurvives` |
| `MessageProofs` | `EveryChatAccounted`, `InOrderOnce`, `StoredUntilWritten` |
| `MailboxProofs` | `ChatServer` implements `Mailbox` |
| `SystemProofs` | `ChatSystem` implements `ChatServer`, and what follows for the system; `OneConnectionPerUser`, `AcceptedLoginIsTold`, `PrivateChatsArePrivate` |
| `StepProofs` | `PromptIsTheState`, `PeerStatusIsTrue`, `RoomCountsUsersInIt` |
| `ClientThreadsProofs` | `MutexNeverBlocks`, `CheckProtects` |
| `PollLoopProofs` | `TableIsExact` and `BlocksOnNewOnly` |
| `RoomHeapProofs` | `ArraysSound`; `RoomHeap` implements `RoomTable` |

Two refinements tie the modules together, each of them checked and proved:
`RoomHeap` implements `RoomTable` and `ChatServer` implements `Mailbox`. A step of
`ChatSystem` is a step of `ChatServer` or leaves it alone, by construction but for
the packages that are sent (`SystemIsServer`), so what is proved of the server
holds of the system. `PollLoop` and `ClientThreads` look
inside one step of `ChatServer` and `ChatClient`: the choice of the descriptor,
and the send with the wait after it.

### ChatServer and the code

`mapuser` and `roomMap` are the maps of the code, `db` is the database. `sock`
is what the kernel knows of each descriptor: `free`, `open`, `closed` (the peer
has gone and its end is not read) or `reset`. `todo` is the rest of the running
handler: the calls to `write()`, the database and `close()` that it has still to
make. `reading` is the new connection in whose first `read()` the loop waits, if
it does: `Connect` chooses, as the `revents` nothing has set do, and no other
connection is visited until that client has sent something or gone (`Visits`).
A room in `roomMap` carries the name its object gives back (`roomID`), which may
be longer than its key when it was created by `addRoom` (`ReadBack`); `misread`
collects such keys and such longer names since the process was started, and only
observes. `chats`, `seen` and `dropped` only observe private messages: those
accepted, those written to each receiver, those written to a closed connection.

| Action | Code |
|---|---|
| `Receive(fd, p)` | `Execute` reads a package; `analyzePackage` picks the handler operator of the same name (`Login`, `WithFunction`, `JoinRoom`, `RoomChat`, `OneToOneChat`, `LeaveChatUser`, `AddUser`, `DeleteUser`, `handleModifyUser`, `addRoom`, `ModifyRoom`, `DeleteRoom`, `ShowRoom`, `getListRoles`, `getUserOnline`, `FindUser`) |
| `Disconnect(fd)` | `read()` returns 0 or an error: `changeStateUserOff`, `notificationOffline`, `close` |
| `Write`, `Execute`, `Close` | the next call in `todo` |
| `ReplayRow`, `ReplayEnd`, `ReplayJunk` | the loop of `handleOfflineMessage` over the stored messages: a row, the end, or the element behind the array, which nothing initialises |
| `Sigpipe(fd)` | a write to a reset connection ends the process |
| `Connect`, `Hangup`, `Reset` | `accept()`; the peer ends; its kernel sends RST |
| `Crash`, `Restart`, `Stopped` | the process is killed or `GetHandle` calls `exit`; `Init` on the tables; the server is down for good |

### ChatClient, ChatSystem and the code

`client[c]` holds the globals of `client.cpp` and `at`, where main is: a prompt
(`login`, `command`, `with`, `room`), the wait, or on the way to it: `sent` after
a send that is followed by `pthread_cond_wait`, `break` after one that makes
`commandHandler` break, where `Excecute` looks at the flags once more. A signal
that comes before the wait finds nobody. `MainGoes` is main on this way. `queue[c]` holds what was sent
and not yet read. `Type` is a line at a prompt (`loginHandler`,
`commandHandler`, `withHandler`, `roomHandler`), `TypeAway` a line while the
server is away (`LineLost`: lost, or refused with `userw` and `roomw` already set), `SendRelogin` the login that the receiving thread repeats.
`ServerReads` is `Receive` on the oldest package of a queue, `ServerCalls` a
call of the server with what the receiving thread does about it. `Starts`,
`Reconnects`, `Exits`, `ResetBy`, `ServerDies`, `ServerStarts` and
`ServerStopped` pair the steps of the surroundings with the client's side.

### Mailbox and ServerMailbox

A message in `Mailbox` is its place in the order of acceptance. `hand` is the one
that is accepted and neither given nor stored: in the code it is in a call of
`OneToOneChat` that is still to be made. `stored` is the table `messages`.
`done` are the stored messages given to their receiver but not deleted yet: the
rows `handleOfflineMessage` has passed, until `deleteMessageOfUser`. `Deliver`
requires that nothing is stored for the receiver and `Replay` that the oldest
comes first, which is how order is promised; `Forget` requires that all were
given. `Lose` is the end of the process: it forgets what was in hand, and what
was given but not deleted, so that a message can be lost before it is stored and
given twice after a restart, and nothing else can go wrong.

The mapping leaves out two cases in which the code does not keep the promise: a
blank message (section 5), and a login into a restored room that is full, which
returns before the stored messages are written. Both are excluded by assumptions
of `ServerMailbox` on the instance: no blank texts, and no rooms or no restarts,
since only a restart brings back a user who is in a room. A third is excluded by
the instance's `LoginOnce`: of two users on one connection, the code looks up the
stored messages of the first.

### RoomHeap and the code

`roomMap` is the map, `heap` the arrays by address. An object is
`[capacity, availableUsers, array, roomID]`; a copy of it holds the same
address. `addRoom` is the constructor (`new int[capacity]`, cells of any value;
the name copied without a terminator, so that `getRoomID` returns the name or a
longer one), `JoinRoom` is `add` on a copy, written back, `LeaveRoom` is
`removeUser` on a copy, `erase` and `insert` under `getRoomID()`, `ModifyRoom` is
`setRoomID` and `setCapacity` with the exchange of the arrays, `DeleteRoom` is
`erase`. Nothing deletes the array of a deleted room; the model keeps it
allocated too. `RoomTable` sees the rooms whose name is terminated.

### PollLoop and the code

| Action | Code |
|---|---|
| `Poll` | `poll(client_fd, maxi+1, -1)`: stores `revents`, counts `nready` |
| `Accept`, `NoAccept` | `EventServer` |
| `ReadPackage`, `ReadEnd`, `ReadError` | the loop of `Execute` at an element with `POLLRDNORM` or `POLLERR`: a package, the end or a reset, `EBADF` |
| `Pass`, `EndRound` | `continue` or nothing to read; `i > maxi` |
| `Arrive`, `Send`, `Hangup` | the other ends |

`revents` of every element starts with any value, as the member array does. When
the table is full the code works on `client_fd[POLL_SIZE]`, which does not exist:
`clilen`, 16 after `accept()`, lies there, so the element seems to be in use with
descriptor 16. The model keeps this element as `fd[Size]`.

### ClientThreads and the code

`pc` is the place of main, `rpc` that of the receiving thread. One command is
taken apart into the check of `flag_check`, `send`, and the two halves of
`pthread_cond_wait` (`Wait` unlocks the mutex whoever locked it, `Relock` locks it
again); a package is taken apart into `recv` and one step for each flag and for
the signal (`EffectsOf` lists them by type). `SetFlag`, `NewSocket`, `Reconnect`
and `Reconnected` are the four points of the reconnection that main can fall
between. `why` observes what happened to the request main has made: a signal
came before the wait (`early`), the connection was lost (`lost`), the package was
not sent (`unsent`) or gets an answer that does not signal (`silent`).

## 3. Modelling decisions

- *A handler is one action on memory and a queue of calls.* Only the server's
  thread touches the maps, so nobody can see them halfway. What others can see
  or interrupt is the calls, and each is a step with every crash, hang-up and
  reset possible before it. No package is read while `todo` is not empty.
- *Open clients in `ChatServer`.* Any connection may send any package at any
  time. `LoginOnce` says that a connection which is logged in sends no second
  login, for properties that hold only with such clients; `ChatSystem`, where
  the client's code decides, sets it to `FALSE` and needs no such assumption.
- *A package from the server is handled by the client in the step that writes
  it.* A later arrival gives the server no other order of packages: until the
  answer comes main waits or, woken by another package, sends on, and it can do
  that here too, before the request is read.
- *A client keeps its slot when it reconnects.* The restarted server knows no
  descriptor, so another number is the same behaviour with two slots exchanged.
- *The wait begins some time after the send*, in `ChatClient` as in the code, and
  an answer in between signals nobody. `WaitEnds` is therefore about clients whose
  request the server has not read when they wait; `WaitEndsOrWhy` in
  `ClientThreads` says what else can keep main waiting. In `ChatClient` every line
  of a prompt may be sent by a process whose receiving thread moves it to another
  prompt in between, as in the code; only the places of main are kept.
- *The order of stored messages.* `getMessageOfUser` has no `ORDER BY`; `NextRow`
  takes the rows by their keys, the order in which InnoDB reads the rows of one
  receiver from the index on that column. SQL does not promise it.
- *The collation* of the keys is a function from names to what the tables
  compare (`Collation`). Only the two `INSERT`s of names depend on it: every other
  statement names a row that is there as it is, and no two rows compare equal.
- *The server of `ClientThreads`* answers in order, sends messages of others and
  may end; which answers a request can get is read off the handlers
  (`AnswersTo`).
- *A read of memory nothing initialised* yields any value: the element behind the
  stored messages (`ReplayJunk`), `revents`, the bytes behind a room's name, the
  cells of a new array. A write behind an array is never made in `RoomHeap`
  (`ArraysSound`); the read behind one in `removeUser` yields `Junk`.
- *The number of a message is its place in the order of sending.* It stands for
  the `AUTO_INCREMENT` key; rows are compared by the order of their keys only.
- *Writes to several members of one room* happen in any order: receivers cannot
  compare their order.
- *A write to a reset connection* fails silently or ends the process
  (`Sigpipe`): a first write after the peer has gone succeeds, the RST it causes
  makes a later one raise the signal.
- *Texts* are `"text"` or `"blank"`. A line that is only a colour mark is sent
  with an empty text, which the loop over stored messages takes for the end.
- *Bounds.* `MaxChats` private messages are accepted, `MaxQueue` packages wait
  on a connection, `MaxRestarts` starts follow the first one. Reaching a bound
  only disables the step that would pass it. `MaxUnread` packages are unread on a
  connection in `PollLoop`, `Blocks` are the addresses `new` may return in
  `RoomHeap`, and `MaxRequests`, `MaxStrays`, `MaxDeaths` bound packages on the
  wire, messages of others and ends of the server in `ClientThreads`. A server
  that dies with the budget of restarts used up stutters in `Stopped`. Deadlock
  checking is off in the runs of `RoomHeap`, where the addresses run out, and of
  `ClientThreads`, where main may wait for ever or the process be killed.

### Fairness

`FairSystemSpec` has weak fairness of `ServerCalls` (the server's one thread goes
on with its handler), strong fairness of its `ReplayEnd` (the junk behind the array
of stored messages is finite memory, so the loop that reads it ends) and, for each
descriptor, strong fairness of a visit, which is `ServerReads` or
`ServerDisconnects`. A visit is disabled while the loop waits in the first `read()`
of another connection, so this promises nothing if that wait never ends:
`GoneIsSetOffline` and `WaitEnds` have that condition, `[]<>(reading = NoFd)`, as
`EndIsRead` has `Blocked`. Otherwise the loop of `Execute` looks at every descriptor
again and again; it may leave a round early when `nready` is used up, but `poll()`
reports a closed connection until it is read, so its turn comes. Nothing is assumed
of the users, of the network or of anybody who kills or starts the server.
`PollLoop` justifies the assumption about visits: it has weak fairness of the
server's one thread only, and `EndIsRead` follows. `ClientThreads` has weak fairness of
main where it does not wait for its user (`Runs`), of the receiving thread and of
the server's answers; the operating system runs both threads. A call is assumed to return: `write()` to a client that does not read would block the
server in the code.

## 4. The runs

The server and the system run with two descriptors, one password and the accounts
`admin` and `test1`; `Fds` are symmetric except where liveness is checked. Two
connections are enough for the sharing of descriptors: one that is closed, and
the other user whose handlers run in between. Either account can be absent,
deleted or created again while the other works.

| Run | Checks | Instance | States |
|---|---|---|---|
| `ServerAdmin` | `TypeOK`, `MemoryMirrorsDatabase`, `NoStatementRejected`, `AdminSurvives`, `RoomsSound`, `InRoomIsMember` | every request but `withh` and messages, two rooms, the name of one of which may be read back as that of the other, capacities 1 and 2, one restart | 2 253 072 |
| `ServerChat` | `NoStatementRejected`, `InOrderOnce`, `EveryChatAccounted`, `StoredUntilWritten`, the refinement `KeepsMailbox` | three messages, one restart, no room | 1 326 100 |
| `SystemQuiet` | `RoomCountsUsersInIt`, `PromptIsTheState`, `PeerStatusIsTrue`, `AcceptedLoginIsTold` | clients, one room, no messages, no restart | 445 370 |
| `SystemChat` | `PrivateChatsArePrivate`, `OneConnectionPerUser`, `ClientTypeOK` | clients, one message, one restart with repeated logins, no room | 1 802 140 |
| `SystemWaits` | `WaitEnds`, `GoneIsSetOffline` (`FairSystemSpec`) | clients, a line of each prompt, a room of one place, a loop that may wait for a new connection | 116 154 |
| `PollLoop` | `TypeOK`, `TableIsExact`, `BlocksOnNewOnly`, `EndIsRead` | three descriptors, two elements and the listening socket | 166 323 |
| `ClientThreads` | `MutexNeverBlocks`, `CheckProtects`, `WaitEndsOrWhy` | commands of each kind of send and wait, two messages of others, one end of the server | 338 906 |
| `RoomHeap` | `TypeOK`, `ArraysSound`, the refinement `KeepsTable` | two rooms, capacities 0 and 3, three descriptors, three addresses | 16 936 |
| `BlankMessage` | `StoredUntilWritten` is violated | two messages, one of them blank | |
| `PrivateToStranger` | `PrivateChatsArePrivate` is violated | clients, a room of two places, two messages | |
| `LostWakeup` | `LoginIsAnswered` is violated | one client, nobody else, no end of the server | |
| `RoomRenamed` | `PopulatedStays` is violated | one room of two places | |

What the passing runs show.

- `ServerAdmin`: every handler that changes a map changes its table in the same
  way, and nobody can lock every administrator out, although a statement is
  decided on memory and run some steps later. The two copies of "u is in room r"
  agree through join, leave, deletion, resizing and disconnect. A room created
  under a name that is read back longer is in the map under the one and in the
  table under the other, is moved to the other when a member leaves, and may meet
  a room that has that name; none of this spreads to a name that is not in
  `misread`. A statement is rejected only for such a name, and the server that ends
  by it finds maps and tables equal when it is started again. `withh` is left out
  to keep the run small: it changes states only, and `SystemQuiet` has it. Here
  the collation tells all names apart; `StatementsAccepted` (section 6) is about
  every collation.
- `ServerChat`: the queries before `deleteUser` keep the foreign keys of
  `messages`; a direct message never overtakes the stored ones, which are written
  inside the handler of the login; and every step of the server, a crash between
  any two calls included, is a step of the mailbox. With three messages some can
  be stored while others are replayed, and a second absence can follow the first.
- `SystemQuiet` and `SystemChat`: the flags of the client and the maps of the
  server agree when nothing is under way, and private messages stay private. A
  client types while its answer is on the way, waits too late for it, or goes.
- `SystemWaits`: a client that waits in time is woken, whatever it asked for, and
  the end of every client is noticed, also when the loop has waited for another
  one that had just connected.
- `PollLoop`: two elements for three connections make every transition of the
  table happen: empty, in part used, full, one connection too many, an element
  and a descriptor used again while another is in use. `TableIsExact` and
  `BlocksOnNewOnly` are stated up to the first connection too many (`maxi < Size`).
  The 34 usable elements of the code differ in number only: a step touches one
  element and compares it with `maxi`.
- `ClientThreads`: one request on the wire suffices because main sends the next
  one only after a wait, a failed send or a line of a chat; the two messages of
  others are what wakes main early or sets its flags from outside; one end of the
  server covers both a send to a dead connection and the reconnection. The
  commands chosen cover every shape of the code: a break out of the loop
  (`withh`, `joinn`), a wait if sent (`createRoom`), a wait whether or not sent
  and a dialogue of two requests (`createUser`), a send without looking
  (`modifyUser`). The commands left out have the shape of one of these.
- `RoomHeap`: no write goes to a deleted array or behind one, and what the copies
  do is what rooms as values do. Capacity 3 gives the shift of `removeUser` a
  middle, capacity 0 an array without cells.

Every property has a mutant in `PROJECT.json`: a change to one definition, of
the kind a slip in the code would be, under which TLC finds the property
violated in the same run.

## 5. What the code does not keep

Four disagreements of the code with its documents are runs of their own:

- `BlankMessage`: one stored blank message ends the loop over stored messages;
  those after it are deleted unsent.
- `PrivateToStranger`: a message wakes a client that waits for `?join`, it joins
  a second time and has its descriptor in a list no way out removes. The process
  that gets the descriptor next is sent the notice "left room." while it waits
  for its login, logs in a second account, and at its end only one of the two is
  set offline. A private message to the other one goes to whoever connects next.
- `LostWakeup`: "if sent login message wait for listen thread return result"
  (`client.cpp:402`), but the receiving thread may have handled the result before
  the wait begins; its signal finds nobody. Main waits until some other package
  happens to come; nobody writes to a connection that has just logged in unless
  a peer of its restored chat comes or goes.
- `RoomRenamed`: `Room::Room` copies the name without its terminator into bytes
  nothing initialised. When a member leaves such a room, `LeaveRoom` puts it back
  under the longer name `getRoomID()` returns; the remaining members' messages
  find no room ("all other users in room are quaranteed to receive",
  `src/README:37`). `insertRoom` writes the longer name to the table as well. A
  restart does not have the fault: `selectAllRooms` sets the names. In `ChatServer`
  the same happens by `addRoom` and `RoomsWithout`; `misread` names the rooms it
  has happened to, which `MemoryMirrorsDatabase`, `InRoomIsMember`
  and `NoStatementRejected` except; `RoomCountsUsersInIt` fails there.

Others follow from the modules without a run of their own:

- `src/README:73` says of the mark at the prompt of a chat "The '#' indicates the
  peer is offline currently", with an example that shows it so; `inputLine` prints
  it when the peer is online (`client.cpp:700-703`), and `test/test_with.py:25`
  expects that. `PeerStatusIsTrue` is about the code's meaning of the mark.
- `doRecieving` begins with `pthread_mutex_trylock`. Main waits with a mutex it
  has not locked; if the thread runs this line only after the first wait has begun
  it locks the mutex and never unlocks it, and the wait, signalled or not, cannot
  return. Main is then no longer waiting for the condition but for the mutex:
  `HeldForEver`, which `WaitEndsOrWhy` and `MutexNeverBlocks` name as an exception.
- An administrator can delete another one. `DeleteUser` means to refuse it
  ("Sorry you can't delete this user because it is admin account !",
  `sock_connect.cpp:341`), but reads the role of an account built from the
  package (line 338). `MayDelete` has the test as it is; `AdminSurvives` says
  that the last administrator stays none the less, because nobody deletes the
  account of their own connection.
- A message to a user whose process has ended is written to nobody and not stored
  ("server will cache the message locally", `src/README:69-71`) until the server
  has read the end of the connection. It is what `dropped` and `missed` observe.
- "fd max ( user max ) can connect server" is 35 (`sock_connect.h:29`); 34 elements
  can be used. The 35th connection is told "too many client" and stays open in no
  element: what it sends is never read, and its end neither. `maxi` is then one
  behind the table for good, and the element behind it is passed over, read as
  descriptor 16 or reported as invalid, whatever lies there. In `PollLoop` this
  is `maxi = Size`.
- An account or a room whose name differs from another one in case only is not
  found by the handler, and its `INSERT` is rejected by the key, whose collation
  ignores case: the exception ends the server. Likewise a room whose longer name
  is that of another row. These are the two exceptions of `NoStatementRejected`.
- A new connection in an element never used before may be read before anything
  was sent on it, when the `revents` nothing initialised say so: the server
  blocks in `read()` until that client logs in or leaves (`BlocksOnNewOnly` says
  that no other connection can do this).
- A client whose main has found `flag_check` off while the connection was just
  lost sends on a socket that is not connected and is ended by `SIGPIPE`, where
  "Server is not found" (`client.cpp:37`) is meant; `modifyHandler` sends its
  `getRoles` without looking (`client.cpp:808`). `CheckProtects` names both. It is about the new socket only; a send
  on the old one after the server has gone is lost, or ends the process too (`Fatal`).

The limits of the passing `System` runs are drawn where the code stops keeping
the property; each of the following is reproduced by changing one configuration.

- `MaxRestarts = 1` in `SystemQuiet`: each of the four properties fails. A
  restored state puts a user in a room while its client shows the command prompt
  (`PromptIsTheState`), and `WithFunction` does not take it out
  (`RoomCountsUsersInIt`); a login into a restored room that is full is accepted
  and never answered (`AcceptedLoginIsTold`); a peer that is offline since the
  restart keeps its online mark (`PeerStatusIsTrue`).
- `"createRoom"` among the requests, a second room and a name that may be read
  back as it in `SystemQuiet`: `RoomCountsUsersInIt` fails. A user who leaves a
  room that `LeaveRoom` has moved stays in its list.
- `ChatRequests` and `MaxChats = 1` in `SystemQuiet`: `PromptIsTheState` fails. A
  message wakes main before its answer, main sends another command, and the
  answers are taken for each other.
- `Rooms = {"CBA"}` and `InitDb <- DbWide` in `SystemChat`:
  `OneConnectionPerUser` fails as described for `PrivateToStranger`.
- `ChatRequests` and `MaxChats = 1` in `SystemWaits`: `WaitEnds` fails. The echo
  of a user's own line in a room wakes the wait after `?back` at the old prompt;
  a second `?back` is answered by `failTerminate`, for which `receiverHandler`
  has no case and gives no signal.

## 6. The proofs

TLAPS checks the following for every value of the constants that satisfies the
named assumptions: any sets of accounts, rooms, descriptors and texts, and any
bounds. The assumptions are those the modules state: `NoFd` is no descriptor,
`Rank` is an injective order of finitely many accounts, names and passwords are
not empty, capacities are integers, and the initial database has no state, no
message and at least one administrator; a name is among those it may be read back
as. Nothing is assumed of the collation. For the smaller modules: descriptors
are finitely many and 16 is one of them, the array has an element; a name and
the longer ones are never the same, and no descriptor is what an unwritten cell
holds.

The proofs about the server build on each other in the order `ChatServerProofs`,
`MessageProofs`, `SystemProofs`, `StepProofs`, each of which extends the one before
it; `MailboxProofs` extends `MessageProofs` and the mapping.

- `TypeCorrect` (`ChatServerProofs`): `Spec => []TypeOK`. `TypeOK` is inductive
  by itself. The proof has one lemma per handler, on the calls it queues and the
  maps it leaves, and one step per action.
- `RoomsStaySound` (`ChatServerProofs`): `Spec => []RoomsSound`. Inductive together
  with `TypeOK`; it rests on the lemmas that `Add`, `removeUser` and
  `setCapacity` keep a room sound.
- `NamesAreRead` (`ChatServerProofs`): a room whose object has another name than its
  key was created so, and both names are in `misread`. The invariants that except
  these names rest on it: what a handler does to a room under a name that is not
  in `misread` it does to the same name everywhere, and `RoomsWithout` puts such a
  room back where it was.
- `StatesMatchLists` (`ChatServerProofs`): `Spec => []InRoomIsMember`, for runs in which
  the server has not been restarted: `mapRoom` makes every room empty. By itself
  the property is not inductive, because the handlers take descriptors out of
  lists, not users: a user that leaves could take another one with the same
  connection along. The code does not keep two users off one connection.
  `SeatedInv` therefore adds that two users who share a connection are in
  different rooms, which holds because `Add` is only reached when the descriptor
  is not in the list.
- `MemoryIsTables` (`ChatServerProofs`): `Spec => []MemoryMirrorsDatabase`. A handler
  changes the maps first and the tables by statements that run later, with
  writes and perhaps a crash in between. `DatabaseInv` says what is still to come:
  either `todo` has no statement about users or rooms left and maps and tables
  agree, or one statement decides, nothing about users and rooms comes after it,
  and they agree once it has run. What may come before it is either no other
  statement or the clearing of the same user's state. The proof shows for each handler which statement
  decides, and for `Execute` that the head of `todo` is that one.
- `StatementsAccepted` (`ChatServerProofs`): `Spec => []NoStatementRejected`, from
  the same invariant: the deciding statement is not rejected by the tables as
  they are when the handler starts, but for the two cases the property names
  (`Passes`), and the calls before it do not change what the keys look at. `DeleteUser` needs that the stored messages of the account
  are still none, as `haveOfflineMessage` has found.
- `AdminStays` (`ChatServerProofs`): `Spec => []AdminSurvives`. Who may delete whom
  is decided on `mapuser`, and the statement runs some steps later. `AdminInv`
  adds that memory holds an administrator while the server is up; `DatabaseInv`
  says that the statement brings the table to what memory holds. The step that
  matters is that the sender of a deletion is an administrator and not the
  account deleted.
- `ChatsAccounted`, `WrittenInOrder`, `RowsKeptUntilWritten` (`MessageProofs`), on
  private messages. The loop of `handleOfflineMessage` takes a step per stored
  message, and the deletion of all of them is one statement at its end.
  `MessageInv` names the phase of the handler by the calls it has left:
  *Handing* a message to a receiver who is online, *Storing* one, *Looping* over
  the stored ones with those up to `after` written, *Giving* the next one,
  *Forgetting* them all; otherwise the calls are silent about messages. Each
  phase says which rows of its user were written and how the next identifier
  compares with those written before. Around the phases, rows are messages that
  were accepted for their receiver, and a row of a user means that this user is
  offline or is being served; the last holds where every login fetches what is
  stored (`Fetched`), that is with `LoginOnce` and no rooms or no restart yet.

  Two conditions are parameters of the model, and they are needed. `NoBlank`, a
  hypothesis of the first and the third theorem: a message without text ends the
  loop early and the deletion then takes rows that were never written (run
  `BlankMessage`). `LoginOnce`, a hypothesis of the second: the messages
  stored for a second user who logs in on a connection are not looked up, since
  `findUserByfd` finds the first user by name, and newer ones then overtake them.
- `MailboxKept` (`MailboxProofs`): `Spec => KeepsMailbox` under `LoginOnce` and the
  two assumptions of `ServerMailbox`, with crashes and, where there are no rooms,
  any number of restarts. The mapped variables `hand` and `done` are functions of
  the calls left and of the rows; one lemma for each phase of `MessageInv` says
  what they are in it (`LeadsMap`: a loop that has reached `after` has handed out
  the rows up to `after`, and so on). Each action then either moves from one
  phase to the next, which is the step of `Mailbox` of the same name, or is a
  stutter: `Write` is `Deliver` or `Replay`, `Execute` is `Keep` or `Forget`,
  `OneToOneChat` is `Accept`, the end of the process is `Lose`. What the steps of
  `Mailbox` require and the code never tests comes from the invariant: that
  nothing is stored for a receiver written to directly, that the next row is the
  oldest one left, that all rows of the user were written before the deletion.
- `ClientsTyped`, `SystemIsServer` (`SystemProofs`): the clients send only packages
  the server knows, and `SystemSpec => Spec`, the step from the proofs about the
  server to those about the system. The one case that needs an
  invariant is the repeated login: `ClientInv` says that a process which is
  logged in or repeats its login knows a password that is not empty. This uses
  `ClientAssumption`: `ChatSystem` is instantiated with `LoginOnce = FALSE` and
  with logins among its requests.
- `SystemSound`, `SystemKeepsChats` (`SystemProofs`): what is proved of the server
  holds of the server with its clients, with the exceptions the properties name,
  the second under `NoBlank`.
  `WrittenInOrder` does not carry over, as `ChatSystem` has `LoginOnce = FALSE`.
- `OneUserPerConnection`, `AcceptedIsTold`, `ChatsStayPrivate` (`SystemProofs`):
  the three invariants of logins, with crashes, restarts and repeated logins.
  The server looks a user up by his descriptor and a receiver's descriptor by his
  name, and accepts a login on a connection that has a user already; that a
  descriptor stands for one user is the clients' doing. `LoginInv` says how. For
  every connection, `Held`: it has at most one user and at most one login unread,
  and not both. `Talks`: its process has been told of its login (`In`), and then
  the user of the connection is its user, or the package that says so is the next
  call (`LoginTold`); or it has not (`Out`), and then nothing but logins is in
  its queue, and either the answer is the next call (`LoginTold`,
  `LoginRefused`) or no call of the running handler is for it (`Quiet`), so that
  nothing can wake it and let it log in again. `Addressed`: a call is made on the
  connection of the user it is about, still so when its turn comes, and only
  connections that nobody has are closed.

  The hypothesis is `Rooms = {}`, as in the run `SystemChat`. It is needed: with
  rooms and messages the code breaks the properties (section 5,
  `PrivateToStranger`, and the full room that answers no login). Nothing else is
  restricted: messages, blank ones, restarts, resets, administrators who delete
  accounts.
- `PromptsAreStates`, `PeerMarksAreTrue`, `RoomsCountTheirUsers`, `LoginsAreTold`
  (`StepProofs`): what the process shows and what the server has of its user.
  The two change at different times: the server's state when it reads the
  command, the flags of the process when the answer is written. `StepInv` gives
  every connection with a user a *phase*. *Shown*: nothing in the calls left
  moves the process, and its prompt is the state. *Entering*, *Leaving*,
  *LoggingIn*: prompt and state differ, and the last call of the running handler
  is the answer that makes them agree; main is then between its send and the end
  of its wait (`Awaits`). The phase also says what is in the queue
  (`Lined`): any number of `?back`, which do not wait, and at most one other
  command, behind them and from a process that waits. The invariant needs this
  because the server does not check a state before it changes it: `WithFunction`
  leaves a user in the list of his room, `JoinRoom` moves one who is in another
  room. `Seats` says that the members of a room are the connections of users
  whose state is that room, which gives `RoomCountsUsersInIt` together with
  `InRoomIsMember`; `Marked` that a mark is right or a `checkparty` is among the
  calls left (`Notified`); `Truthful` that what such a call says is still so when
  it is made; `OfflineIdle` that a login starts from no state.

  Every handler is shown to follow one of a few shapes: its calls are for others
  only, answer the sender with one last call (`Answering`), or are the notices
  of an arrival or an end. The lemmas about the phases then need not know the
  handler.

  The hypothesis is `Undisturbed`: no lines of text, no restart and names of rooms
  that are read back as they are, as in the run `SystemQuiet`. Section 5 lists
  what fails without the first two: a line wakes a process that waits for
  something else, and a restart brings back states that no process knows of. The
  third is there because a user who leaves a room that was moved to another name
  stays in its list, and a later "left room." in that room wakes him as a line
  does.

- `MutexIsFree`, `FlagProtects` (`ClientThreadsProofs`), with the exceptions the
  properties name: a receiving thread that is late, a loss noticed between check
  and send, the send that does not check. `ThreadsInv` says at which
  places of main the mutex is free, that the receiving thread can be at its first
  line only before main locks the mutex again, and where main may stand while
  the socket is not connected: away from the send, or on a path that has not
  looked at `flag_check`, or one that lost the connection after the look.
- `PollTypeCorrect`, `TableStaysExact`, `OnlyNewBlocks` (`PollLoopProofs`), for
  every size of the array. `TableIsExact` says nothing of `revents`, which decide
  whom the loop closes. The inductive invariant adds that a new client `poll()`
  has reported is still there in `EventServer`, and that the `revents` of the
  elements the loop has not reached are true, but perhaps that of the connection
  just accepted. They may be trusted because between `poll()` and the end of the
  round nothing but the loop takes anything from a connection.
- `HeapTypeCorrect`, `ArraysStaySound` (`RoomHeapProofs`). The inductive invariant
  adds to `ArraysSound` that a room's own name is its key or, before it is moved,
  the longer one of its key. Without it `LeaveRoom` could insert a copy under the
  name of another room.
- `HeapImplementsTable` (`RoomHeapProofs`): `Spec => KeepsTable`. Each action
  maps to the action of `RoomTable` of the same room, or to a stutter when the
  room's name is not terminated; `ModifyRoom` of such a room terminates the name
  and maps to the creation of a room. The lemmas about `Value` compare the shift
  of the array with that of the sequence; one frame lemma says what a step that
  touches one array does to the whole table. This is why the other modules may
  take rooms as values, as long as names are terminated.

Only model-checked are the liveness properties `GoneIsSetOffline`, `WaitEnds`,
`EndIsRead` and `WaitEndsOrWhy`. Every safety invariant, action property and
refinement of the passing runs is stated by a theorem, those of `ChatSystem` and
of private messages under the hypotheses named above. `OneConnectionPerUser` and
`AcceptedLoginIsTold` have two theorems, one for systems without rooms and one for
systems without lines; between them lie the runs in which they fail.
Liveness under fairness is out of the proof system's reach, as are
statements about `ENABLED`, induction over data and `RECURSIVE` operators; the
modules use none of the latter.

## 7. What is not modelled

- The offline timer of `src/README:86-90`, which would return stored messages to
  their sender: the code has none.
- Bytes: the notice of `LeaveRoom` copied into the one byte `strToChar("")` has
  allocated, fields of 20 bytes that are full, sizes of packages. What memory
  holds after a write behind an array is not a matter of the source.
- Blocking `write()`, short reads, several packages in one read.
- Spurious wakeups of `pthread_cond_wait`, which POSIX allows and Linux makes
  rare; the code would go on without its answer, as it does for any package.
- Account names of two words, which the column `state` would confuse with rooms.
- Colours, prompts, times, formatting; build, deployment and the test script.
- The vendored headers of the MySQL connector (`src/server/include`), 18 222 of
  the repository's 22 627 lines of code. They are third-party, and the program
  uses a few calls of their JDBC interface, which `Database` models from that
  use. The map therefore names most of the program's own lines and a small share
  of all lines.

## 8. The plan

Done, in this order: `ChatBase`, `Room`, `Protocol`, `Database`, `ChatServer`,
`ChatClient`, `ChatSystem` and the proofs of section 6, because every property is
about the server's handlers first and about the clients second; then `Mailbox`
with its refinement, `ClientThreads`, `RoomHeap` with its refinement, `PollLoop`,
and the proofs about the last two.

Then the proofs about the server's data: `MemoryMirrorsDatabase`,
`NoStatementRejected`, `InRoomIsMember` and the three properties of private
messages, and those about `ClientThreads`; then the invariants that relate the
clients to the server, from `LoginInv` and `StepInv`, and the refinement
`KeepsMailbox` from `MessageInv`.

Next: `StateColumn`, the encoding of `STATE` in one column, with names of two words.
