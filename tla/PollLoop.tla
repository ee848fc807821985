------------------------------ MODULE PollLoop ------------------------------
(***************************************************************************)
(* The poll loop of the server (sock_connect.cpp, EventServer and          *)
(* Execute): the table client_fd of POLL_SIZE elements, of which poll()    *)
(* looks at the first maxi + 1, and the count nready that ends a round     *)
(* over it early.  ChatServer leaves open which descriptor is served next; *)
(* this module says how the code chooses, and what it may miss.            *)
(*                                                                         *)
(* Element 0 is the listening socket.  Element Size does not exist: the    *)
(* members clilen and server_address lie there, and clilen is 16 after     *)
(* every accept().  A handler is a part of the step that reads a package.  *)
(***************************************************************************)
EXTENDS Integers, FiniteSets

CONSTANTS
    Size,       \* POLL_SIZE
    Fds,        \* the descriptors accept() may return
    Sixteen,    \* the one of them whose number is sizeof(client_address)
    None,       \* the -1 of an unused element
    MaxUnread   \* bound: packages unread on a connection

ASSUME SizeAssumption == Size \in Nat \ {0}

ASSUME FdsAssumption ==
    /\ IsFiniteSet(Fds)
    /\ Sixteen \in Fds
    /\ None \notin Fds

ASSUME UnreadAssumption == MaxUnread \in Nat \ {0}

VARIABLES
    pc,       \* the server is at poll(), in EventServer or in the loop after it
    i,        \* the element the loop is at
    fd,       \* client_fd[k].fd, and clilen as fd[Size]
    revents,  \* client_fd[k].revents & (POLLRDNORM | POLLERR)
    maxi,     \* the last element poll() looks at
    nready,   \* elements poll() has reported and the round has not seen yet
    connfd,   \* the connection accepted last
    backlog,  \* connections the kernel has made and accept() has not returned
    conn,     \* state of each descriptor in the kernel
    unread    \* packages the kernel holds for each descriptor

table == <<fd, revents, maxi>>
kernel == <<backlog, conn, unread>>
vars == <<pc, i, fd, revents, maxi, nready, connfd, backlog, conn, unread>>

Slots == 1..(Size - 1)

\* Nothing initialises revents: what the array holds at first is any value.
Init ==
    /\ pc = "poll"
    /\ i = 1
    /\ fd = [k \in 1..Size |-> None]
    /\ revents \in [0..Size -> BOOLEAN]
    /\ maxi = 0
    /\ nready = 0
    /\ connfd = None
    /\ backlog = 0
    /\ conn = [c \in Fds |-> "free"]
    /\ unread = [c \in Fds |-> 0]

-----------------------------------------------------------------------------
\* A read() of the descriptor returns at once: a package or the end.
Ready(c) == conn[c] = "closed" \/ unread[c] > 0

\* Mutant: poll(client_fd, maxi, -1) leaves the last element out.
ReportedShort(k) ==
    CASE k = 0 -> backlog > 0
      [] k \in 1..(maxi - 1) -> fd[k] # None /\ Ready(fd[k])
      [] OTHER -> revents[k]

\* What poll() stores in revents of an element; those behind maxi stay.
Reported(k) ==
    CASE k = 0 -> backlog > 0
      [] k \in 1..maxi -> fd[k] # None /\ Ready(fd[k])
      [] OTHER -> revents[k]

\* A descriptor that is not open is reported with POLLNVAL, which is counted
\* and for which the loop does not look.
Invalid == {k \in 1..maxi : fd[k] # None /\ conn[fd[k]] = "free"}

Poll ==
    /\ pc = "poll"
    /\ revents' = [k \in 0..Size |-> Reported(k)]
    /\ nready' = Cardinality({k \in 0..maxi : Reported(k)} \cup Invalid)
    /\ nready' > 0
    /\ pc' = "server"
    /\ UNCHANGED <<i, fd, maxi, connfd, kernel>>

-----------------------------------------------------------------------------
\* The first element without a descriptor, Size when there is none.
IsFirstFree(k) ==
    /\ k \in 1..Size
    /\ k = Size \/ fd[k] = None
    /\ \A j \in 1..(k - 1) : fd[j] # None

\* Mutant: maxi is one more than the element.
RaisedPast(k) == IF k > maxi THEN k + 1 ELSE maxi

\* Mutant: maxi is set when it is passed by more than one only.
RaisedLate(k) == IF k > maxi + 1 THEN k ELSE maxi

\* if (i > maxi) maxi = i
Raised(k) == IF k > maxi THEN k ELSE maxi

\* EventServer with a new client.  With no element left the connection stays
\* open without an element, and maxi goes one behind the table.
Accept(c) ==
    /\ pc = "server"
    /\ revents[0]
    /\ conn[c] = "free"
    /\ \E k \in 1..Size :
          /\ IsFirstFree(k)
          /\ fd' = [fd EXCEPT ![Size] = Sixteen, ![k] = IF k = Size THEN Sixteen ELSE c]
          /\ maxi' = Raised(k)
    /\ connfd' = c
    /\ conn' = [conn EXCEPT ![c] = "open"]
    /\ backlog' = backlog - 1
    /\ nready' = nready - 1
    /\ pc' = "loop"
    /\ i' = 1
    /\ UNCHANGED <<revents, unread>>

\* EventServer without one.
NoAccept ==
    /\ pc = "server"
    /\ ~revents[0]
    /\ pc' = "loop"
    /\ i' = 1
    /\ UNCHANGED <<table, nready, connfd, kernel>>

-----------------------------------------------------------------------------
\* The loop is at an element whose revents say that it can be read.
AtReadable == pc = "loop" /\ i <= maxi /\ fd[i] # None /\ revents[i]

\* Mutant: the round ends with one reported element left.
CountedShort ==
    /\ nready' = nready - 1
    /\ IF nready' <= 1 THEN pc' = "poll" /\ UNCHANGED i
                       ELSE i' = i + 1 /\ UNCHANGED pc

\* if (--nready <= 0) break
Counted ==
    /\ nready' = nready - 1
    /\ IF nready' <= 0 THEN pc' = "poll" /\ UNCHANGED i
                       ELSE i' = i + 1 /\ UNCHANGED pc

\* read() returns a package, which is handled.
ReadPackage ==
    /\ AtReadable
    /\ unread[fd[i]] > 0
    /\ unread' = [unread EXCEPT ![fd[i]] = @ - 1]
    /\ Counted
    /\ UNCHANGED <<table, connfd, backlog, conn>>

\* read() returns the end: the descriptor is closed, the element is free.
ReadEnd ==
    /\ AtReadable
    /\ unread[fd[i]] = 0
    /\ conn[fd[i]] = "closed"
    /\ conn' = [conn EXCEPT ![fd[i]] = "free"]
    /\ fd' = [fd EXCEPT ![i] = None]
    /\ Counted
    /\ UNCHANGED <<revents, maxi, connfd, backlog, unread>>

\* read() fails with EBADF: element Size named a descriptor that was closed.
ReadError ==
    /\ AtReadable
    /\ conn[fd[i]] = "free"
    /\ Counted
    /\ UNCHANGED <<table, connfd, kernel>>

\* The element has no descriptor or nothing to read.
Pass ==
    /\ pc = "loop"
    /\ i <= maxi
    /\ fd[i] = None \/ ~revents[i]
    /\ i' = i + 1
    /\ UNCHANGED <<pc, table, nready, connfd, kernel>>

EndRound ==
    /\ pc = "loop"
    /\ i > maxi
    /\ pc' = "poll"
    /\ UNCHANGED <<i, table, nready, connfd, kernel>>

Server ==
    \/ Poll
    \/ \E c \in Fds : Accept(c)
    \/ NoAccept
    \/ ReadPackage
    \/ ReadEnd
    \/ ReadError
    \/ Pass
    \/ EndRound

-----------------------------------------------------------------------------
(* The other ends of the connections.                                      *)

\* A client connects; the descriptors of Fds are all there are.
Arrive ==
    /\ backlog < Cardinality({c \in Fds : conn[c] = "free"})
    /\ backlog' = backlog + 1
    /\ UNCHANGED <<pc, i, table, nready, connfd, conn, unread>>

Send(c) ==
    /\ conn[c] = "open"
    /\ unread[c] < MaxUnread
    /\ unread' = [unread EXCEPT ![c] = @ + 1]
    /\ UNCHANGED <<pc, i, table, nready, connfd, backlog, conn>>

Hangup(c) ==
    /\ conn[c] = "open"
    /\ conn' = [conn EXCEPT ![c] = "closed"]
    /\ UNCHANGED <<pc, i, table, nready, connfd, backlog, unread>>

Next ==
    \/ Server
    \/ Arrive
    \/ \E c \in Fds : Send(c) \/ Hangup(c)

\* The one thread of the server runs; nothing is assumed of the clients.
Fairness == WF_vars(Server)

Spec == Init /\ [][Next]_vars /\ Fairness

-----------------------------------------------------------------------------
(* Properties.                                                             *)

TypeOK ==
    /\ pc \in {"poll", "server", "loop"}
    /\ i \in 1..(Size + 1)
    /\ fd \in [1..Size -> Fds \cup {None}]
    /\ revents \in [0..Size -> BOOLEAN]
    /\ maxi \in 0..Size
    /\ nready \in Int
    /\ connfd \in Fds \cup {None}
    /\ backlog \in Nat
    /\ conn \in [Fds -> {"free", "open", "closed"}]
    /\ unread \in [Fds -> Nat]

\* As long as no more connections came than the table holds, every connection
\* the server has accepted and not closed is in exactly one element that
\* poll() looks at, and every element in use names such a connection: accept,
\* close and the reuse of elements and descriptors lose none.
TableIsExact ==
    maxi < Size =>
        /\ \A c \in Fds : conn[c] # "free" => \E k \in 1..maxi : fd[k] = c
        /\ \A k \in Slots : fd[k] # None =>
              /\ k <= maxi
              /\ conn[fd[k]] # "free"
              /\ \A j \in Slots : fd[j] = fd[k] => j = k

\* The server is in a read() that finds nothing.
Blocked ==
    /\ AtReadable
    /\ conn[fd[i]] = "open"
    /\ unread[fd[i]] = 0

\* The one read that can block the server is that of the connection it has
\* just accepted in an element never used before, whose revents nobody set:
\* an element that is used again holds no revents of its last connection.
BlocksOnNewOnly == maxi < Size /\ Blocked => i = maxi /\ fd[i] = connfd

\* The end of a connection is read however busy the other connections keep the
\* server, although a round ends when nready is used up, unless the server is
\* blocked or the table was too small.
EndIsRead ==
    \A c \in Fds :
        conn[c] = "closed" ~> conn[c] = "free" \/ Blocked \/ maxi = Size
=============================================================================
