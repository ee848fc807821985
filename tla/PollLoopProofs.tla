--------------------------- MODULE PollLoopProofs ---------------------------
(***************************************************************************)
(* Theorems about PollLoop, for every size of the table and every set of   *)
(* descriptors: its type, that the table is exact, and which read may      *)
(* block.                                                                  *)
(***************************************************************************)
EXTENDS PollLoop, FiniteSetTheorems, TLAPS

\* A new client that poll() has reported is still there in EventServer.
NewClientWaits == pc = "server" /\ revents[0] => backlog > 0

\* In EventServer revents are those poll() has just stored; in the loop the
\* elements not looked at yet have them still, but for the one that was added.
ReventsTrue ==
    maxi < Size =>
        /\ pc = "server" => \A k \in 1..maxi :
              revents[k] => fd[k] # None /\ Ready(fd[k])
        /\ pc = "loop" => \A k \in i..maxi :
              revents[k] /\ fd[k] # None =>
                  Ready(fd[k]) \/ (k = maxi /\ fd[k] = connfd)

Inv == TypeOK /\ NewClientWaits /\ TableIsExact /\ ReventsTrue

-----------------------------------------------------------------------------
LEMMA InitInv == Init => Inv
BY SizeAssumption, FdsAssumption
   DEF Init, Inv, TypeOK, NewClientWaits, TableIsExact, ReventsTrue, Slots

\* What poll() counts is a number.
LEMMA PollType == ASSUME Inv, Poll PROVE nready' \in Int
<1>1. IsFiniteSet(0..maxi)
      BY FS_Interval DEF Inv, TypeOK
<1>2. ({k \in 0..maxi : Reported(k)} \cup Invalid) \in SUBSET (0..maxi)
      BY DEF Inv, TypeOK, Invalid
<1>3. IsFiniteSet({k \in 0..maxi : Reported(k)} \cup Invalid)
      BY <1>1, <1>2, FS_Subset
<1>. QED  BY <1>3, FS_CardinalityType DEF Poll

LEMMA PollInv == ASSUME Inv, Poll PROVE Inv'
<1>. USE SizeAssumption, FdsAssumption DEF Inv, Poll, kernel
<1>1. TypeOK'
  <2>1. ASSUME NEW k \in 0..Size
        PROVE  Reported(k) \in BOOLEAN
    <3>1. CASE k = 0
          BY <3>1 DEF Reported
    <3>2. CASE k # 0 /\ k \in 1..maxi
          BY <3>2 DEF Reported
    <3>3. CASE k # 0 /\ k \notin 1..maxi
      <4>1. Reported(k) = revents[k]
            BY <3>3 DEF Reported
      <4>. QED  BY <4>1 DEF TypeOK
    <3>. QED  BY <3>1, <3>2, <3>3
  <2>. QED  BY <2>1, PollType DEF TypeOK
<1>2. NewClientWaits'
  <2>1. revents'[0] = Reported(0)
        BY DEF TypeOK
  <2>2. Reported(0) = (backlog > 0)
        BY DEF Reported
  <2>. QED  BY <2>1, <2>2 DEF NewClientWaits
<1>3. TableIsExact'
      BY DEF TypeOK, TableIsExact, Slots
<1>4. ReventsTrue'
  <2>. SUFFICES ASSUME maxi < Size, NEW k \in 1..maxi, revents'[k]
                PROVE  fd[k] # None /\ Ready(fd[k])
       BY DEF ReventsTrue, TypeOK, Ready
  <2>1. k \in 0..Size /\ k # 0
        BY DEF TypeOK
  <2>2. Reported(k)
        BY <2>1
  <2>. QED  BY <2>1, <2>2 DEF Reported
<1>. QED  BY <1>1, <1>2, <1>3, <1>4

-----------------------------------------------------------------------------
(* EventServer.                                                            *)

LEMMA NoAcceptInv == ASSUME Inv, NoAccept PROVE Inv'
<1>. USE SizeAssumption DEF Inv, NoAccept, table, kernel
<1>1. TypeOK'
      BY DEF TypeOK
<1>2. NewClientWaits'
      BY DEF NewClientWaits
<1>3. TableIsExact'
      BY DEF TableIsExact
<1>4. ReventsTrue'
      BY DEF TypeOK, ReventsTrue, Ready
<1>. QED  BY <1>1, <1>2, <1>3, <1>4

LEMMA AcceptInv == ASSUME Inv, NEW c \in Fds, Accept(c) PROVE Inv'
<1>. USE SizeAssumption, FdsAssumption DEF Inv
<1>. PICK n \in 1..Size :
        /\ IsFirstFree(n)
        /\ fd' = [fd EXCEPT ![Size] = Sixteen, ![n] = IF n = Size THEN Sixteen ELSE c]
        /\ maxi' = Raised(n)
     BY DEF Accept
<1>1. TypeOK'
      BY DEF TypeOK, Accept, Raised, NewClientWaits
<1>2. NewClientWaits'
      BY DEF NewClientWaits, Accept
<1>3. ASSUME maxi' < Size
      PROVE  /\ n \in Slots /\ fd[n] = None /\ maxi < Size
             /\ n <= maxi' /\ maxi <= maxi' /\ (n > maxi => maxi' = n)
             /\ fd'[n] = c
             /\ \A k \in Slots \ {n} : fd'[k] = fd[k]
      BY <1>3 DEF TypeOK, Raised, IsFirstFree, Slots
<1>4. TableIsExact'
  <2>. SUFFICES ASSUME maxi' < Size
                PROVE  /\ \A d \in Fds : conn'[d] # "free" =>
                              \E k \in 1..maxi' : fd'[k] = d
                       /\ \A k \in Slots : fd'[k] # None =>
                              /\ k <= maxi'
                              /\ conn'[fd'[k]] # "free"
                              /\ \A j \in Slots : fd'[j] = fd'[k] => j = k
       BY DEF TableIsExact, Slots
  <2>1. conn[c] = "free" /\ conn' = [conn EXCEPT ![c] = "open"]
        BY DEF Accept
  <2>2. ASSUME NEW d \in Fds, conn'[d] # "free"
        PROVE  \E k \in 1..maxi' : fd'[k] = d
    <3>1. CASE d = c
          BY <3>1, <1>3 DEF Slots, TypeOK
    <3>2. CASE d # c
      <4>1. PICK k \in 1..maxi : fd[k] = d
            BY <2>1, <2>2, <3>2, <1>3 DEF TableIsExact, TypeOK
      <4>2. k \in Slots \ {n}
            BY <4>1, <1>3 DEF Slots, TypeOK
      <4>. QED  BY <4>1, <4>2, <1>1, <1>3 DEF Slots, TypeOK
    <3>. QED  BY <3>1, <3>2
  <2>3. ASSUME NEW k \in Slots, fd'[k] # None
        PROVE  /\ k <= maxi'
               /\ conn'[fd'[k]] # "free"
               /\ \A j \in Slots : fd'[j] = fd'[k] => j = k
    <3>1. CASE k = n
      <4>1. k <= maxi' /\ conn'[fd'[k]] # "free"
            BY <3>1, <1>3, <2>1 DEF TypeOK
      <4>2. ASSUME NEW j \in Slots, fd'[j] = c, j # n
            PROVE  FALSE
        <5>1. fd[j] = c
              BY <4>2, <1>3
        <5>2. c # None
              OBVIOUS
        <5>. QED  BY <5>1, <5>2, <2>1, <1>3 DEF TableIsExact
      <4>. QED  BY <4>1, <4>2, <3>1, <1>3
    <3>2. CASE k # n
      <4>1. fd'[k] = fd[k] /\ fd[k] # None
            BY <3>2, <2>3, <1>3
      <4>2. /\ k <= maxi
            /\ conn[fd[k]] # "free"
            /\ \A j \in Slots : fd[j] = fd[k] => j = k
            BY <4>1, <1>3 DEF TableIsExact
      <4>3. fd[k] \in Fds /\ conn'[fd[k]] # "free"
            BY <4>1, <4>2, <2>1 DEF Slots, TypeOK
      <4>4. k <= maxi'
            BY <4>2, <1>1, <1>3 DEF Slots, TypeOK
      <4>5. ASSUME NEW j \in Slots, fd'[j] = fd[k] PROVE j = k
        <5>1. j # n
              BY <4>2, <4>5, <1>3, <2>1
        <5>. QED  BY <5>1, <4>2, <4>5, <1>3
      <4>. QED  BY <4>1, <4>3, <4>4, <4>5
    <3>. QED  BY <3>1, <3>2
  <2>. QED  BY <2>2, <2>3
<1>5. ReventsTrue'
  <2>. SUFFICES ASSUME maxi' < Size, NEW k \in 1..maxi', revents[k], fd'[k] # None
                PROVE  \/ conn'[fd'[k]] = "closed" \/ unread'[fd'[k]] > 0
                       \/ k = maxi' /\ fd'[k] = c
       BY DEF ReventsTrue, Accept, Ready
  <2>1. CASE k = n
    <3>1. ~(n \in 1..maxi)
          BY <2>1, <1>3 DEF ReventsTrue, Accept
    <3>. QED  BY <3>1, <2>1, <1>3 DEF Slots, TypeOK
  <2>2. CASE k # n
    <3>1. k \in Slots /\ fd'[k] = fd[k]
      <4>1. k \in Slots
            BY <1>1 DEF Slots, TypeOK
      <4>. QED  BY <4>1, <2>2, <1>3
    <3>2. k \in 1..maxi /\ conn[fd[k]] # "free"
          BY <3>1, <1>3 DEF TableIsExact, TypeOK
    <3>3. Ready(fd[k])
          BY <3>2, <1>3 DEF ReventsTrue, Accept
    <3>. QED  BY <3>1, <3>2, <3>3 DEF Ready, Accept, TypeOK
  <2>. QED  BY <2>1, <2>2
<1>. QED  BY <1>1, <1>2, <1>4, <1>5

-----------------------------------------------------------------------------
(* The loop of Execute.                                                    *)

\* The element the loop reads is one of the table, and the only one with its
\* descriptor.
LEMMA AtElement ==
    ASSUME Inv, AtReadable, maxi < Size
    PROVE  /\ i \in Slots /\ fd[i] \in Fds
           /\ conn[fd[i]] # "free"
           /\ \A k \in Slots : fd[k] = fd[i] => k = i
           /\ pc = "loop" /\ i <= maxi
BY SizeAssumption DEF Inv, TypeOK, AtReadable, TableIsExact, Slots

\* The end of a visit leaves the place of the loop and the count in their types.
LEMMA CountedType ==
    ASSUME TypeOK, AtReadable, Counted
    PROVE  /\ pc' \in {"poll", "loop"}
           /\ i' \in 1..(Size + 1)
           /\ nready' \in Int
           /\ pc' = "loop" => i' = i + 1
BY SizeAssumption DEF TypeOK, AtReadable, Counted

LEMMA ReadPackageInv == ASSUME Inv, ReadPackage PROVE Inv'
<1>. USE SizeAssumption DEF Inv, ReadPackage, table
<1>1. TypeOK'
      BY CountedType DEF TypeOK, AtReadable
<1>2. NewClientWaits'
      BY CountedType DEF NewClientWaits
<1>3. TableIsExact'
      BY DEF TableIsExact
<1>4. ReventsTrue'
  <2>. SUFFICES ASSUME maxi < Size, pc' = "loop",
                       NEW k \in i'..maxi, revents[k], fd[k] # None
                PROVE  \/ conn[fd[k]] = "closed" \/ unread'[fd[k]] > 0
                       \/ k = maxi /\ fd[k] = connfd
       BY CountedType DEF ReventsTrue, Ready
  <2>1. k \in i..maxi /\ k # i /\ k \in Slots /\ fd[k] \in Fds
        BY CountedType DEF TypeOK, Slots
  <2>2. Ready(fd[k]) \/ (k = maxi /\ fd[k] = connfd)
        BY <2>1, AtElement DEF ReventsTrue
  <2>3. unread'[fd[k]] = unread[fd[k]]
        BY <2>1, AtElement DEF TypeOK
  <2>. QED  BY <2>2, <2>3 DEF Ready
<1>. QED  BY <1>1, <1>2, <1>3, <1>4

LEMMA ReadEndInv == ASSUME Inv, ReadEnd PROVE Inv'
<1>. USE SizeAssumption, FdsAssumption DEF Inv, ReadEnd
<1>1. TypeOK'
      BY CountedType DEF TypeOK, AtReadable
<1>2. NewClientWaits'
      BY CountedType DEF NewClientWaits
<1>3. TableIsExact'
  <2>. SUFFICES ASSUME maxi < Size
                PROVE  /\ \A d \in Fds : conn'[d] # "free" =>
                              \E k \in 1..maxi : fd'[k] = d
                       /\ \A k \in Slots : fd'[k] # None =>
                              /\ k <= maxi
                              /\ conn'[fd'[k]] # "free"
                              /\ \A j \in Slots : fd'[j] = fd'[k] => j = k
       BY DEF TableIsExact, Slots
  <2>1. /\ fd' = [fd EXCEPT ![i] = None] /\ conn' = [conn EXCEPT ![fd[i]] = "free"]
        /\ i \in Slots /\ fd[i] \in Fds
        /\ \A k \in Slots : fd[k] = fd[i] => k = i
        BY AtElement
  <2>2. ASSUME NEW d \in Fds, conn'[d] # "free"
        PROVE  \E k \in 1..maxi : fd'[k] = d
    <3>1. d # fd[i] /\ conn[d] # "free"
          BY <2>1, <2>2 DEF TypeOK
    <3>2. PICK k \in 1..maxi : fd[k] = d
          BY <3>1 DEF TableIsExact
    <3>. QED  BY <2>1, <3>1, <3>2 DEF TypeOK, Slots
  <2>3. ASSUME NEW k \in Slots, fd'[k] # None
        PROVE  /\ k <= maxi
               /\ conn'[fd'[k]] # "free"
               /\ \A j \in Slots : fd'[j] = fd'[k] => j = k
    <3>1. k # i /\ fd'[k] = fd[k] /\ fd[k] # None /\ fd[k] # fd[i]
          BY <2>1, <2>3 DEF TypeOK, Slots
    <3>2. /\ k <= maxi /\ conn[fd[k]] # "free"
          /\ \A j \in Slots : fd[j] = fd[k] => j = k
          BY <3>1 DEF TableIsExact
    <3>3. conn'[fd[k]] # "free"
          BY <2>1, <3>1, <3>2 DEF TypeOK, Slots
    <3>4. ASSUME NEW j \in Slots, fd'[j] = fd[k] PROVE j = k
          BY <2>1, <3>1, <3>2, <3>4 DEF TypeOK, Slots
    <3>. QED  BY <3>1, <3>2, <3>3, <3>4
  <2>. QED  BY <2>2, <2>3
<1>4. ReventsTrue'
  <2>. SUFFICES ASSUME maxi < Size, pc' = "loop",
                       NEW k \in i'..maxi, revents[k], fd'[k] # None
                PROVE  \/ conn'[fd'[k]] = "closed" \/ unread[fd'[k]] > 0
                       \/ k = maxi /\ fd'[k] = connfd
       BY CountedType DEF ReventsTrue, Ready
  <2>1. k \in i..maxi /\ k # i /\ k \in Slots
        BY CountedType DEF TypeOK, Slots
  <2>2. fd'[k] = fd[k] /\ fd[k] # None /\ fd[k] \in Fds
        BY <2>1 DEF TypeOK, Slots
  <2>3. Ready(fd[k]) \/ (k = maxi /\ fd[k] = connfd)
        BY <2>1, <2>2, AtElement DEF ReventsTrue
  <2>4. conn'[fd[k]] = conn[fd[k]]
        BY <2>1, <2>2, AtElement DEF TypeOK
  <2>. QED  BY <2>2, <2>3, <2>4 DEF Ready
<1>. QED  BY <1>1, <1>2, <1>3, <1>4

\* Steps that change nothing but the place of the loop, which only goes on.
LEMMA MovesInv ==
    ASSUME Inv, ReadError \/ Pass \/ EndRound
    PROVE  Inv'
<1>. USE SizeAssumption DEF Inv
<1>1. /\ UNCHANGED <<fd, revents, maxi, connfd, backlog, conn, unread>>
      /\ pc' \in {"poll", "loop"} /\ i' \in 1..(Size + 1) /\ nready' \in Int
      /\ pc' = "loop" => pc = "loop" /\ i' = i + 1
  <2>1. CASE ReadError
        BY <2>1, CountedType DEF ReadError, AtReadable, table, kernel
  <2>2. CASE Pass
        BY <2>2 DEF Pass, table, kernel, TypeOK
  <2>3. CASE EndRound
        BY <2>3 DEF EndRound, table, kernel, TypeOK
  <2>. QED  BY <2>1, <2>2, <2>3
<1>2. TypeOK'
      BY <1>1 DEF TypeOK
<1>3. NewClientWaits'
      BY <1>1 DEF NewClientWaits
<1>4. TableIsExact'
      BY <1>1 DEF TableIsExact
<1>5. ReventsTrue'
      BY <1>1 DEF ReventsTrue, TypeOK, Ready
<1>. QED  BY <1>2, <1>3, <1>4, <1>5

-----------------------------------------------------------------------------
(* The other ends, which can only make more to read.                       *)

LEMMA ArriveInv == ASSUME Inv, Arrive PROVE Inv'
BY DEF Inv, Arrive, TypeOK, NewClientWaits, TableIsExact, ReventsTrue, Ready, table

LEMMA SendInv == ASSUME Inv, NEW c \in Fds, Send(c) PROVE Inv'
<1>. USE DEF Inv, Send, table
<1>1. TypeOK' /\ NewClientWaits' /\ TableIsExact'
      BY DEF TypeOK, NewClientWaits, TableIsExact
<1>2. \A d \in Fds : Ready(d) => Ready(d)'
      BY DEF Ready, TypeOK
<1>3. maxi < Size => \A k \in 1..maxi : fd[k] # None => fd[k] \in Fds
      BY SizeAssumption DEF TypeOK
<1>4. ReventsTrue'
      BY <1>2, <1>3 DEF ReventsTrue, TypeOK, Ready
<1>. QED  BY <1>1, <1>4

LEMMA HangupInv == ASSUME Inv, NEW c \in Fds, Hangup(c) PROVE Inv'
<1>. USE DEF Inv, Hangup, table
<1>1. TypeOK' /\ NewClientWaits'
      BY DEF TypeOK, NewClientWaits
<1>2. TableIsExact'
  <2>1. \A d \in Fds : conn'[d] # "free" <=> conn[d] # "free"
        BY DEF TypeOK
  <2>2. \A k \in Slots : fd[k] # None => fd[k] \in Fds
        BY SizeAssumption DEF TypeOK, Slots
  <2>. QED  BY <2>1, <2>2 DEF TableIsExact
<1>3. \A d \in Fds : Ready(d) => conn'[d] = "closed" \/ unread[d] > 0
      BY DEF Ready, TypeOK
<1>4. maxi < Size => \A k \in 1..maxi : fd[k] # None => fd[k] \in Fds
      BY SizeAssumption DEF TypeOK
<1>5. ReventsTrue'
      BY <1>3, <1>4 DEF ReventsTrue, TypeOK, Ready
<1>. QED  BY <1>1, <1>2, <1>5

-----------------------------------------------------------------------------
LEMMA NextInv == ASSUME Inv, [Next]_vars PROVE Inv'
<1>1. CASE Server
      BY <1>1, PollInv, AcceptInv, NoAcceptInv, ReadPackageInv, ReadEndInv, MovesInv
         DEF Server
<1>2. CASE Arrive
      BY <1>2, ArriveInv
<1>3. CASE \E c \in Fds : Send(c) \/ Hangup(c)
      BY <1>3, SendInv, HangupInv
<1>4. CASE UNCHANGED vars
      BY <1>4 DEF vars, Inv, TypeOK, NewClientWaits, TableIsExact, ReventsTrue, Ready
<1>. QED  BY <1>1, <1>2, <1>3, <1>4 DEF Next

LEMMA Invariant == Spec => []Inv
BY InitInv, NextInv, PTL DEF Spec

\* Every variable of the poll loop keeps its type, for any size of the table.
THEOREM PollTypeCorrect == Spec => []TypeOK
<1>1. Inv => TypeOK
      BY DEF Inv
<1>. QED  BY Invariant, <1>1, PTL

\* As long as the table has sufficed, no connection is lost from it, none is in
\* two elements and no element names a closed descriptor: EventServer and the
\* loop of Execute keep client_fd and maxi together.
THEOREM TableStaysExact == Spec => []TableIsExact
<1>1. Inv => TableIsExact
      BY DEF Inv
<1>. QED  BY Invariant, <1>1, PTL

\* The only read that can block the server is of the connection accepted last,
\* in an element never used before.
THEOREM OnlyNewBlocks == Spec => []BlocksOnNewOnly
<1>1. ASSUME Inv, maxi < Size, Blocked
      PROVE  i = maxi /\ fd[i] = connfd
  <2>1. pc = "loop" /\ i \in i..maxi /\ revents[i] /\ fd[i] # None
        BY <1>1 DEF Inv, TypeOK, Blocked, AtReadable
  <2>2. ~Ready(fd[i])
        BY <1>1 DEF Blocked, Ready
  <2>. QED  BY <1>1, <2>1, <2>2 DEF Inv, ReventsTrue
<1>2. Inv => BlocksOnNewOnly
      BY <1>1 DEF BlocksOnNewOnly
<1>. QED  BY Invariant, <1>2, PTL
=============================================================================
