------------------------ MODULE ClientThreadsProofs ------------------------
(***************************************************************************)
(* Theorems about ClientThreads, for every set of commands and any length  *)
(* of the queues, any number of strays and of ends of the server.          *)
(***************************************************************************)
EXTENDS ClientThreads, TLAPS

\* Where a dialogue goes on: never to a place inside a request.
Returns == {"none", "excecute", "command", "createRole", "createUser",
            "modifyRole", "createRoom", "room", "with"}

\* The receiving thread replaces the socket of a connection that has ended.
Away == {"reconnect", "connect", "connected"}

\* The send of modifyHandler, which does not look at flag_check.
Unchecked == req = "getRoles" /\ ret = "modifyRole"

\* While the socket is replaced flag_check is set, and a request that was
\* checked before that has been told of the loss.
SocketGuarded ==
    /\ sock = "raw" => rpc \in {"connect", "killed"}
    /\ rpc \in Away => flag_check /\ (pc = "send" => "lost" \in why \/ Unchecked)
    /\ rpc = "killed" => pc = "killed"

\* Nobody locks the mutex between the unlock of the wait and its lock, unless
\* the receiving thread runs its first line there.
MutexGuarded ==
    /\ pc \in {"wait", "relock"} /\ ~late => mutex = "free"
    /\ rpc = "start" => pc # "relock"

ThreadsInv ==
    /\ ret \in Returns
    /\ SocketGuarded
    /\ MutexGuarded

-----------------------------------------------------------------------------
(* Main.                                                                   *)

\* Main goes on, inside the request or after it, to a place that is not one
\* of those with a condition.
LEMMA ContinueKeeps ==
    ASSUME ThreadsInv, NEW next, NEW reasons, Continue(next, reasons),
           next \notin {"send", "wait", "relock"},
           rpc' = rpc /\ rpc # "killed",
           UNCHANGED <<late, flag_check>>,
           sock' = "raw" => sock = "raw"
    PROVE  ThreadsInv'
<1>1. pc' = next /\ ret' \in Returns
      BY DEF Continue, ThreadsInv, Returns
<1>. QED  BY <1>1 DEF ThreadsInv, SocketGuarded, MutexGuarded, Away, Unchecked

LEMMA GoesKeeps ==
    ASSUME ThreadsInv, NEW place, NEW next, Goes(place, next),
           place # "killed", next \notin {"send", "wait", "relock"}
    PROVE  ThreadsInv'
<1>1. rpc # "killed"
      BY DEF Goes, ThreadsInv, SocketGuarded
<1>. QED  BY <1>1, ContinueKeeps DEF Goes, receiver, wire

\* A request begins.
LEMMA TypesKeeps ==
    ASSUME ThreadsInv, NEW place, NEW type, NEW first, NEW next,
           Types(place, type, first, next),
           place # "killed", next \in Returns,
           \/ first = "check"
           \/ first = "send" /\ type = "getRoles" /\ next = "modifyRole"
    PROVE  ThreadsInv'
<1>1. rpc # "killed"
      BY DEF Types, ThreadsInv, SocketGuarded
<1>. QED  BY <1>1 DEF Types, ThreadsInv, SocketGuarded, MutexGuarded, Away,
                      Unchecked, receiver, wire

LEMMA AsksKeeps ==
    ASSUME ThreadsInv, NEW place, NEW type, NEW next, Asks(place, type, next),
           place # "killed", next \in Returns
    PROVE  ThreadsInv'
BY TypesKeeps DEF Asks

LEMMA PromptedKeeps == ThreadsInv /\ Prompted => ThreadsInv'
<1>. SUFFICES ASSUME ThreadsInv, Prompted PROVE ThreadsInv'
     OBVIOUS
<1>. USE DEF Returns
<1>1. CASE loginHandler
      BY <1>1, AsksKeeps DEF loginHandler
<1>2. CASE CommandLine
  <2>1. ASSUME NEW type, Asks("line", type, "command")
        PROVE  ThreadsInv'
        BY <2>1, AsksKeeps
  <2>2. ASSUME NEW type \in Dialogues, Goes("line", type)
        PROVE  ThreadsInv'
        BY <2>2, GoesKeeps DEF Dialogues
  <2>. QED  BY <1>2, <2>1, <2>2 DEF CommandLine
<1>3. CASE Ignores
      BY <1>3, GoesKeeps DEF Ignores, Dialogues
<1>4. CASE createNewUser
      BY <1>4, AsksKeeps DEF createNewUser
<1>5. CASE modifyHandler
  <2>1. CASE Types("modifyUser", "getRoles", "send", "modifyRole")
        BY <2>1, TypesKeeps
  <2>2. CASE Asks("modifyRole", "modifyUser", "command")
        BY <2>2, AsksKeeps
  <2>. QED  BY <1>5, <2>1, <2>2 DEF modifyHandler
<1>6. CASE createNewRoom
      BY <1>6, AsksKeeps DEF createNewRoom
<1>7. CASE ChatLine
      BY <1>7, AsksKeeps DEF ChatLine
<1>. QED  BY <1>1, <1>2, <1>3, <1>4, <1>5, <1>6, <1>7 DEF Prompted

\* Where main goes after it has sent a request or not.
LEMMA AfterSendPlace ==
    ASSUME ThreadsInv, NEW sent
    PROVE  AfterSend(sent) \notin {"send", "wait", "relock"}
BY DEF AfterSend, ThreadsInv, Returns

LEMMA CheckFlagKeeps == ThreadsInv /\ CheckFlag => ThreadsInv'
<1>. SUFFICES ASSUME ThreadsInv, CheckFlag PROVE ThreadsInv'
     OBVIOUS
<1>1. pc = "check" /\ rpc # "killed" /\ UNCHANGED <<rpc, late, flag_check, sock>>
      BY DEF CheckFlag, ThreadsInv, SocketGuarded, receiver, wire
<1>2. CASE flag_check
  <2>1. Continue(AfterSend(FALSE), {"unsent"})
        BY <1>2 DEF CheckFlag
  <2>. QED  BY <1>1, <2>1, AfterSendPlace, ContinueKeeps
<1>3. CASE ~flag_check
  <2>1. pc' = "send" /\ ret' \in Returns
        BY <1>3 DEF CheckFlag, Continue, ThreadsInv, Returns
  <2>. QED  BY <1>1, <1>3, <2>1
            DEF ThreadsInv, SocketGuarded, MutexGuarded, Away
<1>. QED  BY <1>2, <1>3

LEMMA SendKeeps == ThreadsInv /\ Send => ThreadsInv'
<1>. SUFFICES ASSUME ThreadsInv, Send PROVE ThreadsInv'
     OBVIOUS
<1>1. /\ pc = "send" /\ rpc # "killed" /\ UNCHANGED <<late, flag_check>>
      /\ sock' = "raw" => sock = "raw"
      BY DEF Send, Puts, ThreadsInv, SocketGuarded
<1>2. CASE Fatal
  <2>1. pc' = "killed" /\ rpc' = "killed" /\ ret' \in Returns
        BY <1>2 DEF Send, Continue, Pending, Returns
  <2>. QED  BY <2>1 DEF ThreadsInv, SocketGuarded, MutexGuarded, Away
<1>3. CASE ~Fatal
  <2>1. PICK reasons : Continue(AfterSend(TRUE), reasons)
        BY <1>3 DEF Send
  <2>2. rpc' = rpc
        BY <1>3 DEF Send
  <2>. QED  BY <1>1, <2>1, <2>2, AfterSendPlace, ContinueKeeps
<1>. QED  BY <1>2, <1>3

LEMMA RunsKeeps == ThreadsInv /\ Runs => ThreadsInv'
<1>. SUFFICES ASSUME ThreadsInv, Runs PROVE ThreadsInv'
     OBVIOUS
<1>1. CASE Excecute \/ commandHandler \/ withHandler \/ roomHandler
      BY <1>1, GoesKeeps
      DEF Excecute, commandHandler, withHandler, roomHandler
<1>2. CASE BreakWait
      BY <1>2 DEF BreakWait, Continue, Pending, ThreadsInv, Returns,
                  SocketGuarded, MutexGuarded, Away, receiver, wire
<1>3. CASE Wait
      BY <1>3 DEF Wait, ThreadsInv, SocketGuarded, MutexGuarded, Away,
                  receiver, wire
<1>4. CASE Relock
  <2>1. /\ pc = "relock" /\ rpc # "killed" /\ Continue(ret, {})
        /\ UNCHANGED <<rpc, late, flag_check, sock>>
        BY <1>4 DEF Relock, ThreadsInv, SocketGuarded, receiver, wire
  <2>2. ret \notin {"send", "wait", "relock"}
        BY DEF ThreadsInv, Returns
  <2>. QED  BY <2>1, <2>2, ContinueKeeps
<1>. QED  BY <1>1, <1>2, <1>3, <1>4, CheckFlagKeeps, SendKeeps DEF Runs

-----------------------------------------------------------------------------
(* The receiving thread and the server.                                    *)

LEMMA ReceivingKeeps == ThreadsInv /\ doRecieving => ThreadsInv'
<1>. SUFFICES ASSUME ThreadsInv, doRecieving PROVE ThreadsInv'
     OBVIOUS
<1>. USE DEF ThreadsInv, SocketGuarded, MutexGuarded, Away, Unchecked, Note,
             main, receiver, wire
<1>1. CASE Start
      BY <1>1 DEF Start
<1>2. CASE Recv
      BY <1>2 DEF Recv
<1>3. CASE Handle
      BY <1>3 DEF Handle
<1>4. CASE RecvEnd
      BY <1>4 DEF RecvEnd
<1>5. CASE SetFlag
      BY <1>5 DEF SetFlag, Pending
<1>6. CASE NewSocket \/ Reconnect \/ Reconnected
      BY <1>6 DEF NewSocket, Reconnect, Reconnected
<1>7. CASE Relogin
      BY <1>7 DEF Relogin, Puts
<1>. QED  BY <1>1, <1>2, <1>3, <1>4, <1>5, <1>6, <1>7 DEF doRecieving

LEMMA ServerKeeps == ThreadsInv /\ Server => ThreadsInv'
<1>. SUFFICES ASSUME ThreadsInv, Server PROVE ThreadsInv'
     OBVIOUS
<1>1. /\ UNCHANGED <<pc, req, ret, rpc, late, mutex, flag_check>>
      /\ sock' = "raw" => sock = "raw"
      BY DEF Server, Answers, Stray, Ends, main, receiver
<1>2. pc = "send" => why \subseteq why'
      BY DEF Server, Answers, Stray, Ends, Note, Pending
<1>. QED  BY <1>1, <1>2
          DEF ThreadsInv, SocketGuarded, MutexGuarded, Away, Unchecked

-----------------------------------------------------------------------------
(* The theorems.                                                           *)

LEMMA NextKeeps == ThreadsInv /\ [Next]_vars => ThreadsInv'
<1>1. ThreadsInv /\ UNCHANGED vars => ThreadsInv'
      BY DEF ThreadsInv, SocketGuarded, MutexGuarded, Away, Unchecked, vars,
             main, receiver, wire
<1>. QED  BY <1>1, PromptedKeeps, RunsKeeps, ReceivingKeeps, ServerKeeps DEF Next

\* The wait and the mutex of every request and every end of the server fit
\* the conditions above.
LEMMA ThreadsInvariant == Spec => []ThreadsInv
<1>1. Init => ThreadsInv
      BY DEF Init, ThreadsInv, SocketGuarded, MutexGuarded, Away, Returns
<1>. QED  BY <1>1, NextKeeps, PTL DEF Spec

\* After a wait main finds the mutex free, however the two threads interleave
\* and whatever the user types, unless the receiving thread had not run its
\* first line when the first wait began.
THEOREM MutexIsFree == Spec => []MutexNeverBlocks
<1>1. ThreadsInv => MutexNeverBlocks
      BY DEF ThreadsInv, MutexGuarded, MutexNeverBlocks, HeldForEver
<1>. QED  BY <1>1, ThreadsInvariant, PTL

\* While the socket is new and not connected, no send is about to be made but
\* one whose request was told of the loss after its look at flag_check, or that
\* of modifyHandler, which does not look; for any number of ends of the server.
THEOREM FlagProtects == Spec => []CheckProtects
<1>1. ThreadsInv => CheckProtects
  <2>. SUFFICES ASSUME ThreadsInv, pc = "send", sock = "raw"
                PROVE  "lost" \in why \/ (req = "getRoles" /\ ret = "modifyRole")
       BY DEF CheckProtects
  <2>. QED  BY DEF ThreadsInv, SocketGuarded, Away, Unchecked
<1>. QED  BY <1>1, ThreadsInvariant, PTL
=============================================================================
