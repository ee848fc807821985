------------------------------ MODULE RoomHeap ------------------------------
(***************************************************************************)
(* The rooms of the server as the code keeps them (server/models/Room.cpp  *)
(* and the handlers of sock_connect.cpp that use it): an object of class   *)
(* Room holds a pointer to its array of members, its copies hold the same  *)
(* pointer, and every handler works on a copy that it writes back.  The    *)
(* heap and what nothing initialises are part of the state.                *)
(*                                                                         *)
(* The constructor copies a name without its terminator into an array that *)
(* holds any bytes, so getRoomID may return a longer name; LeaveRoom       *)
(* inserts the room under the name getRoomID returns.                      *)
(*                                                                         *)
(* ChatServer says which connection joins or leaves which room and when;   *)
(* here any may.  The rooms of the database are those of addRoom with a    *)
(* name that is terminated: setRoomID clears the array first.              *)
(***************************************************************************)
EXTENDS Integers, Sequences, FiniteSets, Maps

CONSTANTS
    Rooms,       \* the names users give
    LongerName,  \* the name getRoomID returns for a name and the bytes behind it
    Fds,         \* descriptors
    Capacities,  \* the capacities asked for
    Blocks,      \* bound: the blocks new[] may return; some are never deleted
    Junk         \* what a cell holds that nothing was written to

ASSUME NamesAssumption ==
    /\ LongerName \in [Rooms -> {LongerName[r] : r \in Rooms}]
    /\ \A r, s \in Rooms : LongerName[r] # s
    /\ \A r, s \in Rooms : LongerName[r] = LongerName[s] => r = s

ASSUME JunkAssumption == Junk \notin Fds

ASSUME CapacitiesAssumption == Capacities \subseteq Int

VARIABLES
    roomMap,  \* std::map<string,Room>
    heap      \* the arrays: address |-> cells, for what is allocated

vars == <<roomMap, heap>>

Names == Rooms \cup {LongerName[r] : r \in Rooms}

Init ==
    /\ roomMap = Empty
    /\ heap = Empty

-----------------------------------------------------------------------------
(* Class Room.  A cell of an array is numbered from 0.                     *)

\* new int[n]
NewArray(n) == [k \in 0..(n - 1) |-> Junk]

\* An element read: behind the array lies anything.
Cell(cells, k) == IF k \in DOMAIN cells THEN cells[k] ELSE Junk

Cells(room) == heap[room.array]

\* int Room::getOnlUser()
getOnlUser(room) == room.availableUsers

\* The loops of Room::add and Room::find.
find(room, fd) ==
    \E k \in 0..(room.availableUsers - 1) : Cell(Cells(room), k) = fd

CanAdd(room, fd) == room.availableUsers < room.capacity /\ ~find(room, fd)

\* The position of the first occurrence.
Position(room, fd) ==
    CHOOSE k \in 0..(room.availableUsers - 1) :
        /\ Cell(Cells(room), k) = fd
        /\ \A j \in 0..(k - 1) : Cell(Cells(room), j) # fd

\* Mutant: the last member takes the place.
SwapLast(room, fd) ==
    [k \in DOMAIN Cells(room) |->
        IF k = Position(room, fd) THEN Cell(Cells(room), room.availableUsers - 1)
                                  ELSE Cells(room)[k]]

\* The shift of removeUser, which also reads the element behind the last member
\* (of a full room: the one behind the array).
ShiftDown(room, fd) ==
    [k \in DOMAIN Cells(room) |->
        IF k \in Position(room, fd)..(room.availableUsers - 1)
        THEN Cell(Cells(room), k + 1) ELSE Cells(room)[k]]

-----------------------------------------------------------------------------
(* The handlers, what they do to the rooms.                                *)

\* addRoom.  What lies behind the name decides what getRoomID returns.
addRoom(r, c) ==
    /\ r \notin DOMAIN roomMap
    /\ c >= 0
    /\ \E a \in Blocks \ DOMAIN heap, id \in {r, LongerName[r]} :
          /\ heap' = Put(heap, a, NewArray(c))
          /\ roomMap' = Put(roomMap, r, [capacity |-> c, availableUsers |-> 0,
                                         array |-> a, roomID |-> id])

\* JoinRoom, and Login of a user whose state is restored: the member is
\* written to the shared array, the count to the copy.
JoinRoom(r, fd) ==
    /\ r \in DOMAIN roomMap
    /\ CanAdd(roomMap[r], fd)
    /\ LET room == roomMap[r]
       IN  /\ heap' = [heap EXCEPT ![room.array][room.availableUsers] = fd]
           /\ roomMap' = [roomMap EXCEPT ![r] = [room EXCEPT !.availableUsers = @ + 1]]

\* Mutant: the count goes down whoever leaves.
RemoveAny(r, fd) ==
    /\ heap' = IF find(roomMap[r], fd)
               THEN [heap EXCEPT ![roomMap[r].array] = ShiftDown(roomMap[r], fd)]
               ELSE heap
    /\ roomMap' = LET room == [roomMap[r] EXCEPT !.availableUsers = @ - 1]
                  IN  IF room.roomID \in DOMAIN Erase(roomMap, r) THEN Erase(roomMap, r)
                      ELSE Put(Erase(roomMap, r), room.roomID, room)

\* void Room::removeUser(int) on the copy, erase and insert: std::map::insert
\* does nothing for a name that is taken.
Remove(r, fd) ==
    LET found == find(roomMap[r], fd)
        room == [roomMap[r] EXCEPT !.availableUsers = IF found THEN @ - 1 ELSE @]
        others == Erase(roomMap, r)
    IN  /\ heap' = IF found
                   THEN [heap EXCEPT ![room.array] = ShiftDown(roomMap[r], fd)]
                   ELSE heap
        /\ roomMap' = IF room.roomID \in DOMAIN others THEN others
                      ELSE Put(others, room.roomID, room)

LeaveRoom(r, fd) == r \in DOMAIN roomMap /\ Remove(r, fd)

\* Mutant: the copy is not written back.
ModifyRoomCopy(r, c) ==
    /\ r \in DOMAIN roomMap
    /\ c > 0
    /\ getOnlUser(roomMap[r]) = 0
    /\ \E a \in Blocks \ DOMAIN heap :
          heap' = Erase(Put(heap, a, NewArray(c)), roomMap[r].array)
    /\ UNCHANGED roomMap

\* ModifyRoom: setRoomID clears the name first; setCapacity gets a new array
\* and deletes the old one.
ModifyRoom(r, c) ==
    /\ r \in DOMAIN roomMap
    /\ c > 0
    /\ getOnlUser(roomMap[r]) = 0
    /\ \E a \in Blocks \ DOMAIN heap :
          /\ heap' = Erase(Put(heap, a, NewArray(c)), roomMap[r].array)
          /\ roomMap' = [roomMap EXCEPT ![r].roomID = r, ![r].capacity = c,
                                        ![r].array = a]

\* DeleteRoom; nothing deletes the array.
DeleteRoom(r) ==
    /\ r \in DOMAIN roomMap
    /\ getOnlUser(roomMap[r]) = 0
    /\ roomMap' = Erase(roomMap, r)
    /\ UNCHANGED heap

Next ==
    \/ \E r \in Rooms, c \in Capacities : addRoom(r, c)
    \/ \E r \in Names, fd \in Fds : JoinRoom(r, fd) \/ LeaveRoom(r, fd)
    \/ \E r \in Names, c \in Capacities : ModifyRoom(r, c)
    \/ \E r \in Names : DeleteRoom(r)

Spec == Init /\ [][Next]_vars

-----------------------------------------------------------------------------
(* Properties.                                                             *)

RoomObjects ==
    [capacity : Nat, availableUsers : Nat, array : Blocks, roomID : Names]

\* Every variable holds a value of its type.
TypeOK ==
    /\ IsMap(roomMap, Names, RoomObjects)
    /\ DOMAIN heap \subseteq Blocks
    /\ \A a \in DOMAIN heap : IsMap(heap[a], Nat, Fds \cup {Junk})

\* Every room has an array of its own that is allocated, as long as its
\* capacity and not too short for its members, whatever copies of it were made,
\* changed and written back: no write goes to a deleted array or behind one,
\* none is deleted twice.
ArraysSound ==
    \A r \in DOMAIN roomMap :
        /\ roomMap[r].array \in DOMAIN heap
        /\ DOMAIN heap[roomMap[r].array] = 0..(roomMap[r].capacity - 1)
        /\ roomMap[r].availableUsers <= roomMap[r].capacity
        /\ \A s \in DOMAIN roomMap : roomMap[s].array = roomMap[r].array => s = r

\* The rooms under the names users gave, whose name is terminated.
Named == {r \in DOMAIN roomMap \cap Rooms : roomMap[r].roomID = r}

\* The sequence of the members of a room.
Members(room) == [k \in 1..room.availableUsers |-> Cells(room)[k - 1]]

T == INSTANCE RoomTable WITH
        rooms <- [r \in Named |-> [roomID |-> r, capacity |-> roomMap[r].capacity,
                                   members |-> Members(roomMap[r])]]

\* The rooms whose name is terminated behave like the values of module Room:
\* what one copy writes to the shared array and what removeUser reads behind it
\* are never seen as a member, and no room changes with another one.
KeepsTable == T!Spec

\* A room that has members left when one of them leaves is still found under
\* its name, so that their messages reach them.
PopulatedStays ==
    [][\A r \in DOMAIN roomMap :
          getOnlUser(roomMap[r]) > 1 => r \in DOMAIN roomMap']_vars
=============================================================================
