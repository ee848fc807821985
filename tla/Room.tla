-------------------------------- MODULE Room --------------------------------
(***************************************************************************)
(* server/models/Room.cpp: a room is its capacity, the array of the        *)
(* descriptors of its members, in order of arrival, and its name as        *)
(* getRoomID reads it back.  The array is a sequence here; RoomHeap has    *)
(* the copies of a Room that share one array and shows that they behave    *)
(* like this.                                                              *)
(***************************************************************************)
EXTENDS Integers, Sequences

\* Room(RoomID, Capacity) whose name reads back as id, or Room() followed by
\* setRoomID(id) and setCapacity on no member.
NewRoom(id, capacity) == [roomID |-> id, capacity |-> capacity, members |-> <<>>]

\* int Room::getOnlUser()
getOnlUser(room) == Len(room.members)

\* bool Room::find(int)
find(room, fd) == \E i \in 1..getOnlUser(room) : room.members[i] = fd

\* Mutant: a member may be added again.
HasPlace(room, fd) == getOnlUser(room) < room.capacity

\* The two tests of int Room::add(int): it returns -2 or -1 when one fails.
CanAdd(room, fd) == getOnlUser(room) < room.capacity /\ ~find(room, fd)

\* int Room::add(int) when it returns the new count.
Add(room, fd) == [room EXCEPT !.members = Append(@, fd)]

\* The array without its i-th element, the later ones moved one place down.
Shift(members, i) ==
    [j \in 1..(Len(members) - 1) |->
        IF j < i THEN members[j] ELSE members[j + 1]]

\* void Room::removeUser(int): the first occurrence goes.
removeUser(room, fd) ==
    IF find(room, fd)
    THEN LET first == CHOOSE i \in 1..getOnlUser(room) :
                         /\ room.members[i] = fd
                         /\ \A j \in 1..(i - 1) : room.members[j] # fd
         IN  [room EXCEPT !.members = Shift(@, first)]
    ELSE room

\* void Room::setRoomID(char[]), which clears the bytes behind the name.
setRoomID(room, id) == [room EXCEPT !.roomID = id]

\* void Room::setCapacity(int): refused below the present count.
setCapacity(room, capacity) ==
    IF capacity < getOnlUser(room) THEN room
    ELSE [room EXCEPT !.capacity = capacity]

\* int *Room::listClients(), as the set of descriptors that are written to.
listClients(room) == {room.members[i] : i \in 1..getOnlUser(room)}

-----------------------------------------------------------------------------
\* What every operation keeps: no more members than the capacity, none twice.
Sound(room) ==
    /\ getOnlUser(room) <= room.capacity
    /\ \A i, j \in 1..getOnlUser(room) :
          room.members[i] = room.members[j] => i = j
=============================================================================
