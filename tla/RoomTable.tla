----------------------------- MODULE RoomTable -----------------------------
(***************************************************************************)
(* What the handlers of ChatServer do to the rooms, without the rest: a    *)
(* map from names to the rooms of module Room, which are values.           *)
(*                                                                         *)
(* An abstract specification: RoomHeap says how the code implements it.    *)
(***************************************************************************)
EXTENDS Room, Maps

CONSTANTS
    Rooms,      \* the names of rooms
    Fds,        \* the descriptors of the members
    Capacities  \* the capacities asked for

VARIABLE rooms

Init == rooms = Empty

Create(r, c) ==
    /\ r \notin DOMAIN rooms
    /\ rooms' = Put(rooms, r, NewRoom(r, c))

Join(r, fd) ==
    /\ r \in DOMAIN rooms
    /\ CanAdd(rooms[r], fd)
    /\ rooms' = [rooms EXCEPT ![r] = Add(@, fd)]

Leave(r, fd) ==
    /\ r \in DOMAIN rooms
    /\ rooms' = [rooms EXCEPT ![r] = removeUser(@, fd)]

Resize(r, c) ==
    /\ r \in DOMAIN rooms
    /\ getOnlUser(rooms[r]) = 0
    /\ rooms' = [rooms EXCEPT ![r] = setCapacity(@, c)]

Delete(r) ==
    /\ r \in DOMAIN rooms
    /\ getOnlUser(rooms[r]) = 0
    /\ rooms' = Erase(rooms, r)

Next ==
    \E r \in Rooms :
        \/ \E c \in Capacities : Create(r, c) \/ Resize(r, c)
        \/ \E fd \in Fds : Join(r, fd) \/ Leave(r, fd)
        \/ Delete(r)

Spec == Init /\ [][Next]_rooms
=============================================================================
