--------------------------- MODULE RoomHeapProofs ---------------------------
(***************************************************************************)
(* Theorems about RoomHeap, for every set of rooms, descriptors,           *)
(* capacities and addresses: the arrays of the rooms are sound, and        *)
(* RoomHeap implements RoomTable.                                          *)
(***************************************************************************)
EXTENDS RoomHeap, TLAPS, WellFoundedInduction, NaturalsInduction

\* A set of natural numbers that is not empty has a least element.
LEMMA LeastNat ==
    ASSUME NEW numbers \in SUBSET Nat, numbers # {}
    PROVE  \E x \in numbers : \A y \in numbers : x <= y
<1>1. \E x \in numbers : \A y \in numbers : <<y, x>> \notin OpToRel(<, Nat)
      BY WFMin, NatLessThanWellFounded, Zenon
<1>2. PICK x \in numbers : \A y \in numbers : <<y, x>> \notin OpToRel(<, Nat)
      BY <1>1
<1>3. \A y \in numbers : ~(y < x)
      BY <1>2 DEF OpToRel
<1>. QED  BY <1>3

\* What getRoomID returns is the name a room is found under or, until it is
\* first moved, a longer one.
NamesKept ==
    \A r \in DOMAIN roomMap :
        roomMap[r].roomID = r \/ (r \in Rooms /\ roomMap[r].roomID = LongerName[r])

Inv == TypeOK /\ ArraysSound /\ NamesKept

\* The parts of TypeOK that a step reads.
LEMMA Objects ==
    ASSUME TypeOK, NEW r \in DOMAIN roomMap
    PROVE  /\ r \in Names
           /\ roomMap[r] \in RoomObjects
           /\ roomMap[r].capacity \in Nat /\ roomMap[r].availableUsers \in Nat
           /\ roomMap[r].array \in Blocks /\ roomMap[r].roomID \in Names
BY DEF TypeOK, IsMap, RoomObjects

\* The first occurrence of a member.
LEMMA PositionIs ==
    ASSUME Inv, NEW r \in DOMAIN roomMap, NEW fd, find(roomMap[r], fd)
    PROVE  /\ Position(roomMap[r], fd) \in 0..(roomMap[r].availableUsers - 1)
           /\ Cell(Cells(roomMap[r]), Position(roomMap[r], fd)) = fd
           /\ \A j \in 0..(Position(roomMap[r], fd) - 1) :
                 Cell(Cells(roomMap[r]), j) # fd
           /\ roomMap[r].availableUsers > 0
<1>. DEFINE n == roomMap[r].availableUsers
            At(k) == Cell(Cells(roomMap[r]), k) = fd
            Found == {k \in 0..(n - 1) : At(k)}
<1>1. n \in Nat
      BY Objects DEF Inv
<1>2. Found \in SUBSET Nat /\ Found # {}
      BY <1>1 DEF find
<1>3. PICK k \in Found : \A j \in Found : k <= j
      BY <1>2, LeastNat
<1>4. k \in 0..(n - 1) /\ At(k) /\ \A j \in 0..(k - 1) : ~At(j)
      BY <1>1, <1>3
<1>5. Position(roomMap[r], fd) \in 0..(n - 1)
      /\ At(Position(roomMap[r], fd))
      /\ \A j \in 0..(Position(roomMap[r], fd) - 1) : ~At(j)
      BY <1>4 DEF Position
<1>. QED  BY <1>1, <1>5

-----------------------------------------------------------------------------
(* The invariant.                                                          *)

\* No room yet.
LEMMA InitInv == Init => Inv
BY DEF Init, Inv, TypeOK, ArraysSound, NamesKept, Empty, IsMap

\* The array of a new room is a block nobody has.
LEMMA addRoomInv ==
    ASSUME Inv, NEW r \in Rooms, NEW c \in Capacities, addRoom(r, c)
    PROVE  Inv'
<1>. USE CapacitiesAssumption, NamesAssumption DEF Inv
<1>. PICK a \in Blocks \ DOMAIN heap, id \in {r, LongerName[r]} :
        /\ heap' = Put(heap, a, NewArray(c))
        /\ roomMap' = Put(roomMap, r, [capacity |-> c, availableUsers |-> 0,
                                       array |-> a, roomID |-> id])
     BY DEF addRoom
<1>. DEFINE room == [capacity |-> c, availableUsers |-> 0, array |-> a, roomID |-> id]
<1>1. c \in Nat /\ r \notin DOMAIN roomMap
      BY DEF addRoom
<1>2. room \in RoomObjects
      BY <1>1 DEF RoomObjects, Names
<1>3. /\ DOMAIN roomMap' = DOMAIN roomMap \cup {r} /\ roomMap'[r] = room
      /\ \A s \in DOMAIN roomMap : roomMap'[s] = roomMap[s]
      BY <1>1 DEF Put
<1>4. /\ DOMAIN heap' = DOMAIN heap \cup {a} /\ heap'[a] = NewArray(c)
      /\ \A b \in DOMAIN heap : heap'[b] = heap[b]
      BY DEF Put
<1>5. TypeOK'
  <2>1. IsMap(roomMap', Names, RoomObjects)
        BY <1>2 DEF TypeOK, Names, IsMap, Put
  <2>2. IsMap(NewArray(c), Nat, Fds \cup {Junk})
        BY <1>1 DEF IsMap, NewArray
  <2>. QED  BY <2>1, <2>2, <1>4 DEF TypeOK
<1>6. ArraysSound'
  <2>1. DOMAIN NewArray(c) = 0..(c - 1)
        BY DEF NewArray
  <2>. QED  BY <2>1, <1>1, <1>3, <1>4 DEF ArraysSound
<1>7. NamesKept'
      BY <1>3 DEF NamesKept
<1>. QED  BY <1>5, <1>6, <1>7

\* A member is written inside the array.
LEMMA JoinRoomInv ==
    ASSUME Inv, NEW r \in Names, NEW fd \in Fds, JoinRoom(r, fd)
    PROVE  Inv'
<1>. USE DEF Inv
<1>. DEFINE room == roomMap[r]
            new == [room EXCEPT !.availableUsers = @ + 1]
<1>1. /\ r \in DOMAIN roomMap /\ room.availableUsers < room.capacity
      /\ heap' = [heap EXCEPT ![room.array][room.availableUsers] = fd]
      /\ roomMap' = [roomMap EXCEPT ![r] = new]
      BY DEF JoinRoom, CanAdd
<1>2. room \in RoomObjects /\ new \in RoomObjects
      /\ new = [capacity |-> room.capacity, array |-> room.array,
                roomID |-> room.roomID, availableUsers |-> room.availableUsers + 1]
      BY <1>1, Objects DEF RoomObjects
<1>3. /\ DOMAIN roomMap' = DOMAIN roomMap /\ roomMap'[r] = new
      /\ \A s \in DOMAIN roomMap : s # r => roomMap'[s] = roomMap[s]
      BY <1>1 DEF TypeOK, IsMap
<1>4. /\ DOMAIN heap' = DOMAIN heap
      /\ \A b \in DOMAIN heap : DOMAIN heap'[b] = DOMAIN heap[b]
      /\ \A b \in DOMAIN heap : b # room.array => heap'[b] = heap[b]
      BY <1>1
<1>5. TypeOK'
  <2>1. IsMap(roomMap', Names, RoomObjects)
        BY <1>1, <1>2 DEF TypeOK, IsMap
  <2>2. ASSUME NEW b \in DOMAIN heap
        PROVE  IsMap(heap'[b], Nat, Fds \cup {Junk})
        BY <1>1, <2>2 DEF TypeOK, IsMap
  <2>. QED  BY <2>1, <2>2, <1>4 DEF TypeOK
<1>6. ArraysSound'
      BY <1>1, <1>2, <1>3, <1>4, Objects DEF ArraysSound, RoomObjects
<1>7. NamesKept'
      BY <1>2, <1>3 DEF NamesKept
<1>. QED  BY <1>5, <1>6, <1>7

\* A step that takes the object of a room away or keeps it with fewer members,
\* under a name nobody else has, and moves cells of its array only.
LEMMA MovedInv ==
    ASSUME Inv, NEW r \in DOMAIN roomMap, NEW room \in RoomObjects,
           room.array = roomMap[r].array, room.capacity = roomMap[r].capacity,
           room.availableUsers <= room.capacity,
           roomMap' \in {Erase(roomMap, r), Put(Erase(roomMap, r), room.roomID, room)},
           room.roomID \notin DOMAIN Erase(roomMap, r)
              \/ roomMap' = Erase(roomMap, r),
           DOMAIN heap' = DOMAIN heap,
           \A b \in DOMAIN heap :
              /\ b # room.array => heap'[b] = heap[b]
              /\ IsMap(heap'[b], Nat, Fds \cup {Junk})
              /\ DOMAIN heap'[b] = DOMAIN heap[b]
    PROVE  Inv'
<1>. USE DEF Inv
<1>1. DOMAIN Erase(roomMap, r) = DOMAIN roomMap \ {r}
      /\ \A s \in DOMAIN roomMap \ {r} : Erase(roomMap, r)[s] = roomMap[s]
      BY DEF Erase, Restrict
<1>2. IsMap(Erase(roomMap, r), Names, RoomObjects)
      BY DEF TypeOK, IsMap, Erase, Restrict
<1>3. CASE roomMap' = Erase(roomMap, r)
  <2>1. TypeOK'
        BY <1>2, <1>3 DEF TypeOK
  <2>2. ArraysSound'
        BY <1>1, <1>3 DEF ArraysSound
  <2>3. NamesKept'
        BY <1>1, <1>3 DEF NamesKept
  <2>. QED  BY <2>1, <2>2, <2>3
<1>4. CASE /\ roomMap' = Put(Erase(roomMap, r), room.roomID, room)
           /\ room.roomID \notin DOMAIN Erase(roomMap, r)
  <2>1. room.roomID \in Names
        BY DEF RoomObjects
  <2>2. IsMap(roomMap', Names, RoomObjects)
        BY <1>2, <1>4, <2>1 DEF IsMap, Put
  <2>3. TypeOK'
        BY <2>2 DEF TypeOK
  <2>4. /\ DOMAIN roomMap' = (DOMAIN roomMap \ {r}) \cup {room.roomID}
        /\ roomMap'[room.roomID] = room
        /\ \A s \in DOMAIN roomMap \ {r} :
              s # room.roomID /\ roomMap'[s] = roomMap[s]
        BY <1>1, <1>4 DEF Put
  <2>5. ArraysSound'
        BY <2>4 DEF ArraysSound
  <2>6. NamesKept'
        BY <2>4 DEF NamesKept
  <2>. QED  BY <2>3, <2>5, <2>6
<1>. QED  BY <1>3, <1>4

\* The room and the array removeUser leaves.
LEMMA RemoveIs ==
    ASSUME Inv, NEW r \in DOMAIN roomMap, NEW fd \in Fds, Remove(r, fd)
    PROVE  \E room \in RoomObjects :
              /\ room.array = roomMap[r].array
              /\ room.capacity = roomMap[r].capacity
              /\ room.roomID = roomMap[r].roomID
              /\ room.availableUsers = IF find(roomMap[r], fd)
                                       THEN roomMap[r].availableUsers - 1
                                       ELSE roomMap[r].availableUsers
              /\ heap' = IF find(roomMap[r], fd)
                         THEN [heap EXCEPT ![room.array] = ShiftDown(roomMap[r], fd)]
                         ELSE heap
              /\ roomMap' = IF room.roomID \in DOMAIN Erase(roomMap, r)
                            THEN Erase(roomMap, r)
                            ELSE Put(Erase(roomMap, r), room.roomID, room)
<1>. USE DEF Inv
<1>. DEFINE found == find(roomMap[r], fd)
            room == [roomMap[r] EXCEPT !.availableUsers = IF found THEN @ - 1 ELSE @]
<1>1. roomMap[r] \in RoomObjects
      BY Objects
<1>2. found => roomMap[r].availableUsers > 0
      BY PositionIs
<1>3. room = [capacity |-> roomMap[r].capacity, array |-> roomMap[r].array,
              roomID |-> roomMap[r].roomID,
              availableUsers |-> IF found THEN roomMap[r].availableUsers - 1
                                 ELSE roomMap[r].availableUsers]
      BY <1>1 DEF RoomObjects
<1>4. room \in RoomObjects
      BY <1>1, <1>2, <1>3 DEF RoomObjects
<1>5. /\ heap' = IF found THEN [heap EXCEPT ![room.array] = ShiftDown(roomMap[r], fd)]
                 ELSE heap
      /\ roomMap' = IF room.roomID \in DOMAIN Erase(roomMap, r) THEN Erase(roomMap, r)
                    ELSE Put(Erase(roomMap, r), room.roomID, room)
      BY <1>3 DEF Remove
<1>. QED  BY <1>3, <1>4, <1>5

\* The shift keeps the array one of its length.
LEMMA ShiftType ==
    ASSUME Inv, NEW r \in DOMAIN roomMap, NEW fd
    PROVE  /\ DOMAIN ShiftDown(roomMap[r], fd) = DOMAIN heap[roomMap[r].array]
           /\ IsMap(ShiftDown(roomMap[r], fd), Nat, Fds \cup {Junk})
<1>1. IsMap(Cells(roomMap[r]), Nat, Fds \cup {Junk})
      BY DEF Inv, TypeOK, ArraysSound, Cells
<1>2. \A k : Cell(Cells(roomMap[r]), k) \in Fds \cup {Junk}
      BY <1>1 DEF Cell, IsMap
<1>. QED  BY <1>1, <1>2 DEF ShiftDown, Cells, IsMap

\* removeUser moves cells of one array, and the room stays under a name of its own
\* or goes.
LEMMA LeaveRoomInv ==
    ASSUME Inv, NEW r \in Names, NEW fd \in Fds, LeaveRoom(r, fd)
    PROVE  Inv'
<1>. USE DEF Inv
<1>1. r \in DOMAIN roomMap /\ Remove(r, fd)
      BY DEF LeaveRoom
<1>2. PICK room \in RoomObjects :
              /\ room.array = roomMap[r].array
              /\ room.capacity = roomMap[r].capacity
              /\ room.roomID = roomMap[r].roomID
              /\ room.availableUsers = IF find(roomMap[r], fd)
                                       THEN roomMap[r].availableUsers - 1
                                       ELSE roomMap[r].availableUsers
              /\ heap' = IF find(roomMap[r], fd)
                         THEN [heap EXCEPT ![room.array] = ShiftDown(roomMap[r], fd)]
                         ELSE heap
              /\ roomMap' = IF room.roomID \in DOMAIN Erase(roomMap, r)
                            THEN Erase(roomMap, r)
                            ELSE Put(Erase(roomMap, r), room.roomID, room)
      BY <1>1, RemoveIs
<1>3. room.availableUsers <= room.capacity
      BY <1>1, <1>2, Objects DEF ArraysSound
<1>4. /\ DOMAIN heap' = DOMAIN heap
      /\ \A b \in DOMAIN heap :
            /\ b # room.array => heap'[b] = heap[b]
            /\ IsMap(heap'[b], Nat, Fds \cup {Junk})
            /\ DOMAIN heap'[b] = DOMAIN heap[b]
  <2>1. CASE find(roomMap[r], fd)
        BY <1>1, <1>2, <2>1, ShiftType DEF TypeOK
  <2>2. CASE ~find(roomMap[r], fd)
        BY <1>2, <2>2 DEF TypeOK
  <2>. QED  BY <2>1, <2>2
<1>. QED  BY <1>1, <1>2, <1>3, <1>4, MovedInv

\* The object of a room after setRoomID and setCapacity.
Modified(room, r, c, a) == [room EXCEPT !.roomID = r, !.capacity = c, !.array = a]

\* setRoomID and setCapacity, field by field.
LEMMA ModifiedObject ==
    ASSUME NEW room \in RoomObjects, NEW r, NEW c, NEW a
    PROVE  Modified(room, r, c, a)
           = [capacity |-> c, availableUsers |-> room.availableUsers,
              array |-> a, roomID |-> r]
<1>. DEFINE one == [room EXCEPT !.roomID = r]
            two == [one EXCEPT !.capacity = c]
            three == [two EXCEPT !.array = a]
<1>1. one = [capacity |-> room.capacity, availableUsers |-> room.availableUsers,
             array |-> room.array, roomID |-> r]
      BY DEF RoomObjects
<1>. HIDE DEF one
<1>2. two = [capacity |-> c, availableUsers |-> room.availableUsers,
             array |-> room.array, roomID |-> r]
      BY <1>1
<1>. HIDE DEF two
<1>3. three = [capacity |-> c, availableUsers |-> room.availableUsers,
               array |-> a, roomID |-> r]
      BY <1>2
<1>. QED  BY <1>3 DEF one, two, Modified

\* Nobody else has the array that setCapacity deletes.
LEMMA ModifyRoomInv ==
    ASSUME Inv, NEW r \in Names, NEW c \in Capacities, ModifyRoom(r, c)
    PROVE  Inv'
<1>. USE CapacitiesAssumption DEF Inv
<1>. PICK a \in Blocks \ DOMAIN heap :
        /\ heap' = Erase(Put(heap, a, NewArray(c)), roomMap[r].array)
        /\ roomMap' = [roomMap EXCEPT ![r].roomID = r, ![r].capacity = c,
                                      ![r].array = a]
     BY DEF ModifyRoom
<1>. DEFINE new == [capacity |-> c, availableUsers |-> 0, array |-> a, roomID |-> r]
<1>1. r \in DOMAIN roomMap /\ c \in Nat /\ roomMap[r].availableUsers = 0
      BY DEF ModifyRoom, getOnlUser
<1>2. roomMap[r] \in RoomObjects /\ new \in RoomObjects
      BY <1>1, Objects DEF RoomObjects
<1>3. Modified(roomMap[r], r, c, a) = new
      BY <1>1, <1>2, ModifiedObject
<1>4. /\ DOMAIN roomMap' = DOMAIN roomMap /\ roomMap'[r] = new
      /\ \A s \in DOMAIN roomMap : s # r => roomMap'[s] = roomMap[s]
  <2>1. roomMap'[r] = Modified(roomMap[r], r, c, a)
        BY <1>1 DEF TypeOK, IsMap, Modified
  <2>. QED  BY <2>1, <1>1, <1>3 DEF TypeOK, IsMap
<1>5. /\ roomMap[r].array \in DOMAIN heap
      /\ DOMAIN heap' = (DOMAIN heap \cup {a}) \ {roomMap[r].array}
      /\ heap'[a] = NewArray(c)
      /\ \A b \in DOMAIN heap : b # roomMap[r].array => heap'[b] = heap[b]
  <2>1. roomMap[r].array \in DOMAIN heap
        BY <1>1 DEF ArraysSound
  <2>. QED  BY <2>1 DEF Put, Erase, Restrict
<1>6. TypeOK'
  <2>1. IsMap(roomMap', Names, RoomObjects)
        BY <1>2, <1>4 DEF TypeOK, IsMap
  <2>2. IsMap(NewArray(c), Nat, Fds \cup {Junk})
        BY <1>1 DEF IsMap, NewArray
  <2>. QED  BY <2>1, <2>2, <1>5 DEF TypeOK
<1>7. ArraysSound'
  <2>1. DOMAIN NewArray(c) = 0..(c - 1)
        BY DEF NewArray
  <2>2. ASSUME NEW s \in DOMAIN roomMap, s # r
        PROVE  roomMap[s].array \in DOMAIN heap /\ roomMap[s].array # roomMap[r].array
        BY <1>1, <2>2 DEF ArraysSound
  <2>. QED  BY <2>1, <2>2, <1>1, <1>4, <1>5 DEF ArraysSound
<1>8. NamesKept'
      BY <1>4 DEF NamesKept
<1>. QED  BY <1>6, <1>7, <1>8

\* The array of a deleted room stays allocated.
LEMMA DeleteRoomInv ==
    ASSUME Inv, NEW r \in Names, DeleteRoom(r)
    PROVE  Inv'
<1>1. r \in DOMAIN roomMap /\ roomMap' = Erase(roomMap, r) /\ heap' = heap
      BY DEF DeleteRoom
<1>2. /\ roomMap[r] \in RoomObjects
      /\ roomMap[r].availableUsers <= roomMap[r].capacity
      BY <1>1, Objects DEF Inv, ArraysSound
<1>3. \A b \in DOMAIN heap : IsMap(heap[b], Nat, Fds \cup {Junk})
      BY DEF Inv, TypeOK
<1>. QED  BY <1>1, <1>2, <1>3, MovedInv

\* Every step keeps the invariant.
LEMMA NextInv == ASSUME Inv, [Next]_vars PROVE Inv'
<1>1. CASE UNCHANGED vars
      BY <1>1 DEF vars, Inv, TypeOK, ArraysSound, NamesKept
<1>. QED  BY <1>1, addRoomInv, JoinRoomInv, LeaveRoomInv, ModifyRoomInv, DeleteRoomInv
          DEF Next

\* The invariant holds in every reachable state.
LEMMA Invariant == Spec => []Inv
BY InitInv, NextInv, PTL DEF Spec

\* The maps of rooms and of arrays keep their types, for any rooms, descriptors,
\* capacities and addresses.
THEOREM HeapTypeCorrect == Spec => []TypeOK
<1>1. Inv => TypeOK
      BY DEF Inv
<1>. QED  BY Invariant, <1>1, PTL

\* Every room of the map has an array of its own that is allocated and long
\* enough: neither a copy of a Room nor setCapacity makes a write go astray.
THEOREM ArraysStaySound == Spec => []ArraysSound
<1>1. Inv => ArraysSound
      BY DEF Inv
<1>. QED  BY Invariant, <1>1, PTL

-----------------------------------------------------------------------------
(* RoomHeap implements RoomTable: every step that changes a room whose     *)
(* name is terminated is the step of RoomTable of that name, and every     *)
(* other step leaves those rooms alone.                                    *)

\* The value of a room, from its object and its array.
Value(room, cells) ==
    [roomID |-> room.roomID, capacity |-> room.capacity,
     members |-> [k \in 1..room.availableUsers |-> cells[k - 1]]]

\* A room without members is a new one.
LEMMA NewValue ==
    ASSUME NEW room \in RoomObjects, NEW cells, room.availableUsers = 0
    PROVE  Value(room, cells) = T!NewRoom(room.roomID, room.capacity)
<1>1. [k \in 1..0 |-> cells[k - 1]] = <<>>
      OBVIOUS
<1>. QED  BY <1>1 DEF Value, T!NewRoom

\* The members of a room's value.
LEMMA MembersSeq ==
    ASSUME NEW room \in RoomObjects, NEW cells
    PROVE  /\ Value(room, cells).capacity = room.capacity
           /\ Value(room, cells).roomID = room.roomID
           /\ Value(room, cells).members \in Seq({cells[k] : k \in Nat})
           /\ T!getOnlUser(Value(room, cells)) = room.availableUsers
           /\ \A k \in 1..room.availableUsers :
                 Value(room, cells).members[k] = cells[k - 1]
BY DEF Value, T!getOnlUser, RoomObjects

\* Room::add: a member behind the last one is one appended.
LEMMA AddedValue ==
    ASSUME NEW room \in RoomObjects, NEW cells, NEW fd, NEW next \in RoomObjects, NEW new,
           next.capacity = room.capacity, next.roomID = room.roomID,
           next.availableUsers = room.availableUsers + 1,
           new[room.availableUsers] = fd,
           \A k \in 0..(room.availableUsers - 1) : new[k] = cells[k]
    PROVE  Value(next, new) = T!Add(Value(room, cells), fd)
<1>. DEFINE old == Value(room, cells).members
            n == room.availableUsers
<1>1. n \in Nat /\ Len(old) = n /\ old = [k \in 1..n |-> cells[k - 1]]
      BY DEF Value, RoomObjects
<1>2. Append(old, fd) = [k \in 1..(n + 1) |-> new[k - 1]]
  <2>1. Append(old, fd) = [k \in 1..(n + 1) |-> IF k = n + 1 THEN fd ELSE old[k]]
        BY <1>1
  <2>2. ASSUME NEW k \in 1..(n + 1)
        PROVE  (IF k = n + 1 THEN fd ELSE old[k]) = new[k - 1]
        BY <1>1, <2>2
  <2>. QED  BY <2>1, <2>2
<1>. HIDE DEF old
<1>3. T!Add(Value(room, cells), fd)
      = [roomID |-> room.roomID, capacity |-> room.capacity,
         members |-> Append(old, fd)]
  <2>1. Value(room, cells)
        = [roomID |-> room.roomID, capacity |-> room.capacity, members |-> old]
        BY DEF Value, old
  <2>2. ASSUME NEW id, NEW c
        PROVE  T!Add([roomID |-> id, capacity |-> c, members |-> old], fd)
               = [roomID |-> id, capacity |-> c, members |-> Append(old, fd)]
        BY DEF T!Add
  <2>. QED  BY <2>1, <2>2
<1>. QED  BY <1>1, <1>2, <1>3 DEF Value

\* Members are found by the loop and by the value alike.
LEMMA SameFind ==
    ASSUME NEW room \in RoomObjects, NEW cells, NEW fd,
           \A k \in 0..(room.availableUsers - 1) : Cell(Cells(room), k) = cells[k]
    PROVE  find(room, fd) <=> T!find(Value(room, cells), fd)
<1>1. room.availableUsers \in Nat
      BY DEF RoomObjects
<1>2. find(room, fd) <=> \E k \in 0..(room.availableUsers - 1) : cells[k] = fd
      BY DEF find
<1>3. (\E k \in 0..(room.availableUsers - 1) : cells[k] = fd)
      <=> \E i \in 1..room.availableUsers : cells[i - 1] = fd
  <2>1. ASSUME NEW k \in 0..(room.availableUsers - 1), cells[k] = fd
        PROVE  \E i \in 1..room.availableUsers : cells[i - 1] = fd
    <3>1. k + 1 \in 1..room.availableUsers /\ (k + 1) - 1 = k
          BY <1>1
    <3>. QED  BY <2>1, <3>1
  <2>2. ASSUME NEW i \in 1..room.availableUsers, cells[i - 1] = fd
        PROVE  \E k \in 0..(room.availableUsers - 1) : cells[k] = fd
    <3>1. i - 1 \in 0..(room.availableUsers - 1)
          BY <1>1
    <3>. QED  BY <2>2, <3>1
  <2>. QED  BY <2>1, <2>2
<1>4. /\ T!getOnlUser(Value(room, cells)) = room.availableUsers
      /\ \A k \in 1..room.availableUsers :
            Value(room, cells).members[k] = cells[k - 1]
      BY MembersSeq
<1>. QED  BY <1>1, <1>2, <1>3, <1>4 DEF T!find

\* Room::removeUser: the shift of the array is the shift of the sequence.
LEMMA RemovedValue ==
    ASSUME NEW room \in RoomObjects, NEW cells, NEW fd, NEW p \in 0..(room.availableUsers - 1),
           cells[p] = fd, \A j \in 0..(p - 1) : cells[j] # fd,
           NEW next \in RoomObjects, NEW new,
           next.capacity = room.capacity, next.roomID = room.roomID,
           next.availableUsers = room.availableUsers - 1,
           \A k \in 0..(room.availableUsers - 2) :
              new[k] = IF k < p THEN cells[k] ELSE cells[k + 1]
    PROVE  Value(next, new) = T!removeUser(Value(room, cells), fd)
<1>. DEFINE old == Value(room, cells)
            n == room.availableUsers
            First(i) == old.members[i] = fd /\ \A j \in 1..(i - 1) : old.members[j] # fd
            first == CHOOSE i \in 1..T!getOnlUser(old) : First(i)
<1>1. /\ n \in Nat /\ p \in Nat /\ p < n
      /\ T!getOnlUser(old) = n /\ Len(old.members) = n /\ old.capacity = room.capacity
      /\ old.roomID = room.roomID
      /\ \A k \in 1..n : old.members[k] = cells[k - 1]
  <2>1. n \in Nat
        BY DEF RoomObjects
  <2>2. p \in Nat /\ p < n
        BY <2>1
  <2>. QED  BY <2>1, <2>2, MembersSeq DEF T!getOnlUser
<1>. HIDE DEF old, n
<1>2. p + 1 \in 1..n /\ First(p + 1)
  <2>1. p + 1 \in 1..n /\ old.members[p + 1] = cells[(p + 1) - 1]
        BY <1>1
  <2>2. ASSUME NEW j \in 1..((p + 1) - 1)
        PROVE  old.members[j] # fd
    <3>1. j \in 1..n /\ j - 1 \in 0..(p - 1)
          BY <1>1
    <3>. QED  BY <1>1, <3>1
  <2>. QED  BY <1>1, <2>1, <2>2
<1>3. ASSUME NEW i \in 1..n, First(i)
      PROVE  i = p + 1
  <2>1. ~(i < p + 1)
    <3>1. i - 1 \in 0..(p - 1) => old.members[i] # fd
          BY <1>1
    <3>. QED  BY <1>1, <1>3, <3>1
  <2>2. ~(p + 1 < i)
        BY <1>1, <1>2, <1>3
  <2>. QED  BY <1>1, <2>1, <2>2
<1>4. first = p + 1
      BY <1>1, <1>2, <1>3
<1>5. T!Shift(old.members, p + 1) = [k \in 1..(n - 1) |-> new[k - 1]]
  <2>1. T!Shift(old.members, p + 1)
        = [j \in 1..(n - 1) |-> IF j < p + 1 THEN old.members[j] ELSE old.members[j + 1]]
        BY <1>1 DEF T!Shift
  <2>2. ASSUME NEW j \in 1..(n - 1)
        PROVE  (IF j < p + 1 THEN old.members[j] ELSE old.members[j + 1]) = new[j - 1]
    <3>1. old.members[j] = cells[j - 1] /\ old.members[j + 1] = cells[j]
          BY <1>1
    <3>2. j - 1 \in 0..(room.availableUsers - 2) /\ (j - 1) + 1 = j
          BY <1>1, <2>2 DEF n
    <3>3. new[j - 1] = IF j - 1 < p THEN cells[j - 1] ELSE cells[(j - 1) + 1]
          BY <3>2
    <3>. QED  BY <1>1, <3>1, <3>2, <3>3
  <2>. QED  BY <2>1, <2>2
<1>6. T!find(old, fd)
      BY <1>1, <1>2 DEF T!find
<1>7. T!removeUser(old, fd) = [old EXCEPT !.members = T!Shift(@, p + 1)]
      BY <1>4, <1>6 DEF T!removeUser
<1>8. T!removeUser(old, fd)
      = [roomID |-> room.roomID, capacity |-> room.capacity,
         members |-> T!Shift(old.members, p + 1)]
      BY <1>7 DEF Value, old
<1>. QED  BY <1>1, <1>5, <1>8 DEF Value, old, n

-----------------------------------------------------------------------------
(* The refinement.                                                         *)

\* The value that stands for the variable of RoomTable.
AbsRooms == [r \in Named |-> Value(roomMap[r], heap[roomMap[r].array])]

\* The step changes nothing of the rooms users named, but perhaps r.
Frame(r) ==
    \A s \in Rooms \ {r} :
        /\ s \in DOMAIN roomMap' <=> s \in DOMAIN roomMap
        /\ s \in DOMAIN roomMap =>
              /\ roomMap'[s] = roomMap[s]
              /\ heap'[roomMap[s].array] = heap[roomMap[s].array]

\* What a step that changes one room only does to the table.
LEMMA OneRoom ==
    ASSUME NEW r, Frame(r)
    PROVE  /\ r \notin Named /\ r \notin Named' => AbsRooms' = AbsRooms
           /\ r \notin Named /\ r \in Named' =>
                 AbsRooms' = T!Put(AbsRooms, r, AbsRooms'[r])
           /\ r \in Named /\ r \in Named' =>
                 AbsRooms' = [AbsRooms EXCEPT ![r] = AbsRooms'[r]]
           /\ r \in Named /\ r \notin Named' => AbsRooms' = T!Erase(AbsRooms, r)
<1>1. \A s : s # r => (s \in Named' <=> s \in Named)
      BY DEF Frame, Named
<1>2. \A s \in Named : s # r => AbsRooms'[s] = AbsRooms[s]
  <2>1. ASSUME NEW s \in Named, s # r
        PROVE  AbsRooms'[s] = AbsRooms[s]
    <3>1. s \in Named' /\ s \in Rooms \ {r} /\ s \in DOMAIN roomMap
          BY <1>1, <2>1 DEF Named
    <3>2. roomMap'[s] = roomMap[s] /\ heap'[roomMap[s].array] = heap[roomMap[s].array]
          BY <3>1 DEF Frame
    <3>. QED  BY <3>1, <3>2 DEF AbsRooms
  <2>. QED  BY <2>1
<1>3. /\ AbsRooms = [s \in Named |-> AbsRooms[s]] /\ DOMAIN AbsRooms = Named
      /\ AbsRooms' = [s \in Named' |-> AbsRooms'[s]] /\ DOMAIN AbsRooms' = Named'
      BY DEF AbsRooms
<1>. HIDE DEF AbsRooms, Named
<1>4. CASE r \notin Named /\ r \notin Named'
  <2>1. Named' = Named
        BY <1>1, <1>4
  <2>. QED  BY <1>2, <1>3, <1>4, <2>1
<1>5. CASE r \notin Named /\ r \in Named'
  <2>1. Named' = Named \cup {r}
        BY <1>1, <1>5
  <2>. QED  BY <1>2, <1>3, <1>5, <2>1 DEF T!Put
<1>6. CASE r \in Named /\ r \in Named'
  <2>1. Named' = Named
        BY <1>1, <1>6
  <2>. QED  BY <1>2, <1>3, <1>6, <2>1
<1>7. CASE r \in Named /\ r \notin Named'
  <2>1. Named' = Named \ {r}
        BY <1>1, <1>7
  <2>. QED  BY <1>2, <1>3, <1>7, <2>1 DEF T!Erase, T!Restrict
<1>. QED  BY <1>4, <1>5, <1>6, <1>7

\* The actions of the table, in terms of AbsRooms.
LEMMA TableActions ==
    ASSUME NEW r, NEW c, NEW fd
    PROVE  /\ T!Create(r, c) <=> /\ r \notin DOMAIN AbsRooms
                                 /\ AbsRooms' = T!Put(AbsRooms, r, T!NewRoom(r, c))
           /\ T!Join(r, fd) <=> /\ r \in DOMAIN AbsRooms
                                /\ T!CanAdd(AbsRooms[r], fd)
                                /\ AbsRooms' = [AbsRooms EXCEPT ![r] = T!Add(@, fd)]
           /\ T!Leave(r, fd) <=>
                 /\ r \in DOMAIN AbsRooms
                 /\ AbsRooms' = [AbsRooms EXCEPT ![r] = T!removeUser(@, fd)]
           /\ T!Resize(r, c) <=>
                 /\ r \in DOMAIN AbsRooms
                 /\ T!getOnlUser(AbsRooms[r]) = 0
                 /\ AbsRooms' = [AbsRooms EXCEPT ![r] = T!setCapacity(@, c)]
           /\ T!Delete(r) <=> /\ r \in DOMAIN AbsRooms
                              /\ T!getOnlUser(AbsRooms[r]) = 0
                              /\ AbsRooms' = T!Erase(AbsRooms, r)
<1>1. AbsRooms = [s \in Named |-> [roomID |-> s, capacity |-> roomMap[s].capacity,
                                   members |-> Members(roomMap[s])]]
      BY DEF AbsRooms, Value, Members, Cells, Named
<1>2. AbsRooms' = [s \in Named |-> [roomID |-> s, capacity |-> roomMap[s].capacity,
                                    members |-> Members(roomMap[s])]]'
      BY DEF AbsRooms, Value, Members, Cells, Named
<1>. HIDE DEF AbsRooms, Named
<1>. QED  BY <1>1, <1>2 DEF T!Create, T!Join, T!Leave, T!Resize, T!Delete

\* The facts about a room users named that the steps below need.
LEMMA NamedRoom ==
    ASSUME Inv, NEW r \in Named
    PROVE  /\ r \in Rooms /\ r \in DOMAIN roomMap /\ roomMap[r].roomID = r
           /\ roomMap[r] \in RoomObjects
           /\ r \in DOMAIN AbsRooms
           /\ AbsRooms[r] = Value(roomMap[r], heap[roomMap[r].array])
           /\ \A k \in 0..(roomMap[r].availableUsers - 1) :
                 Cell(Cells(roomMap[r]), k) = heap[roomMap[r].array][k]
<1>1. r \in DOMAIN roomMap
      BY DEF Named
<1>2. roomMap[r].capacity \in Nat /\ roomMap[r].availableUsers \in Nat
      /\ roomMap[r].availableUsers <= roomMap[r].capacity
      /\ DOMAIN heap[roomMap[r].array] = 0..(roomMap[r].capacity - 1)
      BY <1>1, Objects DEF Inv, ArraysSound
<1>3. \A k \in 0..(roomMap[r].availableUsers - 1) :
         Cell(Cells(roomMap[r]), k) = heap[roomMap[r].array][k]
      BY <1>2 DEF Cell, Cells
<1>. QED  BY <1>1, <1>3, Objects DEF Inv, Named, AbsRooms

\* addRoom creates a room, if its name is terminated.
LEMMA addRoomMaps ==
    ASSUME Inv, NEW r \in Rooms, NEW c \in Capacities, addRoom(r, c)
    PROVE  T!Create(r, c) \/ AbsRooms' = AbsRooms
<1>. USE CapacitiesAssumption
<1>. PICK a \in Blocks \ DOMAIN heap, id \in {r, LongerName[r]} :
        /\ heap' = Put(heap, a, NewArray(c))
        /\ roomMap' = Put(roomMap, r, [capacity |-> c, availableUsers |-> 0,
                                       array |-> a, roomID |-> id])
     BY DEF addRoom
<1>. DEFINE room == [capacity |-> c, availableUsers |-> 0, array |-> a, roomID |-> id]
<1>1. c \in Nat /\ r \notin DOMAIN roomMap /\ r \notin Named
      BY DEF addRoom, Named
<1>2. room \in RoomObjects
      BY <1>1, NamesAssumption DEF RoomObjects, Names
<1>3. /\ DOMAIN roomMap' = DOMAIN roomMap \cup {r} /\ roomMap'[r] = room
      /\ \A s \in DOMAIN roomMap : roomMap'[s] = roomMap[s]
      BY <1>1 DEF Put
<1>4. \A b \in DOMAIN heap : heap'[b] = heap[b]
      BY DEF Put
<1>5. Frame(r)
      BY <1>1, <1>3, <1>4 DEF Frame, Inv, ArraysSound
<1>6. CASE r \in Named'
  <2>1. AbsRooms'[r] = Value(room, heap'[a])
        BY <1>3, <1>6 DEF AbsRooms
  <2>2. AbsRooms'[r] = T!NewRoom(r, c)
    <3>1. id = r
          BY <1>3, <1>6 DEF Named
    <3>. QED  BY <1>2, <2>1, <3>1, NewValue
  <2>3. r \notin DOMAIN AbsRooms
        BY <1>1 DEF AbsRooms
  <2>. QED  BY <1>1, <1>5, <1>6, <2>2, <2>3, OneRoom, TableActions
<1>. QED  BY <1>1, <1>5, <1>6, OneRoom

\* JoinRoom of a room whose name is terminated.
LEMMA JoinRoomMaps ==
    ASSUME Inv, NEW r \in Names, NEW fd \in Fds, JoinRoom(r, fd)
    PROVE  (r \in Rooms /\ T!Join(r, fd)) \/ AbsRooms' = AbsRooms
<1>. DEFINE room == roomMap[r]
            new == [room EXCEPT !.availableUsers = @ + 1]
<1>1. /\ r \in DOMAIN roomMap /\ room.availableUsers < room.capacity /\ ~find(room, fd)
      /\ heap' = [heap EXCEPT ![room.array][room.availableUsers] = fd]
      /\ roomMap' = [roomMap EXCEPT ![r] = new]
      BY DEF JoinRoom, CanAdd
<1>2. room \in RoomObjects /\ new \in RoomObjects
      /\ new = [capacity |-> room.capacity, array |-> room.array,
                roomID |-> room.roomID, availableUsers |-> room.availableUsers + 1]
      BY <1>1, Objects DEF RoomObjects, Inv
<1>3. /\ DOMAIN roomMap' = DOMAIN roomMap /\ roomMap'[r] = new
      /\ \A s \in DOMAIN roomMap : s # r => roomMap'[s] = roomMap[s]
      BY <1>1 DEF Inv, TypeOK, IsMap
<1>4. \A b \in DOMAIN heap : b # room.array => heap'[b] = heap[b]
      BY <1>1
<1>5. Frame(r)
      BY <1>1, <1>3, <1>4 DEF Frame, Inv, ArraysSound
<1>6. r \in Named' <=> r \in Named
      BY <1>1, <1>2, <1>3 DEF Named
<1>7. CASE r \in Named
  <2>. DEFINE n == room.availableUsers
              cells == heap[room.array]
              cells2 == heap'[room.array]
  <2>1. /\ n \in Nat /\ room.capacity \in Nat /\ n < room.capacity
        /\ room.array \in DOMAIN heap /\ DOMAIN cells = 0..(room.capacity - 1)
        BY <1>1, Objects DEF Inv, ArraysSound
  <2>2. cells2 = [cells EXCEPT ![n] = fd]
        BY <1>1, <2>1
  <2>3. cells2[n] = fd /\ \A k \in 0..(n - 1) : cells2[k] = cells[k]
        BY <2>1, <2>2
  <2>. HIDE DEF new
  <2>4. AbsRooms'[r] = Value(new, cells2)
        BY <1>2, <1>3, <1>6, <1>7 DEF AbsRooms
  <2>5. AbsRooms'[r] = T!Add(Value(room, cells), fd)
        BY <1>2, <2>3, <2>4, AddedValue
  <2>6. T!CanAdd(AbsRooms[r], fd)
    <3>1. /\ AbsRooms[r] = Value(room, cells)
          /\ \A k \in 0..(n - 1) : Cell(Cells(room), k) = cells[k]
          BY <1>7, NamedRoom
    <3>. HIDE DEF room, cells
    <3>2. ~T!find(Value(room, cells), fd)
          BY <1>1, <1>2, <3>1, SameFind
    <3>3. Value(room, cells).capacity = room.capacity
          /\ T!getOnlUser(Value(room, cells)) = n
          BY <1>2, MembersSeq
    <3>. QED  BY <1>1, <3>1, <3>2, <3>3 DEF T!CanAdd
  <2>7. /\ r \in Rooms /\ r \in DOMAIN AbsRooms
        /\ AbsRooms[r] = Value(room, cells)
        BY <1>7, NamedRoom
  <2>8. AbsRooms' = [AbsRooms EXCEPT ![r] = AbsRooms'[r]]
        BY <1>5, <1>6, <1>7, OneRoom
  <2>9. AbsRooms' = [AbsRooms EXCEPT ![r] = T!Add(AbsRooms[r], fd)]
        BY <2>5, <2>7, <2>8
  <2>. HIDE DEF room, cells, cells2, n
  <2>. QED  BY <2>6, <2>7, <2>9, TableActions
<1>. QED  BY <1>5, <1>6, <1>7, OneRoom

\* LeaveRoom keeps a room whose name is terminated; another one stays out of the
\* table, under whatever name it is inserted.
LEMMA LeaveRoomMaps ==
    ASSUME Inv, NEW r \in Names, NEW fd \in Fds, LeaveRoom(r, fd)
    PROVE  (r \in Rooms /\ T!Leave(r, fd)) \/ AbsRooms' = AbsRooms
<1>1. r \in DOMAIN roomMap /\ Remove(r, fd)
      BY DEF LeaveRoom
<1>2. PICK room \in RoomObjects :
              /\ room.array = roomMap[r].array
              /\ room.capacity = roomMap[r].capacity
              /\ room.roomID = roomMap[r].roomID
              /\ room.availableUsers = IF find(roomMap[r], fd)
                                       THEN roomMap[r].availableUsers - 1
                                       ELSE roomMap[r].availableUsers
              /\ heap' = IF find(roomMap[r], fd)
                         THEN [heap EXCEPT ![room.array] = ShiftDown(roomMap[r], fd)]
                         ELSE heap
              /\ roomMap' = IF room.roomID \in DOMAIN Erase(roomMap, r)
                            THEN Erase(roomMap, r)
                            ELSE Put(Erase(roomMap, r), room.roomID, room)
      BY <1>1, RemoveIs
<1>3. /\ room.roomID \in DOMAIN roomMap \ {r} =>
            DOMAIN roomMap' = DOMAIN roomMap \ {r}
      /\ room.roomID \notin DOMAIN roomMap \ {r} =>
            /\ DOMAIN roomMap' = (DOMAIN roomMap \ {r}) \cup {room.roomID}
            /\ roomMap'[room.roomID] = room
      /\ \A s \in DOMAIN roomMap \ {r} : roomMap'[s] = roomMap[s]
      BY <1>2 DEF Put, Erase, Restrict
<1>4. room.roomID = r \/ (r \in Rooms /\ room.roomID = LongerName[r])
      BY <1>1, <1>2 DEF Inv, NamesKept
<1>5. room.roomID \notin Rooms \ {r}
      BY <1>4, NamesAssumption
<1>6. \A s \in Rooms \ {r} :
         /\ s \in DOMAIN roomMap' <=> s \in DOMAIN roomMap
         /\ s \in DOMAIN roomMap => roomMap'[s] = roomMap[s]
      BY <1>3, <1>5
<1>7. \A b \in DOMAIN heap : b # room.array => heap'[b] = heap[b]
      BY <1>2
<1>8. Frame(r)
      BY <1>1, <1>2, <1>6, <1>7 DEF Frame, Inv, ArraysSound
<1>9. CASE r \in Named
  <2>1. room.roomID = r /\ r \in Rooms
        BY <1>2, <1>9, NamedRoom
  <2>2. r \in DOMAIN roomMap' /\ roomMap'[r] = room
        BY <1>3, <2>1
  <2>3. r \in Named'
        BY <2>1, <2>2 DEF Named
  <2>4. AbsRooms'[r] = Value(room, heap'[room.array])
        BY <2>2, <2>3 DEF AbsRooms
  <2>5. AbsRooms'[r] = T!removeUser(AbsRooms[r], fd)
    <3>. DEFINE old == roomMap[r]
                n == old.availableUsers
                cells == heap[old.array]
    <3>1. /\ old \in RoomObjects /\ n \in Nat
          /\ AbsRooms[r] = Value(old, cells)
          /\ \A k \in 0..(n - 1) : Cell(Cells(old), k) = cells[k]
          BY <1>1, <1>9, NamedRoom, Objects DEF Inv
    <3>2. T!find(Value(old, cells), fd) <=> find(old, fd)
          BY <3>1, SameFind
    <3>3. CASE find(old, fd)
      <4>. DEFINE p == Position(old, fd)
                  new == heap'[room.array]
      <4>1. p \in 0..(n - 1) /\ Cell(Cells(old), p) = fd
            /\ \A j \in 0..(p - 1) : Cell(Cells(old), j) # fd
            BY <1>1, <3>3, PositionIs
      <4>. HIDE DEF p
      <4>2. cells[p] = fd /\ \A j \in 0..(p - 1) : cells[j] # fd
        <5>1. \A j \in 0..(p - 1) : j \in 0..(n - 1)
              BY <3>1, <4>1
        <5>. QED  BY <3>1, <4>1, <5>1
      <4>3. new = ShiftDown(old, fd) /\ room.availableUsers = n - 1
            BY <1>1, <1>2, <3>3 DEF Inv, ArraysSound
      <4>4. n <= old.capacity /\ DOMAIN cells = 0..(old.capacity - 1)
            /\ old.capacity \in Nat
            BY <1>1, Objects DEF Inv, ArraysSound
      <4>5. ASSUME NEW k \in 0..(n - 2)
            PROVE  new[k] = IF k < p THEN cells[k] ELSE cells[k + 1]
        <5>1. /\ k \in DOMAIN cells /\ k + 1 \in 0..(n - 1)
              /\ k \in p..(n - 1) <=> ~(k < p)
              BY <3>1, <4>1, <4>4
        <5>2. Cell(Cells(old), k + 1) = cells[k + 1]
              BY <3>1, <5>1
        <5>3. new[k] = IF k \in p..(n - 1) THEN Cell(Cells(old), k + 1) ELSE cells[k]
              BY <4>3, <5>1 DEF ShiftDown, Cells, p
        <5>. QED  BY <5>1, <5>2, <5>3
      <4>. HIDE DEF old, cells, new
      <4>6. Value(room, new) = T!removeUser(Value(old, cells), fd)
            BY <1>2, <3>1, <4>1, <4>2, <4>3, <4>5, RemovedValue DEF old
      <4>. QED  BY <2>4, <3>1, <4>6 DEF new
    <3>4. CASE ~find(old, fd)
      <4>1. room.availableUsers = n /\ heap' = heap
            BY <1>2, <3>4
      <4>2. Value(room, cells) = Value(old, cells)
            BY <1>2, <4>1 DEF Value
      <4>3. T!removeUser(Value(old, cells), fd) = Value(old, cells)
            BY <3>2, <3>4 DEF T!removeUser
      <4>. QED  BY <1>2, <2>4, <3>1, <4>1, <4>2, <4>3
    <3>. QED  BY <3>3, <3>4
  <2>6. AbsRooms' = [AbsRooms EXCEPT ![r] = T!removeUser(AbsRooms[r], fd)]
        BY <1>8, <1>9, <2>3, <2>5, OneRoom
  <2>. QED  BY <1>9, <2>1, <2>6, NamedRoom, TableActions
<1>10. CASE r \notin Named
  <2>1. r \in Rooms => room.roomID = LongerName[r] /\ room.roomID # r
        BY <1>1, <1>2, <1>4, <1>10, NamesAssumption DEF Named
  <2>2. r \in Rooms => r \notin DOMAIN roomMap'
        BY <1>3, <2>1
  <2>3. r \notin Named'
        BY <2>2 DEF Named
  <2>. QED  BY <1>8, <1>10, <2>3, OneRoom
<1>. QED  BY <1>9, <1>10

\* ModifyRoom resizes a room, or creates one by terminating its name.
LEMMA ModifyRoomMaps ==
    ASSUME Inv, NEW r \in Names, NEW c \in Capacities, ModifyRoom(r, c)
    PROVE  (r \in Rooms /\ (T!Create(r, c) \/ T!Resize(r, c))) \/ AbsRooms' = AbsRooms
<1>. USE CapacitiesAssumption
<1>. PICK a \in Blocks \ DOMAIN heap :
        /\ heap' = Erase(Put(heap, a, NewArray(c)), roomMap[r].array)
        /\ roomMap' = [roomMap EXCEPT ![r].roomID = r, ![r].capacity = c,
                                      ![r].array = a]
     BY DEF ModifyRoom
<1>. DEFINE new == [capacity |-> c, availableUsers |-> 0, array |-> a, roomID |-> r]
<1>1. r \in DOMAIN roomMap /\ c \in Nat /\ roomMap[r].availableUsers = 0
      BY DEF ModifyRoom, getOnlUser
<1>2. roomMap[r] \in RoomObjects /\ new \in RoomObjects
      BY <1>1, Objects DEF RoomObjects, Inv
<1>3. Modified(roomMap[r], r, c, a) = new
      BY <1>1, <1>2, ModifiedObject
<1>4. /\ DOMAIN roomMap' = DOMAIN roomMap /\ roomMap'[r] = new
      /\ \A s \in DOMAIN roomMap : s # r => roomMap'[s] = roomMap[s]
  <2>1. roomMap'[r] = Modified(roomMap[r], r, c, a)
        BY <1>1 DEF Modified, Inv, TypeOK, IsMap
  <2>. QED  BY <2>1, <1>1, <1>3 DEF Inv, TypeOK, IsMap
<1>5. \A b \in DOMAIN heap : b # roomMap[r].array => heap'[b] = heap[b]
      BY DEF Put, Erase, Restrict
<1>6. Frame(r)
      BY <1>1, <1>4, <1>5 DEF Frame, Inv, ArraysSound
<1>7. CASE r \in Rooms
  <2>1. r \in Named'
        BY <1>1, <1>4, <1>7 DEF Named
  <2>2. AbsRooms'[r] = Value(new, heap'[a])
        BY <1>4, <2>1 DEF AbsRooms
  <2>3. AbsRooms'[r] = T!NewRoom(r, c)
        BY <1>2, <2>2, NewValue
  <2>4. CASE r \notin Named
    <3>1. r \notin DOMAIN AbsRooms
          BY <2>4 DEF AbsRooms
    <3>. QED  BY <1>6, <1>7, <2>1, <2>3, <2>4, <3>1, OneRoom, TableActions
  <2>5. CASE r \in Named
    <3>1. r \in DOMAIN AbsRooms
          /\ AbsRooms[r] = Value(roomMap[r], heap[roomMap[r].array])
          BY <2>5, NamedRoom
    <3>2. AbsRooms[r] = T!NewRoom(r, roomMap[r].capacity)
      <4>1. roomMap[r].roomID = r
            BY <2>5, NamedRoom
      <4>. QED  BY <1>1, <1>2, <3>1, <4>1, NewValue
    <3>3. T!getOnlUser(AbsRooms[r]) = 0 /\ T!setCapacity(AbsRooms[r], c) = T!NewRoom(r, c)
          BY <1>1, <3>2 DEF T!getOnlUser, T!setCapacity, T!NewRoom
    <3>4. AbsRooms' = [AbsRooms EXCEPT ![r] = T!setCapacity(AbsRooms[r], c)]
          BY <1>6, <2>1, <2>3, <2>5, <3>3, OneRoom
    <3>. QED  BY <1>7, <3>1, <3>3, <3>4, TableActions
  <2>. QED  BY <2>4, <2>5
<1>8. CASE r \notin Rooms
      BY <1>6, <1>8, OneRoom DEF Named
<1>. QED  BY <1>7, <1>8

\* DeleteRoom.
LEMMA DeleteRoomMaps ==
    ASSUME Inv, NEW r \in Names, DeleteRoom(r)
    PROVE  (r \in Rooms /\ T!Delete(r)) \/ AbsRooms' = AbsRooms
<1>1. /\ r \in DOMAIN roomMap /\ heap' = heap /\ roomMap[r].availableUsers = 0
      /\ DOMAIN roomMap' = DOMAIN roomMap \ {r}
      /\ \A s \in DOMAIN roomMap : s # r => roomMap'[s] = roomMap[s]
      BY DEF DeleteRoom, getOnlUser, Erase, Restrict
<1>2. Frame(r) /\ r \notin Named'
      BY <1>1 DEF Frame, Named
<1>3. CASE r \in Named
  <2>1. r \in Rooms /\ r \in DOMAIN AbsRooms
        /\ T!getOnlUser(AbsRooms[r]) = roomMap[r].availableUsers
    <3>1. /\ r \in Rooms /\ r \in DOMAIN AbsRooms /\ roomMap[r] \in RoomObjects
          /\ AbsRooms[r] = Value(roomMap[r], heap[roomMap[r].array])
          BY <1>3, NamedRoom
    <3>2. T!getOnlUser(Value(roomMap[r], heap[roomMap[r].array]))
          = roomMap[r].availableUsers
          BY <3>1, MembersSeq
    <3>. QED  BY <3>1, <3>2
  <2>. QED  BY <1>1, <1>2, <1>3, <2>1, OneRoom, TableActions
<1>. QED  BY <1>2, <1>3, OneRoom

\* Every step is one of the table or leaves it alone.
LEMMA NextMaps ==
    ASSUME Inv, [Next]_vars
    PROVE  T!Next \/ AbsRooms' = AbsRooms
<1>1. CASE UNCHANGED vars
      BY <1>1 DEF vars, AbsRooms, Named
<1>2. ASSUME NEW r \in Rooms, NEW c \in Capacities, addRoom(r, c)
      PROVE  T!Next \/ AbsRooms' = AbsRooms
      BY <1>2, addRoomMaps DEF T!Next
<1>3. ASSUME NEW r \in Names, NEW fd \in Fds, JoinRoom(r, fd) \/ LeaveRoom(r, fd)
      PROVE  T!Next \/ AbsRooms' = AbsRooms
      BY <1>3, JoinRoomMaps, LeaveRoomMaps DEF T!Next
<1>4. ASSUME NEW r \in Names, NEW c \in Capacities, ModifyRoom(r, c)
      PROVE  T!Next \/ AbsRooms' = AbsRooms
      BY <1>4, ModifyRoomMaps DEF T!Next
<1>5. ASSUME NEW r \in Names, DeleteRoom(r)
      PROVE  T!Next \/ AbsRooms' = AbsRooms
      BY <1>5, DeleteRoomMaps DEF T!Next
<1>. QED  BY <1>1, <1>2, <1>3, <1>4, <1>5 DEF Next

\* The rooms whose name is terminated behave like the values of RoomTable, for
\* any rooms, descriptors, capacities and addresses.
THEOREM HeapImplementsTable == Spec => KeepsTable
<1>1. Init => T!Init
      BY DEF Init, T!Init, Named, Empty, T!Empty
<1>2. Inv /\ [Next]_vars => [T!Next]_([r \in Named |->
                                         [roomID |-> r, capacity |-> roomMap[r].capacity,
                                          members |-> Members(roomMap[r])]])
      BY NextMaps DEF AbsRooms, Value, Members, Cells
<1>. QED  BY <1>1, <1>2, Invariant, PTL DEF Spec, KeepsTable, T!Spec
=============================================================================
