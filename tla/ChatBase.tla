------------------------------ MODULE ChatBase ------------------------------
(***************************************************************************)
(* Names and small data types shared by every module of the project: the   *)
(* accounts and rooms of an instance and the state of a user               *)
(* (server/models/user.h).                                                 *)
(***************************************************************************)
EXTENDS Integers, Sequences, FiniteSets, Maps

CONSTANTS
    Users,      \* the account names clients use, created or not
    Rooms,      \* the room names clients use or getRoomID reads, created or not
    Passwords,  \* the non-empty passwords
    Texts       \* the texts of a private message: "text", "blank" or both

\* The empty string, which is no account, no room and no password.
NoName == ""

ASSUME NamesAssumption == NoName \notin (Users \cup Rooms \cup Passwords)

ASSUME TextsAssumption == Texts \subseteq {"text", "blank"}

-----------------------------------------------------------------------------
(* struct STATE: 0 is empty, 1 is user, 2 is room.                         *)

Idle == [type |-> 0, name |-> NoName]

WithUser(u) == [type |-> 1, name |-> u]

InRoom(r) == [type |-> 2, name |-> r]

States == {Idle} \cup {WithUser(u) : u \in Users} \cup {InRoom(r) : r \in Rooms}

ADMIN == 1
USER == 2
Roles == {ADMIN, USER}

\* The role of user(), which every handler that only sets a name keeps.
NoRole == 0

\* Mutant: the role of the package is taken as it is.
RawRole(role) == role

\* AddUser and handleModifyUser: whatever is not 1 becomes 2.
NormalRole(role) == IF role # 1 THEN USER ELSE ADMIN
=============================================================================
