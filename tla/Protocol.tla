------------------------------ MODULE Protocol ------------------------------
(***************************************************************************)
(* The packages of the two directions (models/package.h, commonStruct.h):  *)
(* one struct of a type and a union, sent as raw bytes over TCP.  Only the *)
(* members of the union the receiver reads are kept.                       *)
(***************************************************************************)
EXTENDS ChatBase

CONSTANTS
    Fds,         \* the descriptors accept() may return on the server
    Requests,    \* the types of package the clients of the instance send
    Capacities   \* the capacities the administrators ask for

ASSUME CapacitiesAssumption == Capacities \subseteq Int

\* Client to server.
Packages ==
    {p \in
        [type : {"loginn"}, user : Users \cup {NoName}, password : Passwords]
        \cup [type : {"withh"}, user : Users]
        \cup [type : {"joinn"}, room : Rooms]
        \cup [type : {"sendMess"}, mess : Texts]
        \cup [type : {"terminateChat", "showRoom", "getRoles", "getuser",
                      "finduser"}]
        \cup [type : {"createUser", "modifyUser"}, user : Users \cup {NoName},
              password : Passwords \cup {NoName}, role : Roles \cup {NoRole}]
        \cup [type : {"deleteUser"}, user : Users]
        \cup [type : {"createRoom", "modifyRoom"}, room : Rooms \cup {NoName},
              capacity : Capacities]
        \cup [type : {"deleteRoom"}, room : Rooms] :
     p.type \in Requests}

\* Server to client, loginSuccess apart; "garbage" is a package whose bytes
\* nobody set.
AnswerTypes ==
    {"loginFail", "withSuccess", "withFail", "joinSuccess",
     "joinFail", "sendMess", "successTerminate", "failTerminate", "allRoom",
     "showRoles", "showUsers", "createSuccess", "createFail", "modifySuccess",
     "modifyFail", "deleteSuccess", "deleteFail", "checkparty", "garbage"}

\* What a package of the server tells its receiver: the account of a
\* loginSuccess, the userStatus of a withSuccess or a checkparty, the number
\* of a private message (0 in any other package).
AnswerPackages ==
    [type : AnswerTypes, user : {NoName}, password : {NoName}, role : {NoRole},
     online : BOOLEAN, id : Nat]
    \cup [type : {"loginSuccess"}, user : Users, password : Passwords,
          role : Roles, online : {FALSE}, id : {0}]

Answer(type) ==
    [type |-> type, user |-> NoName, password |-> NoName, role |-> NoRole,
     online |-> FALSE, id |-> 0]

LoginAnswer(u, password, role) ==
    [Answer("loginSuccess") EXCEPT !.user = u, !.password = password,
                                   !.role = role]

StatusAnswer(type, online) == [Answer(type) EXCEPT !.online = online]

ChatAnswer(id) == [Answer("sendMess") EXCEPT !.id = id]
=============================================================================
