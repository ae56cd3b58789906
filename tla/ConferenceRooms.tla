-------------------------- MODULE ConferenceRooms --------------------------
(***************************************************************************)
(* What the conference service promises, without threads, messages or      *)
(* locks: who is online, which room each user is in, and who is an admin.  *)
(* Each request changes this in one indivisible step or not at all.        *)
(* Sources: README.txt of the lab and the comments of server.c.            *)
(***************************************************************************)
EXTENDS Naturals, FiniteSets

CONSTANTS User, Session, NotInSession, MAX_SESSION_USER

VARIABLES online, room, admins
rooms == <<online, room, admins>>

Occupants(s) == {u \in User : room[u] = s}

RoomsInit ==
  /\ online = {}
  /\ room = [u \in User |-> NotInSession]
  /\ admins = {}

\* Logging in or registering, and the end of a connection.
Appear(u) == online' = online \cup {u} /\ UNCHANGED <<room, admins>>
Vanish(u) == online' = online \ {u} /\ UNCHANGED <<room, admins>>

\* A new session makes its creator the admin.
Open(u, s) ==
  /\ Occupants(s) = {}
  /\ room' = [room EXCEPT ![u] = s]
  /\ admins' = admins \cup {u}
  /\ UNCHANGED online

\* A user in no session joins one that exists and has a free place.
Join(u, s) ==
  /\ room[u] = NotInSession
  /\ Occupants(s) # {} /\ Cardinality(Occupants(s)) < MAX_SESSION_USER
  /\ room' = [room EXCEPT ![u] = s]
  /\ UNCHANGED <<online, admins>>

\* Whoever leaves gives up the role; whoever stays alone receives it.
Leave(u) ==
  LET rest == Occupants(room[u]) \ {u} IN
    /\ room[u] # NotInSession
    /\ room' = [room EXCEPT ![u] = NotInSession]
    /\ admins' = (admins \ {u}) \cup (IF \E v \in rest : rest = {v} THEN rest ELSE {})
    /\ UNCHANGED online

\* A user of the same session removes one who is not an admin.
Remove(u, v) ==
  /\ room[v] # NotInSession /\ room[u] = room[v]
  /\ v \in online \ admins
  /\ room' = [room EXCEPT ![v] = NotInSession]
  /\ UNCHANGED <<online, admins>>

\* A user of the same session makes one an admin and stops being one.
HandOver(u, v) ==
  /\ room[v] # NotInSession /\ room[u] = room[v]
  /\ v \in online \ admins
  /\ admins' = (admins \cup {v}) \ {u}
  /\ UNCHANGED <<online, room>>

RoomsNext ==
  \E u \in User :
    \/ Appear(u) \/ Vanish(u) \/ Leave(u)
    \/ \E s \in Session : Open(u, s) \/ Join(u, s)
    \/ \E v \in User : Remove(u, v) \/ HandOver(u, v)

RoomsSpec == RoomsInit /\ [][RoomsNext]_rooms
=============================================================================
