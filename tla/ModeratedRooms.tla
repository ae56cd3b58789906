--------------------------- MODULE ModeratedRooms ---------------------------
(***************************************************************************)
(* What the conference promises to users who wait for its answers: the     *)
(* rooms of ConferenceRooms, in which moreover only those who are online   *)
(* do anything, an account is used once at a time, nobody changes from one *)
(* room to another without leaving, and only the admin removes others and  *)
(* hands the role over.  The server tests none of this: the clients and    *)
(* the order of requests and replies make it so.                           *)
(***************************************************************************)
EXTENDS ConferenceRooms

Arrive(u) == u \notin online /\ Appear(u)

\* Whoever goes has left the room before.
Depart(u) == u \in online /\ room[u] = NotInSession /\ Vanish(u)

Found(u, s) == u \in online /\ room[u] = NotInSession /\ Open(u, s)

Enter(u, s) == u \in online /\ Join(u, s)

Part(u) == u \in online /\ Leave(u)

Expel(u, v) == u \in online \cap admins /\ Remove(u, v)

Appoint(u, v) == u \in online \cap admins /\ HandOver(u, v)

ModeratedNext ==
  \E u \in User :
    \/ Arrive(u) \/ Depart(u) \/ Part(u)
    \/ \E s \in Session : Found(u, s) \/ Enter(u, s)
    \/ \E v \in User : Expel(u, v) \/ Appoint(u, v)

ModeratedSpec == RoomsInit /\ [][ModeratedNext]_rooms
=============================================================================
