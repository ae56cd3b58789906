------------------------------ MODULE MCServer ------------------------------
(* Values for checking ConferenceServer with TLC.                          *)
EXTENDS ConferenceServer, TLC
CONSTANTS u1, u2, u3, s1, s2

OneUser == {u1}
TwoUsers == {u1, u2}
ThreeUsers == {u1, u2, u3}
OneSession == {s1}
TwoSessions == {s1, s2}

\* All messages but lines of chat, which change no entry; or those with which
\* users come, gather, talk and go, with no login that fails for its password.
Silent == Greeting \cup {m \in Request : m.type # "MESSAGE"}
Gathering ==
  [type : {"LOGIN"}, source : User, data : {"right"}]
    \cup {m \in Request :
            m.type \in {"JOIN", "NEW_SESS", "MESSAGE", "LEAVE_SESS", "EXIT"}}

Swap == Permutations(TwoSessions)
Exchange == Permutations(ThreeUsers)
=============================================================================
