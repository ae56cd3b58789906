---------------------------- MODULE MCConference ----------------------------
(* Values for checking Conference with TLC.                                *)
EXTENDS Conference, TLC
CONSTANTS u1, u2, u3, s1, s2, p1, p2, p3

OneUser == {u1}
TwoUsers == {u1, u2}
ThreeUsers == {u1, u2, u3}
OneSession == {s1}
TwoSessions == {s1, s2}
TwoClients == {p1, p2}
ThreeClients == {p1, p2, p3}

\* Each process is used by the owner of one account, who may mistype the
\* password, or never does.
LoginAs(u) == [type : {"LOGIN"}, source : {u}, data : {"right", "wrong"}]
Careful(u) == [type : {"LOGIN"}, source : {u}, data : {"right"}]
Registers(u) == [type : {"CREATE"}, source : {u}]
OwnerAndNewcomer ==
  (p1 :> LoginAs(u1)) @@ (p2 :> Careful(u2) \cup Registers(u2))
CarefulAndNewcomer ==
  (p1 :> Careful(u1)) @@ (p2 :> Careful(u2) \cup Registers(u2))
ThreeAccounts ==
  (p1 :> Careful(u1)) @@ (p2 :> Careful(u2)) @@ (p3 :> Careful(u3))
\* Two processes used by the owner of one account.
SharedAccount == (p1 :> Careful(u1)) @@ (p2 :> Careful(u1))

\* Sessions are interchangeable.
Swap == Permutations(TwoSessions)

\* Processes are interchangeable together with their accounts.
UserOf == (p1 :> u1) @@ (p2 :> u2) @@ (p3 :> u3)
Exchange ==
  {f @@ [u \in ThreeUsers |->
           UserOf[f[CHOOSE p \in ThreeClients : UserOf[p] = u]]] :
     f \in Permutations(ThreeClients)}

Sessions == {"LOGIN", "JOIN", "NEW_SESS"}
Promotions == Sessions \cup {"PROMOTE"}
Removals == Sessions \cup {"LEAVE_SESS", "KICK"}
KickAndPromote == Removals \cup {"PROMOTE"}
AllButKick ==
  Sessions \cup {"CREATE", "MESSAGE", "LEAVE_SESS", "PROMOTE", "logout", "quit"}
Lifetimes ==
  {"LOGIN", "CREATE", "NEW_SESS", "logout", "quit", "unreachable", "SIGINT"}
LoginOnly == {"LOGIN"}

Nothing == {}
AllTraffic == Greeting \cup Request
Chat == {"MESSAGE"}
HastyPromote == {"PROMOTE"}
=============================================================================
