----------------------- MODULE ConferenceServerProofs -----------------------
(***************************************************************************)
(* Proofs about ConferenceServer, for every value of its constants.        *)
(***************************************************************************)
EXTENDS ConferenceServer, FiniteSetTheorems, TLAPS

\* Reading one or several requests leaves the queues well-typed.
LEMMA ReceiveType ==
  ASSUME TypeOK, NEW c \in Conn, inbox[c] # <<>>, Receive(c)
  PROVE  inbox' \in [Conn -> Seq(Greeting \cup Request)]
<1> DEFINE S == Greeting \cup Request
<1>1. inbox \in [Conn -> Seq(S)]
  BY DEF TypeOK
<1>2. inbox[c] \in Seq(S) /\ Len(inbox[c]) \in Nat
  BY <1>1
<1>3. PICK n \in 1..(IF Coalesce THEN Len(inbox[c]) ELSE 1) :
        inbox' = [inbox EXCEPT ![c] = SubSeq(inbox[c], n + 1, Len(inbox[c]))]
  BY DEF Receive
<1>4. n \in Nat \ {0}
  BY <1>2
<1>5. SubSeq(inbox[c], n + 1, Len(inbox[c])) \in Seq(S)
  <2>1. \A i \in (n + 1)..Len(inbox[c]) : inbox[c][i] \in S
    BY <1>2, <1>4
  <2> QED BY <2>1, <1>2, <1>4
<1> QED BY <1>1, <1>3, <1>5

\* The request at the head of a queue, by its type.
LEMMA HeadType ==
  ASSUME TypeOK, NEW c \in Conn, inbox[c] # <<>>
  PROVE  LET m == Head(inbox[c]) IN
           /\ m.type \in {"JOIN", "NEW_SESS", "SESS_QUERY"} => m.data \in Session
           /\ m.type \in {"KICK", "PROMOTE"} => m.data \in User
           /\ m.type \in {"LOGIN", "CREATE", "MESSAGE"} => m.source \in User
<1>1. inbox[c] \in Seq(Greeting \cup Request)
  BY DEF TypeOK
<1>2. Head(inbox[c]) \in Greeting \cup Request
  BY <1>1
<1> QED BY <1>2 DEF Greeting, Request

\* Sending well-typed replies leaves the queues well-typed.
LEMMA SendType ==
  ASSUME TypeOK, NEW f \in [Conn -> Seq(Reply)], Send(f)
  PROVE  outbox' \in [Conn -> Seq(Reply)]
<1>1. outbox \in [Conn -> Seq(Reply)]
  BY DEF TypeOK
<1>2. \A d \in Conn : outbox[d] \o f[d] \in Seq(Reply)
  BY <1>1
<1> QED BY <1>1, <1>2 DEF Send

LEMMA ToType ==
  ASSUME NEW fd, NEW m \in Reply
  PROVE  To(fd, m) \in [Conn -> Seq(Reply)]
BY DEF To

LEMMA ToAllType ==
  ASSUME NEW U, NEW m \in Reply
  PROVE  ToAll(U, m) \in [Conn -> Seq(Reply)]
BY DEF ToAll

LEMMA ThenType ==
  ASSUME NEW f \in [Conn -> Seq(Reply)], NEW g \in [Conn -> Seq(Reply)]
  PROVE  Then(f, g) \in [Conn -> Seq(Reply)]
BY DEF Then

-----------------------------------------------------------------------------
(* The inductive invariant of the theorems below.  The membership of a user *)
(* and the release of rw_mutex depend on each other: a leave returns with   *)
(* rw_mutex held when only one of in_session and session_id says that the   *)
(* user is in a session.  Registered says whom the handlers may touch.      *)

Registered ==
  /\ \A c \in Conn : pc[c] = "none" => server_connection_status[c] = "OFFLINE"
  /\ \A u \in User : in_session[u] = "ONLINE" \/ status[u] = "ONLINE"
       => u \in database
  /\ \A c \in Conn :
       server_connection_status[c] = "ONLINE" \/ pc[c] \in {"login", "leave", "offline"}
       => source[c] \in database

Inv == TypeOK /\ Registered /\ MembershipAgrees /\ RwMutexReleased /\ AdminInSession

LEMMA InitInv ==
  ASSUME ServerAssumption, Init
  PROVE  Inv
BY DEF ServerAssumption, Init, Inv, TypeOK, Registered, MembershipAgrees,
       RwMutexReleased, AdminInSession, Free, NoSocket

LEMMA VerifyLoginInv ==
  ASSUME Inv, NEW c \in Conn, VerifyLogin(c)
  PROVE  Inv'
<1> USE DEF Inv
<1> DEFINE m == Head(inbox[c])
<1>1. inbox[c] # <<>> /\ m.type = "LOGIN" /\ m.source \in User /\ Receive(c)
  BY HeadType DEF VerifyLogin, Receiving
<1>2. inbox' \in [Conn -> Seq(Greeting \cup Request)]
  BY <1>1, ReceiveType
<1>3. CASE verify_login(m) /\ UNCHANGED outbox
  <2>1. /\ pc' = [pc EXCEPT ![c] = "login"]
        /\ source' = [source EXCEPT ![c] = m.source]
        /\ server_connection_status' =
             [server_connection_status EXCEPT ![c] = "ONLINE"]
        /\ UNCHANGED <<entry, mutexes, peer, server>>
    BY <1>3 DEF VerifyLogin
  <2>2. TypeOK'
    BY <1>1, <1>2, <1>3, <2>1 DEF TypeOK, entry, mutexes
  <2>3. Registered'
    BY <1>3, <2>1 DEF TypeOK, Registered, entry, verify_login
  <2> QED BY <2>1, <2>2, <2>3
       DEF MembershipAgrees, RwMutexReleased, AdminInSession, entry, mutexes
<1>4. CASE Send(To(c, [type |-> "LO_NAK"])) /\ UNCHANGED thread
  <2>1. outbox' \in [Conn -> Seq(Reply)]
    BY <1>4, SendType, ToType DEF Reply
  <2>2. UNCHANGED <<entry, mutexes, thread, peer, server>>
    BY <1>4 DEF VerifyLogin
  <2> QED BY <1>2, <2>1, <2>2
       DEF TypeOK, Registered, MembershipAgrees, RwMutexReleased,
           AdminInSession, entry, mutexes, thread
<1> QED BY <1>3, <1>4 DEF VerifyLogin

LEMMA UserLoginInv ==
  ASSUME Inv, NEW c \in Conn, UserLogin(c)
  PROVE  Inv'
<1> USE DEF Inv
<1>1. source[c] \in database /\ source[c] \in User
  BY DEF UserLogin, Registered, TypeOK
<1>2. outbox' \in [Conn -> Seq(Reply)]
  BY <1>1, SendType, ToType DEF UserLogin, Reply
<1>3. TypeOK'
  BY <1>1, <1>2 DEF UserLogin, TypeOK, mutexes
<1>4. Registered'
  BY <1>1 DEF UserLogin, TypeOK, Registered
<1> QED BY <1>3, <1>4
     DEF UserLogin, MembershipAgrees, RwMutexReleased, AdminInSession, mutexes

LEMMA UserRegistrationInv ==
  ASSUME Inv, NEW c \in Conn, UserRegistration(c)
  PROVE  Inv'
<1> USE DEF Inv
<1> DEFINE u == Head(inbox[c]).source
<1>1. inbox[c] # <<>> /\ u \in User /\ Receive(c) /\ pc[c] = "recv"
  BY HeadType DEF UserRegistration, Receiving
<1>2. inbox' \in [Conn -> Seq(Greeting \cup Request)]
  BY <1>1, ReceiveType
<1>3. UNCHANGED <<in_session, session_id, role, mutexes, pc, peer, server>>
  BY DEF UserRegistration
<1>4. CASE /\ database' = database \cup {u}
           /\ status' = [status EXCEPT ![u] = "ONLINE"]
           /\ socket_fd' = [socket_fd EXCEPT ![u] = c]
           /\ source' = [source EXCEPT ![c] = u]
           /\ server_connection_status' =
                [server_connection_status EXCEPT ![c] = "ONLINE"]
           /\ Send(To(c, [type |-> "RG_ACK", source |-> u]))
  <2>1. outbox' \in [Conn -> Seq(Reply)]
    BY <1>1, <1>4, SendType, ToType DEF Reply
  <2>2. TypeOK'
    BY <1>1, <1>2, <1>3, <1>4, <2>1 DEF TypeOK, mutexes
  <2>3. Registered'
    BY <1>1, <1>3, <1>4 DEF TypeOK, Registered
  <2> QED BY <1>3, <2>2, <2>3
       DEF MembershipAgrees, RwMutexReleased, AdminInSession, mutexes
<1>5. CASE /\ Send(To(c, [type |-> "RG_NAK"]))
           /\ UNCHANGED <<database, status, socket_fd, source,
                          server_connection_status>>
  <2>1. outbox' \in [Conn -> Seq(Reply)]
    BY <1>5, SendType, ToType DEF Reply
  <2> QED BY <1>2, <1>3, <1>5, <2>1
       DEF TypeOK, Registered, MembershipAgrees, RwMutexReleased,
           AdminInSession, mutexes
<1> QED BY <1>4, <1>5 DEF UserRegistration

LEMMA SessionCreateInv ==
  ASSUME ServerAssumption, Inv, NEW c \in Conn, SessionCreate(c)
  PROVE  Inv'
<1> USE DEF Inv
<1> DEFINE u == source[c]
           s == Head(inbox[c]).data
<1>1. inbox[c] # <<>> /\ s \in Session /\ Receive(c)
  BY HeadType DEF SessionCreate, Receiving
<1>2. u \in database /\ u \in User /\ s # NotInSession
  BY <1>1 DEF SessionCreate, Known, TypeOK, ServerAssumption
<1>3. UNCHANGED <<database, status, socket_fd, mutexes, thread, peer, server>>
  BY DEF SessionCreate
<1>4. \E m \in Reply : Send(To(socket_fd[u], m))
  BY DEF SessionCreate, Reply
<1>5. /\ inbox' \in [Conn -> Seq(Greeting \cup Request)]
      /\ outbox' \in [Conn -> Seq(Reply)]
  BY <1>1, <1>4, ReceiveType, SendType, ToType
<1>6. CASE /\ session_id' = [session_id EXCEPT ![u] = s]
           /\ in_session' = [in_session EXCEPT ![u] = "ONLINE"]
           /\ role' = [role EXCEPT ![u] = "ADMIN"]
  <2>1. TypeOK'
    BY <1>1, <1>2, <1>3, <1>5, <1>6 DEF TypeOK, mutexes, thread
  <2>2. Registered'
    BY <1>2, <1>3, <1>6 DEF TypeOK, Registered, thread
  <2>3. MembershipAgrees' /\ AdminInSession'
    BY <1>2, <1>6 DEF TypeOK, MembershipAgrees, AdminInSession
  <2> QED BY <1>3, <2>1, <2>2, <2>3 DEF RwMutexReleased, mutexes
<1>7. CASE UNCHANGED <<session_id, in_session, role>>
  BY <1>3, <1>5, <1>7
  DEF TypeOK, Registered, MembershipAgrees, RwMutexReleased, AdminInSession,
      mutexes, thread
<1> QED BY <1>6, <1>7 DEF SessionCreate

LEMMA SessionJoinInv ==
  ASSUME ServerAssumption, Inv, NEW c \in Conn, SessionJoin(c)
  PROVE  Inv'
<1> USE DEF Inv
<1> DEFINE u == source[c]
           s == Head(inbox[c]).data
<1>1. inbox[c] # <<>> /\ s \in Session /\ Receive(c)
  BY HeadType DEF SessionJoin, Receiving
<1>2. u \in database /\ u \in User /\ s # NotInSession
  BY <1>1 DEF SessionJoin, Known, TypeOK, ServerAssumption
<1>3. UNCHANGED <<database, status, role, socket_fd, mutexes, thread, peer,
                  server>>
  BY DEF SessionJoin
<1>4. \E m \in Reply : Send(To(socket_fd[u], m))
  BY DEF SessionJoin, Reply
<1>5. /\ inbox' \in [Conn -> Seq(Greeting \cup Request)]
      /\ outbox' \in [Conn -> Seq(Reply)]
  BY <1>1, <1>4, ReceiveType, SendType, ToType
<1>6. CASE /\ session_id' = [session_id EXCEPT ![u] = s]
           /\ in_session' = [in_session EXCEPT ![u] = "ONLINE"]
  <2>1. TypeOK'
    BY <1>1, <1>2, <1>3, <1>5, <1>6 DEF TypeOK, mutexes, thread
  <2>2. Registered'
    BY <1>2, <1>3, <1>6 DEF TypeOK, Registered, thread
  <2>3. MembershipAgrees' /\ AdminInSession'
    BY <1>2, <1>3, <1>6 DEF TypeOK, MembershipAgrees, AdminInSession
  <2> QED BY <1>3, <2>1, <2>2, <2>3 DEF RwMutexReleased, mutexes
<1>7. CASE UNCHANGED <<session_id, in_session>>
  BY <1>3, <1>5, <1>7
  DEF TypeOK, Registered, MembershipAgrees, RwMutexReleased, AdminInSession,
      mutexes, thread
<1> QED BY <1>6, <1>7 DEF SessionJoin

\* The step of server_side_session_leave, on a request or on an exit.
LEMMA LeaveBodyInv ==
  ASSUME Inv, NEW c \in Conn, LeaveBody(c),
         inbox' \in [Conn -> Seq(Greeting \cup Request)],
         pc' = pc \/ pc' = [pc EXCEPT ![c] = "offline"]
  PROVE  Inv'
<1> USE DEF Inv
<1> DEFINE u == source[c]
<1>1. u \in database /\ u \in User
  BY DEF LeaveBody, Known, TypeOK
<1>2. UNCHANGED <<database, status, socket_fd, source,
                  server_connection_status, peer, server>>
  BY DEF LeaveBody
<1>3. \A d \in Conn : pc'[d] = pc[d] \/ (d = c /\ pc'[d] = "offline")
  BY DEF TypeOK
<1>4. CASE /\ in_session[u] = "OFFLINE" /\ user_list_mutex' = c
           /\ UNCHANGED <<in_session, session_id, role, rw_mutex, outbox>>
  <2>1. TypeOK'
    BY <1>2, <1>4 DEF TypeOK
  <2>2. Registered'
    BY <1>1, <1>2, <1>3, <1>4 DEF Registered
  <2> QED BY <1>4, <2>1, <2>2 DEF MembershipAgrees, RwMutexReleased, AdminInSession
<1>5. CASE in_session[u] = "ONLINE"
  <2>1. session_id[u] # NotInSession
    BY <1>1, <1>5 DEF MembershipAgrees
  <2>2. /\ in_session' = [in_session EXCEPT ![u] = "OFFLINE"]
        /\ session_id' = [session_id EXCEPT ![u] = NotInSession]
        /\ role' = RolesWithout(u)
        /\ UNCHANGED <<rw_mutex, user_list_mutex>>
    BY <1>5, <2>1 DEF LeaveBody, ClearMembership
  <2>3. Send(ToAll({v \in database : role'[v] = "ADMIN"}, [type |-> "PM_MESSAGE"]))
    BY <1>5 DEF LeaveBody
  <2>4. outbox' \in [Conn -> Seq(Reply)]
    BY <2>3, SendType, ToAllType DEF Reply
  <2>5. role' \in [User -> {"USER", "ADMIN"}]
    BY <2>2 DEF RolesWithout, TypeOK
  <2>6. TypeOK'
    BY <1>1, <1>2, <2>2, <2>4, <2>5 DEF TypeOK
  <2>7. Registered'
    BY <1>1, <1>2, <1>3, <2>2 DEF TypeOK, Registered
  <2>8. MembershipAgrees'
    BY <1>1, <2>2 DEF TypeOK, MembershipAgrees
  <2>9. AdminInSession'
    <3> SUFFICES ASSUME NEW v \in User, role'[v] = "ADMIN"
                 PROVE  in_session'[v] = "ONLINE"
      BY DEF AdminInSession
    <3>1. v # u
      BY <2>2 DEF RolesWithout
    <3>2. role[v] = "ADMIN" \/ v \in Members(session_id[u])
      BY <2>2, <3>1 DEF RolesWithout
    <3>3. in_session[v] = "ONLINE"
      BY <2>1, <3>2 DEF AdminInSession, MembershipAgrees, Members
    <3> QED BY <2>2, <3>1, <3>3 DEF TypeOK
  <2> QED BY <2>2, <2>6, <2>7, <2>8, <2>9 DEF RwMutexReleased
<1> QED BY <1>4, <1>5 DEF LeaveBody

LEMMA SessionLeaveInv ==
  ASSUME Inv, NEW c \in Conn, SessionLeave(c)
  PROVE  Inv'
<1>1. inbox[c] # <<>> /\ Receive(c)
  BY DEF SessionLeave, Receiving
<1>2. inbox' \in [Conn -> Seq(Greeting \cup Request)]
  BY <1>1, ReceiveType DEF Inv
<1> QED BY <1>2, LeaveBodyInv DEF SessionLeave

LEMMA ExitLeaveInv ==
  ASSUME Inv, NEW c \in Conn, ExitLeave(c)
  PROVE  Inv'
<1>1. inbox' \in [Conn -> Seq(Greeting \cup Request)]
  BY DEF ExitLeave, Inv, TypeOK
<1> QED BY <1>1, LeaveBodyInv DEF ExitLeave

LEMMA KickUserInv ==
  ASSUME Inv, NEW c \in Conn, KickUser(c)
  PROVE  Inv'
<1> USE DEF Inv
<1> DEFINE sender == source[c]
           target == Head(inbox[c]).data
<1>1. inbox[c] # <<>> /\ target \in User /\ Receive(c)
  BY HeadType DEF KickUser, Receiving
<1>2. UNCHANGED <<database, status, role, socket_fd, mutexes, thread, peer,
                  server>>
  BY DEF KickUser
<1>3. inbox' \in [Conn -> Seq(Greeting \cup Request)]
  BY <1>1, ReceiveType
<1>4. CASE /\ Reachable(target, sender) /\ ClearMembership(target)
           /\ Send(Then(To(socket_fd[target], [type |-> "KI_MESSAGE"]),
                        To(socket_fd[sender], [type |-> "KI_ACK"])))
  <2>1. outbox' \in [Conn -> Seq(Reply)]
    BY <1>4, SendType, ToType, ThenType DEF Reply
  <2>2. TypeOK'
    BY <1>1, <1>2, <1>3, <1>4, <2>1 DEF TypeOK, ClearMembership, mutexes, thread
  <2>3. Registered'
    BY <1>2, <1>4 DEF TypeOK, Registered, ClearMembership, thread
  <2>4. MembershipAgrees'
    BY <1>4 DEF TypeOK, MembershipAgrees, ClearMembership
  <2>5. AdminInSession'
    BY <1>1, <1>2, <1>4 DEF TypeOK, AdminInSession, ClearMembership, Reachable
  <2> QED BY <1>2, <2>2, <2>3, <2>4, <2>5 DEF RwMutexReleased, mutexes
<1>5. CASE /\ Send(To(socket_fd[sender], [type |-> "KI_NAK"]))
           /\ UNCHANGED <<in_session, session_id>>
  <2>1. outbox' \in [Conn -> Seq(Reply)]
    BY <1>5, SendType, ToType DEF Reply
  <2> QED BY <1>2, <1>3, <1>5, <2>1
       DEF TypeOK, Registered, MembershipAgrees, RwMutexReleased,
           AdminInSession, mutexes, thread
<1> QED BY <1>4, <1>5 DEF KickUser

LEMMA PromoteUserInv ==
  ASSUME Inv, NEW c \in Conn, PromoteUser(c)
  PROVE  Inv'
<1> USE DEF Inv
<1> DEFINE sender == source[c]
           target == Head(inbox[c]).data
<1>1. inbox[c] # <<>> /\ target \in User /\ Receive(c)
  BY HeadType DEF PromoteUser, Receiving
<1>2. UNCHANGED <<database, status, in_session, session_id, socket_fd,
                  mutexes, thread, peer, server>>
  BY DEF PromoteUser
<1>3. inbox' \in [Conn -> Seq(Greeting \cup Request)]
  BY <1>1, ReceiveType
<1>4. CASE /\ Reachable(target, sender)
           /\ role' = [role EXCEPT ![target] = "ADMIN", ![sender] = "USER"]
           /\ Send(Then(To(socket_fd[target], [type |-> "PM_MESSAGE"]),
                        To(socket_fd[sender], [type |-> "PM_ACK"])))
  <2>1. outbox' \in [Conn -> Seq(Reply)]
    BY <1>4, SendType, ToType, ThenType DEF Reply
  <2>2. TypeOK'
    BY <1>1, <1>2, <1>3, <1>4, <2>1 DEF TypeOK, mutexes, thread
  <2>3. AdminInSession'
    BY <1>2, <1>4 DEF TypeOK, AdminInSession, Reachable
  <2> QED BY <1>2, <2>2, <2>3
       DEF Registered, MembershipAgrees, RwMutexReleased, mutexes, thread
<1>5. CASE /\ Send(To(socket_fd[sender], [type |-> "PM_NAK"]))
           /\ UNCHANGED role
  <2>1. outbox' \in [Conn -> Seq(Reply)]
    BY <1>5, SendType, ToType DEF Reply
  <2> QED BY <1>2, <1>3, <1>5, <2>1
       DEF TypeOK, Registered, MembershipAgrees, RwMutexReleased,
           AdminInSession, mutexes, thread
<1> QED BY <1>4, <1>5 DEF PromoteUser

\* The answers that change no entry and no thread.
LEMMA ReplyOnlyInv ==
  ASSUME Inv, NEW c \in Conn, inbox[c] # <<>>, Receive(c),
         NEW f \in [Conn -> Seq(Reply)], Send(f),
         UNCHANGED <<entry, mutexes, thread, peer, server>>
  PROVE  Inv'
<1> USE DEF Inv
<1>1. /\ inbox' \in [Conn -> Seq(Greeting \cup Request)]
      /\ outbox' \in [Conn -> Seq(Reply)]
  BY ReceiveType, SendType
<1> QED BY <1>1
     DEF TypeOK, Registered, MembershipAgrees, RwMutexReleased, AdminInSession,
         entry, mutexes, thread

LEMMA GroupMessageInv ==
  ASSUME Inv, NEW c \in Conn, GroupMessage(c)
  PROVE  Inv'
<1> DEFINE m == Head(inbox[c])
<1>1. inbox[c] # <<>> /\ m.source \in User /\ Receive(c)
  BY HeadType DEF GroupMessage, Receiving, Inv
<1>2. [type |-> "MESSAGE", source |-> m.source] \in Reply
  BY <1>1 DEF Reply
<1>3. PICK U : Send(ToAll(U, [type |-> "MESSAGE", source |-> m.source]))
  BY DEF GroupMessage
<1>4. UNCHANGED <<entry, mutexes, thread, peer, server>>
  BY DEF GroupMessage
<1> HIDE DEF m
<1> QED BY <1>1, <1>2, <1>3, <1>4, ToAllType, ReplyOnlyInv

LEMMA QueriesInv ==
  ASSUME Inv, NEW c \in Conn, QueryUsers(c) \/ QuerySession(c)
  PROVE  Inv'
<1>1. inbox[c] # <<>> /\ Receive(c)
  BY DEF QueryUsers, QuerySession, Receiving
<1>2. UNCHANGED <<entry, mutexes, thread, peer, server>>
  BY DEF QueryUsers, QuerySession
<1>3. \E r \in Reply : Send(To(c, r))
  BY DEF QueryUsers, QuerySession, Reply
<1> QED BY <1>1, <1>2, <1>3, ToType, ReplyOnlyInv

\* The steps that only move a thread towards the end of its connection.
LEMMA StartOfExitInv ==
  ASSUME Inv, NEW c \in Conn, RecvExit(c) \/ Disconnect(c)
  PROVE  Inv'
<1> USE DEF Inv
<1>1. inbox' \in [Conn -> Seq(Greeting \cup Request)]
  <2>1. CASE RecvExit(c)
    BY <2>1, ReceiveType DEF RecvExit, Receiving
  <2>2. CASE Disconnect(c)
    BY <2>2 DEF Disconnect, TypeOK
  <2> QED BY <2>1, <2>2
<1>2. UNCHANGED <<entry, mutexes, source, server_connection_status, outbox,
                  peer, server>>
  BY DEF RecvExit, Disconnect
<1>3. \/ pc' = [pc EXCEPT ![c] = "closed"]
      \/ source[c] \in database /\ pc' = [pc EXCEPT ![c] = "leave"]
      \/ source[c] \in database /\ pc' = [pc EXCEPT ![c] = "offline"]
  BY DEF RecvExit, Disconnect, StartExit, Known
<1>4. TypeOK'
  BY <1>1, <1>2, <1>3 DEF TypeOK, entry, mutexes
<1>5. Registered'
  BY <1>2, <1>3 DEF TypeOK, Registered, entry
<1> QED BY <1>2, <1>4, <1>5
     DEF MembershipAgrees, RwMutexReleased, AdminInSession, entry, mutexes

LEMMA ExitOfflineInv ==
  ASSUME Inv, NEW c \in Conn, ExitOffline(c)
  PROVE  Inv'
<1> USE DEF Inv
<1>1. TypeOK'
  <2>1. inbox' \in [Conn -> Seq(Greeting \cup Request)]
    <3>1. <<>> \in Seq(Greeting \cup Request)
      OBVIOUS
    <3> QED BY <3>1 DEF ExitOffline, TypeOK
  <2> QED BY <2>1 DEF ExitOffline, TypeOK, mutexes
<1>2. Registered'
  BY DEF ExitOffline, TypeOK, Registered
<1> QED BY <1>1, <1>2
     DEF ExitOffline, MembershipAgrees, RwMutexReleased, AdminInSession, mutexes

LEMMA EndOfProcessInv ==
  ASSUME Inv, MainExit \/ \E c \in Conn : UnknownSourceCrash(c)
  PROVE  Inv'
<1>1. /\ server' \in {"crashed", "exited"}
      /\ UNCHANGED <<entry, mutexes, thread, inbox, outbox, peer>>
  BY DEF MainExit, UnknownSourceCrash
<1> QED BY <1>1
     DEF Inv, TypeOK, Registered, MembershipAgrees, RwMutexReleased,
         AdminInSession, entry, mutexes, thread

LEMMA HandlerInv ==
  ASSUME ServerAssumption, Inv, NEW c \in Conn, Handler(c)
  PROVE  Inv'
BY VerifyLoginInv, UserLoginInv, UserRegistrationInv, SessionCreateInv,
   SessionJoinInv, SessionLeaveInv, KickUserInv, PromoteUserInv,
   GroupMessageInv, QueriesInv, StartOfExitInv, ExitLeaveInv, ExitOfflineInv,
   EndOfProcessInv
   DEF Handler

LEMMA EnvironmentInv ==
  ASSUME ServerAssumption, Inv, NEW c \in Conn, Environment(c)
  PROVE  Inv'
<1> USE DEF Inv
<1>1. ASSUME NEW m \in Greeting, Accept(c, m)
      PROVE  Inv'
  <2>1. inbox' \in [Conn -> Seq(Greeting \cup Request)]
    BY <1>1 DEF Accept, TypeOK
  <2>2. PICK garbage \in {NoUser} \cup {source[d] : d \in {e \in Conn : pc[e] = "closed"}} :
          source' = [source EXCEPT ![c] = garbage]
    BY <1>1 DEF Accept
  <2>3. garbage \in User \cup {NoUser}
    BY <2>2 DEF TypeOK
  <2>4. /\ pc' = [pc EXCEPT ![c] = "recv"]
        /\ peer' = [peer EXCEPT ![c] = "open"]
        /\ UNCHANGED <<entry, mutexes, server_connection_status, outbox, server>>
    BY <1>1 DEF Accept
  <2>5. TypeOK'
    BY <2>1, <2>2, <2>3, <2>4 DEF TypeOK, entry, mutexes
  <2>6. Registered'
    BY <1>1, <2>2, <2>4 DEF Accept, TypeOK, Registered, entry
  <2> QED BY <2>4, <2>5, <2>6
       DEF MembershipAgrees, RwMutexReleased, AdminInSession, entry, mutexes
<1>2. ASSUME NEW m \in Request, ClientSend(c, m)
      PROVE  Inv'
  <2>1. inbox' \in [Conn -> Seq(Greeting \cup Request)]
    <3>1. Append(inbox[c], m) \in Seq(Greeting \cup Request)
      BY DEF TypeOK
    <3> QED BY <1>2, <3>1 DEF ClientSend, TypeOK
  <2> QED BY <1>2, <2>1
       DEF ClientSend, TypeOK, Registered, MembershipAgrees, RwMutexReleased,
           AdminInSession, entry, mutexes, thread
<1>3. ASSUME ClientRead(c)
      PROVE  Inv'
  <2>1. outbox' \in [Conn -> Seq(Reply)]
    <3>1. PICK n \in 1..(IF Coalesce THEN Len(outbox[c]) ELSE 1) :
            outbox' = [outbox EXCEPT ![c] = SubSeq(outbox[c], n + 1, Len(outbox[c]))]
      BY <1>3 DEF ClientRead
    <3>2. outbox[c] \in Seq(Reply) /\ n \in Nat \ {0}
      BY <1>3 DEF ClientRead, TypeOK
    <3>3. SubSeq(outbox[c], n + 1, Len(outbox[c])) \in Seq(Reply)
      BY <3>2
    <3> QED BY <3>1, <3>3 DEF TypeOK
  <2> QED BY <1>3, <2>1
       DEF ClientRead, TypeOK, Registered, MembershipAgrees, RwMutexReleased,
           AdminInSession, entry, mutexes, thread
<1> QED BY <1>1, <1>2, <1>3 DEF Environment

LEMMA ClientCloseInv ==
  ASSUME Inv, NEW D, ClientClose(D)
  PROVE  Inv'
<1>1. outbox' \in [Conn -> Seq(Reply)] /\ peer' \in [Conn -> {"none", "open", "closed"}]
  BY DEF ClientClose, Inv, TypeOK
<1> QED BY <1>1
     DEF ClientClose, Inv, TypeOK, Registered, MembershipAgrees, RwMutexReleased,
         AdminInSession, entry, mutexes, thread

LEMMA NextInv ==
  ASSUME ServerAssumption, Inv, [Next]_vars
  PROVE  Inv'
<1>1. CASE Next
  BY <1>1, HandlerInv, EnvironmentInv, ClientCloseInv, EndOfProcessInv DEF Next
<1>2. CASE UNCHANGED vars
  BY <1>2
  DEF Inv, TypeOK, Registered, MembershipAgrees, RwMutexReleased,
      AdminInSession, vars, entry, mutexes, thread
<1> QED BY <1>1, <1>2

\* Inv is an invariant of the server with any clients.
LEMMA SpecInv == Spec => []Inv
<1>1. Init => Inv
  BY InitInv, ServerAssumption
<1>2. Inv /\ [Next]_vars => Inv'
  BY NextInv, ServerAssumption
<1> QED BY <1>1, <1>2, PTL DEF Spec

\* The variables of the server keep their types, whatever the clients send.
THEOREM TypeCorrect == Spec => []TypeOK
BY SpecInv, PTL DEF Inv

\* in_session and session_id of an entry never disagree: the early return of
\* user_exit_current_session is dead code.
THEOREM MembershipAlwaysAgrees == Spec => []MembershipAgrees
BY SpecInv, PTL DEF Inv

\* rw_mutex is free between the sections of user_list_mutex: the return of
\* user_exit_current_session that keeps it is unreachable.
THEOREM RwMutexAlwaysReleased == Spec => []RwMutexReleased
BY SpecInv, PTL DEF Inv

\* No interleaving lets a user have the ADMIN role outside a session.
THEOREM AdminAlwaysInSession == Spec => []AdminInSession
BY SpecInv, PTL DEF Inv

-----------------------------------------------------------------------------
(* Who takes the ADMIN role away, and who removes a user from a session.   *)
(* The thread that did so is recognised by the request it took, or by its  *)
(* position.                                                               *)

\* A thread that takes a request changes its queue.
LEMMA ReceiveShortens ==
  ASSUME TypeOK, NEW c \in Conn, inbox[c] # <<>>, Receive(c)
  PROVE  inbox'[c] # inbox[c]
<1>1. inbox[c] \in Seq(Greeting \cup Request) /\ Len(inbox[c]) \in Nat
  BY DEF TypeOK
<1>2. PICK n \in 1..(IF Coalesce THEN Len(inbox[c]) ELSE 1) :
        inbox' = [inbox EXCEPT ![c] = SubSeq(inbox[c], n + 1, Len(inbox[c]))]
  BY DEF Receive
<1>3. n \in Nat \ {0}
  BY <1>1
<1>4. inbox'[c] = SubSeq(inbox[c], n + 1, Len(inbox[c]))
  BY <1>2 DEF TypeOK
<1>5. Len(inbox[c]) # 0
  BY <1>1
<1>6. Len(inbox'[c]) # Len(inbox[c])
  BY <1>1, <1>3, <1>4, <1>5
<1> QED BY <1>6

\* The step of thread c is visible.
Acts(c) == inbox'[c] # inbox[c] \/ pc'[c] # pc[c]

\* The only steps that change a role or a membership, and whose they change.
LEMMA RoleAndMembershipSteps ==
  ASSUME ServerAssumption, Inv, [Next]_vars, NEW u \in User
  PROVE  /\ role[u] = "ADMIN" /\ role'[u] = "USER" =>
              \E c \in Conn : source[c] = u /\ Acts(c)
         /\ in_session[u] = "ONLINE" /\ in_session'[u] = "OFFLINE" =>
              \E c \in Conn : source[c] \in Members(session_id[u]) /\ Acts(c)
<1> USE DEF Inv
<1> DEFINE Goal ==
      /\ role[u] = "ADMIN" /\ role'[u] = "USER" =>
           \E c \in Conn : source[c] = u /\ Acts(c)
      /\ in_session[u] = "ONLINE" /\ in_session'[u] = "OFFLINE" =>
           \E c \in Conn : source[c] \in Members(session_id[u]) /\ Acts(c)
<1>1. ASSUME UNCHANGED <<role, in_session>> PROVE Goal
  BY <1>1
<1>2. ASSUME NEW c \in Conn, SessionCreate(c) PROVE Goal
  <2>1. in_session'[u] = in_session[u] \/ in_session'[u] = "ONLINE"
    BY <1>2 DEF SessionCreate, TypeOK
  <2>2. role'[u] = role[u] \/ role'[u] = "ADMIN"
    BY <1>2 DEF SessionCreate, TypeOK
  <2> QED BY <2>1, <2>2
<1>3. ASSUME NEW c \in Conn, SessionJoin(c) PROVE Goal
  <2>1. in_session'[u] = in_session[u] \/ in_session'[u] = "ONLINE"
    BY <1>3 DEF SessionJoin, TypeOK
  <2>2. role' = role
    BY <1>3 DEF SessionJoin
  <2> QED BY <2>1, <2>2
<1>4. ASSUME NEW c \in Conn, LeaveBody(c), Acts(c) PROVE Goal
  <2>1. source[c] \in database
    BY <1>4 DEF LeaveBody, Known
  <2>2. CASE UNCHANGED <<in_session, session_id, role>>
    BY <2>2
  <2>3. CASE /\ ClearMembership(source[c]) /\ role' = RolesWithout(source[c])
    <3>1. role'[u] = "USER" => role[u] = "USER" \/ u = source[c]
      BY <2>3 DEF RolesWithout
    <3>2. in_session'[u] = in_session[u] \/ u = source[c]
      BY <2>3 DEF ClearMembership, TypeOK
    <3>3. u \in database => u \in Members(session_id[u])
      BY DEF Members
    <3> QED BY <1>4, <2>1, <3>1, <3>2, <3>3
  <2> QED BY <1>4, <2>2, <2>3 DEF LeaveBody
<1>5. ASSUME NEW c \in Conn, KickUser(c) PROVE Goal
  <2>1. Acts(c)
    BY <1>5, ReceiveShortens DEF KickUser, Receiving, Acts
  <2>2. role' = role /\ source[c] \in database
    BY <1>5 DEF KickUser, Known
  <2>3. CASE UNCHANGED in_session
    BY <2>2, <2>3
  <2>4. CASE /\ Reachable(Head(inbox[c]).data, source[c])
             /\ ClearMembership(Head(inbox[c]).data)
    <3>1. in_session'[u] = in_session[u] \/ u = Head(inbox[c]).data
      BY <2>4 DEF ClearMembership, TypeOK
    <3>2. u = Head(inbox[c]).data => source[c] \in Members(session_id[u])
      BY <2>2, <2>4 DEF Reachable, Members
    <3> QED BY <2>1, <2>2, <3>1, <3>2
  <2> QED BY <1>5, <2>3, <2>4 DEF KickUser
<1>6. ASSUME NEW c \in Conn, PromoteUser(c) PROVE Goal
  <2>1. Acts(c)
    BY <1>6, ReceiveShortens DEF PromoteUser, Receiving, Acts
  <2>2. in_session' = in_session
    BY <1>6 DEF PromoteUser
  <2>3. role'[u] = "USER" => role[u] = "USER" \/ u = source[c]
    BY <1>6 DEF PromoteUser, TypeOK
  <2> QED BY <2>1, <2>2, <2>3
<1>7. ASSUME NEW c \in Conn, Handler(c) PROVE Goal
  <2>1. CASE SessionLeave(c)
    <3>1. Acts(c)
      BY <2>1, ReceiveShortens DEF SessionLeave, Receiving, Acts
    <3> QED BY <1>4, <2>1, <3>1 DEF SessionLeave
  <2>2. CASE ExitLeave(c)
    <3>1. Acts(c)
      BY <2>2 DEF ExitLeave, Acts, TypeOK
    <3> QED BY <1>4, <2>2, <3>1 DEF ExitLeave
  <2>3. CASE \/ VerifyLogin(c) \/ UserLogin(c) \/ UserRegistration(c)
             \/ GroupMessage(c) \/ QueryUsers(c) \/ QuerySession(c)
             \/ RecvExit(c) \/ Disconnect(c) \/ ExitOffline(c)
             \/ UnknownSourceCrash(c)
    <3>1. UNCHANGED <<role, in_session>>
      BY <2>3 DEF VerifyLogin, UserLogin, UserRegistration, GroupMessage,
         QueryUsers, QuerySession, RecvExit, Disconnect, ExitOffline,
         UnknownSourceCrash, entry
    <3> QED BY <1>1, <3>1
  <2> QED BY <1>2, <1>3, <1>5, <1>6, <1>7, <2>1, <2>2, <2>3 DEF Handler
<1>8. ASSUME \/ MainExit \/ UNCHANGED vars
             \/ \E c \in Conn : Environment(c)
             \/ \E D \in SUBSET {c \in Conn : peer[c] = "open"} : ClientClose(D)
      PROVE  Goal
  <2>1. UNCHANGED <<role, in_session>>
    BY <1>8 DEF MainExit, Environment, Accept, ClientSend, ClientRead,
       ClientClose, vars, entry
  <2> QED BY <1>1, <2>1
<1> QED BY <1>7, <1>8 DEF Next

\* Nobody but a thread that serves this very user takes the ADMIN role away.
THEOREM RoleGivenUpByItsHolder == Spec => AdminGivesUpRole
<1> DEFINE Step ==
      \A u \in User : role[u] = "ADMIN" /\ role'[u] = "USER" =>
        \E c \in Conn : /\ source[c] = u
                        /\ inbox'[c] # inbox[c] \/ pc'[c] # pc[c]
<1>1. Inv /\ [Next]_vars => [Step]_vars
  BY RoleAndMembershipSteps, ServerAssumption DEF Acts
<1> QED BY <1>1, SpecInv, PTL DEF Spec, AdminGivesUpRole

\* Nobody outside the session of a user removes the user from it.
THEOREM RemovalAlwaysLocal == Spec => RemovalIsLocal
<1> DEFINE Step ==
      \A u \in User :
        in_session[u] = "ONLINE" /\ in_session'[u] = "OFFLINE" =>
          \E c \in Conn :
            /\ inbox'[c] # inbox[c] \/ pc'[c] # pc[c]
            /\ source[c] \in Members(session_id[u])
<1>1. Inv /\ [Next]_vars => [Step]_vars
  BY RoleAndMembershipSteps, ServerAssumption DEF Acts
<1> QED BY <1>1, SpecInv, PTL DEF Spec, RemovalIsLocal

-----------------------------------------------------------------------------
(* The socket of an online user.  What makes OnlineSocketServed inductive  *)
(* is that a connection greets once: a thread that serves a user never     *)
(* reads a LOGIN or a CREATE, which would give it to another user.         *)

GreetsOnce ==
  /\ \A c \in Conn : \A i \in 1..Len(inbox[c]) :
       i > 1 \/ server_connection_status[c] = "ONLINE" => inbox[c][i] \in Request
  /\ \A c \in Conn : pc[c] = "login" => server_connection_status[c] = "ONLINE"

\* What is left in a queue after a recv() is requests.
LEMMA ReceiveRest ==
  ASSUME TypeOK, GreetsOnce, NEW c \in Conn, inbox[c] # <<>>, Receive(c)
  PROVE  /\ \A d \in Conn \ {c} : inbox'[d] = inbox[d]
         /\ \A i \in 1..Len(inbox'[c]) : inbox'[c][i] \in Request
<1>1. inbox[c] \in Seq(Greeting \cup Request) /\ Len(inbox[c]) \in Nat
  BY DEF TypeOK
<1>2. PICK n \in 1..(IF Coalesce THEN Len(inbox[c]) ELSE 1) :
        inbox' = [inbox EXCEPT ![c] = SubSeq(inbox[c], n + 1, Len(inbox[c]))]
  BY DEF Receive
<1>3. n \in Nat \ {0}
  BY <1>1
<1>4. inbox'[c] = SubSeq(inbox[c], n + 1, Len(inbox[c]))
  BY <1>2 DEF TypeOK
<1>5. ASSUME NEW i \in 1..Len(inbox'[c])
      PROVE  inbox'[c][i] \in Request
  <2>1. n + i \in 1..Len(inbox[c]) /\ n + i > 1 /\ inbox'[c][i] = inbox[c][n + i]
    BY <1>1, <1>3, <1>4
  <2> QED BY <2>1 DEF GreetsOnce
<1> QED BY <1>2, <1>5 DEF TypeOK

\* A thread that reads a LOGIN or a CREATE serves nobody.
LEMMA GreetingUnserved ==
  ASSUME TypeOK, GreetsOnce, NEW c \in Conn,
         Receiving(c, "LOGIN") \/ Receiving(c, "CREATE")
  PROVE  server_connection_status[c] = "OFFLINE"
<1>1. inbox[c] \in Seq(Greeting \cup Request) /\ inbox[c] # <<>>
  BY DEF TypeOK, Receiving
<1>2. 1 \in 1..Len(inbox[c]) /\ Head(inbox[c]) = inbox[c][1]
  BY <1>1
<1>3. Head(inbox[c]) \notin Request
  BY DEF Receiving, Request
<1> QED BY <1>2, <1>3 DEF GreetsOnce, TypeOK

LEMMA GreetsOnceStep ==
  ASSUME Inv, GreetsOnce, NEW c \in Conn, Handler(c) \/ Environment(c)
  PROVE  GreetsOnce'
<1> USE DEF Inv
<1> DEFINE Kept(d) ==
      /\ \A i \in 1..Len(inbox'[d]) :
           i > 1 \/ server_connection_status'[d] = "ONLINE" => inbox'[d][i] \in Request
      /\ pc'[d] = "login" => server_connection_status'[d] = "ONLINE"
<1>1. ASSUME NEW d \in Conn, inbox'[d] = inbox[d], pc'[d] = pc[d] \/ pc'[d] # "login",
             server_connection_status'[d] = server_connection_status[d]
      PROVE  Kept(d)
  BY <1>1 DEF GreetsOnce
<1>2. ASSUME inbox[c] # <<>>, Receive(c),
             \/ UNCHANGED <<pc, server_connection_status>>
             \/ /\ server_connection_status' =
                     [server_connection_status EXCEPT ![c] = "ONLINE"]
                /\ pc' = pc \/ pc' = [pc EXCEPT ![c] = "login"]
             \/ /\ UNCHANGED server_connection_status
                /\ \E q \in {"leave", "offline"} : pc' = [pc EXCEPT ![c] = q]
      PROVE  GreetsOnce'
  <2>1. Kept(c)
    BY <1>2, ReceiveRest DEF GreetsOnce, TypeOK
  <2>2. \A d \in Conn \ {c} : Kept(d)
    BY <1>1, <1>2, ReceiveRest DEF TypeOK
  <2> QED BY <2>1, <2>2 DEF GreetsOnce
<1>3. CASE \/ VerifyLogin(c) \/ UserRegistration(c) \/ SessionCreate(c)
           \/ SessionJoin(c) \/ SessionLeave(c) \/ KickUser(c) \/ PromoteUser(c)
           \/ GroupMessage(c) \/ QueryUsers(c) \/ QuerySession(c) \/ RecvExit(c)
  <2>1. inbox[c] # <<>> /\ Receive(c)
    BY <1>3 DEF VerifyLogin, UserRegistration, SessionCreate, SessionJoin,
       SessionLeave, KickUser, PromoteUser, GroupMessage, QueryUsers,
       QuerySession, RecvExit, Receiving
  <2>2. CASE VerifyLogin(c)
    BY <1>2, <2>1, <2>2 DEF VerifyLogin, thread
  <2>3. CASE UserRegistration(c)
    BY <1>2, <2>1, <2>3 DEF UserRegistration
  <2>4. CASE RecvExit(c)
    BY <1>2, <2>1, <2>4 DEF RecvExit, StartExit
  <2>5. CASE SessionLeave(c)
    BY <1>2, <2>1, <2>5 DEF SessionLeave, LeaveBody
  <2>6. CASE \/ SessionCreate(c) \/ SessionJoin(c) \/ KickUser(c) \/ PromoteUser(c)
             \/ GroupMessage(c) \/ QueryUsers(c) \/ QuerySession(c)
    BY <1>2, <2>1, <2>6 DEF SessionCreate, SessionJoin, KickUser, PromoteUser,
       GroupMessage, QueryUsers, QuerySession, thread
  <2> QED BY <1>3, <2>2, <2>3, <2>4, <2>5, <2>6
<1>4. CASE \/ UserLogin(c) \/ Disconnect(c) \/ ExitLeave(c) \/ UnknownSourceCrash(c)
           \/ ClientRead(c)
  <2>1. /\ UNCHANGED <<inbox, server_connection_status>>
        /\ \A d \in Conn : pc'[d] = pc[d] \/ pc'[d] # "login"
    BY <1>4 DEF UserLogin, Disconnect, StartExit, ExitLeave, LeaveBody,
       UnknownSourceCrash, ClientRead, thread, TypeOK
  <2>2. \A d \in Conn : Kept(d)
    BY <1>1, <2>1
  <2> QED BY <2>2 DEF GreetsOnce
<1>5. CASE ExitOffline(c)
  <2>1. /\ inbox'[c] = <<>> /\ pc'[c] = "closed"
        /\ \A d \in Conn \ {c} : inbox'[d] = inbox[d] /\ pc'[d] = pc[d]
        /\ UNCHANGED server_connection_status
    BY <1>5 DEF ExitOffline, TypeOK
  <2>2. Kept(c)
    BY <2>1
  <2>3. \A d \in Conn \ {c} : Kept(d)
    BY <1>1, <2>1
  <2> QED BY <2>2, <2>3 DEF GreetsOnce
<1>6. ASSUME NEW m \in Greeting, Accept(c, m) PROVE GreetsOnce'
  <2>1. /\ inbox'[c] = <<m>> /\ pc'[c] = "recv"
        /\ \A d \in Conn \ {c} : inbox'[d] = inbox[d] /\ pc'[d] = pc[d]
        /\ UNCHANGED server_connection_status
    BY <1>6 DEF Accept, TypeOK
  <2>2. server_connection_status[c] = "OFFLINE"
    BY <1>6 DEF Accept, Registered
  <2>3. Kept(c)
    BY <2>1, <2>2
  <2>4. \A d \in Conn \ {c} : Kept(d)
    BY <1>1, <2>1
  <2> QED BY <2>3, <2>4 DEF GreetsOnce
<1>7. ASSUME NEW m \in Request, ClientSend(c, m) PROVE GreetsOnce'
  <2>1. inbox[c] \in Seq(Greeting \cup Request)
    BY DEF TypeOK
  <2>2. /\ inbox'[c] = Append(inbox[c], m) /\ UNCHANGED <<pc, server_connection_status>>
        /\ \A d \in Conn \ {c} : inbox'[d] = inbox[d]
    BY <1>7 DEF ClientSend, TypeOK, thread
  <2>3. ASSUME NEW i \in 1..Len(inbox'[c]),
               i > 1 \/ server_connection_status[c] = "ONLINE"
        PROVE  inbox'[c][i] \in Request
    <3>1. CASE i = Len(inbox[c]) + 1
      BY <2>1, <2>2, <3>1
    <3>2. CASE i \in 1..Len(inbox[c])
      <4>1. inbox'[c][i] = inbox[c][i]
        BY <2>1, <2>2, <3>2
      <4> QED BY <2>3, <3>2, <4>1 DEF GreetsOnce
    <3> QED BY <2>1, <2>2, <3>1, <3>2
  <2>4. Kept(c)
    BY <2>2, <2>3 DEF GreetsOnce
  <2>5. \A d \in Conn \ {c} : Kept(d)
    BY <1>1, <2>2
  <2> QED BY <2>4, <2>5 DEF GreetsOnce
<1> QED BY <1>3, <1>4, <1>5, <1>6, <1>7 DEF Handler, Environment

\* c is the thread that serves u.
Serving(u, c) ==
  /\ socket_fd[u] = c /\ source[c] = u
  /\ server_connection_status[c] = "ONLINE"
  /\ pc[c] \in {"recv", "leave", "offline"}

LEMMA SocketStep ==
  ASSUME Inv, GreetsOnce, OnlineSocketServed, NEW c \in Conn,
         Handler(c) \/ Environment(c)
  PROVE  OnlineSocketServed'
<1> USE DEF Inv
<1> SUFFICES ASSUME NEW u \in User, status'[u] = "ONLINE"
             PROVE  \E d \in Conn : Serving(u, d)'
  BY DEF OnlineSocketServed, Serving
<1>1. ASSUME status[u] = "ONLINE" PROVE \E d \in Conn : Serving(u, d)
  BY <1>1 DEF OnlineSocketServed, Serving
\* who is served by another thread is not concerned
<1>2. ASSUME status[u] = "ONLINE", socket_fd'[u] = socket_fd[u], ~ Serving(u, c),
             \A d \in Conn \ {c} :
               /\ pc'[d] = pc[d] /\ source'[d] = source[d]
               /\ server_connection_status'[d] = server_connection_status[d]
      PROVE  \E d \in Conn : Serving(u, d)'
  <2>1. PICK d \in Conn : Serving(u, d)
    BY <1>1, <1>2
  <2>2. d # c
    BY <1>2, <2>1
  <2> QED BY <1>2, <2>1, <2>2 DEF Serving
<1>3. ASSUME UNCHANGED <<status, socket_fd, source, server_connection_status>>,
             \A d \in Conn : pc'[d] = pc[d] \/ pc'[d] \in {"recv", "leave", "offline"}
      PROVE  \E d \in Conn : Serving(u, d)'
  <2>1. PICK d \in Conn : Serving(u, d)
    BY <1>1, <1>3
  <2> QED BY <1>3, <2>1 DEF Serving
<1>4. CASE VerifyLogin(c)
  <2>1. CASE UNCHANGED thread
    BY <1>3, <1>4, <2>1 DEF VerifyLogin, entry, thread
  <2>2. CASE ~ UNCHANGED thread
    <3>1. ~ Serving(u, c)
      BY <1>4, GreetingUnserved DEF VerifyLogin, Serving
    <3> QED BY <1>2, <1>4, <2>2, <3>1 DEF VerifyLogin, entry, thread, TypeOK
  <2> QED BY <2>1, <2>2
<1>5. CASE UserLogin(c)
  <2>1. CASE u = source[c]
    <3>1. Serving(u, c)'
      BY <1>5, <2>1 DEF UserLogin, Serving, GreetsOnce, TypeOK
    <3> QED BY <3>1
  <2>2. CASE u # source[c]
    BY <1>2, <1>5, <2>2 DEF UserLogin, Serving, TypeOK
  <2> QED BY <2>1, <2>2
<1>6. CASE UserRegistration(c)
  <2> DEFINE v == Head(inbox[c]).source
  <2>1. ~ Serving(u, c) /\ pc[c] = "recv" /\ UNCHANGED pc
    BY <1>6, GreetingUnserved DEF UserRegistration, Receiving, Serving
  <2>2. CASE UNCHANGED <<status, socket_fd, source, server_connection_status>>
    BY <1>3, <2>1, <2>2
  <2>3. CASE /\ status' = [status EXCEPT ![v] = "ONLINE"]
             /\ socket_fd' = [socket_fd EXCEPT ![v] = c]
             /\ source' = [source EXCEPT ![c] = v]
             /\ server_connection_status' =
                  [server_connection_status EXCEPT ![c] = "ONLINE"]
    <3>1. CASE u = v
      <4>1. Serving(u, c)'
        BY <2>1, <2>3, <3>1 DEF Serving, TypeOK
      <4> QED BY <4>1
    <3>2. CASE u # v
      BY <1>2, <2>1, <2>3, <3>2 DEF TypeOK
    <3> QED BY <3>1, <3>2
  <2> QED BY <1>6, <2>2, <2>3 DEF UserRegistration
<1>7. CASE \/ SessionCreate(c) \/ SessionJoin(c) \/ KickUser(c) \/ PromoteUser(c)
           \/ GroupMessage(c) \/ QueryUsers(c) \/ QuerySession(c)
           \/ UnknownSourceCrash(c) \/ ClientRead(c)
           \/ \E m \in Request : ClientSend(c, m)
  <2>1. UNCHANGED <<status, socket_fd, thread>>
    BY <1>7 DEF SessionCreate, SessionJoin, KickUser, PromoteUser, GroupMessage,
       QueryUsers, QuerySession, UnknownSourceCrash, ClientRead, ClientSend, entry
  <2> QED BY <1>3, <2>1 DEF thread
<1>8. CASE SessionLeave(c) \/ ExitLeave(c)
  <2>1. /\ UNCHANGED <<status, socket_fd, source, server_connection_status>>
        /\ pc' = pc \/ pc' = [pc EXCEPT ![c] = "offline"]
    BY <1>8 DEF SessionLeave, ExitLeave, LeaveBody
  <2> QED BY <1>3, <2>1 DEF TypeOK
<1>9. CASE RecvExit(c)
  <2>1. /\ UNCHANGED <<status, socket_fd, source, server_connection_status>>
        /\ \E q \in {"leave", "offline"} : pc' = [pc EXCEPT ![c] = q]
    BY <1>9 DEF RecvExit, StartExit, entry
  <2> QED BY <1>3, <2>1 DEF TypeOK
<1>10. CASE Disconnect(c)
  <2>1. UNCHANGED <<status, socket_fd, source, server_connection_status>>
    BY <1>10 DEF Disconnect, entry
  <2>2. CASE \E q \in {"leave", "offline"} : pc' = [pc EXCEPT ![c] = q]
    BY <1>3, <2>1, <2>2 DEF TypeOK
  <2>3. CASE /\ server_connection_status[c] = "OFFLINE"
             /\ pc' = [pc EXCEPT ![c] = "closed"]
    BY <1>2, <2>1, <2>3 DEF Serving, TypeOK
  <2> QED BY <1>10, <2>2, <2>3 DEF Disconnect, StartExit
<1>11. CASE ExitOffline(c)
  <2>1. u # source[c] /\ status[u] = "ONLINE" /\ socket_fd'[u] = socket_fd[u]
    BY <1>11 DEF ExitOffline, TypeOK
  <2> QED BY <1>2, <1>11, <2>1 DEF ExitOffline, Serving, TypeOK
<1>12. ASSUME NEW m \in Greeting, Accept(c, m)
       PROVE  \E d \in Conn : Serving(u, d)'
  <2>1. ~ Serving(u, c) /\ UNCHANGED <<status, socket_fd, server_connection_status>>
    BY <1>12 DEF Accept, Serving, entry
  <2>2. \A d \in Conn \ {c} : pc'[d] = pc[d] /\ source'[d] = source[d]
    BY <1>12 DEF Accept, TypeOK
  <2> QED BY <1>2, <2>1, <2>2
<1> QED BY <1>4, <1>5, <1>6, <1>7, <1>8, <1>9, <1>10, <1>11, <1>12
     DEF Handler, Environment

\* A reply or a group message for an online user goes to the thread that serves
\* this user, for any clients that greet once and any reuse of names on stacks.
THEOREM OnlineSocketAlwaysServed == Spec => []OnlineSocketServed
<1>1. Init => GreetsOnce /\ OnlineSocketServed
  BY DEF Init, GreetsOnce, OnlineSocketServed
<1>2. Inv /\ GreetsOnce /\ OnlineSocketServed /\ [Next]_vars
        => (GreetsOnce /\ OnlineSocketServed)'
  <2> SUFFICES ASSUME Inv, GreetsOnce, OnlineSocketServed, [Next]_vars
               PROVE  (GreetsOnce /\ OnlineSocketServed)'
    OBVIOUS
  <2>1. CASE \E c \in Conn : Handler(c) \/ Environment(c)
    BY <2>1, GreetsOnceStep, SocketStep
  <2>2. CASE \/ MainExit \/ UNCHANGED vars
             \/ \E D \in SUBSET {c \in Conn : peer[c] = "open"} : ClientClose(D)
    <3>1. UNCHANGED <<inbox, status, socket_fd, thread>>
      BY <2>2 DEF MainExit, ClientClose, vars, entry
    <3> QED BY <3>1 DEF GreetsOnce, OnlineSocketServed, thread
  <2> QED BY <2>1, <2>2 DEF Next
<1> QED BY <1>1, <1>2, SpecInv, PTL DEF Spec

-----------------------------------------------------------------------------
(* ConferenceServer implements ConferenceRooms.  The step of the abstract  *)
(* specification that a handler makes is guarded by what the abstract      *)
(* specification knows: a join, by a place that is free.  The code tests   *)
(* for equality with MAX_SESSION_USER only, so the bound on the sessions   *)
(* is proved first.                                                        *)

\* Only users with an entry are in a session: the count over the entries is
\* the count over all users.
LEMMA MembersAreUsers ==
  ASSUME Inv, NEW s \in Session, ServerAssumption
  PROVE  /\ Members(s) = {u \in User : session_id[u] = s}
         /\ IsFiniteSet(Members(s)) /\ Cardinality(Members(s)) \in Nat
<1>1. ASSUME NEW u \in User, session_id[u] = s
      PROVE  u \in database
  BY <1>1 DEF Inv, Registered, MembershipAgrees, ServerAssumption
<1>2. Members(s) = {u \in User : session_id[u] = s}
  BY <1>1 DEF Inv, TypeOK, Members
<1>3. IsFiniteSet(Members(s))
  BY <1>2, FS_Subset DEF ServerAssumption
<1> QED BY <1>2, <1>3, FS_CardinalityType

\* What a step does to session_id: nothing, or one user is moved to no
\* session, to a session that was empty, or to one that was not full.
Moved(u, s) ==
  /\ \A v \in User \ {u} : session_id'[v] = session_id[v]
  /\ session_id'[u] = s

LEMMA HandlerMoves ==
  ASSUME ServerAssumption, Inv, NEW c \in Conn, Handler(c)
  PROVE  \/ session_id' = session_id
         \/ \E u \in User : Moved(u, NotInSession)
         \/ \E u \in User, s \in Session :
              /\ Moved(u, s)
              /\ Cardinality(Members(s)) # MAX_SESSION_USER
<1> USE DEF Inv
<1>1. CASE SessionCreate(c)
  <2> DEFINE u == source[c]
             s == Head(inbox[c]).data
  <2>1. s \in Session /\ u \in User
    BY <1>1, HeadType DEF SessionCreate, Receiving, Known, TypeOK
  <2>2. CASE UNCHANGED session_id
    BY <2>2
  <2>3. CASE Members(s) = {} /\ session_id' = [session_id EXCEPT ![u] = s]
    <3>1. Cardinality(Members(s)) # MAX_SESSION_USER
      BY <2>3, FS_EmptySet DEF ServerAssumption
    <3>2. Moved(u, s)
      BY <2>1, <2>3 DEF Moved, TypeOK
    <3> QED BY <2>1, <3>1, <3>2
  <2> QED BY <1>1, <2>2, <2>3 DEF SessionCreate
<1>2. CASE SessionJoin(c)
  <2> DEFINE u == source[c]
             s == Head(inbox[c]).data
  <2>1. s \in Session /\ u \in User
    BY <1>2, HeadType DEF SessionJoin, Receiving, Known, TypeOK
  <2>2. CASE UNCHANGED session_id
    BY <2>2
  <2>3. CASE CanJoin(u, s) /\ session_id' = [session_id EXCEPT ![u] = s]
    <3>1. Moved(u, s)
      BY <2>1, <2>3 DEF Moved, TypeOK
    <3> QED BY <2>1, <2>3, <3>1 DEF CanJoin
  <2> QED BY <1>2, <2>2, <2>3 DEF SessionJoin
<1>3. CASE LeaveBody(c)
  <2>1. source[c] \in User
    BY <1>3 DEF LeaveBody, Known, TypeOK
  <2> QED BY <1>3, <2>1 DEF LeaveBody, ClearMembership, Moved, TypeOK
<1>4. CASE KickUser(c)
  <2>1. Head(inbox[c]).data \in User
    BY <1>4, HeadType DEF KickUser, Receiving
  <2> QED BY <1>4, <2>1 DEF KickUser, ClearMembership, Moved, TypeOK
<1>5. CASE ~ (SessionCreate(c) \/ SessionJoin(c) \/ SessionLeave(c)
              \/ ExitLeave(c) \/ KickUser(c))
  BY <1>5
  DEF Handler, VerifyLogin, UserLogin, UserRegistration, PromoteUser,
      GroupMessage, QueryUsers, QuerySession, RecvExit, Disconnect,
      ExitOffline, UnknownSourceCrash, entry
<1> QED BY <1>1, <1>2, <1>3, <1>4, <1>5 DEF SessionLeave, ExitLeave

LEMMA OverfullStep ==
  ASSUME ServerAssumption, Inv, Inv', SessionNotOverfull, [Next]_vars
  PROVE  SessionNotOverfull'
<1> SUFFICES ASSUME NEW t \in Session
             PROVE  Cardinality(Members(t)') <= MAX_SESSION_USER
  BY DEF SessionNotOverfull
<1> DEFINE before == Members(t)
           after  == Members(t)'
<1>1. /\ before = {u \in User : session_id[u] = t}
      /\ IsFiniteSet(before) /\ Cardinality(before) \in Nat
      /\ Cardinality(before) <= MAX_SESSION_USER
  BY MembersAreUsers DEF SessionNotOverfull
<1>2. /\ after = {u \in User : session_id'[u] = t}
      /\ IsFiniteSet(after) /\ Cardinality(after) \in Nat
  <2>1. ASSUME NEW u \in User, session_id'[u] = t
        PROVE  u \in database'
    BY <2>1 DEF Inv, Registered, MembershipAgrees, ServerAssumption
  <2>2. after = {u \in User : session_id'[u] = t}
    BY <2>1 DEF Inv, TypeOK, Members
  <2>3. IsFiniteSet(after)
    BY <2>2, FS_Subset DEF ServerAssumption
  <2> QED BY <2>2, <2>3, FS_CardinalityType
<1>3. ASSUME after \subseteq before
      PROVE  Cardinality(after) <= MAX_SESSION_USER
  <2>1. Cardinality(after) <= Cardinality(before)
    BY <1>1, <1>3, FS_Subset
  <2> HIDE DEF before, after
  <2> QED BY <1>1, <1>2, <2>1 DEF ServerAssumption
<1>4. CASE session_id' = session_id
  BY <1>1, <1>2, <1>3, <1>4
<1>5. CASE \E u \in User : Moved(u, NotInSession)
  <2>1. NotInSession # t
    BY DEF ServerAssumption
  <2> QED BY <1>1, <1>2, <1>3, <1>5, <2>1 DEF Moved
<1>6. ASSUME NEW u \in User, NEW s \in Session, Moved(u, s),
             Cardinality(Members(s)) # MAX_SESSION_USER
      PROVE  Cardinality(after) <= MAX_SESSION_USER
  <2>1. CASE s # t
    BY <1>1, <1>2, <1>3, <1>6, <2>1 DEF Moved
  <2>2. CASE s = t
    <3>1. after \subseteq before \cup {u}
      BY <1>1, <1>2, <1>6 DEF Moved
    <3>2. /\ IsFiniteSet(before \cup {u})
          /\ \/ Cardinality(before \cup {u}) = Cardinality(before)
             \/ Cardinality(before \cup {u}) = Cardinality(before) + 1
      BY <1>1, FS_AddElement
    <3>3. Cardinality(after) <= Cardinality(before \cup {u})
      BY <3>1, <3>2, FS_Subset
    <3>4. Cardinality(before) # MAX_SESSION_USER
      BY <1>6, <2>2
    <3> HIDE DEF before, after
    <3> QED BY <1>1, <1>2, <3>2, <3>3, <3>4 DEF ServerAssumption
  <2> QED BY <2>1, <2>2
<1>7. CASE Next
  <2>1. CASE MainExit
    BY <1>4, <2>1 DEF MainExit, entry
  <2>2. ASSUME \/ \E c \in Conn : Environment(c)
               \/ \E D \in SUBSET {c \in Conn : peer[c] = "open"} : ClientClose(D)
        PROVE  session_id' = session_id
    BY <2>2 DEF Environment, Accept, ClientSend, ClientRead, ClientClose, entry
  <2>3. ASSUME NEW c \in Conn, Handler(c)
        PROVE  Cardinality(after) <= MAX_SESSION_USER
    BY <2>3, <1>4, <1>5, <1>6, HandlerMoves
  <2> QED BY <1>4, <1>7, <2>1, <2>2, <2>3 DEF Next
<1>8. CASE UNCHANGED vars
  BY <1>4, <1>8 DEF vars, entry
<1> QED BY <1>7, <1>8

\* However joins, creations, kicks and leaves interleave, no session exceeds
\* MAX_SESSION_USER, although the join compares the count for equality only.
THEOREM SessionNeverOverfull == Spec => []SessionNotOverfull
<1>1. Init => SessionNotOverfull
  <2> SUFFICES ASSUME Init, NEW s \in Session
               PROVE  Cardinality(Members(s)) <= MAX_SESSION_USER
    BY DEF SessionNotOverfull
  <2>1. Members(s) = {}
    BY ServerAssumption DEF Init, Members, ServerAssumption
  <2> QED BY <2>1, FS_EmptySet, ServerAssumption DEF ServerAssumption
<1>2. Inv /\ Inv' /\ SessionNotOverfull /\ [Next]_vars => SessionNotOverfull'
  BY OverfullStep, ServerAssumption
<1> QED BY <1>1, <1>2, SpecInv, PTL DEF Spec

-----------------------------------------------------------------------------
(* The refinement.                                                         *)

Online == {u \in User : status[u] = "ONLINE"}
Admins == {u \in User : role[u] = "ADMIN"}

LEMMA InitRefines == ServerAssumption /\ Init => Rooms!RoomsInit
BY DEF Init, Rooms!RoomsInit

LEMMA LoginRefines ==
  ASSUME Inv, NEW c \in Conn, UserLogin(c) \/ UserRegistration(c)
  PROVE  [Rooms!RoomsNext]_(Rooms!rooms)
<1> USE DEF Inv
<1>1. CASE UNCHANGED <<status, session_id, role>>
  BY <1>1 DEF Rooms!rooms
<1>2. ASSUME NEW u \in User, status' = [status EXCEPT ![u] = "ONLINE"],
             UNCHANGED <<session_id, role>>
      PROVE  Rooms!Appear(u)
  BY <1>2 DEF TypeOK, Rooms!Appear
<1>3. CASE UserLogin(c)
  <2>1. source[c] \in User
    BY <1>3 DEF UserLogin, Registered, TypeOK
  <2> QED BY <1>2, <1>3, <2>1 DEF UserLogin, Rooms!RoomsNext
<1>4. CASE UserRegistration(c)
  <2>1. Head(inbox[c]).source \in User
    BY <1>4, HeadType DEF UserRegistration, Receiving
  <2> QED BY <1>1, <1>2, <1>4, <2>1 DEF UserRegistration, Rooms!RoomsNext
<1> QED BY <1>3, <1>4

LEMMA CreateRefines ==
  ASSUME ServerAssumption, Inv, NEW c \in Conn, SessionCreate(c)
  PROVE  [Rooms!RoomsNext]_(Rooms!rooms)
<1> USE DEF Inv
<1>1. PICK u \in User, s \in Session : u = source[c] /\ s = Head(inbox[c]).data
  BY HeadType DEF SessionCreate, Receiving, Known, TypeOK
<1>2. CASE UNCHANGED <<session_id, in_session, role>>
  BY <1>2 DEF SessionCreate, Rooms!rooms
<1>3. CASE /\ Members(s) = {}
           /\ session_id' = [session_id EXCEPT ![u] = s]
           /\ role' = [role EXCEPT ![u] = "ADMIN"]
  <2>1. Rooms!Occupants(s) = {}
    BY <1>1, <1>3, MembersAreUsers DEF Rooms!Occupants
  <2>2. Admins' = Admins \cup {u}
    BY <1>3 DEF TypeOK, Admins
  <2>3. Rooms!Open(u, s)
    BY <1>3, <2>1, <2>2 DEF SessionCreate, Rooms!Open, Admins
  <2> QED BY <2>3 DEF Rooms!RoomsNext
<1> QED BY <1>1, <1>2, <1>3 DEF SessionCreate

LEMMA JoinRefines ==
  ASSUME ServerAssumption, Inv, SessionNotOverfull, NEW c \in Conn, SessionJoin(c)
  PROVE  [Rooms!RoomsNext]_(Rooms!rooms)
<1> USE DEF Inv
<1> DEFINE u == source[c]
           s == Head(inbox[c]).data
<1>1. s \in Session /\ u \in User
  BY HeadType DEF SessionJoin, Receiving, Known, TypeOK
<1>2. CASE UNCHANGED <<session_id, in_session>>
  BY <1>2 DEF SessionJoin, Rooms!rooms
<1>3. CASE CanJoin(u, s) /\ session_id' = [session_id EXCEPT ![u] = s]
  <2>1. session_id[u] = NotInSession
    BY <1>1, <1>3 DEF CanJoin, MembershipAgrees
  <2>2. Rooms!Occupants(s) = Members(s)
    BY <1>1, MembersAreUsers DEF Rooms!Occupants
  <2>3. Members(s) # {}
    BY <1>3, FS_EmptySet DEF CanJoin
  <2>4. Cardinality(Members(s)) < MAX_SESSION_USER
    BY <1>1, <1>3, MembersAreUsers
    DEF CanJoin, SessionNotOverfull, ServerAssumption
  <2>5. Rooms!Join(u, s)
    BY <1>3, <2>1, <2>2, <2>3, <2>4
    DEF SessionJoin, Rooms!Join, Rooms!Cardinality, Cardinality
  <2> HIDE DEF u, s
  <2> QED BY <1>1, <2>5 DEF Rooms!RoomsNext
<1> QED BY <1>2, <1>3 DEF SessionJoin

LEMMA LeaveRefines ==
  ASSUME ServerAssumption, Inv, NEW c \in Conn, LeaveBody(c)
  PROVE  [Rooms!RoomsNext]_(Rooms!rooms)
<1> USE DEF Inv
<1>1. PICK u \in User : u = source[c]
  BY DEF LeaveBody, Known, TypeOK
<1>2. CASE in_session[u] = "OFFLINE"
  BY <1>1, <1>2 DEF LeaveBody, Rooms!rooms
<1>3. CASE in_session[u] = "ONLINE"
  <2> DEFINE rest == Members(session_id[u]) \ {u}
  <2>1. session_id[u] \in Session /\ session_id[u] # NotInSession
    BY <1>1, <1>3 DEF MembershipAgrees, TypeOK
  <2>2. Rooms!Occupants(session_id[u]) = Members(session_id[u])
    BY <2>1, MembersAreUsers DEF Rooms!Occupants
  <2>3. /\ session_id' = [session_id EXCEPT ![u] = NotInSession]
        /\ role' = RolesWithout(u)
        /\ UNCHANGED status
    BY <1>1, <1>3, <2>1 DEF LeaveBody, ClearMembership
  <2>4. Admins' =
          (Admins \ {u}) \cup (IF \E v \in rest : rest = {v} THEN rest ELSE {})
    <3>1. rest \subseteq User
      BY DEF Members, TypeOK
    <3>2. ASSUME NEW v \in User
          PROVE  v \in Admins' <=> \/ v \in Admins \ {u}
                                   \/ v \in rest /\ rest = {v}
      BY <1>1, <2>3 DEF RolesWithout, Admins
    <3> HIDE DEF rest
    <3>3. Admins' \subseteq User /\ Admins \subseteq User
      BY DEF Admins
    <3> QED BY <3>1, <3>2, <3>3
  <2>5. Rooms!Leave(u)
    BY <2>1, <2>2, <2>3, <2>4 DEF Rooms!Leave, Admins
  <2> QED BY <2>5 DEF Rooms!RoomsNext
<1> QED BY <1>1, <1>2, <1>3 DEF TypeOK

LEMMA KickRefines ==
  ASSUME ServerAssumption, Inv, NEW c \in Conn, KickUser(c)
  PROVE  [Rooms!RoomsNext]_(Rooms!rooms)
<1> USE DEF Inv
<1> DEFINE u == source[c]
           v == Head(inbox[c]).data
<1>1. u \in User /\ v \in User
  BY HeadType DEF KickUser, Receiving, Known, TypeOK
<1>2. CASE UNCHANGED <<in_session, session_id>>
  BY <1>2 DEF KickUser, Rooms!rooms
<1>3. CASE Reachable(v, u) /\ ClearMembership(v)
  <2>1. /\ session_id[v] # NotInSession /\ session_id[u] = session_id[v]
        /\ status[v] = "ONLINE" /\ role[v] # "ADMIN"
    BY <1>1, <1>3 DEF Reachable, MembershipAgrees
  <2>2. Rooms!Remove(u, v)
    BY <1>1, <1>3, <2>1 DEF KickUser, ClearMembership, Rooms!Remove
  <2> HIDE DEF u, v
  <2> QED BY <1>1, <2>2 DEF Rooms!RoomsNext
<1> QED BY <1>2, <1>3 DEF KickUser

LEMMA PromoteRefines ==
  ASSUME ServerAssumption, Inv, NEW c \in Conn, PromoteUser(c)
  PROVE  [Rooms!RoomsNext]_(Rooms!rooms)
<1> USE DEF Inv
<1>1. PICK u \in User, v \in User : u = source[c] /\ v = Head(inbox[c]).data
  BY HeadType DEF PromoteUser, Receiving, Known, TypeOK
<1>2. CASE UNCHANGED role
  BY <1>2 DEF PromoteUser, Rooms!rooms
<1>3. CASE Reachable(v, u) /\ role' = [role EXCEPT ![v] = "ADMIN", ![u] = "USER"]
  <2>1. /\ session_id[v] # NotInSession /\ session_id[u] = session_id[v]
        /\ status[v] = "ONLINE" /\ role[v] # "ADMIN"
    BY <1>1, <1>3 DEF Reachable, MembershipAgrees
  <2>2. Admins' = (Admins \cup {v}) \ {u}
    BY <1>1, <1>3 DEF TypeOK, Admins
  <2>3. Rooms!HandOver(u, v)
    BY <1>1, <2>1, <2>2 DEF PromoteUser, Rooms!HandOver, Admins
  <2> QED BY <2>3 DEF Rooms!RoomsNext
<1> QED BY <1>1, <1>2, <1>3 DEF PromoteUser

LEMMA ExitRefines ==
  ASSUME Inv, NEW c \in Conn, ExitOffline(c)
  PROVE  [Rooms!RoomsNext]_(Rooms!rooms)
<1>1. PICK u \in User : u = source[c]
  BY DEF ExitOffline, Inv, Registered, TypeOK
<1>2. Rooms!Vanish(u)
  BY <1>1 DEF ExitOffline, Inv, TypeOK, Rooms!Vanish
<1> QED BY <1>2 DEF Rooms!RoomsNext

LEMMA StepRefines ==
  ASSUME ServerAssumption, Inv, SessionNotOverfull, [Next]_vars
  PROVE  [Rooms!RoomsNext]_(Rooms!rooms)
<1>1. ASSUME UNCHANGED <<status, session_id, role>>
      PROVE  UNCHANGED Rooms!rooms
  BY <1>1 DEF Rooms!rooms
<1>2. ASSUME NEW c \in Conn, Handler(c)
      PROVE  [Rooms!RoomsNext]_(Rooms!rooms)
  <2>1. CASE SessionLeave(c) \/ ExitLeave(c)
    BY <2>1, LeaveRefines DEF SessionLeave, ExitLeave
  <2>2. CASE \/ VerifyLogin(c) \/ GroupMessage(c) \/ QueryUsers(c)
             \/ QuerySession(c) \/ RecvExit(c) \/ Disconnect(c)
             \/ UnknownSourceCrash(c)
    BY <1>1, <2>2
    DEF VerifyLogin, GroupMessage, QueryUsers, QuerySession, RecvExit,
        Disconnect, UnknownSourceCrash, entry
  <2> QED BY <1>2, <2>1, <2>2, LoginRefines, CreateRefines, JoinRefines,
             KickRefines, PromoteRefines, ExitRefines
       DEF Handler
<1>3. ASSUME \/ \E c \in Conn : Environment(c)
             \/ \E D \in SUBSET {c \in Conn : peer[c] = "open"} : ClientClose(D)
      PROVE  UNCHANGED Rooms!rooms
  BY <1>1, <1>3 DEF Environment, Accept, ClientSend, ClientRead, ClientClose, entry
<1>4. CASE MainExit \/ UNCHANGED vars
  BY <1>1, <1>4 DEF MainExit, vars, entry
<1> QED BY <1>2, <1>3, <1>4 DEF Next

\* The server, with any clients and any interleaving of its threads, behaves
\* as ConferenceRooms: every handler acts on the sessions as one step of the
\* abstract service, or as none.
THEOREM ServerImplementsRooms == Spec => ImplementsRooms
<1>1. Init => Rooms!RoomsInit
  BY InitRefines, ServerAssumption
<1>2. Inv /\ SessionNotOverfull /\ [Next]_vars
      => [Rooms!RoomsNext]_(Rooms!rooms)
  BY StepRefines, ServerAssumption
<1> QED BY <1>1, <1>2, SpecInv, SessionNeverOverfull, PTL
     DEF Spec, ImplementsRooms, Rooms!RoomsSpec

=============================================================================
