-------------------------- MODULE ConferenceServer --------------------------
(***************************************************************************)
(* The text-conferencing server: server/server.c with the user database of *)
(* server/user.c.  A thread per accepted connection reads one request at a *)
(* time and answers it by reading and changing the shared user table.      *)
(*                                                                         *)
(* Every handler that changes a user entry runs from its first to its last *)
(* access inside one user_list_mutex section, so its body is one action.   *)
(* What the code reads outside the mutex is a step of its own: the test of *)
(* verify_login, and the in_session test that starts a user's exit.        *)
(* rw_mutex is taken for moments inside those sections (and alone by the   *)
(* two list queries), so both mutexes appear in guards; they change only   *)
(* where the code returns without unlocking.                               *)
(***************************************************************************)
EXTENDS Naturals, Sequences, FiniteSets, FiniteSetsExt

CONSTANTS
  User,               \* user names that may appear in a request
  InitialUsers,       \* the names set_up_database reads from database.txt
  Session,            \* session names that may appear in a request
  NoUser,             \* the content of an uninitialised name buffer
  NotInSession,       \* NOT_IN_SESSION, the session_id of a user in no session
  THREAD_CAPACITY,    \* connections accepted in the life of the server
  MAX_SESSION_USER,   \* users in one session
  MAX_USER_COUNT,     \* users in the database
  Coalesce,           \* whether one recv() may return several requests
  MaxInFlight,        \* bound on unread messages when a request is sent
  Traffic             \* the messages that clients send, of all there are

ASSUME ServerAssumption ==
  /\ IsFiniteSet(User) /\ InitialUsers \subseteq User /\ NoUser \notin User
  \* NOT_IN_SESSION contains blanks, at which the client splits its input
  /\ NotInSession \notin Session
  /\ THREAD_CAPACITY \in Nat /\ MAX_SESSION_USER \in Nat \ {0}
  /\ MAX_USER_COUNT \in Nat /\ MaxInFlight \in Nat /\ Coalesce \in BOOLEAN

Conn == 1..THREAD_CAPACITY    \* a connection and the thread that serves it
Free == 0                     \* holder of an unlocked mutex
NoSocket == 0                 \* OFFLINE, as stored in socket_fd

VARIABLES
  \* the user table: which names have an entry, and the fields of each entry
  database, status, in_session, session_id, role, socket_fd,
  \* the two mutexes: the thread that holds each one
  user_list_mutex, rw_mutex,
  \* the locals of each connection_handler thread, pc for its position
  pc, source, server_connection_status,
  \* each connection: requests, replies, and whether the client has it open
  inbox, outbox, peer,
  \* whether the process runs, has crashed or has exited
  server

entry   == <<database, status, in_session, session_id, role, socket_fd>>
mutexes == <<user_list_mutex, rw_mutex>>
thread  == <<pc, source, server_connection_status>>
vars    == <<entry, mutexes, thread, inbox, outbox, peer, server>>

-----------------------------------------------------------------------------
(* Messages, with the fields their receiver looks at.  A password is right *)
(* or wrong; the text of lists, of refusals and of chat lines is left out. *)

Greeting == [type : {"LOGIN"}, source : User, data : {"right", "wrong"}]
              \cup [type : {"CREATE"}, source : User]

Request == [type : {"JOIN", "NEW_SESS", "SESS_QUERY"}, data : Session]
             \cup [type : {"KICK", "PROMOTE"}, data : User]
             \cup [type : {"MESSAGE"}, source : User]
             \cup [type : {"LEAVE_SESS", "EXIT", "QUERY"}]

Reply == [type : {"LO_ACK", "RG_ACK", "MESSAGE"}, source : User]
           \cup [type : {"LO_NAK", "RG_NAK", "JN_ACK", "JN_NAK", "NS_ACK",
                         "NEW_SESS", "QU_ACK", "SQ_ACK", "SQ_NAK",
                         "KI_ACK", "KI_NAK", "KI_MESSAGE",
                         "PM_ACK", "PM_NAK", "PM_MESSAGE"}]

TypeOK ==
  /\ database \in SUBSET User
  /\ status \in [User -> {"ONLINE", "OFFLINE"}]
  /\ in_session \in [User -> {"ONLINE", "OFFLINE"}]
  /\ session_id \in [User -> Session \cup {NotInSession}]
  /\ role \in [User -> {"USER", "ADMIN"}]
  /\ socket_fd \in [User -> Conn \cup {NoSocket}]
  /\ user_list_mutex \in Conn \cup {Free}
  /\ rw_mutex \in Conn \cup {Free}
  /\ pc \in [Conn -> {"none", "recv", "login", "leave", "offline", "closed"}]
  /\ source \in [Conn -> User \cup {NoUser}]
  /\ server_connection_status \in [Conn -> {"ONLINE", "OFFLINE"}]
  /\ inbox \in [Conn -> Seq(Greeting \cup Request)]
  /\ outbox \in [Conn -> Seq(Reply)]
  /\ peer \in [Conn -> {"none", "open", "closed"}]
  /\ server \in {"up", "crashed", "exited"}

\* set_up_database: an offline entry for every name in the file.
Init ==
  /\ database = InitialUsers
  /\ status = [u \in User |-> "OFFLINE"]
  /\ in_session = [u \in User |-> "OFFLINE"]
  /\ session_id = [u \in User |-> NotInSession]
  /\ role = [u \in User |-> "USER"]
  /\ socket_fd = [u \in User |-> NoSocket]
  /\ user_list_mutex = Free /\ rw_mutex = Free
  /\ pc = [c \in Conn |-> "none"]
  /\ source = [c \in Conn |-> NoUser]
  /\ server_connection_status = [c \in Conn |-> "OFFLINE"]
  /\ inbox = [c \in Conn |-> <<>>]
  /\ outbox = [c \in Conn |-> <<>>]
  /\ peer = [c \in Conn |-> "none"]
  /\ server = "up"

-----------------------------------------------------------------------------
(* Sending and receiving.                                                  *)

\* One message to the connection behind a socket_fd (nobody behind NoSocket).
To(fd, m) == [d \in Conn |-> IF d = fd THEN <<m>> ELSE <<>>]
\* One message to the socket of every user of a set.
ToAll(U, m) ==
  [d \in Conn |-> IF \E v \in U : socket_fd[v] = d THEN <<m>> ELSE <<>>]
Then(f, g) == [d \in Conn |-> f[d] \o g[d]]

\* What is sent to a client that has closed its end is lost.
Send(f) == outbox' =
  [d \in Conn |-> IF peer[d] = "open" THEN outbox[d] \o f[d] ELSE outbox[d]]

\* The thread of c is at recv() and the next request is of type t.
Receiving(c, t) ==
  /\ server = "up" /\ pc[c] = "recv"
  /\ inbox[c] # <<>> /\ Head(inbox[c]).type = t

\* recv() returns some of what has arrived; string_to_message reads the
\* first message in the buffer, so the others in it are lost.
Receive(c) ==
  \E n \in 1..(IF Coalesce THEN Len(inbox[c]) ELSE 1) :
    inbox' = [inbox EXCEPT ![c] = SubSeq(inbox[c], n + 1, Len(inbox[c]))]

\* database_search_user(source) finds an entry.
Known(c) == source[c] \in database

Members(s) == {u \in database : session_id[u] = s}

-----------------------------------------------------------------------------
(* Logging in and registering.                                             *)

verify_login(m) ==
  m.source \in database /\ m.data = "right" /\ status[m.source] = "OFFLINE"

\* LOGIN, first step: the test, with no mutex held.  The assignments to the
\* thread's own locals that follow it are made here.
VerifyLogin(c) ==
  /\ Receiving(c, "LOGIN")
  /\ LET m == Head(inbox[c]) IN
       \/ /\ verify_login(m)
          /\ pc' = [pc EXCEPT ![c] = "login"]
          /\ source' = [source EXCEPT ![c] = m.source]
          /\ server_connection_status' =
               [server_connection_status EXCEPT ![c] = "ONLINE"]
          /\ UNCHANGED outbox
       \/ /\ ~ verify_login(m)
          /\ Send(To(c, [type |-> "LO_NAK"]))
          /\ UNCHANGED thread
  /\ Receive(c)
  /\ UNCHANGED <<entry, mutexes, peer, server>>

\* LOGIN, second step: user_login, then LO_ACK.
UserLogin(c) ==
  /\ server = "up" /\ pc[c] = "login" /\ user_list_mutex = Free
  /\ socket_fd' = [socket_fd EXCEPT ![source[c]] = c]
  /\ status' = [status EXCEPT ![source[c]] = "ONLINE"]
  /\ pc' = [pc EXCEPT ![c] = "recv"]
  /\ Send(To(c, [type |-> "LO_ACK", source |-> source[c]]))
  /\ UNCHANGED <<database, in_session, session_id, role, mutexes, source,
                 server_connection_status, inbox, peer, server>>

\* CREATE: user_registration and its answer.
UserRegistration(c) ==
  /\ Receiving(c, "CREATE") /\ user_list_mutex = Free /\ rw_mutex = Free
  /\ LET u == Head(inbox[c]).source IN
       \/ /\ Cardinality(database) < MAX_USER_COUNT /\ u \notin database
          /\ database' = database \cup {u}
          /\ status' = [status EXCEPT ![u] = "ONLINE"]
          /\ socket_fd' = [socket_fd EXCEPT ![u] = c]
          /\ source' = [source EXCEPT ![c] = u]
          /\ server_connection_status' =
               [server_connection_status EXCEPT ![c] = "ONLINE"]
          /\ Send(To(c, [type |-> "RG_ACK", source |-> u]))
       \/ /\ Cardinality(database) >= MAX_USER_COUNT \/ u \in database
          /\ Send(To(c, [type |-> "RG_NAK"]))
          /\ UNCHANGED <<database, status, socket_fd, source,
                         server_connection_status>>
  /\ Receive(c)
  /\ UNCHANGED <<in_session, session_id, role, mutexes, pc, peer, server>>

-----------------------------------------------------------------------------
(* Sessions.                                                               *)

\* NEW_SESS: server_side_session_create.
SessionCreate(c) ==
  /\ Receiving(c, "NEW_SESS") /\ Known(c)
  /\ user_list_mutex = Free /\ rw_mutex = Free
  /\ LET u == source[c]
         s == Head(inbox[c]).data IN
       \/ /\ Members(s) = {}
          /\ session_id' = [session_id EXCEPT ![u] = s]
          /\ in_session' = [in_session EXCEPT ![u] = "ONLINE"]
          /\ role' = [role EXCEPT ![u] = "ADMIN"]
          /\ Send(To(socket_fd[u], [type |-> "NS_ACK"]))
       \/ /\ Members(s) # {}
          /\ Send(To(socket_fd[u], [type |-> "NEW_SESS"]))
          /\ UNCHANGED <<session_id, in_session, role>>
  /\ Receive(c)
  /\ UNCHANGED <<database, status, socket_fd, mutexes, thread, peer, server>>

\* (defect) the test for a full session forgotten
CanJoin_Full(u, s) == in_session[u] = "OFFLINE" /\ Members(s) # {}

\* The tests of server_side_session_join that a joining user must pass.
CanJoin(u, s) ==
  /\ in_session[u] = "OFFLINE"
  /\ Cardinality(Members(s)) \notin {0, MAX_SESSION_USER}

\* JOIN: server_side_session_join.  The role of the user is not touched.
SessionJoin(c) ==
  /\ Receiving(c, "JOIN") /\ Known(c)
  /\ user_list_mutex = Free /\ rw_mutex = Free
  /\ LET u == source[c]
         s == Head(inbox[c]).data IN
       \/ /\ CanJoin(u, s)
          /\ session_id' = [session_id EXCEPT ![u] = s]
          /\ in_session' = [in_session EXCEPT ![u] = "ONLINE"]
          /\ Send(To(socket_fd[u], [type |-> "JN_ACK"]))
       \/ /\ ~ CanJoin(u, s)
          /\ Send(To(socket_fd[u], [type |-> "JN_NAK"]))
          /\ UNCHANGED <<session_id, in_session>>
  /\ Receive(c)
  /\ UNCHANGED <<database, status, role, socket_fd, mutexes, thread, peer,
                 server>>

ClearMembership_Name(u) ==    \* (defect) only the flag is reset
  in_session' = [in_session EXCEPT ![u] = "OFFLINE"] /\ UNCHANGED session_id
ClearMembership_Flag(u) ==    \* (defect) only the name is reset
  session_id' = [session_id EXCEPT ![u] = NotInSession] /\ UNCHANGED in_session
\* (defect) the name is erased, and NOT_IN_SESSION not written
ClearMembership_Erased(u) ==
  /\ in_session' = [in_session EXCEPT ![u] = "OFFLINE"]
  /\ session_id' = [session_id EXCEPT ![u] = ""]

\* The entry of u records no session (the kick, and user_exit_current_session).
ClearMembership(u) ==
  /\ in_session' = [in_session EXCEPT ![u] = "OFFLINE"]
  /\ session_id' = [session_id EXCEPT ![u] = NotInSession]

\* (defects) all roles of the session are reset; the user who stays alone is
\* forgotten
RolesWithout_All(u) ==
  [v \in User |-> IF v \in Members(session_id[u]) THEN "USER" ELSE role[v]]
RolesWithout_Alone(u) == [role EXCEPT ![u] = "USER"]

\* The roles after u has left: user_exit_current_session makes u a USER and,
\* when one user remains in the session, that user its ADMIN.
RolesWithout(u) ==
  LET remaining == Members(session_id[u]) \ {u} IN
    [v \in User |->
       CASE v = u -> "USER"
         [] v # u /\ remaining = {v} -> "ADMIN"
         [] OTHER -> role[v]]

\* server_side_session_leave(source): without a session it returns with
\* user_list_mutex held; otherwise it runs user_exit_current_session and
\* tells every ADMIN of the server.  user_exit_current_session returns with
\* rw_mutex held when the entry holds no session name.
LeaveBody(c) ==
  /\ Known(c) /\ user_list_mutex = Free
  /\ LET u == source[c] IN
       \/ /\ in_session[u] = "OFFLINE"
          /\ user_list_mutex' = c
          /\ UNCHANGED <<in_session, session_id, role, rw_mutex, outbox>>
       \/ /\ in_session[u] = "ONLINE" /\ rw_mutex = Free
          /\ IF session_id[u] = NotInSession
               THEN /\ rw_mutex' = c
                    /\ UNCHANGED <<in_session, session_id, role>>
               ELSE /\ ClearMembership(u)
                    /\ role' = RolesWithout(u)
                    /\ UNCHANGED rw_mutex
          /\ Send(ToAll({v \in database : role'[v] = "ADMIN"},
                        [type |-> "PM_MESSAGE"]))
          /\ UNCHANGED user_list_mutex
  /\ UNCHANGED <<database, status, socket_fd, source,
                 server_connection_status, peer, server>>

\* LEAVE_SESS.
SessionLeave(c) ==
  /\ Receiving(c, "LEAVE_SESS")
  /\ LeaveBody(c)
  /\ Receive(c)
  /\ UNCHANGED pc

-----------------------------------------------------------------------------
(* Kick and promote.  Only the target is tested, never the sender's role.  *)

\* (defects) the test for another session, or for an ADMIN, forgotten
Reachable_Anywhere(target, sender) ==
  /\ target \in database
  /\ status[target] = "ONLINE" /\ in_session[target] = "ONLINE"
  /\ role[target] # "ADMIN"
Reachable_Admin(target, sender) ==
  /\ target \in database
  /\ status[target] = "ONLINE" /\ in_session[target] = "ONLINE"
  /\ session_id[target] = session_id[sender]
Reachable(target, sender) ==
  /\ target \in database
  /\ status[target] = "ONLINE" /\ in_session[target] = "ONLINE"
  /\ session_id[target] = session_id[sender]
  /\ role[target] # "ADMIN"

\* KICK: server_side_kick_user.
KickUser(c) ==
  /\ Receiving(c, "KICK") /\ Known(c) /\ user_list_mutex = Free
  /\ LET sender == source[c]
         target == Head(inbox[c]).data IN
       \/ /\ Reachable(target, sender)
          /\ ClearMembership(target)
          /\ Send(Then(To(socket_fd[target], [type |-> "KI_MESSAGE"]),
                       To(socket_fd[sender], [type |-> "KI_ACK"])))
       \/ /\ ~ Reachable(target, sender)
          /\ Send(To(socket_fd[sender], [type |-> "KI_NAK"]))
          /\ UNCHANGED <<in_session, session_id>>
  /\ Receive(c)
  /\ UNCHANGED <<database, status, role, socket_fd, mutexes, thread, peer,
                 server>>

\* PROMOTE: server_side_promote_user.  The sender is set to USER last.
PromoteUser(c) ==
  /\ Receiving(c, "PROMOTE") /\ Known(c) /\ user_list_mutex = Free
  /\ LET sender == source[c]
         target == Head(inbox[c]).data IN
       \/ /\ Reachable(target, sender)
          /\ role' = [role EXCEPT ![target] = "ADMIN", ![sender] = "USER"]
          /\ Send(Then(To(socket_fd[target], [type |-> "PM_MESSAGE"]),
                       To(socket_fd[sender], [type |-> "PM_ACK"])))
       \/ /\ ~ Reachable(target, sender)
          /\ Send(To(socket_fd[sender], [type |-> "PM_NAK"]))
          /\ UNCHANGED role
  /\ Receive(c)
  /\ UNCHANGED <<database, status, in_session, session_id, socket_fd,
                 mutexes, thread, peer, server>>

-----------------------------------------------------------------------------
(* Group messages and the two lists.                                       *)

\* MESSAGE: to the online users of the session the named user is in.
GroupMessage(c) ==
  /\ Receiving(c, "MESSAGE") /\ user_list_mutex = Free
  /\ LET m == Head(inbox[c]) IN
       Send(ToAll({v \in database : /\ status[v] = "ONLINE"
                                    /\ in_session[v] = "ONLINE"
                                    /\ session_id[v] = session_id[m.source]},
                  [type |-> "MESSAGE", source |-> m.source]))
  /\ Receive(c)
  /\ UNCHANGED <<entry, mutexes, thread, peer, server>>

\* QUERY: the list is read under rw_mutex alone.
QueryUsers(c) ==
  /\ Receiving(c, "QUERY") /\ rw_mutex = Free
  /\ Send(To(c, [type |-> "QU_ACK"]))
  /\ Receive(c)
  /\ UNCHANGED <<entry, mutexes, thread, peer, server>>

\* SESS_QUERY: refused when the session has no user.
QuerySession(c) ==
  /\ Receiving(c, "SESS_QUERY") /\ rw_mutex = Free
  /\ LET answer == IF Members(Head(inbox[c]).data) = {} THEN "SQ_NAK"
                                                        ELSE "SQ_ACK" IN
       Send(To(c, [type |-> answer]))
  /\ Receive(c)
  /\ UNCHANGED <<entry, mutexes, thread, peer, server>>

-----------------------------------------------------------------------------
(* The end of a connection: server_side_user_exit in up to three steps.    *)

\* (defects) the thread ends without the exit, or reads on after it
StartExit_Skipped(c) == pc' = [pc EXCEPT ![c] = "closed"]
StartExit_Continues(c) == UNCHANGED pc

\* The unlocked test of in_session decides whether the session is left.
StartExit(c) ==
  pc' = [pc EXCEPT ![c] =
           IF in_session[source[c]] = "ONLINE" THEN "leave" ELSE "offline"]

\* EXIT, whether or not this connection has logged in.
RecvExit(c) ==
  /\ Receiving(c, "EXIT") /\ Known(c)
  /\ StartExit(c)
  /\ Receive(c)
  /\ UNCHANGED <<entry, mutexes, source, server_connection_status, outbox,
                 peer, server>>

\* recv() reports that the client is gone, by end of file or by an error.
Disconnect(c) ==
  /\ server = "up" /\ pc[c] = "recv"
  /\ inbox[c] = <<>> /\ peer[c] = "closed"
  /\ \/ server_connection_status[c] = "ONLINE" /\ Known(c) /\ StartExit(c)
     \/ /\ server_connection_status[c] = "OFFLINE"
        /\ pc' = [pc EXCEPT ![c] = "closed"]
  /\ UNCHANGED <<entry, mutexes, source, server_connection_status, inbox,
                 outbox, peer, server>>

ExitLeave(c) ==
  /\ server = "up" /\ pc[c] = "leave"
  /\ LeaveBody(c)
  /\ pc' = [pc EXCEPT ![c] = "offline"]
  /\ UNCHANGED inbox

\* The entry is reset under the mutex; then the thread closes the socket.
ExitOffline(c) ==
  /\ server = "up" /\ pc[c] = "offline" /\ user_list_mutex = Free
  /\ status' = [status EXCEPT ![source[c]] = "OFFLINE"]
  /\ socket_fd' = [socket_fd EXCEPT ![source[c]] = NoSocket]
  /\ pc' = [pc EXCEPT ![c] = "closed"]
  /\ inbox' = [inbox EXCEPT ![c] = <<>>]
  /\ UNCHANGED <<database, in_session, session_id, role, mutexes, source,
                 server_connection_status, outbox, peer, server>>

-----------------------------------------------------------------------------
(* The process: crash and normal end.                                      *)

\* A handler that looks up a source with no entry dereferences NULL.
UnknownSourceCrash(c) ==
  /\ \/ \E t \in {"NEW_SESS", "JOIN", "LEAVE_SESS", "KICK", "PROMOTE"} :
          Receiving(c, t) /\ user_list_mutex = Free
     \/ Receiving(c, "EXIT")
  /\ ~ Known(c)
  /\ server' = "crashed"
  /\ UNCHANGED <<entry, mutexes, thread, inbox, outbox, peer>>

\* main: with its THREAD_CAPACITY connections used up, the server waits for
\* all threads, frees the table under user_list_mutex and ends.
MainExit ==
  /\ server = "up" /\ \A c \in Conn : pc[c] = "closed"
  /\ user_list_mutex = Free
  /\ server' = "exited"
  /\ UNCHANGED <<entry, mutexes, thread, inbox, outbox, peer>>

\* One step of the thread that serves c.
Handler(c) ==
  \/ VerifyLogin(c) \/ UserLogin(c) \/ UserRegistration(c)
  \/ SessionCreate(c) \/ SessionJoin(c) \/ SessionLeave(c)
  \/ KickUser(c) \/ PromoteUser(c)
  \/ GroupMessage(c) \/ QueryUsers(c) \/ QuerySession(c)
  \/ RecvExit(c) \/ Disconnect(c) \/ ExitLeave(c) \/ ExitOffline(c)
  \/ UnknownSourceCrash(c)

-----------------------------------------------------------------------------
(* The environment: any client program that opens each connection with a   *)
(* LOGIN or CREATE and sends neither later, as client.c does.              *)

\* Messages sent and not yet taken by their receiver.
InFlight == MapThenSumSet(LAMBDA c : Len(inbox[c]) + Len(outbox[c]), Conn)

\* accept() and pthread_create.  The new thread's source buffer is whatever
\* its stack holds, possibly the name an ended thread has left there.
Accept(c, m) ==
  /\ server = "up" /\ pc[c] = "none"
  /\ \A d \in 1..(c - 1) : pc[d] # "none"
  /\ pc' = [pc EXCEPT ![c] = "recv"]
  /\ \E garbage \in {NoUser} \cup {source[d] : d \in {e \in Conn : pc[e] = "closed"}} :
       source' = [source EXCEPT ![c] = garbage]
  /\ inbox' = [inbox EXCEPT ![c] = <<m>>]
  /\ peer' = [peer EXCEPT ![c] = "open"]
  /\ UNCHANGED <<entry, mutexes, server_connection_status, outbox, server>>

\* A client sends a request; with a MESSAGE goes the name that the server has
\* acknowledged to it earlier, which is the name of an entry.
ClientSend(c, m) ==
  /\ server = "up" /\ peer[c] = "open" /\ pc[c] # "closed"
  /\ InFlight < MaxInFlight
  /\ m.type = "MESSAGE" => m.source \in database
  /\ inbox' = [inbox EXCEPT ![c] = Append(inbox[c], m)]
  /\ UNCHANGED <<entry, mutexes, thread, outbox, peer, server>>

\* A client reads a reply, or several at once.
ClientRead(c) ==
  /\ peer[c] = "open" /\ outbox[c] # <<>>
  /\ \E n \in 1..(IF Coalesce THEN Len(outbox[c]) ELSE 1) :
       outbox' = [outbox EXCEPT ![c] = SubSeq(outbox[c], n + 1, Len(outbox[c]))]
  /\ UNCHANGED <<entry, mutexes, thread, inbox, peer, server>>

Environment(c) ==
  \/ \E m \in Greeting \cap Traffic : Accept(c, m)
  \/ \E m \in Request \cap Traffic : ClientSend(c, m)
  \/ ClientRead(c)

\* A client closes a socket, or ends, and all its sockets are closed.
ClientClose(D) ==
  /\ D # {}
  /\ peer' = [c \in Conn |-> IF c \in D THEN "closed" ELSE peer[c]]
  /\ outbox' = [c \in Conn |-> IF c \in D THEN <<>> ELSE outbox[c]]
  /\ UNCHANGED <<entry, mutexes, thread, inbox, server>>

Next ==
  \/ MainExit
  \/ \E c \in Conn : Handler(c) \/ Environment(c)
  \/ \E D \in SUBSET {c \in Conn : peer[c] = "open"} : ClientClose(D)

Spec == Init /\ [][Next]_vars

-----------------------------------------------------------------------------
(* Properties.                                                             *)

\* The two records of a user's membership agree: in_session is ONLINE exactly
\* when session_id names a session (create, join, kick and leave set both).
MembershipAgrees ==
  \A u \in User : in_session[u] = "ONLINE" <=> session_id[u] # NotInSession

\* rw_mutex is never left locked: the return of user_exit_current_session
\* that keeps it (user.c:249) is never taken.
RwMutexReleased == rw_mutex = Free

\* No interleaving of joins, creates, kicks and leaves puts more than
\* MAX_SESSION_USER users in one session (the join tests for equality).
SessionNotOverfull ==
  \A s \in Session : Cardinality(Members(s)) <= MAX_SESSION_USER

\* Only a user who is in a session has the ADMIN role: no order of promotions,
\* kicks, leaves and exits lets a user keep it outside (the join would bring
\* it into the next session, as server_side_session_join sets no role).
AdminInSession ==
  \A u \in User : role[u] = "ADMIN" => in_session[u] = "ONLINE"

\* The socket stored for an online user belongs to a running thread that
\* serves this user, so that a reply or a group message is never sent to a
\* closed descriptor or to somebody else.
OnlineSocketServed ==
  \A u \in User : status[u] = "ONLINE" =>
    \E c \in Conn :
      /\ socket_fd[u] = c /\ source[c] = u
      /\ server_connection_status[c] = "ONLINE"
      /\ pc[c] \in {"recv", "leave", "offline"}

\* An ADMIN becomes a USER only by a step of a thread that serves this very
\* user: nobody else's promotion, kick, leave or exit takes the role away.
AdminGivesUpRole ==
  [][\A u \in User : role[u] = "ADMIN" /\ role'[u] = "USER" =>
       \E c \in Conn : /\ source[c] = u
                       /\ inbox'[c] # inbox[c] \/ pc'[c] # pc[c]]_vars

\* A user is removed from a session only by a thread serving the user or by
\* a kick from a user who is in that very session at that moment.
RemovalIsLocal ==
  [][\A u \in User :
       in_session[u] = "ONLINE" /\ in_session'[u] = "OFFLINE" =>
         \E c \in Conn :
           /\ inbox'[c] # inbox[c] \/ pc'[c] # pc[c]
           /\ source[c] \in Members(session_id[u])]_vars

\* Every handler, however its steps interleave with those of other threads,
\* acts on the sessions as one indivisible step of ConferenceRooms or not at
\* all; a join in particular finds a place free, not merely a count other
\* than MAX_SESSION_USER, and a leave never acts on half of a membership.
Rooms == INSTANCE ConferenceRooms
           WITH online <- {u \in User : status[u] = "ONLINE"},
                room   <- session_id,
                admins <- {u \in User : role[u] = "ADMIN"}
ImplementsRooms == Rooms!RoomsSpec

=============================================================================
