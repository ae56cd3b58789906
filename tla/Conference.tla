----------------------------- MODULE Conference -----------------------------
(***************************************************************************)
(* The text-conferencing system: the server of ConferenceServer with the   *)
(* client programs of ConferenceClient in the place of its open            *)
(* environment.  The property Spec, checked of this composition, says that *)
(* client.c keeps to what ConferenceServer assumes of its clients.         *)
(***************************************************************************)
EXTENDS ConferenceServer

CONSTANTS
  Client, NoClient,  \* client processes, and none of them
  Account,         \* what the user of each process may log in or register with
  thread_number,   \* see ConferenceClient
  Typed,           \* the requests that users type in this model
  Hasty            \* those they type before their last command is settled

VARIABLES
  main, socket_file_dscriptor, name, client_connection_status,
  verified_access, session_status, client_role, termination_signal,
  client_thread, handler, owner, server_reply_socket

C == INSTANCE ConferenceClient
       WITH server_connection_status <- client_connection_status,
            role <- client_role,
            thread <- client_thread,
            served <- {c \in Conn : server = "up" /\ pc[c] # "closed"}

ASSUME ConferenceAssumption ==
  /\ NoClient \notin Client /\ thread_number \in Nat \ {0}
  /\ Account \in [Client -> SUBSET Greeting]
  /\ Typed \subseteq {"JOIN", "NEW_SESS", "SESS_QUERY", "KICK", "PROMOTE",
                      "MESSAGE", "LEAVE_SESS", "QUERY", "LOGIN", "CREATE",
                      "logout", "quit", "unreachable", "SIGINT"}
  /\ Hasty \subseteq Typed

clientVars ==
  <<main, socket_file_dscriptor, name, client_connection_status,
    verified_access, session_status, client_role, termination_signal,
    client_thread, handler, owner, server_reply_socket>>
allVars == <<vars, clientVars>>

SystemInit == Init /\ C!ClientInit

-----------------------------------------------------------------------------
(* The composition.                                                        *)

\* Nothing the process has asked for is under way: every request is handled
\* and every reply read, and its threads wait in recv() or have ended.
Settled(p) ==
  \A c \in C!Handlers(p) :
    /\ inbox[c] = <<>> /\ outbox[c] = <<>>
    /\ \/ pc[c] = "recv" /\ handler[c] = "recv"
       \/ pc[c] = "closed" /\ (handler[c] = "stopped" \/ C!Gone(p))

MayType(p, t) == t \in Typed /\ (t \in Hasty \/ Settled(p))

Room == InFlight < MaxInFlight

ServerUnchanged == UNCHANGED <<entry, mutexes, thread, server>>

Types(p) ==
  \/ \E c \in Conn, m \in Account[p] :
       /\ MayType(p, m.type)
       /\ C!Connect(p, c, m) /\ Accept(c, m)
  \/ \E m \in Request :
       /\ MayType(p, m.type) /\ Room
       /\ C!Command(p, m) /\ ServerUnchanged
  \/ MayType(p, "LEAVE_SESS") /\ Room /\ C!Leave(p) /\ ServerUnchanged
  \/ MayType(p, "logout") /\ Room /\ C!Logout(p) /\ ServerUnchanged
  \/ MayType(p, "quit") /\ Room /\ C!Quit(p) /\ ServerUnchanged
  \/ MayType(p, "unreachable") /\ C!FailedConnect(p) /\ ServerUnchanged
  \/ MayType(p, "SIGINT") /\ Room /\ C!Interrupt(p) /\ ServerUnchanged

\* What a main thread does without waiting for its user.
Proceeds(p) ==
  \/ Room /\ (C!EndLogout(p) \/ C!OutOfThreads(p)) /\ ServerUnchanged
  \/ C!JoinHandlers(p) /\ ServerUnchanged

Receives(c) == C!Receiver(c) /\ ServerUnchanged

Serves(c) == Handler(c) /\ UNCHANGED clientVars

SystemNext ==
  \/ MainExit /\ UNCHANGED clientVars
  \/ \E c \in Conn : Serves(c) \/ Receives(c)
  \/ \E p \in Client : Types(p) \/ Proceeds(p)

SystemSpec == SystemInit /\ [][SystemNext]_allVars

\* Of the messages that one recv() returns the first is read and the others are
\* lost.  Here none of them is anything but a line of chat.
LosesChat(q, r) == \A i \in 2..(Len(q) - Len(r)) : q[i].type = "MESSAGE"
OnlyChatLost ==
  \A c \in Conn :
    /\ LosesChat(inbox[c], inbox'[c])
    /\ peer'[c] = "open" => LosesChat(outbox[c], outbox'[c])

ChatLossSpec == SystemInit /\ [][SystemNext /\ OnlyChatLost]_allVars

\* Threads are scheduled and deliver what they have been sent; users may
\* stop typing at any time.
Fairness ==
  /\ \A c \in Conn : WF_allVars(Serves(c)) /\ WF_allVars(Receives(c))
  /\ \A p \in Client : WF_allVars(Proceeds(p))

FairSpec == SystemSpec /\ Fairness

-----------------------------------------------------------------------------
(* Properties.                                                             *)

\* The flags and threads of the clients keep their types.
ClientTypes == C!ClientTypeOK

\* A handler thread finds its socket through a pointer to the variable that the
\* main thread overwrites at the next login, and ends when it sees flags that
\* the next login raises again.  Even so, a thread that reads replies reads the
\* connection it was created for, the one its process sends on; so a running
\* process never has two such threads while the server is up.
ReadsItsSocket ==
  server = "up" => \A p \in Client : \A h \in C!Handlers(p) :
    ~ C!Gone(p) /\ handler[h] \in {"test", "recv"} =>
      server_reply_socket[h] = h /\ socket_file_dscriptor[p] = h

Quiet == \A p \in Client : (main[p] = "command" \/ C!Gone(p)) /\ Settled(p)

LoggedIn(p) == main[p] = "command" /\ verified_access[p] = "ON"

\* When nothing is under way, what each process shows its user agrees with
\* the server's entry: logged in, in a session or not, ADMIN or USER of it.
FlagsAgree ==
  Quiet => \A p \in Client :
    LoggedIn(p) =>
      LET u == name[p] IN
        /\ client_connection_status[p] = "ONLINE"
        /\ status[u] = "ONLINE" /\ socket_fd[u] = socket_file_dscriptor[p]
        /\ session_status[p] = in_session[u]
        /\ in_session[u] = "ONLINE" => client_role[p] = role[u]

\* A user the server counts as online is logged in on some client that runs.
NoGhostUsers ==
  Quiet => \A u \in User : status[u] = "ONLINE" =>
    \E p \in Client : LoggedIn(p) /\ name[p] = u

\* A session never has two ADMINs: a promotion moves the role.
OneAdmin ==
  \A u, v \in database :
    (/\ role[u] = "ADMIN" /\ role[v] = "ADMIN"
     /\ session_id[u] = session_id[v])
    => u = v

\* Who is alone in a session is its ADMIN.
SoleMemberIsAdmin ==
  \A u \in database :
    session_id[u] # NotInSession /\ Members(session_id[u]) = {u} =>
      role[u] = "ADMIN"

\* The one request that reaches a thread without a user, where the handlers use
\* the NULL result of database_search_user and bring the server down, is the
\* EXIT of a process that had to end before its last login was refused.
NoNullDereference ==
  server = "crashed" =>
    \E p \in Client : \E c \in C!Handlers(p) :
      /\ main[p] \in {"joining", "ended", "crashed"}
      /\ inbox[c] # <<>> /\ Head(inbox[c]).type = "EXIT"

\* No handler returns with user_list_mutex held.
UserListMutexReleased == user_list_mutex = Free

\* Only an ADMIN of the session removes another user from it or appoints an
\* ADMIN.
AdminActs ==
  [][\A c \in Conn :
       (\/ KickUser(c) /\ in_session' # in_session
        \/ PromoteUser(c) /\ role' # role)
       => role[source[c]] = "ADMIN"]_allVars

\* A user who is in a session stays in it until leaving or being kicked: no
\* request moves a user from one session to another.
NoSilentMove ==
  [][\A u \in User :
       session_id[u] # NotInSession /\ session_id'[u] # NotInSession =>
         session_id'[u] = session_id[u]]_allVars

\* As long as users wait for answers, each step of the whole system is one of
\* ModeratedRooms or changes nothing of it: what the server does not test
\* (who kicks and promotes, who creates a session while in another, who
\* logs in twice) the clients do not ask for, however late they learn of a
\* kick or a promotion.
Moderated == INSTANCE ModeratedRooms
               WITH online <- {u \in User : status[u] = "ONLINE"},
                    room   <- session_id,
                    admins <- {u \in User : role[u] = "ADMIN"}
ImplementsModerated == Moderated!ModeratedSpec

\* An account is logged in on one process at a time.
LoggedInOnce ==
  \A p, q \in Client :
    verified_access[p] = "ON" /\ verified_access[q] = "ON" /\ name[p] = name[q]
    => p = q

\* /quit, SIGINT and the forced end of a process that has used up its threads
\* always end it: EXIT reaches the server, which closes the connection, which
\* ends the handler thread that the main thread joins.  Only a process that has
\* counted a thread it never created crashes there instead.
QuitEnds ==
  \A p \in Client :
    (main[p] \in {"quit", "joining"}) ~>
      \/ main[p] = "ended"
      \/ main[p] = "crashed" /\ \E i \in DOMAIN client_thread[p] :
                                   client_thread[p][i] = C!NoThread

\* Every login or registration is answered, and every request handled, while
\* the server has not crashed.
Answered ==
  \A c \in Conn : (inbox[c] # <<>>) ~> (inbox[c] = <<>> \/ server = "crashed")

=============================================================================
