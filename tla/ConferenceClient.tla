-------------------------- MODULE ConferenceClient --------------------------
(***************************************************************************)
(* The text-conferencing client, client/client.c: for each client process  *)
(* a main thread that turns the user's commands into requests, and one     *)
(* server_message_handler thread for each connection the process has       *)
(* opened.  The threads share the status flags and no mutex protects them. *)
(***************************************************************************)
EXTENDS Naturals, Sequences

CONSTANTS
  Client,          \* client processes
  NoClient,        \* the process of a handler thread that does not exist yet
  Conn,            \* connections; a handler thread is named by the connection
                   \*   that was being opened when it was created
  NoUser,          \* the content of name before the first acknowledgement
  thread_number,   \* threads a process counts before it terminates
  Coalesce         \* whether one recv() may return several messages

NoSocket == 0      \* no descriptor, or one that was closed at once
NoThread == 0      \* an entry of thread[] that no pthread_create() has set

VARIABLES
  \* main thread: waiting for a command, before the EXIT of a logout or of a
  \* quit, joining the handlers, or gone, by exit or by a crash
  main,
  \* the flags of client.c, one of each per process
  socket_file_dscriptor, name, server_connection_status, verified_access,
  session_status, role, termination_signal,
  \* the first thread_count entries of thread[] in each process
  thread,
  \* the handler threads: position, process and captured socket of each
  handler, owner, server_reply_socket,
  \* the connections, shared with the server, and those of them the server
  \* still has open
  inbox, outbox, peer, served

flags    == <<socket_file_dscriptor, name, server_connection_status,
              verified_access, session_status, role, termination_signal>>
handlers == <<thread, handler, owner, server_reply_socket>>
channels == <<inbox, outbox, peer>>
clientVars == <<main, flags, handlers>>

ClientTypeOK ==
  /\ main \in [Client -> {"command", "logout", "quit", "joining", "ended", "crashed"}]
  /\ thread \in [Client -> Seq(Conn \cup {NoThread})]
  /\ socket_file_dscriptor \in [Client -> Conn \cup {NoSocket}]
  /\ server_connection_status \in [Client -> {"ONLINE", "OFFLINE"}]
  /\ verified_access \in [Client -> {"ON", "OFF"}]
  /\ session_status \in [Client -> {"ONLINE", "OFFLINE"}]
  /\ role \in [Client -> {"USER", "ADMIN"}]
  /\ termination_signal \in [Client -> {"ON", "OFF"}]
  /\ DOMAIN name = Client
  /\ handler \in [Conn -> {"none", "start", "test", "recv", "stopped"}]
  /\ server_reply_socket \in [Conn -> Conn \cup {NoSocket}]
  /\ owner \in [Conn -> Client \cup {NoClient}]

ClientInit ==
  /\ main = [p \in Client |-> "command"]
  /\ socket_file_dscriptor = [p \in Client |-> NoSocket]
  /\ name = [p \in Client |-> NoUser]
  /\ server_connection_status = [p \in Client |-> "OFFLINE"]
  /\ verified_access = [p \in Client |-> "OFF"]
  /\ session_status = [p \in Client |-> "OFFLINE"]
  /\ role = [p \in Client |-> "USER"]
  /\ termination_signal = [p \in Client |-> "OFF"]
  /\ thread = [p \in Client |-> <<>>]
  /\ handler = [c \in Conn |-> "none"]
  /\ owner = [c \in Conn |-> NoClient]
  /\ server_reply_socket = [c \in Conn |-> NoSocket]

Handlers(p) == {c \in Conn : owner[c] = p}
thread_count(p) == Len(thread[p])
Gone(p) == main[p] \in {"ended", "crashed"}

\* (defect) what has not been received yet is overwritten
SendTo_Slot(c, m) ==
  inbox' = IF c \in served /\ peer[c] = "open"
             THEN [inbox EXCEPT ![c] = <<m>>] ELSE inbox

\* send() on a socket; what is sent after either end is closed is lost.
SendTo(c, m) ==
  inbox' = IF c \in served /\ peer[c] = "open"
             THEN [inbox EXCEPT ![c] = Append(@, m)] ELSE inbox

-----------------------------------------------------------------------------
(* The main thread: one action per command, with the tests main makes      *)
(* before it calls the command's function and those of the function.       *)

\* main is about to read a command and has not used up its threads.
AtPrompt(p) ==
  main[p] = "command" /\ thread_count(p) < thread_number

\* login and user_registration: connect, raise the flag, start a handler
\* thread with a pointer to the global socket variable, send the request.
Connect(p, c, m) ==
  /\ AtPrompt(p) /\ verified_access[p] = "OFF"
  /\ owner[c] = NoClient
  /\ socket_file_dscriptor' = [socket_file_dscriptor EXCEPT ![p] = c]
  /\ server_connection_status' =
       [server_connection_status EXCEPT ![p] = "ONLINE"]
  /\ thread' = [thread EXCEPT ![p] = Append(@, c)]
  /\ handler' = [handler EXCEPT ![c] = "start"]
  /\ owner' = [owner EXCEPT ![c] = p]
  /\ peer' = [peer EXCEPT ![c] = "open"]
  /\ inbox' = [inbox EXCEPT ![c] = <<m>>]
  /\ UNCHANGED <<main, name, verified_access, session_status, role,
                 termination_signal, server_reply_socket, outbox>>

\* The process is gone, and the kernel closes its sockets.
End(p, how) ==
  /\ main' = [main EXCEPT ![p] = how]
  /\ peer' = [c \in Conn |-> IF owner[c] = p THEN "closed" ELSE peer[c]]
  /\ outbox' = [c \in Conn |-> IF owner[c] = p THEN <<>> ELSE outbox[c]]
  /\ UNCHANGED <<flags, handlers, inbox>>

\* A login or a registration that opens no connection is counted all the same:
\* the name or the password is too long, the address is refused (which frees a
\* pointer that was never set), or no connect() succeeds, which leaves the
\* global variable with a descriptor that was closed.
FailedConnect(p) ==
  /\ AtPrompt(p) /\ verified_access[p] = "OFF"
  /\ \/ /\ thread' = [thread EXCEPT ![p] = Append(@, NoThread)]
        /\ socket_file_dscriptor' \in
             {socket_file_dscriptor, [socket_file_dscriptor EXCEPT ![p] = NoSocket]}
        /\ UNCHANGED <<main, name, server_connection_status, verified_access,
                       session_status, role, termination_signal, handler, owner,
                       server_reply_socket, channels>>
     \/ End(p, "crashed")

\* (defects) a test of the flags forgotten: the role before a kick or a
\* promotion, or session_status before a new session or before a leave
Allowed_AnyRole(p, m) ==
  /\ server_connection_status[p] = "ONLINE"
  /\ m.type \in {"JOIN", "NEW_SESS"} => session_status[p] = "OFFLINE"
  /\ m.type \in {"LEAVE_SESS", "KICK", "PROMOTE"} => session_status[p] = "ONLINE"
Allowed_NewSession(p, m) ==
  /\ server_connection_status[p] = "ONLINE"
  /\ m.type = "JOIN" => session_status[p] = "OFFLINE"
  /\ m.type \in {"LEAVE_SESS", "PROMOTE"} => session_status[p] = "ONLINE"
Allowed_Leave(p, m) ==
  /\ server_connection_status[p] = "ONLINE"
  /\ m.type \in {"JOIN", "NEW_SESS"} => session_status[p] = "OFFLINE"
  /\ m.type = "PROMOTE" => session_status[p] = "ONLINE" /\ role[p] = "ADMIN"

\* The tests of main and of each command's function.
Allowed(p, m) ==
  /\ server_connection_status[p] = "ONLINE"
  /\ m.type \in {"JOIN", "NEW_SESS"} => session_status[p] = "OFFLINE"
  /\ m.type = "LEAVE_SESS" => session_status[p] = "ONLINE"
  /\ m.type = "MESSAGE" => session_status[p] = "ONLINE" /\ m.source = name[p]
  /\ m.type \in {"KICK", "PROMOTE"} =>
       /\ session_status[p] = "ONLINE" /\ role[p] = "ADMIN"
       /\ m.data # name[p]

\* join_session, create_session, list, user_list, kick, promote and a line
\* of text: requests that leave the flags to the reply.
Command(p, m) ==
  /\ AtPrompt(p) /\ Allowed(p, m)
  /\ m.type \in {"JOIN", "NEW_SESS", "QUERY", "SESS_QUERY", "KICK", "PROMOTE",
                 "MESSAGE"}
  /\ SendTo(socket_file_dscriptor[p], m)
  /\ UNCHANGED <<clientVars, outbox, peer>>

\* leave_session on a process that is in a session.
LeaveSession(p) ==
  /\ session_status' = [session_status EXCEPT ![p] = "OFFLINE"]
  /\ role' = [role EXCEPT ![p] = "USER"]
  /\ SendTo(socket_file_dscriptor[p], [type |-> "LEAVE_SESS"])

\* /leavesession: the flags are reset before the server has answered.
Leave(p) ==
  /\ AtPrompt(p) /\ Allowed(p, [type |-> "LEAVE_SESS"])
  /\ LeaveSession(p)
  /\ UNCHANGED <<main, socket_file_dscriptor, name, server_connection_status,
                 verified_access, termination_signal, handlers, outbox, peer>>

\* (defect) the session is left whether the process is in one or not
BeginLogout_AlwaysLeaves(p, why) ==
  /\ server_connection_status[p] = "ONLINE"
  /\ main' = [main EXCEPT ![p] = why]
  /\ LeaveSession(p)
  /\ UNCHANGED <<socket_file_dscriptor, name, server_connection_status,
                 verified_access, termination_signal, handlers, outbox, peer>>

\* /logout, first part, also of the logout in terminate_program and in
\* sig_kill_handler: leave the session, if any.
BeginLogout(p, why) ==
  /\ server_connection_status[p] = "ONLINE"
  /\ main' = [main EXCEPT ![p] = why]
  /\ IF session_status[p] = "ONLINE" THEN LeaveSession(p)
                                     ELSE UNCHANGED <<session_status, role, inbox>>
  /\ UNCHANGED <<socket_file_dscriptor, name, server_connection_status,
                 verified_access, termination_signal, handlers, outbox, peer>>

Logout(p) == AtPrompt(p) /\ BeginLogout(p, "logout")

\* logout, second part: the flags, then EXIT.  terminate_program goes on to
\* raise termination_signal and to join the handler threads.
EndLogout(p) ==
  /\ main[p] \in {"logout", "quit"}
  /\ verified_access' = [verified_access EXCEPT ![p] = "OFF"]
  /\ server_connection_status' =
       [server_connection_status EXCEPT ![p] = "OFFLINE"]
  /\ SendTo(socket_file_dscriptor[p], [type |-> "EXIT"])
  /\ IF main[p] = "quit"
       THEN /\ main' = [main EXCEPT ![p] = "joining"]
            /\ termination_signal' = [termination_signal EXCEPT ![p] = "ON"]
       ELSE /\ main' = [main EXCEPT ![p] = "command"]
            /\ UNCHANGED termination_signal
  /\ UNCHANGED <<socket_file_dscriptor, name, session_status, role, handlers,
                 outbox, peer>>

\* terminate_program and sig_kill_handler up to the joins: a logout first, if
\* there is a connection.
Terminate(p) ==
  \/ BeginLogout(p, "quit")
  \/ /\ server_connection_status[p] = "OFFLINE"
     /\ main' = [main EXCEPT ![p] = "joining"]
     /\ termination_signal' = [termination_signal EXCEPT ![p] = "ON"]
     /\ UNCHANGED <<socket_file_dscriptor, name, server_connection_status,
                    verified_access, session_status, role, handlers, channels>>

\* /quit, and what main does instead of reading a command when it has counted
\* thread_number threads.
Quit(p)         == AtPrompt(p) /\ Terminate(p)
OutOfThreads(p) == main[p] = "command" /\ ~ AtPrompt(p) /\ Terminate(p)

\* pthread_join on the entries of thread[] one after the other, then the
\* process ends; an entry that was never set ends it before that.
JoinHandlers(p) ==
  LET unset == {i \in DOMAIN thread[p] : thread[p][i] = NoThread}
      joined == {i \in DOMAIN thread[p] : \A n \in unset : i < n} IN
  /\ main[p] = "joining"
  /\ \A i \in joined : handler[thread[p][i]] = "stopped"
  /\ End(p, IF unset = {} THEN "ended" ELSE "crashed")

\* SIGINT, handled in the main thread.  The second pthread_join on the thread
\* that main waits for returns at once, and what comes after it is exit().
Interrupt(p) ==
  \/ main[p] \in {"command", "logout", "quit"} /\ Terminate(p)
  \/ main[p] = "joining" /\ End(p, "ended")

-----------------------------------------------------------------------------
(* The handler threads.                                                    *)

\* close(server_reply_socket) and the end of thread h.  A descriptor that two
\* threads have captured is gone for both.
Stop(h, fd) ==
  /\ handler' = [handler EXCEPT ![h] = "stopped"]
  /\ peer' = [c \in Conn |-> IF c = fd THEN "closed" ELSE peer[c]]
  /\ outbox' = [c \in Conn |-> IF c = fd THEN <<>> ELSE outbox[c]]

\* The new thread reads its socket through the pointer, that is, the value
\* the global variable has by now.
HandlerStart(h) ==
  /\ handler[h] = "start"
  /\ server_reply_socket' =
       [server_reply_socket EXCEPT ![h] = socket_file_dscriptor[owner[h]]]
  /\ handler' = [handler EXCEPT ![h] = "test"]
  /\ UNCHANGED <<main, flags, thread, owner, channels>>

\* The conditions at the head of the loop.
HandlerTest(h) ==
  /\ handler[h] = "test"
  /\ IF /\ server_connection_status[owner[h]] = "ONLINE"
        /\ termination_signal[owner[h]] = "OFF"
       THEN /\ handler' = [handler EXCEPT ![h] = "recv"]
            /\ UNCHANGED <<outbox, peer>>
       ELSE Stop(h, server_reply_socket[h])
  /\ UNCHANGED <<main, flags, thread, owner, server_reply_socket, inbox>>

\* (defects) PM_ACK, or KI_MESSAGE, or a refused login not handled
NewRole_NoAck(m, r) ==
  CASE m.type \in {"JN_ACK", "JN_NAK"} -> "USER"
    [] m.type \in {"NS_ACK", "PM_MESSAGE"} -> "ADMIN"
    [] OTHER -> r
NewSessionStatus_Kicked(m, s) ==
  CASE m.type \in {"JN_ACK", "NS_ACK"} -> "ONLINE"
    [] m.type = "JN_NAK" -> "OFFLINE"
    [] OTHER -> s
Refuses_Login(m) == m.type = "RG_NAK"

\* The flags after a message.
NewRole(m, r) ==
  CASE m.type \in {"JN_ACK", "JN_NAK", "PM_ACK"} -> "USER"
    [] m.type \in {"NS_ACK", "PM_MESSAGE"} -> "ADMIN"
    [] OTHER -> r
NewSessionStatus(m, s) ==
  CASE m.type \in {"JN_ACK", "NS_ACK"} -> "ONLINE"
    [] m.type \in {"JN_NAK", "KI_MESSAGE"} -> "OFFLINE"
    [] OTHER -> s
Accepts(m) == m.type \in {"LO_ACK", "RG_ACK"}
Refuses(m) == m.type \in {"LO_NAK", "RG_NAK"}

\* One message from the server; after a refused login or registration the
\* thread drops the connection.
HandlerReceive(h) ==
  /\ handler[h] = "recv"
  /\ LET p == owner[h]
         fd == server_reply_socket[h] IN
       /\ fd \in Conn /\ peer[fd] = "open" /\ outbox[fd] # <<>>
       /\ LET m == Head(outbox[fd]) IN
            /\ role' = [role EXCEPT ![p] = NewRole(m, @)]
            /\ session_status' =
                 [session_status EXCEPT ![p] = NewSessionStatus(m, @)]
            /\ name' = [name EXCEPT ![p] = IF Accepts(m) THEN m.source ELSE @]
            /\ verified_access' =
                 [verified_access EXCEPT ![p] = IF Accepts(m) THEN "ON"
                                           ELSE IF Refuses(m) THEN "OFF" ELSE @]
            /\ \/ /\ Refuses(m)
                  /\ server_connection_status' =
                       [server_connection_status EXCEPT ![p] = "OFFLINE"]
                  /\ Stop(h, fd)
               \/ /\ ~ Refuses(m)
                  /\ handler' = [handler EXCEPT ![h] = "test"]
                  /\ \E n \in 1..(IF Coalesce THEN Len(outbox[fd]) ELSE 1) :
                       outbox' = [outbox EXCEPT
                                    ![fd] = SubSeq(@, n + 1, Len(@))]
                  /\ UNCHANGED <<server_connection_status, peer>>
  /\ UNCHANGED <<main, socket_file_dscriptor, termination_signal, thread, owner,
                 server_reply_socket, inbox>>

\* End of file or an error on a socket the server has closed: unless a logout
\* was going on, the thread itself calls logout (its requests reach nobody).
HandlerEof(h) ==
  /\ handler[h] = "recv"
  /\ LET p == owner[h]
         fd == server_reply_socket[h]
         lost == server_connection_status[p] = "ONLINE" IN
       /\ fd # NoSocket =>
            (fd \notin served \/ peer[fd] = "closed") /\ outbox[fd] = <<>>
       /\ verified_access' =
            [verified_access EXCEPT ![p] = IF lost THEN "OFF" ELSE @]
       /\ server_connection_status' =
            [server_connection_status EXCEPT ![p] = "OFFLINE"]
       /\ session_status' =
            [session_status EXCEPT ![p] = IF lost THEN "OFFLINE" ELSE @]
       /\ role' = [role EXCEPT ![p] =
                     IF lost /\ session_status[p] = "ONLINE" THEN "USER" ELSE @]
  /\ Stop(h, server_reply_socket[h])
  /\ UNCHANGED <<main, socket_file_dscriptor, name, termination_signal, thread,
                 owner, server_reply_socket, inbox>>

\* A thread runs as long as its process.
Receiver(h) ==
  /\ \E p \in Client : owner[h] = p /\ ~ Gone(p)
  /\ HandlerStart(h) \/ HandlerTest(h) \/ HandlerReceive(h) \/ HandlerEof(h)

=============================================================================
