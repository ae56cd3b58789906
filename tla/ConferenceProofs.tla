-------------------------- MODULE ConferenceProofs --------------------------
(***************************************************************************)
(* The client programs of Conference are clients as ConferenceServer       *)
(* assumes them, for any users, patient or hasty: what is proved about the *)
(* server with any clients holds in the composition.                       *)
(***************************************************************************)
EXTENDS Conference, ConferenceServerProofs

-----------------------------------------------------------------------------
(* The invariant of the composition.                                       *)

\* Every acknowledgement in r names a user of D.
Names(r, D) ==
  \A c \in Conn : \A i \in 1..Len(r[c]) : C!Accepts(r[c][i]) => r[c][i].source \in D

\* A client knows no name but one that has an entry, so that the server can
\* look up the source of a MESSAGE.
NamesKnown ==
  /\ Names(outbox, database)
  /\ \A p \in Client : name[p] \in database \cup {NoUser}

\* What a process closes has been opened, and nothing waits in what is closed.
Opened(fd) == fd \in Conn => peer[fd] # "none"
SocketsOpened ==
  /\ \A c \in Conn : owner[c] # NoClient => Opened(c)
  /\ \A c \in Conn : Opened(server_reply_socket[c])
  /\ \A p \in Client : Opened(socket_file_dscriptor[p])
NothingBehindClosed == \A c \in Conn : peer[c] = "closed" => outbox[c] = <<>>

SystemInv ==
  Inv /\ ClientTypes /\ NamesKnown /\ SocketsOpened /\ NothingBehindClosed

-----------------------------------------------------------------------------
(* The server names only users that have an entry.                         *)

LEMMA ToNames ==
  ASSUME NEW fd, NEW m, NEW D, C!Accepts(m) => m.source \in D
  PROVE  Names(To(fd, m), D)
BY DEF Names, To

LEMMA ToAllNames ==
  ASSUME NEW U, NEW m, NEW D, ~ C!Accepts(m)
  PROVE  Names(ToAll(U, m), D)
BY DEF Names, ToAll

LEMMA ThenNames ==
  ASSUME NEW f \in [Conn -> Seq(Reply)], NEW g \in [Conn -> Seq(Reply)], NEW D,
         Names(f, D), Names(g, D)
  PROVE  Names(Then(f, g), D)
<1> SUFFICES ASSUME NEW c \in Conn, NEW i \in 1..Len(f[c] \o g[c]),
                    C!Accepts((f[c] \o g[c])[i])
             PROVE  (f[c] \o g[c])[i].source \in D
  BY DEF Names, Then
<1>1. f[c] \in Seq(Reply) /\ g[c] \in Seq(Reply)
  OBVIOUS
<1>2. CASE i \in 1..Len(f[c])
  <2>1. (f[c] \o g[c])[i] = f[c][i]
    BY <1>1, <1>2
  <2> QED BY <1>2, <2>1 DEF Names
<1>3. CASE i - Len(f[c]) \in 1..Len(g[c])
  <2>1. (f[c] \o g[c])[i] = g[c][i - Len(f[c])]
    BY <1>1, <1>3
  <2> QED BY <1>3, <2>1 DEF Names
<1> QED BY <1>1, <1>2, <1>3

\* More names are known later.
LEMMA NamesGrow ==
  ASSUME NEW r, NEW D, NEW E, D \subseteq E, Names(r, D)
  PROVE  Names(r, E)
BY DEF Names

LEMMA SendNames ==
  ASSUME TypeOK, NEW f \in [Conn -> Seq(Reply)], NEW D, Names(outbox, D), Names(f, D),
         Send(f)
  PROVE  /\ Names(outbox', D)
         /\ \A c \in Conn : peer[c] = "closed" => outbox'[c] = outbox[c]
<1>1. outbox \in [Conn -> Seq(Reply)]
  BY DEF TypeOK
<1>2. Names(Then(outbox, f), D)
  BY <1>1, ThenNames
<1> QED BY <1>1, <1>2 DEF Names, Then, Send

\* A reply that acknowledges no login.
Other(m) == m \in Reply /\ ~ C!Accepts(m)

LEMMA OneOther ==
  ASSUME NEW fd, NEW m, NEW D, Other(m)
  PROVE  To(fd, m) \in [Conn -> Seq(Reply)] /\ Names(To(fd, m), D)
BY ToType, ToNames DEF Other

LEMMA TwoOthers ==
  ASSUME NEW a, NEW m, NEW b, NEW n, NEW D, Other(m), Other(n)
  PROVE  /\ Then(To(a, m), To(b, n)) \in [Conn -> Seq(Reply)]
         /\ Names(Then(To(a, m), To(b, n)), D)
BY OneOther, ThenType, ThenNames

LEMMA AllOther ==
  ASSUME NEW U, NEW m, NEW D, Other(m)
  PROVE  ToAll(U, m) \in [Conn -> Seq(Reply)] /\ Names(ToAll(U, m), D)
BY ToAllType, ToAllNames DEF Other

LEMMA Others ==
  \A t \in {"LO_NAK", "RG_NAK", "JN_ACK", "JN_NAK", "NS_ACK", "NEW_SESS", "QU_ACK",
            "SQ_ACK", "SQ_NAK", "KI_ACK", "KI_NAK", "KI_MESSAGE", "PM_ACK", "PM_NAK",
            "PM_MESSAGE"} : Other([type |-> t])
BY DEF Other, Reply, C!Accepts

Replies ==
  /\ database \subseteq database' /\ peer' = peer
  /\ Names(outbox', database')
  /\ \A c \in Conn : peer[c] = "closed" => outbox'[c] = outbox[c]

\* A handler that keeps the table's names and sends f, or nothing.
LEMMA SendReplies ==
  ASSUME Inv, NamesKnown, NEW f \in [Conn -> Seq(Reply)], database \subseteq database',
         Names(f, database'), Send(f), peer' = peer
  PROVE  Replies
BY SendNames, NamesGrow DEF Inv, NamesKnown, Replies

LEMMA SilentReplies ==
  ASSUME Inv, NamesKnown, UNCHANGED <<database, outbox, peer>>
  PROVE  Replies
BY DEF NamesKnown, Replies

LEMMA HandlerReplies ==
  ASSUME Inv, NamesKnown, NEW c \in Conn, Handler(c)
  PROVE  Replies
<1> DEFINE m == Head(inbox[c])
<1>1. CASE VerifyLogin(c)
  <2>1. UNCHANGED <<database, peer>>
    BY <1>1 DEF VerifyLogin, entry
  <2>2. CASE UNCHANGED outbox
    BY <2>1, <2>2, SilentReplies
  <2>3. CASE Send(To(c, [type |-> "LO_NAK"]))
    BY <2>1, <2>3, OneOther, Others, SendReplies
  <2> QED BY <1>1, <2>2, <2>3 DEF VerifyLogin
<1>2. CASE UserLogin(c)
  <2> DEFINE f == To(c, [type |-> "LO_ACK", source |-> source[c]])
  <2>1. UNCHANGED <<database, peer>> /\ Send(f)
    BY <1>2 DEF UserLogin
  <2>2. source[c] \in database /\ source[c] \in User
    BY <1>2 DEF UserLogin, Inv, Registered, TypeOK
  <2>3. f \in [Conn -> Seq(Reply)] /\ Names(f, database')
    BY <2>1, <2>2, ToType, ToNames DEF Reply
  <2> HIDE DEF f
  <2> QED BY <2>1, <2>3, SendReplies
<1>3. CASE UserRegistration(c)
  <2> DEFINE f == To(c, [type |-> "RG_ACK", source |-> m.source])
  <2>1. peer' = peer /\ m.source \in User
    BY <1>3, HeadType DEF UserRegistration, Receiving, Inv
  <2>2. CASE database' = database \cup {m.source} /\ Send(f)
    <3>1. f \in [Conn -> Seq(Reply)] /\ Names(f, database')
      BY <2>1, <2>2, ToType, ToNames DEF Reply
    <3> HIDE DEF f
    <3> QED BY <2>1, <2>2, <3>1, SendReplies
  <2>3. CASE database' = database /\ Send(To(c, [type |-> "RG_NAK"]))
    BY <2>1, <2>3, OneOther, Others, SendReplies
  <2> QED BY <1>3, <2>2, <2>3 DEF UserRegistration
<1>4. CASE SessionCreate(c) \/ SessionJoin(c)
  <2>1. /\ UNCHANGED <<database, peer>>
        /\ \E t \in {"NS_ACK", "NEW_SESS", "JN_ACK", "JN_NAK"} :
             Send(To(socket_fd[source[c]], [type |-> t]))
    BY <1>4 DEF SessionCreate, SessionJoin
  <2> QED BY <2>1, OneOther, Others, SendReplies
<1>5. CASE SessionLeave(c) \/ ExitLeave(c)
  <2>1. LeaveBody(c)
    BY <1>5 DEF SessionLeave, ExitLeave
  <2>2. UNCHANGED <<database, peer>>
    BY <2>1 DEF LeaveBody
  <2>3. \/ UNCHANGED outbox
        \/ Send(ToAll({v \in database : role'[v] = "ADMIN"}, [type |-> "PM_MESSAGE"]))
    BY <2>1 DEF LeaveBody
  <2> QED BY <2>2, <2>3, SilentReplies, AllOther, Others, SendReplies
<1>6. CASE KickUser(c)
  <2>1. UNCHANGED <<database, peer>>
    BY <1>6 DEF KickUser
  <2>2. \/ Send(Then(To(socket_fd[m.data], [type |-> "KI_MESSAGE"]),
                     To(socket_fd[source[c]], [type |-> "KI_ACK"])))
        \/ Send(To(socket_fd[source[c]], [type |-> "KI_NAK"]))
    BY <1>6 DEF KickUser
  <2> QED BY <2>1, <2>2, OneOther, TwoOthers, Others, SendReplies
<1>7. CASE PromoteUser(c)
  <2>1. UNCHANGED <<database, peer>>
    BY <1>7 DEF PromoteUser
  <2>2. \/ Send(Then(To(socket_fd[m.data], [type |-> "PM_MESSAGE"]),
                     To(socket_fd[source[c]], [type |-> "PM_ACK"])))
        \/ Send(To(socket_fd[source[c]], [type |-> "PM_NAK"]))
    BY <1>7 DEF PromoteUser
  <2> QED BY <2>1, <2>2, OneOther, TwoOthers, Others, SendReplies
<1>8. CASE GroupMessage(c)
  <2> DEFINE n == [type |-> "MESSAGE", source |-> m.source]
  <2>1. UNCHANGED <<database, peer>>
    BY <1>8 DEF GroupMessage, entry
  <2>2. m.source \in User
    BY <1>8, HeadType DEF GroupMessage, Receiving, Inv
  <2>3. Other(n)
    BY <2>2 DEF Other, Reply, C!Accepts
  <2>4. \E U : Send(ToAll(U, n))
    BY <1>8 DEF GroupMessage
  <2> HIDE DEF n
  <2> QED BY <2>1, <2>3, <2>4, AllOther, SendReplies
<1>9. CASE QueryUsers(c) \/ QuerySession(c)
  <2>1. UNCHANGED <<database, peer>>
    BY <1>9 DEF QueryUsers, QuerySession, entry
  <2>2. \E t \in {"QU_ACK", "SQ_NAK", "SQ_ACK"} : Send(To(c, [type |-> t]))
    BY <1>9 DEF QueryUsers, QuerySession
  <2> QED BY <2>1, <2>2, OneOther, Others, SendReplies
<1>10. CASE RecvExit(c) \/ Disconnect(c) \/ ExitOffline(c) \/ UnknownSourceCrash(c)
  <2>1. UNCHANGED <<database, outbox, peer>>
    BY <1>10 DEF RecvExit, Disconnect, ExitOffline, UnknownSourceCrash, entry
  <2> QED BY <2>1, SilentReplies
<1> QED BY <1>1, <1>2, <1>3, <1>4, <1>5, <1>6, <1>7, <1>8, <1>9, <1>10 DEF Handler

\* A step of the server leaves the clients alone.
LEMMA ServerStep ==
  ASSUME ServerAssumption, SystemInv, UNCHANGED clientVars,
         MainExit \/ \E c \in Conn : Handler(c)
  PROVE  [Next]_vars /\ SystemInv'
<1>1. [Next]_vars
  BY DEF Next
<1>2. Replies
  <2>1. CASE MainExit
    BY <2>1, SilentReplies DEF MainExit, entry, SystemInv
  <2>2. CASE \E c \in Conn : Handler(c)
    BY <2>2, HandlerReplies DEF SystemInv
  <2> QED BY <2>1, <2>2
<1>3. Inv'
  BY <1>1, NextInv DEF SystemInv
<1>4. ClientTypes'
  BY DEF clientVars, SystemInv, ClientTypes, C!ClientTypeOK
<1>5. NamesKnown'
  BY <1>2 DEF clientVars, SystemInv, NamesKnown, Replies
<1>6. SocketsOpened' /\ NothingBehindClosed'
  BY <1>2 DEF clientVars, SystemInv, SocketsOpened, Opened, NothingBehindClosed, Replies
<1> QED BY <1>1, <1>3, <1>4, <1>5, <1>6 DEF SystemInv

-----------------------------------------------------------------------------
(* Each step of a client is a step of the environment, or none.            *)

AllTyped == Greeting \cup Request \subseteq Traffic

\* A request reaches the server as ConferenceServer lets a client send it, or
\* is lost behind a closed socket.
LEMMA SendToMaps ==
  ASSUME AllTyped, Inv, Room, ServerUnchanged, UNCHANGED <<outbox, peer>>,
         NEW c, NEW m \in Request, m.type = "MESSAGE" => m.source \in database,
         C!SendTo(c, m)
  PROVE  [Next]_vars
<1>1. CASE c \in Conn /\ server = "up" /\ pc[c] # "closed" /\ peer[c] = "open"
  <2>1. inbox' = [inbox EXCEPT ![c] = Append(inbox[c], m)]
    BY <1>1 DEF C!SendTo
  <2>2. ClientSend(c, m)
    BY <1>1, <2>1 DEF ClientSend, Room, ServerUnchanged
  <2>3. m \in Request \cap Traffic
    BY DEF AllTyped
  <2> QED BY <1>1, <2>2, <2>3 DEF Next, Environment
<1>2. CASE ~ (c \in Conn /\ server = "up" /\ pc[c] # "closed" /\ peer[c] = "open")
  <2>1. inbox' = inbox
    BY <1>2 DEF C!SendTo
  <2> QED BY <2>1 DEF ServerUnchanged, vars
<1> QED BY <1>1, <1>2

Closes(D) ==
  /\ inbox' = inbox
  /\ peer' = [c \in Conn |-> IF c \in D THEN "closed" ELSE peer[c]]
  /\ outbox' = [c \in Conn |-> IF c \in D THEN <<>> ELSE outbox[c]]

\* Closing sockets of which some may be closed already closes the others.
LEMMA ClosesMaps ==
  ASSUME Inv, NothingBehindClosed, ServerUnchanged,
         NEW D, \A c \in D : Opened(c), Closes(D)
  PROVE  [Next]_vars
<1> DEFINE E == {c \in D \cap Conn : peer[c] = "open"}
<1>1. /\ peer \in [Conn -> {"none", "open", "closed"}]
      /\ outbox \in [Conn -> Seq(Reply)]
  BY DEF Inv, TypeOK
<1>2. \A c \in D \cap Conn : c \in E \/ peer[c] = "closed"
  BY <1>1 DEF Opened
<1>3. /\ peer' = [c \in Conn |-> IF c \in E THEN "closed" ELSE peer[c]]
      /\ outbox' = [c \in Conn |-> IF c \in E THEN <<>> ELSE outbox[c]]
  BY <1>2 DEF Closes, NothingBehindClosed
<1>4. CASE E = {}
  <2>1. peer' = peer /\ outbox' = outbox
    BY <1>1, <1>3, <1>4
  <2> QED BY <2>1 DEF Closes, ServerUnchanged, vars
<1>5. CASE E # {}
  <2>1. ClientClose(E)
    BY <1>3, <1>5 DEF ClientClose, Closes, ServerUnchanged
  <2>2. E \in SUBSET {c \in Conn : peer[c] = "open"}
    OBVIOUS
  <2> QED BY <2>1, <2>2 DEF Next
<1> QED BY <1>4, <1>5

\* What is left of the invariant when sockets are closed.
LEMMA ClosesKeeps ==
  ASSUME SystemInv, ServerUnchanged, NEW D, Closes(D)
  PROVE  /\ Names(outbox', database')
         /\ NothingBehindClosed'
         /\ \A fd : Opened(fd) => Opened(fd)'
<1>1. outbox \in [Conn -> Seq(Reply)] /\ database' = database
  BY DEF SystemInv, Inv, TypeOK, ServerUnchanged, entry
<1>2. Names(outbox', database')
  BY <1>1 DEF Closes, Names, SystemInv, NamesKnown
<1>3. NothingBehindClosed' /\ \A fd : Opened(fd) => Opened(fd)'
  BY DEF Closes, SystemInv, NothingBehindClosed, Opened
<1> QED BY <1>2, <1>3

\* The invariant after a step that touches neither the replies nor what is open.
LEMMA QuietKeeps ==
  ASSUME SystemInv, ServerUnchanged, UNCHANGED <<outbox, peer, name, owner>>,
         \A c \in Conn : \/ server_reply_socket'[c] = server_reply_socket[c]
                         \/ \E p \in Client : server_reply_socket'[c] = socket_file_dscriptor[p],
         \A p \in Client : socket_file_dscriptor'[p] \in {socket_file_dscriptor[p], NoSocket}
  PROVE  NamesKnown' /\ SocketsOpened' /\ NothingBehindClosed'
<1>1. database' = database /\ NoSocket \notin Conn
  BY DEF ServerUnchanged, entry, NoSocket, Conn
<1>2. NamesKnown' /\ NothingBehindClosed'
  BY <1>1 DEF SystemInv, NamesKnown, NothingBehindClosed
<1>3. SocketsOpened'
  BY <1>1 DEF SystemInv, SocketsOpened, Opened
<1> QED BY <1>2, <1>3

\* A step is one of the server with its environment, and keeps the invariant.
Good == [Next]_vars /\ SystemInv'

LEMMA GoodStep ==
  ASSUME ServerAssumption, SystemInv, [Next]_vars, ClientTypes',
         NamesKnown' /\ SocketsOpened' /\ NothingBehindClosed'
  PROVE  Good
BY NextInv DEF Good, SystemInv

LEMMA CommandStep ==
  ASSUME ServerAssumption, AllTyped, SystemInv, Room, ServerUnchanged,
         NEW p \in Client, NEW m \in Request, C!Command(p, m)
  PROVE  Good
<1>1. /\ UNCHANGED <<clientVars, outbox, peer>>
      /\ C!SendTo(socket_file_dscriptor[p], m) /\ C!Allowed(p, m)
  BY DEF C!Command, C!clientVars, C!flags, C!handlers, clientVars
<1>2. m.type = "MESSAGE" => m.source \in database
  <2>1. m.type = "MESSAGE" => m.source = name[p] /\ m.source \in User
    BY <1>1 DEF C!Allowed, Request
  <2> QED BY <2>1 DEF SystemInv, NamesKnown, ServerAssumption
<1>3. [Next]_vars
  BY <1>1, <1>2, SendToMaps DEF SystemInv
<1>4. ClientTypes'
  BY <1>1 DEF clientVars, SystemInv, ClientTypes, C!ClientTypeOK
<1>5. NamesKnown' /\ SocketsOpened' /\ NothingBehindClosed'
  BY <1>1, QuietKeeps DEF clientVars
<1> QED BY <1>3, <1>4, <1>5, GoodStep

\* The first part of a logout, with or without a session to leave.
LEMMA LeaveMaps ==
  ASSUME AllTyped, Inv, Room, ServerUnchanged, UNCHANGED <<outbox, peer>>,
         NEW p \in Client, C!LeaveSession(p) \/ UNCHANGED inbox
  PROVE  [Next]_vars
<1>1. CASE UNCHANGED inbox
  BY <1>1 DEF ServerUnchanged, vars
<1>2. CASE C!LeaveSession(p)
  <2>1. [type |-> "LEAVE_SESS"] \in Request
    BY DEF Request
  <2> QED BY <1>2, <2>1, SendToMaps DEF C!LeaveSession
<1> QED BY <1>1, <1>2

\* What a main thread does to the types when it changes flags alone.
LEMMA LeaveStep ==
  ASSUME ServerAssumption, AllTyped, SystemInv, Room, ServerUnchanged,
         NEW p \in Client, C!Leave(p)
  PROVE  Good
<1>1. [Next]_vars
  BY LeaveMaps DEF C!Leave, SystemInv
<1>2. ClientTypes'
  BY DEF C!Leave, C!LeaveSession, C!handlers, SystemInv, ClientTypes, C!ClientTypeOK
<1>3. NamesKnown' /\ SocketsOpened' /\ NothingBehindClosed'
  BY QuietKeeps DEF C!Leave, C!handlers
<1> QED BY <1>1, <1>2, <1>3, GoodStep

LEMMA BeginLogoutStep ==
  ASSUME ServerAssumption, AllTyped, SystemInv, Room, ServerUnchanged,
         NEW p \in Client, NEW why \in {"logout", "quit"}, C!BeginLogout(p, why)
  PROVE  Good
<1>1. [Next]_vars
  BY LeaveMaps DEF C!BeginLogout, SystemInv
<1>2. ClientTypes'
  BY DEF C!BeginLogout, C!LeaveSession, C!handlers, SystemInv, ClientTypes, C!ClientTypeOK
<1>3. NamesKnown' /\ SocketsOpened' /\ NothingBehindClosed'
  BY QuietKeeps DEF C!BeginLogout, C!handlers
<1> QED BY <1>1, <1>2, <1>3, GoodStep

LEMMA EndLogoutStep ==
  ASSUME ServerAssumption, AllTyped, SystemInv, Room, ServerUnchanged,
         NEW p \in Client, C!EndLogout(p)
  PROVE  Good
<1>1. [Next]_vars
  <2>1. [type |-> "EXIT"] \in Request
    BY DEF Request
  <2> QED BY <2>1, SendToMaps DEF C!EndLogout, SystemInv
<1>2. ClientTypes'
  <2>1. \/ UNCHANGED termination_signal /\ main' = [main EXCEPT ![p] = "command"]
        \/ /\ main' = [main EXCEPT ![p] = "joining"]
           /\ termination_signal' = [termination_signal EXCEPT ![p] = "ON"]
    BY DEF C!EndLogout
  <2>2. /\ verified_access' = [verified_access EXCEPT ![p] = "OFF"]
        /\ client_connection_status' = [client_connection_status EXCEPT ![p] = "OFFLINE"]
        /\ UNCHANGED <<socket_file_dscriptor, name, session_status, client_role,
                       client_thread, handler, owner, server_reply_socket>>
    BY DEF C!EndLogout, C!handlers
  <2>3. /\ main' \in [Client -> {"command", "logout", "quit", "joining", "ended", "crashed"}]
        /\ termination_signal' \in [Client -> {"ON", "OFF"}]
    <3>1. \E v \in {"command", "joining"} : main' = [main EXCEPT ![p] = v]
      BY <2>1
    <3>2. main' \in [Client -> {"command", "logout", "quit", "joining", "ended", "crashed"}]
      BY <3>1 DEF SystemInv, ClientTypes, C!ClientTypeOK
    <3>3. \/ termination_signal' = termination_signal
          \/ termination_signal' = [termination_signal EXCEPT ![p] = "ON"]
      BY <2>1
    <3>4. termination_signal' \in [Client -> {"ON", "OFF"}]
      BY <3>3 DEF SystemInv, ClientTypes, C!ClientTypeOK
    <3> QED BY <3>2, <3>4
  <2>4. /\ verified_access' \in [Client -> {"ON", "OFF"}]
        /\ client_connection_status' \in [Client -> {"ONLINE", "OFFLINE"}]
    BY <2>2 DEF SystemInv, ClientTypes, C!ClientTypeOK
  <2> QED BY <2>2, <2>3, <2>4 DEF SystemInv, ClientTypes, C!ClientTypeOK
<1>3. NamesKnown' /\ SocketsOpened' /\ NothingBehindClosed'
  BY QuietKeeps DEF C!EndLogout, C!handlers
<1> QED BY <1>1, <1>2, <1>3, GoodStep

LEMMA TerminateStep ==
  ASSUME ServerAssumption, AllTyped, SystemInv, Room, ServerUnchanged,
         NEW p \in Client, C!Terminate(p)
  PROVE  Good
<1>1. CASE C!BeginLogout(p, "quit")
  BY <1>1, BeginLogoutStep
<1>2. CASE /\ main' = [main EXCEPT ![p] = "joining"]
           /\ termination_signal' = [termination_signal EXCEPT ![p] = "ON"]
           /\ UNCHANGED <<socket_file_dscriptor, name, client_connection_status,
                          verified_access, session_status, client_role, client_thread,
                          handler, owner, server_reply_socket, inbox, outbox, peer>>
  <2>1. [Next]_vars
    BY <1>2 DEF ServerUnchanged, vars
  <2>2. ClientTypes'
    BY <1>2 DEF SystemInv, ClientTypes, C!ClientTypeOK
  <2>3. NamesKnown' /\ SocketsOpened' /\ NothingBehindClosed'
    BY <1>2, QuietKeeps
  <2> QED BY <2>1, <2>2, <2>3, GoodStep
<1> QED BY <1>1, <1>2 DEF C!Terminate, C!handlers, C!channels

LEMMA EndStep ==
  ASSUME ServerAssumption, SystemInv, ServerUnchanged, ConferenceAssumption,
         NEW p \in Client, NEW how \in {"ended", "crashed"}, C!End(p, how)
  PROVE  Good
<1> DEFINE D == {c \in Conn : owner[c] = p}
<1>1. Closes(D)
  BY DEF C!End, Closes
<1>2. \A c \in D : Opened(c)
  BY DEF SystemInv, SocketsOpened, ConferenceAssumption
<1>3. UNCHANGED <<socket_file_dscriptor, name, client_connection_status,
                  verified_access, session_status, client_role, termination_signal,
                  client_thread, handler, owner, server_reply_socket>>
  BY DEF C!End, C!flags, C!handlers
<1>4. [Next]_vars
  BY <1>1, <1>2, ClosesMaps DEF SystemInv
<1>5. ClientTypes'
  BY <1>3 DEF C!End, SystemInv, ClientTypes, C!ClientTypeOK
<1>6. database' = database
  BY DEF ServerUnchanged, entry
<1>7. NamesKnown' /\ SocketsOpened' /\ NothingBehindClosed'
  <2> HIDE DEF D
  <2> QED BY <1>1, <1>3, <1>6, ClosesKeeps DEF SystemInv, NamesKnown, SocketsOpened
<1> QED BY <1>4, <1>5, <1>7, GoodStep

LEMMA FailedConnectStep ==
  ASSUME ServerAssumption, ConferenceAssumption, SystemInv, ServerUnchanged,
         NEW p \in Client, C!FailedConnect(p)
  PROVE  Good
<1>1. CASE C!End(p, "crashed")
  BY <1>1, EndStep
<1>2. CASE /\ client_thread' = [client_thread EXCEPT ![p] = Append(@, C!NoThread)]
           /\ socket_file_dscriptor' \in
                {socket_file_dscriptor, [socket_file_dscriptor EXCEPT ![p] = C!NoSocket]}
           /\ UNCHANGED <<main, name, client_connection_status, verified_access,
                          session_status, client_role, termination_signal, handler,
                          owner, server_reply_socket, inbox, outbox, peer>>
  <2>1. [Next]_vars
    BY <1>2 DEF ServerUnchanged, vars
  <2>2. ClientTypes'
    <3>1. client_thread[p] \in Seq(Conn \cup {C!NoThread})
      BY DEF SystemInv, ClientTypes, C!ClientTypeOK
    <3>2. client_thread' \in [Client -> Seq(Conn \cup {C!NoThread})]
      <4>1. Append(client_thread[p], C!NoThread) \in Seq(Conn \cup {C!NoThread})
        BY <3>1
      <4> QED BY <1>2, <4>1 DEF SystemInv, ClientTypes, C!ClientTypeOK
    <3>3. socket_file_dscriptor' \in [Client -> Conn \cup {C!NoSocket}]
      BY <1>2 DEF SystemInv, ClientTypes, C!ClientTypeOK
    <3> QED BY <1>2, <3>2, <3>3 DEF SystemInv, ClientTypes, C!ClientTypeOK
  <2>3. \A q \in Client : socket_file_dscriptor'[q] \in {socket_file_dscriptor[q], NoSocket}
    BY <1>2 DEF SystemInv, ClientTypes, C!ClientTypeOK, C!NoSocket, NoSocket
  <2>4. NamesKnown' /\ SocketsOpened' /\ NothingBehindClosed'
    BY <1>2, <2>3, QuietKeeps
  <2> QED BY <2>1, <2>2, <2>4, GoodStep
<1> QED BY <1>1, <1>2 DEF C!FailedConnect, C!channels

\* A connection starts with a greeting, and its name is a new one.
LEMMA ConnectStep ==
  ASSUME ServerAssumption, ConferenceAssumption, AllTyped, SystemInv,
         NEW p \in Client, NEW c \in Conn, NEW m \in Account[p],
         C!Connect(p, c, m), Accept(c, m)
  PROVE  Good
<1>1. m \in Greeting \cap Traffic
  BY DEF ConferenceAssumption, AllTyped
<1>2. [Next]_vars
  BY <1>1 DEF Next, Environment
<1>3. UNCHANGED <<main, name, verified_access, session_status, client_role,
                  termination_signal, server_reply_socket, outbox, database>>
  BY DEF C!Connect, Accept, entry
<1>4. /\ socket_file_dscriptor' = [socket_file_dscriptor EXCEPT ![p] = c]
      /\ client_connection_status' = [client_connection_status EXCEPT ![p] = "ONLINE"]
      /\ client_thread' = [client_thread EXCEPT ![p] = Append(client_thread[p], c)]
      /\ handler' = [handler EXCEPT ![c] = "start"]
      /\ owner' = [owner EXCEPT ![c] = p]
      /\ peer' = [peer EXCEPT ![c] = "open"]
  BY DEF C!Connect
<1>5. ClientTypes'
  <2>1. Append(client_thread[p], c) \in Seq(Conn \cup {C!NoThread})
    BY DEF SystemInv, ClientTypes, C!ClientTypeOK
  <2>2. /\ client_thread' \in [Client -> Seq(Conn \cup {C!NoThread})]
        /\ socket_file_dscriptor' \in [Client -> Conn \cup {C!NoSocket}]
        /\ client_connection_status' \in [Client -> {"ONLINE", "OFFLINE"}]
    BY <1>4, <2>1 DEF SystemInv, ClientTypes, C!ClientTypeOK
  <2>3. /\ handler' \in [Conn -> {"none", "start", "test", "recv", "stopped"}]
        /\ owner' \in [Conn -> Client \cup {NoClient}]
    BY <1>4 DEF SystemInv, ClientTypes, C!ClientTypeOK
  <2> QED BY <1>3, <2>2, <2>3 DEF SystemInv, ClientTypes, C!ClientTypeOK
<1>6. peer \in [Conn -> {"none", "open", "closed"}] /\ NoSocket \notin Conn
  BY DEF SystemInv, Inv, TypeOK, NoSocket, Conn
<1>7. NamesKnown' /\ NothingBehindClosed'
  BY <1>3, <1>4, <1>6 DEF SystemInv, NamesKnown, NothingBehindClosed
<1>8. SocketsOpened'
  BY <1>3, <1>4, <1>6 DEF SystemInv, SocketsOpened, Opened, ClientTypes, C!ClientTypeOK
<1> QED BY <1>2, <1>5, <1>7, <1>8, GoodStep

-----------------------------------------------------------------------------
(* The handler threads of the clients.                                     *)

\* A thread's end closes the socket it has captured, if any.
LEMMA StopCloses ==
  ASSUME NEW h \in Conn, NEW fd, C!Stop(h, fd), inbox' = inbox
  PROVE  Closes({fd}) /\ handler' = [handler EXCEPT ![h] = "stopped"]
BY DEF C!Stop, Closes

LEMMA StopStep ==
  ASSUME ServerAssumption, SystemInv, ServerUnchanged,
         NEW h \in Conn, C!Stop(h, server_reply_socket[h]), ClientTypes',
         UNCHANGED <<inbox, socket_file_dscriptor, owner, server_reply_socket>>,
         \A p \in Client : name'[p] \in database \cup {NoUser}
  PROVE  Good
<1> DEFINE D == {server_reply_socket[h]}
<1>1. Closes(D)
  BY StopCloses
<1>2. \A c \in D : Opened(c)
  BY DEF SystemInv, SocketsOpened
<1> HIDE DEF D
<1>3. [Next]_vars
  BY <1>1, <1>2, ClosesMaps DEF SystemInv
<1>4. database' = database
  BY DEF ServerUnchanged, entry
<1>5. NamesKnown' /\ SocketsOpened' /\ NothingBehindClosed'
  BY <1>1, <1>4, ClosesKeeps DEF SystemInv, NamesKnown, SocketsOpened
<1> QED BY <1>3, <1>5, GoodStep

LEMMA HandlerStartStep ==
  ASSUME ServerAssumption, SystemInv, ServerUnchanged,
         NEW h \in Conn, owner[h] \in Client, C!HandlerStart(h)
  PROVE  Good
<1>1. /\ server_reply_socket' =
           [server_reply_socket EXCEPT ![h] = socket_file_dscriptor[owner[h]]]
      /\ handler' = [handler EXCEPT ![h] = "test"]
      /\ UNCHANGED <<main, socket_file_dscriptor, name, client_connection_status,
                     verified_access, session_status, client_role, termination_signal,
                     client_thread, owner, inbox, outbox, peer>>
  BY DEF C!HandlerStart, C!flags, C!channels
<1>2. [Next]_vars
  BY <1>1 DEF ServerUnchanged, vars
<1>3. ClientTypes'
  BY <1>1 DEF SystemInv, ClientTypes, C!ClientTypeOK
<1>4. \A c \in Conn : \/ server_reply_socket'[c] = server_reply_socket[c]
                      \/ \E p \in Client : server_reply_socket'[c] = socket_file_dscriptor[p]
  BY <1>1 DEF SystemInv, ClientTypes, C!ClientTypeOK
<1>5. NamesKnown' /\ SocketsOpened' /\ NothingBehindClosed'
  BY <1>1, <1>4, QuietKeeps
<1> QED BY <1>2, <1>3, <1>5, GoodStep

LEMMA HandlerTestStep ==
  ASSUME ServerAssumption, SystemInv, ServerUnchanged, NEW h \in Conn, C!HandlerTest(h)
  PROVE  Good
<1>1. UNCHANGED <<main, socket_file_dscriptor, name, client_connection_status,
                  verified_access, session_status, client_role, termination_signal,
                  client_thread, owner, server_reply_socket, inbox>>
  BY DEF C!HandlerTest, C!flags
<1>2. CASE handler' = [handler EXCEPT ![h] = "recv"] /\ UNCHANGED <<outbox, peer>>
  <2>1. [Next]_vars
    BY <1>1, <1>2 DEF ServerUnchanged, vars
  <2>2. ClientTypes'
    BY <1>1, <1>2 DEF SystemInv, ClientTypes, C!ClientTypeOK
  <2>3. NamesKnown' /\ SocketsOpened' /\ NothingBehindClosed'
    BY <1>1, <1>2, QuietKeeps
  <2> QED BY <2>1, <2>2, <2>3, GoodStep
<1>3. CASE C!Stop(h, server_reply_socket[h])
  <2>1. ClientTypes'
    BY <1>1, <1>3, StopCloses DEF SystemInv, ClientTypes, C!ClientTypeOK
  <2> QED BY <1>1, <1>3, <2>1, StopStep DEF SystemInv, NamesKnown
<1> QED BY <1>2, <1>3 DEF C!HandlerTest

LEMMA HandlerEofStep ==
  ASSUME ServerAssumption, SystemInv, ServerUnchanged,
         NEW h \in Conn, owner[h] \in Client, C!HandlerEof(h)
  PROVE  Good
<1> DEFINE p == owner[h]
<1>1. /\ \E v \in {"OFF", verified_access[p]} : verified_access' = [verified_access EXCEPT ![p] = v]
      /\ client_connection_status' = [client_connection_status EXCEPT ![p] = "OFFLINE"]
      /\ \E v \in {"OFFLINE", session_status[p]} : session_status' = [session_status EXCEPT ![p] = v]
      /\ \E v \in {"USER", client_role[p]} : client_role' = [client_role EXCEPT ![p] = v]
  BY DEF C!HandlerEof
<1>2. /\ C!Stop(h, server_reply_socket[h])
      /\ UNCHANGED <<main, socket_file_dscriptor, name, termination_signal, client_thread,
                     owner, server_reply_socket, inbox>>
  BY DEF C!HandlerEof
<1>3. ClientTypes'
  <2>1. /\ verified_access' \in [Client -> {"ON", "OFF"}]
        /\ client_connection_status' \in [Client -> {"ONLINE", "OFFLINE"}]
        /\ session_status' \in [Client -> {"ONLINE", "OFFLINE"}]
        /\ client_role' \in [Client -> {"USER", "ADMIN"}]
    BY <1>1 DEF SystemInv, ClientTypes, C!ClientTypeOK
  <2>2. handler' \in [Conn -> {"none", "start", "test", "recv", "stopped"}]
    BY <1>2, StopCloses DEF SystemInv, ClientTypes, C!ClientTypeOK
  <2> QED BY <1>2, <2>1, <2>2 DEF SystemInv, ClientTypes, C!ClientTypeOK
<1> QED BY <1>2, <1>3, StopStep DEF SystemInv, NamesKnown

\* What a message does to the flags: the name is that of an entry.
LEMMA HandlerReceiveFlags ==
  ASSUME SystemInv, NEW h \in Conn, owner[h] \in Client, C!HandlerReceive(h)
  PROVE  /\ client_role' \in [Client -> {"USER", "ADMIN"}]
         /\ session_status' \in [Client -> {"ONLINE", "OFFLINE"}]
         /\ verified_access' \in [Client -> {"ON", "OFF"}]
         /\ DOMAIN name' = Client
         /\ \A p \in Client : name'[p] \in database \cup {NoUser}
<1> DEFINE fd == server_reply_socket[h]
           m == Head(outbox[fd])
           p == owner[h]
<1>1. fd \in Conn /\ outbox[fd] # <<>>
  BY DEF C!HandlerReceive
<1>2. outbox[fd] \in Seq(Reply)
  BY <1>1 DEF SystemInv, Inv, TypeOK
<1>3. C!Accepts(m) => m.source \in database
  <2>1. 1 \in 1..Len(outbox[fd]) /\ m = outbox[fd][1]
    BY <1>1, <1>2
  <2> QED BY <1>1, <2>1 DEF SystemInv, NamesKnown, Names
<1>4. /\ client_role' = [client_role EXCEPT ![p] = C!NewRole(m, @)]
      /\ session_status' = [session_status EXCEPT ![p] = C!NewSessionStatus(m, @)]
      /\ name' = [name EXCEPT ![p] = IF C!Accepts(m) THEN m.source ELSE @]
      /\ verified_access' = [verified_access EXCEPT ![p] = IF C!Accepts(m) THEN "ON"
                                                   ELSE IF C!Refuses(m) THEN "OFF" ELSE @]
  BY DEF C!HandlerReceive
<1> HIDE DEF m, fd
<1>5. client_role' \in [Client -> {"USER", "ADMIN"}]
  <2>1. C!NewRole(m, client_role[p]) \in {"USER", "ADMIN"}
    BY DEF C!NewRole, SystemInv, ClientTypes, C!ClientTypeOK
  <2> QED BY <1>4, <2>1 DEF SystemInv, ClientTypes, C!ClientTypeOK
<1>6. session_status' \in [Client -> {"ONLINE", "OFFLINE"}]
  <2>1. C!NewSessionStatus(m, session_status[p]) \in {"ONLINE", "OFFLINE"}
    BY DEF C!NewSessionStatus, SystemInv, ClientTypes, C!ClientTypeOK
  <2> QED BY <1>4, <2>1 DEF SystemInv, ClientTypes, C!ClientTypeOK
<1>7. verified_access' \in [Client -> {"ON", "OFF"}]
  BY <1>4 DEF SystemInv, ClientTypes, C!ClientTypeOK
<1>8. DOMAIN name' = Client /\ \A q \in Client : name'[q] \in database \cup {NoUser}
  BY <1>3, <1>4 DEF SystemInv, NamesKnown, ClientTypes, C!ClientTypeOK
<1> QED BY <1>5, <1>6, <1>7, <1>8

\* Reading takes one reply or more from the front.
LEMMA ReadKeepsNames ==
  ASSUME Inv, Names(outbox, database), NEW fd \in Conn,
         NEW n \in 1..(IF Coalesce THEN Len(outbox[fd]) ELSE 1), outbox[fd] # <<>>,
         outbox' = [outbox EXCEPT ![fd] = SubSeq(outbox[fd], n + 1, Len(outbox[fd]))]
  PROVE  Names(outbox', database)
<1> DEFINE r == SubSeq(outbox[fd], n + 1, Len(outbox[fd]))
<1>1. outbox \in [Conn -> Seq(Reply)] /\ outbox[fd] \in Seq(Reply)
  BY DEF Inv, TypeOK
<1>2. n \in Nat /\ n <= Len(outbox[fd]) /\ Len(outbox[fd]) \in Nat
  BY <1>1
<1>3. \A i \in 1..Len(r) : i + n \in 1..Len(outbox[fd]) /\ r[i] = outbox[fd][i + n]
  BY <1>1, <1>2
<1>4. \A i \in 1..Len(r) : C!Accepts(r[i]) => r[i].source \in database
  BY <1>3 DEF Names
<1>5. \A c \in Conn : outbox'[c] = IF c = fd THEN r ELSE outbox[c]
  BY <1>1
<1> HIDE DEF r
<1> QED BY <1>4, <1>5 DEF Names

LEMMA HandlerReceiveStep ==
  ASSUME ServerAssumption, SystemInv, ServerUnchanged,
         NEW h \in Conn, owner[h] \in Client, C!HandlerReceive(h)
  PROVE  Good
<1> DEFINE fd == server_reply_socket[h]
           p == owner[h]
<1>1. UNCHANGED <<main, socket_file_dscriptor, termination_signal, client_thread, owner,
                  server_reply_socket, inbox>>
  BY DEF C!HandlerReceive
<1>2. database' = database
  BY DEF ServerUnchanged, entry
<1>3. CASE /\ client_connection_status' = [client_connection_status EXCEPT ![p] = "OFFLINE"]
           /\ C!Stop(h, fd)
  <2>1. /\ handler' \in [Conn -> {"none", "start", "test", "recv", "stopped"}]
        /\ client_connection_status' \in [Client -> {"ONLINE", "OFFLINE"}]
    BY <1>1, <1>3, StopCloses DEF SystemInv, ClientTypes, C!ClientTypeOK
  <2>2. ClientTypes'
    BY <1>1, <2>1, HandlerReceiveFlags DEF SystemInv, ClientTypes, C!ClientTypeOK
  <2> QED BY <1>1, <1>3, <2>2, HandlerReceiveFlags, StopStep
<1>4. ASSUME handler' = [handler EXCEPT ![h] = "test"],
             NEW n \in 1..(IF Coalesce THEN Len(outbox[fd]) ELSE 1),
             outbox' = [outbox EXCEPT ![fd] = SubSeq(outbox[fd], n + 1, Len(outbox[fd]))],
             UNCHANGED <<client_connection_status, peer>>
      PROVE  Good
  <2>1. fd \in Conn /\ peer[fd] = "open" /\ outbox[fd] # <<>>
    BY DEF C!HandlerReceive
  <2>2. ClientRead(fd)
    BY <1>1, <1>4, <2>1 DEF ClientRead, ServerUnchanged
  <2>3. [Next]_vars
    BY <2>1, <2>2 DEF Next, Environment
  <2>4. handler' \in [Conn -> {"none", "start", "test", "recv", "stopped"}]
    BY <1>4 DEF SystemInv, ClientTypes, C!ClientTypeOK
  <2>5. ClientTypes'
    BY <1>1, <1>4, <2>4, HandlerReceiveFlags DEF SystemInv, ClientTypes, C!ClientTypeOK
  <2>6. Names(outbox', database)
    BY <1>4, <2>1, ReadKeepsNames DEF SystemInv, NamesKnown
  <2>7. NamesKnown'
    BY <1>2, <2>6, HandlerReceiveFlags DEF NamesKnown
  <2>8. SocketsOpened'
    BY <1>1, <1>4 DEF SystemInv, SocketsOpened, Opened
  <2>9. NothingBehindClosed'
    BY <1>4, <2>1 DEF SystemInv, NothingBehindClosed, Inv, TypeOK
  <2> QED BY <2>3, <2>5, <2>7, <2>8, <2>9, GoodStep
<1> QED BY <1>3, <1>4 DEF C!HandlerReceive

-----------------------------------------------------------------------------
(* The theorems.                                                           *)

LEMMA TypesStep ==
  ASSUME ServerAssumption, ConferenceAssumption, AllTyped, SystemInv,
         NEW p \in Client, Types(p)
  PROVE  Good
<1>1. ASSUME NEW c \in Conn, NEW m \in Account[p], C!Connect(p, c, m), Accept(c, m)
      PROVE  Good
  BY <1>1, ConnectStep
<1>2. ASSUME NEW m \in Request, Room, C!Command(p, m), ServerUnchanged
      PROVE  Good
  BY <1>2, CommandStep
<1>3. CASE Room /\ C!Leave(p) /\ ServerUnchanged
  BY <1>3, LeaveStep
<1>4. CASE Room /\ C!Logout(p) /\ ServerUnchanged
  BY <1>4, BeginLogoutStep DEF C!Logout
<1>5. CASE Room /\ C!Quit(p) /\ ServerUnchanged
  BY <1>5, TerminateStep DEF C!Quit
<1>6. CASE C!FailedConnect(p) /\ ServerUnchanged
  BY <1>6, FailedConnectStep
<1>7. CASE Room /\ C!Interrupt(p) /\ ServerUnchanged
  BY <1>7, TerminateStep, EndStep DEF C!Interrupt
<1> QED BY <1>1, <1>2, <1>3, <1>4, <1>5, <1>6, <1>7 DEF Types

LEMMA ProceedsStep ==
  ASSUME ServerAssumption, ConferenceAssumption, AllTyped, SystemInv,
         NEW p \in Client, Proceeds(p)
  PROVE  Good
<1>1. CASE Room /\ C!EndLogout(p) /\ ServerUnchanged
  BY <1>1, EndLogoutStep
<1>2. CASE Room /\ C!OutOfThreads(p) /\ ServerUnchanged
  BY <1>2, TerminateStep DEF C!OutOfThreads
<1>3. CASE C!JoinHandlers(p) /\ ServerUnchanged
  <2>1. \E how \in {"ended", "crashed"} : C!End(p, how)
    BY <1>3 DEF C!JoinHandlers
  <2> QED BY <1>3, <2>1, EndStep
<1> QED BY <1>1, <1>2, <1>3 DEF Proceeds

LEMMA ReceivesStep ==
  ASSUME ServerAssumption, SystemInv, NEW c \in Conn, Receives(c)
  PROVE  Good
<1>1. owner[c] \in Client /\ ServerUnchanged
  BY DEF Receives, C!Receiver
<1> QED BY <1>1, HandlerStartStep, HandlerTestStep, HandlerReceiveStep, HandlerEofStep
     DEF Receives, C!Receiver

LEMMA SystemStep ==
  ASSUME ServerAssumption, ConferenceAssumption, AllTyped, SystemInv,
         [SystemNext]_allVars
  PROVE  Good
<1>1. CASE UNCHANGED allVars
  <2>1. [Next]_vars
    BY <1>1 DEF allVars
  <2>2. ClientTypes' /\ NamesKnown' /\ SocketsOpened' /\ NothingBehindClosed'
    BY <1>1 DEF allVars, vars, entry, clientVars, SystemInv, ClientTypes, C!ClientTypeOK,
       NamesKnown, SocketsOpened, Opened, NothingBehindClosed
  <2> QED BY <2>1, <2>2, GoodStep
<1>2. CASE SystemNext
  <2>1. CASE UNCHANGED clientVars /\ (MainExit \/ \E c \in Conn : Handler(c))
    BY <2>1, ServerStep DEF Good
  <2>2. CASE \E c \in Conn : Receives(c)
    BY <2>2, ReceivesStep
  <2>3. CASE \E p \in Client : Types(p) \/ Proceeds(p)
    BY <2>3, TypesStep, ProceedsStep
  <2> QED BY <1>2, <2>1, <2>2, <2>3 DEF SystemNext, Serves
<1> QED BY <1>1, <1>2

LEMMA SystemBegin ==
  ASSUME ServerAssumption, ConferenceAssumption, SystemInit
  PROVE  Init /\ SystemInv
<1>1. Init /\ Inv
  BY InitInv DEF SystemInit
<1>2. ClientTypes
  <2>1. <<>> \in Seq(Conn \cup {C!NoThread})
    OBVIOUS
  <2> QED BY <2>1 DEF SystemInit, C!ClientInit, ClientTypes, C!ClientTypeOK
<1>3. NamesKnown /\ SocketsOpened /\ NothingBehindClosed
  BY DEF SystemInit, Init, C!ClientInit, NamesKnown, Names, SocketsOpened, Opened,
     NothingBehindClosed, C!NoSocket, NoSocket, Conn
<1> QED BY <1>1, <1>2, <1>3 DEF SystemInv

\* The programs of client.c are clients as the server is proved for, whatever
\* their users type and however soon: every step of the composition is a step
\* of the server, one that its environment may take, or none of either.
THEOREM ClientsKeepToServer ==
  ASSUME Greeting \cup Request \subseteq Traffic
  PROVE  SystemSpec => Spec
<1>1. AllTyped
  BY DEF AllTyped
<1>2. SystemInit => Init /\ SystemInv
  BY SystemBegin, ServerAssumption, ConferenceAssumption
<1>3. SystemInv /\ [SystemNext]_allVars => [Next]_vars /\ SystemInv'
  BY <1>1, SystemStep, ServerAssumption, ConferenceAssumption DEF Good
<1> QED BY <1>2, <1>3, PTL DEF SystemSpec, Spec

\* What the steps keep about the clients, their types among it.
LEMMA SystemAlways ==
  ASSUME Greeting \cup Request \subseteq Traffic
  PROVE  SystemSpec => []SystemInv
<1>1. AllTyped
  BY DEF AllTyped
<1>2. SystemInit => SystemInv
  BY SystemBegin, ServerAssumption, ConferenceAssumption
<1>3. SystemInv /\ [SystemNext]_allVars => SystemInv'
  BY <1>1, SystemStep, ServerAssumption, ConferenceAssumption DEF Good
<1> QED BY <1>2, <1>3, PTL DEF SystemSpec

\* What was proved of the server with any clients holds with these clients.
COROLLARY ServerTheoremsHold ==
  ASSUME Greeting \cup Request \subseteq Traffic
  PROVE  SystemSpec => /\ []SessionNotOverfull /\ []AdminInSession
                       /\ []OnlineSocketServed /\ ImplementsRooms
<1>1. SystemSpec => Spec
  BY ClientsKeepToServer
<1> QED BY <1>1, SessionNeverOverfull, AdminAlwaysInSession, OnlineSocketAlwaysServed,
           ServerImplementsRooms

=============================================================================
