---------------------------- MODULE PatientProofs ----------------------------
(***************************************************************************)
(* What the conference promises to patient users: those who wait until     *)
(* their last command is settled before they type the next, but for chat,  *)
(* which has no answer to wait for, each with an account of their own.     *)
(* Then what a client shows is what the server holds, up to the replies    *)
(* still on their way, and what the server never tests is tested by the    *)
(* clients.                                                                *)
(*                                                                         *)
(* Two more conditions are in the statements, because the code breaks      *)
(* without them: a recv() that returns several messages, of which the code *)
(* reads the first, loses nothing but chat (ChatLossSpec), and no process  *)
(* has used up its thread_number threads (ThreadsLeft).                    *)
(***************************************************************************)
EXTENDS ConferenceProofs, SequenceTheorems

Patient ==
  /\ Hasty \subseteq {"MESSAGE"}
  /\ \A p, q \in Client : \A m \in Account[p], n \in Account[q] :
       m.source = n.source => p = q

\* No process ends by itself because it has counted thread_number threads.
ThreadsLeft == \A p \in Client : C!thread_count(p) < thread_number

-----------------------------------------------------------------------------
(* Replies on their way.                                                   *)

Lacks(q, T) == \A i \in 1..Len(q) : q[i].type \notin T
LastOf(q, T, i) ==
  i \in 1..Len(q) /\ q[i].type \in T /\ \A j \in (i + 1)..Len(q) : q[j].type \notin T

Answers == {"LO_ACK", "RG_ACK", "LO_NAK", "RG_NAK"}
Entries == {"JN_ACK", "NS_ACK"}
Moves   == {"JN_ACK", "NS_ACK", "JN_NAK", "KI_MESSAGE"}
Ranks   == {"JN_ACK", "JN_NAK", "PM_ACK", "NS_ACK", "PM_MESSAGE"}

\* A process that shows s will show v when it has read the replies in q.
WillShow(q, s, v) ==
  \/ Lacks(q, Moves) /\ v = s
  \/ \E i \in 1..Len(q) : LastOf(q, Moves, i) /\ v = C!NewSessionStatus(q[i], s)
WillRank(q, r, v) ==
  \/ Lacks(q, Ranks) /\ v = r
  \/ \E i \in 1..Len(q) : LastOf(q, Ranks, i) /\ v = C!NewRole(q[i], r)

-----------------------------------------------------------------------------
(* The invariant: the states of the conversation of a process with the     *)
(* thread that serves its last connection.                                 *)

\* The thread of c serves the user whose name it holds.
Speaks(c) ==
  server_connection_status[c] = "ONLINE" /\ pc[c] \in {"recv", "leave", "offline"}

\* The LOGIN or CREATE of the process is under way.
Waits(c) ==
  /\ pc[c] = "recv" /\ server_connection_status[c] = "OFFLINE" /\ outbox[c] = <<>>
  /\ \E m \in Account[owner[c]] : inbox[c] = <<m>>
Verified(c) ==
  /\ pc[c] = "login" /\ server_connection_status[c] = "ONLINE"
  /\ inbox[c] = <<>> /\ outbox[c] = <<>>
Refused(c) ==
  /\ pc[c] = "recv" /\ server_connection_status[c] = "OFFLINE" /\ inbox[c] = <<>>
  /\ \E m \in Reply : C!Refuses(m) /\ outbox[c] = <<m>>
Accepted(c) ==
  /\ pc[c] = "recv" /\ Speaks(c) /\ in_session[source[c]] = "OFFLINE" /\ inbox[c] = <<>>
  /\ \E m \in Reply : C!Accepts(m) /\ m.source = source[c] /\ outbox[c] = <<m>>

Asking(p, c) ==
  /\ main[p] = "command" /\ verified_access[p] = "OFF" /\ termination_signal[p] = "OFF"
  /\ client_connection_status[p] = "ONLINE" /\ session_status[p] = "OFFLINE"
  /\ peer[c] = "open" /\ handler[c] \in {"start", "test", "recv"}
  /\ Waits(c) \/ Verified(c) \/ Refused(c) \/ Accepted(c)

LeaveMessage == [type |-> "LEAVE_SESS"]
ExitMessage  == [type |-> "EXIT"]

\* The process has left its session and nothing will bring it into another.
HasLeft(p, c) ==
  /\ session_status[p] = "OFFLINE" /\ Lacks(outbox[c], Entries)
  /\ WillShow(outbox[c], "OFFLINE", "OFFLINE")

\* A request is one that the server may take as it is.
Meant(p, c, m) ==
  /\ m \in Request /\ m.type # "EXIT"
  /\ m.type \in {"JOIN", "NEW_SESS"} => in_session[source[c]] = "OFFLINE"
  /\ m.type \in {"KICK", "PROMOTE"} => role[source[c]] = "ADMIN"
  /\ m.type = "LEAVE_SESS" => m = LeaveMessage /\ HasLeft(p, c)
  /\ m.type \in Typed \cup {"LEAVE_SESS"}

\* Lines of chat, which may be sent behind another request.
Chats(q) ==
  \A i \in 1..Len(q) : q[i] \in Request /\ q[i].type \in {"MESSAGE"} \cap Typed

\* Nothing waits, or one request that is meant, with chat behind it.  There is
\* none behind a leave.
Queued(p, c) ==
  \/ inbox[c] = <<>>
  \/ /\ inbox[c] # <<>> /\ Meant(p, c, Head(inbox[c]))
     /\ Head(inbox[c]).type = "LEAVE_SESS" => inbox[c] = <<LeaveMessage>>
     /\ Chats(Tail(inbox[c]))

InStep(p, c) ==
  /\ WillShow(outbox[c], session_status[p], in_session[source[c]])
  /\ in_session[source[c]] = "ONLINE" =>
       WillRank(outbox[c], client_role[p], role[source[c]])

\* Logged in.
Within(p, c) ==
  /\ main[p] \in {"command", "logout", "quit"} /\ verified_access[p] = "ON"
  /\ termination_signal[p] = "OFF" /\ client_connection_status[p] = "ONLINE"
  /\ name[p] = source[c] /\ pc[c] = "recv" /\ Speaks(c) /\ peer[c] = "open"
  /\ handler[c] \in {"test", "recv"}
  /\ Lacks(outbox[c], Answers)
  /\ Queued(p, c)
  /\ main[p] # "command" => HasLeft(p, c) /\ inbox[c] \in {<<>>, <<LeaveMessage>>}
  /\ inbox[c] # <<LeaveMessage>> => InStep(p, c)

\* Logged out, or refused.
Ending(c) ==
  \/ inbox[c] \in {<<ExitMessage>>, <<LeaveMessage, ExitMessage>>} /\ Speaks(c) /\ pc[c] = "recv"
  \/ inbox[c] = <<>> /\ pc[c] \in {"leave", "offline"} /\ Speaks(c)
  \/ inbox[c] = <<>> /\ pc[c] = "closed"
  \/ /\ inbox[c] = <<>> /\ pc[c] = "recv" /\ server_connection_status[c] = "OFFLINE"
     /\ peer[c] = "closed" /\ handler[c] = "stopped"

LoggedOut(p) ==
  /\ main[p] \in {"command", "joining", "ended", "crashed"} /\ verified_access[p] = "OFF"
  /\ client_connection_status[p] = "OFFLINE" /\ session_status[p] = "OFFLINE"
  /\ main[p] = "command" => termination_signal[p] = "OFF"

Without(p, c) ==
  /\ LoggedOut(p) /\ handler[c] \in {"test", "recv", "stopped"}
  /\ Lacks(outbox[c], Answers) /\ Lacks(outbox[c], Entries)
  /\ Ending(c)

\* A connection that the process has left behind.
Dead(c) == pc[c] = "closed" /\ inbox[c] = <<>> /\ outbox[c] = <<>> /\ handler[c] = "stopped"

Conversation(c) ==
  LET p == owner[c] IN
    IF p = NoClient THEN pc[c] = "none" /\ inbox[c] = <<>> /\ outbox[c] = <<>>
    ELSE IF socket_file_dscriptor[p] = c
           THEN Asking(p, c) \/ Within(p, c) \/ Without(p, c)
           ELSE Dead(c)

ProcessSocket(p) ==
  /\ socket_file_dscriptor[p] = NoSocket => LoggedOut(p)
  /\ socket_file_dscriptor[p] # NoSocket => owner[socket_file_dscriptor[p]] = p

\* What the thread of c knows of its user.
OwnUser(c) ==
  /\ Speaks(c) \/ pc[c] = "login" => \E m \in Account[owner[c]] : source[c] = m.source
  /\ Speaks(c) => status[source[c]] = "ONLINE"
  /\ pc[c] = "offline" => in_session[source[c]] = "OFFLINE"

Captured(c) == handler[c] \in {"test", "recv"} => server_reply_socket[c] = c

ServerInv ==
  /\ \A u \in User : in_session[u] = "ONLINE" => status[u] = "ONLINE"
  /\ server # "crashed"
  /\ server = "exited" => \A c \in Conn : pc[c] = "closed"

PatientInv ==
  /\ \A c \in Conn : Conversation(c) /\ OwnUser(c) /\ Captured(c)
  /\ \A p \in Client : ProcessSocket(p)
  /\ ServerInv

-----------------------------------------------------------------------------
(* Replies added at the end and read from the front.                       *)

LEMMA EmptyQueue ==
  /\ \A T : Lacks(<<>>, T)
  /\ \A s, v : WillShow(<<>>, s, v) <=> v = s
  /\ \A s, v : WillRank(<<>>, s, v) <=> v = s
<1>1. 1..Len(<<>>) = {}
  OBVIOUS
<1> QED BY <1>1 DEF Lacks, WillShow, WillRank

LEMMA LacksAppend ==
  ASSUME NEW q \in Seq(Reply), NEW m \in Reply, NEW T, Lacks(q, T), m.type \notin T
  PROVE  Lacks(Append(q, m), T)
BY DEF Lacks

\* A recv() has returned the messages at the head of q, of which the first is
\* read, and has left those in r.
Reads(q, r) ==
  \E n \in 1..Len(q) :
    r = SubSeq(q, n + 1, Len(q)) /\ \A i \in 2..n : q[i].type = "MESSAGE"

\* It has returned n of them.
Took(q, r, n) ==
  /\ n \in 1..Len(q) /\ Len(q) \in Nat /\ Len(r) = Len(q) - n
  /\ \A j \in 1..Len(r) : j + n \in 1..Len(q) /\ r[j] = q[j + n]
  /\ \A i \in 2..n : q[i].type = "MESSAGE"

LEMMA ReadsShape ==
  ASSUME NEW S, NEW q \in Seq(S), q # <<>>, NEW r, Reads(q, r)
  PROVE  /\ r \in Seq(S) /\ Head(q) = q[1] /\ 1 \in 1..Len(q)
         /\ \E n : Took(q, r, n)
<1>1. PICK n \in 1..Len(q) :
        r = SubSeq(q, n + 1, Len(q)) /\ \A i \in 2..n : q[i].type = "MESSAGE"
  BY DEF Reads
<1>2. Len(q) \in Nat /\ Head(q) = q[1] /\ 1 \in 1..Len(q)
  OBVIOUS
<1>3. r \in Seq(S) /\ Len(r) = Len(q) - n
  BY <1>1, <1>2
<1>4. ASSUME NEW j \in 1..Len(r)
      PROVE  j + n \in 1..Len(q) /\ r[j] = q[j + n]
  <2>1. j + n \in 1..Len(q) /\ (n + 1) + j - 1 = j + n /\ j \in 1..((Len(q) - (n + 1)) + 1)
    BY <1>2, <1>3
  <2>2. r = SubSeq(q, n + 1, Len(q))
    BY <1>1
  <2>3. r[j] = q[(n + 1) + j - 1]
    BY <1>2, <2>1, <2>2
  <2> QED BY <2>1, <2>3
<1>5. \A i \in 2..n : q[i].type = "MESSAGE"
  BY <1>1
<1>6. Took(q, r, n)
  BY <1>2, <1>3, <1>4, <1>5, Zenon DEF Took
<1> QED BY <1>2, <1>3, <1>6

LEMMA ReadsOne ==
  ASSUME NEW S, NEW m \in S, NEW r, Reads(<<m>>, r)
  PROVE  r = <<>>
<1>1. PICK q : q = <<m>>
  OBVIOUS
<1>2. q \in Seq(S) /\ q # <<>> /\ Len(q) = 1
  BY <1>1
<1>3. r \in Seq(S) /\ \E n : Took(q, r, n)
  BY <1>1, <1>2, ReadsShape
<1>4. Len(r) = 0
  BY <1>2, <1>3 DEF Took
<1> QED BY <1>3, <1>4

LEMMA LacksRead ==
  ASSUME NEW q \in Seq(Reply), q # <<>>, NEW r, Reads(q, r), NEW T, Lacks(q, T)
  PROVE  Lacks(r, T) /\ Head(q).type \notin T
<1>1. PICK n : Took(q, r, n)
  BY ReadsShape
<1>2. Head(q) = q[1] /\ 1 \in 1..Len(q)
  BY ReadsShape
<1> QED BY <1>1, <1>2 DEF Took, Lacks

\* The last message of some kind in a longer and in a shorter queue.
LEMMA LastAppend ==
  ASSUME NEW q \in Seq(Reply), NEW m \in Reply, NEW T
  PROVE  /\ m.type \in T => LastOf(Append(q, m), T, Len(q) + 1)
         /\ \A i \in 1..Len(q) : m.type \notin T /\ LastOf(q, T, i) =>
              LastOf(Append(q, m), T, i) /\ Append(q, m)[i] = q[i]
         /\ Append(q, m)[Len(q) + 1] = m /\ Len(q) + 1 \in 1..Len(Append(q, m))
         /\ \A i \in 1..Len(q) : i \in 1..Len(Append(q, m))
<1>1. /\ Len(Append(q, m)) = Len(q) + 1 /\ Len(q) \in Nat
      /\ Append(q, m)[Len(q) + 1] = m
      /\ \A i \in 1..Len(q) : Append(q, m)[i] = q[i]
  OBVIOUS
<1>2. m.type \in T => LastOf(Append(q, m), T, Len(q) + 1)
  BY <1>1 DEF LastOf
<1>3. ASSUME NEW i \in 1..Len(q), m.type \notin T, LastOf(q, T, i)
      PROVE  LastOf(Append(q, m), T, i) /\ Append(q, m)[i] = q[i]
  <2>1. ASSUME NEW j \in (i + 1)..Len(Append(q, m))
        PROVE  Append(q, m)[j].type \notin T
    <3>1. CASE j \in (i + 1)..Len(q)
      BY <1>1, <1>3, <3>1 DEF LastOf
    <3>2. CASE j = Len(q) + 1
      BY <1>1, <1>3, <3>2
    <3> QED BY <1>1, <3>1, <3>2
  <2> QED BY <1>1, <1>3, <2>1 DEF LastOf
<1> QED BY <1>1, <1>2, <1>3

LEMMA LastRead ==
  ASSUME NEW q \in Seq(Reply), q # <<>>, NEW r, Reads(q, r), NEW T, "MESSAGE" \notin T,
         NEW i \in 1..Len(q), LastOf(q, T, i)
  PROVE  \/ i = 1 /\ q[1] = Head(q) /\ Lacks(r, T)
         \/ \E j \in 1..Len(r) : r[j] = q[i] /\ LastOf(r, T, j)
<1>0. PICK n : Took(q, r, n)
  BY ReadsShape
<1>1. /\ n \in 1..Len(q) /\ Len(r) = Len(q) - n /\ Len(q) \in Nat
      /\ \A j \in 1..Len(r) : j + n \in 1..Len(q) /\ r[j] = q[j + n]
      /\ \A j \in 2..n : q[j].type = "MESSAGE"
  BY <1>0 DEF Took
<1>2. Head(q) = q[1] /\ i \in Nat
  BY ReadsShape
<1>3. CASE i = 1
  <2>1. \A j \in 1..Len(r) : j + n \in (i + 1)..Len(q)
    BY <1>1, <1>3
  <2> QED BY <1>1, <1>2, <1>3, <2>1 DEF LastOf, Lacks
<1>4. CASE i # 1
  <2>1. i \notin 2..n
    BY <1>1 DEF LastOf
  <2>2. i - n \in 1..Len(r) /\ r[i - n] = q[i]
    BY <1>1, <1>2, <1>4, <2>1
  <2>3. ASSUME NEW j \in ((i - n) + 1)..Len(r)
        PROVE  r[j].type \notin T
    <3>1. j + n \in (i + 1)..Len(q) /\ r[j] = q[j + n]
      BY <1>1, <1>2, <2>2
    <3> QED BY <3>1 DEF LastOf
  <2>4. LastOf(r, T, i - n)
    BY <2>2, <2>3 DEF LastOf
  <2> QED BY <2>2, <2>4
<1> QED BY <1>3, <1>4

LEMMA ShowAppend ==
  ASSUME NEW q \in Seq(Reply), NEW m \in Reply, NEW s, NEW v, WillShow(q, s, v)
  PROVE  WillShow(Append(q, m), s, C!NewSessionStatus(m, v))
<1>1. CASE m.type \in Moves
  <2>1. C!NewSessionStatus(m, v) = C!NewSessionStatus(m, s)
    BY <1>1 DEF Moves, C!NewSessionStatus
  <2> QED BY <1>1, <2>1, LastAppend DEF WillShow
<1>2. CASE m.type \notin Moves
  <2>1. C!NewSessionStatus(m, v) = v
    BY <1>2 DEF Moves, C!NewSessionStatus
  <2> QED BY <1>2, <2>1, LastAppend, LacksAppend DEF WillShow
<1> QED BY <1>1, <1>2

LEMMA RankAppend ==
  ASSUME NEW q \in Seq(Reply), NEW m \in Reply, NEW s, NEW v, WillRank(q, s, v)
  PROVE  WillRank(Append(q, m), s, C!NewRole(m, v))
<1>1. CASE m.type \in Ranks
  <2>1. C!NewRole(m, v) = C!NewRole(m, s)
    BY <1>1 DEF Ranks, C!NewRole
  <2> QED BY <1>1, <2>1, LastAppend DEF WillRank
<1>2. CASE m.type \notin Ranks
  <2>1. C!NewRole(m, v) = v
    BY <1>2 DEF Ranks, C!NewRole
  <2> QED BY <1>2, <2>1, LastAppend, LacksAppend DEF WillRank
<1> QED BY <1>1, <1>2

\* A message about the role settles it, whatever came before.
LEMMA RankSet ==
  ASSUME NEW q \in Seq(Reply), NEW m \in Reply, NEW s, m.type \in Ranks
  PROVE  WillRank(Append(q, m), s, C!NewRole(m, s))
BY LastAppend DEF WillRank

LEMMA ShowRead ==
  ASSUME NEW q \in Seq(Reply), q # <<>>, NEW r, Reads(q, r), NEW s, NEW v, WillShow(q, s, v)
  PROVE  WillShow(r, C!NewSessionStatus(Head(q), s), v)
<1>0. "MESSAGE" \notin Moves
  BY DEF Moves
<1>1. CASE Lacks(q, Moves) /\ v = s
  <2>1. Lacks(r, Moves) /\ Head(q).type \notin Moves
    BY <1>1, LacksRead
  <2> QED BY <1>1, <2>1 DEF WillShow, Moves, C!NewSessionStatus
<1>2. ASSUME NEW i \in 1..Len(q), LastOf(q, Moves, i), v = C!NewSessionStatus(q[i], s)
      PROVE  WillShow(r, C!NewSessionStatus(Head(q), s), v)
  <2>1. CASE i = 1 /\ q[1] = Head(q) /\ Lacks(r, Moves)
    BY <1>2, <2>1 DEF WillShow
  <2>2. ASSUME NEW j \in 1..Len(r), r[j] = q[i], LastOf(r, Moves, j)
        PROVE  WillShow(r, C!NewSessionStatus(Head(q), s), v)
    <3>1. v = C!NewSessionStatus(q[i], C!NewSessionStatus(Head(q), s))
      BY <1>2 DEF LastOf, Moves, C!NewSessionStatus
    <3> QED BY <2>2, <3>1 DEF WillShow
  <2> QED BY <1>0, <1>2, <2>1, <2>2, LastRead
<1> QED BY <1>1, <1>2 DEF WillShow

LEMMA RankRead ==
  ASSUME NEW q \in Seq(Reply), q # <<>>, NEW r, Reads(q, r), NEW s, NEW v, WillRank(q, s, v)
  PROVE  WillRank(r, C!NewRole(Head(q), s), v)
<1>0. "MESSAGE" \notin Ranks
  BY DEF Ranks
<1>1. CASE Lacks(q, Ranks) /\ v = s
  <2>1. Lacks(r, Ranks) /\ Head(q).type \notin Ranks
    BY <1>1, LacksRead
  <2> QED BY <1>1, <2>1 DEF WillRank, Ranks, C!NewRole
<1>2. ASSUME NEW i \in 1..Len(q), LastOf(q, Ranks, i), v = C!NewRole(q[i], s)
      PROVE  WillRank(r, C!NewRole(Head(q), s), v)
  <2>1. CASE i = 1 /\ q[1] = Head(q) /\ Lacks(r, Ranks)
    BY <1>2, <2>1 DEF WillRank
  <2>2. ASSUME NEW j \in 1..Len(r), r[j] = q[i], LastOf(r, Ranks, j)
        PROVE  WillRank(r, C!NewRole(Head(q), s), v)
    <3>1. v = C!NewRole(q[i], C!NewRole(Head(q), s))
      BY <1>2 DEF LastOf, Ranks, C!NewRole
    <3> QED BY <2>2, <3>1 DEF WillRank
  <2> QED BY <1>0, <1>2, <2>1, <2>2, LastRead
<1> QED BY <1>1, <1>2 DEF WillRank


-----------------------------------------------------------------------------
(* Requests that wait.                                                     *)

LEMMA ChatsTail ==
  ASSUME NEW q \in Seq(Greeting \cup Request), q # <<>>, Chats(q)
  PROVE  Head(q) \in Request /\ Head(q).type \in {"MESSAGE"} \cap Typed /\ Chats(Tail(q))
<1>1. 1 \in 1..Len(q) /\ Head(q) = q[1]
  OBVIOUS
<1>2. \A i \in 1..Len(Tail(q)) : i + 1 \in 1..Len(q) /\ Tail(q)[i] = q[i + 1]
  OBVIOUS
<1> QED BY <1>1, <1>2 DEF Chats

LEMMA ChatsAppend ==
  ASSUME NEW q \in Seq(Greeting \cup Request), Chats(q), NEW m \in Request,
         m.type \in {"MESSAGE"} \cap Typed
  PROVE  Chats(Append(q, m))
BY DEF Chats

LEMMA QueueAppend ==
  ASSUME NEW S, NEW q \in Seq(S), NEW m \in S
  PROVE  /\ Append(q, m) # <<>> /\ Append(q, m) \in Seq(S)
         /\ q = <<>> => Append(q, m) = <<m>> /\ Head(Append(q, m)) = m
         /\ q # <<>> => /\ Head(Append(q, m)) = Head(q)
                        /\ Tail(Append(q, m)) = Append(Tail(q), m)
                        /\ Tail(q) \in Seq(S)
<1>1. Append(q, m) # <<>> /\ Append(q, m) \in Seq(S) /\ (q # <<>> => Tail(q) \in Seq(S))
  BY AppendProperties, HeadTailProperties
<1>2. q = <<>> => Append(q, m) = <<m>> /\ Head(Append(q, m)) = m
  OBVIOUS
<1>3. q # <<>> => Head(Append(q, m)) = Head(q)
  OBVIOUS
<1>4. q # <<>> => Tail(Append(q, m)) = Append(Tail(q), m)
  BY HeadTailAppend
<1> QED BY <1>1, <1>2, <1>3, <1>4

LEMMA NoChats == Chats(<<>>)
<1>1. 1..Len(<<>>) = {}
  OBVIOUS
<1> QED BY <1>1 DEF Chats

\* A request by itself, and chat, which is meant whatever the server has done before.
LEMMA OneQueued ==
  ASSUME NEW p, NEW c, NEW m \in Request, inbox'[c] = <<m>>, Meant(p, c, m)'
  PROVE  Queued(p, c)'
<1>1. <<m>> # <<>> /\ Head(<<m>>) = m /\ Tail(<<m>>) = <<>>
  OBVIOUS
<1> QED BY <1>1, NoChats DEF Queued, Meant

LEMMA ChatsLeft ==
  ASSUME NEW p, NEW c, inbox'[c] \in Seq(Greeting \cup Request), Chats(inbox'[c])
  PROVE  Queued(p, c)'
<1>1. CASE inbox'[c] = <<>>
  BY <1>1 DEF Queued
<1>2. CASE inbox'[c] # <<>>
  BY <1>2, ChatsTail DEF Queued, Meant
<1> QED BY <1>1, <1>2

-----------------------------------------------------------------------------
(* Who serves whom.                                                        *)

Context ==
  ServerAssumption /\ ConferenceAssumption /\ Patient /\ SystemInv /\ OnlineSocketServed
  /\ PatientInv

LEMMA Types0 ==
  ASSUME Context
  PROVE  /\ TypeOK /\ C!ClientTypeOK /\ NoClient \notin Client /\ NoSocket \notin Conn
         /\ outbox \in [Conn -> Seq(Reply)] /\ inbox \in [Conn -> Seq(Greeting \cup Request)]
         /\ \A p \in Client : Account[p] \subseteq Greeting
BY DEF Context, SystemInv, Inv, TypeOK, ClientTypes, ConferenceAssumption, NoSocket, Conn

\* A thread that is busy with a user serves the current connection of a process.
LEMMA BusyOwner ==
  ASSUME Context, NEW c \in Conn, pc[c] \notin {"none", "closed"}
  PROVE  /\ owner[c] \in Client /\ socket_file_dscriptor[owner[c]] = c
         /\ Asking(owner[c], c) \/ Within(owner[c], c) \/ Without(owner[c], c)
<1>1. Conversation(c) /\ owner[c] \in Client \cup {NoClient}
  BY Types0 DEF Context, PatientInv, C!ClientTypeOK
<1> QED BY <1>1 DEF Conversation, Dead

LEMMA OneThread ==
  ASSUME Context, NEW c \in Conn, NEW d \in Conn,
         Speaks(c) \/ pc[c] = "login", Speaks(d) \/ pc[d] = "login", source[c] = source[d]
  PROVE  c = d
<1>1. owner[c] \in Client /\ socket_file_dscriptor[owner[c]] = c
  BY BusyOwner DEF Speaks
<1>2. owner[d] \in Client /\ socket_file_dscriptor[owner[d]] = d
  BY BusyOwner DEF Speaks
<1>3. /\ \E m \in Account[owner[c]] : source[c] = m.source
      /\ \E m \in Account[owner[d]] : source[d] = m.source
  BY DEF Context, PatientInv, OwnUser
<1>4. owner[c] = owner[d]
  BY <1>1, <1>2, <1>3 DEF Context, Patient
<1> QED BY <1>1, <1>2, <1>4

\* What is sent to the socket of an online user reaches the thread that serves
\* this user.
LEMMA Reached ==
  ASSUME Context, NEW u \in User, status[u] = "ONLINE"
  PROVE  /\ socket_fd[u] \in Conn /\ Speaks(socket_fd[u]) /\ source[socket_fd[u]] = u
         /\ \A c \in Conn : Speaks(c) /\ source[c] = u => socket_fd[u] = c
<1>1. \E c \in Conn : socket_fd[u] = c /\ source[c] = u /\ Speaks(c)
  BY DEF Context, OnlineSocketServed, Speaks
<1> QED BY <1>1, OneThread

LEMMA SpeakerServed ==
  ASSUME Context, NEW c \in Conn, Speaks(c)
  PROVE  /\ source[c] \in User /\ source[c] \in database
         /\ status[source[c]] = "ONLINE" /\ socket_fd[source[c]] = c
<1>1. source[c] \in database /\ database \subseteq User
  BY DEF Context, SystemInv, Inv, Registered, Speaks, TypeOK
<1>2. status[source[c]] = "ONLINE"
  BY DEF Context, PatientInv, OwnUser
<1> QED BY <1>1, <1>2, Reached

\* Only online users are in a session, and only those have a role in it.
LEMMA InSessionOnline ==
  ASSUME Context, NEW u \in User
  PROVE  /\ in_session[u] = "ONLINE" => status[u] = "ONLINE" /\ u \in database
         /\ role[u] = "ADMIN" => in_session[u] = "ONLINE"
         /\ session_id[u] # NotInSession <=> in_session[u] = "ONLINE"
BY DEF Context, PatientInv, ServerInv, SystemInv, Inv, AdminInSession, Registered, MembershipAgrees

-----------------------------------------------------------------------------
(* Who is told what.                                                       *)

Untold(c) == outbox'[c] = outbox[c]
Told(c, m) ==
  outbox'[c] = IF peer[c] = "open" THEN Append(outbox[c], m) ELSE outbox[c]

LEMMA SendOne ==
  ASSUME Context, NEW fd, NEW m \in Reply, Send(To(fd, m))
  PROVE  \A c \in Conn : IF c = fd THEN Told(c, m) ELSE Untold(c)
<1> SUFFICES ASSUME NEW c \in Conn
             PROVE  IF c = fd THEN Told(c, m) ELSE Untold(c)
  OBVIOUS
<1>1. outbox[c] \in Seq(Reply)
  BY Types0
<1>2. outbox'[c] = IF peer[c] = "open" THEN outbox[c] \o To(fd, m)[c] ELSE outbox[c]
  BY DEF Send
<1>3. CASE c = fd
  <2>1. To(fd, m)[c] = <<m>>
    BY <1>3 DEF To
  <2>2. outbox[c] \o <<m>> = Append(outbox[c], m)
    BY <1>1
  <2> QED BY <1>2, <1>3, <2>1, <2>2 DEF Told
<1>4. CASE c # fd
  <2>1. To(fd, m)[c] = <<>>
    BY <1>4 DEF To
  <2>2. outbox[c] \o <<>> = outbox[c]
    BY <1>1
  <2> QED BY <1>2, <1>4, <2>1, <2>2 DEF Untold
<1> QED BY <1>3, <1>4

LEMMA SendTwo ==
  ASSUME Context, NEW a, NEW m \in Reply, NEW b, NEW n \in Reply, a # b,
         Send(Then(To(a, m), To(b, n)))
  PROVE  \A c \in Conn : IF c = a THEN Told(c, m) ELSE IF c = b THEN Told(c, n) ELSE Untold(c)
<1> SUFFICES ASSUME NEW c \in Conn
             PROVE  IF c = a THEN Told(c, m) ELSE IF c = b THEN Told(c, n) ELSE Untold(c)
  OBVIOUS
<1>1. outbox[c] \in Seq(Reply)
  BY Types0
<1>2. outbox'[c] = IF peer[c] = "open" THEN outbox[c] \o (To(a, m)[c] \o To(b, n)[c])
                                       ELSE outbox[c]
  BY DEF Send, Then
<1>3. /\ To(a, m)[c] = IF c = a THEN <<m>> ELSE <<>>
      /\ To(b, n)[c] = IF c = b THEN <<n>> ELSE <<>>
  BY DEF To
<1>4. /\ outbox[c] \o (<<m>> \o <<>>) = Append(outbox[c], m)
      /\ outbox[c] \o (<<>> \o <<n>>) = Append(outbox[c], n)
      /\ outbox[c] \o (<<>> \o <<>>) = outbox[c]
  BY <1>1
<1> QED BY <1>2, <1>3, <1>4 DEF Told, Untold

LEMMA SendAll ==
  ASSUME Context, NEW U, NEW m \in Reply, Send(ToAll(U, m))
  PROVE  \A c \in Conn : IF \E v \in U : socket_fd[v] = c THEN Told(c, m) ELSE Untold(c)
<1> SUFFICES ASSUME NEW c \in Conn
             PROVE  IF \E v \in U : socket_fd[v] = c THEN Told(c, m) ELSE Untold(c)
  OBVIOUS
<1>1. outbox[c] \in Seq(Reply)
  BY Types0
<1>2. outbox'[c] = IF peer[c] = "open" THEN outbox[c] \o ToAll(U, m)[c] ELSE outbox[c]
  BY DEF Send
<1>3. ToAll(U, m)[c] = IF \E v \in U : socket_fd[v] = c THEN <<m>> ELSE <<>>
  BY DEF ToAll
<1>4. outbox[c] \o <<m>> = Append(outbox[c], m) /\ outbox[c] \o <<>> = outbox[c]
  BY <1>1
<1> QED BY <1>2, <1>3, <1>4 DEF Told, Untold

-----------------------------------------------------------------------------
(* What a step of the thread of one connection does to another one.        *)

Overhears(c, m) ==
  LET u == source[c] IN
    /\ Speaks(c) /\ in_session[u] = "ONLINE"
    /\ m.type \in {"MESSAGE", "KI_MESSAGE", "PM_MESSAGE"} /\ Told(c, m)
    /\ in_session'[u] = C!NewSessionStatus(m, in_session[u])
    /\ role'[u] = C!NewRole(m, role[u])

Overlooked(c) ==
  Untold(c) /\ (Speaks(c) => in_session'[source[c]] = in_session[source[c]]
                             /\ role'[source[c]] = role[source[c]])

\* The connection goes on as it was, but for a message that tells its process
\* of any change to the entry of its user.
Beside(c) ==
  /\ UNCHANGED <<pc[c], source[c], server_connection_status[c], inbox[c], peer[c]>>
  /\ Speaks(c) => status'[source[c]] = status[source[c]]
  /\ Overlooked(c) \/ \E m \in Reply : Overhears(c, m)

LEMMA BesideWithin ==
  ASSUME Context, NEW c \in Conn, NEW p \in Client, Within(p, c), Beside(c), UNCHANGED clientVars
  PROVE  Within(p, c)'
<1> DEFINE u == source[c]
<1>1. /\ outbox[c] \in Seq(Reply)
      /\ UNCHANGED <<pc[c], source[c], server_connection_status[c], inbox[c], peer[c],
                     main[p], verified_access[p], termination_signal[p],
                     client_connection_status[p], session_status[p], client_role[p],
                     name[p], handler[c]>>
  BY Types0 DEF Beside, clientVars
<1>2. CASE Overlooked(c)
  <2>1. UNCHANGED <<outbox[c], in_session[u], role[u]>>
    BY <1>1, <1>2 DEF Overlooked, Untold, Within
  <2> QED BY <1>1, <2>1 DEF Within, Speaks, Queued, Meant, HasLeft, InStep
<1>3. ASSUME NEW m \in Reply, Overhears(c, m)
      PROVE  Within(p, c)'
  <2>1. outbox'[c] = Append(outbox[c], m)
    BY <1>3 DEF Overhears, Told, Within
  <2>2. /\ in_session[u] = "ONLINE"
        /\ in_session'[u] = C!NewSessionStatus(m, in_session[u])
        /\ role'[u] = C!NewRole(m, role[u])
        /\ m.type \in {"MESSAGE", "KI_MESSAGE", "PM_MESSAGE"}
    BY <1>3 DEF Overhears
  <2>3. Lacks(outbox'[c], Answers)
    BY <1>1, <2>1, <2>2, LacksAppend DEF Within, Answers
  <2>4. HasLeft(p, c) => HasLeft(p, c)'
    <3> SUFFICES ASSUME HasLeft(p, c) PROVE HasLeft(p, c)'
      OBVIOUS
    <3>1. Lacks(outbox'[c], Entries)
      BY <1>1, <2>1, <2>2, LacksAppend DEF HasLeft, Entries
    <3>2. C!NewSessionStatus(m, "OFFLINE") = "OFFLINE"
      BY <2>2 DEF C!NewSessionStatus
    <3>3. WillShow(outbox'[c], "OFFLINE", "OFFLINE")
      BY <1>1, <2>1, <3>2, ShowAppend DEF HasLeft
    <3> QED BY <1>1, <3>1, <3>3 DEF HasLeft
  <2>5. InStep(p, c) => InStep(p, c)'
    <3> SUFFICES ASSUME InStep(p, c) PROVE InStep(p, c)'
      OBVIOUS
    <3>1. WillShow(outbox'[c], session_status[p], in_session'[u])
      BY <1>1, <2>1, <2>2, ShowAppend DEF InStep
    <3>2. WillRank(outbox'[c], client_role[p], role'[u])
      BY <1>1, <2>1, <2>2, RankAppend DEF InStep
    <3> QED BY <1>1, <3>1, <3>2 DEF InStep
  <2>6. ASSUME NEW n, Meant(p, c, n)
        PROVE  Meant(p, c, n)'
    <3>1. role[u] = "ADMIN" => role'[u] = "ADMIN"
      BY <2>2 DEF C!NewRole
    <3> QED BY <1>1, <2>2, <2>4, <2>6, <3>1 DEF Meant
  <2>7. Speaks(c)'
    BY <1>1 DEF Within, Speaks
  <2>8. Queued(p, c)'
    BY <1>1, <2>6 DEF Within, Queued
  <2> HIDE DEF u
  <2> QED BY <1>1, <2>3, <2>4, <2>5, <2>7, <2>8 DEF Within
<1> QED BY <1>2, <1>3 DEF Beside

LEMMA BesideConversation ==
  ASSUME Context, NEW c \in Conn, Beside(c), UNCHANGED clientVars
  PROVE  (Conversation(c) /\ OwnUser(c) /\ Captured(c))'
<1> DEFINE p == owner[c]
<1>1. /\ UNCHANGED <<pc[c], source[c], server_connection_status[c], inbox[c], peer[c]>>
      /\ UNCHANGED clientVars /\ outbox[c] \in Seq(Reply)
      /\ Conversation(c) /\ OwnUser(c) /\ Captured(c)
  BY Types0 DEF Beside, Context, PatientInv
<1>2. OwnUser(c)'
  <2>1. pc[c] = "offline" => Speaks(c)
    BY <1>1, BusyOwner DEF Asking, Waits, Verified, Refused, Accepted, Within, Without, Ending
  <2>2. pc[c] = "offline" => in_session'[source[c]] = "OFFLINE"
    BY <1>1, <2>1 DEF OwnUser, Beside, Overlooked, Overhears
  <2> QED BY <1>1, <2>2 DEF OwnUser, Beside, Speaks, clientVars
<1>3. ~ Speaks(c) \/ in_session[source[c]] = "OFFLINE" =>
        outbox'[c] = outbox[c] /\ (Speaks(c) => in_session'[source[c]] = in_session[source[c]])
  BY DEF Beside, Overlooked, Untold, Overhears
<1>4. CASE p = NoClient \/ socket_file_dscriptor[p] # c
  <2>1. ~ Speaks(c)
    BY <1>1, <1>4 DEF Conversation, Dead, Speaks
  <2> QED BY <1>1, <1>2, <1>3, <1>4, <2>1 DEF Conversation, Dead, Captured, clientVars
<1>5. CASE p # NoClient /\ socket_file_dscriptor[p] = c
  <2>1. p \in Client
    BY <1>5, Types0 DEF C!ClientTypeOK
  <2>2. CASE Asking(p, c)
    <3>1. Asking(p, c)'
      BY <1>1, <1>3, <2>2 DEF Asking, Waits, Verified, Refused, Accepted, Speaks, clientVars
    <3> QED BY <1>1, <1>2, <1>5, <3>1 DEF Conversation, Captured, clientVars
  <2>3. CASE Within(p, c)
    <3>1. \A q \in Client : Within(q, c) => Within(q, c)'
      BY BesideWithin
    <3>2. owner' = owner
      BY DEF clientVars
    <3>3. Within(p, c)'
      BY <2>1, <2>3, <3>1, <3>2
    <3> QED BY <1>1, <1>2, <1>5, <3>3 DEF Conversation, Captured, clientVars
  <2>4. CASE Without(p, c)
    <3>1. Lacks(outbox'[c], Answers) /\ Lacks(outbox'[c], Entries)
      BY <1>1, <2>4, LacksAppend
         DEF Without, Beside, Overlooked, Untold, Overhears, Told, Answers, Entries
    <3>2. Without(p, c)'
      BY <1>1, <2>4, <3>1 DEF Without, LoggedOut, Ending, Speaks, clientVars
    <3> QED BY <1>1, <1>2, <1>5, <3>2 DEF Conversation, Captured, clientVars
  <2> QED BY <1>1, <1>5, <2>2, <2>3, <2>4 DEF Conversation
<1> QED BY <1>4, <1>5

-----------------------------------------------------------------------------
(* The steps of a thread of the server, seen from the other connections.   *)

LEMMA ReceiveReads ==
  ASSUME Context, OnlyChatLost, NEW c \in Conn, inbox[c] # <<>>, Receive(c)
  PROVE  Reads(inbox[c], inbox'[c]) /\ inbox'[c] \in Seq(Greeting \cup Request)
<1> DEFINE q == inbox[c]
<1>1. q \in Seq(Greeting \cup Request) /\ Len(q) \in Nat \ {0}
  BY Types0
<1>2. PICK n \in 1..Len(q) : inbox' = [inbox EXCEPT ![c] = SubSeq(q, n + 1, Len(q))]
  <2>1. PICK n \in 1..(IF Coalesce THEN Len(q) ELSE 1) :
          inbox' = [inbox EXCEPT ![c] = SubSeq(q, n + 1, Len(q))]
    BY DEF Receive
  <2>2. n \in 1..Len(q)
    BY <1>1, <2>1
  <2> QED BY <2>1, <2>2
<1>3. inbox'[c] = SubSeq(q, n + 1, Len(q))
  BY <1>2, Types0
<1>4. Len(inbox'[c]) = Len(q) - n /\ inbox'[c] \in Seq(Greeting \cup Request)
  BY <1>1, <1>3
<1>5. \A i \in 2..(Len(q) - Len(inbox'[c])) : q[i].type = "MESSAGE"
  BY DEF OnlyChatLost, LosesChat
<1>6. Len(q) - Len(inbox'[c]) = n
  BY <1>1, <1>4
<1> QED BY <1>3, <1>4, <1>5, <1>6 DEF Reads

\* What is left of what the clients of patient users may have sent.
LEMMA ReceiveLeaves ==
  ASSUME Context, OnlyChatLost, NEW c \in Conn, inbox[c] # <<>>, Receive(c)
  PROVE  /\ \A m : inbox[c] = <<m>> => inbox'[c] = <<>>
         /\ inbox[c] = <<LeaveMessage, ExitMessage>> => inbox'[c] = <<ExitMessage>>
         /\ Chats(Tail(inbox[c])) => Chats(inbox'[c])
<1> DEFINE q == inbox[c]
           r == inbox'[c]
<1>1. q \in Seq(Greeting \cup Request) /\ r \in Seq(Greeting \cup Request)
  BY ReceiveReads, Types0
<1>0. PICK n : Took(q, r, n)
  <2>1. Reads(q, r) /\ q # <<>>
    BY ReceiveReads
  <2> HIDE DEF q, r
  <2> QED BY <1>1, <2>1, ReadsShape
<1>2. /\ n \in 1..Len(q) /\ Len(r) = Len(q) - n /\ Len(q) \in Nat
      /\ \A j \in 1..Len(r) : j + n \in 1..Len(q) /\ r[j] = q[j + n]
      /\ \A i \in 2..n : q[i].type = "MESSAGE"
  BY <1>0 DEF Took
<1>3. ASSUME NEW m, q = <<m>>
      PROVE  r = <<>>
  <2>1. Len(r) = 0
    BY <1>2, <1>3
  <2> QED BY <1>1, <2>1
<1>4. ASSUME q = <<LeaveMessage, ExitMessage>>
      PROVE  r = <<ExitMessage>>
  <2>1. q[2].type = "EXIT" /\ Len(q) = 2 /\ q[2] = ExitMessage
    BY <1>4 DEF ExitMessage
  <2>2. n = 1
    BY <1>2, <2>1
  <2>3. Len(r) = 1 /\ r[1] = ExitMessage
    BY <1>2, <2>1, <2>2
  <2> QED BY <1>1, <2>3
<1>5. ASSUME Chats(Tail(q))
      PROVE  Chats(r)
  <2>1. ASSUME NEW j \in 1..Len(r)
        PROVE  r[j] \in Request /\ r[j].type \in {"MESSAGE"} \cap Typed
    <3>1. (j + n) - 1 \in 1..Len(Tail(q)) /\ Tail(q)[(j + n) - 1] = q[j + n] /\ r[j] = q[j + n]
      <4>1. j \in Nat \ {0} /\ n \in Nat \ {0} /\ j + n \in 1..Len(q) /\ r[j] = q[j + n]
        BY <1>2
      <4>2. /\ Len(Tail(q)) = Len(q) - 1
            /\ \A i \in 1..Len(Tail(q)) : Tail(q)[i] = q[i + 1]
        BY <1>1
      <4>3. (j + n) - 1 \in 1..Len(Tail(q)) /\ ((j + n) - 1) + 1 = j + n
        BY <1>2, <4>1, <4>2
      <4> QED BY <4>1, <4>2, <4>3
    <3> QED BY <1>5, <3>1 DEF Chats
  <2> QED BY <2>1 DEF Chats
<1> QED BY <1>3, <1>4, <1>5

\* What may wait to be read by the thread of c.
AwaitsGreeting(c) ==
  /\ Asking(owner[c], c) /\ Waits(c)
  /\ inbox[c] = <<Head(inbox[c])>> /\ Head(inbox[c]) \in Account[owner[c]]
AwaitsRequest(c) ==
  /\ Within(owner[c], c) /\ inbox[c] # <<>> /\ Queued(owner[c], c)
  /\ Meant(owner[c], c, Head(inbox[c])) /\ Chats(Tail(inbox[c]))
AwaitsEnd(c) ==
  /\ Without(owner[c], c) /\ Speaks(c)
  /\ \/ inbox[c] = <<ExitMessage>> /\ Head(inbox[c]) = ExitMessage
     \/ inbox[c] = <<LeaveMessage, ExitMessage>> /\ Head(inbox[c]) = LeaveMessage

LEMMA Pending ==
  ASSUME Context, NEW c \in Conn, pc[c] = "recv", inbox[c] # <<>>
  PROVE  AwaitsGreeting(c) \/ AwaitsRequest(c) \/ AwaitsEnd(c)
<1> DEFINE p == owner[c]
<1>1. Asking(p, c) \/ Within(p, c) \/ Without(p, c)
  BY BusyOwner
<1>2. CASE Asking(p, c)
  <2>1. Waits(c)
    BY <1>2 DEF Asking, Verified, Refused, Accepted
  <2>2. PICK m \in Account[p] : inbox[c] = <<m>>
    BY <2>1 DEF Waits
  <2>3. Head(inbox[c]) = m
    BY <2>2
  <2> QED BY <1>2, <2>1, <2>2, <2>3 DEF AwaitsGreeting
<1>3. CASE Within(p, c)
  BY <1>3 DEF Within, Queued, AwaitsRequest
<1>4. CASE Without(p, c)
  <2>1. inbox[c] \in {<<ExitMessage>>, <<LeaveMessage, ExitMessage>>} /\ Speaks(c)
    BY <1>4 DEF Without, Ending
  <2>2. Head(<<ExitMessage>>) = ExitMessage /\ Head(<<LeaveMessage, ExitMessage>>) = LeaveMessage
    OBVIOUS
  <2> QED BY <1>4, <2>1, <2>2 DEF AwaitsEnd
<1> QED BY <1>1, <1>2, <1>3, <1>4

LEMMA PendingGreeting ==
  ASSUME Context, NEW c \in Conn, Receiving(c, "LOGIN") \/ Receiving(c, "CREATE")
  PROVE  AwaitsGreeting(c) /\ Head(inbox[c]).source \in User
<1>1. AwaitsGreeting(c) \/ AwaitsRequest(c) \/ AwaitsEnd(c)
  BY Pending DEF Receiving
<1>2. ~ AwaitsRequest(c) /\ ~ AwaitsEnd(c)
  BY DEF Receiving, AwaitsRequest, AwaitsEnd, Meant, Request, ExitMessage, LeaveMessage
<1>3. Head(inbox[c]).source \in User
  BY HeadType, Types0 DEF Receiving
<1> QED BY <1>1, <1>2, <1>3

\* Every other request comes from a user whom the thread serves, so that no
\* handler finds its user without an entry.
LEMMA PendingRequest ==
  ASSUME Context, NEW c \in Conn, pc[c] = "recv", inbox[c] # <<>>,
         Head(inbox[c]).type \notin {"LOGIN", "CREATE"}
  PROVE  /\ Speaks(c) /\ source[c] \in database /\ socket_fd[source[c]] = c
         /\ AwaitsRequest(c) \/ AwaitsEnd(c)
<1>1. AwaitsGreeting(c) \/ AwaitsRequest(c) \/ AwaitsEnd(c)
  BY Pending
<1>2. ~ AwaitsGreeting(c)
  <2>1. owner[c] \in Client
    BY BusyOwner
  <2>2. AwaitsGreeting(c) => Head(inbox[c]) \in Greeting
    BY <2>1, Types0 DEF AwaitsGreeting
  <2> QED BY <2>2 DEF Greeting
<1>3. Speaks(c)
  BY <1>1, <1>2 DEF AwaitsRequest, AwaitsEnd, Within
<1> QED BY <1>1, <1>2, <1>3, SpeakerServed

LEMMA PendingMeant ==
  ASSUME Context, NEW c \in Conn, pc[c] = "recv", inbox[c] # <<>>,
         Head(inbox[c]).type \notin {"LOGIN", "CREATE", "LEAVE_SESS", "EXIT"}
  PROVE  AwaitsRequest(c)
BY PendingRequest DEF AwaitsEnd, ExitMessage, LeaveMessage

LEMMA ExitingSpeaks ==
  ASSUME Context, NEW c \in Conn, pc[c] \in {"leave", "offline"}
  PROVE  Without(owner[c], c) /\ inbox[c] = <<>> /\ Speaks(c)
<1>1. Asking(owner[c], c) \/ Within(owner[c], c) \/ Without(owner[c], c)
  BY BusyOwner
<1> QED BY <1>1 DEF Asking, Waits, Verified, Refused, Accepted, Within, Without, Ending

OthersBeside(c) == \A e \in Conn \ {c} : Beside(e)

\* A step of c that changes no entry and answers its own client at most.
LEMMA AloneBeside ==
  ASSUME Context, NEW c \in Conn, UNCHANGED <<in_session, role, status, peer>>,
         \A e \in Conn \ {c} :
           UNCHANGED <<pc[e], source[e], server_connection_status[e], inbox[e], outbox[e]>>
  PROVE  OthersBeside(c)
BY DEF OthersBeside, Beside, Overlooked, Untold

LEMMA OtherInboxes ==
  ASSUME Context, NEW c \in Conn, inbox[c] # <<>>, Receive(c)
  PROVE  \A e \in Conn \ {c} : inbox'[e] = inbox[e]
BY Types0 DEF Receive

LEMMA VerifyLoginBeside ==
  ASSUME Context, NEW c \in Conn, VerifyLogin(c)
  PROVE  OthersBeside(c)
<1>1. \A e \in Conn \ {c} : inbox'[e] = inbox[e]
  BY OtherInboxes DEF VerifyLogin, Receiving
<1>2. UNCHANGED <<in_session, role, status, peer>>
  BY DEF VerifyLogin, entry
<1>3. \A e \in Conn \ {c} :
        UNCHANGED <<pc[e], source[e], server_connection_status[e]>>
  BY Types0 DEF VerifyLogin, thread, TypeOK
<1>4. \A e \in Conn \ {c} : outbox'[e] = outbox[e]
  <2>1. [type |-> "LO_NAK"] \in Reply
    BY DEF Reply
  <2> QED BY <2>1, SendOne DEF VerifyLogin, Untold
<1> QED BY <1>1, <1>2, <1>3, <1>4, AloneBeside

LEMMA UserLoginBeside ==
  ASSUME Context, NEW c \in Conn, UserLogin(c)
  PROVE  OthersBeside(c)
<1> SUFFICES ASSUME NEW e \in Conn \ {c}
             PROVE  Beside(e)
  BY DEF OthersBeside
<1>1. UNCHANGED <<pc[e], source[e], server_connection_status[e], inbox[e], peer[e],
                  in_session, role>>
  BY Types0 DEF UserLogin, TypeOK
<1>2. Untold(e)
  <2>1. source[c] \in User
    BY DEF UserLogin, Context, SystemInv, Inv, Registered, TypeOK
  <2>2. [type |-> "LO_ACK", source |-> source[c]] \in Reply
    BY <2>1 DEF Reply
  <2> QED BY <2>2, SendOne DEF UserLogin
<1>3. Speaks(e) => status'[source[e]] = status[source[e]]
  BY <1>1, OneThread, Types0 DEF UserLogin, TypeOK
<1> QED BY <1>1, <1>2, <1>3 DEF Beside, Overlooked

LEMMA UserRegistrationBeside ==
  ASSUME Context, NEW c \in Conn, UserRegistration(c)
  PROVE  OthersBeside(c)
<1> DEFINE u == Head(inbox[c]).source
<1> SUFFICES ASSUME NEW e \in Conn \ {c}
             PROVE  Beside(e)
  BY DEF OthersBeside
<1>1. u \in User /\ inbox'[e] = inbox[e]
  BY PendingGreeting, OtherInboxes DEF UserRegistration, Receiving
<1>2. UNCHANGED <<pc[e], source[e], server_connection_status[e], peer[e], in_session, role>>
  BY Types0 DEF UserRegistration, TypeOK
<1>3. Untold(e)
  <2>1. [type |-> "RG_ACK", source |-> u] \in Reply /\ [type |-> "RG_NAK"] \in Reply
    BY <1>1 DEF Reply
  <2>2. \E m \in Reply : Send(To(c, m))
    BY <2>1 DEF UserRegistration
  <2> QED BY <2>2, SendOne
<1>4. Speaks(e) => status'[source[e]] = status[source[e]]
  BY <1>2, SpeakerServed, Types0 DEF UserRegistration, TypeOK
<1> QED BY <1>1, <1>2, <1>3, <1>4 DEF Beside, Overlooked

LEMMA EnterBeside ==
  ASSUME Context, NEW c \in Conn, SessionCreate(c) \/ SessionJoin(c)
  PROVE  OthersBeside(c)
<1> SUFFICES ASSUME NEW e \in Conn \ {c}
             PROVE  Beside(e)
  BY DEF OthersBeside
<1>1. Speaks(c) /\ socket_fd[source[c]] = c /\ inbox'[e] = inbox[e]
  BY PendingRequest, OtherInboxes DEF SessionCreate, SessionJoin, Receiving
<1>2. UNCHANGED <<pc[e], source[e], server_connection_status[e], peer[e], status>>
  BY DEF SessionCreate, SessionJoin, thread
<1>3. Untold(e)
  <2>1. \A t \in {"NS_ACK", "NEW_SESS", "JN_ACK", "JN_NAK"} : [type |-> t] \in Reply
    BY DEF Reply
  <2>2. \E m \in Reply : Send(To(socket_fd[source[c]], m))
    BY <2>1 DEF SessionCreate, SessionJoin
  <2> QED BY <1>1, <2>2, SendOne
<1>4. Speaks(e) => UNCHANGED <<in_session[source[e]], role[source[e]]>>
  <2> SUFFICES ASSUME Speaks(e)
               PROVE  UNCHANGED <<in_session[source[e]], role[source[e]]>>
    OBVIOUS
  <2>1. source[e] # source[c] /\ source[e] \in User
    BY <1>1, OneThread, SpeakerServed
  <2> QED BY <1>2, <2>1, Types0 DEF SessionCreate, SessionJoin, TypeOK
<1> QED BY <1>1, <1>2, <1>3, <1>4 DEF Beside, Overlooked

\* A leave tells all ADMINs of the server, among them the one it may have made.
LEMMA LeaveBeside ==
  ASSUME Context, NEW c \in Conn, Speaks(c), LeaveBody(c),
         \A e \in Conn \ {c} : pc'[e] = pc[e] /\ inbox'[e] = inbox[e]
  PROVE  OthersBeside(c)
<1> DEFINE u == source[c]
           A == {v \in database : role'[v] = "ADMIN"}
<1>1. UNCHANGED <<status, socket_fd, source, server_connection_status, peer>>
  BY DEF LeaveBody
<1>2. CASE UNCHANGED <<in_session, role, outbox>>
  BY <1>1, <1>2, AloneBeside
<1>3. CASE /\ in_session[u] = "ONLINE" /\ ClearMembership(u)
           /\ role' = RolesWithout(u) /\ Send(ToAll(A, [type |-> "PM_MESSAGE"]))
  <2> SUFFICES ASSUME NEW e \in Conn \ {c}
               PROVE  Beside(e)
    BY DEF OthersBeside
  <2> DEFINE w == source[e]
             m == [type |-> "PM_MESSAGE"]
  <2>1. m \in Reply /\ u \in User /\ session_id[u] # NotInSession
    BY <1>3, SpeakerServed, InSessionOnline DEF Reply
  <2>2. IF \E v \in A : socket_fd[v] = e THEN Told(e, m) ELSE Untold(e)
    <3>1. PICK U : U = A
      OBVIOUS
    <3>2. Send(ToAll(U, m))
      BY <1>3, <3>1
    <3> HIDE DEF A, m
    <3>3. IF \E v \in U : socket_fd[v] = e THEN Told(e, m) ELSE Untold(e)
      BY <2>1, <3>2, SendAll
    <3> QED BY <3>1, <3>3
  <2>3. \A v \in User \ {u} :
          /\ in_session'[v] = in_session[v]
          /\ role'[v] = role[v] \/ (role'[v] = "ADMIN" /\ v \in database)
          /\ role'[v] = "ADMIN" => in_session[v] = "ONLINE"
    <3> SUFFICES ASSUME NEW v \in User \ {u}
                 PROVE  /\ in_session'[v] = in_session[v]
                        /\ role'[v] = role[v] \/ (role'[v] = "ADMIN" /\ v \in database)
                        /\ role'[v] = "ADMIN" => in_session[v] = "ONLINE"
      OBVIOUS
    <3>1. in_session'[v] = in_session[v]
      BY <1>3, Types0 DEF ClearMembership, TypeOK
    <3>2. role'[v] = IF Members(session_id[u]) \ {u} = {v} THEN "ADMIN" ELSE role[v]
      BY <1>3 DEF RolesWithout
    <3>3. Members(session_id[u]) \ {u} = {v} => v \in database /\ session_id[v] = session_id[u]
      BY DEF Members
    <3> QED BY <2>1, <3>1, <3>2, <3>3, InSessionOnline
  <2>4. role'[u] = "USER"
    BY <1>3, <2>1 DEF RolesWithout
  <2>5. ASSUME NEW v \in A, socket_fd[v] = e
        PROVE  Overhears(e, m)
    <3>1. v \in User \ {u}
      BY <2>4, Types0 DEF TypeOK
    <3>2. in_session[v] = "ONLINE" /\ status[v] = "ONLINE"
      BY <2>3, <3>1, InSessionOnline
    <3>3. Speaks(e) /\ source[e] = v
      BY <2>5, <3>1, <3>2, Reached
    <3>4. Told(e, m) /\ role'[v] = "ADMIN" /\ in_session'[v] = in_session[v]
      BY <2>2, <2>3, <2>5, <3>1
    <3> QED BY <3>2, <3>3, <3>4 DEF Overhears, C!NewSessionStatus, C!NewRole
  <2>6. ASSUME ~ \E v \in A : socket_fd[v] = e
        PROVE  Overlooked(e)
    <3>1. Untold(e)
      BY <2>2, <2>6
    <3>2. ASSUME Speaks(e)
          PROVE  in_session'[w] = in_session[w] /\ role'[w] = role[w]
      <4>1. w \in User \ {u} /\ w \in database /\ socket_fd[w] = e
        BY <3>2, SpeakerServed, OneThread
      <4> QED BY <2>3, <2>6, <4>1
    <3> QED BY <3>1, <3>2 DEF Overlooked
  <2> QED BY <1>1, <2>1, <2>5, <2>6 DEF Beside
<1>4. ~ (in_session[u] = "ONLINE" /\ session_id[u] = NotInSession)
  BY SpeakerServed, InSessionOnline
<1> QED BY <1>2, <1>3, <1>4 DEF LeaveBody

LEMMA KickBeside ==
  ASSUME Context, NEW c \in Conn, KickUser(c)
  PROVE  OthersBeside(c)
<1> DEFINE u == source[c]
           t == Head(inbox[c]).data
           k == [type |-> "KI_MESSAGE"]
<1>1. /\ Speaks(c) /\ socket_fd[u] = c /\ role[u] = "ADMIN" /\ t \in User
      /\ u \in User
  <2>1. AwaitsRequest(c) /\ Speaks(c) /\ socket_fd[u] = c
    BY PendingMeant, PendingRequest DEF KickUser, Receiving
  <2>2. role[u] = "ADMIN" /\ t \in User
    BY <2>1, HeadType, Types0 DEF AwaitsRequest, Meant, KickUser, Receiving
  <2> QED BY <2>1, <2>2, SpeakerServed
<1>2. UNCHANGED <<source, server_connection_status, peer, status, pc, role>>
  BY DEF KickUser, thread
<1>3. \A e \in Conn \ {c} : inbox'[e] = inbox[e]
  BY OtherInboxes DEF KickUser, Receiving
<1>4. \A r \in {"KI_MESSAGE", "KI_ACK", "KI_NAK"} : [type |-> r] \in Reply
  BY DEF Reply
<1>5. CASE /\ Reachable(t, u) /\ ClearMembership(t)
           /\ Send(Then(To(socket_fd[t], k), To(socket_fd[u], [type |-> "KI_ACK"])))
  <2> SUFFICES ASSUME NEW e \in Conn \ {c}
               PROVE  Beside(e)
    BY DEF OthersBeside
  <2>1. t # u /\ status[t] = "ONLINE" /\ in_session[t] = "ONLINE"
    BY <1>1, <1>5 DEF Reachable
  <2>2. Speaks(socket_fd[t]) /\ source[socket_fd[t]] = t /\ socket_fd[t] # c
    BY <1>1, <2>1, Reached
  <2>3. IF e = socket_fd[t] THEN Told(e, k) ELSE Untold(e)
    BY <1>1, <1>4, <1>5, <2>2, SendTwo
  <2>4. in_session' = [in_session EXCEPT ![t] = "OFFLINE"]
    BY <1>5 DEF ClearMembership
  <2>5. CASE e = socket_fd[t]
    <3>1. in_session'[t] = "OFFLINE"
      BY <1>1, <2>4, Types0 DEF TypeOK
    <3> QED BY <1>2, <1>3, <1>4, <2>1, <2>2, <2>3, <2>5, <3>1
         DEF Beside, Overhears, C!NewSessionStatus, C!NewRole
  <2>6. CASE e # socket_fd[t]
    <3>1. Speaks(e) => source[e] # t /\ source[e] \in User
      BY <1>1, <2>1, <2>6, Reached, SpeakerServed
    <3>2. Speaks(e) => in_session'[source[e]] = in_session[source[e]]
      BY <2>4, <3>1, Types0 DEF TypeOK
    <3> QED BY <1>2, <1>3, <2>3, <2>6, <3>2 DEF Beside, Overlooked
  <2> QED BY <2>5, <2>6
<1>6. CASE /\ Send(To(socket_fd[u], [type |-> "KI_NAK"]))
           /\ UNCHANGED <<in_session, session_id>>
  <2>1. \A e \in Conn \ {c} : outbox'[e] = outbox[e]
    BY <1>1, <1>4, <1>6, SendOne DEF Untold
  <2> QED BY <1>2, <1>3, <1>6, <2>1, AloneBeside
<1> QED BY <1>5, <1>6 DEF KickUser

LEMMA PromoteBeside ==
  ASSUME Context, NEW c \in Conn, PromoteUser(c)
  PROVE  OthersBeside(c)
<1> DEFINE u == source[c]
           t == Head(inbox[c]).data
           k == [type |-> "PM_MESSAGE"]
<1>1. /\ Speaks(c) /\ socket_fd[u] = c /\ role[u] = "ADMIN" /\ t \in User
      /\ u \in User
  <2>1. AwaitsRequest(c) /\ Speaks(c) /\ socket_fd[u] = c
    BY PendingMeant, PendingRequest DEF PromoteUser, Receiving
  <2>2. role[u] = "ADMIN" /\ t \in User
    BY <2>1, HeadType, Types0 DEF AwaitsRequest, Meant, PromoteUser, Receiving
  <2> QED BY <2>1, <2>2, SpeakerServed
<1>2. UNCHANGED <<source, server_connection_status, peer, status, pc, in_session>>
  BY DEF PromoteUser, thread
<1>3. \A e \in Conn \ {c} : inbox'[e] = inbox[e]
  BY OtherInboxes DEF PromoteUser, Receiving
<1>4. \A r \in {"PM_MESSAGE", "PM_ACK", "PM_NAK"} : [type |-> r] \in Reply
  BY DEF Reply
<1>5. CASE /\ Reachable(t, u)
           /\ role' = [role EXCEPT ![t] = "ADMIN", ![u] = "USER"]
           /\ Send(Then(To(socket_fd[t], k), To(socket_fd[u], [type |-> "PM_ACK"])))
  <2> SUFFICES ASSUME NEW e \in Conn \ {c}
               PROVE  Beside(e)
    BY DEF OthersBeside
  <2>1. t # u /\ status[t] = "ONLINE" /\ in_session[t] = "ONLINE"
    BY <1>1, <1>5 DEF Reachable
  <2>2. Speaks(socket_fd[t]) /\ source[socket_fd[t]] = t /\ socket_fd[t] # c
    BY <1>1, <2>1, Reached
  <2>3. IF e = socket_fd[t] THEN Told(e, k) ELSE Untold(e)
    BY <1>1, <1>4, <1>5, <2>2, SendTwo
  <2>4. CASE e = socket_fd[t]
    <3>1. role'[t] = "ADMIN"
      BY <1>1, <1>5, <2>1, Types0 DEF TypeOK
    <3> QED BY <1>2, <1>3, <1>4, <2>1, <2>2, <2>3, <2>4, <3>1
         DEF Beside, Overhears, C!NewSessionStatus, C!NewRole
  <2>5. CASE e # socket_fd[t]
    <3>1. Speaks(e) => source[e] \notin {t, u} /\ source[e] \in User
      BY <1>1, <2>1, <2>5, Reached, SpeakerServed, OneThread
    <3>2. Speaks(e) => role'[source[e]] = role[source[e]]
      BY <1>5, <3>1, Types0 DEF TypeOK
    <3> QED BY <1>2, <1>3, <2>3, <2>5, <3>2 DEF Beside, Overlooked
  <2> QED BY <2>4, <2>5
<1>6. CASE Send(To(socket_fd[u], [type |-> "PM_NAK"])) /\ UNCHANGED role
  <2>1. \A e \in Conn \ {c} : outbox'[e] = outbox[e]
    BY <1>1, <1>4, <1>6, SendOne DEF Untold
  <2> QED BY <1>2, <1>3, <1>6, <2>1, AloneBeside
<1> QED BY <1>5, <1>6 DEF PromoteUser

LEMMA GroupMessageBeside ==
  ASSUME Context, NEW c \in Conn, GroupMessage(c)
  PROVE  OthersBeside(c)
<1> DEFINE n == Head(inbox[c])
           m == [type |-> "MESSAGE", source |-> n.source]
           A == {v \in database : /\ status[v] = "ONLINE" /\ in_session[v] = "ONLINE"
                                  /\ session_id[v] = session_id[n.source]}
<1>1. m \in Reply
  BY HeadType, Types0 DEF GroupMessage, Receiving, Reply
<1>2. UNCHANGED <<source, server_connection_status, peer, pc, status, in_session, role>>
  BY DEF GroupMessage, thread, entry
<1>3. \A e \in Conn \ {c} : inbox'[e] = inbox[e]
  BY OtherInboxes DEF GroupMessage, Receiving
<1>4. \A e \in Conn : IF \E v \in A : socket_fd[v] = e THEN Told(e, m) ELSE Untold(e)
  <2>1. Send(ToAll(A, m))
    BY DEF GroupMessage
  <2> HIDE DEF A, m
  <2> QED BY <1>1, <2>1, SendAll
<1>5. ASSUME NEW e \in Conn \ {c}, NEW v \in A, socket_fd[v] = e
      PROVE  Overhears(e, m)
  <2>1. v \in User /\ status[v] = "ONLINE" /\ in_session[v] = "ONLINE"
    BY Types0 DEF TypeOK
  <2>2. Speaks(e) /\ source[e] = v
    BY <1>5, <2>1, Reached
  <2> QED BY <1>2, <1>4, <1>5, <2>1, <2>2 DEF Overhears, C!NewSessionStatus, C!NewRole
<1>6. ASSUME NEW e \in Conn \ {c}, ~ \E v \in A : socket_fd[v] = e
      PROVE  Overlooked(e)
  BY <1>2, <1>4, <1>6 DEF Overlooked
<1> QED BY <1>1, <1>2, <1>3, <1>5, <1>6 DEF OthersBeside, Beside

LEMMA QueriesBeside ==
  ASSUME Context, NEW c \in Conn, QueryUsers(c) \/ QuerySession(c)
  PROVE  OthersBeside(c)
<1>1. UNCHANGED <<source, server_connection_status, peer, pc, status, in_session, role>>
  BY DEF QueryUsers, QuerySession, thread, entry
<1>2. \A e \in Conn \ {c} : inbox'[e] = inbox[e]
  BY OtherInboxes DEF QueryUsers, QuerySession, Receiving
<1>3. \E m \in Reply : Send(To(c, m))
  <2>1. \A t \in {"QU_ACK", "SQ_NAK", "SQ_ACK"} : [type |-> t] \in Reply
    BY DEF Reply
  <2> QED BY <2>1 DEF QueryUsers, QuerySession
<1>4. \A e \in Conn \ {c} : outbox'[e] = outbox[e]
  BY <1>3, SendOne DEF Untold
<1> QED BY <1>1, <1>2, <1>4, AloneBeside

LEMMA StartOfExitBeside ==
  ASSUME Context, NEW c \in Conn, RecvExit(c) \/ Disconnect(c)
  PROVE  OthersBeside(c)
<1>1. UNCHANGED <<source, server_connection_status, peer, status, in_session, role, outbox>>
  BY DEF RecvExit, Disconnect, entry
<1>2. \A e \in Conn \ {c} : inbox'[e] = inbox[e]
  BY OtherInboxes DEF RecvExit, Disconnect, Receiving
<1>3. \A e \in Conn \ {c} : pc'[e] = pc[e]
  BY Types0 DEF RecvExit, Disconnect, StartExit, TypeOK
<1> QED BY <1>1, <1>2, <1>3, AloneBeside

LEMMA ExitOfflineBeside ==
  ASSUME Context, NEW c \in Conn, ExitOffline(c)
  PROVE  OthersBeside(c)
<1> SUFFICES ASSUME NEW e \in Conn \ {c}
             PROVE  Beside(e)
  BY DEF OthersBeside
<1>1. UNCHANGED <<pc[e], source[e], server_connection_status[e], inbox[e], peer[e],
                  outbox[e], in_session, role>>
  BY Types0 DEF ExitOffline, TypeOK
<1>2. Speaks(c)
  BY ExitingSpeaks DEF ExitOffline
<1>3. Speaks(e) => status'[source[e]] = status[source[e]]
  BY <1>1, <1>2, OneThread, SpeakerServed, Types0 DEF ExitOffline, TypeOK
<1> QED BY <1>1, <1>3 DEF Beside, Overlooked, Untold

\* No request reaches a thread without a user.
LEMMA NeverCrashes ==
  ASSUME Context, NEW c \in Conn, UnknownSourceCrash(c)
  PROVE  FALSE
<1>1. PICK t \in {"NEW_SESS", "JOIN", "LEAVE_SESS", "KICK", "PROMOTE", "EXIT"} : Receiving(c, t)
  BY DEF UnknownSourceCrash
<1>2. source[c] \in database
  BY <1>1, PendingRequest DEF Receiving
<1> QED BY <1>2 DEF UnknownSourceCrash, Known

LEMMA HandlerBeside ==
  ASSUME Context, NEW c \in Conn, Handler(c)
  PROVE  OthersBeside(c)
<1>1. CASE SessionLeave(c)
  <2>1. Speaks(c)
    BY <1>1, PendingRequest DEF SessionLeave, Receiving
  <2>2. LeaveBody(c) /\ \A e \in Conn \ {c} : pc'[e] = pc[e] /\ inbox'[e] = inbox[e]
    BY <1>1, OtherInboxes DEF SessionLeave, Receiving
  <2> QED BY <2>1, <2>2, LeaveBeside
<1>2. CASE ExitLeave(c)
  <2>1. Speaks(c)
    BY <1>2, ExitingSpeaks DEF ExitLeave
  <2>2. LeaveBody(c) /\ \A e \in Conn \ {c} : pc'[e] = pc[e] /\ inbox'[e] = inbox[e]
    BY <1>2, Types0 DEF ExitLeave, TypeOK
  <2> QED BY <2>1, <2>2, LeaveBeside
<1> QED BY <1>1, <1>2, VerifyLoginBeside, UserLoginBeside, UserRegistrationBeside, EnterBeside,
       KickBeside, PromoteBeside, GroupMessageBeside, QueriesBeside, StartOfExitBeside,
       ExitOfflineBeside, NeverCrashes DEF Handler

-----------------------------------------------------------------------------
(* The same steps, seen from the connection that the thread serves.        *)

Own(c) == Conversation(c) /\ OwnUser(c)

LEMMA VerifyLoginOwn ==
  ASSUME Context, OnlyChatLost, NEW c \in Conn, VerifyLogin(c), UNCHANGED clientVars
  PROVE  Own(c)'
<1> DEFINE m == Head(inbox[c])
           p == owner[c]
<1>1. /\ p \in Client /\ socket_file_dscriptor[p] = c
      /\ AwaitsGreeting(c) /\ m \in Account[p] /\ inbox[c] = <<m>>
  BY BusyOwner, PendingGreeting DEF VerifyLogin, Receiving, AwaitsGreeting
<1>2. inbox'[c] = <<>>
  BY <1>1, ReceiveLeaves DEF VerifyLogin, Receiving
<1>3. /\ peer' = peer /\ pc[c] = "recv" /\ server_connection_status[c] = "OFFLINE"
      /\ outbox[c] = <<>> /\ Asking(p, c)
  BY <1>1 DEF VerifyLogin, AwaitsGreeting, Waits
<1>4. CASE /\ pc' = [pc EXCEPT ![c] = "login"]
           /\ source' = [source EXCEPT ![c] = m.source]
           /\ server_connection_status' = [server_connection_status EXCEPT ![c] = "ONLINE"]
           /\ UNCHANGED outbox
  <2>1. pc'[c] = "login" /\ server_connection_status'[c] = "ONLINE" /\ source'[c] = m.source
    BY <1>4, Types0 DEF TypeOK
  <2>2. Verified(c)' /\ ~ Speaks(c)'
    BY <1>2, <1>3, <1>4, <2>1 DEF Verified, Speaks
  <2>3. Asking(p, c)'
    BY <1>3, <2>2 DEF Asking, clientVars
  <2>4. OwnUser(c)'
    BY <1>1, <2>1, <2>2 DEF OwnUser, clientVars
  <2> QED BY <1>1, <2>3, <2>4, Types0 DEF Own, Conversation, clientVars
<1>5. CASE Send(To(c, [type |-> "LO_NAK"])) /\ UNCHANGED thread
  <2> DEFINE r == [type |-> "LO_NAK"]
  <2>1. r \in Reply /\ C!Refuses(r)
    BY DEF Reply, C!Refuses
  <2>2. outbox'[c] = <<r>>
    <3>1. Told(c, r)
      BY <1>5, <2>1, SendOne
    <3>2. Append(<<>>, r) = <<r>>
      OBVIOUS
    <3> QED BY <1>3, <3>1, <3>2 DEF Told, Asking
  <2>3. Refused(c)' /\ ~ Speaks(c)' /\ pc'[c] = "recv"
    BY <1>2, <1>3, <1>5, <2>1, <2>2 DEF Refused, Speaks, thread
  <2>4. Asking(p, c)'
    BY <1>3, <2>3 DEF Asking, clientVars
  <2>5. OwnUser(c)'
    BY <2>3 DEF OwnUser
  <2> QED BY <1>1, <2>4, <2>5, Types0 DEF Own, Conversation, clientVars
<1> QED BY <1>4, <1>5 DEF VerifyLogin

LEMMA UserLoginOwn ==
  ASSUME Context, NEW c \in Conn, UserLogin(c), UNCHANGED clientVars
  PROVE  Own(c)'
<1> DEFINE u == source[c]
           p == owner[c]
           r == [type |-> "LO_ACK", source |-> u]
<1>1. /\ p \in Client /\ socket_file_dscriptor[p] = c
      /\ Asking(p, c) /\ Verified(c)
  BY BusyOwner DEF UserLogin, Asking, Waits, Refused, Accepted, Within, Without, Ending
<1>2. u \in User
  BY DEF UserLogin, Context, SystemInv, Inv, Registered, TypeOK
<1>3. in_session[u] = "OFFLINE"
  <2>1. ASSUME status[u] = "ONLINE" PROVE FALSE
    <3>1. \E d \in Conn : Speaks(d) /\ source[d] = u
      BY <1>2, <2>1, Reached
    <3> QED BY <3>1, OneThread DEF UserLogin, Speaks
  <2> QED BY <1>2, <2>1, InSessionOnline, Types0 DEF TypeOK
<1>4. r \in Reply /\ C!Accepts(r) /\ r.source = u
  BY <1>2 DEF Reply, C!Accepts
<1>5. outbox'[c] = <<r>>
  <2>1. Told(c, r)
    <3> HIDE DEF r
    <3> QED BY <1>4, SendOne DEF UserLogin, r
  <2>2. Append(<<>>, r) = <<r>>
    OBVIOUS
  <2> QED BY <1>1, <2>1, <2>2 DEF Told, Asking, Verified
<1>6. /\ pc'[c] = "recv" /\ status'[u] = "ONLINE"
      /\ UNCHANGED <<source, server_connection_status, in_session, inbox, peer>>
  BY <1>2, Types0 DEF UserLogin, TypeOK
<1>7. Speaks(c)'
  BY <1>1, <1>6 DEF Speaks, Verified
<1>8. Accepted(c)'
  BY <1>1, <1>3, <1>4, <1>5, <1>6, <1>7 DEF Accepted, Verified
<1>9. Asking(p, c)'
  BY <1>1, <1>6, <1>8 DEF Asking, clientVars
<1>10. OwnUser(c)'
  BY <1>6 DEF OwnUser, UserLogin, clientVars, Context, PatientInv
<1> QED BY <1>1, <1>9, <1>10, Types0 DEF Own, Conversation, clientVars

LEMMA UserRegistrationOwn ==
  ASSUME Context, OnlyChatLost, NEW c \in Conn, UserRegistration(c), UNCHANGED clientVars
  PROVE  Own(c)'
<1> DEFINE m == Head(inbox[c])
           u == m.source
           p == owner[c]
<1>1. /\ p \in Client /\ socket_file_dscriptor[p] = c /\ u \in User
      /\ AwaitsGreeting(c) /\ m \in Account[p] /\ inbox[c] = <<m>>
  BY BusyOwner, PendingGreeting DEF UserRegistration, Receiving, AwaitsGreeting
<1>2. inbox'[c] = <<>>
  BY <1>1, ReceiveLeaves DEF UserRegistration, Receiving
<1>3. /\ peer' = peer /\ pc' = pc /\ pc[c] = "recv" /\ in_session' = in_session
      /\ server_connection_status[c] = "OFFLINE" /\ outbox[c] = <<>> /\ Asking(p, c)
  BY <1>1 DEF UserRegistration, AwaitsGreeting, Waits
<1>4. \A r : Told(c, r) => outbox'[c] = <<r>>
  <2>1. \A r : Append(<<>>, r) = <<r>>
    OBVIOUS
  <2> QED BY <1>3, <2>1 DEF Told, Asking
<1>5. CASE /\ u \notin database /\ status' = [status EXCEPT ![u] = "ONLINE"]
           /\ source' = [source EXCEPT ![c] = u]
           /\ server_connection_status' = [server_connection_status EXCEPT ![c] = "ONLINE"]
           /\ Send(To(c, [type |-> "RG_ACK", source |-> u]))
  <2> DEFINE r == [type |-> "RG_ACK", source |-> u]
  <2>1. r \in Reply /\ C!Accepts(r) /\ r.source = u
    BY <1>1 DEF Reply, C!Accepts
  <2>2. outbox'[c] = <<r>>
    BY <1>4, <1>5, <2>1, SendOne
  <2>3. in_session[u] = "OFFLINE"
    BY <1>1, <1>5, InSessionOnline, Types0 DEF TypeOK
  <2>4. status'[u] = "ONLINE" /\ source'[c] = u /\ server_connection_status'[c] = "ONLINE"
    BY <1>1, <1>5, Types0 DEF TypeOK
  <2>5. Accepted(c)' /\ pc'[c] = "recv"
    BY <1>2, <1>3, <2>1, <2>2, <2>3, <2>4 DEF Accepted, Speaks
  <2>6. Asking(p, c)'
    BY <1>3, <2>5 DEF Asking, clientVars
  <2>7. OwnUser(c)'
    BY <1>1, <2>4, <2>5 DEF OwnUser, clientVars
  <2> QED BY <1>1, <2>6, <2>7, Types0 DEF Own, Conversation, clientVars
<1>6. CASE Send(To(c, [type |-> "RG_NAK"])) /\ UNCHANGED <<source, server_connection_status>>
  <2> DEFINE r == [type |-> "RG_NAK"]
  <2>1. r \in Reply /\ C!Refuses(r)
    BY DEF Reply, C!Refuses
  <2>2. outbox'[c] = <<r>>
    BY <1>4, <1>6, <2>1, SendOne
  <2>3. Refused(c)' /\ ~ Speaks(c)' /\ pc'[c] = "recv"
    BY <1>2, <1>3, <1>6, <2>1, <2>2 DEF Refused, Speaks
  <2>4. Asking(p, c)'
    BY <1>3, <2>3 DEF Asking, clientVars
  <2>5. OwnUser(c)'
    BY <2>3 DEF OwnUser
  <2> QED BY <1>1, <2>4, <2>5, Types0 DEF Own, Conversation, clientVars
<1> QED BY <1>5, <1>6 DEF UserRegistration

\* The answer to a request, which keeps the process in step with the entry.
Replied(c, r) ==
  LET u == source[c] IN
    /\ r.type \notin Answers /\ Told(c, r)
    /\ in_session'[u] = C!NewSessionStatus(r, in_session[u])
    /\ in_session'[u] = "ONLINE" =>
         /\ role'[u] = C!NewRole(r, role[u])
         /\ in_session[u] = "ONLINE" \/ r.type \in Ranks
Unreplied(c) ==
  Untold(c) /\ in_session'[source[c]] = in_session[source[c]] /\ role'[source[c]] = role[source[c]]

LEMMA AnswerOwn ==
  ASSUME Context, OnlyChatLost, NEW c \in Conn, UNCHANGED clientVars, AwaitsRequest(c),
         Head(inbox[c]).type # "LEAVE_SESS", Receive(c),
         UNCHANGED <<pc, source, server_connection_status, peer, status>>,
         Unreplied(c) \/ \E r \in Reply : Replied(c, r)
  PROVE  Own(c)'
<1> DEFINE m == Head(inbox[c])
           u == source[c]
           p == owner[c]
<1>1. /\ p \in Client /\ socket_file_dscriptor[p] = c /\ Within(p, c) /\ inbox[c] # <<>>
      /\ outbox[c] \in Seq(Reply)
  <2>1. Within(p, c) /\ inbox[c] # <<>>
    BY DEF AwaitsRequest
  <2> QED BY <2>1, BusyOwner, Types0 DEF Within
<1>2. Queued(p, c)'
  <2>1. inbox'[c] \in Seq(Greeting \cup Request)
    BY <1>1, ReceiveReads
  <2>2. Chats(inbox'[c])
    BY <1>1, ReceiveLeaves DEF AwaitsRequest
  <2> QED BY <2>1, <2>2, ChatsLeft
<1>3. inbox[c] # <<LeaveMessage>>
  <2>1. Head(<<LeaveMessage>>) = LeaveMessage
    OBVIOUS
  <2> QED BY <1>1, <2>1 DEF LeaveMessage
<1>4. InStep(p, c) /\ main[p] = "command"
  BY <1>1, <1>3 DEF Within
<1>5. Lacks(outbox'[c], Answers) /\ InStep(p, c)'
  <2>1. CASE Unreplied(c)
    BY <1>1, <1>4, <2>1 DEF Unreplied, Untold, Within, InStep, clientVars
  <2>2. ASSUME NEW r \in Reply, Replied(c, r)
        PROVE  Lacks(outbox'[c], Answers) /\ InStep(p, c)'
    <3>1. outbox'[c] = Append(outbox[c], r)
      BY <1>1, <2>2 DEF Replied, Told, Within
    <3>2. Lacks(outbox'[c], Answers)
      BY <1>1, <2>2, <3>1, LacksAppend DEF Replied, Within
    <3>3. WillShow(outbox'[c], session_status[p], in_session'[u])
      BY <1>1, <1>4, <2>2, <3>1, ShowAppend DEF InStep, Replied
    <3>4. ASSUME in_session'[u] = "ONLINE"
          PROVE  WillRank(outbox'[c], client_role[p], role'[u])
      <4>1. role'[u] = C!NewRole(r, role[u])
        BY <2>2, <3>4 DEF Replied
      <4>2. CASE in_session[u] = "ONLINE"
        BY <1>1, <1>4, <3>1, <4>1, <4>2, RankAppend DEF InStep
      <4>3. CASE r.type \in Ranks
        <5>1. C!NewRole(r, role[u]) = C!NewRole(r, client_role[p])
          BY <4>3 DEF C!NewRole, Ranks
        <5> QED BY <1>1, <3>1, <4>1, <4>3, <5>1, RankSet
      <4> QED BY <2>2, <3>4, <4>2, <4>3 DEF Replied
    <3> QED BY <3>2, <3>3, <3>4 DEF InStep, clientVars
  <2> QED BY <2>1, <2>2
<1>6. Within(p, c)'
  BY <1>1, <1>2, <1>4, <1>5 DEF Within, Speaks, clientVars
<1>7. OwnUser(c)'
  BY <1>1 DEF OwnUser, Speaks, clientVars, Context, PatientInv, Within
<1> QED BY <1>1, <1>6, <1>7, Types0 DEF Own, Conversation, clientVars

\* Replies that change no flag.
LEMMA NeutralReplies ==
  \A t \in {"NEW_SESS", "QU_ACK", "SQ_ACK", "SQ_NAK", "KI_ACK", "KI_NAK", "PM_NAK", "MESSAGE"} :
    /\ t \notin Answers
    /\ \A r, v : r.type = t => C!NewSessionStatus(r, v) = v /\ C!NewRole(r, v) = v
BY DEF Answers, C!NewSessionStatus, C!NewRole

LEMMA NeutralAnswer ==
  ASSUME Context, NEW c \in Conn, NEW r \in Reply, Told(c, r), Speaks(c),
         r.type \in {"NEW_SESS", "QU_ACK", "SQ_ACK", "SQ_NAK", "KI_ACK", "KI_NAK", "PM_NAK",
                     "MESSAGE"},
         in_session'[source[c]] = in_session[source[c]], role'[source[c]] = role[source[c]]
  PROVE  Replied(c, r)
BY NeutralReplies DEF Replied

LEMMA CreateOwn ==
  ASSUME Context, OnlyChatLost, NEW c \in Conn, SessionCreate(c), UNCHANGED clientVars
  PROVE  Own(c)'
<1> DEFINE u == source[c]
<1>1. /\ AwaitsRequest(c) /\ Speaks(c) /\ socket_fd[u] = c /\ u \in User
      /\ Head(inbox[c]).type = "NEW_SESS" /\ in_session[u] = "OFFLINE"
  <2>1. AwaitsRequest(c) /\ Speaks(c) /\ socket_fd[u] = c /\ Head(inbox[c]).type = "NEW_SESS"
    BY PendingMeant, PendingRequest DEF SessionCreate, Receiving
  <2> QED BY <2>1, SpeakerServed DEF AwaitsRequest, Meant
<1>2. Receive(c) /\ UNCHANGED <<pc, source, server_connection_status, peer, status>>
  BY DEF SessionCreate, thread
<1>3. CASE /\ in_session' = [in_session EXCEPT ![u] = "ONLINE"]
           /\ role' = [role EXCEPT ![u] = "ADMIN"]
           /\ Send(To(socket_fd[u], [type |-> "NS_ACK"]))
  <2> DEFINE r == [type |-> "NS_ACK"]
  <2>1. r \in Reply /\ Told(c, r)
    BY <1>1, <1>3, SendOne DEF Reply
  <2>2. in_session'[u] = "ONLINE" /\ role'[u] = "ADMIN"
    BY <1>1, <1>3, Types0 DEF TypeOK
  <2>3. Replied(c, r)
    BY <2>1, <2>2 DEF Replied, Answers, Ranks, C!NewSessionStatus, C!NewRole
  <2> QED BY <1>1, <1>2, <2>1, <2>3, AnswerOwn
<1>4. CASE /\ UNCHANGED <<in_session, role>>
           /\ Send(To(socket_fd[u], [type |-> "NEW_SESS"]))
  <2> DEFINE r == [type |-> "NEW_SESS"]
  <2>1. r \in Reply /\ Told(c, r)
    BY <1>1, <1>4, SendOne DEF Reply
  <2>2. Replied(c, r)
    BY <1>1, <1>4, <2>1, NeutralAnswer
  <2> QED BY <1>1, <1>2, <2>1, <2>2, AnswerOwn
<1> QED BY <1>3, <1>4 DEF SessionCreate

LEMMA JoinOwn ==
  ASSUME Context, OnlyChatLost, NEW c \in Conn, SessionJoin(c), UNCHANGED clientVars
  PROVE  Own(c)'
<1> DEFINE u == source[c]
<1>1. /\ AwaitsRequest(c) /\ Speaks(c) /\ socket_fd[u] = c /\ u \in User
      /\ Head(inbox[c]).type = "JOIN" /\ in_session[u] = "OFFLINE" /\ role[u] = "USER"
  <2>1. AwaitsRequest(c) /\ Speaks(c) /\ socket_fd[u] = c /\ Head(inbox[c]).type = "JOIN"
    BY PendingMeant, PendingRequest DEF SessionJoin, Receiving
  <2>2. in_session[u] = "OFFLINE" /\ u \in User
    BY <2>1, SpeakerServed DEF AwaitsRequest, Meant
  <2> QED BY <2>1, <2>2, InSessionOnline, Types0 DEF TypeOK
<1>2. Receive(c) /\ UNCHANGED <<pc, source, server_connection_status, peer, status, role>>
  BY DEF SessionJoin, thread
<1>3. CASE /\ in_session' = [in_session EXCEPT ![u] = "ONLINE"]
           /\ Send(To(socket_fd[u], [type |-> "JN_ACK"]))
  <2> DEFINE r == [type |-> "JN_ACK"]
  <2>1. r \in Reply /\ Told(c, r)
    BY <1>1, <1>3, SendOne DEF Reply
  <2>2. in_session'[u] = "ONLINE" /\ role'[u] = "USER"
    BY <1>1, <1>2, <1>3, Types0 DEF TypeOK
  <2>3. Replied(c, r)
    BY <2>1, <2>2 DEF Replied, Answers, Ranks, C!NewSessionStatus, C!NewRole
  <2> QED BY <1>1, <1>2, <2>1, <2>3, AnswerOwn
<1>4. CASE /\ UNCHANGED in_session
           /\ Send(To(socket_fd[u], [type |-> "JN_NAK"]))
  <2> DEFINE r == [type |-> "JN_NAK"]
  <2>1. r \in Reply /\ Told(c, r)
    BY <1>1, <1>4, SendOne DEF Reply
  <2>2. Replied(c, r)
    BY <1>1, <1>4, <2>1 DEF Replied, Answers, C!NewSessionStatus
  <2> QED BY <1>1, <1>2, <2>1, <2>2, AnswerOwn
<1> QED BY <1>3, <1>4 DEF SessionJoin

LEMMA KickOwn ==
  ASSUME Context, OnlyChatLost, NEW c \in Conn, KickUser(c), UNCHANGED clientVars
  PROVE  Own(c)'
<1> DEFINE u == source[c]
           t == Head(inbox[c]).data
<1>1. /\ AwaitsRequest(c) /\ Speaks(c) /\ socket_fd[u] = c /\ u \in User
      /\ Head(inbox[c]).type = "KICK" /\ role[u] = "ADMIN" /\ t \in User
  <2>1. AwaitsRequest(c) /\ Speaks(c) /\ socket_fd[u] = c /\ Head(inbox[c]).type = "KICK"
    BY PendingMeant, PendingRequest DEF KickUser, Receiving
  <2>2. t \in User
    BY <2>1, HeadType, Types0 DEF KickUser, Receiving
  <2> QED BY <2>1, <2>2, SpeakerServed DEF AwaitsRequest, Meant
<1>2. Receive(c) /\ UNCHANGED <<pc, source, server_connection_status, peer, status, role>>
  BY DEF KickUser, thread
<1>3. [type |-> "KI_ACK"] \in Reply /\ [type |-> "KI_NAK"] \in Reply
      /\ [type |-> "KI_MESSAGE"] \in Reply
  BY DEF Reply
<1>4. \E r \in Reply : /\ r.type \in {"KI_ACK", "KI_NAK"} /\ Told(c, r)
                       /\ in_session'[u] = in_session[u]
  <2>1. CASE /\ Reachable(t, u) /\ ClearMembership(t)
             /\ Send(Then(To(socket_fd[t], [type |-> "KI_MESSAGE"]),
                          To(socket_fd[u], [type |-> "KI_ACK"])))
    <3>1. t # u /\ status[t] = "ONLINE"
      BY <1>1, <2>1 DEF Reachable
    <3>2. socket_fd[t] # c
      BY <1>1, <3>1, Reached
    <3>3. Told(c, [type |-> "KI_ACK"])
      BY <1>1, <1>3, <2>1, <3>2, SendTwo
    <3>4. in_session'[u] = in_session[u]
      BY <1>1, <2>1, <3>1, Types0 DEF ClearMembership, TypeOK
    <3> QED BY <1>3, <3>3, <3>4
  <2>2. CASE /\ Send(To(socket_fd[u], [type |-> "KI_NAK"])) /\ UNCHANGED in_session
    BY <1>1, <1>3, <2>2, SendOne
  <2> QED BY <2>1, <2>2 DEF KickUser
<1>5. \E r \in Reply : Replied(c, r)
  BY <1>1, <1>2, <1>4, NeutralAnswer
<1> QED BY <1>1, <1>2, <1>5, AnswerOwn

LEMMA PromoteOwn ==
  ASSUME Context, OnlyChatLost, NEW c \in Conn, PromoteUser(c), UNCHANGED clientVars
  PROVE  Own(c)'
<1> DEFINE u == source[c]
           t == Head(inbox[c]).data
<1>1. /\ AwaitsRequest(c) /\ Speaks(c) /\ socket_fd[u] = c /\ u \in User
      /\ Head(inbox[c]).type = "PROMOTE" /\ role[u] = "ADMIN" /\ t \in User
  <2>1. AwaitsRequest(c) /\ Speaks(c) /\ socket_fd[u] = c /\ Head(inbox[c]).type = "PROMOTE"
    BY PendingMeant, PendingRequest DEF PromoteUser, Receiving
  <2>2. t \in User
    BY <2>1, HeadType, Types0 DEF PromoteUser, Receiving
  <2> QED BY <2>1, <2>2, SpeakerServed DEF AwaitsRequest, Meant
<1>2. Receive(c) /\ UNCHANGED <<pc, source, server_connection_status, peer, status, in_session>>
  BY DEF PromoteUser, thread
<1>3. [type |-> "PM_ACK"] \in Reply /\ [type |-> "PM_NAK"] \in Reply
      /\ [type |-> "PM_MESSAGE"] \in Reply
  BY DEF Reply
<1>4. CASE /\ Reachable(t, u)
           /\ role' = [role EXCEPT ![t] = "ADMIN", ![u] = "USER"]
           /\ Send(Then(To(socket_fd[t], [type |-> "PM_MESSAGE"]),
                        To(socket_fd[u], [type |-> "PM_ACK"])))
  <2> DEFINE r == [type |-> "PM_ACK"]
  <2>1. t # u /\ status[t] = "ONLINE"
    BY <1>1, <1>4 DEF Reachable
  <2>2. socket_fd[t] # c
    BY <1>1, <2>1, Reached
  <2>3. r \in Reply /\ Told(c, r)
    BY <1>1, <1>3, <1>4, <2>2, SendTwo
  <2>4. role'[u] = "USER"
    BY <1>1, <1>4, Types0 DEF TypeOK
  <2>5. Replied(c, r)
    BY <1>2, <2>3, <2>4 DEF Replied, Answers, Ranks, C!NewSessionStatus, C!NewRole
  <2> QED BY <1>1, <1>2, <2>3, <2>5, AnswerOwn
<1>5. CASE /\ Send(To(socket_fd[u], [type |-> "PM_NAK"])) /\ UNCHANGED role
  <2> DEFINE r == [type |-> "PM_NAK"]
  <2>1. r \in Reply /\ Told(c, r)
    BY <1>1, <1>3, <1>5, SendOne
  <2>2. Replied(c, r)
    BY <1>1, <1>2, <1>5, <2>1, NeutralAnswer
  <2> QED BY <1>1, <1>2, <2>1, <2>2, AnswerOwn
<1> QED BY <1>4, <1>5 DEF PromoteUser

LEMMA GroupMessageOwn ==
  ASSUME Context, OnlyChatLost, NEW c \in Conn, GroupMessage(c), UNCHANGED clientVars
  PROVE  Own(c)'
<1> DEFINE n == Head(inbox[c])
           m == [type |-> "MESSAGE", source |-> n.source]
           A == {v \in database : /\ status[v] = "ONLINE" /\ in_session[v] = "ONLINE"
                                  /\ session_id[v] = session_id[n.source]}
<1>1. AwaitsRequest(c) /\ Speaks(c) /\ n.type = "MESSAGE"
  BY PendingMeant, PendingRequest DEF GroupMessage, Receiving
<1>2. /\ Receive(c)
      /\ UNCHANGED <<pc, source, server_connection_status, peer, status, in_session, role>>
  BY DEF GroupMessage, thread, entry
<1>3. m \in Reply
  BY HeadType, Types0 DEF GroupMessage, Receiving, Reply
<1>4. Told(c, m) \/ Untold(c)
  <2>1. Send(ToAll(A, m))
    BY DEF GroupMessage
  <2> HIDE DEF A, m
  <2> QED BY <1>3, <2>1, SendAll
<1>5. Unreplied(c) \/ Replied(c, m)
  BY <1>1, <1>2, <1>3, <1>4, NeutralAnswer DEF Unreplied
<1> QED BY <1>1, <1>2, <1>3, <1>5, AnswerOwn

LEMMA QueriesOwn ==
  ASSUME Context, OnlyChatLost, NEW c \in Conn, QueryUsers(c) \/ QuerySession(c), UNCHANGED clientVars
  PROVE  Own(c)'
<1>1. AwaitsRequest(c) /\ Speaks(c) /\ Head(inbox[c]).type \in {"QUERY", "SESS_QUERY"}
  BY PendingMeant, PendingRequest DEF QueryUsers, QuerySession, Receiving
<1>2. /\ Receive(c)
      /\ UNCHANGED <<pc, source, server_connection_status, peer, status, in_session, role>>
  BY DEF QueryUsers, QuerySession, thread, entry
<1>3. \E t \in {"QU_ACK", "SQ_NAK", "SQ_ACK"} : Send(To(c, [type |-> t]))
  BY DEF QueryUsers, QuerySession
<1>4. \A t \in {"QU_ACK", "SQ_NAK", "SQ_ACK"} : [type |-> t] \in Reply
  BY DEF Reply
<1>5. \E r \in Reply : r.type \in {"QU_ACK", "SQ_NAK", "SQ_ACK"} /\ Told(c, r)
  BY <1>3, <1>4, SendOne
<1>6. \E r \in Reply : Replied(c, r)
  BY <1>1, <1>2, <1>5, NeutralAnswer
<1> QED BY <1>1, <1>2, <1>6, AnswerOwn

\* After a leave the user is in no session, and its own client is told nothing.
LEMMA LeaveEffect ==
  ASSUME Context, NEW c \in Conn, Speaks(c), LeaveBody(c)
  PROVE  /\ in_session'[source[c]] = "OFFLINE" /\ Untold(c)
         /\ UNCHANGED <<source, server_connection_status, peer, status>>
<1> DEFINE u == source[c]
           A == {v \in database : role'[v] = "ADMIN"}
           m == [type |-> "PM_MESSAGE"]
<1>1. UNCHANGED <<source, server_connection_status, peer, status>>
  BY DEF LeaveBody
<1>2. CASE in_session[u] = "OFFLINE" /\ UNCHANGED <<in_session, outbox>>
  BY <1>1, <1>2 DEF Untold
<1>3. CASE /\ in_session[u] = "ONLINE" /\ ClearMembership(u)
           /\ role' = RolesWithout(u) /\ Send(ToAll(A, m))
  <2>1. u \in User /\ m \in Reply /\ session_id[u] # NotInSession
    BY <1>3, SpeakerServed, InSessionOnline DEF Reply
  <2>2. in_session'[u] = "OFFLINE"
    BY <1>3, <2>1, Types0 DEF ClearMembership, TypeOK
  <2>3. \A v \in A : socket_fd[v] # c
    <3> SUFFICES ASSUME NEW v \in A, socket_fd[v] = c PROVE FALSE
      OBVIOUS
    <3>1. v \in User /\ v \in database /\ role'[v] = "ADMIN"
      BY Types0 DEF TypeOK
    <3>2. v # u
      BY <1>3, <2>1, <3>1 DEF RolesWithout
    <3>3. role[v] = "ADMIN" \/ Members(session_id[u]) \ {u} = {v}
      BY <1>3, <3>1, <3>2 DEF RolesWithout
    <3>4. role[v] = "ADMIN" \/ session_id[v] = session_id[u]
      BY <3>3 DEF Members
    <3>5. status[v] = "ONLINE"
      BY <2>1, <3>1, <3>4, InSessionOnline
    <3> QED BY <3>1, <3>2, <3>5, Reached
  <2>4. Untold(c)
    <3>1. PICK U : U = A
      OBVIOUS
    <3>2. Send(ToAll(U, m))
      BY <1>3, <3>1
    <3> HIDE DEF A, m
    <3> QED BY <2>1, <2>3, <3>1, <3>2, SendAll
  <2> QED BY <1>1, <2>2, <2>4
<1>4. ~ (in_session[u] = "ONLINE" /\ session_id[u] = NotInSession)
  BY SpeakerServed, InSessionOnline
<1> QED BY <1>2, <1>3, <1>4 DEF LeaveBody

LEMMA SessionLeaveOwn ==
  ASSUME Context, OnlyChatLost, NEW c \in Conn, SessionLeave(c), UNCHANGED clientVars
  PROVE  Own(c)'
<1> DEFINE m == Head(inbox[c])
           u == source[c]
           p == owner[c]
<1>1. /\ pc[c] = "recv" /\ inbox[c] # <<>> /\ m.type = "LEAVE_SESS" /\ Speaks(c)
      /\ AwaitsRequest(c) \/ AwaitsEnd(c)
  BY PendingRequest DEF SessionLeave, Receiving
<1>2. /\ in_session'[u] = "OFFLINE" /\ outbox'[c] = outbox[c]
      /\ UNCHANGED <<source, server_connection_status, peer, status, pc>>
  BY <1>1, LeaveEffect DEF SessionLeave, Untold
<1>3. p \in Client /\ socket_file_dscriptor[p] = c
  BY <1>1, BusyOwner
<1>4. Receive(c)
  BY DEF SessionLeave
<1>5. CASE AwaitsRequest(c)
  <2>1. /\ Within(p, c) /\ inbox[c] = <<LeaveMessage>> /\ Meant(p, c, m) /\ HasLeft(p, c)
    BY <1>1, <1>5 DEF AwaitsRequest, Queued, Meant
  <2>2. inbox'[c] = <<>>
    BY <1>1, <1>4, <2>1, ReceiveLeaves
  <2>3. HasLeft(p, c)' /\ InStep(p, c)'
    BY <1>2, <2>1 DEF HasLeft, InStep, clientVars
  <2>4. Within(p, c)'
    BY <1>2, <2>1, <2>2, <2>3 DEF Within, Speaks, Queued, clientVars
  <2>5. OwnUser(c)'
    BY <1>1, <1>2 DEF OwnUser, Speaks, clientVars, Context, PatientInv
  <2> QED BY <1>3, <2>4, <2>5, Types0 DEF Own, Conversation, clientVars
<1>6. CASE AwaitsEnd(c)
  <2>1. inbox[c] = <<LeaveMessage, ExitMessage>> /\ Without(p, c)
    BY <1>1, <1>6 DEF AwaitsEnd, ExitMessage
  <2>2. inbox'[c] = <<ExitMessage>>
    BY <1>1, <1>4, <2>1, ReceiveLeaves
  <2>3. Without(p, c)'
    BY <1>1, <1>2, <2>1, <2>2 DEF Without, LoggedOut, Ending, Speaks, clientVars
  <2>4. OwnUser(c)'
    BY <1>1, <1>2 DEF OwnUser, Speaks, clientVars, Context, PatientInv
  <2> QED BY <1>3, <2>3, <2>4, Types0 DEF Own, Conversation, clientVars
<1> QED BY <1>1, <1>5, <1>6

LEMMA RecvExitOwn ==
  ASSUME Context, OnlyChatLost, NEW c \in Conn, RecvExit(c), UNCHANGED clientVars
  PROVE  Own(c)'
<1> DEFINE u == source[c]
           p == owner[c]
<1>1. /\ pc[c] = "recv" /\ inbox[c] # <<>> /\ Head(inbox[c]).type = "EXIT" /\ Speaks(c)
      /\ AwaitsEnd(c)
  BY PendingRequest DEF RecvExit, Receiving, AwaitsRequest, Meant
<1>2. UNCHANGED <<source, server_connection_status, peer, status, in_session, outbox>>
  BY DEF RecvExit, entry
<1>3. p \in Client /\ socket_file_dscriptor[p] = c /\ u \in User
  BY <1>1, BusyOwner, SpeakerServed
<1>4. inbox[c] = <<ExitMessage>> /\ Without(p, c)
  BY <1>1 DEF AwaitsEnd, LeaveMessage
<1>5. inbox'[c] = <<>>
  BY <1>1, <1>4, ReceiveLeaves DEF RecvExit
<1>6. pc'[c] = IF in_session[u] = "ONLINE" THEN "leave" ELSE "offline"
  BY Types0 DEF RecvExit, StartExit, TypeOK
<1>7. in_session[u] # "ONLINE" => in_session[u] = "OFFLINE"
  BY <1>3, Types0 DEF TypeOK
<1>8. Without(p, c)'
  BY <1>1, <1>2, <1>4, <1>5, <1>6 DEF Without, LoggedOut, Ending, Speaks, clientVars
<1>9. OwnUser(c)'
  BY <1>1, <1>2, <1>6, <1>7 DEF OwnUser, Speaks, clientVars, Context, PatientInv
<1> QED BY <1>3, <1>8, <1>9, Types0 DEF Own, Conversation, clientVars

LEMMA DisconnectOwn ==
  ASSUME Context, NEW c \in Conn, Disconnect(c), UNCHANGED clientVars
  PROVE  Own(c)'
<1> DEFINE p == owner[c]
<1>1. pc[c] = "recv" /\ inbox[c] = <<>> /\ peer[c] = "closed"
  BY DEF Disconnect
<1>2. p \in Client /\ socket_file_dscriptor[p] = c /\ Without(p, c)
  BY <1>1, BusyOwner DEF Asking, Within
<1>3. server_connection_status[c] = "OFFLINE"
  BY <1>1, <1>2 DEF Without, Ending
<1>4. pc'[c] = "closed" /\ UNCHANGED <<outbox, inbox, server_connection_status>>
  BY <1>3, Types0 DEF Disconnect, TypeOK
<1>5. Without(p, c)' /\ OwnUser(c)'
  BY <1>1, <1>2, <1>4 DEF Without, LoggedOut, Ending, OwnUser, Speaks, clientVars
<1> QED BY <1>2, <1>5, Types0 DEF Own, Conversation, clientVars

LEMMA ExitLeaveOwn ==
  ASSUME Context, NEW c \in Conn, ExitLeave(c), UNCHANGED clientVars
  PROVE  Own(c)'
<1> DEFINE p == owner[c]
<1>1. Without(p, c) /\ inbox[c] = <<>> /\ Speaks(c) /\ pc[c] = "leave"
  BY ExitingSpeaks DEF ExitLeave
<1>2. /\ in_session'[source[c]] = "OFFLINE" /\ outbox'[c] = outbox[c]
      /\ UNCHANGED <<source, server_connection_status, peer, status, inbox>>
  BY <1>1, LeaveEffect DEF ExitLeave, Untold
<1>3. p \in Client /\ socket_file_dscriptor[p] = c
  BY <1>1, BusyOwner
<1>4. pc'[c] = "offline"
  BY Types0 DEF ExitLeave, TypeOK
<1>5. Without(p, c)'
  BY <1>1, <1>2, <1>4 DEF Without, LoggedOut, Ending, Speaks, clientVars
<1>6. OwnUser(c)'
  BY <1>1, <1>2, <1>4 DEF OwnUser, Speaks, clientVars, Context, PatientInv
<1> QED BY <1>3, <1>5, <1>6, Types0 DEF Own, Conversation, clientVars

LEMMA ExitOfflineOwn ==
  ASSUME Context, NEW c \in Conn, ExitOffline(c), UNCHANGED clientVars
  PROVE  Own(c)'
<1> DEFINE p == owner[c]
<1>1. Without(p, c) /\ Speaks(c) /\ pc[c] = "offline"
  BY ExitingSpeaks DEF ExitOffline
<1>2. p \in Client /\ socket_file_dscriptor[p] = c
  BY <1>1, BusyOwner
<1>3. pc'[c] = "closed" /\ inbox'[c] = <<>> /\ outbox' = outbox
  BY Types0 DEF ExitOffline, TypeOK
<1>4. Without(p, c)' /\ OwnUser(c)'
  BY <1>1, <1>3 DEF Without, LoggedOut, Ending, OwnUser, Speaks, clientVars
<1> QED BY <1>2, <1>4, Types0 DEF Own, Conversation, clientVars

LEMMA HandlerOwn ==
  ASSUME Context, OnlyChatLost, NEW c \in Conn, Handler(c), UNCHANGED clientVars
  PROVE  Own(c)'
BY VerifyLoginOwn, UserLoginOwn, UserRegistrationOwn, CreateOwn, JoinOwn, SessionLeaveOwn,
   KickOwn, PromoteOwn, GroupMessageOwn, QueriesOwn, RecvExitOwn, DisconnectOwn, ExitLeaveOwn,
   ExitOfflineOwn, NeverCrashes DEF Handler

\* Nobody is in a session who is not online.
LEMMA HandlerServer ==
  ASSUME Context, NEW c \in Conn, Handler(c)
  PROVE  ServerInv'
<1> DEFINE Kept == \A u \in User : in_session'[u] = "ONLINE" => status'[u] = "ONLINE"
<1>0. \A u \in User : in_session[u] = "ONLINE" => status[u] = "ONLINE"
  BY InSessionOnline
<1>1. ~ UnknownSourceCrash(c)
  BY NeverCrashes
<1>2. server' = server /\ server = "up"
  BY <1>1 DEF Handler, VerifyLogin, UserLogin, UserRegistration, SessionCreate, SessionJoin,
     SessionLeave, KickUser, PromoteUser, GroupMessage, QueryUsers, QuerySession, RecvExit,
     Disconnect, ExitLeave, ExitOffline, LeaveBody, Receiving
<1>3. Kept
  <2>1. CASE VerifyLogin(c) \/ GroupMessage(c) \/ QueryUsers(c) \/ QuerySession(c)
             \/ RecvExit(c) \/ Disconnect(c)
    BY <1>0, <2>1 DEF VerifyLogin, GroupMessage, QueryUsers, QuerySession, RecvExit, Disconnect,
       entry
  <2>2. CASE UserLogin(c)
    BY <1>0, <2>2, Types0 DEF UserLogin, TypeOK
  <2>3. CASE UserRegistration(c)
    BY <1>0, <2>3, Types0 DEF UserRegistration, TypeOK
  <2>4. CASE SessionCreate(c) \/ SessionJoin(c)
    <3>1. Speaks(c)
      BY <2>4, PendingRequest DEF SessionCreate, SessionJoin, Receiving
    <3>2. status[source[c]] = "ONLINE" /\ status' = status
      BY <2>4, <3>1, SpeakerServed DEF SessionCreate, SessionJoin
    <3>3. in_session' = in_session \/ in_session' = [in_session EXCEPT ![source[c]] = "ONLINE"]
      BY <2>4 DEF SessionCreate, SessionJoin
    <3> QED BY <1>0, <3>2, <3>3, Types0 DEF TypeOK
  <2>5. CASE SessionLeave(c) \/ ExitLeave(c) \/ KickUser(c)
    <3>1. status' = status
      BY <2>5 DEF SessionLeave, ExitLeave, LeaveBody, KickUser
    <3>2. in_session' = in_session \/ \E u : in_session' = [in_session EXCEPT ![u] = "OFFLINE"]
      BY <2>5 DEF SessionLeave, ExitLeave, LeaveBody, KickUser, ClearMembership
    <3> QED BY <1>0, <3>1, <3>2, Types0 DEF TypeOK
  <2>6. CASE PromoteUser(c)
    BY <1>0, <2>6 DEF PromoteUser
  <2>7. CASE ExitOffline(c)
    <3>1. in_session[source[c]] = "OFFLINE"
      BY <2>7 DEF ExitOffline, Context, PatientInv, OwnUser
    <3> QED BY <1>0, <2>7, <3>1, Types0 DEF ExitOffline, TypeOK
  <2> QED BY <1>1, <2>1, <2>2, <2>3, <2>4, <2>5, <2>6, <2>7 DEF Handler
<1> QED BY <1>2, <1>3 DEF ServerInv

LEMMA ServesKeeps ==
  ASSUME Context, OnlyChatLost, NEW c \in Conn, Serves(c)
  PROVE  PatientInv'
<1>1. Handler(c) /\ UNCHANGED clientVars
  BY DEF Serves
<1>2. Own(c)' /\ Captured(c)'
  <2>1. Captured(c)'
    BY <1>1 DEF Captured, clientVars, Context, PatientInv
  <2> QED BY <1>1, <2>1, HandlerOwn
<1>3. \A e \in Conn \ {c} : (Conversation(e) /\ OwnUser(e) /\ Captured(e))'
  BY <1>1, HandlerBeside, BesideConversation DEF OthersBeside
<1>4. \A p \in Client : ProcessSocket(p)'
  BY <1>1 DEF ProcessSocket, LoggedOut, clientVars, Context, PatientInv
<1>5. ServerInv'
  BY <1>1, HandlerServer
<1> QED BY <1>2, <1>3, <1>4, <1>5 DEF PatientInv, Own

-----------------------------------------------------------------------------
(* The steps of a client process touch its own connections only, and most  *)
(* of them the last one only.                                              *)

\* The connections of the other processes.
Apart(p) ==
  /\ \A q \in Client \ {p} :
       UNCHANGED <<main[q], socket_file_dscriptor[q], name[q], client_connection_status[q],
                   verified_access[q], session_status[q], client_role[q],
                   termination_signal[q]>>
  /\ \A c \in Conn : owner'[c] # p =>
       UNCHANGED <<owner[c], handler[c], server_reply_socket[c], inbox[c], outbox[c], peer[c],
                   pc[c], source[c], server_connection_status[c]>>
  /\ \A c \in Conn : owner'[c] = p => owner[c] \in {p, NoClient}
  /\ UNCHANGED <<status, in_session, role, server>>

LEMMA ApartKeeps ==
  ASSUME Context, NEW p \in Client, Apart(p),
         \A c \in Conn : owner'[c] = p => (Conversation(c) /\ OwnUser(c) /\ Captured(c))',
         ProcessSocket(p)', ServerInv'
  PROVE  PatientInv'
<1>1. ASSUME NEW c \in Conn, owner'[c] # p
      PROVE  (Conversation(c) /\ OwnUser(c) /\ Captured(c))'
  <2> DEFINE q == owner[c]
  <2>1. UNCHANGED <<owner[c], handler[c], server_reply_socket[c], inbox[c], outbox[c], peer[c],
                    pc[c], source[c], server_connection_status[c], status, in_session, role>>
    BY <1>1 DEF Apart
  <2>2. Conversation(c) /\ OwnUser(c) /\ Captured(c)
    BY DEF Context, PatientInv
  <2>3. (OwnUser(c) /\ Captured(c))'
    BY <2>1, <2>2 DEF OwnUser, Captured, Speaks
  <2>4. CASE q = NoClient
    BY <2>1, <2>2, <2>3, <2>4 DEF Conversation
  <2>5. CASE q # NoClient
    <3>1. q \in Client \ {p}
      BY <1>1, <2>1, <2>5, Types0 DEF C!ClientTypeOK
    <3>2. UNCHANGED <<main[q], socket_file_dscriptor[q], name[q], client_connection_status[q],
                      verified_access[q], session_status[q], client_role[q],
                      termination_signal[q]>>
      BY <2>1, <3>1 DEF Apart
    <3>3. Asking(q, c) => Asking(q, c)'
      BY <2>1, <3>2 DEF Asking, Waits, Verified, Refused, Accepted, Speaks
    <3>4. Within(q, c) => Within(q, c)'
      BY <2>1, <3>2 DEF Within, Queued, Meant, HasLeft, InStep, Speaks
    <3>5. Without(q, c) => Without(q, c)'
      BY <2>1, <3>2 DEF Without, LoggedOut, Ending, Speaks
    <3>6. Dead(c) => Dead(c)'
      BY <2>1 DEF Dead
    <3>7. Conversation(c)'
      BY <2>1, <2>2, <2>5, <3>2, <3>3, <3>4, <3>5, <3>6 DEF Conversation
    <3> QED BY <2>3, <3>7
  <2> QED BY <2>4, <2>5
<1>2. ASSUME NEW q \in Client \ {p}
      PROVE  ProcessSocket(q)'
  <2>1. ProcessSocket(q) /\ socket_file_dscriptor[q] \in Conn \cup {NoSocket}
    BY Types0 DEF Context, PatientInv, C!ClientTypeOK, C!NoSocket, NoSocket
  <2>2. UNCHANGED <<main[q], socket_file_dscriptor[q], client_connection_status[q],
                    verified_access[q], session_status[q], termination_signal[q]>>
    BY DEF Apart
  <2>3. CASE socket_file_dscriptor[q] = NoSocket
    BY <2>1, <2>2, <2>3 DEF ProcessSocket, LoggedOut
  <2>4. CASE socket_file_dscriptor[q] # NoSocket
    <3>1. owner[socket_file_dscriptor[q]] = q /\ socket_file_dscriptor[q] \in Conn
      BY <2>1, <2>4 DEF ProcessSocket
    <3>2. owner'[socket_file_dscriptor[q]] = q \/ owner'[socket_file_dscriptor[q]] = p
      BY <3>1 DEF Apart
    <3>3. owner'[socket_file_dscriptor[q]] = q
      BY <3>1, <3>2, Types0 DEF Apart
    <3> QED BY <2>2, <2>4, <3>3 DEF ProcessSocket
  <2> QED BY <2>3, <2>4
<1> QED BY <1>1, <1>2 DEF PatientInv

\* A step that touches the flags of p and the last connection of p at most.
Current(p) ==
  /\ \A q \in Client \ {p} :
       UNCHANGED <<main[q], name[q], client_connection_status[q],
                   verified_access[q], session_status[q], client_role[q],
                   termination_signal[q]>>
  /\ \A c \in Conn \ {socket_file_dscriptor[p]} :
       UNCHANGED <<handler[c], server_reply_socket[c], inbox[c], outbox[c], peer[c]>>
  /\ UNCHANGED <<socket_file_dscriptor, owner>>
  /\ ServerUnchanged

Talks(p, c) == Asking(p, c) \/ Within(p, c) \/ Without(p, c)

LEMMA OwnSocket ==
  ASSUME Context, NEW p \in Client, socket_file_dscriptor[p] # NoSocket
  PROVE  LET c == socket_file_dscriptor[p] IN
           c \in Conn /\ owner[c] = p /\ Talks(p, c) /\ Captured(c)
<1> DEFINE c == socket_file_dscriptor[p]
<1>1. c \in Conn
  BY Types0 DEF C!ClientTypeOK, C!NoSocket, NoSocket
<1>2. owner[c] = p
  BY DEF Context, PatientInv, ProcessSocket
<1>3. Conversation(c) /\ Captured(c)
  BY <1>1 DEF Context, PatientInv
<1> QED BY <1>1, <1>2, <1>3, Types0 DEF Conversation, Talks

LEMMA CurrentKeeps ==
  ASSUME Context, NEW p \in Client, Current(p),
         socket_file_dscriptor[p] = NoSocket => LoggedOut(p)',
         \A c \in Conn : c = socket_file_dscriptor[p] => Talks(p, c)' /\ Captured(c)'
  PROVE  PatientInv'
<1>1. UNCHANGED <<socket_file_dscriptor, owner, pc, source, server_connection_status, status,
                  in_session, role, server>>
  BY DEF Current, ServerUnchanged, entry, thread
<1>2. Apart(p)
  <2>1. \A c \in Conn : owner'[c] # p => c # socket_file_dscriptor[p]
    BY <1>1, OwnSocket, Types0
  <2> QED BY <1>1, <2>1 DEF Apart, Current
<1>3. ASSUME NEW c \in Conn, owner'[c] = p
      PROVE  (Conversation(c) /\ OwnUser(c) /\ Captured(c))'
  <2>1. OwnUser(c)'
    BY <1>1 DEF OwnUser, Speaks, Context, PatientInv
  <2>2. CASE c = socket_file_dscriptor[p]
    <3>1. Talks(p, c)' /\ Captured(c)'
      BY <2>2
    <3> QED BY <1>1, <1>3, <2>1, <2>2, <3>1, Types0 DEF Conversation, Talks
  <2>3. CASE c # socket_file_dscriptor[p]
    <3>1. UNCHANGED <<handler[c], server_reply_socket[c], inbox[c], outbox[c]>>
      BY <2>3 DEF Current
    <3>2. Dead(c) /\ Captured(c)
      BY <1>1, <1>3, <2>3, Types0 DEF Context, PatientInv, Conversation
    <3>3. Dead(c)' /\ Captured(c)'
      BY <1>1, <3>1, <3>2 DEF Dead, Captured
    <3> QED BY <1>1, <1>3, <2>1, <2>3, <3>3, Types0 DEF Conversation
  <2> QED BY <2>2, <2>3
<1>4. ProcessSocket(p)'
  BY <1>1 DEF ProcessSocket, Context, PatientInv
<1>5. ServerInv'
  BY <1>1 DEF ServerInv, Context, PatientInv
<1> QED BY <1>2, <1>3, <1>4, <1>5, ApartKeeps

-----------------------------------------------------------------------------
(* The commands of a patient user.                                         *)

LEMMA PatientlyTyped ==
  ASSUME Context, NEW p \in Client, NEW t, MayType(p, t)
  PROVE  t \in Typed /\ (t # "MESSAGE" => Settled(p))
BY DEF MayType, Context, Patient

\* The server runs as long as a connection is not closed.
LEMMA ServerUp ==
  ASSUME Context, NEW c \in Conn, pc[c] # "closed"
  PROVE  server = "up"
BY Types0 DEF TypeOK, Context, PatientInv, ServerInv

\* When everything is settled, a process is logged in and in step with its
\* entry, or its last connection is over.
AtRest(p, c) ==
  /\ Within(p, c) /\ handler[c] = "recv"
  /\ session_status[p] = in_session[source[c]]
  /\ in_session[source[c]] = "ONLINE" => client_role[p] = role[source[c]]
Over(p, c) == Without(p, c) /\ Dead(c)

LEMMA SettledTalk ==
  ASSUME Context, NEW p \in Client, Settled(p), ~ C!Gone(p), NEW c,
         c = socket_file_dscriptor[p], c # NoSocket
  PROVE  /\ c \in Conn /\ owner[c] = p /\ inbox[c] = <<>> /\ outbox[c] = <<>>
         /\ AtRest(p, c) \/ Over(p, c)
<1>1. c \in Conn /\ owner[c] = p /\ Talks(p, c)
  BY OwnSocket
<1>2. /\ inbox[c] = <<>> /\ outbox[c] = <<>>
      /\ \/ pc[c] = "recv" /\ handler[c] = "recv"
         \/ pc[c] = "closed" /\ handler[c] = "stopped"
  BY <1>1 DEF Settled, C!Handlers
<1>3. \A m : <<m>> # <<>>
  OBVIOUS
<1>4. ~ Asking(p, c)
  BY <1>2, <1>3 DEF Asking, Waits, Verified, Refused, Accepted
<1>5. CASE Within(p, c)
  <2>1. InStep(p, c)
    BY <1>2, <1>3, <1>5 DEF Within
  <2>2. pc[c] = "recv"
    BY <1>5 DEF Within
  <2> QED BY <1>1, <1>2, <1>5, <2>1, <2>2, EmptyQueue DEF InStep, AtRest
<1>6. CASE Without(p, c)
  <2>1. pc[c] = "closed" /\ handler[c] = "stopped"
    BY <1>2, <1>3, <1>6 DEF Without, Ending, Speaks
  <2> QED BY <1>1, <1>2, <1>6, <2>1 DEF Over, Dead
<1> QED BY <1>1, <1>2, <1>4, <1>5, <1>6 DEF Talks

\* A process that has a connection and is settled is logged in.
LEMMA OnlineAtRest ==
  ASSUME Context, NEW p \in Client, Settled(p), ~ C!Gone(p),
         client_connection_status[p] = "ONLINE", NEW c, c = socket_file_dscriptor[p]
  PROVE  /\ c \in Conn /\ owner[c] = p /\ inbox[c] = <<>> /\ outbox[c] = <<>>
         /\ AtRest(p, c) /\ Captured(c) /\ pc[c] = "recv" /\ peer[c] = "open"
         /\ server = "up"
<1>1. c # NoSocket
  BY DEF Context, PatientInv, ProcessSocket, LoggedOut
<1>2. /\ c \in Conn /\ owner[c] = p /\ inbox[c] = <<>> /\ outbox[c] = <<>>
      /\ AtRest(p, c) \/ Over(p, c)
  BY <1>1, SettledTalk
<1>3. AtRest(p, c)
  BY <1>2 DEF Over, Without, LoggedOut
<1>4. Captured(c)
  BY <1>2 DEF Context, PatientInv
<1> QED BY <1>2, <1>3, <1>4, ServerUp DEF AtRest, Within

\* What a process sends is read by the thread of its connection.
LEMMA Sent ==
  ASSUME Context, NEW c \in Conn, NEW m, pc[c] # "closed", peer[c] = "open", C!SendTo(c, m)
  PROVE  inbox' = [inbox EXCEPT ![c] = Append(inbox[c], m)]
BY ServerUp DEF C!SendTo

\* A line of chat may be typed at any time in a session.
LEMMA InSessionWithin ==
  ASSUME Context, NEW p \in Client, client_connection_status[p] = "ONLINE",
         session_status[p] = "ONLINE", main[p] = "command", NEW c,
         c = socket_file_dscriptor[p]
  PROVE  /\ c \in Conn /\ owner[c] = p /\ Captured(c) /\ Within(p, c) /\ InStep(p, c)
         /\ pc[c] = "recv" /\ peer[c] = "open" /\ inbox[c] # <<LeaveMessage>>
         /\ inbox[c] = <<>> \/ Head(inbox[c]).type # "LEAVE_SESS"
<1>1. c # NoSocket
  BY DEF Context, PatientInv, ProcessSocket, LoggedOut
<1>2. c \in Conn /\ owner[c] = p /\ Talks(p, c) /\ Captured(c)
  BY <1>1, OwnSocket
<1>3. Within(p, c)
  BY <1>2 DEF Talks, Asking, Without, LoggedOut
<1>4. ~ HasLeft(p, c)
  BY DEF HasLeft
<1>5. inbox[c] = <<>> \/ Head(inbox[c]).type # "LEAVE_SESS"
  BY <1>3, <1>4 DEF Within, Queued, Meant
<1>6. Head(<<LeaveMessage>>).type = "LEAVE_SESS" /\ <<LeaveMessage>> # <<>>
  BY DEF LeaveMessage
<1> QED BY <1>2, <1>3, <1>5, <1>6 DEF Within

LEMMA CommandKeeps ==
  ASSUME Context, NEW p \in Client, NEW m \in Request, MayType(p, m.type),
         C!Command(p, m), ServerUnchanged
  PROVE  PatientInv'
<1>0. PICK c : c = socket_file_dscriptor[p]
  OBVIOUS
<1> DEFINE q == inbox[c]
<1>1. m.type \in Typed /\ (m.type # "MESSAGE" => Settled(p))
  BY PatientlyTyped
<1>2. /\ client_connection_status[p] = "ONLINE" /\ main[p] = "command" /\ C!SendTo(c, m)
      /\ C!Allowed(p, m) /\ UNCHANGED <<clientVars, outbox, peer>>
      /\ m.type \notin {"EXIT", "LEAVE_SESS"}
  BY <1>0 DEF C!Command, C!AtPrompt, C!Allowed, C!clientVars, C!flags, C!handlers, clientVars
<1>3. /\ c \in Conn /\ owner[c] = p /\ Captured(c) /\ Within(p, c) /\ InStep(p, c)
      /\ pc[c] = "recv" /\ peer[c] = "open"
      /\ \/ q = <<>> /\ Meant(p, c, m)
         \/ q # <<>> /\ m.type = "MESSAGE" /\ Head(q).type # "LEAVE_SESS"
  <2>1. CASE Settled(p)
    <3>1. /\ c \in Conn /\ owner[c] = p /\ q = <<>> /\ outbox[c] = <<>>
          /\ AtRest(p, c) /\ Captured(c) /\ pc[c] = "recv" /\ peer[c] = "open"
      BY <1>0, <1>2, <2>1, OnlineAtRest DEF C!Gone
    <3>2. Meant(p, c, m)
      BY <1>1, <1>2, <3>1 DEF C!Allowed, Meant, AtRest
    <3>3. Within(p, c) /\ InStep(p, c)
      BY <3>1, EmptyQueue DEF InStep, AtRest
    <3> QED BY <3>1, <3>2, <3>3
  <2>2. CASE m.type = "MESSAGE"
    <3>1. session_status[p] = "ONLINE"
      BY <1>2, <2>2 DEF C!Allowed
    <3>2. Meant(p, c, m)
      BY <1>1, <2>2 DEF Meant
    <3> QED BY <1>0, <1>2, <2>2, <3>1, <3>2, InSessionWithin
  <2> QED BY <1>1, <2>1, <2>2
<1>4. inbox' = [inbox EXCEPT ![c] = Append(q, m)]
  BY <1>2, <1>3, Sent
<1>5. q \in Seq(Greeting \cup Request) /\ inbox'[c] = Append(q, m)
  BY <1>3, <1>4, Types0
<1>6. UNCHANGED <<clientVars, outbox, peer, entry, thread>>
  BY <1>2 DEF ServerUnchanged
<1>7. \A n : Meant(p, c, n) => Meant(p, c, n)'
  BY <1>6 DEF Meant, HasLeft, entry, thread, clientVars
<1>8. Queued(p, c)'
  <2>1. CASE q = <<>> /\ Meant(p, c, m)
    <3>1. Append(q, m) = <<m>>
      BY <1>5, <2>1, QueueAppend
    <3>2. inbox'[c] = <<m>> /\ Meant(p, c, m)'
      BY <1>5, <1>7, <2>1, <3>1
    <3> QED BY <3>2, OneQueued
  <2>2. CASE q # <<>> /\ m.type = "MESSAGE" /\ Head(q).type # "LEAVE_SESS"
    <3>1. Meant(p, c, Head(q)) /\ Chats(Tail(q))
      BY <1>3, <2>2 DEF Within, Queued
    <3>2. /\ inbox'[c] # <<>> /\ Head(inbox'[c]) = Head(q)
          /\ Tail(inbox'[c]) = Append(Tail(q), m) /\ Tail(q) \in Seq(Greeting \cup Request)
      BY <1>5, <2>2, QueueAppend
    <3>3. Chats(Tail(inbox'[c]))
      BY <1>1, <2>2, <3>1, <3>2, ChatsAppend
    <3> QED BY <1>7, <2>2, <3>1, <3>2, <3>3 DEF Queued
  <2> QED BY <1>3, <2>1, <2>2
<1>9. Talks(p, c)'
  <2>1. InStep(p, c)'
    BY <1>3, <1>6 DEF InStep, entry, thread, clientVars
  <2>2. Within(p, c)'
    BY <1>2, <1>3, <1>6, <1>8, <2>1 DEF Within, Speaks, entry, thread, clientVars
  <2> QED BY <2>2 DEF Talks
<1>10. Captured(c)' /\ UNCHANGED <<socket_file_dscriptor, owner, handler, server_reply_socket>>
  BY <1>2, <1>3 DEF Captured, clientVars
<1>11. Current(p)
  <2>1. \A d \in Conn \ {c} : inbox'[d] = inbox[d]
    BY <1>4, Types0
  <2> QED BY <1>0, <1>2, <2>1 DEF Current, clientVars
<1>12. c # NoSocket
  BY <1>3, Types0
<1> QED BY <1>0, <1>9, <1>10, <1>11, <1>12, CurrentKeeps

\* The session is left, if there is one, with a logout to follow or not.
Departs(p, why) ==
  /\ main' = [main EXCEPT ![p] = why]
  /\ \/ C!LeaveSession(p)
     \/ session_status[p] = "OFFLINE" /\ UNCHANGED <<session_status, client_role, inbox>>
  /\ UNCHANGED <<socket_file_dscriptor, name, client_connection_status, verified_access,
                 termination_signal, client_thread, handler, owner, server_reply_socket,
                 outbox, peer>>

LEMMA LeftWithin ==
  ASSUME Context, NEW p \in Client, NEW c \in Conn, AtRest(p, c), owner[c] = p,
         c = socket_file_dscriptor[p], NEW why \in {"command", "logout", "quit"},
         Departs(p, why), ServerUnchanged, inbox[c] = <<>>, outbox[c] = <<>>,
         why = "command" => C!LeaveSession(p)
  PROVE  Within(p, c)' /\ \A d \in Conn \ {c} : inbox'[d] = inbox[d]
<1>1. /\ outbox' = outbox /\ main'[p] = why
      /\ UNCHANGED <<entry, thread, name, client_connection_status, verified_access, handler,
                     termination_signal, peer>>
  BY Types0 DEF Departs, ServerUnchanged, C!ClientTypeOK
<1>2. Within(p, c) /\ pc[c] = "recv" /\ peer[c] = "open"
  BY DEF AtRest, Within
<1>3. Lacks(outbox'[c], Entries) /\ WillShow(outbox'[c], "OFFLINE", "OFFLINE")
  BY <1>1, EmptyQueue
<1>4. CASE C!LeaveSession(p)
  <2>1. session_status'[p] = "OFFLINE" /\ C!SendTo(c, LeaveMessage)
    BY <1>4, Types0 DEF C!LeaveSession, LeaveMessage, C!ClientTypeOK
  <2>2. inbox' = [inbox EXCEPT ![c] = <<LeaveMessage>>]
    BY <1>2, <2>1, Sent
  <2>3. inbox'[c] = <<LeaveMessage>> /\ \A d \in Conn \ {c} : inbox'[d] = inbox[d]
    BY <2>2, Types0
  <2>4. HasLeft(p, c)'
    BY <1>3, <2>1 DEF HasLeft
  <2>5. LeaveMessage \in Request /\ LeaveMessage.type = "LEAVE_SESS"
    BY DEF LeaveMessage, Request
  <2>6. Queued(p, c)'
    BY <2>3, <2>4, <2>5, OneQueued DEF Meant
  <2> QED BY <1>1, <1>2, <2>3, <2>4, <2>6 DEF Within, Speaks, entry, thread
<1>5. CASE session_status[p] = "OFFLINE" /\ UNCHANGED <<session_status, client_role, inbox>>
      /\ why # "command"
  <2>1. HasLeft(p, c)'
    BY <1>3, <1>5 DEF HasLeft
  <2>2. InStep(p, c)
    BY EmptyQueue DEF InStep, AtRest
  <2>3. InStep(p, c)'
    BY <1>1, <1>5, <2>2 DEF InStep, entry, thread
  <2>4. Queued(p, c)'
    BY <1>5 DEF Queued
  <2> QED BY <1>1, <1>2, <1>5, <2>1, <2>3, <2>4 DEF Within, Speaks, entry, thread
<1>6. \/ C!LeaveSession(p)
      \/ session_status[p] = "OFFLINE" /\ UNCHANGED <<session_status, client_role, inbox>>
  BY DEF Departs
<1>7. C!LeaveSession(p) \/ why # "command"
  OBVIOUS
<1> QED BY <1>4, <1>5, <1>6, <1>7

LEMMA DepartsKeeps ==
  ASSUME Context, NEW p \in Client, Settled(p), ~ C!Gone(p), ServerUnchanged,
         client_connection_status[p] = "ONLINE",
         NEW why \in {"command", "logout", "quit"}, Departs(p, why),
         why = "command" => C!LeaveSession(p)
  PROVE  PatientInv'
<1> DEFINE c == socket_file_dscriptor[p]
<1>1. /\ c \in Conn /\ owner[c] = p /\ inbox[c] = <<>> /\ outbox[c] = <<>>
      /\ AtRest(p, c) /\ Captured(c)
  BY OnlineAtRest
<1>2. ASSUME NEW e \in Conn, e = c
      PROVE  /\ Within(p, e)' /\ Captured(e)'
             /\ \A d \in Conn \ {e} : inbox'[d] = inbox[d]
  BY <1>1, <1>2, LeftWithin DEF Captured, Departs
<1>3. \A q \in Client \ {p} : UNCHANGED <<main[q], session_status[q], client_role[q]>>
  BY Types0 DEF Departs, C!LeaveSession, C!ClientTypeOK
<1>4. Current(p)
  BY <1>1, <1>2, <1>3 DEF Current, Departs
<1>5. c # NoSocket
  BY <1>1, Types0
<1> QED BY <1>2, <1>4, <1>5, CurrentKeeps DEF Talks

LEMMA LeaveKeeps ==
  ASSUME Context, NEW p \in Client, Settled(p), C!Leave(p), ServerUnchanged
  PROVE  PatientInv'
<1>1. main[p] = "command" /\ client_connection_status[p] = "ONLINE"
  BY DEF C!Leave, C!AtPrompt, C!Allowed
<1>2. main' = [main EXCEPT ![p] = "command"]
  BY <1>1, Types0 DEF C!Leave, C!ClientTypeOK
<1>3. Departs(p, "command") /\ C!LeaveSession(p)
  BY <1>2 DEF Departs, C!Leave, C!handlers
<1> QED BY <1>1, <1>3, DepartsKeeps DEF C!Gone

LEMMA BeginLogoutKeeps ==
  ASSUME Context, NEW p \in Client, Settled(p), ~ C!Gone(p), NEW why \in {"logout", "quit"},
         C!BeginLogout(p, why), ServerUnchanged
  PROVE  PatientInv'
<1>1. session_status[p] \in {"ONLINE", "OFFLINE"}
  BY Types0 DEF C!ClientTypeOK
<1>2. Departs(p, why) /\ client_connection_status[p] = "ONLINE"
  BY <1>1 DEF Departs, C!BeginLogout, C!handlers
<1> QED BY <1>2, DepartsKeeps

\* The end of a process without a connection.
LEMMA OfflineTalk ==
  ASSUME Context, NEW p \in Client, client_connection_status[p] = "OFFLINE"
  PROVE  LoggedOut(p) /\ \A c \in Conn : c = socket_file_dscriptor[p] => Without(p, c)
<1>1. CASE socket_file_dscriptor[p] = NoSocket
  BY <1>1, Types0 DEF Context, PatientInv, ProcessSocket
<1>2. CASE socket_file_dscriptor[p] # NoSocket
  BY <1>2, OwnSocket DEF Talks, Asking, Within, Without
<1> QED BY <1>1, <1>2

LEMMA TerminateKeeps ==
  ASSUME Context, NEW p \in Client, Settled(p), ~ C!Gone(p), C!Terminate(p), ServerUnchanged
  PROVE  PatientInv'
<1>1. CASE C!BeginLogout(p, "quit")
  BY <1>1, BeginLogoutKeeps
<1>2. CASE /\ client_connection_status[p] = "OFFLINE"
           /\ main' = [main EXCEPT ![p] = "joining"]
           /\ termination_signal' = [termination_signal EXCEPT ![p] = "ON"]
           /\ UNCHANGED <<socket_file_dscriptor, name, client_connection_status,
                          verified_access, session_status, client_role, C!handlers,
                          C!channels>>
  <2>1. LoggedOut(p) /\ \A c \in Conn : c = socket_file_dscriptor[p] => Without(p, c)
    BY <1>2, OfflineTalk
  <2>2. UNCHANGED <<socket_file_dscriptor, name, client_connection_status, verified_access,
                    session_status, client_role, client_thread, handler, owner,
                    server_reply_socket, inbox, outbox, peer, pc, source,
                    server_connection_status>>
    BY <1>2 DEF C!handlers, C!channels, ServerUnchanged, thread
  <2>3. main'[p] = "joining"
        /\ \A q \in Client \ {p} : UNCHANGED <<main[q], termination_signal[q]>>
    BY <1>2, Types0 DEF C!ClientTypeOK
  <2>4. LoggedOut(p)'
    BY <2>1, <2>2, <2>3 DEF LoggedOut
  <2>5. \A c \in Conn : c = socket_file_dscriptor[p] => Without(p, c)'
    BY <2>1, <2>2, <2>4 DEF Without, Ending, Speaks
  <2>6. Current(p)
    BY <2>2, <2>3 DEF Current
  <2>7. \A c \in Conn : Captured(c)'
    BY <2>2 DEF Captured, Context, PatientInv
  <2> QED BY <2>2, <2>4, <2>5, <2>6, <2>7, CurrentKeeps DEF Talks
<1> QED BY <1>1, <1>2 DEF C!Terminate

LEMMA ShortAppends ==
  ASSUME NEW S, NEW a \in S, NEW b \in S
  PROVE  Append(<<>>, b) = <<b>> /\ Append(<<a>>, b) = <<a, b>>
<1> DEFINE q == Append(<<a>>, b)
<1>1. <<a>> \in Seq(S) /\ <<a, b>> \in Seq(S)
  OBVIOUS
<1>2. Len(q) = 2 /\ q[1] = a /\ q[2] = b /\ q \in Seq(S)
  OBVIOUS
<1> HIDE DEF q
<1>3. Len(<<a, b>>) = 2 /\ <<a, b>>[1] = a /\ <<a, b>>[2] = b
  OBVIOUS
<1>4. \A s, t \in Seq(S) : Len(s) = 2 /\ Len(t) = 2 /\ s[1] = t[1] /\ s[2] = t[2] => s = t
  OBVIOUS
<1>5. q = <<a, b>>
  BY <1>1, <1>2, <1>3, <1>4
<1>6. Append(<<>>, b) = <<b>>
  OBVIOUS
<1> QED BY <1>5, <1>6 DEF q

LEMMA EndLogoutKeeps ==
  ASSUME Context, NEW p \in Client, C!EndLogout(p), ServerUnchanged
  PROVE  PatientInv'
<1> DEFINE c == socket_file_dscriptor[p]
<1>1. main[p] \in {"logout", "quit"} /\ C!SendTo(c, ExitMessage)
  BY DEF C!EndLogout, ExitMessage
<1>2. c # NoSocket
  BY <1>1 DEF Context, PatientInv, ProcessSocket, LoggedOut
<1>3. c \in Conn /\ owner[c] = p /\ Talks(p, c) /\ Captured(c)
  BY <1>2, OwnSocket
<1>4. Within(p, c)
  BY <1>1, <1>3 DEF Talks, Asking, Without, LoggedOut
<1>5. HasLeft(p, c) /\ inbox[c] \in {<<>>, <<LeaveMessage>>}
  BY <1>1, <1>4 DEF Within
<1>6. inbox' = [inbox EXCEPT ![c] = Append(inbox[c], ExitMessage)]
  BY <1>1, <1>3, <1>4, Sent DEF Within
<1>7. inbox'[c] \in {<<ExitMessage>>, <<LeaveMessage, ExitMessage>>}
      /\ \A d \in Conn \ {c} : inbox'[d] = inbox[d]
  <2>1. /\ inbox'[c] = Append(inbox[c], ExitMessage)
        /\ \A d \in Conn \ {c} : inbox'[d] = inbox[d]
    BY <1>3, <1>6, Types0
  <2>2. \A a, b \in Request : Append(<<>>, b) = <<b>> /\ Append(<<a>>, b) = <<a, b>>
    BY ShortAppends
  <2>3. LeaveMessage \in Request /\ ExitMessage \in Request
    BY DEF LeaveMessage, ExitMessage, Request
  <2> QED BY <1>5, <2>1, <2>2, <2>3
<1>8. UNCHANGED <<socket_file_dscriptor, name, session_status, client_role, client_thread,
                  handler, owner, server_reply_socket, outbox, peer, pc, source,
                  server_connection_status>>
  BY DEF C!EndLogout, C!handlers, ServerUnchanged, thread
<1>9. /\ verified_access'[p] = "OFF" /\ client_connection_status'[p] = "OFFLINE"
      /\ \A q \in Client \ {p} : UNCHANGED <<main[q], verified_access[q], termination_signal[q],
                                             client_connection_status[q]>>
      /\ \/ main'[p] = "joining"
         \/ main'[p] = "command" /\ termination_signal'[p] = termination_signal[p]
  BY Types0 DEF C!EndLogout, C!ClientTypeOK
<1>10. LoggedOut(p)'
  BY <1>4, <1>5, <1>8, <1>9 DEF LoggedOut, Within, HasLeft
<1>11. Ending(c)'
  BY <1>4, <1>7, <1>8 DEF Ending, Speaks, Within
<1>12. Without(p, c)'
  BY <1>4, <1>5, <1>8, <1>10, <1>11 DEF Without, Within, HasLeft
<1>13. Current(p)
  BY <1>7, <1>8, <1>9 DEF Current
<1>14. Captured(c)'
  BY <1>3, <1>8 DEF Captured
<1> QED BY <1>2, <1>8, <1>12, <1>13, <1>14, CurrentKeeps DEF Talks

-----------------------------------------------------------------------------
(* The handler threads of patient users.                                   *)

\* A handler that runs is that of the last connection of its process.
LEMMA Running ==
  ASSUME Context, NEW h \in Conn, handler[h] \in {"start", "test", "recv"},
         NEW p \in Client, owner[h] = p
  PROVE  /\ h = socket_file_dscriptor[p] /\ h # NoSocket /\ Talks(p, h)
         /\ handler[h] # "start" => server_reply_socket[h] = h
<1>1. Conversation(h) /\ Captured(h)
  BY DEF Context, PatientInv
<1> QED BY <1>1, Types0 DEF Conversation, Dead, Talks, Captured

LEMMA StartKeeps ==
  ASSUME Context, NEW h \in Conn, NEW p \in Client, owner[h] = p,
         C!HandlerStart(h), ServerUnchanged
  PROVE  PatientInv'
<1>1. handler[h] = "start" /\ h = socket_file_dscriptor[p] /\ h # NoSocket /\ Talks(p, h)
  BY Running DEF C!HandlerStart
<1>2. UNCHANGED <<main, socket_file_dscriptor, name, client_connection_status, verified_access,
                  session_status, client_role, termination_signal, owner, inbox, outbox, peer,
                  pc, source, server_connection_status, in_session>>
  BY DEF C!HandlerStart, C!flags, C!channels, ServerUnchanged, thread, entry
<1>3. /\ handler'[h] = "test" /\ server_reply_socket'[h] = h
      /\ \A c \in Conn \ {h} : UNCHANGED <<handler[c], server_reply_socket[c]>>
  BY <1>1, Types0 DEF C!HandlerStart, C!ClientTypeOK
<1>4. Asking(p, h)
  BY <1>1 DEF Talks, Within, Without
<1>5. Asking(p, h)'
  BY <1>2, <1>3, <1>4 DEF Asking, Waits, Verified, Refused, Accepted, Speaks
<1>6. Captured(h)'
  BY <1>3 DEF Captured
<1>7. Current(p)
  BY <1>1, <1>2, <1>3 DEF Current
<1> QED BY <1>1, <1>2, <1>5, <1>6, <1>7, CurrentKeeps DEF Talks

LEMMA Stopped ==
  ASSUME Context, NEW h \in Conn, C!Stop(h, h)
  PROVE  /\ handler'[h] = "stopped" /\ peer'[h] = "closed" /\ outbox'[h] = <<>>
         /\ \A c \in Conn \ {h} : UNCHANGED <<handler[c], peer[c], outbox[c]>>
BY Types0 DEF C!Stop, C!ClientTypeOK

\* A thread that ends behind a logout.
LEMMA StoppedWithout ==
  ASSUME Context, NEW h \in Conn, NEW p \in Client, Without(p, h), C!Stop(h, h),
         UNCHANGED <<main[p], verified_access[p], client_connection_status[p],
                     session_status[p], termination_signal[p], inbox[h], thread>>
  PROVE  Without(p, h)' /\ Captured(h)'
<1>1. handler'[h] = "stopped" /\ peer'[h] = "closed" /\ outbox'[h] = <<>>
  BY Stopped
<1>2. LoggedOut(p)'
  BY DEF Without, LoggedOut
<1>3. Ending(h)'
  BY <1>1 DEF Without, Ending, Speaks, thread
<1> QED BY <1>1, <1>2, <1>3, EmptyQueue DEF Without, Captured

LEMMA TestKeeps ==
  ASSUME Context, NEW h \in Conn, NEW p \in Client, owner[h] = p,
         C!HandlerTest(h), ServerUnchanged
  PROVE  PatientInv'
<1>1. /\ handler[h] = "test" /\ h = socket_file_dscriptor[p] /\ h # NoSocket /\ Talks(p, h)
      /\ server_reply_socket[h] = h
  BY Running DEF C!HandlerTest
<1>2. UNCHANGED <<main, socket_file_dscriptor, name, client_connection_status, verified_access,
                  session_status, client_role, termination_signal, owner, inbox,
                  server_reply_socket, pc, source, server_connection_status, in_session, role>>
  BY DEF C!HandlerTest, C!flags, ServerUnchanged, thread, entry
<1>3. CASE client_connection_status[p] = "ONLINE" /\ termination_signal[p] = "OFF"
  <2>1. handler' = [handler EXCEPT ![h] = "recv"] /\ UNCHANGED <<outbox, peer>>
    BY <1>3 DEF C!HandlerTest
  <2>2. handler'[h] = "recv" /\ \A c \in Conn \ {h} : UNCHANGED handler[c]
    BY <2>1, Types0 DEF C!ClientTypeOK
  <2>3. ~ Without(p, h)
    BY <1>3 DEF Without, LoggedOut
  <2>4. ASSUME Asking(p, h)
        PROVE  Talks(p, h)'
    <3>1. Asking(p, h)'
      BY <1>2, <2>1, <2>2, <2>4 DEF Asking, Waits, Verified, Refused, Accepted, Speaks
    <3> QED BY <3>1 DEF Talks
  <2>5. ASSUME Within(p, h)
        PROVE  Talks(p, h)'
    <3>1. Within(p, h)'
      BY <1>2, <2>1, <2>2, <2>5 DEF Within, Speaks, Queued, Meant, HasLeft, InStep
    <3> QED BY <3>1 DEF Talks
  <2>6. Talks(p, h)'
    BY <1>1, <2>3, <2>4, <2>5 DEF Talks
  <2>7. Captured(h)'
    BY <1>1, <1>2 DEF Captured
  <2>8. Current(p)
    BY <1>1, <1>2, <2>1, <2>2 DEF Current
  <2> QED BY <1>1, <1>2, <2>6, <2>7, <2>8, CurrentKeeps
<1>4. CASE ~ (client_connection_status[p] = "ONLINE" /\ termination_signal[p] = "OFF")
  <2>1. C!Stop(h, h)
    BY <1>1, <1>4 DEF C!HandlerTest
  <2>2. Without(p, h)
    BY <1>1, <1>4 DEF Talks, Asking, Within
  <2>3. Without(p, h)' /\ Captured(h)'
    BY <1>2, <2>1, <2>2, StoppedWithout DEF ServerUnchanged
  <2>4. Current(p)
    BY <1>1, <1>2, <2>1, Stopped DEF Current
  <2> QED BY <1>1, <1>2, <2>3, <2>4, CurrentKeeps DEF Talks
<1> QED BY <1>3, <1>4

LEMMA EofKeeps ==
  ASSUME Context, NEW h \in Conn, NEW p \in Client, owner[h] = p,
         C!HandlerEof(h), ServerUnchanged
  PROVE  PatientInv'
<1>1. /\ handler[h] = "recv" /\ h = socket_file_dscriptor[p] /\ h # NoSocket /\ Talks(p, h)
      /\ server_reply_socket[h] = h
  BY Running DEF C!HandlerEof
<1>2. (server # "up" \/ pc[h] = "closed" \/ peer[h] = "closed") /\ C!Stop(h, h)
  BY <1>1 DEF C!HandlerEof, C!NoSocket, NoSocket
<1>3. Without(p, h)
  BY <1>1, <1>2, ServerUp DEF Talks, Asking, Waits, Verified, Refused, Accepted, Within
<1>4. client_connection_status[p] = "OFFLINE"
  BY <1>3 DEF Without, LoggedOut
<1>5. UNCHANGED <<main, socket_file_dscriptor, name, client_connection_status, verified_access,
                  session_status, client_role, termination_signal, owner, inbox,
                  server_reply_socket, thread>>
  <2>1. UNCHANGED <<main, socket_file_dscriptor, name, termination_signal, owner, inbox,
                    server_reply_socket, thread>>
    BY DEF C!HandlerEof, ServerUnchanged
  <2>2. UNCHANGED <<client_connection_status, verified_access, session_status, client_role>>
    BY <1>4, Types0 DEF C!HandlerEof, C!ClientTypeOK
  <2> QED BY <2>1, <2>2
<1>6. Without(p, h)' /\ Captured(h)'
  BY <1>2, <1>3, <1>5, StoppedWithout
<1>7. Current(p)
  BY <1>1, <1>2, <1>5, Stopped DEF Current
<1> QED BY <1>1, <1>5, <1>6, <1>7, CurrentKeeps DEF Talks

\* The thread of h has read m.
ReadBy(p, h, m) ==
  /\ h = socket_file_dscriptor[p] /\ h # NoSocket /\ Talks(p, h)
  /\ handler[h] = "recv" /\ server_reply_socket[h] = h
  /\ outbox[h] # <<>> /\ m \in Reply /\ peer[h] = "open"
  /\ client_role'[p] = C!NewRole(m, client_role[p])
  /\ session_status'[p] = C!NewSessionStatus(m, session_status[p])
  /\ name'[p] = IF C!Accepts(m) THEN m.source ELSE name[p]
  /\ verified_access'[p] = IF C!Accepts(m) THEN "ON"
                           ELSE IF C!Refuses(m) THEN "OFF" ELSE verified_access[p]
  /\ IF C!Refuses(m)
       THEN client_connection_status'[p] = "OFFLINE" /\ C!Stop(h, h)
       ELSE /\ handler'[h] = "test" /\ Reads(outbox[h], outbox'[h])
            /\ UNCHANGED <<client_connection_status, peer>>
  /\ UNCHANGED <<main, socket_file_dscriptor, termination_signal, owner, server_reply_socket,
                 inbox, thread, in_session, role>>

LEMMA ReceiveEffect ==
  ASSUME Context, OnlyChatLost, NEW h \in Conn, NEW p \in Client, owner[h] = p,
         C!HandlerReceive(h), ServerUnchanged
  PROVE  ReadBy(p, h, Head(outbox[h])) /\ Current(p)
<1> DEFINE q == outbox[h]
           m == Head(q)
<1>1. /\ handler[h] = "recv" /\ h = socket_file_dscriptor[p] /\ h # NoSocket /\ Talks(p, h)
      /\ server_reply_socket[h] = h
  BY Running DEF C!HandlerReceive
<1>2. /\ q # <<>> /\ peer[h] = "open" /\ q \in Seq(Reply)
  BY <1>1, Types0 DEF C!HandlerReceive
<1>3. m \in Reply
  BY <1>2
<1>4. /\ client_role' = [client_role EXCEPT ![p] = C!NewRole(m, client_role[p])]
      /\ session_status' = [session_status EXCEPT
                              ![p] = C!NewSessionStatus(m, session_status[p])]
      /\ name' = [name EXCEPT ![p] = IF C!Accepts(m) THEN m.source ELSE name[p]]
      /\ verified_access' = [verified_access EXCEPT
                               ![p] = IF C!Accepts(m) THEN "ON"
                                      ELSE IF C!Refuses(m) THEN "OFF" ELSE verified_access[p]]
  BY <1>1 DEF C!HandlerReceive
<1>5. /\ client_role'[p] = C!NewRole(m, client_role[p])
      /\ session_status'[p] = C!NewSessionStatus(m, session_status[p])
      /\ name'[p] = IF C!Accepts(m) THEN m.source ELSE name[p]
      /\ verified_access'[p] = IF C!Accepts(m) THEN "ON"
                               ELSE IF C!Refuses(m) THEN "OFF" ELSE verified_access[p]
      /\ \A r \in Client \ {p} : UNCHANGED <<client_role[r], session_status[r], name[r],
                                             verified_access[r]>>
  BY <1>4, Types0 DEF C!ClientTypeOK
<1>6. UNCHANGED <<main, socket_file_dscriptor, termination_signal, owner, server_reply_socket,
                  inbox, thread, in_session, role>>
  BY DEF C!HandlerReceive, ServerUnchanged, entry
<1>7. CASE C!Refuses(m)
  <2>1. /\ client_connection_status' = [client_connection_status EXCEPT ![p] = "OFFLINE"]
        /\ C!Stop(h, h)
    BY <1>1, <1>7 DEF C!HandlerReceive
  <2>2. /\ client_connection_status'[p] = "OFFLINE"
        /\ \A r \in Client \ {p} : UNCHANGED client_connection_status[r]
    BY <2>1, Types0 DEF C!ClientTypeOK
  <2>3. ReadBy(p, h, m)
    BY <1>1, <1>2, <1>3, <1>5, <1>6, <1>7, <2>1, <2>2 DEF ReadBy
  <2>4. Current(p)
    BY <1>1, <1>5, <1>6, <2>1, <2>2, Stopped DEF Current
  <2> QED BY <2>3, <2>4
<1>8. CASE ~ C!Refuses(m)
  <2>1. /\ handler' = [handler EXCEPT ![h] = "test"]
        /\ \E n \in 1..(IF Coalesce THEN Len(q) ELSE 1) :
             outbox' = [outbox EXCEPT ![h] = SubSeq(q, n + 1, Len(q))]
        /\ UNCHANGED <<client_connection_status, peer>>
    BY <1>1, <1>8 DEF C!HandlerReceive
  <2>2. Len(q) \in Nat \ {0}
    BY <1>2
  <2>3. PICK n \in 1..Len(q) : outbox' = [outbox EXCEPT ![h] = SubSeq(q, n + 1, Len(q))]
    <3>1. PICK n \in 1..(IF Coalesce THEN Len(q) ELSE 1) :
            outbox' = [outbox EXCEPT ![h] = SubSeq(q, n + 1, Len(q))]
      BY <2>1
    <3>2. n \in 1..Len(q)
      BY <2>2, <3>1
    <3> QED BY <3>1, <3>2
  <2>4. /\ outbox'[h] = SubSeq(q, n + 1, Len(q)) /\ handler'[h] = "test"
        /\ \A c \in Conn \ {h} : UNCHANGED <<outbox[c], handler[c]>>
    BY <2>1, <2>3, Types0 DEF C!ClientTypeOK
  <2>5. Reads(q, outbox'[h])
    <3>1. Len(outbox'[h]) = Len(q) - n
      BY <1>2, <2>2, <2>4
    <3>2. \A i \in 2..(Len(q) - Len(outbox'[h])) : q[i].type = "MESSAGE"
      BY <1>2, <2>1 DEF OnlyChatLost, LosesChat
    <3>3. Len(q) - Len(outbox'[h]) = n
      BY <2>2, <3>1
    <3> QED BY <2>4, <3>2, <3>3 DEF Reads
  <2>6. ReadBy(p, h, m)
    BY <1>1, <1>2, <1>3, <1>5, <1>6, <1>8, <2>1, <2>4, <2>5 DEF ReadBy
  <2>7. Current(p)
    BY <1>1, <1>5, <1>6, <2>1, <2>4 DEF Current
  <2> QED BY <2>6, <2>7
<1> QED BY <1>7, <1>8

\* The answer to a login or a registration.
LEMMA ReadAnswer ==
  ASSUME Context, NEW h \in Conn, NEW p \in Client, NEW m, m = Head(outbox[h]),
         ReadBy(p, h, m), Asking(p, h)
  PROVE  Talks(p, h)'
<1>1. outbox[h] # <<>>
  BY DEF ReadBy
<1>2. CASE Refused(h)
  <2>1. C!Refuses(m) /\ ~ C!Accepts(m) /\ m.type \in {"LO_NAK", "RG_NAK"}
    BY <1>2 DEF Refused, C!Refuses, C!Accepts
  <2>2. /\ client_connection_status'[p] = "OFFLINE" /\ handler'[h] = "stopped"
        /\ peer'[h] = "closed" /\ outbox'[h] = <<>> /\ verified_access'[p] = "OFF"
    BY <2>1, Stopped DEF ReadBy
  <2>3. session_status'[p] = "OFFLINE"
    BY <2>1 DEF ReadBy, Asking, C!NewSessionStatus
  <2>4. LoggedOut(p)'
    BY <2>2, <2>3 DEF LoggedOut, ReadBy, Asking
  <2>5. Ending(h)'
    BY <1>2, <2>2 DEF Ending, Refused, ReadBy, thread
  <2> QED BY <2>2, <2>4, <2>5, EmptyQueue DEF Without, Talks
<1>3. CASE Accepted(h)
  <2>1. PICK r \in Reply : C!Accepts(r) /\ r.source = source[h] /\ outbox[h] = <<r>>
    BY <1>3 DEF Accepted
  <2>2. m = r
    BY <2>1
  <2>3. ~ C!Refuses(m) /\ C!Accepts(m) /\ m.type \in {"LO_ACK", "RG_ACK"}
    BY <2>1, <2>2 DEF C!Refuses, C!Accepts
  <2>4. /\ handler'[h] = "test" /\ outbox'[h] = <<>> /\ verified_access'[p] = "ON"
        /\ name'[p] = source[h] /\ UNCHANGED <<client_connection_status, peer>>
        /\ session_status'[p] = session_status[p]
    BY <2>1, <2>2, <2>3, ReadsOne DEF ReadBy, C!NewSessionStatus
  <2>5. /\ UNCHANGED <<main, termination_signal, inbox, pc, source, server_connection_status,
                       in_session, role>>
    BY DEF ReadBy, thread
  <2>6. InStep(p, h)'
    BY <1>3, <2>4, <2>5, EmptyQueue DEF InStep, Accepted, Asking
  <2>7. Within(p, h)'
    BY <1>3, <2>4, <2>5, <2>6, EmptyQueue DEF Within, Accepted, Speaks, Asking, Queued
  <2> QED BY <2>7 DEF Talks
<1> QED BY <1>1, <1>2, <1>3 DEF Asking, Waits, Verified

\* Any other message.
LEMMA ReadWithin ==
  ASSUME Context, NEW h \in Conn, NEW p \in Client, NEW m, m = Head(outbox[h]),
         ReadBy(p, h, m), Within(p, h)
  PROVE  Talks(p, h)'
<1> DEFINE q == outbox[h]
           rest == outbox'[h]
<1>1. q # <<>> /\ q \in Seq(Reply) /\ 1 \in 1..Len(q) /\ m = q[1]
  BY Types0 DEF ReadBy
<1>2. ~ C!Refuses(m) /\ ~ C!Accepts(m)
  BY <1>1 DEF C!Refuses, C!Accepts, Answers, Within, Lacks
<1>3. /\ handler'[h] = "test" /\ Reads(q, rest) /\ verified_access'[p] = "ON"
      /\ name'[p] = name[p] /\ UNCHANGED <<client_connection_status, peer>>
      /\ session_status'[p] = C!NewSessionStatus(m, session_status[p])
      /\ client_role'[p] = C!NewRole(m, client_role[p])
  BY <1>2 DEF ReadBy, Within
<1>4. Lacks(rest, Answers)
  BY <1>1, <1>3, LacksRead DEF Within
<1>5. UNCHANGED <<main, termination_signal, inbox, pc, source, server_connection_status,
                  in_session, role>>
  BY DEF ReadBy, thread
<1>6. HasLeft(p, h) => HasLeft(p, h)'
  <2> SUFFICES ASSUME HasLeft(p, h)
               PROVE  HasLeft(p, h)'
    OBVIOUS
  <2>1. Lacks(rest, Entries) /\ m.type \notin Entries
    BY <1>1, <1>3, LacksRead DEF HasLeft
  <2>2. C!NewSessionStatus(m, "OFFLINE") = "OFFLINE"
    BY <2>1 DEF C!NewSessionStatus, Entries
  <2>3. WillShow(rest, "OFFLINE", "OFFLINE")
    BY <1>1, <1>3, <2>2, ShowRead DEF HasLeft
  <2> QED BY <1>3, <2>1, <2>2, <2>3 DEF HasLeft
<1>7. InStep(p, h) => InStep(p, h)'
  BY <1>1, <1>3, <1>5, ShowRead, RankRead DEF InStep
<1>8. \A n : Meant(p, h, n) => Meant(p, h, n)'
  BY <1>5, <1>6 DEF Meant
<1>9. Queued(p, h)'
  BY <1>5, <1>8 DEF Within, Queued
<1>10. Within(p, h)'
  BY <1>3, <1>4, <1>5, <1>6, <1>7, <1>9 DEF Within, Speaks
<1> QED BY <1>10 DEF Talks

LEMMA ReadWithout ==
  ASSUME Context, NEW h \in Conn, NEW p \in Client, NEW m, m = Head(outbox[h]),
         ReadBy(p, h, m), Without(p, h)
  PROVE  Talks(p, h)'
<1> DEFINE q == outbox[h]
           rest == outbox'[h]
<1>1. q # <<>> /\ q \in Seq(Reply) /\ 1 \in 1..Len(q) /\ m = q[1]
  BY Types0 DEF ReadBy
<1>2. ~ C!Refuses(m) /\ ~ C!Accepts(m) /\ C!NewSessionStatus(m, "OFFLINE") = "OFFLINE"
  BY <1>1 DEF C!Refuses, C!Accepts, Answers, Entries, C!NewSessionStatus, Without, Lacks
<1>3. /\ handler'[h] = "test" /\ Reads(q, rest) /\ verified_access'[p] = "OFF"
      /\ UNCHANGED <<client_connection_status, peer>> /\ session_status'[p] = "OFFLINE"
  BY <1>2 DEF ReadBy, Without, LoggedOut
<1>4. Lacks(rest, Answers) /\ Lacks(rest, Entries)
  BY <1>1, <1>3, LacksRead DEF Without
<1>5. UNCHANGED <<main, termination_signal, inbox, pc, source, server_connection_status>>
  BY DEF ReadBy, thread
<1>6. LoggedOut(p)'
  BY <1>3, <1>5 DEF LoggedOut, Without
<1>7. Ending(h)'
  BY <1>5 DEF Ending, Without, Speaks, ReadBy
<1> QED BY <1>3, <1>4, <1>6, <1>7 DEF Without, Talks

LEMMA ReceiveKeeps ==
  ASSUME Context, OnlyChatLost, NEW h \in Conn, NEW p \in Client, owner[h] = p,
         C!HandlerReceive(h), ServerUnchanged
  PROVE  PatientInv'
<1>1. ReadBy(p, h, Head(outbox[h])) /\ Current(p)
  BY ReceiveEffect
<1>2. Talks(p, h)'
  BY <1>1, ReadAnswer, ReadWithin, ReadWithout DEF ReadBy, Talks
<1>3. Captured(h)' /\ h = socket_file_dscriptor[p] /\ h # NoSocket
  BY <1>1 DEF ReadBy, Captured
<1> QED BY <1>1, <1>2, <1>3, CurrentKeeps

LEMMA ReceivesKeeps ==
  ASSUME Context, OnlyChatLost, NEW h \in Conn, Receives(h)
  PROVE  PatientInv'
<1>1. PICK p \in Client : owner[h] = p
  BY DEF Receives, C!Receiver
<1> QED BY <1>1, StartKeeps, TestKeeps, ReceiveKeeps, EofKeeps DEF Receives, C!Receiver

-----------------------------------------------------------------------------
(* The first and the last step of a connection.                            *)

LEMMA EndKeeps ==
  ASSUME Context, NEW p \in Client, NEW how \in {"ended", "crashed"}, C!End(p, how),
         ServerUnchanged, LoggedOut(p),
         \A c \in Conn : c = socket_file_dscriptor[p] => Without(p, c)
  PROVE  PatientInv'
<1>1. UNCHANGED <<socket_file_dscriptor, name, client_connection_status, verified_access,
                  session_status, client_role, termination_signal, client_thread, handler,
                  owner, server_reply_socket, inbox, pc, source, server_connection_status,
                  status, in_session, role, server>>
  BY DEF C!End, C!flags, C!handlers, ServerUnchanged, thread, entry
<1>2. /\ main'[p] = how /\ \A q \in Client \ {p} : main'[q] = main[q]
      /\ \A c \in Conn : peer'[c] = IF owner[c] = p THEN "closed" ELSE peer[c]
      /\ \A c \in Conn : outbox'[c] = IF owner[c] = p THEN <<>> ELSE outbox[c]
  BY Types0 DEF C!End, C!ClientTypeOK
<1>3. Apart(p)
  BY <1>1, <1>2 DEF Apart
<1>4. LoggedOut(p)'
  BY <1>1, <1>2 DEF LoggedOut
<1>5. ASSUME NEW c \in Conn, owner'[c] = p
      PROVE  (Conversation(c) /\ OwnUser(c) /\ Captured(c))'
  <2>1. Conversation(c) /\ OwnUser(c) /\ Captured(c) /\ owner[c] = p
    BY <1>1, <1>5 DEF Context, PatientInv
  <2>2. OwnUser(c)' /\ Captured(c)'
    BY <1>1, <2>1 DEF OwnUser, Captured, Speaks
  <2>3. CASE c = socket_file_dscriptor[p]
    <3>1. Ending(c)'
      BY <1>1, <1>2, <2>1, <2>3 DEF Without, Ending, Speaks
    <3>2. Without(p, c)'
      BY <1>1, <1>2, <1>4, <2>1, <2>3, <3>1, EmptyQueue DEF Without
    <3> QED BY <1>1, <2>1, <2>2, <2>3, <3>2, Types0 DEF Conversation
  <2>4. CASE c # socket_file_dscriptor[p]
    <3>1. Dead(c)
      BY <2>1, <2>4, Types0 DEF Conversation
    <3>2. Dead(c)'
      BY <1>1, <1>2, <2>1, <3>1 DEF Dead
    <3> QED BY <1>1, <2>1, <2>2, <2>4, <3>2, Types0 DEF Conversation
  <2> QED BY <2>3, <2>4
<1>6. ProcessSocket(p)'
  BY <1>1, <1>4 DEF ProcessSocket, Context, PatientInv
<1>7. ServerInv'
  BY <1>1 DEF ServerInv, Context, PatientInv
<1> QED BY <1>3, <1>5, <1>6, <1>7, ApartKeeps

LEMMA JoiningLoggedOut ==
  ASSUME Context, NEW p \in Client, main[p] = "joining"
  PROVE  LoggedOut(p) /\ \A c \in Conn : c = socket_file_dscriptor[p] => Without(p, c)
<1>1. CASE socket_file_dscriptor[p] = NoSocket
  BY <1>1, Types0 DEF Context, PatientInv, ProcessSocket
<1>2. CASE socket_file_dscriptor[p] # NoSocket
  BY <1>2, OwnSocket DEF Talks, Asking, Within, Without
<1> QED BY <1>1, <1>2

LEMMA JoinHandlersKeeps ==
  ASSUME Context, NEW p \in Client, C!JoinHandlers(p), ServerUnchanged
  PROVE  PatientInv'
<1>1. main[p] = "joining" /\ \E how \in {"ended", "crashed"} : C!End(p, how)
  BY DEF C!JoinHandlers
<1> QED BY <1>1, JoiningLoggedOut, EndKeeps

LEMMA InterruptKeeps ==
  ASSUME Context, NEW p \in Client, Settled(p), C!Interrupt(p), ServerUnchanged
  PROVE  PatientInv'
<1>1. CASE main[p] \in {"command", "logout", "quit"} /\ C!Terminate(p)
  BY <1>1, TerminateKeeps DEF C!Gone
<1>2. CASE main[p] = "joining" /\ C!End(p, "ended")
  BY <1>2, JoiningLoggedOut, EndKeeps
<1> QED BY <1>1, <1>2 DEF C!Interrupt

\* A settled process that is not logged in has no connection that lives.
LEMMA RestsOffline ==
  ASSUME Context, NEW p \in Client, Settled(p), main[p] = "command",
         verified_access[p] = "OFF"
  PROVE  /\ LoggedOut(p)
         /\ \A c \in Conn : c = socket_file_dscriptor[p] => Without(p, c) /\ Dead(c)
<1>1. CASE socket_file_dscriptor[p] = NoSocket
  BY <1>1, Types0 DEF Context, PatientInv, ProcessSocket
<1>2. CASE socket_file_dscriptor[p] # NoSocket
  <2>1. \A c \in Conn : c = socket_file_dscriptor[p] => Over(p, c)
    BY <1>2, SettledTalk DEF AtRest, Within, C!Gone
  <2> QED BY <1>2, <2>1, OwnSocket DEF Over, Without
<1> QED BY <1>1, <1>2

LEMMA FailedConnectKeeps ==
  ASSUME Context, NEW p \in Client, Settled(p), C!FailedConnect(p), ServerUnchanged
  PROVE  PatientInv'
<1>1. /\ LoggedOut(p)
      /\ \A c \in Conn : c = socket_file_dscriptor[p] => Without(p, c) /\ Dead(c)
  BY RestsOffline DEF C!FailedConnect, C!AtPrompt
<1>2. CASE C!End(p, "crashed")
  BY <1>1, <1>2, EndKeeps
<1>3. CASE ~ C!End(p, "crashed")
  <2>1. /\ UNCHANGED <<main, name, client_connection_status, verified_access, session_status,
                       client_role, termination_signal, handler, owner, server_reply_socket,
                       inbox, outbox, peer, pc, source, server_connection_status,
                       status, in_session, role, server>>
        /\ socket_file_dscriptor' \in
             {socket_file_dscriptor, [socket_file_dscriptor EXCEPT ![p] = NoSocket]}
    BY <1>3 DEF C!FailedConnect, C!channels, ServerUnchanged, thread, entry, C!NoSocket,
                NoSocket
  <2>2. /\ socket_file_dscriptor'[p] \in {NoSocket, socket_file_dscriptor[p]}
        /\ \A q \in Client \ {p} : socket_file_dscriptor'[q] = socket_file_dscriptor[q]
    BY <2>1, Types0 DEF C!ClientTypeOK
  <2>3. Apart(p)
    BY <2>1, <2>2 DEF Apart
  <2>4. LoggedOut(p)'
    BY <1>1, <2>1 DEF LoggedOut
  <2>5. ASSUME NEW c \in Conn, owner'[c] = p
        PROVE  (Conversation(c) /\ OwnUser(c) /\ Captured(c))'
    <3>1. Conversation(c) /\ OwnUser(c) /\ Captured(c) /\ owner[c] = p
      BY <2>1, <2>5 DEF Context, PatientInv
    <3>2. OwnUser(c)' /\ Captured(c)'
      BY <2>1, <3>1 DEF OwnUser, Captured, Speaks
    <3>3. Dead(c)
      BY <1>1, <3>1, Types0 DEF Conversation
    <3>4. Dead(c)'
      BY <2>1, <3>3 DEF Dead
    <3>5. CASE c = socket_file_dscriptor[p]
      <4>1. Without(p, c)
        BY <1>1, <3>5
      <4>2. Without(p, c)'
        BY <2>1, <2>4, <4>1 DEF Without, Ending, Speaks
      <4> QED BY <2>1, <3>1, <3>2, <3>4, <4>2, Types0 DEF Conversation
    <3>6. CASE c # socket_file_dscriptor[p]
      <4>1. c # socket_file_dscriptor'[p]
        BY <2>2, <3>6, Types0
      <4> QED BY <2>1, <3>1, <3>2, <3>4, <4>1, Types0 DEF Conversation
    <3> QED BY <3>5, <3>6
  <2>6. ProcessSocket(p)'
    BY <2>1, <2>2, <2>4 DEF ProcessSocket, Context, PatientInv
  <2>7. ServerInv'
    BY <2>1 DEF ServerInv, Context, PatientInv
  <2> QED BY <2>3, <2>5, <2>6, <2>7, ApartKeeps
<1> QED BY <1>2, <1>3

LEMMA ConnectKeeps ==
  ASSUME Context, NEW p \in Client, Settled(p), NEW c \in Conn, NEW m \in Account[p],
         C!Connect(p, c, m), Accept(c, m)
  PROVE  PatientInv'
<1>1. /\ main[p] = "command" /\ verified_access[p] = "OFF" /\ owner[c] = NoClient
      /\ server = "up" /\ pc[c] = "none"
  BY DEF C!Connect, C!AtPrompt, Accept
<1>2. /\ LoggedOut(p)
      /\ \A e \in Conn : e = socket_file_dscriptor[p] => Dead(e)
  BY <1>1, RestsOffline
<1>3. UNCHANGED <<main, name, verified_access, session_status, client_role, termination_signal,
                  server_reply_socket, outbox, server_connection_status, status, in_session,
                  role, server>>
  BY DEF C!Connect, Accept, entry
<1>4. /\ socket_file_dscriptor'[p] = c /\ client_connection_status'[p] = "ONLINE"
      /\ handler'[c] = "start" /\ owner'[c] = p /\ peer'[c] = "open" /\ inbox'[c] = <<m>>
      /\ pc'[c] = "recv"
      /\ \A q \in Client \ {p} :
           UNCHANGED <<socket_file_dscriptor[q], client_connection_status[q]>>
      /\ \A e \in Conn \ {c} : UNCHANGED <<handler[e], owner[e], peer[e], inbox[e], pc[e]>>
  BY Types0 DEF C!Connect, Accept, C!ClientTypeOK, TypeOK
<1>5. \A e \in Conn \ {c} : source'[e] = source[e]
  <2>1. PICK g : source' = [source EXCEPT ![c] = g]
    BY DEF Accept
  <2> QED BY <2>1, Types0 DEF TypeOK
<1>6. server_connection_status[c] = "OFFLINE" /\ outbox[c] = <<>>
  <2>1. Conversation(c) /\ Registered
    BY DEF Context, PatientInv, SystemInv, Inv
  <2> QED BY <1>1, <2>1 DEF Conversation, Registered
<1>7. Apart(p)
  BY <1>1, <1>3, <1>4, <1>5 DEF Apart
<1>8. ASSUME NEW e \in Conn, owner'[e] = p
      PROVE  (Conversation(e) /\ OwnUser(e) /\ Captured(e))'
  <2>1. CASE e = c
    <3>1. Waits(c)'
      BY <1>3, <1>4, <1>6 DEF Waits
    <3>2. Asking(p, c)'
      BY <1>1, <1>2, <1>3, <1>4, <3>1 DEF Asking, LoggedOut
    <3>3. OwnUser(c)' /\ Captured(c)'
      BY <1>3, <1>4, <1>6 DEF OwnUser, Captured, Speaks
    <3> QED BY <1>4, <2>1, <3>2, <3>3, Types0 DEF Conversation
  <2>2. CASE e # c
    <3>1. UNCHANGED <<handler[e], owner[e], peer[e], inbox[e], pc[e], outbox[e], source[e],
                      server_connection_status[e], server_reply_socket[e]>>
      BY <1>3, <1>4, <1>5, <2>2
    <3>2. Conversation(e) /\ OwnUser(e) /\ Captured(e) /\ owner[e] = p
      BY <1>8, <3>1 DEF Context, PatientInv
    <3>3. Dead(e)
      BY <1>2, <3>2, Types0 DEF Conversation
    <3>4. Dead(e)' /\ Captured(e)'
      BY <3>1, <3>2, <3>3 DEF Dead, Captured
    <3>5. OwnUser(e)'
      BY <3>1, <3>3 DEF OwnUser, Speaks, Dead
    <3> QED BY <1>4, <1>8, <2>2, <3>4, <3>5, Types0 DEF Conversation
  <2> QED BY <2>1, <2>2
<1>9. ProcessSocket(p)'
  BY <1>4, Types0 DEF ProcessSocket
<1>10. ServerInv'
  BY <1>1, <1>3 DEF ServerInv, Context, PatientInv
<1> QED BY <1>7, <1>8, <1>9, <1>10, ApartKeeps

LEMMA StillKeeps ==
  ASSUME Context, UNCHANGED <<entry, thread, inbox, outbox, peer, clientVars>>, ServerInv'
  PROVE  PatientInv'
<1>1. \A c \in Conn : (Conversation(c) /\ OwnUser(c) /\ Captured(c))'
  <2> SUFFICES ASSUME NEW c \in Conn
               PROVE  (Conversation(c) /\ OwnUser(c) /\ Captured(c))'
    OBVIOUS
  <2>1. Beside(c)
    BY DEF Beside, Overlooked, Untold, entry, thread
  <2> QED BY <2>1, BesideConversation
<1>2. \A p \in Client : ProcessSocket(p)'
  BY DEF ProcessSocket, LoggedOut, clientVars, Context, PatientInv
<1> QED BY <1>1, <1>2 DEF PatientInv

LEMMA MainExitKeeps ==
  ASSUME Context, MainExit, UNCHANGED clientVars
  PROVE  PatientInv'
<1>1. ServerInv'
  BY DEF MainExit, ServerInv, Context, PatientInv, entry, thread
<1> QED BY <1>1, StillKeeps DEF MainExit

LEMMA TypesKeeps ==
  ASSUME Context, NEW p \in Client, Types(p)
  PROVE  PatientInv'
<1>1. /\ \A t : MayType(p, t) /\ t # "MESSAGE" => Settled(p)
      /\ \A m \in Account[p] : m.type # "MESSAGE"
  BY PatientlyTyped, Types0 DEF Greeting
<1>2. C!Logout(p) => ~ C!Gone(p) /\ C!BeginLogout(p, "logout")
  BY DEF C!Logout, C!AtPrompt, C!Gone
<1>3. C!Quit(p) => ~ C!Gone(p) /\ C!Terminate(p)
  BY DEF C!Quit, C!AtPrompt, C!Gone
<1> QED BY <1>1, <1>2, <1>3, ConnectKeeps, CommandKeeps, LeaveKeeps, BeginLogoutKeeps,
           TerminateKeeps, FailedConnectKeeps, InterruptKeeps DEF Types

LEMMA ProceedsKeeps ==
  ASSUME Context, NEW p \in Client, Proceeds(p), ThreadsLeft
  PROVE  PatientInv'
<1>1. ~ C!OutOfThreads(p)
  BY DEF ThreadsLeft, C!OutOfThreads, C!AtPrompt
<1> QED BY <1>1, EndLogoutKeeps, JoinHandlersKeeps DEF Proceeds

LEMMA PatientStep ==
  ASSUME Context, ThreadsLeft, [SystemNext /\ OnlyChatLost]_allVars
  PROVE  PatientInv'
<1>1. CASE UNCHANGED allVars
  <2>1. ServerInv'
    BY <1>1 DEF ServerInv, Context, PatientInv, allVars, vars, entry, thread
  <2> QED BY <1>1, <2>1, StillKeeps DEF allVars, vars
<1>2. CASE SystemNext /\ OnlyChatLost
  BY <1>2, MainExitKeeps, ServesKeeps, ReceivesKeeps, TypesKeeps, ProceedsKeeps
     DEF SystemNext
<1> QED BY <1>1, <1>2

\* Threads are counted and never taken from the count.
LEMMA ThreadsCounted ==
  ASSUME C!ClientTypeOK, [SystemNext]_allVars, ThreadsLeft'
  PROVE  ThreadsLeft
<1>1. \A p \in Client : /\ Len(client_thread[p]) \in Nat
                       /\ Len(client_thread'[p]) >= Len(client_thread[p])
  <2>0. client_thread \in [Client -> Seq(Conn \cup {C!NoThread})]
    BY DEF C!ClientTypeOK
  <2>1. CASE client_thread' = client_thread
    BY <2>0, <2>1
  <2>2. ASSUME NEW p \in Client, NEW t \in Conn \cup {C!NoThread},
               client_thread' = [client_thread EXCEPT ![p] = Append(client_thread[p], t)]
        PROVE  \A q \in Client : Len(client_thread[q]) \in Nat
                                 /\ Len(client_thread'[q]) >= Len(client_thread[q])
    <3>1. Len(Append(client_thread[p], t)) = Len(client_thread[p]) + 1
      BY <2>0
    <3> QED BY <2>0, <2>2, <3>1
  <2>3. ASSUME NEW p \in Client, Types(p)
        PROVE  \/ client_thread' = client_thread
               \/ \E t \in Conn \cup {C!NoThread} :
                    client_thread' = [client_thread EXCEPT ![p] = Append(client_thread[p], t)]
    BY <2>3 DEF Types, C!Connect, C!Command, C!clientVars, C!handlers, C!Leave, C!Logout, C!Quit,
                C!BeginLogout, C!Terminate, C!FailedConnect, C!Interrupt, C!End, C!NoThread
  <2>4. ASSUME NEW p \in Client, Proceeds(p)
        PROVE  client_thread' = client_thread
    BY <2>4 DEF Proceeds, C!EndLogout, C!OutOfThreads, C!Terminate, C!BeginLogout,
                C!JoinHandlers, C!End, C!handlers
  <2>5. ASSUME NEW c \in Conn, Receives(c)
        PROVE  client_thread' = client_thread
    BY <2>5 DEF Receives, C!Receiver, C!HandlerStart, C!HandlerTest, C!HandlerReceive,
                C!HandlerEof
  <2>6. CASE UNCHANGED clientVars
    BY <2>1, <2>6 DEF clientVars
  <2>7. CASE UNCHANGED allVars
    BY <2>6, <2>7 DEF allVars
  <2> QED BY <2>1, <2>2, <2>3, <2>4, <2>5, <2>6, <2>7 DEF SystemNext, Serves
<1>2. ASSUME NEW p \in Client
      PROVE  Len(client_thread[p]) < thread_number
  <2>1. Len(client_thread'[p]) < thread_number
    BY DEF ThreadsLeft, C!thread_count
  <2> QED BY <1>1, <2>1, ConferenceAssumption
<1> QED BY <1>2 DEF ThreadsLeft, C!thread_count

LEMMA PatientBegin ==
  ASSUME ServerAssumption, ConferenceAssumption, SystemInit
  PROVE  PatientInv
<1>1. \A c \in Conn : Conversation(c) /\ OwnUser(c) /\ Captured(c)
  BY DEF SystemInit, Init, C!ClientInit, Conversation, OwnUser, Captured, Speaks
<1>2. \A p \in Client : ProcessSocket(p)
  BY DEF SystemInit, C!ClientInit, ProcessSocket, LoggedOut, NoSocket, C!NoSocket
<1>3. ServerInv
  BY DEF SystemInit, Init, ServerInv
<1> QED BY <1>1, <1>2, <1>3 DEF PatientInv

-----------------------------------------------------------------------------
(* What the handlers do to sessions and roles when users are patient: the  *)
(* clients test what the server does not.                                  *)

Opens(u, s) ==
  /\ status[u] = "ONLINE" /\ session_id[u] = NotInSession
  /\ s # NotInSession /\ \A v \in User : session_id[v] # s
  /\ session_id' = [session_id EXCEPT ![u] = s] /\ role' = [role EXCEPT ![u] = "ADMIN"]
Enters(u, s) ==
  /\ status[u] = "ONLINE" /\ session_id[u] = NotInSession
  /\ s # NotInSession /\ \E v \in User : session_id[v] = s
  /\ Cardinality(Members(s)) # MAX_SESSION_USER
  /\ session_id' = [session_id EXCEPT ![u] = s] /\ role' = role
Parts(u) ==
  /\ session_id[u] # NotInSession
  /\ session_id' = [session_id EXCEPT ![u] = NotInSession] /\ role' = RolesWithout(u)
Expels(u, t) ==
  /\ role[u] = "ADMIN" /\ role[t] # "ADMIN" /\ session_id[t] = session_id[u]
  /\ session_id' = [session_id EXCEPT ![t] = NotInSession] /\ role' = role
Appoints(u, t) ==
  /\ role[u] = "ADMIN" /\ role[t] # "ADMIN" /\ session_id[t] = session_id[u]
  /\ session_id' = session_id /\ role' = [role EXCEPT ![t] = "ADMIN", ![u] = "USER"]

LawfulStep ==
  \/ UNCHANGED <<session_id, role>>
  \/ \E u \in User, s \in Session : Opens(u, s) \/ Enters(u, s)
  \/ \E u \in User : Parts(u)
  \/ \E u, t \in User : Expels(u, t) \/ Appoints(u, t)

LEMMA CreateLawful ==
  ASSUME Context, NEW c \in Conn, SessionCreate(c)
  PROVE  LawfulStep
<1> DEFINE u == source[c]
           s == Head(inbox[c]).data
<1>1. /\ Speaks(c) /\ u \in User /\ AwaitsRequest(c) /\ s \in Session /\ s # NotInSession
  <2>1. pc[c] = "recv" /\ inbox[c] # <<>> /\ Head(inbox[c]).type = "NEW_SESS"
    BY DEF SessionCreate, Receiving
  <2>2. AwaitsRequest(c) /\ Speaks(c)
    BY <2>1, PendingMeant, PendingRequest
  <2>3. Head(inbox[c]) \in Request
    BY <2>2 DEF AwaitsRequest, Meant
  <2>4. s \in Session
    BY <2>1, <2>3 DEF Request
  <2> QED BY <2>2, <2>4, SpeakerServed DEF Context, ServerAssumption
<1>2. in_session[u] = "OFFLINE"
  BY <1>1 DEF AwaitsRequest, Meant, SessionCreate, Receiving
<1>3. CASE Members(s) # {}
  BY <1>3 DEF SessionCreate, LawfulStep
<1>4. CASE Members(s) = {}
  <2>1. \A v \in User : session_id[v] # s
    BY <1>1, <1>4, InSessionOnline DEF Members
  <2>2. session_id[u] = NotInSession
    BY <1>1, <1>2, InSessionOnline
  <2>3. session_id' = [session_id EXCEPT ![u] = s] /\ role' = [role EXCEPT ![u] = "ADMIN"]
    BY <1>4 DEF SessionCreate
  <2>4. status[u] = "ONLINE"
    BY <1>1, SpeakerServed
  <2> QED BY <1>1, <2>1, <2>2, <2>3, <2>4 DEF Opens, LawfulStep
<1> QED BY <1>3, <1>4

LEMMA JoinLawful ==
  ASSUME Context, NEW c \in Conn, SessionJoin(c)
  PROVE  LawfulStep
<1> DEFINE u == source[c]
           s == Head(inbox[c]).data
<1>1. pc[c] = "recv" /\ inbox[c] # <<>> /\ Head(inbox[c]).type = "JOIN"
  BY DEF SessionJoin, Receiving
<1>2. AwaitsRequest(c) /\ Speaks(c) /\ u \in User
  BY <1>1, PendingMeant, PendingRequest, SpeakerServed
<1>3. s \in Session /\ s # NotInSession
  <2>1. Head(inbox[c]) \in Request
    BY <1>2 DEF AwaitsRequest, Meant
  <2> QED BY <1>1, <2>1 DEF Request, Context, ServerAssumption
<1>4. CASE ~ CanJoin(u, s)
  BY <1>4 DEF SessionJoin, LawfulStep
<1>5. CASE CanJoin(u, s)
  <2>1. session_id[u] = NotInSession
    BY <1>2, <1>5, InSessionOnline DEF CanJoin
  <2>2. Members(s) # {}
    BY <1>5, FS_EmptySet DEF CanJoin
  <2>3. PICK v \in Members(s) : TRUE
    BY <2>2
  <2>4. v \in User /\ session_id[v] = s
    BY <2>3, Types0 DEF Members, TypeOK
  <2>5. session_id' = [session_id EXCEPT ![u] = s] /\ role' = role
    BY <1>5 DEF SessionJoin
  <2>6. status[u] = "ONLINE" /\ Cardinality(Members(s)) # MAX_SESSION_USER
    BY <1>2, <1>5, SpeakerServed DEF CanJoin
  <2> QED BY <1>2, <1>3, <2>1, <2>4, <2>5, <2>6 DEF Enters, LawfulStep
<1> QED BY <1>4, <1>5

LEMMA LeaveLawful ==
  ASSUME Context, NEW c \in Conn, Speaks(c), LeaveBody(c)
  PROVE  LawfulStep
<1> DEFINE u == source[c]
<1>1. u \in User
  BY SpeakerServed
<1>2. CASE in_session[u] = "OFFLINE"
  BY <1>2 DEF LeaveBody, LawfulStep
<1>3. CASE in_session[u] = "ONLINE"
  <2>1. session_id[u] # NotInSession
    BY <1>1, <1>3, InSessionOnline
  <2>2. session_id' = [session_id EXCEPT ![u] = NotInSession] /\ role' = RolesWithout(u)
    BY <1>3, <2>1 DEF LeaveBody, ClearMembership
  <2> QED BY <1>1, <2>1, <2>2 DEF Parts, LawfulStep
<1> QED BY <1>2, <1>3 DEF LeaveBody

\* What the server does not test.
LEMMA AdminSends ==
  ASSUME Context, NEW c \in Conn, KickUser(c) \/ PromoteUser(c)
  PROVE  /\ role[source[c]] = "ADMIN" /\ source[c] \in User
         /\ Head(inbox[c]).data \in User
<1>1. pc[c] = "recv" /\ inbox[c] # <<>> /\ Head(inbox[c]).type \in {"KICK", "PROMOTE"}
  BY DEF KickUser, PromoteUser, Receiving
<1>2. AwaitsRequest(c) /\ Speaks(c) /\ source[c] \in User
  BY <1>1, PendingMeant, PendingRequest, SpeakerServed
<1>3. Meant(owner[c], c, Head(inbox[c]))
  BY <1>2 DEF AwaitsRequest
<1> QED BY <1>1, <1>2, <1>3 DEF Meant, Request

LEMMA KickLawful ==
  ASSUME Context, NEW c \in Conn, KickUser(c)
  PROVE  LawfulStep
<1> DEFINE u == source[c]
           t == Head(inbox[c]).data
<1>1. role[u] = "ADMIN" /\ u \in User /\ t \in User
  BY AdminSends
<1>2. CASE ~ Reachable(t, u)
  BY <1>2 DEF KickUser, LawfulStep
<1>3. CASE Reachable(t, u)
  BY <1>1, <1>3 DEF KickUser, Reachable, ClearMembership, Expels, LawfulStep
<1> QED BY <1>2, <1>3

LEMMA PromoteLawful ==
  ASSUME Context, NEW c \in Conn, PromoteUser(c)
  PROVE  LawfulStep
<1> DEFINE u == source[c]
           t == Head(inbox[c]).data
<1>1. role[u] = "ADMIN" /\ u \in User /\ t \in User
  BY AdminSends
<1>2. CASE ~ Reachable(t, u)
  BY <1>2 DEF PromoteUser, LawfulStep
<1>3. CASE Reachable(t, u)
  BY <1>1, <1>3 DEF PromoteUser, Reachable, Appoints, LawfulStep
<1> QED BY <1>2, <1>3

LEMMA ServesLawful ==
  ASSUME Context, NEW c \in Conn, Handler(c)
  PROVE  LawfulStep
<1>1. CASE \/ VerifyLogin(c) \/ UserLogin(c) \/ UserRegistration(c) \/ GroupMessage(c)
           \/ QueryUsers(c) \/ QuerySession(c) \/ RecvExit(c) \/ Disconnect(c)
           \/ ExitOffline(c) \/ UnknownSourceCrash(c)
  BY <1>1 DEF VerifyLogin, UserLogin, UserRegistration, GroupMessage, QueryUsers, QuerySession,
              RecvExit, Disconnect, ExitOffline, UnknownSourceCrash, entry, LawfulStep
<1>2. CASE SessionLeave(c)
  <2>1. pc[c] = "recv" /\ inbox[c] # <<>> /\ Head(inbox[c]).type = "LEAVE_SESS"
    BY <1>2 DEF SessionLeave, Receiving
  <2>2. Speaks(c) /\ LeaveBody(c)
    BY <1>2, <2>1, PendingRequest DEF SessionLeave
  <2> QED BY <2>2, LeaveLawful
<1>3. CASE ExitLeave(c)
  <2>1. Speaks(c) /\ LeaveBody(c)
    BY <1>3, ExitingSpeaks DEF ExitLeave
  <2> QED BY <2>1, LeaveLawful
<1> QED BY <1>1, <1>2, <1>3, CreateLawful, JoinLawful, KickLawful, PromoteLawful DEF Handler

\* No step of a client touches a session or a role.
LEMMA SystemLawful ==
  ASSUME Context, [SystemNext]_allVars
  PROVE  LawfulStep
<1>1. CASE UNCHANGED allVars
  BY <1>1 DEF allVars, vars, entry, LawfulStep
<1>2. CASE MainExit
  BY <1>2 DEF MainExit, entry, LawfulStep
<1>3. CASE \E c \in Conn : Serves(c)
  BY <1>3, ServesLawful DEF Serves
<1>4. CASE \E c \in Conn : Receives(c)
  BY <1>4 DEF Receives, ServerUnchanged, entry, LawfulStep
<1>5. CASE \E p \in Client : Types(p) \/ Proceeds(p)
  BY <1>5 DEF Types, Proceeds, Accept, ServerUnchanged, entry, LawfulStep
<1> QED BY <1>1, <1>2, <1>3, <1>4, <1>5 DEF SystemNext

-----------------------------------------------------------------------------
(* The refinement of ModeratedRooms.                                       *)

Arrives(u) == status[u] = "OFFLINE" /\ status' = [status EXCEPT ![u] = "ONLINE"]
Vanishes(u) ==
  /\ status[u] = "ONLINE" /\ session_id[u] = NotInSession
  /\ status' = [status EXCEPT ![u] = "OFFLINE"]

\* A user comes who was not there, or goes who is in no session, or nobody does.
StatusStep ==
  \/ status' = status
  \/ UNCHANGED <<session_id, role>> /\ \E u \in User : Arrives(u) \/ Vanishes(u)

LEMMA LoginArrives ==
  ASSUME Context, NEW c \in Conn, UserLogin(c)
  PROVE  StatusStep
<1>1. pc[c] = "login" /\ source[c] \in User
  BY Types0 DEF UserLogin, Context, SystemInv, Inv, Registered, TypeOK
<1>2. status[source[c]] # "ONLINE"
  <2> SUFFICES ASSUME status[source[c]] = "ONLINE" PROVE FALSE
    OBVIOUS
  <2>1. PICK d \in Conn : source[d] = source[c] /\ Speaks(d)
    BY <1>1 DEF Context, OnlineSocketServed, Speaks
  <2>2. d = c
    BY <1>1, <2>1, OneThread
  <2> QED BY <1>1, <2>1, <2>2 DEF Speaks
<1>3. status[source[c]] = "OFFLINE"
  BY <1>1, <1>2, Types0 DEF TypeOK
<1> QED BY <1>1, <1>3 DEF UserLogin, StatusStep, Arrives

LEMMA RegistrationArrives ==
  ASSUME Context, NEW c \in Conn, UserRegistration(c)
  PROVE  StatusStep
<1> DEFINE u == Head(inbox[c]).source
<1>1. CASE status' = status
  BY <1>1 DEF StatusStep
<1>2. CASE u \notin database /\ status' = [status EXCEPT ![u] = "ONLINE"]
  <2>1. u \in User
    BY HeadType DEF UserRegistration, Receiving, Context, SystemInv, Inv
  <2>2. status[u] = "OFFLINE"
    BY <1>2, <2>1, Types0 DEF TypeOK, Context, SystemInv, Inv, Registered
  <2> QED BY <1>2, <2>1, <2>2 DEF UserRegistration, StatusStep, Arrives
<1> QED BY <1>1, <1>2 DEF UserRegistration

LEMMA ExitVanishes ==
  ASSUME Context, NEW c \in Conn, ExitOffline(c)
  PROVE  StatusStep
<1>1. pc[c] = "offline" /\ Speaks(c) /\ source[c] \in User /\ status[source[c]] = "ONLINE"
  BY ExitingSpeaks, SpeakerServed DEF ExitOffline
<1>2. session_id[source[c]] = NotInSession
  BY <1>1, InSessionOnline DEF Context, PatientInv, OwnUser
<1> QED BY <1>1, <1>2 DEF ExitOffline, StatusStep, Vanishes

LEMMA SystemStatus ==
  ASSUME Context, [SystemNext]_allVars
  PROVE  StatusStep
<1>1. ASSUME status' = status PROVE StatusStep
  BY <1>1 DEF StatusStep
<1>2. CASE UNCHANGED allVars \/ MainExit
  BY <1>1, <1>2 DEF allVars, vars, entry, MainExit
<1>3. ASSUME NEW c \in Conn, Handler(c) PROVE StatusStep
  <2>1. CASE UserLogin(c) \/ UserRegistration(c) \/ ExitOffline(c)
    BY <2>1, LoginArrives, RegistrationArrives, ExitVanishes
  <2>2. CASE ~ (UserLogin(c) \/ UserRegistration(c) \/ ExitOffline(c))
    BY <1>1, <1>3, <2>2
       DEF Handler, VerifyLogin, SessionCreate, SessionJoin, SessionLeave, KickUser, PromoteUser,
           GroupMessage, QueryUsers, QuerySession, RecvExit, Disconnect, ExitLeave, LeaveBody,
           UnknownSourceCrash, entry
  <2> QED BY <2>1, <2>2
<1>4. CASE \E c \in Conn : Receives(c)
  BY <1>1, <1>4 DEF Receives, ServerUnchanged, entry
<1>5. CASE \E p \in Client : Types(p) \/ Proceeds(p)
  BY <1>1, <1>5 DEF Types, Proceeds, Accept, ServerUnchanged, entry
<1> QED BY <1>2, <1>3, <1>4, <1>5 DEF SystemNext, Serves

LEMMA ModeratedStep ==
  ASSUME Context, SessionNotOverfull, LawfulStep, StatusStep
  PROVE  [Moderated!ModeratedNext]_(Moderated!rooms)
<1>0. /\ status \in [User -> {"ONLINE", "OFFLINE"}]
      /\ session_id \in [User -> Session \cup {NotInSession}]
      /\ role \in [User -> {"USER", "ADMIN"}]
      /\ NotInSession \notin Session /\ Inv /\ ServerAssumption
  BY Types0 DEF TypeOK, Context, SystemInv, ServerAssumption
<1>1. CASE UNCHANGED <<status, session_id, role>>
  BY <1>1 DEF Moderated!rooms
<1>2. ASSUME NEW u \in User, Arrives(u), UNCHANGED <<session_id, role>>
      PROVE  Moderated!ModeratedNext
  <2>1. Moderated!Arrive(u)
    BY <1>0, <1>2 DEF Arrives, Moderated!Arrive, Moderated!Appear
  <2> QED BY <2>1 DEF Moderated!ModeratedNext
<1>3. ASSUME NEW u \in User, Vanishes(u), UNCHANGED <<session_id, role>>
      PROVE  Moderated!ModeratedNext
  <2>1. Moderated!Depart(u)
    BY <1>0, <1>3 DEF Vanishes, Moderated!Depart, Moderated!Vanish
  <2> QED BY <2>1 DEF Moderated!ModeratedNext
<1>4. ASSUME NEW u \in User, NEW s \in Session, Opens(u, s), status' = status
      PROVE  Moderated!ModeratedNext
  <2>1. Admins' = Admins \cup {u}
    BY <1>0, <1>4 DEF Opens, Admins
  <2>2. Moderated!Found(u, s)
    BY <1>4, <2>1 DEF Opens, Admins, Moderated!Found, Moderated!Open, Moderated!Occupants
  <2> QED BY <2>2 DEF Moderated!ModeratedNext
<1>5. ASSUME NEW u \in User, NEW s \in Session, Enters(u, s), status' = status
      PROVE  Moderated!ModeratedNext
  <2>1. Moderated!Occupants(s) = Members(s)
    BY <1>0, MembersAreUsers DEF Moderated!Occupants
  <2>2. Moderated!Occupants(s) # {}
    BY <1>5 DEF Enters, Moderated!Occupants
  <2>3. Cardinality(Members(s)) < MAX_SESSION_USER
    BY <1>0, <1>5, MembersAreUsers DEF Enters, SessionNotOverfull, ServerAssumption
  <2>4. Moderated!Enter(u, s)
    BY <1>5, <2>1, <2>2, <2>3
       DEF Enters, Moderated!Enter, Moderated!Join, Moderated!Cardinality, Cardinality
  <2> QED BY <2>4 DEF Moderated!ModeratedNext
<1>6. ASSUME NEW u \in User, Parts(u), status' = status
      PROVE  Moderated!ModeratedNext
  <2> DEFINE rest == Members(session_id[u]) \ {u}
  <2>1. session_id[u] \in Session /\ status[u] = "ONLINE"
    BY <1>0, <1>6, InSessionOnline DEF Parts
  <2>2. Moderated!Occupants(session_id[u]) = Members(session_id[u])
    BY <1>0, <2>1, MembersAreUsers DEF Moderated!Occupants
  <2>3. Admins' = (Admins \ {u}) \cup (IF \E v \in rest : rest = {v} THEN rest ELSE {})
    <3>1. rest \subseteq User
      BY <1>0, <2>1, MembersAreUsers
    <3>2. ASSUME NEW v \in User
          PROVE  v \in Admins' <=> v \in Admins \ {u} \/ (v \in rest /\ rest = {v})
      BY <1>6 DEF Parts, RolesWithout, Admins
    <3> HIDE DEF rest
    <3>3. Admins' \subseteq User /\ Admins \subseteq User
      BY DEF Admins
    <3> QED BY <3>1, <3>2, <3>3
  <2>4. Moderated!Part(u)
    BY <1>6, <2>1, <2>2, <2>3 DEF Parts, Admins, Moderated!Part, Moderated!Leave
  <2> QED BY <2>4 DEF Moderated!ModeratedNext
<1>7. ASSUME NEW u \in User, NEW v \in User, Expels(u, v) \/ Appoints(u, v), status' = status
      PROVE  Moderated!ModeratedNext
  <2>1. /\ status[u] = "ONLINE" /\ status[v] = "ONLINE" /\ session_id[v] # NotInSession
        /\ role[u] = "ADMIN" /\ role[v] # "ADMIN" /\ session_id[u] = session_id[v]
    BY <1>7, InSessionOnline DEF Expels, Appoints
  <2>2. CASE Expels(u, v)
    <3>1. Moderated!Expel(u, v)
      BY <1>7, <2>1, <2>2 DEF Expels, Moderated!Expel, Moderated!Remove
    <3> QED BY <3>1 DEF Moderated!ModeratedNext
  <2>3. CASE Appoints(u, v)
    <3>1. Admins' = (Admins \cup {v}) \ {u}
      BY <1>0, <2>1, <2>3 DEF Appoints, Admins
    <3>2. Moderated!Appoint(u, v)
      BY <1>7, <2>1, <2>3, <3>1 DEF Appoints, Admins, Moderated!Appoint, Moderated!HandOver
    <3> QED BY <3>2 DEF Moderated!ModeratedNext
  <2> QED BY <1>7, <2>2, <2>3
<1> QED BY <1>1, <1>2, <1>3, <1>4, <1>5, <1>6, <1>7 DEF LawfulStep, StatusStep

-----------------------------------------------------------------------------
(* One ADMIN to a session.                                                 *)

Alone(u) == \A v \in User \ {u} : session_id[v] # session_id[u]

Ruled ==
  /\ \A u, v \in User :
       role[u] = "ADMIN" /\ role[v] = "ADMIN" /\ session_id[u] = session_id[v] => u = v
  /\ \A u \in User : session_id[u] # NotInSession /\ Alone(u) => role[u] = "ADMIN"

\* Who becomes ADMIN by a leave is the only one left.
LEMMA Heir ==
  ASSUME Context, NEW u \in User, NEW v \in User, u # v, session_id[u] # NotInSession
  PROVE  Members(session_id[u]) \ {u} = {v}
           <=> /\ session_id[v] = session_id[u]
               /\ \A w \in User \ {u, v} : session_id[w] # session_id[u]
<1>1. \A w \in User : w \in Members(session_id[u]) <=> session_id[w] = session_id[u]
  BY InSessionOnline DEF Members
<1>2. Members(session_id[u]) \subseteq User
  BY Types0 DEF Members, TypeOK
<1> QED BY <1>1, <1>2

LEMMA RulersKept ==
  ASSUME Context, Ruled, LawfulStep
  PROVE  Ruled'
<1> USE DEF Ruled, Alone
<1>0. /\ session_id \in [User -> Session \cup {NotInSession}]
      /\ role \in [User -> {"USER", "ADMIN"}]
      /\ \A u \in User : role[u] = "ADMIN" => session_id[u] # NotInSession
  BY Types0, InSessionOnline DEF TypeOK
<1>1. ASSUME UNCHANGED <<session_id, role>>
      PROVE  Ruled'
  BY <1>1
<1>2. ASSUME NEW u \in User, NEW s \in Session, Opens(u, s)
      PROVE  Ruled'
  BY <1>0, <1>2 DEF Opens
<1>3. ASSUME NEW u \in User, NEW s \in Session, Enters(u, s)
      PROVE  Ruled'
  BY <1>0, <1>3 DEF Enters
<1>4. ASSUME NEW u \in User, Parts(u)
      PROVE  Ruled'
  <2>1. /\ session_id'[u] = NotInSession /\ role'[u] = "USER"
        /\ \A v \in User \ {u} :
             /\ session_id'[v] = session_id[v]
             /\ role'[v] = IF Members(session_id[u]) \ {u} = {v} THEN "ADMIN" ELSE role[v]
    BY <1>0, <1>4 DEF Parts, RolesWithout
  <2>2. \A v \in User \ {u} :
          role'[v] = IF /\ session_id[v] = session_id[u]
                        /\ \A w \in User \ {u, v} : session_id[w] # session_id[u]
                       THEN "ADMIN" ELSE role[v]
    BY <1>4, <2>1, Heir DEF Parts
  <2> QED BY <1>0, <1>4, <2>1, <2>2 DEF Parts
<1>5. ASSUME NEW u \in User, NEW t \in User, Expels(u, t)
      PROVE  Ruled'
  <2>1. /\ session_id'[t] = NotInSession /\ role' = role /\ u # t
        /\ \A v \in User \ {t} : session_id'[v] = session_id[v]
    BY <1>0, <1>5 DEF Expels
  <2>2. ASSUME NEW v \in User, session_id'[v] # NotInSession, Alone(v)'
        PROVE  role'[v] = "ADMIN"
    <3>1. v # t /\ session_id[v] # NotInSession
      BY <2>1, <2>2
    <3>2. CASE session_id[v] = session_id[u]
      BY <1>5, <2>1, <2>2, <3>1, <3>2 DEF Expels
    <3>3. CASE session_id[v] # session_id[u]
      BY <1>5, <2>1, <2>2, <3>1, <3>3 DEF Expels
    <3> QED BY <3>2, <3>3
  <2> QED BY <1>0, <1>5, <2>1, <2>2 DEF Expels
<1>6. ASSUME NEW u \in User, NEW t \in User, Appoints(u, t)
      PROVE  Ruled'
  <2>1. /\ role'[t] = "ADMIN" /\ role'[u] = "USER" /\ session_id' = session_id /\ u # t
        /\ \A v \in User \ {t, u} : role'[v] = role[v]
    BY <1>0, <1>6 DEF Appoints
  <2> QED BY <1>0, <1>6, <2>1 DEF Appoints
<1> QED BY <1>1, <1>2, <1>3, <1>4, <1>5, <1>6 DEF LawfulStep

LEMMA RuledAdmins ==
  ASSUME Context, Ruled
  PROVE  OneAdmin /\ SoleMemberIsAdmin
<1>1. OneAdmin
  BY Types0 DEF OneAdmin, Ruled, TypeOK
<1>2. ASSUME NEW u \in database, session_id[u] # NotInSession, Members(session_id[u]) = {u}
      PROVE  role[u] = "ADMIN"
  <2>1. u \in User
    BY Types0 DEF TypeOK
  <2>2. \A v \in User \ {u} : session_id[v] # session_id[u]
    BY <1>2, <2>1, InSessionOnline DEF Members
  <2> QED BY <1>2, <2>1, <2>2 DEF Ruled, Alone
<1> QED BY <1>1, <1>2 DEF SoleMemberIsAdmin

-----------------------------------------------------------------------------
(* The theorems.                                                           *)

AssumesPatience == Greeting \cup Request \subseteq Traffic /\ Patient

LEMMA ChatLossIsSystem == ChatLossSpec => SystemSpec
BY PTL DEF ChatLossSpec, SystemSpec

\* With patient users whose recv()s lose only chat, and as long as no process has
\* used up its threads, every process, thread, connection and message is
\* relative to what the server holds: the invariant behind the theorems below.
THEOREM PatientAlways ==
  ASSUME AssumesPatience
  PROVE  ChatLossSpec => [](ThreadsLeft => Context)
<1>1. AllTyped /\ Patient
  BY DEF AllTyped, AssumesPatience
<1>2. SystemInit => SystemInv /\ PatientInv
  BY SystemBegin, PatientBegin, ServerAssumption, ConferenceAssumption
<1>3. SystemInv /\ [SystemNext /\ OnlyChatLost]_allVars => SystemInv'
  BY <1>1, SystemStep, ServerAssumption, ConferenceAssumption DEF Good
<1>4. ASSUME SystemInv, OnlineSocketServed, ThreadsLeft => PatientInv,
             [SystemNext /\ OnlyChatLost]_allVars, ThreadsLeft'
      PROVE  PatientInv'
  <2>1. ThreadsLeft
    BY <1>4, ThreadsCounted DEF SystemInv, ClientTypes
  <2>2. Context
    BY <1>1, <1>4, <2>1, ServerAssumption, ConferenceAssumption DEF Context
  <2> QED BY <1>4, <2>1, <2>2, PatientStep
<1>5. SystemInv /\ OnlineSocketServed /\ (ThreadsLeft => PatientInv)
        /\ [SystemNext /\ OnlyChatLost]_allVars
        => (ThreadsLeft' => PatientInv')
  BY <1>4
<1>6. SystemSpec => []OnlineSocketServed
  BY ServerTheoremsHold DEF AssumesPatience
<1>7. SystemInv /\ OnlineSocketServed /\ (ThreadsLeft => PatientInv) => (ThreadsLeft => Context)
  BY <1>1, ServerAssumption, ConferenceAssumption DEF Context
<1> QED BY <1>2, <1>3, <1>5, <1>6, <1>7, ChatLossIsSystem, PTL DEF ChatLossSpec

\* A running handler thread of a patient user's process reads the connection it
\* was created for, the one the process sends on, although it finds its socket
\* through a variable that the next login overwrites.
THEOREM PatientReadsItsSocket ==
  ASSUME AssumesPatience
  PROVE  ChatLossSpec => [](ThreadsLeft => ReadsItsSocket)
<1>1. Context => ReadsItsSocket
  BY DEF Context, PatientInv, Conversation, Dead, Captured, ReadsItsSocket, C!Handlers,
         ConferenceAssumption
<1> QED BY <1>1, PatientAlways, PTL

\* With patient users, as long as every process has threads left and each recv()
\* loses only chat, the flags that a client keeps of its login, session and role
\* are those of the server whenever nothing is under way.
THEOREM PatientFlagsAgree ==
  ASSUME AssumesPatience
  PROVE  ChatLossSpec => [](ThreadsLeft => FlagsAgree)
<1>1. Context => FlagsAgree
  <2> SUFFICES ASSUME Context, Quiet, NEW p \in Client, LoggedIn(p), NEW u, u = name[p]
               PROVE  /\ client_connection_status[p] = "ONLINE"
                      /\ status[u] = "ONLINE" /\ socket_fd[u] = socket_file_dscriptor[p]
                      /\ session_status[p] = in_session[u]
                      /\ in_session[u] = "ONLINE" => client_role[p] = role[u]
    BY DEF FlagsAgree
  <2>1. Settled(p) /\ ~ C!Gone(p) /\ verified_access[p] = "ON"
    BY DEF Quiet, LoggedIn, C!Gone
  <2>2. PICK c : c = socket_file_dscriptor[p]
    OBVIOUS
  <2>3. c # NoSocket
    BY <2>1, <2>2 DEF Context, PatientInv, ProcessSocket, LoggedOut
  <2>4. c \in Conn /\ (AtRest(p, c) \/ Over(p, c))
    BY <2>1, <2>2, <2>3, SettledTalk
  <2>5. AtRest(p, c)
    BY <2>1, <2>4 DEF Over, Without, LoggedOut
  <2>6. u = source[c] /\ Speaks(c) /\ client_connection_status[p] = "ONLINE"
    BY <2>5 DEF AtRest, Within
  <2>7. socket_fd[u] = c /\ status[u] = "ONLINE"
    BY <2>4, <2>6, SpeakerServed DEF Context, PatientInv, OwnUser
  <2> QED BY <2>2, <2>5, <2>6, <2>7 DEF AtRest
<1> QED BY <1>1, PatientAlways, PTL

\* With patient users, as long as every process has threads left, whoever the
\* server lists as ONLINE when nothing is under way has a client that shows the
\* login.  The EXIT of a logout that one recv() returns behind its LEAVE_SESS is
\* lost, and the user stays ONLINE for ever: ChatLossSpec rules that out and no
\* weaker condition would do.
THEOREM PatientNoGhosts ==
  ASSUME AssumesPatience
  PROVE  ChatLossSpec => [](ThreadsLeft => NoGhostUsers)
<1>1. Context => NoGhostUsers
  <2> SUFFICES ASSUME Context, Quiet, NEW u \in User, status[u] = "ONLINE"
               PROVE  \E p \in Client : LoggedIn(p) /\ name[p] = u
    BY DEF NoGhostUsers
  <2>1. PICK c \in Conn : /\ source[c] = u /\ server_connection_status[c] = "ONLINE"
                          /\ pc[c] \in {"recv", "leave", "offline"}
    BY DEF Context, OnlineSocketServed
  <2>2. PICK p \in Client : p = owner[c]
    BY <2>1, BusyOwner
  <2>3. Asking(p, c) \/ Within(p, c) \/ Without(p, c)
    BY <2>1, <2>2, BusyOwner
  <2>4. /\ inbox[c] = <<>> /\ outbox[c] = <<>> /\ pc[c] = "recv" /\ handler[c] = "recv"
    BY <2>1, <2>2 DEF Quiet, Settled, C!Handlers
  <2>5. \A m, n : <<m>> # <<>> /\ <<m, n>> # <<>>
    OBVIOUS
  <2>6. ~ Asking(p, c)
    BY <2>1, <2>4, <2>5 DEF Asking, Waits, Verified, Refused, Accepted
  <2>7. ~ Without(p, c)
    BY <2>1, <2>4, <2>5 DEF Without, Ending
  <2>8. Within(p, c)
    BY <2>3, <2>6, <2>7
  <2> QED BY <2>1, <2>2, <2>8 DEF Within, LoggedIn, Quiet, C!Gone
<1> QED BY <1>1, PatientAlways, PTL

\* With patient users no handler uses a user that is not found, although none of
\* them tests for it, until a process has used up its threads: its forced EXIT
\* may then reach the thread of a login that is still to be refused.
THEOREM PatientCrashNeedsThreads ==
  ASSUME AssumesPatience
  PROVE  ChatLossSpec =>
           [](server = "crashed" =>
                \E p \in Client : C!thread_count(p) >= thread_number)
<1> DEFINE UsedUp == \E p \in Client : C!thread_count(p) >= thread_number
           Crashed == server = "crashed"
<1>1. Context => ~ Crashed
  BY DEF Context, PatientInv, ServerInv
<1>2. SystemInv /\ ~ ThreadsLeft => UsedUp
  <2> SUFFICES ASSUME SystemInv, NEW p \in Client, ~ (C!thread_count(p) < thread_number)
               PROVE  C!thread_count(p) >= thread_number
    BY DEF ThreadsLeft
  <2>1. Len(client_thread[p]) \in Nat /\ thread_number \in Nat
    BY ConferenceAssumption DEF SystemInv, ClientTypes, C!ClientTypeOK
  <2> QED BY <2>1 DEF C!thread_count
<1>3. SystemSpec => []SystemInv
  BY SystemAlways DEF AssumesPatience
<1> HIDE DEF UsedUp, Crashed
<1>4. ChatLossSpec => [](Crashed => UsedUp)
  BY <1>1, <1>2, <1>3, PatientAlways, ChatLossIsSystem, PTL
<1> QED BY <1>4 DEF UsedUp, Crashed

LEMMA PatientRuled ==
  ASSUME AssumesPatience
  PROVE  ChatLossSpec => [](ThreadsLeft => Context /\ Ruled)
<1>1. SystemInit => Ruled
  BY DEF SystemInit, Init, Ruled, Alone
<1>2. (ThreadsLeft => Context) /\ SystemInv /\ (ThreadsLeft => Ruled)
        /\ [SystemNext /\ OnlyChatLost]_allVars => (ThreadsLeft => Ruled)'
  <2> SUFFICES ASSUME ThreadsLeft => Context /\ Ruled, SystemInv,
                      [SystemNext /\ OnlyChatLost]_allVars, ThreadsLeft'
               PROVE  Ruled'
    OBVIOUS
  <2>1. ThreadsLeft
    BY ThreadsCounted DEF SystemInv, ClientTypes
  <2>2. [SystemNext]_allVars
    OBVIOUS
  <2> QED BY <2>1, <2>2, SystemLawful, RulersKept
<1>3. SystemSpec => []SystemInv
  BY SystemAlways DEF AssumesPatience
<1> QED BY <1>1, <1>2, <1>3, PatientAlways, ChatLossIsSystem, PTL DEF ChatLossSpec

\* With patient users, as long as every process has threads left, a session never
\* has two administrators, whatever is kicked, promoted, left and joined at the
\* same time.
THEOREM PatientOneAdmin ==
  ASSUME AssumesPatience
  PROVE  ChatLossSpec => [](ThreadsLeft => OneAdmin)
<1>1. Context /\ Ruled => OneAdmin
  BY RuledAdmins
<1> QED BY <1>1, PatientRuled, PTL

\* With patient users, as long as every process has threads left, whoever is alone
\* in a session is its administrator.
THEOREM PatientSoleMembers ==
  ASSUME AssumesPatience
  PROVE  ChatLossSpec => [](ThreadsLeft => SoleMemberIsAdmin)
<1>1. Context /\ Ruled => SoleMemberIsAdmin
  BY RuledAdmins
<1> QED BY <1>1, PatientRuled, PTL

\* With patient users who never use up their threads, nobody but the administrator
\* of a session kicks from it or hands its role over, although the server does
\* not look at the role.
THEOREM PatientAdminActs ==
  ASSUME AssumesPatience
  PROVE  ChatLossSpec /\ []ThreadsLeft => AdminActs
<1>1. Context => [\A c \in Conn :
       (\/ KickUser(c) /\ in_session' # in_session
        \/ PromoteUser(c) /\ role' # role)
       => role[source[c]] = "ADMIN"]_allVars
  BY AdminSends
<1> QED BY <1>1, PatientAlways, PTL DEF AdminActs

\* With patient users who never use up their threads, nobody is moved from one
\* session to another in one step, although the server lets a member create or
\* join a second session.
THEOREM PatientNoSilentMove ==
  ASSUME AssumesPatience
  PROVE  ChatLossSpec /\ []ThreadsLeft => NoSilentMove
<1>1. Context /\ [SystemNext]_allVars =>
       [\A u \in User :
       session_id[u] # NotInSession /\ session_id'[u] # NotInSession =>
         session_id'[u] = session_id[u]]_allVars
  <2> SUFFICES ASSUME Context, [SystemNext]_allVars, NEW u \in User,
                      session_id[u] # NotInSession, session_id'[u] # NotInSession
               PROVE  session_id'[u] = session_id[u]
    OBVIOUS
  <2>1. LawfulStep
    BY SystemLawful
  <2>2. session_id \in [User -> Session \cup {NotInSession}]
    BY Types0 DEF TypeOK
  <2> QED BY <2>1, <2>2 DEF LawfulStep, Opens, Enters, Parts, Expels, Appoints
<1> QED BY <1>1, PatientAlways, ChatLossIsSystem, PTL DEF NoSilentMove, SystemSpec

\* With patient users who never use up their threads the whole system, with all its
\* threads, messages and flags, behaves as ModeratedRooms.
THEOREM PatientImplementsModerated ==
  ASSUME AssumesPatience
  PROVE  ChatLossSpec /\ []ThreadsLeft => ImplementsModerated
<1>1. SystemInit => Moderated!RoomsInit
  BY DEF SystemInit, Init, Moderated!RoomsInit
<1>2. Context /\ SessionNotOverfull /\ [SystemNext]_allVars
        => [Moderated!ModeratedNext]_(Moderated!rooms)
  BY SystemLawful, SystemStatus, ModeratedStep
<1>3. SystemSpec => []SessionNotOverfull
  BY ServerTheoremsHold DEF AssumesPatience
<1> QED BY <1>1, <1>2, <1>3, PatientAlways, ChatLossIsSystem, PTL
     DEF SystemSpec, ImplementsModerated, Moderated!ModeratedSpec

-----------------------------------------------------------------------------
(* Without kicks a user who leaves is still in the session when the server *)
(* comes to it, so that server_side_session_leave unlocks what it locks.   *)

AtLeave(c) == inbox[c] # <<>> /\ Head(inbox[c]).type = "LEAVE_SESS"

Steady ==
  /\ user_list_mutex = Free
  /\ \A c \in Conn : AtLeave(c) \/ pc[c] = "leave" => in_session[source[c]] = "ONLINE"

LEMMA LeavingSpeaks ==
  ASSUME Context, NEW c \in Conn, AtLeave(c) \/ pc[c] = "leave"
  PROVE  Speaks(c)
<1>1. CASE pc[c] = "leave"
  BY <1>1, ExitingSpeaks
<1>2. CASE AtLeave(c)
  <2>1. pc[c] = "recv"
    <3>1. pc[c] \notin {"none", "closed"}
      BY <1>2, Types0 DEF AtLeave, Context, PatientInv, Conversation, Dead, Asking, Waits,
                          Verified, Refused, Accepted, Within, Without, Ending
    <3>2. Asking(owner[c], c) \/ Within(owner[c], c) \/ Without(owner[c], c)
      BY <3>1, BusyOwner
    <3> QED BY <1>2, <3>2 DEF AtLeave, Asking, Waits, Verified, Refused, Accepted, Within,
                             Without, Ending
  <2> QED BY <1>2, <2>1, PendingRequest DEF AtLeave
<1> QED BY <1>1, <1>2

LEMMA NoKick ==
  ASSUME Context, "KICK" \notin Typed, NEW c \in Conn, KickUser(c)
  PROVE  FALSE
<1>1. pc[c] = "recv" /\ inbox[c] # <<>> /\ Head(inbox[c]).type = "KICK"
  BY DEF KickUser, Receiving
<1>2. Meant(owner[c], c, Head(inbox[c]))
  BY <1>1, PendingMeant DEF AwaitsRequest
<1> QED BY <1>1, <1>2 DEF Meant

\* Only a thread's own user enters or leaves a session.
LEMMA OwnMoves ==
  ASSUME Context, "KICK" \notin Typed, NEW c \in Conn, Handler(c), NEW u \in User,
         in_session'[u] # in_session[u]
  PROVE  Speaks(c) /\ u = source[c]
<1>1. CASE SessionCreate(c) \/ SessionJoin(c) \/ SessionLeave(c)
  <2>1. pc[c] = "recv" /\ inbox[c] # <<>> /\ Head(inbox[c]).type \notin {"LOGIN", "CREATE"}
    BY <1>1 DEF SessionCreate, SessionJoin, SessionLeave, Receiving
  <2>2. Speaks(c)
    BY <2>1, PendingRequest
  <2>3. u = source[c]
    BY <1>1, Types0 DEF SessionCreate, SessionJoin, SessionLeave, LeaveBody, ClearMembership,
                        TypeOK
  <2> QED BY <2>2, <2>3
<1>2. CASE ExitLeave(c)
  <2>1. u = source[c]
    BY <1>2, Types0 DEF ExitLeave, LeaveBody, ClearMembership, TypeOK
  <2> QED BY <1>2, <2>1, ExitingSpeaks DEF ExitLeave
<1>3. CASE \/ VerifyLogin(c) \/ UserLogin(c) \/ UserRegistration(c) \/ PromoteUser(c)
           \/ GroupMessage(c) \/ QueryUsers(c) \/ QuerySession(c) \/ RecvExit(c)
           \/ Disconnect(c) \/ ExitOffline(c) \/ UnknownSourceCrash(c)
  BY <1>3 DEF VerifyLogin, UserLogin, UserRegistration, PromoteUser, GroupMessage, QueryUsers,
              QuerySession, RecvExit, Disconnect, ExitOffline, UnknownSourceCrash, entry
<1> QED BY <1>1, <1>2, <1>3, NoKick DEF Handler

LEMMA MutexKept ==
  ASSUME Context, "KICK" \notin Typed, Steady, NEW c \in Conn, Handler(c)
  PROVE  user_list_mutex' = Free
<1>1. CASE SessionLeave(c) \/ ExitLeave(c)
  <2>1. in_session[source[c]] = "ONLINE" /\ LeaveBody(c)
    BY <1>1 DEF SessionLeave, ExitLeave, Receiving, Steady, AtLeave
  <2> QED BY <2>1 DEF LeaveBody, Steady
<1>2. CASE ~ (SessionLeave(c) \/ ExitLeave(c))
  BY <1>2 DEF Handler, VerifyLogin, UserLogin, UserRegistration, SessionCreate, SessionJoin,
              KickUser, PromoteUser, GroupMessage, QueryUsers, QuerySession, RecvExit,
              Disconnect, ExitOffline, UnknownSourceCrash, mutexes, Steady
<1> QED BY <1>1, <1>2

LEMMA AfterReceive ==
  ASSUME Context, OnlyChatLost, NEW c \in Conn, pc[c] = "recv", inbox[c] # <<>>, Receive(c)
  PROVE  ~ AtLeave(c)'
<1>1. inbox'[c] \in {<<>>, <<ExitMessage>>} \/ Chats(inbox'[c])
  <2>1. CASE AwaitsGreeting(c)
    BY <2>1, ReceiveLeaves DEF AwaitsGreeting
  <2>2. CASE AwaitsRequest(c)
    BY <2>2, ReceiveLeaves DEF AwaitsRequest
  <2>3. CASE AwaitsEnd(c)
    BY <2>3, ReceiveLeaves DEF AwaitsEnd
  <2> QED BY <2>1, <2>2, <2>3, Pending
<1>2. Head(<<ExitMessage>>) = ExitMessage /\ ExitMessage.type # "LEAVE_SESS"
  BY DEF ExitMessage
<1>3. inbox'[c] \in Seq(Greeting \cup Request)
  BY ReceiveReads
<1> QED BY <1>1, <1>2, <1>3, ChatsTail DEF AtLeave

LEMMA ServesSteady ==
  ASSUME Context, OnlyChatLost, "KICK" \notin Typed, Steady, NEW c \in Conn, Handler(c)
  PROVE  Steady'
<1>1. user_list_mutex' = Free
  BY MutexKept
<1>2. ASSUME NEW e \in Conn \ {c}, (AtLeave(e) \/ pc[e] = "leave")'
      PROVE  in_session'[source'[e]] = "ONLINE"
  <2>1. Beside(e)
    BY HandlerBeside DEF OthersBeside
  <2>2. UNCHANGED <<pc[e], source[e], inbox[e]>>
    BY <2>1 DEF Beside
  <2>3. AtLeave(e) \/ pc[e] = "leave"
    BY <1>2, <2>2 DEF AtLeave
  <2>4. Speaks(e) /\ in_session[source[e]] = "ONLINE"
    BY <2>3, LeavingSpeaks DEF Steady
  <2>5. source[e] \in User
    BY <2>4, SpeakerServed
  <2>6. in_session'[source[e]] = in_session[source[e]]
    BY <2>4, <2>5, OwnMoves, OneThread
  <2> QED BY <2>2, <2>4, <2>6
<1>3. ASSUME (AtLeave(c) \/ pc[c] = "leave")'
      PROVE  in_session'[source'[c]] = "ONLINE"
  <2>1. CASE Receiving(c, Head(inbox[c]).type) /\ Receive(c) /\ ~ RecvExit(c)
    <3>1. ~ AtLeave(c)'
      BY <2>1, AfterReceive DEF Receiving
    <3>2. pc'[c] # "leave"
      BY <2>1, Types0 DEF Handler, VerifyLogin, UserLogin, UserRegistration, SessionCreate,
              SessionJoin, SessionLeave, KickUser, PromoteUser, GroupMessage, QueryUsers,
              QuerySession, Disconnect, ExitOffline, ExitLeave, UnknownSourceCrash, Receiving,
              thread, TypeOK
    <3> QED BY <1>3, <3>1, <3>2
  <2>2. CASE RecvExit(c)
    <3>1. ~ AtLeave(c)'
      BY <2>2, AfterReceive DEF RecvExit, Receiving
    <3>2. pc'[c] = "leave" /\ StartExit(c) /\ UNCHANGED <<in_session, source>>
      BY <1>3, <2>2, <3>1 DEF RecvExit, entry
    <3> QED BY <3>2, Types0 DEF StartExit, TypeOK
  <2>3. CASE Disconnect(c)
    <3>1. inbox'[c] = <<>> /\ UNCHANGED <<in_session, source>>
      BY <2>3 DEF Disconnect, entry
    <3>2. pc'[c] = "leave"
      BY <1>3, <3>1 DEF AtLeave
    <3>3. StartExit(c)
      BY <2>3, <3>2, Types0 DEF Disconnect, TypeOK
    <3> QED BY <3>1, <3>2, <3>3, Types0 DEF StartExit, TypeOK
  <2>4. CASE UserLogin(c)
    <3>1. inbox[c] = <<>>
      <4>1. Asking(owner[c], c) \/ Within(owner[c], c) \/ Without(owner[c], c)
        BY <2>4, BusyOwner DEF UserLogin
      <4> QED BY <2>4, <4>1 DEF UserLogin, Asking, Waits, Verified, Refused, Accepted, Within,
                               Without, Ending, Speaks
    <3>2. inbox'[c] = <<>> /\ pc'[c] = "recv"
      BY <2>4, <3>1, Types0 DEF UserLogin, TypeOK
    <3> QED BY <1>3, <3>2 DEF AtLeave
  <2>5. CASE ExitLeave(c) \/ ExitOffline(c)
    <3>1. inbox[c] = <<>>
      BY <2>5, ExitingSpeaks DEF ExitLeave, ExitOffline
    <3>2. inbox'[c] = <<>> /\ pc'[c] # "leave"
      BY <2>5, <3>1, Types0 DEF ExitLeave, ExitOffline, TypeOK
    <3> QED BY <1>3, <3>2 DEF AtLeave
  <2> QED BY <2>1, <2>2, <2>3, <2>4, <2>5, NeverCrashes
          DEF Handler, VerifyLogin, UserRegistration, SessionCreate, SessionJoin, SessionLeave,
              KickUser, PromoteUser, GroupMessage, QueryUsers, QuerySession, Receiving
<1> QED BY <1>1, <1>2, <1>3 DEF Steady

\* A step of the main thread of p, with what it sends.
LEMMA SendsSteady ==
  ASSUME Context, Steady, ServerUnchanged,
         \A c \in Conn : AtLeave(c)' => AtLeave(c) \/ in_session[source[c]] = "ONLINE"
  PROVE  Steady'
BY DEF Steady, ServerUnchanged, entry, mutexes, thread

LEMMA SilentSteady ==
  ASSUME Context, Steady, ServerUnchanged, inbox' = inbox
  PROVE  Steady'
BY SendsSteady DEF AtLeave

LEMMA CommandSteady ==
  ASSUME Context, Steady, NEW p \in Client, NEW m \in Request, MayType(p, m.type),
         C!Command(p, m), ServerUnchanged
  PROVE  Steady'
<1>0. PICK c : c = socket_file_dscriptor[p]
  OBVIOUS
<1>1. client_connection_status[p] = "ONLINE" /\ main[p] = "command" /\ C!SendTo(c, m)
      /\ m.type # "LEAVE_SESS" /\ (m.type = "MESSAGE" => session_status[p] = "ONLINE")
  BY <1>0 DEF C!Command, C!AtPrompt, C!Allowed
<1>2. c \in Conn /\ pc[c] = "recv" /\ peer[c] = "open"
  BY <1>0, <1>1, PatientlyTyped, OnlineAtRest, InSessionWithin DEF C!Gone
<1>3. inbox' = [inbox EXCEPT ![c] = Append(inbox[c], m)]
  BY <1>1, <1>2, Sent
<1>4. inbox'[c] = Append(inbox[c], m) /\ \A d \in Conn \ {c} : inbox'[d] = inbox[d]
  BY <1>2, <1>3, Types0
<1>5. AtLeave(c)' => AtLeave(c)
  <2>1. inbox[c] \in Seq(Greeting \cup Request)
    BY <1>2, Types0
  <2>2. /\ inbox[c] = <<>> => Head(inbox'[c]) = m
        /\ inbox[c] # <<>> => Head(inbox'[c]) = Head(inbox[c])
    BY <1>4, <2>1, QueueAppend
  <2> QED BY <1>1, <2>2 DEF AtLeave
<1> QED BY <1>4, <1>5, SendsSteady DEF AtLeave

LEMMA LeaveSessionSteady ==
  ASSUME Context, Steady, NEW p \in Client, Settled(p), ~ C!Gone(p),
         client_connection_status[p] = "ONLINE", session_status[p] = "ONLINE",
         C!LeaveSession(p), ServerUnchanged
  PROVE  Steady'
<1> DEFINE c == socket_file_dscriptor[p]
<1>1. /\ c \in Conn /\ inbox[c] = <<>> /\ pc[c] = "recv" /\ peer[c] = "open" /\ AtRest(p, c)
  BY OnlineAtRest
<1>2. in_session[source[c]] = "ONLINE" /\ C!SendTo(c, LeaveMessage)
  BY <1>1 DEF AtRest, C!LeaveSession, LeaveMessage
<1>3. inbox' = [inbox EXCEPT ![c] = <<LeaveMessage>>]
  BY <1>1, <1>2, Sent
<1>4. \A d \in Conn \ {c} : inbox'[d] = inbox[d]
  BY <1>3, Types0
<1> QED BY <1>2, <1>4, SendsSteady DEF AtLeave

LEMMA BeginLogoutSteady ==
  ASSUME Context, Steady, NEW p \in Client, Settled(p), ~ C!Gone(p), NEW why,
         C!BeginLogout(p, why), ServerUnchanged
  PROVE  Steady'
<1>1. CASE session_status[p] = "ONLINE"
  BY <1>1, LeaveSessionSteady DEF C!BeginLogout
<1>2. CASE session_status[p] # "ONLINE"
  BY <1>2, SilentSteady DEF C!BeginLogout
<1> QED BY <1>1, <1>2

LEMMA TerminateSteady ==
  ASSUME Context, Steady, NEW p \in Client, Settled(p), ~ C!Gone(p), C!Terminate(p),
         ServerUnchanged
  PROVE  Steady'
BY BeginLogoutSteady, SilentSteady DEF C!Terminate, C!channels

LEMMA EndLogoutSteady ==
  ASSUME Context, Steady, NEW p \in Client, C!EndLogout(p), ServerUnchanged
  PROVE  Steady'
<1>1. ASSUME NEW c \in Conn, AtLeave(c)'
      PROVE  AtLeave(c)
  <2>1. inbox'[c] \in {inbox[c], Append(inbox[c], ExitMessage)}
    BY Types0 DEF C!EndLogout, C!SendTo, ExitMessage
  <2>2. ExitMessage \in Greeting \cup Request /\ ExitMessage.type # "LEAVE_SESS"
    BY DEF ExitMessage, Request
  <2>3. \A q \in Seq(Greeting \cup Request) :
          Head(Append(q, ExitMessage)) = IF q = <<>> THEN ExitMessage ELSE Head(q)
    BY <2>2
  <2> QED BY <1>1, <2>1, <2>2, <2>3, Types0 DEF AtLeave
<1> QED BY <1>1, SendsSteady

LEMMA ConnectSteady ==
  ASSUME Context, Steady, NEW p \in Client, NEW c \in Conn, NEW m \in Account[p], Accept(c, m)
  PROVE  Steady'
<1>1. m \in Greeting
  BY Types0
<1>2. m.type # "LEAVE_SESS"
  BY <1>1 DEF Greeting
<1>3. /\ inbox'[c] = <<m>> /\ Head(<<m>>) = m /\ pc'[c] = "recv"
      /\ \A e \in Conn \ {c} : inbox'[e] = inbox[e] /\ pc'[e] = pc[e]
      /\ UNCHANGED <<in_session, user_list_mutex>>
  BY Types0 DEF Accept, entry, mutexes, TypeOK
<1>4. \A e \in Conn \ {c} : source'[e] = source[e]
  <2>1. PICK g : source' = [source EXCEPT ![c] = g]
    BY DEF Accept
  <2> QED BY <2>1, Types0 DEF TypeOK
<1>5. ~ AtLeave(c)' /\ pc'[c] # "leave"
  BY <1>2, <1>3 DEF AtLeave
<1>6. \A e \in Conn \ {c} : AtLeave(e)' => AtLeave(e)
  BY <1>3 DEF AtLeave
<1> QED BY <1>3, <1>4, <1>5, <1>6 DEF Steady

LEMMA TypesSteady ==
  ASSUME Context, Steady, NEW p \in Client, Types(p)
  PROVE  Steady'
<1>1. /\ \A t : MayType(p, t) /\ t # "MESSAGE" => Settled(p)
      /\ \A m \in Account[p] : m.type # "MESSAGE"
  BY PatientlyTyped, Types0 DEF Greeting
<1>2. C!Logout(p) => ~ C!Gone(p) /\ C!BeginLogout(p, "logout")
  BY DEF C!Logout, C!AtPrompt, C!Gone
<1>3. C!Quit(p) => ~ C!Gone(p) /\ C!Terminate(p)
  BY DEF C!Quit, C!AtPrompt, C!Gone
<1>4. C!Leave(p) => /\ ~ C!Gone(p) /\ client_connection_status[p] = "ONLINE"
                    /\ session_status[p] = "ONLINE" /\ C!LeaveSession(p)
  BY DEF C!Leave, C!AtPrompt, C!Allowed, C!Gone
<1>5. C!FailedConnect(p) => inbox' = inbox
  BY DEF C!FailedConnect, C!End, C!channels
<1>6. C!Interrupt(p) => (~ C!Gone(p) /\ C!Terminate(p)) \/ inbox' = inbox
  BY DEF C!Interrupt, C!End, C!Gone
<1> QED BY <1>1, <1>2, <1>3, <1>4, <1>5, <1>6, ConnectSteady, CommandSteady,
           LeaveSessionSteady, BeginLogoutSteady, TerminateSteady, SilentSteady DEF Types

LEMMA SteadyStep ==
  ASSUME Context, "KICK" \notin Typed, Steady, ThreadsLeft,
         [SystemNext /\ OnlyChatLost]_allVars
  PROVE  Steady'
<1>1. CASE UNCHANGED allVars
  BY <1>1 DEF Steady, AtLeave, allVars, vars, entry, mutexes, thread
<1>2. CASE MainExit
  BY <1>2 DEF MainExit, Steady, AtLeave, entry, mutexes, thread
<1>3. CASE (\E c \in Conn : Serves(c)) /\ OnlyChatLost
  BY <1>3, ServesSteady DEF Serves
<1>4. CASE \E c \in Conn : Receives(c)
  <2>1. ServerUnchanged /\ inbox' = inbox
    BY <1>4 DEF Receives, C!Receiver, C!HandlerStart, C!HandlerTest, C!HandlerReceive,
                C!HandlerEof, C!channels
  <2> QED BY <2>1, SilentSteady
<1>5. CASE \E p \in Client : Types(p)
  BY <1>5, TypesSteady
<1>6. CASE \E p \in Client : Proceeds(p)
  <2>1. PICK p \in Client : Proceeds(p)
    BY <1>6
  <2>2. ~ C!OutOfThreads(p)
    BY DEF ThreadsLeft, C!OutOfThreads, C!AtPrompt
  <2>3. C!JoinHandlers(p) => inbox' = inbox
    BY DEF C!JoinHandlers, C!End
  <2> QED BY <2>1, <2>2, <2>3, EndLogoutSteady, SilentSteady DEF Proceeds
<1> QED BY <1>1, <1>2, <1>3, <1>4, <1>5, <1>6 DEF SystemNext

\* A kick is the only way to user_list_mutex held for ever: as long as patient users
\* do not kick and have threads left, every handler returns with it unlocked.
THEOREM PatientMutexReleased ==
  ASSUME AssumesPatience, "KICK" \notin Typed
  PROVE  ChatLossSpec => [](ThreadsLeft => UserListMutexReleased)
<1>1. SystemInit => Steady
  BY DEF SystemInit, Init, Steady, AtLeave
<1>2. (ThreadsLeft => Context) /\ SystemInv /\ (ThreadsLeft => Steady)
        /\ [SystemNext /\ OnlyChatLost]_allVars => (ThreadsLeft => Steady)'
  <2> SUFFICES ASSUME ThreadsLeft => Context /\ Steady, SystemInv,
                      [SystemNext /\ OnlyChatLost]_allVars, ThreadsLeft'
               PROVE  Steady'
    OBVIOUS
  <2>1. ThreadsLeft
    BY ThreadsCounted DEF SystemInv, ClientTypes
  <2> QED BY <2>1, SteadyStep
<1>3. Steady => UserListMutexReleased
  BY DEF Steady, UserListMutexReleased
<1>4. SystemSpec => []SystemInv
  BY SystemAlways DEF AssumesPatience
<1> QED BY <1>1, <1>2, <1>3, <1>4, PatientAlways, ChatLossIsSystem, PTL DEF ChatLossSpec
=============================================================================
