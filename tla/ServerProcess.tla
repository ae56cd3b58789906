---------------------------- MODULE ServerProcess ----------------------------
(***************************************************************************)
(* The server as a process: main() with its accept loop, the threads it    *)
(* starts, KILL_HANDLER, and the registrations the threads make in the     *)
(* user database, over crashes and restarts.  Of the sessions only what     *)
(* they do to user_list_mutex is here; ConferenceServer has the rest.      *)
(*                                                                         *)
(* All threads are given the address of the same accept_fd and read it     *)
(* when they first run.  PromptThreads says that a new thread does so      *)
(* before the next accept() returns, as it does unless clients connect in  *)
(* the same moment.                                                        *)
(***************************************************************************)
EXTENDS UserDatabase

CONSTANTS
  Shipped,          \* what database.txt may hold before the first start
  THREAD_CAPACITY,  \* threads, and so connections, in the life of a process
  PromptThreads,
  MaxStarts         \* bound on the times the server is started

ASSUME ProcessAssumption ==
  /\ THREAD_CAPACITY \in Nat \ {0} /\ MaxStarts \in Nat
  /\ PromptThreads \in BOOLEAN /\ 0 \notin Account
  \* a file written by hand names nobody twice and not too many
  /\ Shipped \subseteq Seq(Account)
  /\ \A s \in Shipped :
       /\ Len(s) <= MAX_USER_COUNT
       /\ \A j, k \in 1..Len(s) : s[j] = s[k] => j = k

Thread == 1..THREAD_CAPACITY      \* also the client it is created for
Descriptor == 1..THREAD_CAPACITY
Free == 0                         \* no thread, no client, no descriptor
\* user_list_mutex is main's, or a thread returned without unlocking it.
Main == THREAD_CAPACITY + 1
Abandoned == THREAD_CAPACITY + 2

VARIABLES
  main,             \* down, load, accept, count, join, killing, freeing, freed
  terminate,        \* the flag of KILL_HANDLER
  thread_count,
  accept_fd,        \* main's local, whose address the threads get
  skipped,          \* a thread that the signal found main joining
  descriptor,       \* the client that each open socket is connected to
  peer,             \* the connection of a client: none, open, closed by either end
  user_list_mutex,  \* who holds it
  tpc,              \* thread: none, created, recv, lock, append, ack, exit, close, done
  fd,               \* thread: socket_file_descriptor
  account,          \* thread: the account it registers
  online,           \* the threads whose server_connection_status is ONLINE
  acknowledged,     \* accounts for which RG_ACK was sent
  starts

process == <<main, terminate, thread_count, accept_fd, skipped>>
network == <<descriptor, peer>>
threads == <<user_list_mutex, tpc, fd, account, online>>
vars == <<database, process, network, threads, acknowledged, starts>>

Durable == INSTANCE Accounts WITH stored <- file, promised <- acknowledged \ unsaved

TypeOK ==
  /\ file \in Seq(Account) /\ table \in Seq(Account)
  /\ headed \in BOOLEAN /\ unsaved \in SUBSET Account
  /\ main \in {"down", "load", "accept", "count", "join", "killing", "freeing", "freed"}
  /\ terminate \in BOOLEAN
  /\ thread_count \in 0..THREAD_CAPACITY
  /\ accept_fd \in Descriptor \cup {Free} /\ skipped \in Thread \cup {Free}
  /\ descriptor \in [Descriptor -> Thread \cup {Free}]
  /\ peer \in [Thread -> {"none", "open", "closed"}]
  /\ user_list_mutex \in Thread \cup {Free, Main, Abandoned}
  /\ tpc \in [Thread -> {"none", "created", "recv", "lock", "append", "ack", "exit", "close", "done"}]
  /\ fd \in [Thread -> Descriptor \cup {Free}]
  /\ account \in [Thread -> Account \cup {Free}] /\ online \in SUBSET Thread
  /\ acknowledged \in SUBSET Account
  /\ starts \in 0..MaxStarts

NoThreads(v) == [t \in Thread |-> v]

Init ==
  /\ file \in Shipped /\ headed = FALSE /\ table = <<>> /\ unsaved = {}
  /\ main = "down" /\ terminate = FALSE /\ thread_count = 0 /\ accept_fd = Free
  /\ skipped = Free /\ online = {}
  /\ descriptor = [d \in Descriptor |-> Free]
  /\ peer = NoThreads("none") /\ tpc = NoThreads("none")
  /\ fd = NoThreads(Free) /\ account = NoThreads(Free)
  /\ user_list_mutex = Free
  /\ acknowledged = {} /\ starts = 0

-----------------------------------------------------------------------------
(* main.                                                                   *)

Start ==
  /\ main = "down" /\ starts < MaxStarts
  /\ main' = "load" /\ starts' = starts + 1
  /\ UNCHANGED <<database, terminate, thread_count, accept_fd, skipped, network, threads, acknowledged>>

SetUpDatabase ==
  /\ main = "load"
  /\ \/ LoadLine /\ UNCHANGED main
     \/ Loaded /\ main' = "accept" /\ UNCHANGED database
  /\ UNCHANGED <<terminate, thread_count, accept_fd, skipped, network, threads, acknowledged, starts>>

\* accept() gives the lowest free descriptor to the next client, and
\* pthread_create() starts the thread for it.
Accept ==
  LET t == thread_count + 1 IN
  /\ main = "accept"
  /\ PromptThreads => \A u \in Thread : tpc[u] # "created"
  /\ \E d \in Descriptor :
       /\ descriptor[d] = Free
       /\ \A e \in Descriptor : descriptor[e] = Free => d <= e
       /\ accept_fd' = d
       /\ descriptor' = [descriptor EXCEPT ![d] = t]
  /\ peer' = [peer EXCEPT ![t] = "open"]
  /\ tpc' = [tpc EXCEPT ![t] = "created"]
  /\ main' = "count"
  /\ UNCHANGED <<database, terminate, thread_count, skipped, user_list_mutex, fd, account, online, acknowledged, starts>>

\* thread_count++ and the test of the limit: it counts the threads ever
\* started, so the process accepts that many clients and no more.
CountThread ==
  /\ main = "count"
  /\ thread_count' = thread_count + 1
  /\ main' = IF thread_count + 1 = THREAD_CAPACITY THEN "join" ELSE "accept"
  /\ UNCHANGED <<database, terminate, accept_fd, skipped, network, threads, acknowledged, starts>>

\* KILL_HANDLER begins, in the middle of what main was doing: holding
\* user_list_mutex, or after the table is freed, as well.  Its pthread_join()
\* of the thread that main is joining returns at once.
Interrupt ==
  /\ main # "down" /\ ~ terminate
  /\ main' = "killing" /\ terminate' = TRUE
  /\ \/ UNCHANGED skipped
     \/ /\ main = "join"
        /\ \E t \in 1..thread_count :
             /\ tpc[t] # "done" /\ \A u \in 1..(t - 1) : tpc[u] = "done"
             /\ skipped' = t
  /\ UNCHANGED <<database, thread_count, accept_fd, network, threads, acknowledged, starts>>

\* Mutant: the last thread is not joined.
Joined_OneShort == \A t \in 1..thread_count : tpc[t] = "done" \/ t = thread_count

\* Both ends of the process join the threads counted so far, and then call
\* remove_all_users_in_database.
Joined == \A t \in 1..thread_count : tpc[t] = "done" \/ t = skipped
LockTable ==
  /\ main \in {"join", "killing"} /\ Joined /\ user_list_mutex = Free
  /\ main' = "freeing" /\ user_list_mutex' = Main
  /\ UNCHANGED <<database, terminate, thread_count, accept_fd, skipped, network,
                 tpc, fd, account, online, acknowledged, starts>>

FreeTable ==
  /\ main = "freeing"
  /\ main' = "freed" /\ user_list_mutex' = Free
  /\ UNCHANGED <<database, terminate, thread_count, accept_fd, skipped, network,
                 tpc, fd, account, online, acknowledged, starts>>

\* The memory and the sockets of the process are gone.
EndProcess ==
  /\ Forget
  /\ main' = "down" /\ terminate' = FALSE /\ thread_count' = 0 /\ accept_fd' = Free
  /\ skipped' = Free /\ online' = {}
  /\ descriptor' = [d \in Descriptor |-> Free]
  /\ peer' = NoThreads("none") /\ tpc' = NoThreads("none")
  /\ fd' = NoThreads(Free) /\ account' = NoThreads(Free)
  /\ user_list_mutex' = Free
  /\ UNCHANGED <<acknowledged, starts>>

Exit == main = "freed" /\ EndProcess

\* The process ends where it is: killed, by SIGPIPE from a send() to a
\* client that is gone, by exit(errno) after a failed accept(), by a fopen()
\* of database.txt that fails at the start, by an entry written behind the
\* 16 that the table has room for, by a table freed twice, by a request of a
\* client that did not log in.
Crash == main # "down" /\ EndProcess

-----------------------------------------------------------------------------
(* connection_handler.                                                     *)

Client(t) == IF fd[t] = Free THEN Free ELSE descriptor[fd[t]]
Connected(t) == Client(t) # Free /\ peer[Client(t)] = "open"

\* Mutant: a thread that sees terminate returns without close().
Top_Return == IF terminate THEN "done" ELSE "recv"

\* The top of the loop: terminate is tested, then recv() waits.
Top == IF terminate THEN "close" ELSE "recv"

ThreadStart(t) ==
  /\ tpc[t] = "created" /\ main # "down"
  /\ fd' = [fd EXCEPT ![t] = accept_fd]
  /\ tpc' = [tpc EXCEPT ![t] = Top]
  /\ UNCHANGED <<database, process, network, user_list_mutex, account, online, acknowledged, starts>>

\* QUERY, SESS_QUERY and a LOGIN that is refused: no handler of theirs takes
\* user_list_mutex.
Query(t) ==
  /\ tpc[t] = "recv" /\ Connected(t) /\ main # "freed"
  /\ tpc' = [tpc EXCEPT ![t] = Top]
  /\ UNCHANGED <<database, process, network, user_list_mutex, fd, account, online, acknowledged, starts>>

\* Any other request: its handler begins with pthread_mutex_lock().
Request(t) ==
  /\ tpc[t] = "recv" /\ Connected(t) /\ main # "freed"
  /\ tpc' = [tpc EXCEPT ![t] = "lock"]
  /\ UNCHANGED <<database, process, network, user_list_mutex, fd, account, online, acknowledged, starts>>

CanLock(t) == tpc[t] = "lock" /\ user_list_mutex = Free /\ main # "freed"

\* A handler that locks and unlocks: a registration that is refused, a chat
\* line, what else users do in sessions.
Handle(t) ==
  /\ CanLock(t)
  /\ tpc' = [tpc EXCEPT ![t] = Top]
  /\ UNCHANGED <<database, process, network, user_list_mutex, fd, account, online, acknowledged, starts>>

UserLogin(t) ==
  /\ CanLock(t) /\ table # <<>>
  /\ online' = online \cup {t}
  /\ tpc' = [tpc EXCEPT ![t] = Top]
  /\ UNCHANGED <<database, process, network, user_list_mutex, fd, account, acknowledged, starts>>

\* server_side_session_leave for a user who was kicked in the meantime.
LeaveKicked(t) ==
  /\ CanLock(t) /\ t \in online
  /\ user_list_mutex' = Abandoned
  /\ tpc' = [tpc EXCEPT ![t] = Top]
  /\ UNCHANGED <<database, process, network, fd, account, online, acknowledged, starts>>

\* Mutant: RG_ACK is sent before the account is written.
UserRegistration_AckFirst(t, a) ==
  /\ CanLock(t)
  /\ AddUser(a)
  /\ user_list_mutex' = t
  /\ account' = [account EXCEPT ![t] = a]
  /\ acknowledged' = acknowledged \cup {a}
  /\ tpc' = [tpc EXCEPT ![t] = "append"]
  /\ UNCHANGED <<file, headed, unsaved, process, network, fd, online, starts>>

\* A CREATE request, up to the new entry in the table.
UserRegistration(t, a) ==
  /\ CanLock(t)
  /\ AddUser(a)
  /\ user_list_mutex' = t
  /\ account' = [account EXCEPT ![t] = a]
  /\ tpc' = [tpc EXCEPT ![t] = "append"]
  /\ UNCHANGED <<file, headed, unsaved, process, network, fd, online, acknowledged, starts>>

\* Mutant: the lock is kept when the file cannot be opened.
AppendAccount_KeepsLock(t) ==
  /\ tpc[t] = "append"
  /\ WriteToDatabase
  /\ user_list_mutex' = IF file' = file THEN user_list_mutex ELSE Free
  /\ tpc' = [tpc EXCEPT ![t] = "ack"]
  /\ UNCHANGED <<process, network, fd, account, online, acknowledged, starts>>

\* Mutant: a failed fopen() is tried again, and the entry written twice.
AppendAccount_Twice(t) ==
  /\ tpc[t] = "append"
  /\ WriteToDatabase
  /\ \/ user_list_mutex' = Free /\ tpc' = [tpc EXCEPT ![t] = "ack"]
     \/ UNCHANGED <<user_list_mutex, tpc>>
  /\ UNCHANGED <<process, network, fd, account, online, acknowledged, starts>>

AppendAccount(t) ==
  /\ tpc[t] = "append"
  /\ WriteToDatabase
  /\ user_list_mutex' = Free
  /\ tpc' = [tpc EXCEPT ![t] = "ack"]
  /\ UNCHANGED <<process, network, fd, account, online, acknowledged, starts>>

Acknowledge(t) ==
  /\ tpc[t] = "ack"
  /\ acknowledged' = acknowledged \cup {account[t]}
  /\ account' = [account EXCEPT ![t] = Free]
  /\ online' = online \cup {t}
  /\ tpc' = [tpc EXCEPT ![t] = Top]
  /\ UNCHANGED <<database, process, network, user_list_mutex, fd, starts>>

\* Mutant: the socket is closed here, and again at the end.
EndOfService_Closes(t) ==
  /\ tpc[t] = "recv"
  /\ descriptor' = [descriptor EXCEPT ![fd[t]] = Free]
  /\ tpc' = [tpc EXCEPT ![t] = IF t \in online THEN "exit" ELSE "close"]
  /\ UNCHANGED <<database, process, peer, user_list_mutex, fd, account, online, acknowledged, starts>>

\* EXIT, the end of the stream, or a recv() that fails: a user who is online
\* has to exit first.
EndOfService(t) ==
  /\ tpc[t] = "recv"
  /\ tpc' = [tpc EXCEPT ![t] = IF t \in online THEN "exit" ELSE "close"]
  /\ UNCHANGED <<database, process, network, user_list_mutex, fd, account, online, acknowledged, starts>>

\* server_side_user_exit.  If the user is kicked behind its test of in_session,
\* the leave in it returns with the mutex, and the thread locks it again.
CanExit(t) == tpc[t] = "exit" /\ user_list_mutex = Free /\ main # "freed"
UserExit(t) ==
  /\ CanExit(t)
  /\ tpc' = [tpc EXCEPT ![t] = "close"]
  /\ UNCHANGED <<database, process, network, user_list_mutex, fd, account, online, acknowledged, starts>>

ExitKicked(t) ==
  /\ CanExit(t)
  /\ user_list_mutex' = Abandoned
  /\ UNCHANGED <<database, process, network, tpc, fd, account, online, acknowledged, starts>>

\* close(): the number may be given to the next client at once.
CloseSocket(t) ==
  /\ tpc[t] = "close"
  /\ descriptor' = [descriptor EXCEPT ![fd[t]] = Free]
  /\ peer' = [peer EXCEPT ![Client(t)] = "closed"]
  /\ tpc' = [tpc EXCEPT ![t] = "done"] /\ fd' = [fd EXCEPT ![t] = Free]
  /\ online' = online \ {t}
  /\ UNCHANGED <<database, process, user_list_mutex, account, acknowledged, starts>>

ClientClose(c) ==
  /\ peer[c] = "open"
  /\ peer' = [peer EXCEPT ![c] = "closed"]
  /\ UNCHANGED <<database, process, descriptor, threads, acknowledged, starts>>

-----------------------------------------------------------------------------
MainStep == SetUpDatabase \/ CountThread \/ LockTable \/ FreeTable \/ Exit
\* What a thread does without waiting for its client.
ThreadStep(t) ==
  \/ ThreadStart(t) \/ Handle(t) \/ UserLogin(t) \/ LeaveKicked(t)
  \/ \E a \in Account : UserRegistration(t, a)
  \/ AppendAccount(t) \/ Acknowledge(t)
  \/ UserExit(t) \/ ExitKicked(t) \/ CloseSocket(t)
  \/ ~ Connected(t) /\ EndOfService(t)

Next ==
  \/ Start \/ MainStep \/ Accept \/ Interrupt \/ Crash
  \/ \E t \in Thread :
       ThreadStep(t) \/ Query(t) \/ Request(t) \/ EndOfService(t) \/ ClientClose(t)

Spec == Init /\ [][Next]_vars

\* The process and its threads are scheduled.  No client has to connect, to
\* write or to close, nobody has to start or to interrupt the server.
FairSpec ==
  /\ Spec
  /\ WF_vars(MainStep)
  /\ \A t \in Thread : WF_vars(ThreadStep(t))

-----------------------------------------------------------------------------
(* Properties.                                                             *)

\* "each thread will be responsible for one client" (server.c:141-142): the
\* open socket a thread reads is connected to the client it was created for,
\* although the threads share accept_fd and descriptors are used again.
Serving(t) == tpc[t] \in {"recv", "lock", "append", "ack", "exit", "close"}
OwnClient == \A t \in Thread : Serving(t) => fd[t] # Free /\ descriptor[fd[t]] = t

\* No socket stays open without a thread that will close it, so that the
\* descriptors cannot run out (server.c:326).
NoSocketLost ==
  \A d \in Descriptor : descriptor[d] # Free =>
    LET t == descriptor[d] IN
    \/ tpc[t] = "created" /\ accept_fd = d
    \/ Serving(t) /\ fd[t] = d

\* When the table is freed no thread is left that may use it, except two:
\* the thread that pthread_create() had started when the signal came, but
\* thread_count did not count yet (server.c:26 and 133-134), and the thread
\* that main was joining when the signal came (server.c:26 and 117-119).
FreedUnused ==
  main \in {"freeing", "freed"} =>
    \A t \in Thread : tpc[t] \notin {"none", "done"} =>
      terminate /\ t \in {thread_count + 1, skipped}

\* As long as no append failed, the table that serves logins is what the
\* next start will read, apart from the one account that is being added
\* under user_list_mutex: nothing is stored twice, in place of another, or
\* in another order (server.c:612-653).
TableMirrorsFile ==
  main \in {"accept", "count", "join"} /\ unsaved = {} =>
    /\ user_list_mutex \notin Thread => table = file
    /\ user_list_mutex \in Thread => table = Append(file, account[user_list_mutex])

\* An account whose registration was acknowledged is there for a login, in
\* this life of the server and in every later one, unless its append failed.
AcknowledgedCanLogIn ==
  main \in {"accept", "count", "join"} =>
    \A a \in acknowledged \ unsaved : Listed(a, table)

\* The server keeps the promise of Accounts over crashes and restarts, for
\* the accounts whose append did not fail.
KeepsAccounts == Durable!AccountsSpec

\* A start comes to its end and the server listens, or ends, unless the file
\* holds what the format of fscanf() cannot read: an awkward account, or the
\* empty line that the first registration leaves in an empty file.
StartEnds == <>[](main = "load") => <>[]Unreadable

\* SIGINT, and the full thread pool, end the process, unless a joined thread
\* keeps waiting for its client, or user_list_mutex is locked for ever: by a
\* leave that crossed a kick (server.c:444), or by main itself, when the
\* signal falls inside its own remove_all_users_in_database (server.c:137).
Waiting == \E t \in 1..thread_count : tpc[t] = "recv" /\ Connected(t)
LockedForEver ==
  user_list_mutex = Abandoned \/ (user_list_mutex = Main /\ main = "killing")
ShutdownEnds ==
  <>[](main \in {"join", "killing", "freeing", "freed"}) => []<>Waiting \/ <>[]LockedForEver

=============================================================================
