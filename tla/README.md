# Formal models of the ECE361 labs

The repository holds four programs: a text-conferencing system (a server and a
client over TCP, `src/Text_Conferencing_Lab`) and three versions of a file
transfer over UDP (`src/File_Transfer_Lab_Part_I` to `_III`).  The
text-conferencing system is by far the largest and the only concurrent one, so
it was modelled first, then the versions of the file transfer.  File names
below are relative to `src/Text_Conferencing_Lab` unless they start with `Part_`,
which stands for `src/File_Transfer_Lab_Part_`.

## 1. Inventory

| component | state | operations | interacts through |
|---|---|---|---|
| server, `server/server.c` | one thread per connection with `source` and `server_connection_status`; `user_list_mutex`, `rw_mutex`; `thread_count` | one handler per request: LOGIN, CREATE, NEW_SESS, JOIN, LEAVE_SESS, MESSAGE, QUERY, SESS_QUERY, KICK, PROMOTE, EXIT, end of file | the shared user table, the sockets of other users |
| user database, `server/user.c` | an array of entries: status, in_session, session_id, role, socket_fd | add, search, count, exit the session, appoint the last member, list | called by the handlers; `rw_mutex`; `database.txt` |
| server process, `server.c:22-150,546-653` | `thread_count`, `accept_fd`, `terminate`, open descriptors, `database.txt` | read the file, accept, create a thread, append a registration, end after THREAD_CAPACITY connections, SIGINT, crash, start again | threads, the user table, the file |
| client, `client/client.c` | six status flags and a socket, no lock | a main thread that reads commands, a handler thread per connection | TCP; the flags |
| framing, `message/message.c` | none | message to string and back, send, recv | bytes of a TCP stream |
| file transfer III, `Part_III` | sender: fragment number, time-out estimate; receiver: fragment counter, file | send, wait, resend; receive, acknowledge or drop, write | UDP |
| packet and ack formats, `Part_III/packets` (the same in `Part_II`) | none | header fields separated by colons, payload by size | called by file transfer |
| file transfer II, `Part_II` | sender: fragment counter; receiver: fragment counter, file, address of the last sender | send a fragment, wait for a reply, wait for a goodbye; receive, reply, write | UDP |
| file transfer I, `Part_I` | the server's buffer | one word, answered with yes or no | UDP |

What is hard here, and for each component what makes it correct:

* **server**: a handler that does its work under one mutex is atomic, but
  `verify_login` tests `status` without it, `server_side_user_exit` tests
  `in_session` without it, and two functions can return with a mutex held.  It
  is correct when each request changes the table as if it were alone
  (`ImplementsRooms`), sessions are never overfull, the ADMIN role stays in
  sessions, the mutexes are released, and an online user's socket is live.
* **client and server together**: the client decides on its own flags what to
  send, the server trusts it, and both change their records at different times.
  It is correct when their records agree whenever nothing is under way, no user
  stays online without a client, nobody but an ADMIN removes or promotes, and a
  quit always ends.
* **user database**: accounts are "stored and kept permanently": what was
  acknowledged is there after any number of crashes and restarts, nothing is
  stored twice, and a start comes to its end.
* **server process**: every thread serves the connection it was created for,
  although all are handed the address of one variable and the kernel uses
  descriptors again; no socket is lost; the table is freed when nobody uses it;
  an interrupt ends the process, unless something that can be named keeps it.
* **framing**: a message is read as it was sent, whatever comes with it in one
  `recv()`.
* **formats**: what is printed is parsed again, whatever the data hold.
* **file transfer II**: there is no time-out, and nobody looks at a fragment's
  number or at who sent it.  It is correct when the file is whole at the goodbye, a
  sender takes nothing else for the goodbye, and every sender ends unless
  something that can be named keeps it.
* **file transfer I**: every request gets an answer, unless a datagram is lost.
* **file transfer III**: neither side compares fragment numbers, so a datagram that is
  sent twice, or an answer left over, goes to the wrong place unnoticed.  It is
  correct when fragments are stored in order and once, a file is reported as
  sent only when it is stored, and the sender ends.

`PROJECT.json` lists each hazard at its line with the properties that cover it.

## 2. Modules

| module | models |
|---|---|
| `ConferenceRooms` | the abstract service: who is online, in which room, who is an admin; every request is one step |
| `ModeratedRooms` | the abstract service that patient users get: nobody logs in twice, moves without leaving, or removes or appoints others without being the ADMIN |
| `ConferenceServer` | `server.c` with `user.c`, for *any* clients that open a connection with LOGIN or CREATE and send neither later |
| `ConferenceServerProofs` | nine theorems about `ConferenceServer`: its types and invariants, who changes roles and memberships, the bound on sessions, and that it implements `ConferenceRooms` |
| `ConferenceClient` | `client.c`: main thread and handler threads of every client process |
| `Conference` | server and clients together; the clients take the place of the server's environment |
| `ConferenceProofs` | that they are clients as `ConferenceServer` assumes them, so that its theorems hold in the composition |
| `PatientProofs` | what the composition promises to patient users as long as only chat is lost, and that it implements `ModeratedRooms` for them |
| `FileCopy` | the abstract transfer: the receiver's file grows in order and is reported as sent when whole |
| `FileTransfer` | Part III: `deliver.c` and `server.c` with the datagrams between them |
| `FileTransferProofs` | theorems about `FileTransfer` |
| `Accounts` | the abstract user database: accounts are stored at the end, once, and promised after that |
| `UserDatabase` | the table and `database.txt`: reading it, adding, appending, forgetting |
| `ServerProcess` | extends it with `main`, the accept loop, the life of the threads, `KILL_HANDLER`, crashes and restarts; implements `Accounts` |
| `ServerProcessProofs` | the inductive invariants of `ServerProcess` and seven theorems |
| `WireFormat` | what `message.c` and `packet.c` have in common: fields that end with a separator, then data by size |
| `MessageFormat`, `PacketFormat` | the texts of messages and of fragments |
| `WireFormatProofs` | that a text is parsed as it was printed |
| `MessageFraming` | one direction of a TCP connection as a stream of characters that `recv()` cuts anywhere |
| `FramingProofs` | where the messages are in the stream, and that each is read as it was sent |
| `FragmentTransfer` | Part II: any number of senders and one server; extends `PacketFormat` |
| `FragmentProofs` | the inductive invariants of `FragmentTransfer` and three theorems |
| `FtpHandshake` | Part I |
| `MCServer`, `MCConference`, `MCServerProcess`, `MCFileTransfer` | values for TLC |
| `MCPrograms` | values for TLC: the modules of Parts I, II, III and of the framing, extended together, one program per behaviour |

### State and actions of the server

The user table is a set of names (`database`) and one function per field
(`status`, `in_session`, `session_id`, `role`, `socket_fd`).  A connection and
the thread that serves it share a number in `Conn`; this number stands for the
descriptor.  `pc` is the position of a thread: waiting in `recv`, between the
test of `verify_login` and `user_login` (`"login"`), between the tests and the
critical sections of `server_side_user_exit` (`"leave"`, `"offline"`), or closed.

Each handler is one action when its accesses to the table lie in one
`user_list_mutex` section.  Then its replies are sent in that section too.
LOGIN is two actions (`VerifyLogin`, `UserLogin`) and the end of a connection up
to three (`RecvExit` or `Disconnect`, `ExitLeave`, `ExitOffline`), because the
code reads outside the mutex in between.  `rw_mutex` is only taken inside those
sections, for a moment, or alone by the two queries; so it is a guard, and
changes only where a function returns without unlocking.

Messages are records with the fields the receiver looks at.  A password is right
or wrong.  With `Coalesce = TRUE` one `recv()` takes several requests from the
queue, of which `string_to_message` decodes the first and the others are lost.

The clients of `ConferenceServer` may do anything that programs like `client.c` do:
open a connection with a greeting, send any request (a MESSAGE under the name of an
entry), read, close a socket or several at once as a process that ends does.
`ConferenceProofs` proves that `client.c` does nothing else.

### State and actions of the client

Each flag of `client.c` is a function of the process.  The macros OFF, OFFLINE and USER
are all 0, and ON, ONLINE and ADMIN all 1, and the code stores ON in a flag that is
elsewhere set to ONLINE (`client.c:31,487,547,635`); the model writes one name per
value of a flag.  A command is one action:
the tests of `main` and of the command's function (`Allowed`), the flags, the
request.  `FailedConnect` is a login that opens no connection and is counted all the
same.  A logout is two actions, because the handler thread can run between
LEAVE_SESS and EXIT.  `Terminate` is what `/quit`, SIGINT (`Interrupt`, at any
position of `main`) and the forced end of a process that has counted `thread_number`
threads (`OutOfThreads`) have in common; `JoinHandlers` follows the array `thread`,
whose entries may never have been set.  A handler thread has four steps: it picks up its socket
through the pointer it was given (`HandlerStart`: the global may have changed by
then), tests the flags, receives, or finds the connection closed.

`Typed` is the set of commands users give in a run, and `Hasty` those they give
before their last command is settled.  A *patient* user (`Hasty` has at most
`MESSAGE`) waits until every request was handled and every reply read, except that
lines of chat, which have no answer, may be typed at any time.  The distinction is
needed: the client's flags are only as fresh as the last reply, and with hasty
users several properties of the patient runs fail (section 5).

`ChatLossSpec` is `SystemSpec` restricted to steps in which a `recv()` that takes several
messages at once loses none but lines of chat (`OnlyChatLost`).  Neither program
guarantees that: `message.c:75` decodes one message and TCP keeps no boundaries.  It is
a hypothesis about the network, that two requests, or two replies, are not joined on their way,
and section 5 says what happens without it.  The restriction is on the step, so nothing a
program does is taken away: `Coalesce` is TRUE and any line of chat may be swallowed.

### State and actions of the server process

`ConferenceServer` looks at sessions; `ServerProcess` looks at what is below
them.  `main` is the position of `main()`: reading the file, in `accept()`, between
`pthread_create()` and `thread_count++`, in `pthread_join()`, in `KILL_HANDLER`
(which the kernel runs in main's thread), inside `remove_all_users_in_database`
(`"freeing"`), after it.  `Interrupt` may come at every one of these positions, also
while main holds `user_list_mutex` itself.  `descriptor`
says which client an open socket belongs to; `Accept` takes the lowest free
number, as the kernel does, and puts it in the one `accept_fd` whose address every
thread was given; `ThreadStart` reads it.  `PromptThreads` says that a new thread
runs before the next `accept()` returns.  That is not certain, and
`shared_argument` is the run without it.

Every handler that takes `user_list_mutex` waits for it at the position `"lock"`
(`CanLock`), and so does `server_side_user_exit` at `"exit"`, for a thread whose user is
`online`.  What a handler does to the mutex is modelled, what it does to the sessions is not:
it unlocks (`Handle`, `UserLogin`, `UserExit`), keeps the lock for the steps of a
registration, or returns at `server.c:444` with it, when a kick has taken its user out of the
session (`LeaveKicked`, `ExitKicked`).  Then the mutex is `Abandoned`.  That there was
a kick is left to `ConferenceServer`; here any online thread may find itself kicked.

A registration is four steps, since the process may end between any two: the
entry (`UserRegistration`, with `user_list_mutex`), the line in the file or a
failed `fopen()` that nobody is told of (`AppendAccount`), and `RG_ACK`
(`Acknowledge`), then the next request.  `Crash` may happen at any time; memory is
lost and the file stays.  An account is one value for name and password; what
matters of their text is whether `fscanf()` can read it back (`Awkward`), and
whether the file begins with the newline that is written before each line
(`headed`).  `Unlucky` are the accounts whose append may fail.

### State and actions of framing and formats

A text is a sequence of tokens, where a printed number is one token: no property
depends on its digits.  `First` is the loop that looks for a separator, `Take`
the loop that copies by size, `CString` what `strlen()` sees.  `MessageFraming`
sends `strlen()` characters, as `fill_and_send_message` does, so the zero at the
end of a line of chat stays behind; `ReceiveMessage(n)` is a `recv()` that returns
`n` characters, any `n`.  It records what was parsed, the message the buffer began
with, and whether anything followed it there.  Once a `recv()` has ended inside a
message (`torn`) nothing more is recorded.

### State and actions of file transfers II and I

As in Part III, `pc` is the position of each process, here for several senders.
The datagrams are texts of `PacketFormat`, parsed by the server as the code does,
so that a separator in a file's name has its effect.  `disk` holds files as texts
and `WriteAt` is `write()`.  `TakeNext` takes the datagram of anybody, and
`mixed` records that it was another sender's; `TakeStray` is "done" taken for a
fragment.  In Part I the answer (`Answer`) depends on `terminated`: whether the byte
behind the three letters in the server's buffer is zero.  Nothing writes that byte, so it
is chosen once, in the first state.

### State and actions of file transfer III

`pc` and `spc` are the positions of the two processes: the sender at its prompt,
before `sendto`, in the `recvfrom` of the acknowledgement or in that of the
goodbye; the receiver in the outer `recvfrom`, in the one of the `for` loop,
before `write`, before the goodbye.  A fragment is a file and a number.
`written` is at once the loop counter `i` and the position of `fd`, since both
move by one fragment.  The acknowledgement goes out before the datagram is
looked at (`Acknowledge`), and `write` is a step of its own, so the sender may
already send the next fragment.  `rand() > 5` is `ServerDrop` against the three
`Server...` steps that accept.  Acknowledgements have no number because the
sender never reads it.

The first fragment of a file waits one second.  The others wait as long as was
computed from the processor time of earlier `recvfrom` calls, and this may be
truncated to zero, which `SO_RCVTIMEO` takes for no time-out: `timeout` is
"second", "computed" or "none".

## 3. Runs

| run | instance | result |
|---|---|---|
| `server` | 2 connections, 1 user and 1 free name, 2 sessions (symmetric), 2 messages in flight, coalescing; every request but chat | types, membership, rw_mutex, ADMINs are in sessions whatever kicks, promotions and leaves cross, who loses a role and who is removed; the server implements `ConferenceRooms`: 1.12 million states |
| `server3` | 3 users (symmetric), 3 connections, 1 session of at most 2; users log in, gather, chat and go | the bound on a session, and that the socket of an online user is served: 1.09 million states |
| `patient` | 2 clients, 3 connections, 2 sessions (symmetric); registration, promotion, logout, reconnection, quit, and chat at any time, which a `recv()` may lose (`ChatLossSpec`) | flags of both sides agree; no ghost users; the mutex is released; the clients keep to the environment of `ConferenceServer` (property `Spec`); the whole implements `ModeratedRooms`: 229,000 states |
| `quit` | 2 clients of 2 threads each, 2 connections, fair threads; logins that fail to connect, SIGINT, the forced end | every process that has to end does, every request is handled, a handler thread reads the socket of its own login, and only one kind of EXIT can bring the server down: 67,000 states |
| `kick` | 3 clients in 1 session, kick and promote, symmetric | one ADMIN, only it acts, a sole member is ADMIN; flags agree: 295,000 states |
| `process` | 2 threads, a table of 2, 3 accounts (one that `fscanf()` cannot read back, one whose append may fail), 2 starts, an empty file or one with an account, leaves that keep the mutex, crashes and SIGINT anywhere | no account that was acknowledged is lost and none is stored twice (implements `Accounts`); every thread has its own client; the table is freed when unused; what keeps a start or a shutdown from ending is named: 221,000 states |
| `transfer` | `MCPrograms`: one program per behaviour, see below | 34,400 states |
| `leaked_mutex` | 2 clients, kick against leave | **violated**: `server.c:444` |
| `two_promotions` | 3 clients, hasty `/promote` | **violated**: no test of the sender's role in `server.c:725-776` |
| `double_login` | 2 processes, 1 account | **violated**: `server.c:346` |
| `shared_argument` | 2 threads, and a second `accept()` before the first thread ran | **violated**: `server.c:133,146` |
| `early_timeout` | 1 transfer, a time-out may expire before the answer comes | **violated**: `Part_III/deliver/deliver.c:195` |

The four programs of `transfer` share no variable.  The first state picks one, and
the others stay in their first states, in which no step but a user's is enabled,
so that fairness asks nothing of them:

* Part III: three transfers of files of 0, 1 and 3 fragments, time-outs after
  losses only, a receiver that may fail.  Fragments are stored in order and once,
  answers stay in step, `FileCopy` is implemented, and a transfer hangs only in
  the ways `Hangs` names.
* Part II: two senders, up to three transfers of four files with fragments of two
  characters: one of two fragments, a shorter one of the same name, one whose name
  has a separator, one without a fragment.  Any datagram may be lost, `open()` or
  `write()` may fail.  At the goodbye the file is stored as it was sent
  (`StoredWhenGoodbye`), no other answer is taken for the goodbye
  (`AnswersInTime`), every sender ends (`EverySenderEnds`).  The properties name
  what excuses a program: a lost datagram, a fragment of another sender, a name
  with a separator, a longer file under the same name, no fragment at all.
* Part I: two clients and a lost datagram; the byte behind the letters is zero or
  not.  A client that asked gets an answer and ends, unless a datagram was lost
  (`HandshakeEnds`).
* framing: up to three messages on their way out of four: a line of chat,
  `/joinsession`, `/list`, and a user name with a separator.  A `recv()` returns any
  number of characters up to the size of the buffer (`ReadAsSent`).

**Bounds.**  `THREAD_CAPACITY` bounds the connections in the life of the server
(10 in the code): 2 or 3 give every pair or triple of threads, and one more
connection than clients gives a reconnection.  Sessions of at most two users
with three users make the full session; two sessions make the move between
sessions.  `MaxInFlight` bounds the unread messages when a request is sent.  It
stops clients from sending, never the server from answering.  A patient user has at
most LEAVE_SESS and EXIT on the way besides chat; the bound is 2 in `patient`, so that a
line of chat may follow another request or cross what the other user does, 4 in `kick`,
which has no chat and leaves room for three users, and 6 in `quit`.  The proofs of what
these runs check have no bound.  `Traffic` is the
set of messages clients send.  `server` leaves out chat, which changes no entry;
`server3` has it, and leaves out what `server` has: wrong passwords, registration, the
two lists, kicks and promotions.  Its two properties are about what grows a session and
what gives out a socket, which none of these does.  `AdminInSession` is about kicks and
promotions, so `server` checks it.  `kick` has no line of chat, so that a `recv()` that may lose only
chat loses nothing there; it is `Coalesce = FALSE` for that reason.
`thread_number` (10 in the code) is 2 in `quit`, so that a process uses up its
threads; in `patient` it is 4, which no process reaches, and elsewhere 3.  `MAX_USER_COUNT` equal to the number of names makes a registration
fail only when the name is taken; the server run, with one entry and two names,
has both.

In `process` two threads use one descriptor each and the second may get the first
one's back.  The third account finds the table of two full, or is stored in place of one whose
append failed; a third thread would add
nothing that the second does not; two starts give a file written by one
life of the server and read by the next, and the proofs have no bound.

In Part II three transfers are one whole transfer of each of two senders and a third that meets
what both left; the proofs of `AnswersInTime` and `StoredWhenGoodbye` have no bound.
Messages on their way up to three: the one that is read, one that is joined to it, and
one that is cut; their proof has no bound either.  The buffer of 20 characters holds
any two of the four messages, three of the shortest, and cuts three long ones.

In Part III one datagram is on its way at a time as long as no time-out
is early, so `MaxInFlight` = 3 never binds in `transfer`.  Three fragments are a
first, a middle and a last; a second and third transfer meet what the first left.

**Symmetry** is over users (with their process, in the composition) or over sessions,
never with a liveness property.

**Deadlock** is not checked: the server stops when its connections are used up,
and a client when it has quit.  That a step is not missing where one is due is
what `QuitEnds` and `Answered` check.

**Fairness.**  `FairSpec` assumes weak fairness of each server thread, each
handler thread, and each main thread except for reading commands: the operating
system schedules threads and TCP delivers what was sent.  Users may stop typing.
`recv()` returns one message at a time in the `quit` run.  With coalescing of requests
`QuitEnds` fails: `logout` sends LEAVE_SESS and EXIT back to back, one `recv()`
may take both, EXIT is lost and `terminate_program` joins a handler thread that
never ends.  In the file transfers both processes run, datagrams that wait are
received, and in Part III `rand()`, asked again and again, does not answer 1 to 5
for ever (strong fairness of acceptance).  In `process` main and the threads are
scheduled; no client has to connect, to write or to close, and nobody has to
start or to interrupt the server.  That is why `StartEnds` and `ShutdownEnds` say
"if it stays in this step for ever, then for this reason": for a shutdown, a joined thread
that waits for its client again and again (`Waiting`), or `user_list_mutex` locked for ever
(`LockedForEver`).

## 4. Proofs

`ConferenceServerProofs` proves, for every set of users and sessions, every
number of connections, every capacity, every traffic of the clients, with and
without coalescing:

* `TypeCorrect`: `Spec => []TypeOK`
* `MembershipAlwaysAgrees`: `Spec => []MembershipAgrees`
* `RwMutexAlwaysReleased`: `Spec => []RwMutexReleased`
* `AdminAlwaysInSession`: `Spec => []AdminInSession`

* `RoleGivenUpByItsHolder`: `Spec => AdminGivesUpRole`
* `RemovalAlwaysLocal`: `Spec => RemovalIsLocal`
* `OnlineSocketAlwaysServed`: `Spec => []OnlineSocketServed`
* `SessionNeverOverfull`: `Spec => []SessionNotOverfull`
* `ServerImplementsRooms`: `Spec => ImplementsRooms`

The only assumption is `ServerAssumption` (`ConferenceServer`): the sets and
bounds have their types, the users are a finite set, and no session is called
`NOT_IN_SESSION`.  The last holds because that string contains blanks, at which
the client splits its input.

None of the second to the fourth is inductive alone.  A leave keeps `rw_mutex` exactly if
`in_session` is ONLINE and `session_id` names no session, so `RwMutexReleased`
needs `MembershipAgrees`.  The user a leave appoints ADMIN is found by
`session_id`, so `AdminInSession` needs it too.  And a thread may only touch
entries that exist, which `Registered` says.  The invariant `Inv` is the
conjunction of the four with `TypeOK`; there is one lemma per action, `SpecInv`
combines them, and the theorems are its parts.

`AdminGivesUpRole` and `RemovalIsLocal` say whose thread made a step.  A thread is
seen to act when it takes a request from its queue or moves (`Acts`):
`ReceiveShortens` says that a `recv()` always changes the queue, and
`RoleAndMembershipSteps` goes through the handlers that write a role or a
membership.

`OnlineSocketServed` needs that a thread which serves a user never reads a second
LOGIN or CREATE, since that would give its `source` to another user and leave the
first one's entry behind.  Clients send a greeting first and never later, but a
thread does not test it; `GreetsOnce` says it of the queues: only the first
message of a thread without a user can be a greeting.

`session_join` compares the count with `MAX_SESSION_USER` for equality only, so
the bound holds only if no step lets a session grow by two.  `HandlerMoves`
shows that a handler's step leaves every `session_id`, or takes one user out, or
brings one user into a session whose count is not the maximum; `OverfullStep`
turns this into cardinalities.  The users are finite for the same reason.

The refinement has one lemma per request: the step of the handler is a step of
`ConferenceRooms` or changes none of its variables.  It needs more than `Inv`.
The abstract `Join` demands a count *below* the maximum, where the code tests for
equality: `SessionNotOverfull` closes that gap.  The abstract `Leave` and
`Remove` look at `room` where the code looks at `in_session`:
`MembershipAgrees`.  The abstract rooms count all users, the code only entries
of the table: `MembersAreUsers` shows that only those have a session.

`ConferenceProofs` proves of the composition, if `Traffic` leaves out no message:

* `ClientsKeepToServer`: `SystemSpec => Spec`
* `ServerTheoremsHold`: `SystemSpec` implies `SessionNotOverfull`, `AdminInSession`,
  `OnlineSocketServed` at all times, and `ImplementsRooms`

for any processes, accounts and commands, and users as hasty as they like.  So the
environment of `ConferenceServer` leaves out nothing that `client.c` does.  Each step of a
process is one that the environment may take, or changes nothing the server sees:
a request sent to a closed connection is lost (`SendToMaps`), and a process that
ends closes those of its sockets that are still open, at once (`ClosesMaps`).
`SystemInv` has what this needs besides the server's `Inv` and the types: an
acknowledgement on its way, and so the `name` flag, which goes into every MESSAGE,
is that of an entry (`NamesKnown`, for which `HandlerReplies` goes through what
every handler sends); nobody closes a socket that was not opened
(`SocketsOpened`).

`PatientProofs` proves what the composition promises to *patient* users (`Patient`):
nobody types a command other than chat before everything is settled
(`Hasty \subseteq {"MESSAGE"}`), and no two processes share an account.  Two more hypotheses are
not about users, and stand in each theorem: a `recv()` that takes several messages loses
only lines of chat (`ChatLossSpec`, with `Coalesce` TRUE or FALSE), and no process has counted
`thread_number` threads so far (`ThreadsLeft`): one that has ends by itself, without waiting
for anything, which is how the `quit` run brings the server down.  For any users, sessions,
processes, accounts, commands (kicks, promotions, SIGINT and failed connects included) and bounds,
`ChatLossSpec => [](ThreadsLeft => P)` for these invariants P:

* `PatientFlagsAgree`: `FlagsAgree`
* `PatientReadsItsSocket`: `ReadsItsSocket`
* `PatientNoGhosts`: `NoGhostUsers`
* `PatientOneAdmin`: `OneAdmin`
* `PatientSoleMembers`: `SoleMemberIsAdmin`
* `PatientMutexReleased`: `UserListMutexReleased`, if nobody kicks

`ChatLossSpec /\ []ThreadsLeft => P` for these properties of steps:

* `PatientImplementsModerated`: `ImplementsModerated`
* `PatientAdminActs`: `AdminActs`
* `PatientNoSilentMove`: `NoSilentMove` (no run checks it by itself, since
  `ModeratedRooms` has no such step)

and, without `ThreadsLeft`:

* `PatientCrashNeedsThreads`: if the server has used a user that is not found, some
  process has counted `thread_number` threads.  So this is the one way in which a patient user brings
  the server down, as long as only chat is lost.

Section 5 says what fails when one of these hypotheses is dropped: `two_promotions` and its
last two paragraphs (hasty users, a request lost in a `recv()`), `double_login` (a shared
account) and `quit` (no thread left).  `ThreadsCounted` shows that a process never has a thread left again
once it has none, so that the invariant need only be kept while all have.  The properties hold of quiet states only, or of the server only, so none
is inductive.  `PatientInv` describes each connection together with its process as a
conversation (`Conversation`): asking to be let in (`Asking`: the greeting waits, is
being tested, or its answer is on its way), logged in (`Within`), logged out or refused
(`Without`), or left behind (`Dead`).  What waits to be read there is nothing, or one request with lines of chat behind it
(`Queued`); chat changes no entry, and none is sent behind a leave, since the client shows no
session then.  A `recv()` takes a prefix of it, of which all but the first message is chat (`Reads`), so it takes
one request (`ReceiveLeaves`).  Inside `Within`, `InStep` relates the flag that the client
shows to the server's entry through the replies on their way: `WillShow(q, s, v)` says that a
client that shows s will show v when it has read q.  `ShowAppend` and `ShowRead`
(`RankAppend` and `RankRead` for the role) say that sending and reading keep this.  A kick or
a promotion changes the entry of a user whose own thread does nothing; `Beside` says of
every other connection that its entry is unchanged or the change is on its way
(`Overhears`), and `Meant` that a request which waits is one that the server may obey without
the test it does not make.  There is one lemma per action: for the handlers what
they do to the connections beside (`...Beside`) and to their own (`...Own`), for the main thread
and the handler threads of a process `CurrentKeeps`, for those that open or close
connections `ApartKeeps`.

The theorems about the sessions use `LawfulStep`: given `PatientInv`, each step opens a
session without moving anybody (`Opens`), enters one that has a member (`Enters`), parts from
one, or is a kick or a promotion by its ADMIN.  `Ruled` is kept by these steps, and each of them is a step of `ModeratedRooms` or changes
nothing it shows.  The abstract steps have guards that the server does not test: a login
needs a user who is not online, entering and opening a session one who is in none, a
removal and an appointment an ADMIN.  The clients test most of them, on flags that may be
old; the proof is that with patient users they are never old where it matters.  For the
mutex, `Steady` says that a user whose leave is pending is in a session; only
a kick can break it.

`FileTransferProofs` proves for any files, any number of fragments and any number
of transfers, with `TransferAssumption` (types of the constants), however early a
time-out expires:

* `TransferTypes`: `Spec => []TypeOK`
* `NeverTooLong`: `Spec => []` no stored file is longer than the one that is sent

and with `TimerExact` as a hypothesis:

* `AlwaysFits`: `Spec => []OnlyWhatFits`
* `AnswersAlwaysMatch`: `Spec => []AnswersMatch`
* `TransferImplementsCopy`: `Spec => CopiesFaithfully`
* `SentAlwaysStored`: a file that the sender reports as sent is stored whole
* `GoodbyeComes`: a sender in the wait for the goodbye, the one wait without a time-out,
  has it on its way, or the receiver has the last fragment to write or the goodbye to
  send, unless it `Hangs`; this is the same part of `TransferEnds`

The invariant `Phase` says, for each position of the sender, where the receiver
is and which datagrams are on their way; `Prefixes` that the files are stored
from their beginning in order; `Position` that the fragments before the position
of `fd` are stored already, which is what makes writing an old file again
harmless.  `Written` is the lemma about one `write`.  The hypothesis
`TimerExact` is used in one place, `TimeoutPhase`; `early_timeout` shows that
without it a file may be reported as sent that is not stored.  For `TransferTypes` and
`NeverTooLong` the invariant `Counted` suffices: the
receiver counts what it writes, and stops at the number of fragments.

`ServerProcessProofs` proves, for any accounts, thread capacity, number of starts,
and any file before the first one, with `DatabaseAssumption` and
`ProcessAssumption` (types; a file written by hand names nobody twice):

* `ProcessTypes`: `Spec => []TypeOK`
* `AcknowledgedAlwaysThere`: `Spec => []AcknowledgedCanLogIn`
* `TableAlwaysMirrorsFile`: `Spec => []TableMirrorsFile`
* `AccountsArePermanent`: `Spec => KeepsAccounts`
* `FreedAlwaysUnused`: `Spec => []FreedUnused`
* `ThreadsServeTheirClients`: `PromptThreads` implies `Spec => []OwnClient`
* `SocketNeverLost`: `PromptThreads` implies `Spec => []NoSocketLost`

`ProcessTypes` and the next three rest on `DataInv`: while a thread is in `write_to_database` it
holds the mutex and its account is the last of the table and not yet in the file
(`Registering`); while the file is read the table is its beginning, and when the
server serves every account of the file is in the table (`Filled`), which is why
the test for a known account suffices to store nothing twice; acknowledged
accounts are in the file (`Kept`).  The last two need `Created`: a thread that
has not run yet finds its own descriptor in `accept_fd`.  That is where
`PromptThreads` is used, and `shared_argument` shows that it is needed.

`WireFormatProofs` proves, for texts over any characters that contain the separator
and the numbers:

* `MessageRoundTrip`: `string_to_message` returns what `message_to_string` printed,
  whatever the data hold and whatever follows in the buffer, if the source has no
  separator
* `PacketRoundTrip`: the same of `buffer_to_packet` and `convert_to_string`

from lemmas about where the separators of two and three leading numbers are.

`FramingProofs` proves, for a stream of any number of messages that `recv()` cuts
anywhere:

* `AlwaysReadAsSent`: `Sends(S)` implies `FramingSpec => []ReadAsSent`

`Sends(S)` says of the messages only that `fill_message` made them, of C strings,
except that a line of chat may have zeros that `strtok()` put there, and that they are
texts over some S that contains the numbers and the three characters with a meaning.
The positions of the messages are not a function that the code computes, so the
invariant `InOrder` says that there is one: as long as no `recv()` has ended inside a
message, some `at` tells where each message ends (`Laid`), and the text of each lies
between two of these positions.  `SentLaid` and `ReadLaid` say how `at` changes with a
`send()` and with a `recv()` that ends where a message does; `Counted` that the number
of ends in the buffer is the number of messages taken from it.  `ReadBack` is about
one buffer: if it begins with the text of a message it is read as that message, but for
the last character of a line of chat (`LineRead`), whose zero was not sent and which is
another message's first character exactly if the buffer goes on.

`FragmentProofs` proves, for any senders and any files whose names and contents are
texts (`Texts`):

* `AnswersAlwaysInTime`: `DeliverySpec => []AnswersInTime`
* `AlwaysStoredAtGoodbye`: `DeliverySpec => []StoredWhenGoodbye`, if `NoUpload` is no file
* `NobodyStranded`: `DeliverySpec => []` a sender that has a file and is not `Excused` has a
  fragment to send, a datagram or an answer on its way, or the server has its last
  fragment to write or its goodbye to send

For the first, `Phase` says, for each step
of a sender, what is on its way from and to it and where the server is; `Queue`
that a sender has at most one datagram on its way.  `Gone`, `Took`, `Awaits` relate
the counters of the two loops: a sender in fragment i meets a server that has
taken i or i - 1, which is what `deliver.c` relies on when it counts replies
without reading them.  That the server's count comes from the text of the first
fragment is `FragmentText`, with the lemmas of `WireFormatProofs`.

For the second, `Full` says of the sender that the server serves, for a file whose
name has no separator, that the position of the descriptor is the length of the
fragments taken so far (`Upto`), that the file on the disk begins with this much of
the contents, and that nothing longer was there (`Fits`).
`FragmentRead` says that the server reads the fragment as it was cut
(a round trip through the text), `OverwriteText` what one `write()`
makes of the file, `Division` and `Room` that the fragments add up to the contents.
`HeadAwaited` uses `Phase`: the fragment at the head of the queue is the one that comes
next in the file, although no number is compared.

`NobodyStranded` is the part of the liveness property `EverySenderEnds` that does not
depend on fairness: `deliver.c` has no time-out here, so a sender that waits while nothing
is on its way waits for ever.  `Expecting` says what a sender in each wait may still
hope for, and `Excused` names, as in the liveness property, what may take it away.

Only model-checked: the violations and every liveness property, since the proof
system does not handle fairness and ENABLED, and `NoNullDereference`, which `quit` checks of processes that
run out of threads.  The theorem `PatientCrashNeedsThreads` says that the server
crashes in no other case, and not what that case looks like.  Every other invariant and action property of a
passing run is a theorem, and `MCPrograms` checks those of the modules it extends under
their own names.

## 5. What the models show about the code

Five runs end in a violation, each of a sentence in the repository:

* `leaked_mutex`.  A kick takes effect while the target's `/leavesession` (or
  the leave inside `/logout`) is on its way.  `server_side_session_leave` then
  returns at `server.c:444` without unlocking, although its comment
  (`server.c:436-439`) says "we just return".  No later handler gets the mutex.
* `two_promotions`.  `README.txt:42-43` says a promotion fails if "the request
  sender is not an admin".  The server never looks at the sender's role; the
  client looks at its own flag, which the reply to the previous promotion has
  not reset yet.
* `double_login`.  `server.c:334` says `verify_login` "returns ALREADY_LOGIN if
  user is already logged in"; two connections that pass the test before either
  takes the mutex are both logged in.
* `shared_argument`.  `server.c:141-142` says "each thread will be responsible for
  one client".  All threads get the address of the same `accept_fd`
  (`server.c:133`) and read it when they first run (`server.c:146`); after a quick second
  `accept()` two threads read the second client's socket, and nobody serves the
  first client.
* `early_timeout`.  `deliver.c:195` computes the time-out from `clock()`, which
  does not run while the process waits.  It is a few microseconds, which the
  kernel rounds up to a tick: less than the round trip of many networks.  When it
  expires early, `deliver.c:164` says "Assume packet %d has been lost!" of a packet
  that was not; the server writes it twice, counts it twice, and ends one fragment
  early; `deliver.c:224` says "was sent successfully!".

The `transfer` run shows the ways a transfer hangs even with exact time-outs
(`Hangs`): the receiver exited on a failed `open` or `write`; the file is empty,
so nothing is sent and the goodbye never comes; or a fragment was dropped while
the computed time-out was zero.

The `process` run and its proofs show, besides:

* `StartEnds` has to excuse two files.  A quote or a bar in a name or password is
  written as it is and never read back, and an empty `database.txt` gets a newline
  before its first line; in both cases the next start goes round the loop at
  `server.c:560` for ever, since `fscanf()` consumes nothing.
* `FreedUnused` has to excuse two threads.  One was created and not yet counted
  (`server.c:133-134`) when SIGINT came: it is not joined.  The other is the one that main was
  joining (`server.c:117-119`) when SIGINT came: a second `pthread_join` of it
  (`server.c:26`) returns at once.  Both go on to use the freed table.
* `ShutdownEnds` has to excuse two ways to hang.  A leave that crosses a kick
  returns with `user_list_mutex` locked (`server.c:444`); threads that wait for it are joined, and
  `remove_all_users_in_database` waits for it too (`user.c:84`).  And a SIGINT that falls
  inside main's own `remove_all_users_in_database` (`server.c:137`) runs the handler on
  the thread that holds the mutex, and locks it again.
* A SIGINT after that call and before the process ends makes the handler free a table
  that is freed already, since nothing resets `user_list` (`server.c:28-29`); `Crash`
  stands for the outcome.
* An account whose append failed is acknowledged and gone after a restart
  (`server.c:645-648` reports it to nobody but the terminal).
* A process serves `THREAD_CAPACITY` (10) connections in its life and then waits
  for the threads to end, since `thread_count` never decreases.
* A shutdown waits for every client to write or to close.

The `transfer` run shows of the other programs:

* Part II: after one lost datagram the transfer hangs, and the next one is taken for its
  rest; the fragments of two senders at once go to one file, and one of them waits
  for ever; a name with a separator is cut at it; a shorter file keeps the end
  of the longer one that had its name, since `open()` does not truncate; for a file without a fragment
  `deliver.c:136` tests a variable that nothing has set.
* Part I: the answer depends on a byte of the server's stack.  Either every client is told
  "yes" or none.  `ftp[3]` has no room for the zero that `scanf()` writes behind it.
* Framing: when another message follows a line of chat in one `recv()`, the last
  character of the line is that message's first.  The server puts the zero back
  when it passes the line on; a client prints the character.

The `quit` run shows of processes that end:

* A process may have to end while its login is unanswered: because
  `client.c:224` ends it right after the login that uses up the last thread, which is in
  the run, or by SIGINT at that moment, which is not.  It then sends
  EXIT behind its LOGIN.  If the login is refused, `server.c:236` calls
  `server_side_user_exit` with a name that nothing wrote: the server uses a NULL
  user and ends for everybody (`NoNullDereference` excuses this EXIT and no other
  request), or, when the thread's stack still holds the name of a user whose thread has
  ended, logs that user out of a later connection (`FlagsAgree` fails in the patient
  run if SIGINT is added to what its users do hastily).
* A login that fails to connect makes the quit of that process crash in
  `pthread_join` (`QuitEnds` excuses it).

With hasty users other properties of the patient run fail too.  They are listed
here because the patient runs depend on it: two `/createsession` in a row move
the user without leaving the first session (`NoSilentMove`; `server.c:381` tests
only the count), two `/joinsession` in a row leave the client showing no session
(`FlagsAgree`; `client.c:124-128`), a kick sent just after a promotion leaves a
sole member who is not ADMIN (`SoleMemberIsAdmin`), and a `/joinsession` typed
before a refused login is answered makes the server use a NULL user
(`NoNullDereference`; `server.c:404-410`).

Under `SystemSpec` instead of `ChatLossSpec` the patient run reaches a user whom nobody has
logged in (`NoGhostUsers`): a logout sends LEAVE_SESS and EXIT one behind the other
(`client.c:557-567`), one `recv()` of the server takes both, and the EXIT is lost.

## 6. Not modelled, and simplified

* `print_*`, the text of replies and of lists, IP addresses and ports, memory.
* `send()` to a client that has closed is lost in the model.  In the code a
  second send to a reset connection raises SIGPIPE, which ends the server.
* The `LO_ACK` of `user_login` is sent after the mutex is released; the model
  sends it in the same step, so a chat message cannot precede it.  The client
  treats the two in either order alike.
* A descriptor number is used again after `close`.  In `ConferenceServer`
  connections are never reused; there `OnlineSocketServed` shows that an entry of an
  online user never keeps the descriptor of an ended thread.  `ServerProcess` has
  the reuse, and its `OwnClient` shows that threads are not confused by it.
* A connection reset that destroys requests which have arrived: in
  `ConferenceServer` clients may send or not send any request, so this is as if
  they had not been sent.
* A request type the server does not know is echoed (`server.c:306-323`);
  `client.c` sends none.
* What the code does after undefined behaviour: the use of the freed table (that it
  can happen is in `FreedUnused`), an entry behind the 16 that `user.c:5` has room for
  (`Crash` stands for its outcome), a character behind the received part of a
  message (`ReadAsSent` is about the time before a `recv()` ends inside one), a
  line of chat longer than the buffers.  A number that a `recv()` cuts is one token in
  the model.
* `ServerProcess` delivers SIGINT to main, as Linux does unless main blocks it.  A
  second SIGINT during the handler is not modelled, nor `getaddrinfo`, `bind`
  and `listen`.  A `pthread_join` of a thread that was joined returns at once, and so
  does a second one while the first waits; POSIX leaves both undefined.  A `send()` that blocks
  while its handler holds `user_list_mutex` (a client that never reads) is not modelled.
* `Unlucky` bounds the accounts whose append may fail to one; the proofs have any.
* `ReadsItsSocket` is about patient users.  For a hasty one, who types a second `/login`
  before the first is answered, it fails: the process has two handler threads then, and sends on the
  second's socket.
* A descriptor number of a client that is used again: a handler thread that has not
  picked up its socket when a second `connect()` fails finds a closed one
  (`HandlerStart`), and the model does not let a third `connect()` give it a new meaning.
  `pthread_join` of an entry that was never set ends the process, as glibc's does; the
  second join in `sig_kill_handler` of a thread that main already waits for, or has
  joined, returns at once.
* Reading and splitting the input line, in every program.
* Acknowledgements of Part III have no content, because the sender reads none;
  `buffer_to_ack` is never called.
* File transfer III: datagrams lost or reordered by the network (an
  acknowledgement that is lost has the effect of an early time-out), two senders at
  once and files stored twice under one name (both are in `FragmentTransfer`, whose
  server has the same loop), a sender that exits
  on an error of its own.  The "done" message may be dropped, and then the
  receiver runs on; this is in the model, but nothing promises otherwise.  With
  early time-outs "done" or the fragment of another file can reach the `for`
  loop; the model takes the fragment and stops at "done", which `server.c:118`
  would parse past its end.
* File transfer II: "done" in the `for` loop is parsed past its end; the model writes
  nothing or what the buffer still holds, and claims nothing after that
  (`mixed`).  Failures of the socket calls and of `read()`, after which a program
  exits.

## 7. Plan

Done, in this order:

1. `ConferenceRooms`, `ConferenceServer`, `MCServer`: the server, its abstract
   specification, and the refinement between them.
2. `ConferenceClient`, `Conference`, `MCConference`: the client and the whole.
3. `ConferenceServerProofs`: types, the first invariants, the bound on sessions,
   the refinement.
4. `FileCopy`, `FileTransfer`, `FileTransferProofs`: Part III, its abstract
   specification and the refinement.
5. `Accounts`, `UserDatabase`, `ServerProcess`, `ServerProcessProofs`: the process,
   the file, crashes and restarts.
6. `WireFormat`, `MessageFormat`, `PacketFormat`, `MessageFraming` and their proofs.
7. `FragmentTransfer`, `FtpHandshake` and their proofs.
8. The action properties and `OnlineSocketServed` of `ConferenceServer`, and
   `StoredWhenGoodbye` of `FragmentTransfer`, as theorems.
9. `ConferenceProofs`: the composition keeps to the environment of the server.
10. `PatientProofs`: what the composition promises to patient users.

11. `ModeratedRooms` and the refinement for patient users; `ReadAsSent`,
    `SocketNeverLost`, and what holds of Part III however early its time-outs are.
12. `NobodyStranded` and `GoodbyeComes`: what of the liveness of the file transfers does
    not depend on fairness.
13. The theorems of `PatientProofs` for users who chat while a reply is on its way.
14. In `ServerProcess` what requests do to `user_list_mutex`, and SIGINT at every
    position of main; in `PatientProofs` a `recv()` that may lose chat, and the
    hypotheses in each theorem.

Left:

15. The width of the numbers and what lies behind a part of a message in
    `MessageFraming`, if a choice of outcomes can be justified from the build.
