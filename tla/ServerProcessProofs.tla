------------------------- MODULE ServerProcessProofs -------------------------
(***************************************************************************)
(* Proofs about ServerProcess, for every set of accounts, every file a     *)
(* server may find at its first start, any number of threads and starts.   *)
(***************************************************************************)
EXTENDS ServerProcess, TLAPS

-----------------------------------------------------------------------------
(* The inductive invariant.  What a thread may assume about the table, the *)
(* file and the mutex depends on where main and the other threads are.     *)

\* Where main is, and the threads there can be.
Life ==
  /\ main \in {"down", "load"} =>
       thread_count = 0 /\ \A t \in Thread : tpc[t] = "none"
  /\ main \in {"accept", "count"} => thread_count < THREAD_CAPACITY
  /\ main \in {"accept", "join"} => \A t \in Thread : t > thread_count => tpc[t] = "none"
  /\ \A t \in Thread : t > thread_count + 1 => tpc[t] = "none"
  /\ main = "killing" => terminate
  /\ main = "freeing" => user_list_mutex = Main
  /\ user_list_mutex = Main => main \in {"freeing", "killing"}
  /\ ~ terminate => skipped = Free
  /\ terminate => main \in {"killing", "freeing", "freed"}

\* A registration under way.
Registering ==
  /\ \A t \in Thread : tpc[t] = "append" =>
       /\ user_list_mutex = t
       /\ Len(table) > 0 /\ table[Len(table)] = account[t]
       /\ account[t] \in Account /\ ~ Listed(account[t], file)
  /\ user_list_mutex \in Thread => tpc[user_list_mutex] = "append"
  /\ \A t \in Thread : tpc[t] = "ack" =>
       account[t] \in Account /\ (Listed(account[t], file) \/ account[t] \in unsaved)

\* The table is read line by line, and holds the file before any thread runs.
Active == main \in {"accept", "count", "join"} \/ \E t \in Thread : tpc[t] # "none"
Filled ==
  /\ main = "down" => table = <<>>
  /\ main = "load" =>
       /\ Len(table) <= Len(file)
       /\ \A k \in 1..Len(table) : table[k] = file[k]
  /\ Active => \A k \in 1..Len(file) : Listed(file[k], table)

Kept == \A a \in acknowledged \ unsaved : Listed(a, file)

DataInv == TypeOK /\ Life /\ Registering /\ Filled /\ Kept

\* The values of user_list_mutex that are no thread.
LEMMA Holders ==
  /\ Free \notin Thread /\ Main \notin Thread /\ Abandoned \notin Thread
  /\ Main # Free /\ Abandoned # Free /\ Main # Abandoned
BY ProcessAssumption DEF Free, Main, Abandoned, Thread

-----------------------------------------------------------------------------
(* Types.                                                                  *)

\* The initial values have their types.
LEMMA TypeInit == Init => TypeOK
<1> SUFFICES ASSUME Init PROVE TypeOK
  OBVIOUS
<1>1. file \in Seq(Account)
  BY ProcessAssumption DEF Init
<1>2. main = "down" /\ table \in Seq(Account) /\ thread_count \in 0..THREAD_CAPACITY /\ starts \in 0..MaxStarts
  BY ProcessAssumption DEF Init
<1>3. /\ peer \in [Thread -> {"none", "open", "closed"}] /\ fd \in [Thread -> Descriptor \cup {Free}]
      /\ tpc \in [Thread -> {"none", "created", "recv", "lock", "append", "ack", "exit", "close", "done"}]
      /\ account \in [Thread -> Account \cup {Free}] /\ online \in SUBSET Thread
      /\ descriptor \in [Descriptor -> Thread \cup {Free}]
  BY DEF Init, NoThreads
<1> QED BY <1>1, <1>2, <1>3 DEF Init, TypeOK

\* Table and file stay sequences of accounts.
LEMMA AddUserType ==
  ASSUME TypeOK, NEW a \in Account, AddUser(a)
  PROVE  table' \in Seq(Account)
BY DEF TypeOK, AddUser

LEMMA WriteType ==
  ASSUME TypeOK, Len(table) > 0, WriteToDatabase
  PROVE  /\ file' \in Seq(Account) /\ headed' \in BOOLEAN
         /\ unsaved' \in SUBSET Account /\ table' = table
<1>1. table[Len(table)] \in Account
  BY DEF TypeOK
<1>2. CASE UNCHANGED <<file, headed, table>> /\ unsaved' = unsaved \cup {table[Len(table)]}
  BY <1>1, <1>2 DEF TypeOK
<1>3. CASE /\ file' = Append(file, table[Len(table)]) /\ headed' = (headed \/ file = <<>>)
           /\ UNCHANGED <<table, unsaved>>
  <2>1. file' \in Seq(Account)
    BY <1>1, <1>3 DEF TypeOK
  <2>2. headed' \in BOOLEAN
    BY <1>3 DEF TypeOK
  <2> QED BY <1>3, <2>1, <2>2 DEF TypeOK
<1> QED BY <1>2, <1>3 DEF WriteToDatabase

\* A process that has ended leaves well-typed variables behind.
LEMMA EndType ==
  ASSUME TypeOK, EndProcess
  PROVE  TypeOK'
<1>0. table' \in Seq(Account)
  BY DEF EndProcess, Forget
<1>1. main' = "down" /\ terminate' = FALSE /\ thread_count' \in 0..THREAD_CAPACITY
  BY ProcessAssumption DEF EndProcess
<1>2. /\ peer' \in [Thread -> {"none", "open", "closed"}] /\ fd' \in [Thread -> Descriptor \cup {Free}]
      /\ tpc' \in [Thread -> {"none", "created", "recv", "lock", "append", "ack", "exit", "close", "done"}]
      /\ account' \in [Thread -> Account \cup {Free}] /\ online' \in SUBSET Thread
      /\ descriptor' \in [Descriptor -> Thread \cup {Free}]
  BY DEF EndProcess, NoThreads
<1>3. UNCHANGED <<file, headed, unsaved, acknowledged, starts>> /\ accept_fd' = Free /\ skipped' = Free
      /\ user_list_mutex' = Free
  BY DEF EndProcess, Forget
<1> QED BY <1>0, <1>1, <1>2, <1>3 DEF TypeOK

\* Every step keeps the types.
LEMMA TypeStep ==
  ASSUME DataInv, Next
  PROVE  TypeOK'
<1>1. CASE Start
  BY <1>1, ProcessAssumption DEF DataInv, TypeOK, Start, database, network, threads
<1>2. CASE SetUpDatabase
  <2>1. table' \in Seq(Account)
    <3>1. ASSUME LoadLine PROVE table' \in Seq(Account)
      <4>1. file[Line] \in Account
        BY <3>1 DEF LoadLine, Line, DataInv, TypeOK
      <4> QED BY <3>1, <4>1, AddUserType DEF LoadLine, DataInv
    <3> QED BY <1>2, <3>1 DEF SetUpDatabase, Loaded, DataInv, TypeOK, database
  <2> QED BY <1>2, <2>1 DEF DataInv, TypeOK, SetUpDatabase, LoadLine, database, network, threads
<1>3. CASE Accept
  <2>1. thread_count + 1 \in Thread
    BY <1>3, ProcessAssumption DEF Accept, DataInv, TypeOK, Life, Thread
  <2> QED BY <1>3, <2>1 DEF DataInv, TypeOK, Accept, database
<1>4. CASE CountThread
  BY <1>4, ProcessAssumption DEF CountThread, DataInv, TypeOK, Life, database, network, threads
<1>5. CASE Interrupt
  <2>1. skipped' \in Thread \cup {Free}
    <3>1. skipped' = skipped \/ \E t \in 1..thread_count : skipped' = t
      BY <1>5 DEF Interrupt
    <3>2. 1..thread_count \subseteq Thread
      BY ProcessAssumption DEF DataInv, TypeOK, Thread
    <3> QED BY <3>1, <3>2 DEF DataInv, TypeOK
  <2> QED BY <1>5, <2>1 DEF DataInv, TypeOK, Interrupt, database, network, threads
<1>6. CASE FreeTable
  BY <1>6, Holders DEF DataInv, TypeOK, FreeTable, database, process, network, threads
<1>7. CASE Exit
  BY <1>7, EndType DEF Exit, DataInv
<1>8. CASE Crash
  BY <1>8, EndType DEF Crash, DataInv
<1>9. ASSUME NEW t \in Thread, ThreadStart(t) PROVE TypeOK'
  BY <1>9 DEF DataInv, TypeOK, ThreadStart, Top, database, process, network, threads
<1>10. ASSUME NEW t \in Thread, Query(t) PROVE TypeOK'
  BY <1>10 DEF DataInv, TypeOK, Query, Top, database, process, network, threads
<1>11. ASSUME NEW t \in Thread, AppendAccount(t) PROVE TypeOK'
  <2>1. Len(table) > 0
    BY <1>11 DEF AppendAccount, DataInv, Registering
  <2>2. /\ file' \in Seq(Account) /\ headed' \in BOOLEAN
        /\ unsaved' \in SUBSET Account /\ table' = table
    BY <1>11, <2>1, WriteType DEF AppendAccount, DataInv
  <2> QED BY <1>11, <2>2 DEF DataInv, TypeOK, AppendAccount, process, network, Free
<1>12. ASSUME NEW t \in Thread, Acknowledge(t) PROVE TypeOK'
  <2>1. account[t] \in Account
    BY <1>12 DEF Acknowledge, DataInv, Registering
  <2> QED BY <1>12, <2>1 DEF DataInv, TypeOK, Acknowledge, Top, database, process, network, Free
<1>13. ASSUME NEW t \in Thread, EndOfService(t) PROVE TypeOK'
  BY <1>13 DEF DataInv, TypeOK, EndOfService, database, process, network, threads
<1>14. ASSUME NEW t \in Thread, CloseSocket(t) PROVE TypeOK'
  BY <1>14 DEF DataInv, TypeOK, CloseSocket, database, process, network, threads
<1>15. ASSUME NEW t \in Thread, ClientClose(t) PROVE TypeOK'
  BY <1>15 DEF DataInv, TypeOK, ClientClose, database, process, network, threads
<1>16. ASSUME NEW t \in Thread, NEW a \in Account, UserRegistration(t, a) PROVE TypeOK'
  <2>1. table' \in Seq(Account)
    BY <1>16, AddUserType DEF UserRegistration, DataInv
  <2> QED BY <1>16, <2>1 DEF DataInv, TypeOK, UserRegistration, process, network
<1>17. CASE LockTable
  BY <1>17, Holders DEF DataInv, TypeOK, LockTable, Joined, database, process, network, threads
<1>18. ASSUME NEW t \in Thread, Request(t) PROVE TypeOK'
  BY <1>18 DEF DataInv, TypeOK, Request, Top, database, process, network, threads
<1>19. ASSUME NEW t \in Thread, Handle(t) PROVE TypeOK'
  BY <1>19 DEF DataInv, TypeOK, Handle, CanLock, Top, database, process, network, threads
<1>20. ASSUME NEW t \in Thread, UserLogin(t) PROVE TypeOK'
  BY <1>20 DEF DataInv, TypeOK, UserLogin, CanLock, Top, database, process, network, threads
<1>21. ASSUME NEW t \in Thread, LeaveKicked(t) PROVE TypeOK'
  BY <1>21, Holders DEF DataInv, TypeOK, LeaveKicked, CanLock, Top, database, process, network, threads
<1>22. ASSUME NEW t \in Thread, UserExit(t) PROVE TypeOK'
  BY <1>22 DEF DataInv, TypeOK, UserExit, CanExit, Top, database, process, network, threads
<1>23. ASSUME NEW t \in Thread, ExitKicked(t) PROVE TypeOK'
  BY <1>23, Holders DEF DataInv, TypeOK, ExitKicked, CanExit, Top, database, process, network, threads
<1> QED BY <1>1, <1>2, <1>3, <1>4, <1>5, <1>6, <1>7, <1>8, <1>9, <1>10, <1>11, <1>12, <1>13, <1>14, <1>15, <1>16, <1>17,
  <1>18, <1>19, <1>20, <1>21, <1>22, <1>23 DEF Next, MainStep, ThreadStep

-----------------------------------------------------------------------------
(* What an append does to a list, and a registration to table and file.    *)

LEMMA AppendListed ==
  ASSUME NEW S, NEW s \in Seq(S), NEW a \in S
  PROVE  /\ Len(Append(s, a)) = Len(s) + 1 /\ Append(s, a)[Len(s) + 1] = a
         /\ \A k \in 1..Len(s) : Append(s, a)[k] = s[k]
         /\ Listed(a, Append(s, a))
         /\ \A x : Listed(x, s) => Listed(x, Append(s, a))
         /\ \A x : Listed(x, Append(s, a)) => Listed(x, s) \/ x = a
<1> DEFINE r == Append(s, a)
<1>1. /\ r \in Seq(S) /\ Len(s) \in Nat /\ Len(r) = Len(s) + 1 /\ r[Len(s) + 1] = a
      /\ \A k \in 1..Len(s) : r[k] = s[k]
  OBVIOUS
<1> HIDE DEF r
<1>2. Len(s) + 1 \in 1..Len(r)
  BY <1>1
<1>3. \A k \in 1..Len(s) : k \in 1..Len(r)
  BY <1>1
<1>4. \A k \in 1..Len(r) : k \in 1..Len(s) \/ k = Len(s) + 1
  BY <1>1
<1> QED BY <1>1, <1>2, <1>3, <1>4 DEF Listed, r

\* A new entry goes to the end of the table and is not in the file yet.
LEMMA Added ==
  ASSUME DataInv, NEW t \in Thread, NEW a \in Account, UserRegistration(t, a)
  PROVE  /\ table' = Append(table, a) /\ ~ Listed(a, file)
         /\ \A x : Listed(x, table) => Listed(x, table')
<1>1. tpc[t] = "lock" /\ table' = Append(table, a) /\ ~ Listed(a, table)
  BY DEF UserRegistration, CanLock, AddUser, CanAdd
<1>2. \A k \in 1..Len(file) : Listed(file[k], table)
  BY <1>1 DEF DataInv, Filled, Active
<1>3. ~ Listed(a, file)
  <2>1. SUFFICES ASSUME NEW k \in 1..Len(file), file[k] = a PROVE FALSE
    BY DEF Listed
  <2> QED BY <2>1, <1>1, <1>2
<1>4. table \in Seq(Account)
  BY DEF DataInv, TypeOK
<1> QED BY <1>1, <1>3, <1>4, AppendListed

\* The account that is appended is the one that the thread has added.
LEMMA Written ==
  ASSUME DataInv, NEW t \in Thread, AppendAccount(t)
  PROVE  /\ user_list_mutex = t /\ account[t] \in Account /\ ~ Listed(account[t], file)
         /\ Listed(account[t], table) /\ table' = table
         /\ \/ file' = Append(file, account[t]) /\ unsaved' = unsaved
            \/ file' = file /\ unsaved' = unsaved \cup {account[t]}
<1>1. /\ user_list_mutex = t /\ Len(table) > 0 /\ table[Len(table)] = account[t]
      /\ account[t] \in Account /\ ~ Listed(account[t], file)
  BY DEF AppendAccount, DataInv, Registering
<1>2. Len(table) \in 1..Len(table)
  BY <1>1 DEF DataInv, TypeOK
<1>3. Listed(account[t], table)
  BY <1>1, <1>2 DEF Listed
<1> QED BY <1>1, <1>3 DEF AppendAccount, WriteToDatabase

\* An account that is in the file stays in it.
LEMMA WrittenListed ==
  ASSUME DataInv, NEW t \in Thread, AppendAccount(t)
  PROVE  /\ \A x : Listed(x, file) => Listed(x, file')
         /\ \A x : Listed(x, file') => Listed(x, file) \/ x = account[t]
         /\ Listed(account[t], file') \/ account[t] \in unsaved'
<1>1. file \in Seq(Account)
  BY DEF DataInv, TypeOK
<1>2. CASE file' = Append(file, account[t])
  BY <1>1, <1>2, Written, AppendListed
<1>3. CASE file' = file /\ unsaved' = unsaved \cup {account[t]}
  BY <1>3
<1> QED BY <1>2, <1>3, Written

-----------------------------------------------------------------------------
(* The other conjuncts of the invariant.                                   *)

\* Every step keeps the parts of the invariant, one after the other.
LEMMA LifeStep ==
  ASSUME DataInv, Next
  PROVE  Life'
<1>1. CASE Start
  BY <1>1 DEF DataInv, TypeOK, Life, Start, database, process, network, threads
<1>2. CASE SetUpDatabase
  BY <1>2, ProcessAssumption DEF DataInv, TypeOK, Life, SetUpDatabase, network, threads
<1>3. CASE Accept
  BY <1>3, ProcessAssumption DEF DataInv, TypeOK, Life, Accept, database, Thread
<1>4. CASE CountThread
  BY <1>4, Holders, ProcessAssumption DEF DataInv, TypeOK, Life, CountThread, network, threads, Thread
<1>5. CASE Interrupt
  BY <1>5 DEF DataInv, TypeOK, Life, Interrupt, database, process, network, threads
<1>6. CASE FreeTable
  BY <1>6, Holders DEF DataInv, TypeOK, Life, FreeTable, database, process, network, threads
<1>7. CASE Exit
  BY <1>7, Holders DEF DataInv, TypeOK, Life, Exit, EndProcess, NoThreads
<1>8. CASE Crash
  BY <1>8, Holders DEF DataInv, TypeOK, Life, Crash, EndProcess, NoThreads
<1>9. ASSUME NEW t \in Thread, ThreadStart(t) PROVE Life'
  BY <1>9 DEF DataInv, TypeOK, Life, ThreadStart, Top, database, process, network, threads
<1>10. ASSUME NEW t \in Thread, Query(t) PROVE Life'
  BY <1>10 DEF DataInv, TypeOK, Life, Query, Top, database, process, network, threads
<1>11. ASSUME NEW t \in Thread, AppendAccount(t) PROVE Life'
  BY <1>11, Holders, Written DEF DataInv, TypeOK, Life, AppendAccount, database, process, network, threads
<1>12. ASSUME NEW t \in Thread, Acknowledge(t) PROVE Life'
  BY <1>12 DEF DataInv, TypeOK, Life, Acknowledge, Top, database, process, network, threads
<1>13. ASSUME NEW t \in Thread, EndOfService(t) PROVE Life'
  BY <1>13 DEF DataInv, TypeOK, Life, EndOfService, database, process, network, threads
<1>14. ASSUME NEW t \in Thread, CloseSocket(t) PROVE Life'
  BY <1>14 DEF DataInv, TypeOK, Life, CloseSocket, database, process, network, threads
<1>15. ASSUME NEW t \in Thread, ClientClose(t) PROVE Life'
  BY <1>15 DEF DataInv, TypeOK, Life, ClientClose, database, process, network, threads
<1>16. ASSUME NEW t \in Thread, NEW a \in Account, UserRegistration(t, a) PROVE Life'
  BY <1>16, Holders DEF DataInv, TypeOK, Life, UserRegistration, CanLock, database, process, network, threads
<1>17. CASE LockTable
  BY <1>17, Holders DEF DataInv, TypeOK, Life, LockTable, Joined, database, process, network, threads
<1>18. ASSUME NEW t \in Thread, Request(t) PROVE Life'
  BY <1>18 DEF DataInv, TypeOK, Life, Request, Top, database, process, network, threads
<1>19. ASSUME NEW t \in Thread, Handle(t) PROVE Life'
  BY <1>19 DEF DataInv, TypeOK, Life, Handle, CanLock, Top, database, process, network, threads
<1>20. ASSUME NEW t \in Thread, UserLogin(t) PROVE Life'
  BY <1>20 DEF DataInv, TypeOK, Life, UserLogin, CanLock, Top, database, process, network, threads
<1>21. ASSUME NEW t \in Thread, LeaveKicked(t) PROVE Life'
  BY <1>21, Holders DEF DataInv, TypeOK, Life, LeaveKicked, CanLock, Top, database, process, network, threads
<1>22. ASSUME NEW t \in Thread, UserExit(t) PROVE Life'
  BY <1>22 DEF DataInv, TypeOK, Life, UserExit, CanExit, Top, database, process, network, threads
<1>23. ASSUME NEW t \in Thread, ExitKicked(t) PROVE Life'
  BY <1>23, Holders DEF DataInv, TypeOK, Life, ExitKicked, CanExit, Top, database, process, network, threads
<1> QED BY <1>1, <1>2, <1>3, <1>4, <1>5, <1>6, <1>7, <1>8, <1>9, <1>10, <1>11, <1>12, <1>13, <1>14, <1>15, <1>16, <1>17,
  <1>18, <1>19, <1>20, <1>21, <1>22, <1>23 DEF Next, MainStep, ThreadStep

LEMMA RegisteringStep ==
  ASSUME DataInv, Next
  PROVE  Registering'
<1>1. CASE Start
  BY <1>1 DEF DataInv, TypeOK, Registering, Listed, Start, database, process, network, threads
<1>2. CASE SetUpDatabase
  BY <1>2 DEF DataInv, TypeOK, Life, Registering, Listed, SetUpDatabase, LoadLine, database, process, network, threads, Free
<1>3. CASE Accept
  BY <1>3, ProcessAssumption DEF DataInv, TypeOK, Registering, Listed, Life, Accept, database, Thread, Free
<1>4. CASE CountThread
  BY <1>4 DEF DataInv, TypeOK, Registering, Listed, CountThread, database, process, network, threads
<1>5. CASE Interrupt
  BY <1>5 DEF DataInv, TypeOK, Registering, Listed, Interrupt, database, process, network, threads
<1>6. CASE FreeTable
  <2>1. \A t \in Thread : tpc[t] # "append"
    BY <1>6, Holders DEF FreeTable, DataInv, Life, Registering
  <2> QED BY <1>6, <2>1, Holders DEF DataInv, Registering, Listed, FreeTable, database
<1>7. CASE Exit
  BY <1>7, Holders DEF Registering, Exit, EndProcess, NoThreads, Free
<1>8. CASE Crash
  BY <1>8, Holders DEF Registering, Crash, EndProcess, NoThreads, Free
<1>9. ASSUME NEW t \in Thread, ThreadStart(t) PROVE Registering'
  BY <1>9 DEF DataInv, TypeOK, Registering, Listed, ThreadStart, Top, database, process, network, threads
<1>10. ASSUME NEW t \in Thread, Query(t) PROVE Registering'
  BY <1>10 DEF DataInv, TypeOK, Registering, Listed, Query, Top, database, process, network, threads
<1>11. ASSUME NEW t \in Thread, AppendAccount(t) PROVE Registering'
  <2>1. \A u \in Thread : tpc'[u] # "append"
    BY <1>11, Written DEF AppendAccount, DataInv, TypeOK, Registering
  <2>2. user_list_mutex' = Free /\ account' = account
    BY <1>11 DEF AppendAccount
  <2>3. ASSUME NEW u \in Thread, tpc'[u] = "ack"
        PROVE  account[u] \in Account /\ (Listed(account[u], file') \/ account[u] \in unsaved')
    <3>1. CASE u = t
      BY <1>11, <3>1, Written, WrittenListed
    <3>2. CASE u # t
      <4>1. tpc[u] = "ack"
        BY <1>11, <2>3, <3>2 DEF AppendAccount, DataInv, TypeOK
      <4> QED BY <1>11, <4>1, Written, WrittenListed DEF DataInv, Registering
    <3> QED BY <3>1, <3>2
  <2> QED BY <2>1, <2>2, <2>3, Holders DEF Registering
<1>12. ASSUME NEW t \in Thread, Acknowledge(t) PROVE Registering'
  BY <1>12 DEF DataInv, TypeOK, Registering, Listed, Acknowledge, Top, database, process, network, threads
<1>13. ASSUME NEW t \in Thread, EndOfService(t) PROVE Registering'
  BY <1>13 DEF DataInv, TypeOK, Registering, Listed, EndOfService, database, process, network, threads
<1>14. ASSUME NEW t \in Thread, CloseSocket(t) PROVE Registering'
  BY <1>14 DEF DataInv, TypeOK, Registering, Listed, CloseSocket, database, process, network, threads
<1>15. ASSUME NEW t \in Thread, ClientClose(t) PROVE Registering'
  BY <1>15 DEF DataInv, TypeOK, Registering, Listed, ClientClose, database, process, network, threads
<1>16. ASSUME NEW t \in Thread, NEW a \in Account, UserRegistration(t, a) PROVE Registering'
  <2>1. table' = Append(table, a) /\ ~ Listed(a, file)
    BY <1>16, Added
  <2>2. Len(table') > 0 /\ table'[Len(table')] = a
    <3>1. table \in Seq(Account)
      BY DEF DataInv, TypeOK
    <3> QED BY <2>1, <3>1
  <2>3. \A u \in Thread : tpc[u] # "append"
    BY <1>16, Holders DEF UserRegistration, CanLock, DataInv, Registering
  <2>4. /\ tpc' = [tpc EXCEPT ![t] = "append"] /\ user_list_mutex' = t
        /\ account' = [account EXCEPT ![t] = a] /\ UNCHANGED <<file, unsaved>>
    BY <1>16 DEF UserRegistration
  <2> QED BY <2>1, <2>2, <2>3, <2>4 DEF DataInv, TypeOK, Registering
<1>17. CASE LockTable
  BY <1>17, Holders DEF DataInv, TypeOK, Registering, Listed, LockTable, Joined, database, process, network, threads
<1>18. ASSUME NEW t \in Thread, Request(t) PROVE Registering'
  BY <1>18 DEF DataInv, TypeOK, Registering, Listed, Request, Top, database, process, network, threads
<1>19. ASSUME NEW t \in Thread, Handle(t) PROVE Registering'
  BY <1>19 DEF DataInv, TypeOK, Registering, Listed, Handle, CanLock, Top, database, process, network, threads
<1>20. ASSUME NEW t \in Thread, UserLogin(t) PROVE Registering'
  BY <1>20 DEF DataInv, TypeOK, Registering, Listed, UserLogin, CanLock, Top, database, process, network, threads
<1>21. ASSUME NEW t \in Thread, LeaveKicked(t) PROVE Registering'
  BY <1>21, Holders DEF DataInv, TypeOK, Registering, Listed, LeaveKicked, CanLock, Top, database, process, network, threads
<1>22. ASSUME NEW t \in Thread, UserExit(t) PROVE Registering'
  BY <1>22 DEF DataInv, TypeOK, Registering, Listed, UserExit, CanExit, Top, database, process, network, threads
<1>23. ASSUME NEW t \in Thread, ExitKicked(t) PROVE Registering'
  BY <1>23, Holders DEF DataInv, TypeOK, Registering, Listed, ExitKicked, CanExit, Top, database, process, network, threads
<1> QED BY <1>1, <1>2, <1>3, <1>4, <1>5, <1>6, <1>7, <1>8, <1>9, <1>10, <1>11, <1>12, <1>13, <1>14, <1>15, <1>16, <1>17,
  <1>18, <1>19, <1>20, <1>21, <1>22, <1>23 DEF Next, MainStep, ThreadStep

LEMMA FilledStep ==
  ASSUME DataInv, Next
  PROVE  Filled'
<1>1. CASE Start
  BY <1>1 DEF DataInv, TypeOK, Life, Filled, Active, Listed, Start, database, process, network, threads
<1>2. CASE SetUpDatabase
  <2>1. main = "load" /\ \A t \in Thread : tpc[t] = "none"
    BY <1>2 DEF SetUpDatabase, DataInv, Life
  <2>2. file' = file /\ tpc' = tpc
    BY <1>2 DEF SetUpDatabase, LoadLine, database, threads
  <2>3. file \in Seq(Account) /\ table \in Seq(Account)
    BY DEF DataInv, TypeOK
  <2>4. Len(table) <= Len(file) /\ \A k \in 1..Len(table) : table[k] = file[k]
    BY <2>1 DEF DataInv, Filled
  <2>5. CASE LoadLine /\ UNCHANGED main
    <3>1. table' = Append(table, file[Len(table) + 1]) /\ Len(table) + 1 <= Len(file)
      BY <2>5 DEF LoadLine, Line, AddUser
    <3>2. file[Len(table) + 1] \in Account
      BY <2>3, <3>1
    <3>3. /\ Len(table') = Len(table) + 1 /\ table'[Len(table) + 1] = file[Len(table) + 1]
          /\ \A k \in 1..Len(table) : table'[k] = table[k]
      BY <2>3, <3>1, <3>2, AppendListed
    <3>4. /\ Len(table') <= Len(file)
          /\ \A k \in 1..Len(table') : table'[k] = file[k]
      BY <2>3, <2>4, <3>1, <3>3
    <3> QED BY <2>1, <2>2, <2>5, <3>4 DEF Filled, Active
  <2>6. CASE Loaded /\ main' = "accept" /\ UNCHANGED database
    <3>1. \A k \in 1..Len(file) : k \in 1..Len(table)
      BY <2>3, <2>6 DEF Loaded, Line
    <3>2. \A k \in 1..Len(file) : Listed(file[k], table)
      BY <2>4, <3>1 DEF Listed
    <3> QED BY <2>2, <2>6, <3>2 DEF Filled, database
  <2> QED BY <1>2, <2>5, <2>6 DEF SetUpDatabase
<1>3. CASE Accept
  BY <1>3 DEF DataInv, TypeOK, Life, Filled, Active, Listed, Accept, database, process, network, threads
<1>4. CASE CountThread
  BY <1>4 DEF DataInv, TypeOK, Life, Filled, Active, Listed, CountThread, database, process, network, threads
<1>5. CASE Interrupt
  BY <1>5 DEF DataInv, TypeOK, Life, Filled, Active, Listed, Interrupt, database, process, network, threads
<1>6. CASE FreeTable
  BY <1>6, Holders DEF DataInv, TypeOK, Life, Filled, Active, Listed, FreeTable, database, process, network, threads
<1>7. CASE Exit
  BY <1>7 DEF Filled, Active, Exit, EndProcess, Forget, NoThreads
<1>8. CASE Crash
  BY <1>8 DEF Filled, Active, Crash, EndProcess, Forget, NoThreads
<1>9. ASSUME NEW t \in Thread, ThreadStart(t) PROVE Filled'
  BY <1>9 DEF DataInv, TypeOK, Life, Filled, Active, Listed, ThreadStart, Top, database, process, network, threads
<1>10. ASSUME NEW t \in Thread, Query(t) PROVE Filled'
  BY <1>10 DEF DataInv, TypeOK, Life, Filled, Active, Listed, Query, Top, database, process, network, threads
<1>11. ASSUME NEW t \in Thread, AppendAccount(t) PROVE Filled'
  <2>1. main \notin {"down", "load"} /\ main' = main
    BY <1>11 DEF AppendAccount, process, DataInv, Life
  <2>2. \A k \in 1..Len(file) : Listed(file[k], table)
    BY <1>11 DEF AppendAccount, DataInv, Filled, Active
  <2>3. table' = table /\ Listed(account[t], table)
    BY <1>11, Written
  <2>4. \A k \in 1..Len(file') : Listed(file'[k], table)
    <3>1. ASSUME NEW k \in 1..Len(file') PROVE Listed(file'[k], table)
      <4>1. Listed(file'[k], file')
        BY DEF Listed
      <4>2. Listed(file'[k], file) \/ file'[k] = account[t]
        BY <1>11, <4>1, WrittenListed
      <4> QED BY <2>2, <2>3, <4>2 DEF Listed
    <3> QED BY <3>1
  <2> QED BY <2>1, <2>3, <2>4 DEF Filled
<1>12. ASSUME NEW t \in Thread, Acknowledge(t) PROVE Filled'
  BY <1>12 DEF DataInv, TypeOK, Life, Filled, Active, Listed, Acknowledge, Top, database, process, network, threads
<1>13. ASSUME NEW t \in Thread, EndOfService(t) PROVE Filled'
  BY <1>13 DEF DataInv, TypeOK, Life, Filled, Active, Listed, EndOfService, database, process, network, threads
<1>14. ASSUME NEW t \in Thread, CloseSocket(t) PROVE Filled'
  BY <1>14 DEF DataInv, TypeOK, Life, Filled, Active, Listed, CloseSocket, database, process, network, threads
<1>15. ASSUME NEW t \in Thread, ClientClose(t) PROVE Filled'
  BY <1>15 DEF DataInv, TypeOK, Life, Filled, Active, Listed, ClientClose, database, process, network, threads
<1>16. ASSUME NEW t \in Thread, NEW a \in Account, UserRegistration(t, a) PROVE Filled'
  <2>1. main \notin {"down", "load"} /\ main' = main /\ file' = file
    BY <1>16 DEF UserRegistration, CanLock, process, DataInv, Life
  <2>2. \A k \in 1..Len(file) : Listed(file[k], table)
    BY <1>16 DEF UserRegistration, CanLock, DataInv, Filled, Active
  <2> QED BY <1>16, <2>1, <2>2, Added DEF Filled
<1>17. CASE LockTable
  BY <1>17, Holders DEF DataInv, TypeOK, Life, Filled, Active, Listed, LockTable, Joined, database, process, network, threads
<1>18. ASSUME NEW t \in Thread, Request(t) PROVE Filled'
  BY <1>18 DEF DataInv, TypeOK, Life, Filled, Active, Listed, Request, Top, database, process, network, threads
<1>19. ASSUME NEW t \in Thread, Handle(t) PROVE Filled'
  BY <1>19 DEF DataInv, TypeOK, Life, Filled, Active, Listed, Handle, CanLock, Top, database, process, network, threads
<1>20. ASSUME NEW t \in Thread, UserLogin(t) PROVE Filled'
  BY <1>20 DEF DataInv, TypeOK, Life, Filled, Active, Listed, UserLogin, CanLock, Top, database, process, network, threads
<1>21. ASSUME NEW t \in Thread, LeaveKicked(t) PROVE Filled'
  BY <1>21, Holders DEF DataInv, TypeOK, Life, Filled, Active, Listed, LeaveKicked, CanLock, Top, database, process, network, threads
<1>22. ASSUME NEW t \in Thread, UserExit(t) PROVE Filled'
  BY <1>22 DEF DataInv, TypeOK, Life, Filled, Active, Listed, UserExit, CanExit, Top, database, process, network, threads
<1>23. ASSUME NEW t \in Thread, ExitKicked(t) PROVE Filled'
  BY <1>23, Holders DEF DataInv, TypeOK, Life, Filled, Active, Listed, ExitKicked, CanExit, Top, database, process, network, threads
<1> QED BY <1>1, <1>2, <1>3, <1>4, <1>5, <1>6, <1>7, <1>8, <1>9, <1>10, <1>11, <1>12, <1>13, <1>14, <1>15, <1>16, <1>17,
  <1>18, <1>19, <1>20, <1>21, <1>22, <1>23 DEF Next, MainStep, ThreadStep

LEMMA KeptStep ==
  ASSUME DataInv, Next
  PROVE  Kept'
<1>1. CASE Start
  BY <1>1 DEF DataInv, TypeOK, Kept, Listed, Start, database, process, network, threads
<1>2. CASE SetUpDatabase
  BY <1>2 DEF DataInv, TypeOK, Kept, Listed, SetUpDatabase, LoadLine, Loaded, Line, AddUser, CanAdd, Fits, Unreadable, database, process, network, threads
<1>3. CASE Accept
  BY <1>3 DEF DataInv, TypeOK, Kept, Listed, Accept, database, process, network, threads
<1>4. CASE CountThread
  BY <1>4 DEF DataInv, TypeOK, Kept, Listed, CountThread, database, process, network, threads
<1>5. CASE Interrupt
  BY <1>5 DEF DataInv, TypeOK, Kept, Listed, Interrupt, database, process, network, threads
<1>6. CASE FreeTable
  BY <1>6, Holders DEF DataInv, TypeOK, Kept, Listed, FreeTable, database, process, network, threads
<1>7. CASE Exit
  BY <1>7 DEF DataInv, Kept, Listed, Exit, EndProcess, Forget
<1>8. CASE Crash
  BY <1>8 DEF DataInv, Kept, Listed, Crash, EndProcess, Forget
<1>9. ASSUME NEW t \in Thread, ThreadStart(t) PROVE Kept'
  BY <1>9 DEF DataInv, TypeOK, Kept, Listed, ThreadStart, Top, database, process, network, threads
<1>10. ASSUME NEW t \in Thread, Query(t) PROVE Kept'
  BY <1>10 DEF DataInv, TypeOK, Kept, Listed, Query, Top, database, process, network, threads
<1>11. ASSUME NEW t \in Thread, AppendAccount(t) PROVE Kept'
  <2>1. acknowledged' = acknowledged /\ unsaved \subseteq unsaved'
    BY <1>11, Written DEF AppendAccount
  <2> QED BY <1>11, <2>1, WrittenListed DEF DataInv, Kept
<1>12. ASSUME NEW t \in Thread, Acknowledge(t) PROVE Kept'
  <2>1. Listed(account[t], file) \/ account[t] \in unsaved
    BY <1>12 DEF Acknowledge, DataInv, Registering
  <2>2. UNCHANGED database /\ acknowledged' = acknowledged \cup {account[t]}
    BY <1>12 DEF Acknowledge
  <2> QED BY <2>1, <2>2 DEF DataInv, Kept, database
<1>13. ASSUME NEW t \in Thread, EndOfService(t) PROVE Kept'
  BY <1>13 DEF DataInv, TypeOK, Kept, Listed, EndOfService, database, process, network, threads
<1>14. ASSUME NEW t \in Thread, CloseSocket(t) PROVE Kept'
  BY <1>14 DEF DataInv, TypeOK, Kept, Listed, CloseSocket, database, process, network, threads
<1>15. ASSUME NEW t \in Thread, ClientClose(t) PROVE Kept'
  BY <1>15 DEF DataInv, TypeOK, Kept, Listed, ClientClose, database, process, network, threads
<1>16. ASSUME NEW t \in Thread, NEW a \in Account, UserRegistration(t, a) PROVE Kept'
  BY <1>16 DEF DataInv, TypeOK, Kept, Listed, UserRegistration, database, process, network, threads
<1>17. CASE LockTable
  BY <1>17, Holders DEF DataInv, TypeOK, Kept, Listed, LockTable, Joined, database, process, network, threads
<1>18. ASSUME NEW t \in Thread, Request(t) PROVE Kept'
  BY <1>18 DEF DataInv, TypeOK, Kept, Listed, Request, Top, database, process, network, threads
<1>19. ASSUME NEW t \in Thread, Handle(t) PROVE Kept'
  BY <1>19 DEF DataInv, TypeOK, Kept, Listed, Handle, CanLock, Top, database, process, network, threads
<1>20. ASSUME NEW t \in Thread, UserLogin(t) PROVE Kept'
  BY <1>20 DEF DataInv, TypeOK, Kept, Listed, UserLogin, CanLock, Top, database, process, network, threads
<1>21. ASSUME NEW t \in Thread, LeaveKicked(t) PROVE Kept'
  BY <1>21, Holders DEF DataInv, TypeOK, Kept, Listed, LeaveKicked, CanLock, Top, database, process, network, threads
<1>22. ASSUME NEW t \in Thread, UserExit(t) PROVE Kept'
  BY <1>22 DEF DataInv, TypeOK, Kept, Listed, UserExit, CanExit, Top, database, process, network, threads
<1>23. ASSUME NEW t \in Thread, ExitKicked(t) PROVE Kept'
  BY <1>23, Holders DEF DataInv, TypeOK, Kept, Listed, ExitKicked, CanExit, Top, database, process, network, threads
<1> QED BY <1>1, <1>2, <1>3, <1>4, <1>5, <1>6, <1>7, <1>8, <1>9, <1>10, <1>11, <1>12, <1>13, <1>14, <1>15, <1>16, <1>17,
  <1>18, <1>19, <1>20, <1>21, <1>22, <1>23 DEF Next, MainStep, ThreadStep

-----------------------------------------------------------------------------
(* The theorems about the accounts.                                        *)

\* The invariant holds at the start and is kept by every step.
LEMMA DataInit == Init => DataInv
<1> SUFFICES ASSUME Init PROVE DataInv
  OBVIOUS
<1>1. TypeOK
  BY TypeInit
<1> QED BY <1>1, Holders DEF Init, DataInv, Life, Registering, Filled, Active, Kept, NoThreads, Free

LEMMA DataNext == DataInv /\ [Next]_vars => DataInv'
<1> SUFFICES ASSUME DataInv, [Next]_vars PROVE DataInv'
  OBVIOUS
<1>1. CASE Next
  BY <1>1, TypeStep, LifeStep, RegisteringStep, FilledStep, KeptStep DEF DataInv
<1>2. CASE UNCHANGED vars
  BY <1>2 DEF vars, database, process, network, threads, DataInv, TypeOK, Life, Registering,
     Filled, Active, Kept, Listed
<1> QED BY <1>1, <1>2

\* Types, threads, registrations, table and file fit together in every state
\* the server can reach.
THEOREM DataInvariant == Spec => []DataInv
BY DataInit, DataNext, PTL DEF Spec

\* Every variable of the process keeps its type.
THEOREM ProcessTypes == Spec => []TypeOK
<1>1. DataInv => TypeOK
  BY DEF DataInv
<1> QED BY <1>1, DataInvariant, PTL

\* Whatever was acknowledged is in the table that serves logins, in this and
\* every later life of the server, unless its append failed.
THEOREM AcknowledgedAlwaysThere == Spec => []AcknowledgedCanLogIn
<1>1. DataInv => AcknowledgedCanLogIn
  <2> SUFFICES ASSUME DataInv, main \in {"accept", "count", "join"},
                      NEW a \in acknowledged \ unsaved
               PROVE  Listed(a, table)
    BY DEF AcknowledgedCanLogIn
  <2>1. PICK k \in 1..Len(file) : file[k] = a
    BY DEF DataInv, Kept, Listed
  <2> QED BY <2>1 DEF DataInv, Filled, Active
<1> QED BY <1>1, DataInvariant, PTL

\* A step of the process stores one account, promises one, or leaves both
\* the file and the promises alone.
LEMMA AccountsStep ==
  ASSUME DataInv, Next
  PROVE  [Durable!AccountsNext]_<<file, acknowledged \ unsaved>>
<1>1. ASSUME NEW t \in Thread, AppendAccount(t)
      PROVE  [Durable!AccountsNext]_<<file, acknowledged \ unsaved>>
  <2>1. /\ account[t] \in Account /\ ~ Listed(account[t], file) /\ acknowledged' = acknowledged
        /\ \/ file' = Append(file, account[t]) /\ unsaved' = unsaved
           \/ file' = file /\ unsaved' = unsaved \cup {account[t]}
    BY <1>1, Written DEF AppendAccount
  <2>2. CASE file' = Append(file, account[t]) /\ unsaved' = unsaved
    <3>1. Durable!Store(account[t])
      BY <2>1, <2>2 DEF Durable!Store, Listed
    <3> QED BY <2>1, <3>1 DEF Durable!AccountsNext
  <2>3. CASE file' = file /\ unsaved' = unsaved \cup {account[t]}
    <3>1. account[t] \notin acknowledged \ unsaved
      BY <2>1 DEF DataInv, Kept
    <3> QED BY <2>1, <2>3, <3>1
  <2> QED BY <2>1, <2>2, <2>3
<1>2. ASSUME NEW t \in Thread, Acknowledge(t)
      PROVE  [Durable!AccountsNext]_<<file, acknowledged \ unsaved>>
  <2>1. /\ account[t] \in Account /\ (Listed(account[t], file) \/ account[t] \in unsaved)
        /\ UNCHANGED <<file, unsaved>> /\ acknowledged' = acknowledged \cup {account[t]}
    BY <1>2 DEF Acknowledge, DataInv, Registering, database
  <2>2. CASE account[t] \in unsaved
    BY <2>1, <2>2
  <2>3. CASE account[t] \notin unsaved
    <3>1. Durable!Promise(account[t])
      BY <2>1, <2>3 DEF Durable!Promise, Listed
    <3> QED BY <2>1, <3>1 DEF Durable!AccountsNext
  <2> QED BY <2>2, <2>3
<1>3. ASSUME Next, \A t \in Thread : ~ AppendAccount(t) /\ ~ Acknowledge(t)
      PROVE  UNCHANGED <<file, acknowledged, unsaved>>
  BY <1>3 DEF Next, MainStep, ThreadStep, Start, SetUpDatabase, LoadLine, CountThread, FreeTable,
     Exit, Crash, EndProcess, Forget, Accept, Interrupt, ThreadStart, CloseSocket, EndOfService,
     LockTable, Query, Request, Handle, UserLogin, LeaveKicked, UserExit, ExitKicked, ClientClose,
     UserRegistration, database
<1>4. CASE \A t \in Thread : ~ AppendAccount(t) /\ ~ Acknowledge(t)
  BY <1>3, <1>4
<1> QED BY <1>1, <1>2, <1>4

\* The server keeps the promise of Accounts, over crashes and restarts.
THEOREM AccountsArePermanent == Spec => KeepsAccounts
<1>1. Init => Durable!AccountsInit
  BY DEF Init, Durable!AccountsInit
<1>2. DataInv /\ [Next]_vars => [Durable!AccountsNext]_<<file, acknowledged \ unsaved>>
  <2> SUFFICES ASSUME DataInv, [Next]_vars
               PROVE  [Durable!AccountsNext]_<<file, acknowledged \ unsaved>>
    OBVIOUS
  <2>1. CASE Next
    BY <2>1, AccountsStep
  <2>2. CASE UNCHANGED vars
    BY <2>2 DEF vars, database
  <2> QED BY <2>1, <2>2
<1> QED BY <1>1, <1>2, DataInvariant, PTL DEF Spec, KeepsAccounts, Durable!AccountsSpec

-----------------------------------------------------------------------------
(* Table and file, entry by entry.                                         *)

\* Every step keeps the table and the file alike.
LEMMA MirrorStep ==
  ASSUME DataInv, TableMirrorsFile, Next
  PROVE  TableMirrorsFile'
<1>1. CASE Start
  BY <1>1 DEF DataInv, TypeOK, TableMirrorsFile, Start, database, process, network, threads
<1>2. CASE SetUpDatabase
  <2>1. main = "load" /\ user_list_mutex' \notin Thread
    BY <1>2 DEF SetUpDatabase, DataInv, TypeOK, Life, Registering, threads, Free, Thread
  <2>2. CASE LoadLine /\ UNCHANGED main
    BY <2>1, <2>2 DEF TableMirrorsFile
  <2>3. CASE Loaded /\ main' = "accept" /\ UNCHANGED database
    <3>1. file \in Seq(Account) /\ table \in Seq(Account)
      BY DEF DataInv, TypeOK
    <3>2. Len(table) = Len(file) /\ \A k \in 1..Len(table) : table[k] = file[k]
      BY <2>1, <2>3, <3>1 DEF DataInv, Filled, Loaded, Line
    <3>3. table = file
      BY <3>1, <3>2
    <3> QED BY <2>1, <2>3, <3>3 DEF TableMirrorsFile, database
  <2> QED BY <1>2, <2>2, <2>3 DEF SetUpDatabase
<1>3. CASE Accept
  BY <1>3 DEF DataInv, TypeOK, TableMirrorsFile, Accept, database, process, network, threads
<1>4. CASE CountThread
  BY <1>4 DEF DataInv, TypeOK, TableMirrorsFile, CountThread, database, process, network, threads
<1>5. CASE Interrupt
  BY <1>5 DEF DataInv, TypeOK, TableMirrorsFile, Interrupt, database, process, network, threads
<1>6. CASE FreeTable
  BY <1>6, Holders DEF DataInv, TypeOK, TableMirrorsFile, FreeTable, database, process, network, threads
<1>7. CASE Exit
  BY <1>7 DEF Exit, EndProcess, TableMirrorsFile
<1>8. CASE Crash
  BY <1>8 DEF Crash, EndProcess, TableMirrorsFile
<1>9. ASSUME NEW t \in Thread, ThreadStart(t) PROVE TableMirrorsFile'
  BY <1>9 DEF DataInv, TypeOK, TableMirrorsFile, ThreadStart, Top, database, process, network, threads
<1>10. ASSUME NEW t \in Thread, Query(t) PROVE TableMirrorsFile'
  BY <1>10 DEF DataInv, TypeOK, TableMirrorsFile, Query, Top, database, process, network, threads
<1>11. ASSUME NEW t \in Thread, AppendAccount(t) PROVE TableMirrorsFile'
  <2>1. /\ user_list_mutex = t /\ table' = table
        /\ \/ file' = Append(file, account[t]) /\ unsaved' = unsaved
           \/ file' = file /\ unsaved' = unsaved \cup {account[t]}
    BY <1>11, Written
  <2>2. main' = main /\ user_list_mutex' = Free
    BY <1>11 DEF AppendAccount, process
  <2> QED BY <2>1, <2>2 DEF TableMirrorsFile, Free, Thread
<1>12. ASSUME NEW t \in Thread, Acknowledge(t) PROVE TableMirrorsFile'
  <2>1. user_list_mutex # t
    BY <1>12 DEF Acknowledge, DataInv, Registering, Free, Thread
  <2> QED BY <1>12, <2>1 DEF Acknowledge, DataInv, TypeOK, TableMirrorsFile, database, process, network
<1>13. ASSUME NEW t \in Thread, EndOfService(t) PROVE TableMirrorsFile'
  BY <1>13 DEF DataInv, TypeOK, TableMirrorsFile, EndOfService, database, process, network, threads
<1>14. ASSUME NEW t \in Thread, CloseSocket(t) PROVE TableMirrorsFile'
  BY <1>14 DEF DataInv, TypeOK, TableMirrorsFile, CloseSocket, database, process, network, threads
<1>15. ASSUME NEW t \in Thread, ClientClose(t) PROVE TableMirrorsFile'
  BY <1>15 DEF DataInv, TypeOK, TableMirrorsFile, ClientClose, database, process, network, threads
<1>16. ASSUME NEW t \in Thread, NEW a \in Account, UserRegistration(t, a) PROVE TableMirrorsFile'
  <2>1. table' = Append(table, a)
    BY <1>16, Added
  <2>2. /\ UNCHANGED <<main, file, unsaved>> /\ user_list_mutex = Free /\ user_list_mutex' = t
        /\ account' = [account EXCEPT ![t] = a]
    BY <1>16 DEF UserRegistration, CanLock, process
  <2> QED BY <2>1, <2>2 DEF DataInv, TypeOK, TableMirrorsFile, Free, Thread
<1>17. CASE LockTable
  BY <1>17, Holders DEF DataInv, TypeOK, TableMirrorsFile, LockTable, Joined, database, process, network, threads
<1>18. ASSUME NEW t \in Thread, Request(t) PROVE TableMirrorsFile'
  BY <1>18 DEF DataInv, TypeOK, TableMirrorsFile, Request, Top, database, process, network, threads
<1>19. ASSUME NEW t \in Thread, Handle(t) PROVE TableMirrorsFile'
  BY <1>19 DEF DataInv, TypeOK, TableMirrorsFile, Handle, CanLock, Top, database, process, network, threads
<1>20. ASSUME NEW t \in Thread, UserLogin(t) PROVE TableMirrorsFile'
  BY <1>20 DEF DataInv, TypeOK, TableMirrorsFile, UserLogin, CanLock, Top, database, process, network, threads
<1>21. ASSUME NEW t \in Thread, LeaveKicked(t) PROVE TableMirrorsFile'
  BY <1>21, Holders DEF DataInv, TypeOK, TableMirrorsFile, LeaveKicked, CanLock, Top, database, process, network, threads
<1>22. ASSUME NEW t \in Thread, UserExit(t) PROVE TableMirrorsFile'
  BY <1>22 DEF DataInv, TypeOK, TableMirrorsFile, UserExit, CanExit, Top, database, process, network, threads
<1>23. ASSUME NEW t \in Thread, ExitKicked(t) PROVE TableMirrorsFile'
  BY <1>23, Holders DEF DataInv, TypeOK, TableMirrorsFile, ExitKicked, CanExit, Top, database, process, network, threads
<1> QED BY <1>1, <1>2, <1>3, <1>4, <1>5, <1>6, <1>7, <1>8, <1>9, <1>10, <1>11, <1>12, <1>13, <1>14, <1>15, <1>16, <1>17,
  <1>18, <1>19, <1>20, <1>21, <1>22, <1>23 DEF Next, MainStep, ThreadStep

\* As long as no append failed, what the server serves is what its next start
\* will read, in the same order.
THEOREM TableAlwaysMirrorsFile == Spec => []TableMirrorsFile
<1>1. Init => TableMirrorsFile
  BY DEF Init, TableMirrorsFile
<1>2. DataInv /\ TableMirrorsFile /\ [Next]_vars => TableMirrorsFile'
  <2> SUFFICES ASSUME DataInv, TableMirrorsFile, [Next]_vars PROVE TableMirrorsFile'
    OBVIOUS
  <2>1. CASE Next
    BY <2>1, MirrorStep
  <2>2. CASE UNCHANGED vars
    BY <2>2 DEF vars, database, process, threads, TableMirrorsFile
  <2> QED BY <2>1, <2>2
<1> QED BY <1>1, <1>2, DataInvariant, PTL DEF Spec

-----------------------------------------------------------------------------
(* The end of the process.                                                 *)

\* No step makes a thread that may use the freed table.
LEMMA FreedStep ==
  ASSUME DataInv, FreedUnused, Next
  PROVE  FreedUnused'
<1>1. CASE Start
  BY <1>1 DEF DataInv, TypeOK, Life, FreedUnused, Start, database, process, network, threads
<1>2. CASE SetUpDatabase
  BY <1>2 DEF DataInv, TypeOK, Life, FreedUnused, SetUpDatabase, LoadLine, Loaded, Line, AddUser, CanAdd, Fits, Unreadable, database, process, network, threads
<1>3. CASE Accept
  BY <1>3 DEF DataInv, TypeOK, Life, FreedUnused, Accept, database, process, network, threads
<1>4. CASE CountThread
  BY <1>4 DEF DataInv, TypeOK, Life, FreedUnused, CountThread, database, process, network, threads
<1>5. CASE Interrupt
  BY <1>5 DEF DataInv, TypeOK, Life, FreedUnused, Interrupt, database, process, network, threads
<1>6. CASE FreeTable
  BY <1>6, Holders DEF DataInv, TypeOK, Life, FreedUnused, FreeTable, network, threads, Thread
<1>7. CASE Exit
  BY <1>7 DEF Exit, EndProcess, FreedUnused
<1>8. CASE Crash
  BY <1>8 DEF Crash, EndProcess, FreedUnused
<1>9. ASSUME NEW t \in Thread, ThreadStart(t) PROVE FreedUnused'
  BY <1>9 DEF DataInv, TypeOK, Life, FreedUnused, ThreadStart, Top, database, process, network, threads
<1>10. ASSUME NEW t \in Thread, Query(t) PROVE FreedUnused'
  BY <1>10 DEF DataInv, TypeOK, Life, FreedUnused, Query, Top, database, process, network, threads
<1>11. ASSUME NEW t \in Thread, AppendAccount(t) PROVE FreedUnused'
  BY <1>11 DEF DataInv, TypeOK, Life, FreedUnused, AppendAccount, database, process, network, threads
<1>12. ASSUME NEW t \in Thread, Acknowledge(t) PROVE FreedUnused'
  BY <1>12 DEF DataInv, TypeOK, Life, FreedUnused, Acknowledge, Top, database, process, network, threads
<1>13. ASSUME NEW t \in Thread, EndOfService(t) PROVE FreedUnused'
  BY <1>13 DEF DataInv, TypeOK, Life, FreedUnused, EndOfService, database, process, network, threads
<1>14. ASSUME NEW t \in Thread, CloseSocket(t) PROVE FreedUnused'
  BY <1>14 DEF DataInv, TypeOK, Life, FreedUnused, CloseSocket, database, process, network, threads
<1>15. ASSUME NEW t \in Thread, ClientClose(t) PROVE FreedUnused'
  BY <1>15 DEF DataInv, TypeOK, Life, FreedUnused, ClientClose, database, process, network, threads
<1>16. ASSUME NEW t \in Thread, NEW a \in Account, UserRegistration(t, a) PROVE FreedUnused'
  BY <1>16 DEF DataInv, TypeOK, Life, FreedUnused, UserRegistration, CanLock, database, process, network, threads
<1>17. CASE LockTable
  BY <1>17, Holders DEF DataInv, TypeOK, Life, FreedUnused, LockTable, Joined, network, threads, Thread
<1>18. ASSUME NEW t \in Thread, Request(t) PROVE FreedUnused'
  BY <1>18 DEF DataInv, TypeOK, Life, FreedUnused, Request, Top, database, process, network, threads
<1>19. ASSUME NEW t \in Thread, Handle(t) PROVE FreedUnused'
  BY <1>19 DEF DataInv, TypeOK, Life, FreedUnused, Handle, CanLock, Top, database, process, network, threads
<1>20. ASSUME NEW t \in Thread, UserLogin(t) PROVE FreedUnused'
  BY <1>20 DEF DataInv, TypeOK, Life, FreedUnused, UserLogin, CanLock, Top, database, process, network, threads
<1>21. ASSUME NEW t \in Thread, LeaveKicked(t) PROVE FreedUnused'
  BY <1>21, Holders DEF DataInv, TypeOK, Life, FreedUnused, LeaveKicked, CanLock, Top, database, process, network, threads
<1>22. ASSUME NEW t \in Thread, UserExit(t) PROVE FreedUnused'
  BY <1>22 DEF DataInv, TypeOK, Life, FreedUnused, UserExit, CanExit, Top, database, process, network, threads
<1>23. ASSUME NEW t \in Thread, ExitKicked(t) PROVE FreedUnused'
  BY <1>23, Holders DEF DataInv, TypeOK, Life, FreedUnused, ExitKicked, CanExit, Top, database, process, network, threads
<1> QED BY <1>1, <1>2, <1>3, <1>4, <1>5, <1>6, <1>7, <1>8, <1>9, <1>10, <1>11, <1>12, <1>13, <1>14, <1>15, <1>16, <1>17,
  <1>18, <1>19, <1>20, <1>21, <1>22, <1>23 DEF Next, MainStep, ThreadStep

\* The table is freed when no thread can use it any more, except two: the one
\* that the signal found started but not yet counted, and the one that main
\* was joining when the signal came.
THEOREM FreedAlwaysUnused == Spec => []FreedUnused
<1>1. Init => FreedUnused
  BY DEF Init, FreedUnused
<1>2. DataInv /\ FreedUnused /\ [Next]_vars => FreedUnused'
  <2> SUFFICES ASSUME DataInv, FreedUnused, [Next]_vars PROVE FreedUnused'
    OBVIOUS
  <2>1. CASE Next
    BY <2>1, FreedStep
  <2>2. CASE UNCHANGED vars
    BY <2>2 DEF vars, process, threads, FreedUnused
  <2> QED BY <2>1, <2>2
<1> QED BY <1>1, <1>2, DataInvariant, PTL DEF Spec

-----------------------------------------------------------------------------
(* Threads, sockets and clients.  With prompt threads, accept_fd belongs to *)
(* the one thread that has not read it yet.                                *)

Created == \A t \in Thread : tpc[t] = "created" =>
  accept_fd \in Descriptor /\ descriptor[accept_fd] = t

SocketInv == Created /\ OwnClient /\ NoSocketLost

\* Progress in the service of a client changes no socket.
LEMMA ProgressSocket ==
  ASSUME DataInv, SocketInv, NEW t \in Thread,
         tpc[t] \in {"recv", "lock", "append", "ack", "exit"}, tpc' = [tpc EXCEPT ![t] = tpc'[t]],
         tpc'[t] \in {"recv", "lock", "append", "ack", "exit", "close"},
         UNCHANGED <<accept_fd, descriptor, fd>>
  PROVE  SocketInv'
<1>1. /\ \A u \in Thread : Serving(u)' <=> Serving(u)
      /\ \A u \in Thread : tpc'[u] = "created" <=> tpc[u] = "created"
  BY DEF DataInv, TypeOK, Serving
<1>2. Created'
  BY <1>1 DEF SocketInv, Created
<1>3. OwnClient'
  BY <1>1 DEF SocketInv, OwnClient
<1>4. NoSocketLost'
  BY <1>1 DEF SocketInv, NoSocketLost, DataInv, TypeOK, Serving
<1> QED BY <1>2, <1>3, <1>4 DEF SocketInv

\* What a thread does between its start and close().
ServiceStep(t) ==
  \/ Query(t) \/ Request(t) \/ Handle(t) \/ UserLogin(t) \/ LeaveKicked(t)
  \/ AppendAccount(t) \/ Acknowledge(t) \/ UserExit(t) \/ ExitKicked(t) \/ EndOfService(t)
  \/ \E a \in Account : UserRegistration(t, a)

LEMMA ServiceSocket ==
  ASSUME DataInv, SocketInv, NEW t \in Thread, ServiceStep(t)
  PROVE  SocketInv'
<1> DEFINE Progress ==
      /\ tpc[t] \in {"recv", "lock", "append", "ack", "exit"} /\ tpc' = [tpc EXCEPT ![t] = tpc'[t]]
      /\ tpc'[t] \in {"recv", "lock", "append", "ack", "exit", "close"}
      /\ UNCHANGED <<accept_fd, descriptor, fd>>
<1>1. CASE Query(t)
  <2>1. Progress
    BY <1>1 DEF DataInv, TypeOK, Query, Top, process, network
  <2> QED BY <2>1, ProgressSocket
<1>2. CASE Request(t)
  <2>1. Progress
    BY <1>2 DEF DataInv, TypeOK, Request, process, network
  <2> QED BY <2>1, ProgressSocket
<1>3. CASE Handle(t)
  <2>1. Progress
    BY <1>3 DEF DataInv, TypeOK, Handle, CanLock, Top, process, network
  <2> QED BY <2>1, ProgressSocket
<1>4. CASE UserLogin(t)
  <2>1. Progress
    BY <1>4 DEF DataInv, TypeOK, UserLogin, CanLock, Top, process, network
  <2> QED BY <2>1, ProgressSocket
<1>5. CASE LeaveKicked(t)
  <2>1. Progress
    BY <1>5 DEF DataInv, TypeOK, LeaveKicked, CanLock, Top, process, network
  <2> QED BY <2>1, ProgressSocket
<1>6. CASE AppendAccount(t)
  <2>1. Progress
    BY <1>6 DEF DataInv, TypeOK, AppendAccount, process, network
  <2> QED BY <2>1, ProgressSocket
<1>7. CASE Acknowledge(t)
  <2>1. Progress
    BY <1>7 DEF DataInv, TypeOK, Acknowledge, Top, process, network
  <2> QED BY <2>1, ProgressSocket
<1>8. CASE UserExit(t)
  <2>1. Progress
    BY <1>8 DEF DataInv, TypeOK, UserExit, CanExit, process, network
  <2> QED BY <2>1, ProgressSocket
<1>9. CASE ExitKicked(t)
  <2>1. Progress
    BY <1>9 DEF DataInv, TypeOK, ExitKicked, CanExit, process, network
  <2> QED BY <2>1, ProgressSocket
<1>10. CASE EndOfService(t)
  <2>1. Progress
    BY <1>10 DEF DataInv, TypeOK, EndOfService, process, network
  <2> QED BY <2>1, ProgressSocket
<1>11. CASE \E a \in Account : UserRegistration(t, a)
  <2>1. Progress
    BY <1>11 DEF DataInv, TypeOK, UserRegistration, CanLock, process, network
  <2> QED BY <2>1, ProgressSocket
<1> QED BY <1>1, <1>2, <1>3, <1>4, <1>5, <1>6, <1>7, <1>8, <1>9, <1>10, <1>11 DEF ServiceStep

LEMMA ThreadStartSocket ==
  ASSUME DataInv, SocketInv, NEW t \in Thread, ThreadStart(t)
  PROVE  SocketInv'
<1>1. /\ tpc[t] = "created" /\ fd' = [fd EXCEPT ![t] = accept_fd]
      /\ tpc' = [tpc EXCEPT ![t] = tpc'[t]] /\ tpc'[t] \in {"recv", "close"}
      /\ UNCHANGED <<accept_fd, descriptor>>
  BY DEF DataInv, TypeOK, ThreadStart, Top, process, network
<1>2. accept_fd \in Descriptor /\ descriptor[accept_fd] = t
  BY <1>1 DEF SocketInv, Created
<1>3. /\ fd'[t] = accept_fd /\ tpc'[t] \in {"recv", "close"}
      /\ \A u \in Thread \ {t} : fd'[u] = fd[u] /\ tpc'[u] = tpc[u]
  BY <1>1 DEF DataInv, TypeOK
<1>4. accept_fd # Free
  BY <1>2 DEF Descriptor, Free
<1>5. Created'
  BY <1>1, <1>3 DEF SocketInv, Created
<1>6. OwnClient'
  BY <1>1, <1>2, <1>3, <1>4 DEF SocketInv, OwnClient, Serving
<1>7. NoSocketLost'
  <2>1. ASSUME NEW d \in Descriptor, descriptor[d] # Free, NEW u, u = descriptor[d]
        PROVE  (tpc'[u] = "created" /\ accept_fd' = d) \/ (Serving(u)' /\ fd'[u] = d)
    <3>1. u \in Thread
      BY <2>1 DEF DataInv, TypeOK
    <3>2. (tpc[u] = "created" /\ accept_fd = d) \/ (Serving(u) /\ fd[u] = d)
      BY <2>1 DEF SocketInv, NoSocketLost
    <3> QED BY <1>1, <1>2, <1>3, <2>1, <3>1, <3>2 DEF Serving
  <2> QED BY <1>1, <2>1 DEF NoSocketLost
<1> QED BY <1>5, <1>6, <1>7 DEF SocketInv

LEMMA CloseSocketSocket ==
  ASSUME DataInv, SocketInv, NEW t \in Thread, CloseSocket(t)
  PROVE  SocketInv'
<1>1. /\ tpc[t] = "close" /\ descriptor' = [descriptor EXCEPT ![fd[t]] = Free]
      /\ tpc' = [tpc EXCEPT ![t] = "done"] /\ fd' = [fd EXCEPT ![t] = Free] /\ UNCHANGED accept_fd
  BY DEF CloseSocket, process
<1>2. fd[t] \in Descriptor /\ descriptor[fd[t]] = t
  BY <1>1 DEF DataInv, TypeOK, SocketInv, OwnClient, Serving
<1> QED BY <1>1, <1>2 DEF DataInv, TypeOK, SocketInv, Created, OwnClient, NoSocketLost, Serving, Free, Thread

LEMMA ClientCloseSocket ==
  ASSUME DataInv, SocketInv, NEW t \in Thread, ClientClose(t)
  PROVE  SocketInv'
BY DEF ClientClose, SocketInv, Created, OwnClient, NoSocketLost, Serving, process, threads

LEMMA AcceptSocket ==
  ASSUME DataInv, SocketInv, PromptThreads, Accept
  PROVE  SocketInv'
<1> DEFINE t == thread_count + 1
<1>1. t \in Thread /\ tpc[t] = "none" /\ t # Free
  BY ProcessAssumption DEF Accept, DataInv, TypeOK, Life, Thread, Free
<1>2. PICK d \in Descriptor : /\ descriptor[d] = Free /\ accept_fd' = d
                              /\ descriptor' = [descriptor EXCEPT ![d] = t]
  BY DEF Accept
<1>3. /\ tpc' = [tpc EXCEPT ![t] = "created"] /\ fd' = fd
      /\ \A u \in Thread : tpc[u] # "created"
  BY DEF Accept
<1> HIDE DEF t
<1>4. Created'
  BY <1>1, <1>2, <1>3 DEF DataInv, TypeOK, Created
<1>5. OwnClient'
  BY <1>1, <1>2, <1>3 DEF DataInv, TypeOK, SocketInv, OwnClient, Serving, Free, Thread
<1>6. NoSocketLost'
  BY <1>1, <1>2, <1>3 DEF DataInv, TypeOK, SocketInv, NoSocketLost, Serving, Free, Thread
<1> QED BY <1>4, <1>5, <1>6 DEF SocketInv

LEMMA SocketStep ==
  ASSUME DataInv, SocketInv, PromptThreads, Next
  PROVE  SocketInv'
<1>1. CASE Start
  BY <1>1 DEF SocketInv, Created, OwnClient, NoSocketLost, Serving, Start, database, process, network, threads
<1>2. CASE SetUpDatabase
  BY <1>2 DEF SocketInv, Created, OwnClient, NoSocketLost, Serving, SetUpDatabase, LoadLine, Loaded, Line, AddUser, CanAdd, Fits, Unreadable, database, process, network, threads
<1>3. CASE Accept
  BY <1>3, AcceptSocket
<1>4. CASE CountThread
  BY <1>4 DEF SocketInv, Created, OwnClient, NoSocketLost, Serving, CountThread, database, process, network, threads
<1>5. CASE Interrupt
  BY <1>5 DEF SocketInv, Created, OwnClient, NoSocketLost, Serving, Interrupt, database, process, network, threads
<1>6. CASE FreeTable
  BY <1>6 DEF SocketInv, Created, OwnClient, NoSocketLost, Serving, FreeTable, process, network
<1>7. CASE Exit
  BY <1>7 DEF Exit, EndProcess, NoThreads, SocketInv, Created, OwnClient, NoSocketLost, Serving
<1>8. CASE Crash
  BY <1>8 DEF Crash, EndProcess, NoThreads, SocketInv, Created, OwnClient, NoSocketLost, Serving
<1>9. ASSUME NEW t \in Thread, ThreadStart(t) PROVE SocketInv'
  BY <1>9, ThreadStartSocket
<1>10. ASSUME NEW t \in Thread, ServiceStep(t) PROVE SocketInv'
  BY <1>10, ServiceSocket
<1>14. ASSUME NEW t \in Thread, CloseSocket(t) PROVE SocketInv'
  BY <1>14, CloseSocketSocket
<1>15. ASSUME NEW t \in Thread, ClientClose(t) PROVE SocketInv'
  BY <1>15, ClientCloseSocket
<1>16. CASE LockTable
  BY <1>16 DEF SocketInv, Created, OwnClient, NoSocketLost, Serving, LockTable, process, network
<1> QED BY <1>1, <1>2, <1>3, <1>4, <1>5, <1>6, <1>7, <1>8, <1>9, <1>10, <1>14, <1>15, <1>16
  DEF Next, MainStep, ThreadStep, ServiceStep

LEMMA SocketAlways == ASSUME PromptThreads PROVE Spec => []SocketInv
<1>1. Init => SocketInv
  BY DEF Init, NoThreads, SocketInv, Created, OwnClient, NoSocketLost, Serving
<1>2. DataInv /\ SocketInv /\ [Next]_vars => SocketInv'
  <2> SUFFICES ASSUME DataInv, SocketInv, [Next]_vars PROVE SocketInv'
    OBVIOUS
  <2>1. CASE Next
    BY <2>1, PromptThreads, SocketStep
  <2>2. CASE UNCHANGED vars
    BY <2>2 DEF vars, process, network, threads, SocketInv, Created, OwnClient, NoSocketLost, Serving
  <2> QED BY <2>1, <2>2
<1> QED BY <1>1, <1>2, DataInvariant, PTL DEF Spec

\* Each thread is responsible for one client, as long as a new thread reads
\* accept_fd before the next accept() returns.
THEOREM ThreadsServeTheirClients ==
  ASSUME PromptThreads PROVE Spec => []OwnClient
<1>1. SocketInv => OwnClient
  BY DEF SocketInv
<1> QED BY <1>1, SocketAlways, PromptThreads, PTL

\* Then no accepted connection is left without a thread that reads it.
THEOREM SocketNeverLost ==
  ASSUME PromptThreads PROVE Spec => []NoSocketLost
<1>1. SocketInv => NoSocketLost
  BY DEF SocketInv
<1> QED BY <1>1, SocketAlways, PromptThreads, PTL

=============================================================================
