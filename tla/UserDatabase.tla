---------------------------- MODULE UserDatabase ----------------------------
(***************************************************************************)
(* The accounts of the conference server: the table in memory (user.c) and *)
(* the file database.txt it is read from at start-up and appended to at    *)
(* each registration (server.c).  An account is its name and password; the *)
(* fields of an entry that sessions use belong to ConferenceServer.        *)
(*                                                                         *)
(* fscanf() reads the file with the format "\"%[^|\"]\":\"%[^|\"]\"\n".    *)
(* An account whose name or password has a quote or a bar does not match   *)
(* it to the end, and what does not match is never consumed.               *)
(***************************************************************************)
EXTENDS Naturals, Sequences

CONSTANTS
  Account,         \* accounts that a client may register
  Awkward,         \* those with a quote or a bar in the name or password
  MAX_USER_COUNT,  \* entries in the table
  Unlucky          \* those at whose registration fopen() may fail: a bound

ASSUME DatabaseAssumption ==
  /\ Awkward \subseteq Account /\ Unlucky \subseteq Account
  /\ MAX_USER_COUNT \in Nat

VARIABLES
  file,     \* the accounts in database.txt, in order
  headed,   \* whether database.txt begins with an empty line
  table,    \* user_list: the accounts in memory, in order
  unsaved   \* accounts whose append failed once

database == <<file, headed, table, unsaved>>

Listed(a, s) == \E k \in 1..Len(s) : s[k] = a

-----------------------------------------------------------------------------
(* user_database_add_user: a full table and a known account are refused.   *)

Fits == Len(table) < MAX_USER_COUNT

\* Mutant: a known account is added again.
CanAdd_Known(a) == Fits

CanAdd(a) == Fits /\ ~ Listed(a, table)

AddUser(a) ==
  /\ CanAdd(a)
  /\ table' = Append(table, a)

-----------------------------------------------------------------------------
(* set_up_database, one round of its loop at a time.  The rounds that have *)
(* consumed a line are as many as the table has entries: no line of a file *)
(* that the server wrote is refused.                                       *)

Line == Len(table) + 1

\* What the loop cannot get past.  It goes round without end, and offers
\* the entry it read last, which is refused, or a piece of the line.
Unreadable == Len(file) > 0 /\ (headed \/ (Line <= Len(file) /\ file[Line] \in Awkward))

\* Mutant: the format lacks its newline, and no second line matches.
LoadLine_NoNewline ==
  /\ Line = 1 /\ Len(file) > 0 /\ ~ Unreadable
  /\ AddUser(file[Line])
  /\ UNCHANGED <<file, headed, unsaved>>

LoadLine ==
  /\ Line <= Len(file) /\ ~ Unreadable
  /\ AddUser(file[Line])
  /\ UNCHANGED <<file, headed, unsaved>>

Loaded == Line > Len(file) /\ ~ Unreadable

-----------------------------------------------------------------------------
(* write_to_database: the entry that is the last of the table now, whoever *)
(* added it.  Each line is preceded by a newline, the first one of an      *)
(* empty file too.  If fopen() fails the caller is not told.               *)

WriteToDatabase ==
  LET a == table[Len(table)] IN
  \/ /\ file' = Append(file, a)
     /\ headed' = (headed \/ file = <<>>)
     /\ UNCHANGED <<table, unsaved>>
  \/ /\ a \in Unlucky
     /\ unsaved' = unsaved \cup {a}
     /\ UNCHANGED <<file, headed, table>>

\* The process ends: memory is gone, the file stays.
Forget ==
  /\ table' = <<>>
  /\ UNCHANGED <<file, headed, unsaved>>
=============================================================================
