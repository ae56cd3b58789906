---------------------------- MODULE FtpHandshake ----------------------------
(***************************************************************************)
(* Part I: each client sends "ftp" in one UDP datagram and waits for the   *)
(* server's "yes", with which a transfer could start.  The three letters   *)
(* are sent without the terminator, and the server compares a string with  *)
(* a buffer that it never cleared: the answer rests on the byte behind     *)
(* them, which nobody ever writes.                                         *)
(***************************************************************************)
EXTENDS Naturals

CONSTANTS Client,
          NetworkLoses     \* whether the network may lose a datagram

VARIABLES
  client,      \* new, asking, start, refused, misread
  terminated,  \* whether the byte behind the three letters is zero
  requests,    \* the clients whose "ftp" is on its way
  answers,     \* the answer on its way to each client: none, yes, no
  dropped      \* whether a datagram was lost

handshake == <<client, terminated, requests, answers, dropped>>

\* The buffer is not initialised.
HandshakeInit ==
  /\ client = [c \in Client |-> "new"]
  /\ terminated \in BOOLEAN
  /\ requests = {} /\ answers = [c \in Client |-> "none"]
  /\ dropped = FALSE

\* The file exists and the user typed "ftp <file>".
Ask(c) ==
  /\ client[c] = "new"
  /\ client' = [client EXCEPT ![c] = "asking"]
  /\ requests' = requests \cup {c}
  /\ UNCHANGED <<terminated, answers, dropped>>

\* scanf() puts four characters in ftp[3]: the last may be overwritten by the
\* file name, and the comparison fails.  The same exit as for a wrong line or
\* a file that does not exist.
Misread(c) ==
  /\ client[c] = "new"
  /\ client' = [client EXCEPT ![c] = "misread"]
  /\ UNCHANGED <<terminated, requests, answers, dropped>>

\* Mutant: what is not "ftp" is not answered.
Answer_OnlyYes(c) ==
  /\ c \in requests /\ requests' = requests \ {c}
  /\ answers' = [answers EXCEPT ![c] = IF terminated THEN "yes" ELSE @]
  /\ UNCHANGED <<client, terminated, dropped>>

\* One round of the server's loop.
Answer(c) ==
  /\ c \in requests /\ requests' = requests \ {c}
  /\ answers' = [answers EXCEPT ![c] = IF terminated THEN "yes" ELSE "no"]
  /\ UNCHANGED <<client, terminated, dropped>>

Hear(c) ==
  /\ client[c] = "asking" /\ answers[c] # "none"
  /\ client' = [client EXCEPT ![c] = IF answers[c] = "yes" THEN "start" ELSE "refused"]
  /\ answers' = [answers EXCEPT ![c] = "none"]
  /\ UNCHANGED <<terminated, requests, dropped>>

Drop(c) ==
  /\ NetworkLoses /\ dropped' = TRUE
  /\ \/ c \in requests /\ requests' = requests \ {c} /\ UNCHANGED answers
     \/ answers[c] # "none" /\ answers' = [answers EXCEPT ![c] = "none"] /\ UNCHANGED requests
  /\ UNCHANGED <<client, terminated>>

HandshakeNext ==
  \E c \in Client : Ask(c) \/ Misread(c) \/ Answer(c) \/ Hear(c) \/ Drop(c)

HandshakeSpec == HandshakeInit /\ [][HandshakeNext]_handshake

HandshakeFairness ==
  \A c \in Client : WF_handshake(Answer(c)) /\ WF_handshake(Hear(c))

-----------------------------------------------------------------------------
(* Property.                                                               *)

\* A client that asked gets an answer, and ends, unless a datagram was lost.
HandshakeEnds ==
  \A c \in Client : [](client[c] = "asking" => <>(client[c] # "asking" \/ dropped))
=============================================================================
