---------------------------- MODULE FileTransfer ----------------------------
(***************************************************************************)
(* The file transfer of Part III: deliver.c sends a file in fragments of   *)
(* 1000 bytes, one UDP datagram each, and waits for an acknowledgement     *)
(* after each; server.c writes what arrives, and drops one datagram in     *)
(* twenty on purpose.  Acknowledgements carry a fragment number that the   *)
(* sender never looks at, and the receiver never looks at the number of a  *)
(* fragment: the order of the file rests on nothing being sent twice.      *)
(*                                                                         *)
(* TimerExact says whether the computed time-out expires only after a loss *)
(* (TRUE), or possibly before the answer arrives: it is three times the    *)
(* processor time of a recvfrom(), a few microseconds.                     *)
(***************************************************************************)
EXTENDS Naturals, Sequences

CONSTANTS File, NoFile, Fragments,
          MaxTransfers,    \* bound on the files the user sends
          MaxInFlight,     \* bound on datagrams on their way
          TimerExact,
          MayFail          \* whether open() or write() of the receiver may fail

VARIABLES
  pc,        \* sender: prompt, send, wait (for the acknowledgement), goodbye, quit
  file,      \* sender: the file being sent
  frag,      \* sender: the number of the current fragment
  timeout,   \* sender: SO_RCVTIMEO; "none" is zero, that is, no time-out
  started,   \* transfers begun, for the bound
  spc,       \* receiver: idle, body (the for loop), write, goodbye, quit, failed
  receiving, \* receiver: the file that fd is open on
  written,   \* receiver: i, the fragments written since open()
  held,      \* receiver: the fragment acknowledged last
  stored,    \* the files of the receiver, as sequences of fragments
  toServer, toSender       \* datagrams on their way

sender == <<pc, file, frag, timeout, started>>
receiver == <<spc, receiving, written, held, stored>>
vars == <<sender, receiver, toServer, toSender>>

Copy == INSTANCE FileCopy WITH current <- file, content <- stored

Pieces == UNION {{Copy!Fragment(f, n) : n \in 1..Fragments[f]} : f \in File}
Done == [kind |-> "done"]
Ack == [kind |-> "ack"]
Goodbye == [kind |-> "goodbye"]

ASSUME TransferAssumption ==
  /\ NoFile \notin File /\ Fragments \in [File -> Nat]
  /\ MaxTransfers \in Nat /\ MaxInFlight \in Nat \ {0}
  /\ TimerExact \in BOOLEAN /\ MayFail \in BOOLEAN

TypeOK ==
  /\ pc \in {"prompt", "send", "wait", "goodbye", "quit"}
  /\ file \in File \cup {NoFile} /\ (pc = "prompt" => file = NoFile)
  /\ frag \in Nat /\ started \in Nat
  /\ timeout \in {"none", "second", "computed"}
  /\ spc \in {"idle", "body", "write", "goodbye", "quit", "failed"}
  /\ receiving \in File \cup {NoFile} /\ written \in Nat
  /\ held \in Pieces \cup {NoFile}
  /\ stored \in [File -> Seq(Pieces)]
  /\ toServer \in Seq(Pieces \cup {Done})
  /\ toSender \in Seq({Ack, Goodbye})

Init ==
  /\ pc = "prompt" /\ file = NoFile /\ frag = 0 /\ timeout = "none" /\ started = 0
  /\ spc = "idle" /\ receiving = NoFile /\ written = 0 /\ held = NoFile
  /\ stored = [f \in File |-> <<>>]
  /\ toServer = <<>> /\ toSender = <<>>

-----------------------------------------------------------------------------
(* The sender.                                                             *)

\* The receiver of a datagram that finds no process is nobody.
SendToServer(d) ==
  toServer' = IF spc \in {"quit", "failed"} THEN toServer ELSE Append(toServer, d)

\* "ftp <file>".  A file without fragments goes straight to the last wait; of
\* any other the first fragment will wait a second (deliver.c:136-138).
SenderStart(f) ==
  /\ pc = "prompt" /\ started < MaxTransfers
  /\ started' = started + 1
  /\ file' = f /\ frag' = 1
  /\ \/ /\ Fragments[f] = 0
        /\ pc' = "goodbye" /\ UNCHANGED timeout
     \/ /\ Fragments[f] > 0
        /\ pc' = "send" /\ timeout' = "second"
  /\ UNCHANGED <<receiver, toServer, toSender>>

SenderSend ==
  /\ pc = "send"
  /\ pc' = "wait"
  /\ SendToServer(Copy!Fragment(file, frag))
  /\ UNCHANGED <<file, frag, timeout, started, receiver, toSender>>

\* Nothing is on its way and the receiver waits: the fragment was dropped.
Quiet ==
  /\ toServer = <<>> /\ toSender = <<>>
  /\ spc \in {"idle", "body", "quit", "failed"}

\* Mutant: a time-out only waits again, as in the wait for the goodbye.
SenderTimeout_WaitAgain ==
  pc = "wait" /\ timeout # "none" /\ toSender = <<>> /\ UNCHANGED vars

\* A time-out of one second, for the first fragment, outlasts any answer.
SenderTimeout ==
  /\ pc = "wait" /\ timeout # "none" /\ toSender = <<>>
  /\ timeout = "second" \/ TimerExact => Quiet
  /\ Len(toServer) + Len(toSender) < MaxInFlight
  /\ pc' = "send"
  /\ UNCHANGED <<file, frag, timeout, started, receiver, toServer, toSender>>

\* Mutant: the last acknowledgement ends the transfer.
SenderAck_NoGoodbye ==
  /\ pc = "wait" /\ toSender # <<>>
  /\ toSender' = Tail(toSender)
  /\ \/ /\ frag < Fragments[file]
        /\ frag' = frag + 1 /\ pc' = "send"
        /\ timeout' \in {"none", "computed"} /\ UNCHANGED file
     \/ /\ frag = Fragments[file]
        /\ pc' = "prompt" /\ file' = NoFile
        /\ UNCHANGED <<frag, timeout>>
  /\ UNCHANGED <<started, receiver, toServer>>

\* Any datagram is an acknowledgement.  The next time-out is computed from
\* what clock() measured and may be truncated to zero.
SenderAck ==
  /\ pc = "wait" /\ toSender # <<>>
  /\ toSender' = Tail(toSender)
  /\ \/ /\ frag < Fragments[file]
        /\ frag' = frag + 1 /\ pc' = "send"
        /\ timeout' \in {"none", "computed"}
     \/ /\ frag = Fragments[file]
        /\ pc' = "goodbye"
        /\ UNCHANGED <<frag, timeout>>
  /\ UNCHANGED <<file, started, receiver, toServer>>

\* Any datagram is the goodbye message: "was sent successfully!".
SenderGoodbye ==
  /\ pc = "goodbye" /\ toSender # <<>>
  /\ toSender' = Tail(toSender)
  /\ pc' = "prompt" /\ file' = NoFile
  /\ UNCHANGED <<frag, timeout, started, receiver, toServer>>

SenderDone ==
  /\ pc = "prompt"
  /\ pc' = "quit"
  /\ SendToServer(Done)
  /\ UNCHANGED <<file, frag, timeout, started, receiver, toSender>>

-----------------------------------------------------------------------------
(* The receiver.                                                           *)

\* Mutant: the acknowledgement is sent before the dice are thrown.
ServerDrop_Acknowledged ==
  /\ spc \in {"idle", "body"} /\ toServer # <<>>
  /\ toServer' = Tail(toServer)
  /\ toSender' = Append(toSender, Ack)
  /\ UNCHANGED <<sender, receiver>>

\* One datagram in twenty is taken for lost.
ServerDrop ==
  /\ spc \in {"idle", "body"} /\ toServer # <<>>
  /\ toServer' = Tail(toServer)
  /\ UNCHANGED <<sender, receiver, toSender>>

\* The acknowledgement is sent before the datagram is looked at.
Acknowledge ==
  /\ toServer # <<>>
  /\ toServer' = Tail(toServer)
  /\ toSender' = Append(toSender, Ack)

ServerDone ==
  /\ spc = "idle"
  /\ Acknowledge /\ Head(toServer) = Done
  /\ spc' = "quit"
  /\ UNCHANGED <<sender, receiving, written, held, stored>>

\* The first fragment opens the file, whose old content is not truncated.
ServerFirst ==
  /\ spc = "idle"
  /\ Acknowledge /\ Head(toServer) # Done
  /\ held' = Head(toServer)
  /\ receiving' = Head(toServer).file /\ written' = 0
  /\ spc' = "write"
  /\ UNCHANGED <<sender, stored>>

\* The others are taken as they come, whatever file they belong to.
ServerNext ==
  /\ spc = "body"
  /\ Acknowledge /\ Head(toServer) # Done
  /\ held' = Head(toServer)
  /\ spc' = "write"
  /\ UNCHANGED <<sender, receiving, written, stored>>

\* write() at the position fd has reached, over what is there or at the end.
Overwrite(s, n, d) ==
  IF n <= Len(s) THEN [s EXCEPT ![n] = d] ELSE Append(s, d)

\* Mutant: the loop over the fragments ends one too early.
ServerWrite_OneShort ==
  /\ spc = "write"
  /\ stored' = [stored EXCEPT ![receiving] = Overwrite(@, written + 1, held)]
  /\ written' = written + 1
  /\ spc' = IF written + 2 < Fragments[receiving] THEN "body" ELSE "goodbye"
  /\ UNCHANGED <<sender, receiving, held, toServer, toSender>>

ServerWrite ==
  /\ spc = "write"
  /\ stored' = [stored EXCEPT ![receiving] = Overwrite(@, written + 1, held)]
  /\ written' = written + 1
  /\ spc' = IF written + 1 < Fragments[receiving] THEN "body" ELSE "goodbye"
  /\ UNCHANGED <<sender, receiving, held, toServer, toSender>>

\* A failed open() shows at the first write(): the process exits.
ServerFail ==
  /\ spc = "write" /\ MayFail
  /\ spc' = "failed" /\ toServer' = <<>>
  /\ UNCHANGED <<sender, receiving, written, held, stored, toSender>>

ServerGoodbye ==
  /\ spc = "goodbye"
  /\ spc' = "idle" /\ receiving' = NoFile
  /\ toSender' = Append(toSender, Goodbye)
  /\ UNCHANGED <<sender, written, held, stored, toServer>>

-----------------------------------------------------------------------------
SenderStep == SenderSend \/ SenderTimeout \/ SenderAck \/ SenderGoodbye
ServerAccept == ServerDone \/ ServerFirst \/ ServerNext
ServerStep == ServerWrite \/ ServerFail \/ ServerGoodbye

Next ==
  \/ \E f \in File : SenderStart(f)
  \/ SenderDone \/ SenderStep
  \/ ServerDrop \/ ServerAccept \/ ServerStep

Spec == Init /\ [][Next]_vars

\* Both processes run, a datagram that waits is received, and a rand() that
\* is asked again and again does not answer 1..5 for ever.  Nothing obliges
\* the user to send another file.
Fairness ==
  /\ WF_vars(SenderStep) /\ WF_vars(ServerStep)
  /\ WF_vars(ServerDrop \/ ServerAccept) /\ SF_vars(ServerAccept)
FairSpec == Spec /\ Fairness

-----------------------------------------------------------------------------
(* Properties.                                                             *)

\* The fragment the receiver can do with next: number written + 1 of the file
\* it has open, or, between two files, the first of any file.
Fits(d) ==
  CASE spc = "idle"  -> d = Done \/ d.no = 1
    [] spc = "body"  -> d = Copy!Fragment(receiving, written + 1)
    [] spc = "write" -> d = Copy!Fragment(receiving, written + 2)
    [] OTHER         -> FALSE

\* Although neither side looks at the numbers of the other, whatever is on
\* its way to the receiver is exactly what fits at the position of fd: no
\* fragment again, none too early, and no "done" where a fragment is parsed.
OnlyWhatFits == \A k \in 1..Len(toServer) : Fits(toServer[k])

\* The datagrams on their way to the sender are the answers it waits for: an
\* acknowledgement for the current fragment, then the goodbye.  Between two
\* files none is left that the next transfer would take for an answer.
AnswersMatch ==
  /\ pc \in {"send", "prompt"} => toSender = <<>>
  /\ pc = "goodbye" => Len(toSender) <= 1 /\ \A k \in 1..Len(toSender) : toSender[k] = Goodbye
  /\ pc = "wait" /\ toSender # <<>> => Head(toSender) = Ack

\* The receiver stores fragments in order and once, and the sender reports
\* "was sent successfully!" only when all of the file is stored.
CopiesFaithfully == Copy!CopySpec

\* The same for the report alone (deliver.c:224).
SentMeansStored ==
  [][\A f \in File : SenderGoodbye /\ file = f => stored[f] = Copy!Whole(f)]_vars

\* A transfer comes to its end, except in the three ways the code can hang:
\* the receiver exited, the file has no fragments, or a fragment was dropped
\* while the time-out was zero.
Hangs ==
  \/ spc = "failed"
  \/ Fragments[file] = 0
  \/ timeout = "none" /\ Quiet
TransferEnds ==
  [](file # NoFile => <>(file = NoFile \/ Hangs))

=============================================================================
