------------------------- MODULE FileTransferProofs -------------------------
(***************************************************************************)
(* Theorems about Part III for any files and any number of fragments, most *)
(* of them under the assumption that a time-out expires only after a loss: *)
(* Inv describes, for each step of the sender, where the receiver is and   *)
(* what is on its way, and Counted is what remains of it when a time-out   *)
(* may expire early.                                                       *)
(***************************************************************************)
EXTENDS FileTransfer, SequenceTheorems, TLAPS

\* The receiver will do with fragment n next; it may still have to write the
\* one before, which it has acknowledged.
ServerAt(n) ==
  \/ n = 1 /\ spc = "idle"
  \/ /\ n > 1 /\ receiving = file
     /\ \/ spc = "body" /\ written = n - 1
        \/ /\ spc = "write" /\ written + 1 = n - 1
           /\ held = Copy!Fragment(file, n - 1)

\* The receiver has accepted fragment n, and not sent the goodbye.
Took(n) ==
  /\ receiving = file
  /\ \/ spc = "write" /\ written + 1 = n /\ held = Copy!Fragment(file, n)
     \/ spc = "body" /\ written = n /\ n < Fragments[file]
     \/ spc = "goodbye" /\ written = n /\ n = Fragments[file]

\* The receiver has written all of the file.
Complete == spc = "idle" /\ frag = Fragments[file] /\ Len(stored[file]) = frag

Sent ==
  /\ toServer = <<Copy!Fragment(file, frag)>> /\ toSender = <<>>
  /\ ServerAt(frag)
Dropped ==
  /\ toServer = <<>> /\ toSender = <<>>
  /\ spc = "failed" \/ (spc # "write" /\ ServerAt(frag))
Answered ==
  /\ toServer = <<>>
  /\ \/ toSender = <<Ack>> /\ (spc = "failed" \/ Took(frag))
     \/ toSender = <<Ack, Goodbye>> /\ Complete

Phase ==
  /\ pc \in {"send", "wait"} => file \in File /\ frag \in 1..Fragments[file]
  /\ pc = "prompt" =>
       toServer = <<>> /\ toSender = <<>> /\ spc \in {"idle", "failed"}
  /\ pc = "send" =>
       /\ toServer = <<>> /\ toSender = <<>>
       /\ spc = "failed" \/ ServerAt(frag)
  /\ pc = "wait" => Sent \/ Dropped \/ Answered
  /\ pc = "goodbye" =>
       /\ file \in File /\ toServer = <<>>
       /\ \/ toSender = <<>> /\ Fragments[file] = 0 /\ spc = "idle"
          \/ toSender = <<>> /\ spc = "failed"
          \/ toSender = <<>> /\ frag = Fragments[file] /\ Took(frag)
          \/ toSender = <<Goodbye>> /\ Complete
  /\ pc = "quit" =>
       \/ toServer = <<>> /\ spc \in {"idle", "quit", "failed"}
       \/ toServer = <<Done>> /\ spc = "idle"

\* Every file is stored from its beginning, in order.
Prefixes ==
  \A f \in File :
    /\ Len(stored[f]) <= Fragments[f]
    /\ \A n \in 1..Len(stored[f]) : stored[f][n] = Copy!Fragment(f, n)

\* What fd is open on: the fragments before its position are in the file.
Position ==
  /\ spc \in {"body", "write", "goodbye"} =>
       receiving \in File /\ written <= Len(stored[receiving])
  /\ spc = "write" =>
       /\ written < Fragments[receiving]
       /\ held = Copy!Fragment(receiving, written + 1)
  /\ spc = "goodbye" => written = Fragments[receiving]

Inv == TypeOK /\ Phase /\ Prefixes /\ Position

\* However early the time-outs: the sender has a fragment of the file to send,
\* and the receiver stops at the number of fragments of the one it has open.
Counted ==
  /\ pc \in {"send", "wait"} => file \in File /\ frag \in 1..Fragments[file]
  /\ spc \in {"body", "write", "goodbye"} =>
       receiving \in File /\ written <= Len(stored[receiving])
  /\ spc \in {"body", "write"} => written < Fragments[receiving]
  /\ spc = "write" => held \in Pieces
  /\ \A f \in File : Len(stored[f]) <= Fragments[f]

-----------------------------------------------------------------------------
(* Sequences of at most two datagrams, and the fragments.                  *)

LEMMA Short ==
  ASSUME NEW a, NEW b
  PROVE  /\ Head(<<a>>) = a /\ Tail(<<a>>) = <<>> /\ Append(<<>>, a) = <<a>>
         /\ Head(<<a, b>>) = a /\ Tail(<<a, b>>) = <<b>>
         /\ Append(<<a>>, b) = <<a, b>>
         /\ <<a>> # <<>> /\ <<a, b>> # <<>>
<1>1. Head(<<a>>) = a /\ Head(<<a, b>>) = a
  OBVIOUS
<1>2. Tail(<<a>>) = <<>>
  OBVIOUS
<1>3. Tail(<<a, b>>) = <<b>>
  OBVIOUS
<1>4. Append(<<>>, a) = <<a>>
  OBVIOUS
<1>5. Append(<<a>>, b) = <<a, b>>
  <2>1. <<a>> \in Seq({a, b}) /\ <<a, b>> \in Seq({a, b}) /\ b \in {a, b}
    OBVIOUS
  <2>2. /\ Append(<<a>>, b) \in Seq({a, b}) /\ Len(Append(<<a>>, b)) = 2
        /\ Append(<<a>>, b)[1] = a /\ Append(<<a>>, b)[2] = b
    BY <2>1, AppendProperties
  <2>3. \A k \in 1..2 : Append(<<a>>, b)[k] = <<a, b>>[k]
    BY <2>2
  <2> QED BY <2>1, <2>2, <2>3, SeqEqual
<1>6. <<a>> # <<>> /\ <<a, b>> # <<>>
  OBVIOUS
<1> QED BY <1>1, <1>2, <1>3, <1>4, <1>5, <1>6

LEMMA Kinds ==
  ASSUME NEW f, NEW n, NEW g, NEW m
  PROVE  /\ Copy!Fragment(f, n) # Done /\ Ack # Goodbye
         /\ Copy!Fragment(f, n).file = f /\ Copy!Fragment(f, n).no = n
BY DEF Copy!Fragment, Done, Ack, Goodbye

LEMMA FragmentTypes ==
  ASSUME TransferAssumption, NEW f \in File, NEW n \in 1..Fragments[f]
  PROVE  Copy!Fragment(f, n) \in Pieces
BY DEF Pieces, TransferAssumption

LEMMA InitInv == TransferAssumption /\ Init => Inv
BY DEF Init, Inv, TypeOK, Phase, Prefixes, Position, TransferAssumption

-----------------------------------------------------------------------------
(* The types.                                                              *)

LEMMA TypeStep ==
  ASSUME TransferAssumption, TypeOK, Counted, [Next]_vars
  PROVE  TypeOK'
<1> USE DEF TypeOK
<1>1. ASSUME NEW f \in File, SenderStart(f) PROVE TypeOK'
  BY <1>1 DEF SenderStart, receiver
<1>2. CASE SenderDone
  BY <1>2 DEF SenderDone, SendToServer, receiver
<1>3. CASE SenderSend
  <2>1. Copy!Fragment(file, frag) \in Pieces
    BY <1>3, FragmentTypes DEF SenderSend, Counted
  <2> QED BY <1>3, <2>1 DEF SenderSend, SendToServer, receiver
<1>4. CASE SenderTimeout
  BY <1>4 DEF SenderTimeout, receiver
<1>5. CASE SenderAck \/ SenderGoodbye
  <2>1. toSender # <<>> /\ toSender' = Tail(toSender)
    BY <1>5 DEF SenderAck, SenderGoodbye
  <2>2. toSender' \in Seq({Ack, Goodbye})
    BY <2>1
  <2>3. CASE SenderAck
    BY <2>2, <2>3 DEF SenderAck, receiver
  <2>4. CASE SenderGoodbye
    BY <2>2, <2>4 DEF SenderGoodbye, receiver
  <2> QED BY <1>5, <2>3, <2>4
<1>6. CASE ServerDrop
  BY <1>6 DEF ServerDrop, sender, receiver
<1>7. CASE ServerAccept
  <2>1. toServer # <<>> /\ toServer' = Tail(toServer) /\ toSender' = Append(toSender, Ack)
    BY <1>7 DEF ServerAccept, ServerDone, ServerFirst, ServerNext, Acknowledge
  <2>2. /\ toServer' \in Seq(Pieces \cup {Done})
        /\ Head(toServer) \in Pieces \cup {Done}
    BY <2>1
  <2>3. toSender' \in Seq({Ack, Goodbye})
    BY <2>1
  <2>4. ASSUME NEW d \in Pieces PROVE d.file \in File
    BY Kinds DEF Pieces
  <2>5. CASE ServerDone
    BY <2>2, <2>3, <2>5 DEF ServerDone, sender
  <2>6. CASE ServerFirst
    BY <2>2, <2>3, <2>4, <2>6 DEF ServerFirst, sender
  <2>7. CASE ServerNext
    BY <2>2, <2>3, <2>7 DEF ServerNext, sender
  <2> QED BY <1>7, <2>5, <2>6, <2>7 DEF ServerAccept
<1>8. CASE ServerWrite
  <2>1. receiving \in File /\ held \in Pieces
    BY <1>8 DEF ServerWrite, Counted
  <2>2. stored[receiving] \in Seq(Pieces)
    BY <2>1
  <2>3. Overwrite(stored[receiving], written + 1, held) \in Seq(Pieces)
    BY <2>1, <2>2, AppendProperties, ExceptSeq DEF Overwrite
  <2> QED BY <1>8, <2>1, <2>3 DEF ServerWrite, sender
<1>9. CASE ServerFail
  BY <1>9 DEF ServerFail, sender
<1>10. CASE ServerGoodbye
  <2>1. toSender' \in Seq({Ack, Goodbye})
    BY <1>10 DEF ServerGoodbye
  <2> QED BY <1>10, <2>1 DEF ServerGoodbye, sender
<1>11. CASE UNCHANGED vars
  BY <1>11 DEF vars, sender, receiver
<1> QED BY <1>1, <1>2, <1>3, <1>4, <1>5, <1>6, <1>7, <1>8, <1>9, <1>10, <1>11
     DEF Next, SenderStep, ServerStep

-----------------------------------------------------------------------------
(* What the numbers are bounded by.                                        *)

LEMMA AckCounted ==
  ASSUME TransferAssumption, TypeOK, Counted, SenderAck
  PROVE  Counted'
<1>1. /\ file \in File /\ frag \in 1..Fragments[file] /\ Fragments[file] \in Nat
      /\ file' = file /\ UNCHANGED receiver
  BY DEF Counted, SenderAck, TransferAssumption
<1>2. pc' = "send" => frag' = frag + 1 /\ frag < Fragments[file]
  BY DEF SenderAck
<1>3. pc' # "wait"
  BY DEF SenderAck
<1> QED BY <1>1, <1>2, <1>3 DEF Counted, receiver

LEMMA WriteCounted ==
  ASSUME TransferAssumption, TypeOK, Counted, ServerWrite
  PROVE  Counted'
<1>1. PICK r \in File : r = receiving
  BY DEF ServerWrite, Counted
<1>2. PICK s : s = Overwrite(stored[r], written + 1, held)
  OBVIOUS
<1>3. /\ stored[r] \in Seq(Pieces) /\ held \in Pieces /\ Fragments[r] \in Nat /\ written \in Nat
      /\ written <= Len(stored[r]) /\ Len(stored[r]) <= Fragments[r] /\ written < Fragments[r]
  BY <1>1 DEF ServerWrite, Counted, TypeOK, TransferAssumption
<1>4. Len(s) <= Fragments[r] /\ written + 1 <= Len(s)
  <2>1. CASE written + 1 <= Len(stored[r])
    <3>1. s \in Seq(Pieces) /\ Len(s) = Len(stored[r])
      BY <1>2, <1>3, <2>1, ExceptSeq DEF Overwrite
    <3> QED BY <1>3, <2>1, <3>1
  <2>2. CASE ~ (written + 1 <= Len(stored[r]))
    <3>1. s = Append(stored[r], held)
      BY <1>2, <2>2 DEF Overwrite
    <3>2. Len(s) = Len(stored[r]) + 1 /\ Len(stored[r]) \in Nat
      BY <1>3, <3>1, AppendProperties
    <3> QED BY <1>3, <2>2, <3>2
  <2> QED BY <2>1, <2>2
<1>5. /\ stored' = [stored EXCEPT ![r] = s] /\ written' = written + 1
      /\ spc' = IF written + 1 < Fragments[r] THEN "body" ELSE "goodbye"
      /\ UNCHANGED <<sender, receiving>>
  BY <1>1, <1>2 DEF ServerWrite
<1>6. stored'[r] = s /\ \A f \in File \ {r} : stored'[f] = stored[f]
  BY <1>5 DEF TypeOK
<1>7. \A f \in File : Len(stored'[f]) <= Fragments[f]
  BY <1>4, <1>6 DEF Counted
<1>8. pc' \in {"send", "wait"} => file' \in File /\ frag' \in 1..Fragments[file']
  BY <1>5 DEF Counted, sender
<1> QED BY <1>1, <1>3, <1>4, <1>5, <1>6, <1>7, <1>8 DEF Counted

LEMMA CountedStep ==
  ASSUME TransferAssumption, TypeOK, Counted, [Next]_vars
  PROVE  Counted'
<1>1. ASSUME NEW f \in File, SenderStart(f) PROVE Counted'
  BY <1>1 DEF SenderStart, Counted, TransferAssumption, receiver
<1>2. CASE SenderDone \/ SenderSend \/ SenderTimeout \/ SenderGoodbye
  BY <1>2 DEF SenderDone, SenderSend, SenderTimeout, SenderGoodbye, Counted, receiver
<1>3. CASE ServerDrop \/ ServerDone \/ ServerFail \/ ServerGoodbye
  BY <1>3 DEF ServerDrop, ServerDone, ServerFail, ServerGoodbye, Counted, sender, receiver
<1>4. CASE ServerFirst \/ ServerNext
  <2>1. toServer # <<>> /\ Head(toServer) \in Pieces
    <3>1. toServer # <<>> /\ Head(toServer) # Done
      BY <1>4 DEF ServerFirst, ServerNext, Acknowledge
    <3>2. Head(toServer) \in Pieces \cup {Done}
      BY <3>1 DEF TypeOK
    <3> QED BY <3>1, <3>2
  <2>2. PICK f \in File : \E n \in 1..Fragments[f] : Head(toServer) = Copy!Fragment(f, n)
    BY <2>1 DEF Pieces
  <2>3. Head(toServer).file = f /\ 0 < Fragments[f] /\ 0 <= Len(stored[f])
    BY <2>2, Kinds DEF TransferAssumption, TypeOK
  <2>4. CASE ServerFirst
    BY <2>1, <2>3, <2>4 DEF ServerFirst, Counted, sender
  <2>5. CASE ServerNext
    BY <2>1, <2>5 DEF ServerNext, Counted, sender
  <2> QED BY <1>4, <2>4, <2>5
<1>5. CASE UNCHANGED vars
  BY <1>5 DEF vars, sender, receiver, Counted
<1> QED BY <1>1, <1>2, <1>3, <1>4, <1>5, AckCounted, WriteCounted
     DEF Next, SenderStep, ServerAccept, ServerStep

LEMMA SpecCounted == Spec => [](TypeOK /\ Counted)
<1>1. Init => TypeOK /\ Counted
  BY TransferAssumption DEF Init, TypeOK, Counted, TransferAssumption
<1>2. TypeOK /\ Counted /\ [Next]_vars => (TypeOK /\ Counted)'
  BY TypeStep, CountedStep, TransferAssumption
<1> QED BY <1>1, <1>2, PTL DEF Spec

-----------------------------------------------------------------------------
(* The other parts.  The steps of the sender leave the files alone.        *)

LEMMA SenderFiles ==
  ASSUME Prefixes, Position, UNCHANGED receiver
  PROVE  Prefixes' /\ Position'
BY DEF Prefixes, Position, receiver

LEMMA StartPhase ==
  ASSUME TransferAssumption, TypeOK, Phase, NEW f \in File, SenderStart(f)
  PROVE  Phase'
BY DEF TypeOK, Phase, SenderStart, ServerAt, receiver, TransferAssumption

LEMMA DonePhase ==
  ASSUME TypeOK, Phase, SenderDone
  PROVE  Phase'
BY Short DEF TypeOK, Phase, SenderDone, SendToServer, receiver

LEMMA SendPhase ==
  ASSUME TypeOK, Phase, SenderSend
  PROVE  Phase'
BY Short DEF TypeOK, Phase, SenderSend, SendToServer, receiver, Sent, Dropped, ServerAt

LEMMA TimeoutPhase ==
  ASSUME TimerExact, TypeOK, Phase, SenderTimeout
  PROVE  Phase'
BY Short DEF TypeOK, Phase, SenderTimeout, Quiet, receiver, Sent, Dropped, Answered, ServerAt

LEMMA AckPhase ==
  ASSUME TransferAssumption, TypeOK, Phase, SenderAck
  PROVE  Phase'
<1> USE DEF TypeOK
<1>1. file \in File /\ frag \in 1..Fragments[file] /\ Fragments[file] \in Nat
  BY DEF Phase, SenderAck, TransferAssumption
<1>2. Answered
  BY DEF Phase, SenderAck, Sent, Dropped
<1>3. /\ toServer = <<>>
      /\ \/ toSender' = <<>> /\ (spc = "failed" \/ Took(frag))
         \/ toSender' = <<Goodbye>> /\ Complete
  <2>1. toSender' = Tail(toSender) /\ Tail(<<Ack>>) = <<>>
        /\ Tail(<<Ack, Goodbye>>) = <<Goodbye>>
    BY Short DEF SenderAck
  <2> QED BY <1>2, <2>1 DEF Answered
<1>4. CASE frag < Fragments[file]
  <2>1. /\ file' = file /\ frag' = frag + 1 /\ pc' = "send"
        /\ toServer' = toServer /\ UNCHANGED <<spc, receiving, written, held>>
    BY <1>1, <1>4 DEF SenderAck, receiver
  <2>2. toSender' = <<>> /\ (spc = "failed" \/ Took(frag))
    BY <1>1, <1>3, <1>4 DEF Complete
  <2>3. spc' = "failed" \/ ServerAt(frag)'
    BY <1>1, <1>4, <2>1, <2>2 DEF Took, ServerAt
  <2>4. frag' \in 1..Fragments[file]
    BY <1>1, <1>4, <2>1
  <2> QED BY <1>1, <1>3, <2>1, <2>2, <2>3, <2>4 DEF Phase
<1>5. CASE frag = Fragments[file]
  <2>1. /\ file' = file /\ frag' = frag /\ pc' = "goodbye"
        /\ toServer' = toServer
        /\ UNCHANGED <<spc, receiving, written, held, stored>>
    BY <1>1, <1>5 DEF SenderAck, receiver
  <2>2. (Took(frag) => Took(frag)') /\ (Complete => Complete')
    BY <2>1 DEF Took, Complete
  <2> QED BY <1>1, <1>3, <1>5, <2>1, <2>2 DEF Phase
<1> QED BY <1>1, <1>4, <1>5

LEMMA GoodbyePhase ==
  ASSUME TypeOK, Phase, SenderGoodbye
  PROVE  Phase'
BY Short DEF TypeOK, Phase, SenderGoodbye, receiver, Complete

-----------------------------------------------------------------------------
(* The steps of the receiver.                                              *)

LEMMA DropInv ==
  ASSUME TypeOK, Phase, Prefixes, Position, ServerDrop
  PROVE  Phase' /\ Prefixes' /\ Position'
<1>1. Phase'
  BY Short DEF Phase, ServerDrop, sender, receiver, Sent, Dropped, Answered,
               ServerAt
<1> QED BY <1>1, SenderFiles DEF ServerDrop

\* The datagram the receiver takes, unless it is "done", is the fragment the
\* sender waits for, and the one that fits.
LEMMA AcceptInv ==
  ASSUME TransferAssumption, TypeOK, Phase, Prefixes, Position, ServerAccept
  PROVE  Phase' /\ Prefixes' /\ Position'
<1> USE DEF TypeOK
<1>1. CASE ServerDone
  <2>1. pc = "quit" /\ toServer = <<Done>>
    BY <1>1, Short, Kinds DEF ServerDone, Acknowledge, Phase, Sent, Dropped, Answered
  <2>2. pc' = "quit" /\ toServer' = <<>> /\ spc' = "quit"
    BY <1>1, <2>1, Short DEF ServerDone, Acknowledge, sender
  <2> QED BY <1>1, <2>2 DEF Phase, Prefixes, Position, ServerDone
<1>2. CASE ServerFirst \/ ServerNext
  <2>1. /\ toServer # <<>> /\ Head(toServer) # Done
        /\ toServer' = Tail(toServer) /\ toSender' = Append(toSender, Ack)
        /\ UNCHANGED <<pc, file, frag, stored>>
        /\ held' = Head(toServer) /\ spc' = "write" /\ spc \in {"idle", "body"}
    BY <1>2 DEF ServerFirst, ServerNext, Acknowledge, sender
  <2>2. pc = "wait" /\ Sent
    BY <2>1, Short DEF Phase, Dropped, Answered
  <2>3. file \in File /\ frag \in 1..Fragments[file] /\ Fragments[file] \in Nat
    BY <2>2 DEF Phase, TransferAssumption
  <2>4. /\ toServer' = <<>> /\ toSender' = <<Ack>>
        /\ held' = Copy!Fragment(file, frag)
    BY <2>1, <2>2, Short DEF Sent
  <2>5. receiving' = file /\ written' + 1 = frag /\ written' \in Nat
    BY <1>2, <2>1, <2>2, <2>3, <2>4, Kinds
    DEF ServerFirst, ServerNext, Sent, ServerAt
  <2>6. written' <= Len(stored[file])
    BY <1>2, <2>1, <2>2, <2>3, <2>5 DEF ServerFirst, ServerNext, Position, Sent, ServerAt
  <2>7. Took(frag)'
    BY <2>1, <2>4, <2>5 DEF Took, Copy!Fragment
  <2>8. Phase'
    BY <2>1, <2>2, <2>3, <2>4, <2>7 DEF Phase, Answered
  <2>9. Position'
    BY <2>1, <2>3, <2>4, <2>5, <2>6 DEF Position, Copy!Fragment
  <2> QED BY <2>1, <2>8, <2>9 DEF Prefixes
<1> QED BY <1>1, <1>2 DEF ServerAccept

\* What a write does to a file that is a prefix up to the position of fd.
LEMMA Written ==
  ASSUME NEW f \in File, NEW n \in Nat, TransferAssumption, TypeOK, Prefixes,
         n <= Len(stored[f]), n < Fragments[f],
         NEW s, s = Overwrite(stored[f], n + 1, Copy!Fragment(f, n + 1))
  PROVE  /\ n + 1 <= Len(s) /\ Len(s) <= Fragments[f]
         /\ \A k \in 1..Len(s) : s[k] = Copy!Fragment(f, k)
         /\ \/ s = stored[f]
            \/ /\ s = Append(stored[f], Copy!Fragment(f, Len(stored[f]) + 1))
               /\ Len(stored[f]) < Fragments[f]
<1> DEFINE old == stored[f]
           d == Copy!Fragment(f, n + 1)
<1>1. /\ old \in Seq(Pieces) /\ Len(old) <= Fragments[f] /\ Fragments[f] \in Nat
      /\ \A k \in 1..Len(old) : old[k] = Copy!Fragment(f, k)
  BY DEF TypeOK, Prefixes, TransferAssumption
<1>2. d \in Pieces
  BY <1>1, FragmentTypes
<1> HIDE DEF old, d
<1>3. CASE n + 1 <= Len(old)
  <2>1. s = [old EXCEPT ![n + 1] = d]
    BY <1>3 DEF Overwrite, old, d
  <2>2. old[n + 1] = d
    BY <1>1, <1>3 DEF d
  <2>3. /\ s \in Seq(Pieces) /\ Len(s) = Len(old)
        /\ \A k \in 1..Len(old) : s[k] = old[k]
    BY <1>1, <1>2, <1>3, <2>1, <2>2, ExceptSeq
  <2>4. s = old
    BY <1>1, <2>3, SeqEqual
  <2> QED BY <1>1, <1>3, <2>4 DEF old
<1>4. CASE ~(n + 1 <= Len(old))
  <2>1. n = Len(old)
    BY <1>1, <1>4 DEF old
  <2>2. s = Append(old, d)
    BY <1>4 DEF Overwrite, old, d
  <2>3. /\ Len(s) = n + 1 /\ s[n + 1] = d
        /\ \A k \in 1..n : s[k] = old[k]
    BY <1>1, <1>2, <2>1, <2>2, AppendProperties
  <2>4. \A k \in 1..Len(s) : s[k] = Copy!Fragment(f, k)
    BY <1>1, <2>1, <2>3 DEF d
  <2> QED BY <1>1, <2>1, <2>2, <2>3, <2>4 DEF old, d
<1> QED BY <1>3, <1>4

LEMMA WriteInv ==
  ASSUME TransferAssumption, TypeOK, Phase, Prefixes, Position, ServerWrite
  PROVE  Phase' /\ Prefixes' /\ Position'
<1> DEFINE s == Overwrite(stored[receiving], written + 1, held)
<1>1. /\ receiving \in File /\ written < Fragments[receiving]
      /\ written <= Len(stored[receiving]) /\ written \in Nat
      /\ held = Copy!Fragment(receiving, written + 1)
      /\ Fragments[receiving] \in Nat
  BY DEF ServerWrite, Position, TransferAssumption, TypeOK
<1>2. /\ written + 1 <= Len(s) /\ Len(s) <= Fragments[receiving]
      /\ \A k \in 1..Len(s) : s[k] = Copy!Fragment(receiving, k)
  <2>1. s = Overwrite(stored[receiving], written + 1,
                      Copy!Fragment(receiving, written + 1))
    BY <1>1
  <2> HIDE DEF s
  <2> QED BY <1>1, <2>1, Written
<1>3. /\ stored' = [stored EXCEPT ![receiving] = s] /\ written' = written + 1
      /\ spc = "write"
      /\ UNCHANGED <<pc, file, frag, receiving, held, toServer, toSender>>
      /\ \/ spc' = "body" /\ written + 1 < Fragments[receiving]
         \/ spc' = "goodbye" /\ written + 1 = Fragments[receiving]
  BY <1>1 DEF ServerWrite, sender
<1> HIDE DEF s
<1>4. Prefixes'
  BY <1>1, <1>2, <1>3 DEF Prefixes, Copy!Fragment, TypeOK
<1>5. Position'
  BY <1>1, <1>2, <1>3 DEF Position, TypeOK
<1>6. Phase'
  <2>1. ASSUME pc \in {"send", "wait"}, ServerAt(frag)
        PROVE  ServerAt(frag)'
    BY <1>1, <1>3, <2>1 DEF Phase, ServerAt, TransferAssumption, Copy!Fragment, TypeOK
  <2>2. ASSUME Took(frag) PROVE Took(frag)'
    BY <1>1, <1>3, <2>2 DEF Took, Copy!Fragment, TypeOK
  <2> QED BY <1>3, <2>1, <2>2
       DEF Phase, Sent, Dropped, Answered, Complete, Copy!Fragment
<1> QED BY <1>4, <1>5, <1>6

LEMMA FailInv ==
  ASSUME TypeOK, Phase, Prefixes, Position, ServerFail
  PROVE  Phase' /\ Prefixes' /\ Position'
<1>1. Phase'
  BY DEF Phase, ServerFail, sender, Sent, Dropped, Answered, Complete
<1> QED BY <1>1 DEF Prefixes, Position, ServerFail

LEMMA ServerGoodbyeInv ==
  ASSUME TransferAssumption, TypeOK, Phase, Prefixes, Position, ServerGoodbye
  PROVE  Phase' /\ Prefixes' /\ Position'
<1> USE DEF TypeOK
<1>1. /\ receiving \in File /\ written = Fragments[receiving]
      /\ Len(stored[receiving]) = Fragments[receiving]
      /\ Fragments[receiving] \in Nat
  BY DEF ServerGoodbye, Position, Prefixes, TransferAssumption
<1>2. /\ spc = "goodbye" /\ spc' = "idle"
      /\ toSender' = Append(toSender, Goodbye)
      /\ UNCHANGED <<pc, file, frag, written, stored, toServer>>
  BY DEF ServerGoodbye, sender
<1>3. ASSUME Took(frag) PROVE Complete'
  BY <1>1, <1>2, <1>3 DEF Took, Complete
<1>4. ASSUME pc = "wait" PROVE Phase'
  <2>1. toServer = <<>> /\ toSender = <<Ack>> /\ Took(frag)
    BY <1>2, <1>4 DEF Phase, Sent, Dropped, Answered, ServerAt, Complete
  <2>2. toSender' = <<Ack, Goodbye>>
    BY <1>2, <2>1, Short
  <2> QED BY <1>2, <1>3, <1>4, <2>1, <2>2 DEF Phase, Answered
<1>5. ASSUME pc = "goodbye" PROVE Phase'
  <2>1. toServer = <<>> /\ toSender = <<>> /\ Took(frag)
    BY <1>2, <1>5 DEF Phase, Complete
  <2>2. toSender' = <<Goodbye>>
    BY <1>2, <2>1, Short
  <2> QED BY <1>2, <1>3, <1>5, <2>1, <2>2 DEF Phase
<1>6. pc \in {"wait", "goodbye"}
  BY <1>2 DEF Phase, ServerAt
<1> QED BY <1>2, <1>4, <1>5, <1>6 DEF Prefixes, Position

\* A receiver that reads the next fragments still has fragments to read.
LEMMA InvCounted ==
  ASSUME TransferAssumption, Inv
  PROVE  Counted
<1> USE DEF Inv
<1>1. ASSUME spc = "body" PROVE written < Fragments[receiving]
  <2>1. /\ pc \in {"wait", "send", "goodbye"} /\ file \in File
        /\ (ServerAt(frag) /\ frag \in 1..Fragments[file]) \/ Took(frag)
    BY <1>1 DEF Phase, Sent, Dropped, Answered, Complete, TypeOK
  <2> QED BY <1>1, <2>1 DEF ServerAt, Took, TypeOK, TransferAssumption
<1>2. ASSUME spc = "write" PROVE held \in Pieces
  <2>1. /\ receiving \in File /\ Fragments[receiving] \in Nat
        /\ written + 1 \in 1..Fragments[receiving]
        /\ held = Copy!Fragment(receiving, written + 1)
    BY <1>2 DEF Position, TypeOK, TransferAssumption
  <2> QED BY <2>1, FragmentTypes
<1> QED BY <1>1, <1>2 DEF Counted, Phase, Position, Prefixes

\* Where every step leads, while no time-out is early.
LEMMA StepInv ==
  ASSUME TransferAssumption, TimerExact, Inv, [Next]_vars
  PROVE  Inv'
<1> USE DEF Inv
<1>1. TypeOK'
  BY TypeStep, InvCounted
<1>2. ASSUME NEW f \in File, SenderStart(f) PROVE Inv'
  BY <1>1, <1>2, StartPhase, SenderFiles DEF SenderStart
<1>3. CASE SenderDone
  BY <1>1, <1>3, DonePhase, SenderFiles DEF SenderDone
<1>4. CASE SenderSend
  BY <1>1, <1>4, SendPhase, SenderFiles DEF SenderSend
<1>5. CASE SenderTimeout
  BY <1>1, <1>5, TimeoutPhase, SenderFiles DEF SenderTimeout
<1>6. CASE SenderAck
  BY <1>1, <1>6, AckPhase, SenderFiles DEF SenderAck
<1>7. CASE SenderGoodbye
  BY <1>1, <1>7, GoodbyePhase, SenderFiles DEF SenderGoodbye
<1>8. CASE ServerDrop \/ ServerAccept
  BY <1>1, <1>8, DropInv, AcceptInv
<1>9. CASE ServerStep
  BY <1>1, <1>9, WriteInv, FailInv, ServerGoodbyeInv DEF ServerStep
<1>10. CASE UNCHANGED vars
  BY <1>1, <1>10, SenderFiles
  DEF vars, sender, receiver, Phase, Sent, Dropped, Answered, ServerAt, Took,
      Complete
<1> QED BY <1>2, <1>3, <1>4, <1>5, <1>6, <1>7, <1>8, <1>9, <1>10
     DEF Next, SenderStep

\* Inv is an invariant.
LEMMA SpecInv == ASSUME TimerExact PROVE Spec => []Inv
<1>1. Init => Inv
  BY InitInv, TransferAssumption
<1>2. Inv /\ [Next]_vars => Inv'
  BY StepInv, TransferAssumption, TimerExact
<1> QED BY <1>1, <1>2, PTL DEF Spec

-----------------------------------------------------------------------------
(* The theorems.                                                           *)

\* The variables keep their types, for any files and any number of fragments,
\* however early a time-out expires.
THEOREM TransferTypes == Spec => []TypeOK
BY SpecCounted, PTL

\* However early a time-out expires, and whatever is then written twice or in
\* the wrong file, no file of the receiver gets longer than the sender's.
THEOREM NeverTooLong == Spec => [](\A f \in File : Len(stored[f]) <= Fragments[f])
<1>1. Counted => \A f \in File : Len(stored[f]) <= Fragments[f]
  BY DEF Counted
<1> QED BY <1>1, SpecCounted, PTL

\* Without early time-outs, every fragment on its way to the receiver is the
\* one that fits at the position of fd, although neither side looks at the
\* numbers of the other.
THEOREM AlwaysFits == ASSUME TimerExact PROVE Spec => []OnlyWhatFits
<1>1. ASSUME TransferAssumption, Inv PROVE OnlyWhatFits
  <2> USE DEF Inv, TypeOK
  <2>1. CASE toServer = <<>>
    BY <2>1 DEF OnlyWhatFits
  <2>2. CASE toServer = <<Done>> /\ spc = "idle"
    BY <2>2 DEF OnlyWhatFits, Fits
  <2>3. CASE pc = "wait" /\ Sent
    <3>1. Fits(Copy!Fragment(file, frag))
      BY <1>1, <2>3, Kinds DEF Phase, Sent, ServerAt, Fits, TransferAssumption
    <3> QED BY <2>3, <3>1 DEF OnlyWhatFits, Sent
  <2> QED BY <1>1, <2>1, <2>2, <2>3 DEF Phase, Dropped, Answered
<1> QED BY <1>1, TransferAssumption, SpecInv, TimerExact, PTL

\* Without early time-outs, no answer outlives the wait it belongs to.
THEOREM AnswersAlwaysMatch == ASSUME TimerExact PROVE Spec => []AnswersMatch
<1>1. ASSUME Phase PROVE AnswersMatch
  <2>1. pc \in {"send", "prompt"} => toSender = <<>>
    BY <1>1 DEF Phase
  <2>2. pc = "goodbye" => toSender = <<>> \/ toSender = <<Goodbye>>
    BY <1>1 DEF Phase
  <2>3. ASSUME pc = "goodbye"
        PROVE  /\ Len(toSender) <= 1
               /\ \A k \in 1..Len(toSender) : toSender[k] = Goodbye
    <3>1. CASE toSender = <<>>
      BY <3>1
    <3>2. CASE toSender = <<Goodbye>>
      BY <3>2
    <3> QED BY <2>2, <2>3, <3>1, <3>2
  <2>4. ASSUME pc = "wait", toSender # <<>> PROVE Head(toSender) = Ack
    <3>1. toSender = <<Ack>> \/ toSender = <<Ack, Goodbye>>
      BY <1>1, <2>4 DEF Phase, Sent, Dropped, Answered
    <3> QED BY <3>1, Short
  <2> QED BY <2>1, <2>3, <2>4 DEF AnswersMatch
<1> QED BY <1>1, SpecInv, TimerExact, PTL DEF Inv

\* Without early time-outs, a sender in the wait for the goodbye, which has no
\* time-out (deliver.c:205), has it on its way, or the receiver has the last
\* fragment still to write or the goodbye to send; otherwise the receiver has
\* exited or the file has no fragment.  This is what of TransferEnds does not
\* depend on fairness.
THEOREM GoodbyeComes ==
  ASSUME TimerExact
  PROVE  Spec => [](pc = "goodbye" /\ ~ Hangs =>
                      \/ toSender = <<Goodbye>>
                      \/ spc \in {"write", "goodbye"} /\ receiving = file)
<1>1. TransferAssumption /\ Phase =>
        (pc = "goodbye" /\ ~ Hangs =>
           \/ toSender = <<Goodbye>>
           \/ spc \in {"write", "goodbye"} /\ receiving = file)
  <2> SUFFICES ASSUME TransferAssumption, Phase, pc = "goodbye", ~ Hangs, toSender # <<Goodbye>>
               PROVE  spc \in {"write", "goodbye"} /\ receiving = file
    OBVIOUS
  <2>1. frag = Fragments[file] /\ Took(frag) /\ Fragments[file] \in Nat
    BY DEF Phase, Hangs, TransferAssumption
  <2> QED BY <2>1 DEF Took
<1> QED BY <1>1, TransferAssumption, SpecInv, TimerExact, PTL DEF Inv

-----------------------------------------------------------------------------
(* The files and the refinement.                                           *)

LEMMA AllStored ==
  ASSUME TransferAssumption, TypeOK, Prefixes, NEW f \in File,
         Len(stored[f]) = Fragments[f]
  PROVE  stored[f] = Copy!Whole(f)
<1>1. /\ stored[f] \in Seq(Pieces) /\ Fragments[f] \in Nat
      /\ \A n \in 1..Fragments[f] : stored[f][n] = Copy!Fragment(f, n)
  BY DEF TypeOK, Prefixes, TransferAssumption
<1>2. /\ Copy!Whole(f) \in Seq(Pieces) /\ Len(Copy!Whole(f)) = Fragments[f]
      /\ \A n \in 1..Fragments[f] : Copy!Whole(f)[n] = Copy!Fragment(f, n)
  BY <1>1, FragmentTypes DEF Copy!Whole
<1> QED BY <1>1, <1>2, SeqEqual

\* Where the sender takes the goodbye.
LEMMA GoodbyeStored ==
  ASSUME TransferAssumption, TypeOK, Phase, Prefixes, SenderGoodbye
  PROVE  file \in File /\ stored[file] = Copy!Whole(file)
BY AllStored DEF SenderGoodbye, Phase, Complete

\* Without early time-outs, "was sent successfully!" is only said of a file of
\* which the receiver has every fragment in its place.
THEOREM SentAlwaysStored == ASSUME TimerExact PROVE Spec => SentMeansStored
<1> DEFINE Reported == \A f \in File : SenderGoodbye /\ file = f => stored[f] = Copy!Whole(f)
<1>1. Inv => Reported
  BY GoodbyeStored, TransferAssumption DEF Inv
<1>2. Inv /\ [Next]_vars => [Reported]_vars
  BY <1>1
<1> HIDE DEF Reported
<1>3. Spec => [][Reported]_vars
  BY <1>2, SpecInv, TimerExact, PTL DEF Spec
<1> QED BY <1>3 DEF SentMeansStored, Reported

LEMMA StepRefines ==
  ASSUME TransferAssumption, TypeOK, Phase, Prefixes, Position, [Next]_vars
  PROVE  [Copy!CopyNext]_(Copy!copy)
<1>1. ASSUME UNCHANGED <<file, stored>> PROVE UNCHANGED Copy!copy
  BY <1>1 DEF Copy!copy
<1>2. ASSUME NEW f \in File, SenderStart(f) PROVE Copy!CopyNext
  <2>1. Copy!Begin(f)
    BY <1>2 DEF SenderStart, TypeOK, Copy!Begin, receiver
  <2> QED BY <2>1 DEF Copy!CopyNext
<1>3. CASE SenderGoodbye
  <2>1. PICK f \in File : f = file
    BY <1>3, GoodbyeStored
  <2>2. stored[f] = Copy!Whole(f)
    BY <1>3, <2>1, GoodbyeStored
  <2>3. Copy!Finish(f)
    BY <1>3, <2>1, <2>2 DEF SenderGoodbye, Copy!Finish, receiver
  <2> QED BY <2>3 DEF Copy!CopyNext
<1>4. CASE ServerWrite
  <2>1. PICK f \in File : f = receiving
    BY <1>4 DEF ServerWrite, Position
  <2>2. file = f
    BY <1>4, <2>1
    DEF ServerWrite, Phase, Sent, Dropped, Answered, ServerAt, Took, Complete, TypeOK
  <2>3. PICK s : s = Overwrite(stored[f], written + 1, held)
    OBVIOUS
  <2>4. /\ stored' = [stored EXCEPT ![f] = s] /\ file' = file
        /\ stored \in [File -> Seq(Pieces)]
    BY <1>4, <2>1, <2>3 DEF ServerWrite, sender, TypeOK
  <2>5. \/ s = stored[f]
        \/ /\ s = Append(stored[f], Copy!Fragment(f, Len(stored[f]) + 1))
           /\ Len(stored[f]) < Fragments[f]
    <3>1. /\ written \in Nat /\ written <= Len(stored[f])
          /\ written < Fragments[f] /\ held = Copy!Fragment(f, written + 1)
      BY <1>4, <2>1 DEF ServerWrite, Position, TypeOK
    <3>2. s = Overwrite(stored[f], written + 1, Copy!Fragment(f, written + 1))
      BY <2>3, <3>1
    <3> QED BY <3>1, <3>2, Written
  <2>6. CASE s = stored[f]
    BY <1>1, <2>4, <2>6
  <2>7. CASE /\ s = Append(stored[f], Copy!Fragment(f, Len(stored[f]) + 1))
             /\ Len(stored[f]) < Fragments[f]
    <3>1. Copy!Store(f)
      BY <2>2, <2>4, <2>7 DEF Copy!Store
    <3> QED BY <3>1 DEF Copy!CopyNext
  <2> QED BY <2>5, <2>6, <2>7
<1>5. CASE SenderDone \/ SenderSend \/ SenderTimeout \/ SenderAck
  <2>1. UNCHANGED <<file, receiver>>
    BY <1>5 DEF SenderDone, SenderSend, SenderTimeout, SenderAck
  <2> QED BY <1>1, <2>1 DEF receiver
<1>6. CASE ServerDrop \/ ServerAccept \/ ServerFail \/ ServerGoodbye
  <2>1. UNCHANGED <<sender, stored>>
    BY <1>6 DEF ServerDrop, ServerAccept, ServerDone, ServerFirst, ServerNext,
                ServerFail, ServerGoodbye, receiver
  <2> QED BY <1>1, <2>1 DEF sender
<1>7. CASE UNCHANGED vars
  BY <1>1, <1>7 DEF vars, sender, receiver
<1> QED BY <1>2, <1>3, <1>4, <1>5, <1>6, <1>7 DEF Next, SenderStep, ServerStep

\* Without early time-outs, the receiver stores every file in order and once,
\* over any number of transfers, and the sender reports a file as sent only
\* when all of it is stored; whatever is dropped and wherever the receiver
\* fails.
THEOREM TransferImplementsCopy ==
  ASSUME TimerExact PROVE Spec => CopiesFaithfully
<1>1. Init => Copy!CopyInit
  BY DEF Init, Copy!CopyInit
<1>2. Inv /\ [Next]_vars => [Copy!CopyNext]_(Copy!copy)
  BY StepRefines, TransferAssumption DEF Inv
<1> QED BY <1>1, <1>2, SpecInv, TimerExact, PTL
     DEF Spec, CopiesFaithfully, Copy!CopySpec
=============================================================================
