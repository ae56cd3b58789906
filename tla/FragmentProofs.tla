--------------------------- MODULE FragmentProofs ---------------------------
(***************************************************************************)
(* Three theorems about FragmentTransfer for any senders, files and names  *)
(* and any number of transfers, whatever the network loses and wherever    *)
(* the server fails.  Phase describes, for each step of a sender, where    *)
(* the server is and what is on its way, as long as no two senders are     *)
(* mixed.  Full says how much of the current file is stored.  Expecting    *)
(* says what a sender that waits may still hope for.                       *)
(***************************************************************************)
EXTENDS FragmentTransfer, WireFormatProofs

\* The texts of the fragments of f.
Text(f, i) == convert_to_string(write_packets(total_frag(f), i, Name[f], Piece(f, i)))
Fragments(f) == {Text(f, i) : i \in 1..total_frag(f)}
Datagram == [from : Sender, text : {done} \cup UNION {Fragments(f) : f \in Upload}]

Gone == server.pc \in {"quit", "failed"}
Serving(s) == server.pc \in {"body", "write", "goodbye"} /\ server.from_addr = s
Pending(s) == \E k \in 1..Len(datagrams) : datagrams[k].from = s
Total(s) == total_frag(deliver[s].file)

\* The server has taken the current fragment of s, and not sent the goodbye.
Took(s) ==
  /\ Serving(s) /\ server.total_frag = Total(s) /\ Total(s) \in Nat
  /\ \/ server.pc = "write" /\ server.i + 1 = deliver[s].i /\ deliver[s].i <= Total(s)
     \/ server.pc = "body" /\ server.i = deliver[s].i /\ deliver[s].i < Total(s)
     \/ server.pc = "goodbye" /\ server.i = deliver[s].i /\ deliver[s].i = Total(s)

\* The server will do with the current fragment of s next, or another sender
\* comes before its first one.
Awaits(s) ==
  \/ deliver[s].i = 1 /\ ~ Serving(s)
  \/ /\ deliver[s].i > 1 /\ Serving(s) /\ server.total_frag = Total(s)
     /\ \/ server.pc = "write" /\ server.i + 1 = deliver[s].i - 1
        \/ server.pc = "body" /\ server.i = deliver[s].i - 1

Unanswered(s) == replies[s] = <<>> /\ (Awaits(s) \/ (~ Pending(s) /\ (Took(s) \/ ~ Serving(s))))
Replied(s) == replies[s] = <<"reply">> /\ ~ Pending(s) /\ (Gone \/ Took(s))
Served(s) ==
  /\ replies[s] \in {<<"reply", "goodbye">>, <<"goodbye">>}
  /\ ~ Pending(s) /\ ~ Serving(s) /\ deliver[s].i = Total(s)

Phase(s) ==
  /\ deliver[s].pc \in {"send", "wait"} => deliver[s].file \in Upload /\ deliver[s].i \in 1..Total(s)
  /\ deliver[s].pc = "prompt" => replies[s] = <<>> /\ ~ Pending(s) /\ ~ Serving(s)
  /\ deliver[s].pc = "send" => replies[s] = <<>> /\ ~ Pending(s) /\ (Gone \/ Awaits(s))
  /\ deliver[s].pc = "wait" => Unanswered(s) \/ Replied(s) \/ Served(s)
  /\ deliver[s].pc = "goodbye" =>
       /\ ~ Pending(s)
       /\ \/ replies[s] = <<>> /\ (Took(s) \/ ~ Serving(s))
          \/ replies[s] = <<"goodbye">> /\ ~ Serving(s)
  /\ deliver[s].pc = "quit" => ~ Serving(s)

\* Every sender has at most one datagram on its way to the server.
Queue ==
  /\ Gone => datagrams = <<>>
  /\ \A j, k \in 1..Len(datagrams) : datagrams[j].from = datagrams[k].from => j = k
  /\ \A k \in 1..Len(datagrams) :
       \/ datagrams[k].text = done /\ deliver[datagrams[k].from].pc = "quit"
       \/ /\ datagrams[k].text \in Fragments(deliver[datagrams[k].from].file)
          /\ deliver[datagrams[k].from].pc = "wait"

Types ==
  /\ deliver \in [Sender -> [pc : {"prompt", "send", "wait", "goodbye", "quit"},
                             file : Upload \cup {NoUpload}, i : Nat]]
  /\ server = [pc |-> server.pc, total_frag |-> server.total_frag, i |-> server.i,
               fd |-> server.fd, position |-> server.position, data |-> server.data,
               from_addr |-> server.from_addr]
  /\ server.pc \in {"idle", "body", "write", "goodbye", "quit", "failed"} /\ server.i \in Nat
  /\ server.pc \in {"body", "write", "goodbye"} => server.from_addr \in Sender
  /\ datagrams \in Seq(Datagram) /\ replies \in [Sender -> Seq({"reply", "goodbye"})]

Good == Types /\ Queue /\ \A s \in Sender : Phase(s)
Inv == ~ mixed => Good

\* Files and names are texts, and a fragment has room for data.
Texts(S) ==
  /\ Colon \in S /\ Nat \subseteq S
  /\ Name \in [Upload -> Seq(S)] /\ Content \in [Upload -> Seq(S)]
  /\ file_frag_size \in Nat \ {0}

-----------------------------------------------------------------------------
(* The texts, and sequences of at most two answers.                        *)

\* ceil() gives a number of fragments.
LEMMA TotalType == ASSUME NEW S, Texts(S), NEW f \in Upload PROVE total_frag(f) \in Nat
<1>1. Content[f] \in Seq(S) /\ file_frag_size \in Nat \ {0}
  BY DEF Texts
<1>2. Len(Content[f]) + file_frag_size - 1 \in Nat
  BY <1>1
<1>3. \A a \in Nat, b \in Nat \ {0} : a \div b \in Nat
  OBVIOUS
<1> QED BY <1>1, <1>2, <1>3, Zenon DEF total_frag

\* What read() returns is a text.
LEMMA PieceType ==
  ASSUME NEW S, Texts(S), NEW f \in Upload, NEW i \in 1..total_frag(f)
  PROVE  Piece(f, i) \in Seq(S)
<1> DEFINE c == Content[f]
           r == (i - 1) * file_frag_size
           m == IF Len(c) - r < file_frag_size THEN Len(c) - r ELSE file_frag_size
<1>1. c \in Seq(S) /\ Len(c) \in Nat /\ file_frag_size \in Nat
  BY DEF Texts
<1>2. i - 1 \in Nat /\ \A a, b \in Nat : a * b \in Nat
  BY TotalType
<1>3. r \in Nat
  BY <1>1, <1>2
<1> HIDE DEF c, r
<1>4. m \in Int /\ r + m <= Len(c)
  BY <1>1, <1>3
<1> HIDE DEF m
<1>5. \A k \in (r + 1)..(r + m) : c[k] \in S
  BY <1>1, <1>3, <1>4
<1>6. SubSeq(c, r + 1, r + m) \in Seq(S)
  BY <1>1, <1>3, <1>4, <1>5, SubSeqProperties
<1> QED BY <1>6, Zenon DEF Piece, c, r, m

\* The text begins with the number of fragments.
LEMMA FragmentText ==
  ASSUME NEW S, Texts(S), NEW f \in Upload, NEW t \in Fragments(f)
  PROVE  t # done /\ buffer_to_packet(t).total_frag = total_frag(f)
<1> PICK i \in 1..total_frag(f) : t = Text(f, i)
  BY DEF Fragments
<1> DEFINE d == Piece(f, i)
           h == Field(<<total_frag(f)>>) \o Field(<<i>>) \o Field(<<Len(d)>>)
           r == h \o Field(Name[f]) \o d
<1>11. d \in Seq(S)
  BY PieceType
<1> HIDE DEF d
<1>12. Colon \in S /\ Nat \subseteq S /\ Name[f] \in Seq(S)
  BY DEF Texts
<1>13. total_frag(f) \in Nat
  BY TotalType
<1>1. /\ Colon \in S /\ Nat \subseteq S /\ Name[f] \in Seq(S) /\ d \in Seq(S)
      /\ total_frag(f) \in Nat /\ i \in Nat
  BY <1>11, <1>12, <1>13
<1>2. Len(d) \in Nat
  BY <1>1
<1>3. h \in Seq(S) /\ IsLongHeader(h, total_frag(f), i, Len(d))
  BY <1>1, <1>2, ThreeNumbers, Zenon
<1>4. t = r
  BY DEF Text, convert_to_string, write_packets, d
<1> HIDE DEF h
<1>5. r \in Seq(S) /\ IsExtended(r, h, Name[f], d)
  BY <1>1, <1>3, Extended
<1> HIDE DEF r
<1>6. Len(r) \in Nat /\ Len(r) >= 6 /\ r[1] = total_frag(f) /\ r[2] = Colon
  BY <1>1, <1>2, <1>3, <1>5 DEF IsLongHeader, IsExtended
<1>7. First(r, Colon, 1) = 2
  <2>1. 1 \in Nat /\ 2 \in 1..Len(r) /\ \A j \in 1..(2 - 1) : r[j] # Colon
    BY <1>1, <1>6, CharacterAssumption
  <2> QED BY <2>1, <1>6, FirstAt
<1>8. Atoi(SubSeq(r, 1, 1)) = total_frag(f)
  BY <1>1, <1>5, <1>6, OneNumber
<1>9. buffer_to_packet(r).total_frag = Atoi(SubSeq(r, 1, First(r, Colon, 1) - 1))
  BY DEF buffer_to_packet
<1>10. r # done
  BY <1>6 DEF done
<1> QED BY <1>4, <1>7, <1>8, <1>9, <1>10

\* What the network does to answers.
LEMMA Short ==
  ASSUME NEW a, NEW b
  PROVE  /\ Tail(<<a>>) = <<>> /\ Append(<<>>, a) = <<a>> /\ Tail(<<a, b>>) = <<b>>
         /\ Append(<<a>>, b) = <<a, b>> /\ <<a>> # <<>> /\ <<a, b>> # <<>>
<1>1. Tail(<<a>>) = <<>> /\ Tail(<<a, b>>) = <<b>> /\ Append(<<>>, a) = <<a>>
  OBVIOUS
<1>2. Append(<<a>>, b) = <<a, b>>
  <2>1. <<a>> \in Seq({a, b}) /\ <<a, b>> \in Seq({a, b}) /\ b \in {a, b}
    OBVIOUS
  <2>2. /\ Append(<<a>>, b) \in Seq({a, b}) /\ Len(Append(<<a>>, b)) = 2
        /\ Append(<<a>>, b)[1] = a /\ Append(<<a>>, b)[2] = b
    BY <2>1, AppendProperties
  <2>3. \A k \in 1..2 : Append(<<a>>, b)[k] = <<a, b>>[k]
    BY <2>2
  <2> QED BY <2>1, <2>2, <2>3, SeqEqual
<1>3. <<a>> # <<>> /\ <<a, b>> # <<>>
  OBVIOUS
<1> QED BY <1>1, <1>2, <1>3

-----------------------------------------------------------------------------
(* What a step leaves alone.                                               *)

\* A step of another sender.
LEMMA SameServer ==
  ASSUME NEW r \in Sender, Phase(r), deliver'[r] = deliver[r], replies'[r] = replies[r],
         server' = server, Pending(r)' => Pending(r)
  PROVE  Phase(r)'
<1>1. /\ Serving(r)' = Serving(r) /\ Gone' = Gone /\ Total(r)' = Total(r)
      /\ Took(r)' = Took(r) /\ Awaits(r)' = Awaits(r)
  BY DEF Serving, Gone, Took, Awaits, Total
<1> QED BY <1>1 DEF Phase, Unanswered, Replied, Served

\* A step of the server for another sender.
LEMMA OtherServed ==
  ASSUME NEW r \in Sender, Phase(r), deliver'[r] = deliver[r], replies'[r] = replies[r],
         ~ Serving(r), ~ Serving(r)', Gone => Gone', Pending(r)' => Pending(r)
  PROVE  Phase(r)'
<1>1. Total(r)' = Total(r)
  BY DEF Total
<1>2. ~ Took(r) /\ (Awaits(r) => Awaits(r)')
  BY DEF Awaits, Took
<1> QED BY <1>1, <1>2 DEF Phase, Unanswered, Replied, Served

\* The server ends.
LEMMA ServerEnds ==
  ASSUME NEW r \in Sender, Phase(r), deliver' = deliver, replies' = replies,
         Gone', datagrams' = <<>>
  PROVE  Phase(r)'
<1>1. ~ Serving(r)' /\ ~ Pending(r)' /\ Total(r)' = Total(r)
  BY DEF Gone, Serving, Pending, Total
<1> QED BY <1>1 DEF Phase, Unanswered, Replied, Served

\* What is in the queue.
LEMMA Queued ==
  ASSUME Types
  PROVE  /\ datagrams \in Seq(Datagram) /\ Len(datagrams) \in Nat
         /\ \A k \in 1..Len(datagrams) : datagrams[k] \in Datagram /\ datagrams[k].from \in Sender
<1>1. datagrams \in Seq(Datagram)
  BY DEF Types
<1>2. \A k \in 1..Len(datagrams) : datagrams[k] \in Datagram
  BY <1>1
<1>3. \A d \in Datagram : d.from \in Sender
  BY DEF Datagram
<1> QED BY <1>1, <1>2, <1>3

\* A datagram leaves the queue.
LEMMA Left ==
  ASSUME Types, Queue, datagrams # <<>>, datagrams' = Tail(datagrams), deliver' = deliver
  PROVE  /\ ~ Gone /\ datagrams' \in Seq(Datagram)
         /\ Head(datagrams) \in Datagram /\ Head(datagrams) = datagrams[1] /\ Len(datagrams) > 0
         /\ \A r \in Sender : Pending(r)' => Pending(r)
         /\ \A s \in Sender : Head(datagrams).from = s => Pending(s) /\ ~ Pending(s)'
         /\ ~ Gone' => Queue'
<1>1. /\ datagrams \in Seq(Datagram) /\ Len(datagrams) \in Nat /\ Len(datagrams) > 0
      /\ Head(datagrams) = datagrams[1] /\ datagrams[1] \in Datagram
  BY DEF Types
<1>2. /\ datagrams' \in Seq(Datagram) /\ Len(datagrams') = Len(datagrams) - 1
      /\ \A k \in 1..Len(datagrams') : datagrams'[k] = datagrams[k + 1]
  BY <1>1
<1>3. \A k \in 1..Len(datagrams') : k + 1 \in 1..Len(datagrams) /\ k + 1 # 1
  BY <1>1, <1>2
<1>4. \A r \in Sender : Pending(r)' => Pending(r)
  BY <1>2, <1>3 DEF Pending
<1>5. 1 \in 1..Len(datagrams)
  BY <1>1
<1>6. ASSUME NEW s \in Sender, datagrams[1].from = s PROVE Pending(s) /\ ~ Pending(s)'
  <2>1. Pending(s)
    BY <1>5, <1>6 DEF Pending
  <2>2. ASSUME NEW k \in 1..Len(datagrams'), datagrams'[k].from = s PROVE FALSE
    BY <2>2, <1>2, <1>3, <1>5, <1>6 DEF Queue
  <2> QED BY <2>1, <2>2 DEF Pending
<1>7. ASSUME ~ Gone' PROVE Queue'
  <2>1. \A j, k \in 1..Len(datagrams') : datagrams'[j].from = datagrams'[k].from => j = k
    <3> SUFFICES ASSUME NEW j \in 1..Len(datagrams'), NEW k \in 1..Len(datagrams'),
                        datagrams'[j].from = datagrams'[k].from
                 PROVE  j = k
      OBVIOUS
    <3>1. j + 1 = k + 1
      BY <1>2, <1>3 DEF Queue
    <3>2. j \in Int /\ k \in Int
      OBVIOUS
    <3> QED BY <3>1, <3>2
  <2>2. \A k \in 1..Len(datagrams') :
          \/ datagrams'[k].text = done /\ deliver'[datagrams'[k].from].pc = "quit"
          \/ /\ datagrams'[k].text \in Fragments(deliver'[datagrams'[k].from].file)
             /\ deliver'[datagrams'[k].from].pc = "wait"
    BY <1>2, <1>3 DEF Queue
  <2> QED BY <1>7, <2>1, <2>2 DEF Queue, done, Fragments, Text
<1>8. ~ Gone
  BY DEF Queue
<1> QED BY <1>1, <1>2, <1>4, <1>6, <1>7, <1>8

\* A sender posts a datagram, unless the server is gone.
LEMMA Posted ==
  ASSUME Types, Queue, NEW s \in Sender, ~ Pending(s), NEW text, [from |-> s, text |-> text] \in Datagram,
         SendDatagram(s, text), server' = server,
         \A r \in Sender : r # s => deliver'[r] = deliver[r],
         \/ text = done /\ deliver'[s].pc = "quit"
         \/ text \in Fragments(deliver'[s].file) /\ deliver'[s].pc = "wait"
  PROVE  /\ datagrams' \in Seq(Datagram) /\ Queue'
         /\ \A r \in Sender : r # s => (Pending(r)' => Pending(r))
         /\ Gone => ~ Pending(s)'
<1> DEFINE d == [from |-> s, text |-> text]
           n == Len(datagrams)
<1>1. datagrams \in Seq(Datagram) /\ n \in Nat
  BY DEF Types
<1>2. \A k \in 1..n : datagrams[k] \in Datagram /\ datagrams[k].from \in Sender /\ datagrams[k].from # s
  BY Queued DEF Pending
<1>3. CASE Gone
  <2>1. datagrams' = datagrams /\ datagrams = <<>>
    BY <1>3 DEF SendDatagram, Gone, Queue
  <2> QED BY <1>1, <1>3, <2>1 DEF Pending, Queue, Gone
<1>4. CASE ~ Gone
  <2>1. datagrams' = Append(datagrams, d)
    BY <1>4 DEF SendDatagram, Gone
  <2>2. /\ datagrams' \in Seq(Datagram) /\ Len(datagrams') = n + 1 /\ datagrams'[n + 1] = d
        /\ \A k \in 1..n : datagrams'[k] = datagrams[k]
    BY <1>1, <2>1
  <2>3. \A k \in 1..Len(datagrams') : k = n + 1 \/ k \in 1..n
    BY <1>1, <2>2
  <2>4. d.from = s /\ d.text = text
    OBVIOUS
  <2> HIDE DEF n, d
  <2>5. \A j, k \in 1..Len(datagrams') : datagrams'[j].from = datagrams'[k].from => j = k
    BY <1>2, <2>2, <2>3, <2>4 DEF Queue, n
  <2>6. \A k \in 1..Len(datagrams') :
          \/ datagrams'[k].text = done /\ deliver'[datagrams'[k].from].pc = "quit"
          \/ /\ datagrams'[k].text \in Fragments(deliver'[datagrams'[k].from].file)
             /\ deliver'[datagrams'[k].from].pc = "wait"
    BY <1>2, <2>2, <2>3, <2>4 DEF Queue, n
  <2>7. ~ Gone'
    BY <1>4 DEF Gone
  <2>8. Queue'
    BY <2>5, <2>6, <2>7 DEF Queue, done, Fragments, Text
  <2>9. ASSUME NEW r \in Sender, r # s, Pending(r)' PROVE Pending(r)
    BY <2>2, <2>3, <2>4, <2>9 DEF Pending, n
  <2> QED BY <1>4, <2>2, <2>8, <2>9
<1> QED BY <1>3, <1>4

-----------------------------------------------------------------------------
(* The steps of a sender.                                                  *)

\* "ftp <file>" finds nothing of the sender on its way.
LEMMA StartGood ==
  ASSUME NEW S, Texts(S), Good, NEW s \in Sender, NEW f \in Upload, Start(s, f)
  PROVE  Good'
<1> USE DEF Good
<1>1. PICK next \in IF total_frag(f) = 0 THEN {"goodbye", "quit"} ELSE {"send"} :
        deliver' = [deliver EXCEPT ![s] = [pc |-> next, file |-> f, i |-> 1]]
  BY DEF Start
<1>2. /\ deliver[s].pc = "prompt" /\ server' = server /\ datagrams' = datagrams
      /\ replies' = replies /\ total_frag(f) \in Nat
  BY TotalType DEF Start
<1>3. /\ deliver'[s] = [pc |-> next, file |-> f, i |-> 1]
      /\ \A r \in Sender : r # s => deliver'[r] = deliver[r]
  BY <1>1 DEF Types
<1>4. replies[s] = <<>> /\ ~ Pending(s) /\ ~ Serving(s)
  BY <1>2 DEF Phase
<1>5. Types'
  BY <1>1, <1>2 DEF Types
<1>6. Queue'
  <2>1. \A k \in 1..Len(datagrams) : datagrams[k].from \in Sender /\ datagrams[k].from # s
    BY <1>4, Queued DEF Pending
  <2> QED BY <2>1, <1>2, <1>3 DEF Queue, Gone, done, Fragments, Text
<1>7. ~ Pending(s)' /\ ~ Serving(s)'
  BY <1>2, <1>4 DEF Pending, Serving
<1>8. next = "send" => Awaits(s)' /\ deliver'[s].i \in 1..Total(s)'
  BY <1>2, <1>3, <1>7 DEF Awaits, Total
<1>9. Phase(s)'
  BY <1>2, <1>3, <1>4, <1>7, <1>8 DEF Phase
<1>10. ASSUME NEW r \in Sender, r # s PROVE Phase(r)'
  <2>1. Pending(r)' => Pending(r)
    BY <1>2 DEF Pending
  <2> QED BY <1>2, <1>3, <1>10, <2>1, SameServer
<1> QED BY <1>5, <1>6, <1>9, <1>10

\* A fragment is sent to a server that awaits it.
LEMMA SendGood ==
  ASSUME NEW S, Texts(S), Good, NEW s \in Sender, Send(s)
  PROVE  Good'
<1> USE DEF Good
<1> DEFINE d == deliver[s]
           text == Text(d.file, d.i)
<1>1. /\ d.pc = "send" /\ deliver' = [deliver EXCEPT ![s].pc = "wait"]
      /\ SendDatagram(s, text) /\ server' = server /\ replies' = replies
  BY DEF Send, Text
<1>2. /\ d.file \in Upload /\ d.i \in 1..Total(s) /\ replies[s] = <<>>
      /\ ~ Pending(s) /\ (Gone \/ Awaits(s))
  BY <1>1 DEF Phase
<1>3. /\ deliver'[s] = [d EXCEPT !.pc = "wait"] /\ deliver'[s].file = d.file
      /\ deliver'[s].i = d.i /\ deliver'[s].pc = "wait"
      /\ \A r \in Sender : r # s => deliver'[r] = deliver[r]
  BY <1>1 DEF Types
<1>4. text \in Fragments(d.file)
  BY <1>2 DEF Fragments, Total
<1>5. [from |-> s, text |-> text] \in Datagram
  BY <1>2, <1>4 DEF Datagram
<1> HIDE DEF text
<1>6. /\ datagrams' \in Seq(Datagram) /\ Queue'
      /\ \A r \in Sender : r # s => (Pending(r)' => Pending(r))
      /\ Gone => ~ Pending(s)'
  BY <1>1, <1>2, <1>3, <1>4, <1>5, Posted
<1>7. Types'
  BY <1>1, <1>6 DEF Types
<1>8. Unanswered(s)'
  <2>1. Gone => ~ Serving(s)'
    BY <1>1 DEF Gone, Serving
  <2>2. Awaits(s) => Awaits(s)'
    BY <1>1, <1>3 DEF Awaits, Serving, Total
  <2> QED BY <1>1, <1>2, <1>6, <2>1, <2>2 DEF Unanswered
<1>9. Phase(s)'
  BY <1>2, <1>3, <1>8 DEF Phase, Total
<1>10. ASSUME NEW r \in Sender, r # s PROVE Phase(r)'
  BY <1>1, <1>3, <1>6, <1>10, SameServer
<1> QED BY <1>6, <1>7, <1>9, <1>10

\* What a step of a sender that takes an answer leaves alone.
LEMMA AnswerTaken ==
  ASSUME Good, NEW s \in Sender, ~ Pending(s), server' = server, datagrams' = datagrams,
         replies' = [replies EXCEPT ![s] = Tail(@)], replies[s] # <<>>,
         NEW d \in [pc : {"send", "goodbye", "prompt"}, file : Upload \cup {NoUpload}, i : Nat],
         deliver' = [deliver EXCEPT ![s] = d], Phase(s)'
  PROVE  Good'
<1> USE DEF Good
<1>1. /\ replies[s] \in Seq({"reply", "goodbye"})
      /\ \A r \in Sender : r # s => deliver'[r] = deliver[r] /\ replies'[r] = replies[r]
  BY DEF Types
<1>2. Tail(replies[s]) \in Seq({"reply", "goodbye"})
  BY <1>1
<1>3. Types'
  BY <1>2 DEF Types
<1>4. Queue'
  <2>1. \A k \in 1..Len(datagrams) : datagrams[k].from \in Sender /\ datagrams[k].from # s
    BY Queued DEF Pending
  <2> QED BY <2>1, <1>1 DEF Queue, Gone, done, Fragments, Text
<1>5. ASSUME NEW r \in Sender, r # s PROVE Phase(r)'
  <2>1. Pending(r)' => Pending(r)
    BY DEF Pending
  <2> QED BY <1>1, <1>5, <2>1, SameServer
<1> QED BY <1>3, <1>4, <1>5

\* What the loop of deliver.c does with its step and its counter.
LEMMA Counted ==
  ASSUME Types, NEW s \in Sender
  PROVE  LET d == deliver[s] IN
         /\ [d EXCEPT !.pc = "send", !.i = @ + 1] = [pc |-> "send", file |-> d.file, i |-> d.i + 1]
         /\ [d EXCEPT !.pc = "goodbye"] = [pc |-> "goodbye", file |-> d.file, i |-> d.i]
<1> DEFINE P == {"prompt", "send", "wait", "goodbye", "quit"}
           F == Upload \cup {NoUpload}
           d == deliver[s]
<1>0. d \in [pc : P, file : F, i : Nat]
  BY DEF Types
<1> HIDE DEF d, P, F
<1> DEFINE e == [d EXCEPT !.pc = "send", !.i = @ + 1]
           g == [d EXCEPT !.pc = "goodbye"]
<1>1. d.i + 1 \in Nat
  BY <1>0
<1>2. /\ e.pc = "send" /\ e.file = d.file /\ e.i = d.i + 1
      /\ g.pc = "goodbye" /\ g.file = d.file /\ g.i = d.i
  BY <1>0
<1> HIDE DEF e, g
<1>3. /\ e \in [pc : P \cup {"send"}, file : F, i : Nat]
      /\ g \in [pc : P \cup {"goodbye"}, file : F, i : Nat]
  BY <1>1, <1>0, Zenon DEF e, g
<1>4. e = [pc |-> e.pc, file |-> e.file, i |-> e.i] /\ g = [pc |-> g.pc, file |-> g.file, i |-> g.i]
  BY <1>3
<1> QED BY <1>2, <1>4, Zenon DEF d, e, g

\* The reply is to the current fragment, or the goodbye message after it.
LEMMA ReplyGood ==
  ASSUME NEW S, Texts(S), Good, NEW s \in Sender, Reply(s)
  PROVE  Good'
<1> USE DEF Good
<1> DEFINE d == deliver[s]
           e == IF d.i < total_frag(d.file) THEN [pc |-> "send", file |-> d.file, i |-> d.i + 1]
                                            ELSE [pc |-> "goodbye", file |-> d.file, i |-> d.i]
<1>1. /\ d.pc = "wait" /\ replies[s] # <<>> /\ server' = server /\ datagrams' = datagrams
      /\ replies' = [replies EXCEPT ![s] = Tail(@)] /\ deliver' = [deliver EXCEPT ![s] = e]
  <2>1. /\ [d EXCEPT !.pc = "send", !.i = @ + 1] = [pc |-> "send", file |-> d.file, i |-> d.i + 1]
        /\ [d EXCEPT !.pc = "goodbye"] = [pc |-> "goodbye", file |-> d.file, i |-> d.i]
    BY Counted, Zenon
  <2> QED BY <2>1 DEF Reply
<1>2. /\ d \in [pc : {"prompt", "send", "wait", "goodbye", "quit"}, file : Upload \cup {NoUpload}, i : Nat]
      /\ d.file \in Upload /\ d.i \in 1..Total(s) /\ Total(s) = total_frag(d.file)
      /\ Total(s) \in Nat /\ (Replied(s) \/ Served(s))
  BY <1>1, TotalType DEF Phase, Unanswered, Types, Total
<1>3. /\ deliver'[s] = e /\ replies'[s] = Tail(replies[s])
  BY <1>1 DEF Types
<1>4. ~ Pending(s) /\ ~ Pending(s)'
  BY <1>1, <1>2 DEF Replied, Served, Pending
<1>5. e \in [pc : {"send", "goodbye", "prompt"}, file : Upload \cup {NoUpload}, i : Nat]
  BY <1>2
<1>6. Gone' = Gone /\ Serving(s)' = Serving(s)
  BY <1>1 DEF Gone, Serving
<1>7. Phase(s)'
  <2>1. CASE d.i < Total(s)
    <3>1. e.pc = "send" /\ e.file = d.file /\ e.i = d.i + 1 /\ Total(s)' = Total(s)
      BY <2>1, <1>2, <1>3 DEF Total
    <3>2. Replied(s)
      BY <2>1, <1>2 DEF Served
    <3>3. replies'[s] = <<>>
      BY <3>2, <1>3, Short DEF Replied
    <3>4. Took(s) => Awaits(s)'
      <4>1. deliver'[s].i = d.i + 1 /\ d.i \in Nat /\ d.i > 0 /\ server.i \in Nat
        BY <3>1, <1>2, <1>3 DEF Types
      <4> HIDE DEF e
      <4> QED BY <4>1, <2>1, <3>1, <1>1, <1>2 DEF Took, Awaits, Serving
    <3>5. Gone' \/ Awaits(s)'
      BY <3>2, <3>4, <1>6 DEF Replied
    <3>6. e.i \in 1..Total(s)
      BY <2>1, <3>1, <1>2
    <3> QED BY <3>1, <3>3, <3>5, <3>6, <1>2, <1>3, <1>4 DEF Phase
  <2>2. CASE ~ (d.i < Total(s))
    <3>1. e.pc = "goodbye" /\ e.file = d.file /\ e.i = d.i /\ Total(s)' = Total(s)
      BY <2>2, <1>2, <1>3 DEF Total
    <3>2. Took(s) => Took(s)'
      BY <3>1, <1>1, <1>2, <1>3 DEF Took, Serving
    <3>3. Gone => ~ Serving(s)
      BY DEF Gone, Serving
    <3>4. CASE Replied(s)
      <4>1. replies'[s] = <<>>
        BY <3>4, <1>3, Short DEF Replied
      <4> QED BY <4>1, <3>1, <3>2, <3>3, <3>4, <1>3, <1>4, <1>6 DEF Phase, Replied
    <3>5. CASE Served(s)
      <4>1. replies'[s] = <<>> \/ replies'[s] = <<"goodbye">>
        BY <3>5, <1>3, Short DEF Served
      <4> QED BY <4>1, <3>1, <3>5, <1>3, <1>4, <1>6 DEF Phase, Served
    <3> QED BY <3>4, <3>5, <1>2
  <2> QED BY <2>1, <2>2
<1> HIDE DEF e
<1> QED BY <1>1, <1>4, <1>5, <1>7, AnswerTaken

\* The goodbye message is the last answer.
LEMMA GoodbyeGood ==
  ASSUME Good, NEW s \in Sender, HearGoodbye(s)
  PROVE  Good'
<1> USE DEF Good
<1>1. /\ deliver[s].pc = "goodbye" /\ replies[s] # <<>> /\ server' = server
      /\ datagrams' = datagrams /\ replies' = [replies EXCEPT ![s] = Tail(@)]
      /\ deliver' = [deliver EXCEPT ![s] = Idle]
  BY DEF HearGoodbye
<1>2. ~ Pending(s) /\ replies[s] = <<"goodbye">> /\ ~ Serving(s)
  BY <1>1 DEF Phase
<1>3. deliver'[s] = Idle /\ replies'[s] = <<>>
  BY <1>1, <1>2, Short DEF Types
<1>4. Idle \in [pc : {"send", "goodbye", "prompt"}, file : Upload \cup {NoUpload}, i : Nat]
  BY DEF Idle
<1>5. ~ Pending(s)' /\ ~ Serving(s)'
  BY <1>1, <1>2 DEF Pending, Serving
<1>6. Idle.pc = "prompt"
  BY DEF Idle
<1>7. Phase(s)'
  BY <1>3, <1>5, <1>6 DEF Phase
<1> QED BY <1>1, <1>2, <1>4, <1>7, AnswerTaken

\* A sender that says "done" has nothing on its way.
LEMMA SendDoneGood ==
  ASSUME Good, NEW s \in Sender, SendDone(s)
  PROVE  Good'
<1> USE DEF Good
<1>1. /\ deliver[s].pc = "prompt" /\ deliver' = [deliver EXCEPT ![s].pc = "quit"]
      /\ SendDatagram(s, done) /\ server' = server /\ replies' = replies
  BY DEF SendDone
<1>2. ~ Pending(s) /\ ~ Serving(s)
  BY <1>1 DEF Phase
<1>3. /\ deliver'[s].pc = "quit"
      /\ \A r \in Sender : r # s => deliver'[r] = deliver[r]
  BY <1>1 DEF Types
<1>4. [from |-> s, text |-> done] \in Datagram
  BY DEF Datagram
<1>5. /\ datagrams' \in Seq(Datagram) /\ Queue'
      /\ \A r \in Sender : r # s => (Pending(r)' => Pending(r))
  BY <1>1, <1>2, <1>3, <1>4, Posted
<1>6. Types'
  BY <1>1, <1>5 DEF Types
<1>7. Phase(s)'
  BY <1>1, <1>2, <1>3 DEF Phase, Serving
<1>8. ASSUME NEW r \in Sender, r # s PROVE Phase(r)'
  BY <1>1, <1>3, <1>5, <1>8, SameServer
<1> QED BY <1>5, <1>6, <1>7, <1>8

-----------------------------------------------------------------------------
(* The steps of the server and of the network.                             *)

\* An answer to s, and the others keep theirs.
LEMMA Answered ==
  ASSUME Types, NEW s \in Sender, NEW a \in {"reply", "goodbye"}, ReplyTo(s, a)
  PROVE  /\ replies' \in [Sender -> Seq({"reply", "goodbye"})]
         /\ replies'[s] = Append(replies[s], a)
         /\ \A r \in Sender : r # s => replies'[r] = replies[r]
<1>1. replies \in [Sender -> Seq({"reply", "goodbye"})]
  BY DEF Types
<1>2. Append(replies[s], a) \in Seq({"reply", "goodbye"})
  BY <1>1
<1> QED BY <1>1, <1>2 DEF ReplyTo

\* "done", or a failure, ends the server.
LEMMA EndGood ==
  ASSUME Good, TakeDone \/ ServerExits
  PROVE  Good'
<1> USE DEF Good
<1>1. /\ deliver' = deliver /\ replies' = replies /\ datagrams' = <<>> /\ Gone'
      /\ Types'
  <2>1. /\ deliver' = deliver /\ replies' = replies /\ datagrams' = <<>>
        /\ server' = [server EXCEPT !.pc = "quit"] \/ server' = [server EXCEPT !.pc = "failed"]
    BY DEF TakeDone, ServerExits
  <2>2. <<>> \in Seq(Datagram)
    OBVIOUS
  <2> QED BY <2>1, <2>2 DEF Types, Gone
<1>2. Queue'
  BY <1>1 DEF Queue
<1>3. ASSUME NEW r \in Sender PROVE Phase(r)'
  BY <1>1, ServerEnds
<1> QED BY <1>1, <1>2, <1>3

\* The first fragment comes from a sender that waits with it.
LEMMA FirstGood ==
  ASSUME NEW S, Texts(S), Good, TakeFirst
  PROVE  Good'
<1> USE DEF Good
<1> DEFINE p == buffer_to_packet(Head(datagrams).text)
<1>0. PICK s : s = Head(datagrams).from
  OBVIOUS
<1>1. /\ server.pc = "idle" /\ datagrams # <<>> /\ Head(datagrams).text # done
      /\ server' = [pc |-> "write", total_frag |-> p.total_frag, i |-> 0, fd |-> p.filename,
                    position |-> 0, data |-> p.filedata, from_addr |-> s]
      /\ ReplyTo(s, "reply") /\ datagrams' = Tail(datagrams) /\ deliver' = deliver
  BY <1>0 DEF TakeFirst, Fragment
<1> HIDE DEF p
<1>2. /\ datagrams' \in Seq(Datagram) /\ Head(datagrams) = datagrams[1] /\ s \in Sender
      /\ \A r \in Sender : Pending(r)' => Pending(r)
      /\ Pending(s) /\ ~ Pending(s)' /\ (~ Gone' => Queue') /\ Len(datagrams) > 0
  BY <1>0, <1>1, Left, Queued
<1>3. deliver[s].pc = "wait" /\ datagrams[1].text \in Fragments(deliver[s].file)
  BY <1>0, <1>1, <1>2, Queued DEF Queue
<1>4. deliver[s].file \in Upload /\ deliver[s].i \in 1..Total(s)
  BY <1>2, <1>3 DEF Phase
<1>5. p.total_frag = Total(s)
  BY <1>2, <1>3, <1>4, FragmentText DEF p, Total
<1>6. replies[s] = <<>> /\ Awaits(s)
  BY <1>2, <1>3 DEF Phase, Unanswered, Replied, Served
<1>7. deliver[s].i = 1 /\ Total(s) \in Nat /\ 1 <= Total(s)
  <2>1. Total(s) \in Nat
    BY <1>4, TotalType DEF Total
  <2> QED BY <2>1, <1>1, <1>4, <1>6 DEF Awaits
<1>8. /\ replies' \in [Sender -> Seq({"reply", "goodbye"})]
      /\ replies'[s] = Append(replies[s], "reply")
      /\ \A r \in Sender : r # s => replies'[r] = replies[r]
  BY <1>1, <1>2, Answered
<1>9. Types' /\ ~ Gone'
  BY <1>1, <1>2, <1>8 DEF Types, Gone
<1>10. Took(s)'
  BY <1>1, <1>5, <1>7 DEF Took, Serving, Total
<1>11. replies'[s] = <<"reply">>
  BY <1>6, <1>8, Short
<1>12. Phase(s)'
  BY <1>1, <1>2, <1>3, <1>4, <1>10, <1>11 DEF Phase, Replied, Total
<1>13. ASSUME NEW r \in Sender, r # s PROVE Phase(r)'
  <2>1. ~ Serving(r) /\ ~ Serving(r)' /\ ~ Gone
    BY <1>1, <1>13 DEF Serving, Gone
  <2> QED BY <2>1, <1>1, <1>2, <1>8, <1>13, OtherServed
<1> QED BY <1>2, <1>9, <1>12, <1>13

\* The next fragment of the same sender is the one after the last written.
LEMMA NextGood ==
  ASSUME NEW S, Texts(S), Good, TakeNext, ~ mixed'
  PROVE  Good'
<1> USE DEF Good
<1> DEFINE p == buffer_to_packet(Head(datagrams).text)
<1>0. PICK s : s = Head(datagrams).from
  OBVIOUS
<1>1. /\ server.pc = "body" /\ Len(datagrams) > 0 /\ Head(datagrams).text # done
      /\ server' = [server EXCEPT !.pc = "write", !.data = p.filedata, !.from_addr = s]
      /\ ReplyTo(s, "reply") /\ datagrams' = Tail(datagrams) /\ deliver' = deliver
  BY <1>0, Zenon DEF TakeNext, Fragment
<1>2. s = server.from_addr
  BY <1>0, Zenon DEF TakeNext
<1> HIDE DEF p
<1>3. datagrams # <<>>
  BY <1>1
<1>4. /\ datagrams' \in Seq(Datagram) /\ Head(datagrams) = datagrams[1] /\ s \in Sender
      /\ \A r \in Sender : Pending(r)' => Pending(r)
      /\ Pending(s) /\ ~ Pending(s)' /\ (~ Gone' => Queue')
  BY <1>0, <1>1, <1>3, Left, Queued
<1>5. deliver[s].pc = "wait"
  BY <1>0, <1>1, <1>4, Queued DEF Queue
<1>6. /\ deliver[s].file \in Upload /\ deliver[s].i \in 1..Total(s)
      /\ replies[s] = <<>> /\ Awaits(s) /\ Serving(s)
  BY <1>1, <1>2, <1>4, <1>5 DEF Phase, Unanswered, Replied, Served, Serving
<1>7. /\ server.total_frag = Total(s) /\ server.i + 1 = deliver[s].i /\ deliver[s].i \in Int
      /\ Total(s) \in Nat /\ deliver[s].i <= Total(s)
  <2>1. Total(s) \in Nat
    BY <1>6, TotalType DEF Total
  <2> QED BY <2>1, <1>1, <1>6 DEF Awaits, Types
<1>8. server' = [pc |-> "write", total_frag |-> server.total_frag, i |-> server.i,
                 fd |-> server.fd, position |-> server.position, data |-> p.filedata,
                 from_addr |-> s]
  BY <1>1 DEF Types
<1>9. /\ replies' \in [Sender -> Seq({"reply", "goodbye"})]
      /\ replies'[s] = Append(replies[s], "reply")
      /\ \A r \in Sender : r # s => replies'[r] = replies[r]
  BY <1>1, <1>4, Answered
<1>10. Types' /\ ~ Gone'
  BY <1>1, <1>4, <1>8, <1>9 DEF Types, Gone
<1>11. Took(s)'
  BY <1>1, <1>7, <1>8 DEF Took, Serving, Total
<1>12. replies'[s] = <<"reply">>
  BY <1>6, <1>9, Short
<1>13. Phase(s)'
  BY <1>1, <1>4, <1>5, <1>6, <1>11, <1>12 DEF Phase, Replied, Total
<1>14. ASSUME NEW r \in Sender, r # s PROVE Phase(r)'
  <2>1. ~ Serving(r) /\ ~ Serving(r)' /\ ~ Gone
    BY <1>1, <1>2, <1>8, <1>14 DEF Serving, Gone
  <2> QED BY <2>1, <1>1, <1>4, <1>9, <1>14, OtherServed
<1> QED BY <1>4, <1>10, <1>13, <1>14

\* The loop goes on until the last fragment of its sender is written.
LEMMA WriteGood ==
  ASSUME NEW S, Texts(S), Good, WriteFragment
  PROVE  Good'
<1> USE DEF Good
<1> DEFINE next == IF server.i + 1 < server.total_frag THEN "body" ELSE "goodbye"
           at == server.position + Len(server.data)
<1>0. PICK s : s = server.from_addr
  OBVIOUS
<1>1. /\ server.pc = "write" /\ deliver' = deliver /\ datagrams' = datagrams /\ replies' = replies
      /\ server' = [server EXCEPT !.position = at, !.i = @ + 1, !.pc = next]
  BY DEF WriteFragment
<1>2. s \in Sender /\ Serving(s) /\ server.i \in Nat
  BY <1>0, <1>1 DEF Types, Serving
<1>3. next \in {"body", "goodbye"}
  OBVIOUS
<1>4. /\ server.i + 1 < server.total_frag => next = "body"
      /\ ~ (server.i + 1 < server.total_frag) => next = "goodbye"
  OBVIOUS
<1> HIDE DEF next, at
<1>5. server' = [pc |-> next, total_frag |-> server.total_frag, i |-> server.i + 1,
                 fd |-> server.fd, position |-> at, data |-> server.data, from_addr |-> s]
  BY <1>0, <1>1 DEF Types
<1>6. /\ server'.pc = next /\ server'.total_frag = server.total_frag
      /\ server'.i = server.i + 1 /\ server'.from_addr = s
  BY <1>5
<1>7. Types'
  <2>1. server' = [pc |-> server'.pc, total_frag |-> server'.total_frag, i |-> server'.i,
                   fd |-> server'.fd, position |-> server'.position, data |-> server'.data,
                   from_addr |-> server'.from_addr]
    BY <1>5
  <2>2. /\ server'.pc \in {"idle", "body", "write", "goodbye", "quit", "failed"}
        /\ server'.i \in Nat /\ server'.from_addr \in Sender
    BY <1>2, <1>3, <1>6
  <2>3. /\ deliver' = deliver /\ datagrams' = datagrams /\ replies' = replies
    BY <1>1
  <2> QED BY <2>1, <2>2, <2>3, Zenon DEF Types
<1>8. ~ Gone /\ ~ Gone' /\ Serving(s)'
  BY <1>1, <1>3, <1>6 DEF Gone, Serving
<1>9. Queue'
  BY <1>1, <1>8 DEF Queue, done, Fragments, Text
<1>10. Total(s)' = Total(s)
  BY <1>1 DEF Total
<1>11. \A r \in Sender : Pending(r)' <=> Pending(r)
  BY <1>1 DEF Pending
<1>12. Took(s) => Took(s)'
  <2> SUFFICES ASSUME Took(s) PROVE Took(s)'
    OBVIOUS
  <2>1. /\ server.i + 1 = deliver[s].i /\ server.total_frag = Total(s)
        /\ Total(s) \in Nat /\ deliver[s].i <= Total(s)
    BY <1>1 DEF Took
  <2>2. CASE deliver[s].i < Total(s)
    BY <2>1, <2>2, <1>1, <1>4, <1>6, <1>8, <1>10 DEF Took
  <2>3. CASE ~ (deliver[s].i < Total(s))
    <3>1. deliver[s].i = Total(s)
      BY <2>1, <2>3, <1>2
    <3> QED BY <3>1, <2>1, <2>3, <1>1, <1>4, <1>6, <1>8, <1>10 DEF Took
  <2> QED BY <2>2, <2>3
<1>13. ASSUME deliver[s].file \in Upload, deliver[s].i \in 1..Total(s), Awaits(s)
       PROVE  Awaits(s)'
  <2>1. Total(s) \in Nat
    BY <1>13, TotalType DEF Total
  <2>2. /\ server.i + 1 = deliver[s].i - 1 /\ server.total_frag = Total(s)
        /\ deliver[s].i > 1 /\ deliver[s].i - 1 < Total(s)
    BY <2>1, <1>1, <1>2, <1>13 DEF Awaits
  <2>3. next = "body"
    BY <2>2, <1>4
  <2> QED BY <2>2, <2>3, <1>1, <1>6, <1>8, <1>10 DEF Awaits
<1>14. Phase(s)'
  <2>1. deliver'[s] = deliver[s] /\ replies'[s] = replies[s]
    BY <1>1
  <2> QED BY <2>1, <1>2, <1>8, <1>10, <1>11, <1>12, <1>13 DEF Phase, Unanswered, Replied, Served
<1>15. ASSUME NEW r \in Sender, r # s PROVE Phase(r)'
  <2>1. ~ Serving(r) /\ ~ Serving(r)'
    BY <1>0, <1>6, <1>15 DEF Serving
  <2> QED BY <2>1, <1>1, <1>8, <1>11, <1>15, OtherServed
<1> QED BY <1>7, <1>9, <1>14, <1>15

\* The goodbye goes to the sender whose fragment was written last.
LEMMA ServerGoodbyeGood ==
  ASSUME Good, SayGoodbye
  PROVE  Good'
<1> USE DEF Good
<1>0. PICK s : s = server.from_addr
  OBVIOUS
<1>1. /\ server.pc = "goodbye" /\ deliver' = deliver /\ datagrams' = datagrams
      /\ server' = Waiting /\ ReplyTo(s, "goodbye")
  BY <1>0 DEF SayGoodbye
<1>2. s \in Sender /\ Serving(s)
  BY <1>0, <1>1 DEF Types, Serving
<1>3. /\ replies' \in [Sender -> Seq({"reply", "goodbye"})]
      /\ replies'[s] = Append(replies[s], "goodbye")
      /\ \A r \in Sender : r # s => replies'[r] = replies[r]
  BY <1>1, <1>2, Answered
<1>4. server'.pc = "idle" /\ server'.i = 0 /\ ~ Gone /\ ~ Gone'
  BY <1>1 DEF Waiting, Gone
<1>5. Types'
  BY <1>1, <1>3 DEF Types, Waiting
<1>6. Queue'
  BY <1>1, <1>4 DEF Queue, done, Fragments, Text
<1>7. Total(s)' = Total(s) /\ \A r \in Sender : (Pending(r)' <=> Pending(r)) /\ ~ Serving(r)'
  BY <1>1, <1>4 DEF Total, Pending, Serving
<1>8. ~ Awaits(s)
  BY <1>1, <1>2 DEF Awaits
<1>9. ASSUME deliver[s].pc = "wait" PROVE Phase(s)'
  <2>1. /\ replies[s] \in {<<>>, <<"reply">>} /\ ~ Pending(s) /\ Took(s)
    BY <1>2, <1>4, <1>8, <1>9 DEF Phase, Unanswered, Replied, Served
  <2>2. deliver[s].i = Total(s) /\ deliver[s].file \in Upload /\ deliver[s].i \in 1..Total(s)
    BY <2>1, <1>1, <1>2, <1>9 DEF Took, Phase
  <2>3. replies'[s] \in {<<"goodbye">>, <<"reply", "goodbye">>}
    BY <2>1, <1>3, Short
  <2> QED BY <2>1, <2>2, <2>3, <1>1, <1>2, <1>7, <1>9 DEF Phase, Served
<1>10. ASSUME deliver[s].pc = "goodbye" PROVE Phase(s)'
  <2>1. replies[s] = <<>> /\ ~ Pending(s)
    BY <1>2, <1>10 DEF Phase
  <2>2. replies'[s] = <<"goodbye">>
    BY <2>1, <1>3, Short
  <2> QED BY <2>1, <2>2, <1>1, <1>2, <1>7, <1>10 DEF Phase
<1>11. deliver[s].pc \in {"wait", "goodbye"}
  BY <1>1, <1>2, <1>4, <1>8 DEF Phase, Types
<1>12. ASSUME NEW r \in Sender, r # s PROVE Phase(r)'
  <2>1. ~ Serving(r)
    BY <1>0, <1>12 DEF Serving
  <2> QED BY <2>1, <1>1, <1>3, <1>4, <1>7, <1>12, OtherServed
<1> QED BY <1>5, <1>6, <1>9, <1>10, <1>11, <1>12

\* The network may lose what is on its way in either direction.
LEMMA LoseGood ==
  ASSUME Good, Lose
  PROVE  Good'
<1> USE DEF Good
<1>1. deliver' = deliver /\ server' = server
  BY DEF Lose
<1>2. CASE Len(datagrams) > 0 /\ datagrams' = Tail(datagrams) /\ replies' = replies
  <2>1. datagrams # <<>>
    BY <1>2
  <2>2. /\ datagrams' \in Seq(Datagram) /\ (~ Gone' => Queue')
        /\ \A r \in Sender : Pending(r)' => Pending(r)
    BY <2>1, <1>1, <1>2, Left
  <2>3. ~ Gone'
    BY <2>1, <1>1 DEF Gone, Queue
  <2>4. Types'
    BY <2>2, <1>1, <1>2 DEF Types
  <2>5. ASSUME NEW r \in Sender PROVE Phase(r)'
    BY <2>2, <1>1, <1>2, SameServer
  <2> QED BY <2>2, <2>3, <2>4, <2>5
<1>3. ASSUME NEW s \in Sender, replies[s] # <<>>, datagrams' = datagrams,
             replies' = [replies EXCEPT ![s] = Tail(@)]
      PROVE  Good'
  <2>1. /\ replies' \in [Sender -> Seq({"reply", "goodbye"})]
        /\ replies'[s] = Tail(replies[s])
        /\ \A r \in Sender : r # s => replies'[r] = replies[r]
    BY <1>3 DEF Types
  <2>2. Types' /\ Queue'
    BY <2>1, <1>1, <1>3 DEF Types, Queue, Gone, done, Fragments, Text
  <2>3. /\ Serving(s)' = Serving(s) /\ Gone' = Gone /\ Total(s)' = Total(s)
        /\ Took(s)' = Took(s) /\ Awaits(s)' = Awaits(s) /\ Pending(s)' = Pending(s)
        /\ deliver'[s] = deliver[s]
    BY <1>1, <1>3 DEF Serving, Gone, Took, Awaits, Total, Pending
  <2>4. \/ deliver[s].pc = "wait" /\ (Replied(s) \/ Served(s))
        \/ deliver[s].pc \in {"goodbye", "quit"}
    BY <1>3 DEF Phase, Types, Unanswered
  <2>5. Gone => ~ Serving(s)
    BY DEF Gone, Serving
  <2>6. ASSUME deliver[s].pc = "wait" /\ Replied(s) PROVE Phase(s)'
    <3>1. replies'[s] = <<>>
      BY <2>1, <2>6, Short DEF Replied
    <3> QED BY <3>1, <2>3, <2>5, <2>6 DEF Phase, Replied, Unanswered
  <2>7. ASSUME deliver[s].pc = "wait" /\ Served(s) PROVE Phase(s)'
    <3>1. replies'[s] = <<"goodbye">> \/ replies'[s] = <<>>
      BY <2>1, <2>7, Short DEF Served
    <3> QED BY <3>1, <2>3, <2>7 DEF Phase, Served, Unanswered
  <2>8. ASSUME deliver[s].pc = "goodbye" PROVE Phase(s)'
    <3>1. replies'[s] = <<>>
      BY <2>1, <2>8, <1>3, Short DEF Phase
    <3> QED BY <3>1, <2>3, <2>8 DEF Phase
  <2>9. ASSUME deliver[s].pc = "quit" PROVE Phase(s)'
    BY <2>3, <2>9 DEF Phase
  <2>10. ASSUME NEW r \in Sender, r # s PROVE Phase(r)'
    <3>1. Pending(r)' => Pending(r)
      BY <1>3 DEF Pending
    <3> QED BY <3>1, <2>1, <2>10, <1>1, SameServer
  <2> QED BY <2>2, <2>4, <2>6, <2>7, <2>8, <2>9, <2>10
<1>4. ASSUME NEW s \in Sender, Len(replies[s]) > 0 PROVE replies[s] # <<>>
  BY <1>4
<1> QED BY <1>2, <1>3, <1>4 DEF Lose

-----------------------------------------------------------------------------
\* Nothing has happened.
LEMMA InitGood == DeliveryInit => Good
<1> SUFFICES ASSUME DeliveryInit PROVE Good
  OBVIOUS
<1>1. /\ deliver = [s \in Sender |-> Idle] /\ server = Waiting /\ datagrams = <<>>
      /\ replies = [s \in Sender |-> <<>>]
  BY DEF DeliveryInit
<1>2. Idle \in [pc : {"prompt", "send", "wait", "goodbye", "quit"}, file : Upload \cup {NoUpload}, i : Nat]
  BY DEF Idle
<1>3. <<>> \in Seq(Datagram) /\ <<>> \in Seq({"reply", "goodbye"}) /\ Len(<<>>) = 0
  OBVIOUS
<1>4. Types
  BY <1>1, <1>2, <1>3 DEF Types, Waiting
<1>5. Queue
  BY <1>1, <1>3 DEF Queue
<1>6. ASSUME NEW s \in Sender PROVE Phase(s)
  <2>1. deliver[s].pc = "prompt" /\ replies[s] = <<>> /\ ~ Pending(s) /\ ~ Serving(s)
    BY <1>1, <1>3 DEF Idle, Waiting, Pending, Serving
  <2> QED BY <2>1 DEF Phase
<1> QED BY <1>4, <1>5, <1>6 DEF Good

\* A step that does not mix two senders.
LEMMA StepGood ==
  ASSUME NEW S, Texts(S), Good, [DeliveryNext]_delivery, ~ mixed'
  PROVE  Good'
<1>1. CASE UNCHANGED delivery
  <2>1. /\ deliver' = deliver /\ server' = server /\ datagrams' = datagrams /\ replies' = replies
    BY <1>1 DEF delivery
  <2>2. Types' /\ Queue'
    BY <2>1 DEF Good, Types, Queue, Gone, done, Fragments, Text
  <2>3. ASSUME NEW r \in Sender PROVE Phase(r)'
    <3>1. Phase(r) /\ (Pending(r)' => Pending(r))
      BY <2>1 DEF Good, Pending
    <3> QED BY <3>1, <2>1, SameServer
  <2> QED BY <2>2, <2>3 DEF Good
<1>2. CASE \E s \in Sender : DeliverStep(s) \/ SendDone(s) \/ \E f \in Upload : Start(s, f)
  BY <1>2, StartGood, SendGood, ReplyGood, GoodbyeGood, SendDoneGood DEF DeliverStep
<1>3. CASE StoreStep
  <2>1. ~ TakeStray
    BY Zenon DEF TakeStray
  <2> QED BY <2>1, <1>3, EndGood, FirstGood, NextGood, WriteGood, ServerGoodbyeGood DEF StoreStep
<1>4. CASE Lose
  BY <1>4, LoseGood
<1> QED BY <1>1, <1>2, <1>3, <1>4 DEF DeliveryNext

\* What a sender takes for the goodbye message is one, for any files whose
\* names and contents are texts, and whatever is lost: deliver.c looks at no
\* reply, and its count of them is enough as long as no other sender's
\* fragment is taken for the next one.
THEOREM AnswersAlwaysInTime == ASSUME NEW S, Texts(S) PROVE DeliverySpec => []AnswersInTime
<1>1. DeliveryInit => Inv
  BY InitGood DEF Inv
<1>2. Inv /\ [DeliveryNext]_delivery => Inv'
  <2> SUFFICES ASSUME Inv, [DeliveryNext]_delivery, ~ mixed' PROVE Good'
    BY DEF Inv
  <2>1. ~ mixed
    BY Zenon DEF DeliveryNext, DeliverStep, StoreStep, delivery, Start, Send, Reply, HearGoodbye, SendDone,
      TakeDone, TakeFirst, TakeNext, TakeStray, WriteFragment, ServerExits, SayGoodbye, Lose
  <2> QED BY <2>1, StepGood DEF Inv
<1>3. Inv => AnswersInTime
  BY Zenon DEF Inv, Good, Phase, AnswersInTime
<1> QED BY <1>1, <1>2, <1>3, PTL DEF DeliverySpec

-----------------------------------------------------------------------------
(* What the server reads of a fragment.                                   *)

\* What the server reads of fragment i of f: the name under which it opens the
\* file and, unless the name was cut, the data that were read of the file.
IsPiece(S, f, i, data) ==
  /\ data \in Seq(S) /\ Len(data) = Len(Piece(f, i))
  /\ Plain(f) => data = Piece(f, i)

LEMMA FragmentRead ==
  ASSUME NEW S, Texts(S), NEW f \in Upload, NEW i \in 1..total_frag(f)
  PROVE  /\ buffer_to_packet(Text(f, i)).filename = Opened(f)
         /\ IsPiece(S, f, i, buffer_to_packet(Text(f, i)).filedata)
<1> DEFINE x == Name[f]
           y == Piece(f, i)
           n == Len(y)
           h == Field(<<total_frag(f)>>) \o Field(<<i>>) \o Field(<<n>>)
           r == h \o Field(x) \o y
           q == NameEnd(x)
<1>1. /\ Colon \in S /\ Nat \subseteq S /\ x \in Seq(S) /\ y \in Seq(S)
      /\ total_frag(f) \in Nat /\ i \in Nat
  <2>1. y \in Seq(S) /\ total_frag(f) \in Nat
    BY PieceType, TotalType
  <2>2. Colon \in S /\ Nat \subseteq S /\ x \in Seq(S)
    BY DEF Texts
  <2> QED BY <2>1, <2>2
<1>2. Text(f, i) = r
  BY DEF Text, convert_to_string, write_packets
<1>3. Opened(f) = SubSeq(x, 1, q - 1)
  BY DEF Opened, NameEnd
<1> HIDE DEF x, y
<1>4. n \in Nat /\ Len(x) \in Nat
  BY <1>1
<1> HIDE DEF n
<1>5. h \in Seq(S) /\ IsLongHeader(h, total_frag(f), i, n)
  BY <1>1, <1>4, ThreeNumbers, Zenon
<1> HIDE DEF h
<1>6. Len(h) = 6
  BY <1>5 DEF IsLongHeader
<1>7. r \in Seq(S) /\ IsExtended(r, h, x, y)
  BY <1>1, <1>5, Extended
<1> HIDE DEF r
<1>8. /\ First(r, Colon, 6 + 1) = 6 + q
      /\ SubSeq(r, 6 + 1, 6 + q - 1) = SubSeq(x, 1, q - 1)
      /\ Take(r, 6 + q + 1, Len(y)) \in Seq(S)
      /\ Len(Take(r, 6 + q + 1, Len(y))) = Len(y)
  <2>1. 6 \in Nat
    OBVIOUS
  <2>2. IsCut(S, r, 6, x, Len(y))
    BY <2>1, <1>1, <1>5, <1>6, <1>7, CutName, Zenon
  <2> QED BY <2>2 DEF IsCut, q
<1>9. q \in 1..(Len(x) + 1) /\ \A j \in 1..(q - 1) : x[j] # Colon
  BY <1>1, NameEndType
<1>10. Plain(f) => Take(r, 6 + q + 1, Len(y)) = y
  <2> SUFFICES ASSUME ~ Has(x, Colon) PROVE Take(r, 6 + q + 1, Len(y)) = y
    BY DEF Plain, x
  <2>1. Begins(r, r)
    BY <1>7 DEF Begins
  <2>2. IsFound(r, h, 6, x, y)
    BY <1>1, <1>5, <1>6, <1>7, <2>1, NameAndData, Zenon
  <2>3. First(r, Colon, 6 + 1) = 6 + 1 + Len(x) /\ Take(r, 6 + 2 + Len(x), Len(y)) = y
    BY <2>2 DEF IsFound
  <2>4. 6 + q = 6 + 1 + Len(x) /\ 6 + q + 1 = 6 + 2 + Len(x)
    BY <1>4, <1>8, <1>9, <2>3
  <2> QED BY <2>3, <2>4
<1> HIDE DEF q
<1>11. /\ Len(r) = 6 + Len(x) + 1 + n /\ \A k \in 1..6 : r[k] = h[k]
  BY <1>6, <1>7 DEF IsExtended, n
<1>12. r[1] = total_frag(f) /\ r[2] = Colon /\ r[3] = i /\ r[4] = Colon /\ r[5] = n /\ r[6] = Colon
  BY <1>5, <1>11 DEF IsLongHeader
<1>13. Len(r) \in Nat /\ Len(r) >= 6
  BY <1>4, <1>11
<1>14. First(r, Colon, 1) = 2 /\ First(r, Colon, 3) = 4 /\ First(r, Colon, 5) = 6
  <2>1. /\ 1 \in Nat /\ 2 \in 1..Len(r) /\ \A j \in 1..(2 - 1) : r[j] # Colon
        /\ 3 \in Nat /\ 4 \in 3..Len(r) /\ \A j \in 3..(4 - 1) : r[j] # Colon
        /\ 5 \in Nat /\ 6 \in 5..Len(r) /\ \A j \in 5..(6 - 1) : r[j] # Colon
    BY <1>1, <1>4, <1>12, <1>13, CharacterAssumption
  <2> QED BY <2>1, <1>12, <1>13, FirstAt
<1>15. Atoi(SubSeq(r, 5, 5)) = n
  BY <1>4, <1>7, <1>12, <1>13, OneNumber
<1> DEFINE p1 == First(r, Colon, 1)
           p2 == First(r, Colon, p1 + 1)
           p3 == First(r, Colon, p2 + 1)
           p4 == First(r, Colon, p3 + 1)
<1>16. p1 = 2 /\ p2 = 4 /\ p3 = 6 /\ p4 = 6 + q
  BY <1>8, <1>14
<1>17. /\ buffer_to_packet(r).filename = SubSeq(r, p3 + 1, p4 - 1)
       /\ buffer_to_packet(r).filedata = Take(r, p4 + 1, Atoi(SubSeq(r, p2 + 1, p3 - 1)))
  BY DEF buffer_to_packet
<1> HIDE DEF p1, p2, p3, p4
<1>18. /\ p2 + 1 = 5 /\ p3 - 1 = 5 /\ p3 + 1 = 6 + 1
       /\ p4 - 1 = 6 + q - 1 /\ p4 + 1 = 6 + q + 1
  BY <1>4, <1>9, <1>16
<1>19. /\ buffer_to_packet(r).filename = Opened(f)
       /\ buffer_to_packet(r).filedata = Take(r, 6 + q + 1, n)
  BY <1>3, <1>8, <1>15, <1>17, <1>18, Zenon
<1> QED BY <1>2, <1>8, <1>10, <1>19 DEF IsPiece, y, n

-----------------------------------------------------------------------------
(* Where the fragments of a file are in it.                                *)

\* The number of characters in the first i fragments of f.
Upto(f, i) ==
  IF i * file_frag_size < Len(Content[f]) THEN i * file_frag_size ELSE Len(Content[f])

LEMMA Division ==
  ASSUME NEW a \in Nat, NEW b \in Nat \ {0}
  PROVE  a \div b \in Nat /\ (a \div b) * b <= a /\ a < (a \div b) * b + b
OBVIOUS

LEMMA Product ==
  ASSUME NEW a \in Nat, NEW b \in Nat, NEW c \in Nat
  PROVE  a * c \in Nat /\ (a + 1) * c = a * c + c /\ (a <= b => a * c <= b * c)
<1>1. a * c \in Nat /\ (a + 1) * c = a * c + c
  OBVIOUS
<1>2. a <= b => a * c <= b * c
  OBVIOUS
<1> QED BY <1>1, <1>2

\* The fragments have room for the file, and the last one is needed.
LEMMA Room ==
  ASSUME NEW S, Texts(S), NEW f \in Upload
  PROVE  /\ Len(Content[f]) \in Nat /\ total_frag(f) \in Nat
         /\ Len(Content[f]) <= total_frag(f) * file_frag_size
         /\ \A i \in Nat : i < total_frag(f) => i * file_frag_size < Len(Content[f])
<1> DEFINE n == Len(Content[f])
           c == file_frag_size
           t == total_frag(f)
<1>1. n \in Nat /\ c \in Nat \ {0}
  BY DEF Texts
<1>2. t = (n + c - 1) \div c
  BY DEF total_frag
<1> HIDE DEF n, c, t
<1>3. n + c - 1 \in Nat
  BY <1>1
<1>4. t \in Nat /\ t * c <= n + c - 1 /\ n + c - 1 < t * c + c
  BY <1>1, <1>2, <1>3, Division
<1>5. t * c \in Nat
  BY <1>1, <1>4, Product
<1>6. n <= t * c
  BY <1>1, <1>4, <1>5
<1>7. ASSUME NEW i \in Nat, i < t PROVE i * c < n
  <2>1. i * c \in Nat /\ (i + 1) * c = i * c + c /\ (i + 1) * c <= t * c
    <3>1. i + 1 \in Nat /\ i + 1 <= t
      BY <1>4, <1>7
    <3> QED BY <3>1, <1>1, <1>4, Product
  <2> QED BY <2>1, <1>1, <1>4, <1>5
<1> QED BY <1>1, <1>4, <1>6, <1>7 DEF n, c, t

\* A fragment is what is in the file behind the fragments before it.
LEMMA PieceAt ==
  ASSUME NEW S, Texts(S), NEW f \in Upload, NEW i \in Nat, i < total_frag(f)
  PROVE  /\ Upto(f, i) \in Nat /\ Upto(f, i + 1) = Upto(f, i) + Len(Piece(f, i + 1))
         /\ Upto(f, i + 1) <= Len(Content[f])
         /\ \A k \in 1..Len(Piece(f, i + 1)) :
              Piece(f, i + 1)[k] = Content[f][Upto(f, i) + k]
<1> DEFINE c == file_frag_size
           n == Len(Content[f])
           r == i * c
           m == IF n - r < c THEN n - r ELSE c
           y == SubSeq(Content[f], r + 1, r + m)
<1>1. /\ c \in Nat \ {0} /\ Content[f] \in Seq(S) /\ n \in Nat
      /\ r \in Nat /\ (i + 1) * c = r + c /\ r < n
  <2>1. c \in Nat \ {0} /\ Content[f] \in Seq(S)
    BY DEF Texts
  <2>2. r \in Nat /\ (i + 1) * c = r + c
    BY <2>1, Product
  <2> QED BY <2>1, <2>2, Room
<1>2. Upto(f, i) = r /\ Upto(f, i + 1) = IF (i + 1) * c < n THEN (i + 1) * c ELSE n
  BY <1>1 DEF Upto
<1>3. Piece(f, i + 1) = y
  <2>1. (i + 1) - 1 = i
    OBVIOUS
  <2> QED BY <2>1, Zenon DEF Piece
<1> HIDE DEF c, r, n
<1>4. m \in Nat /\ r + m <= n /\ (r + c < n => m = c) /\ (~ (r + c < n) => r + m = n)
  BY <1>1
<1> HIDE DEF m
<1>5. Len(y) = m /\ \A k \in 1..m : y[k] = Content[f][r + k]
  <2>1. \A k \in (r + 1)..(r + m) : Content[f][k] \in S
    BY <1>1, <1>4 DEF n
  <2>2. /\ Len(y) = IF r + 1 <= r + m THEN r + m - (r + 1) + 1 ELSE 0
        /\ \A k \in 1..(r + m - (r + 1) + 1) : y[k] = Content[f][r + 1 + k - 1]
    BY <2>1, <1>1, <1>4, SubSeqProperties
  <2>3. r + m - (r + 1) + 1 = m /\ (r + 1 <= r + m <=> 1 <= m)
    BY <1>1, <1>4
  <2>4. \A k \in 1..m : r + 1 + k - 1 = r + k
    BY <1>1
  <2> HIDE DEF y
  <2> QED BY <2>2, <2>3, <2>4, <1>4
<1> HIDE DEF y
<1>6. Upto(f, i + 1) = r + m
  BY <1>1, <1>2, <1>4
<1> QED BY <1>1, <1>2, <1>3, <1>4, <1>5, <1>6 DEF n

\* write() puts its data where it says, and leaves the rest.
LEMMA OverwriteText ==
  ASSUME NEW S, NEW s \in Seq(S), NEW at \in Nat, at <= Len(s), NEW data \in Seq(S)
  PROVE  /\ WriteAt(s, at, data) \in Seq(S)
         /\ Len(WriteAt(s, at, data)) =
              IF Len(s) > at + Len(data) THEN Len(s) ELSE at + Len(data)
         /\ \A k \in 1..at : WriteAt(s, at, data)[k] = s[k]
         /\ \A k \in 1..Len(data) : WriteAt(s, at, data)[at + k] = data[k]
<1> DEFINE n == IF Len(s) > at + Len(data) THEN Len(s) ELSE at + Len(data)
           w == [k \in 1..n |-> IF k \in (at + 1)..(at + Len(data)) THEN data[k - at] ELSE s[k]]
<1>1. Len(s) \in Nat /\ Len(data) \in Nat
  OBVIOUS
<1>2. n \in Nat /\ at + Len(data) <= n /\ Len(s) <= n
  BY <1>1
<1>3. WriteAt(s, at, data) = w
  BY DEF WriteAt
<1>4. \A k \in 1..n : (k \in (at + 1)..(at + Len(data)) /\ k - at \in 1..Len(data)) \/ k \in 1..Len(s)
  BY <1>1
<1> HIDE DEF n
<1>5. \A k \in 1..n : (IF k \in (at + 1)..(at + Len(data)) THEN data[k - at] ELSE s[k]) \in S
  BY <1>4
<1>6. w \in [1..n -> S]
  BY <1>5
<1>7. w \in Seq(S) /\ Len(w) = n
  BY <1>2, <1>6
<1>8. \A k \in 1..at : k \in 1..n /\ k \notin (at + 1)..(at + Len(data))
  BY <1>1, <1>2
<1>9. \A k \in 1..Len(data) :
        at + k \in 1..n /\ at + k \in (at + 1)..(at + Len(data)) /\ (at + k) - at = k
  BY <1>1, <1>2
<1>10. \A k \in 1..at : w[k] = s[k]
  BY <1>8
<1>11. \A k \in 1..Len(data) : w[at + k] = data[k]
  BY <1>9
<1> QED BY <1>3, <1>7, <1>10, <1>11 DEF n

-----------------------------------------------------------------------------
(* What is stored.  As long as no two senders are mixed, the file that the *)
(* server writes is the one its sender reads, up to the same place.        *)

\* The fragment of a sender that is on its way is the current one.
Current ==
  \A k \in 1..Len(datagrams) :
    LET d == deliver[datagrams[k].from]
    IN  datagrams[k].text = done \/ datagrams[k].text = Text(d.file, d.i)

Sending ==
  \A s \in Sender : deliver[s].pc \in {"send", "wait", "goodbye"} => deliver[s].file \in Upload

Writes(S, s) ==
  LET f == deliver[s].file
  IN  /\ server.fd = Opened(f) /\ server.position = Upto(f, server.i)
      /\ server.pc = "write" => IsPiece(S, f, server.i + 1, server.data)
      /\ server.position <= Len(disk[server.fd])
      /\ Plain(f) => \A k \in 1..server.position : disk[server.fd][k] = Content[f][k]

\* No file is longer than the longest one that is sent under its name.
Fits(S) ==
  /\ disk \in [{Opened(f) : f \in Upload} -> Seq(S)]
  /\ \A f \in Upload :
       \E g \in Upload : Opened(g) = Opened(f) /\ Len(disk[Opened(f)]) <= Len(Content[g])

Full(S) ==
  /\ Good /\ Current /\ Sending /\ Fits(S)
  /\ \A s \in Sender : Serving(s) => Writes(S, s)

\* Whom the server serves is at that file.
LEMMA ServingSender ==
  ASSUME NEW S, Texts(S), Full(S), NEW s \in Sender, Serving(s)
  PROVE  /\ deliver[s].pc \in {"send", "wait", "goodbye"} /\ deliver[s].file \in Upload
         /\ server.i \in Nat
         /\ server.pc = "write" => server.i < total_frag(deliver[s].file)
         /\ server.pc = "goodbye" => server.i = total_frag(deliver[s].file)
<1>1. /\ deliver[s].pc \in {"prompt", "send", "wait", "goodbye", "quit"} /\ server.i \in Nat
      /\ Phase(s) /\ ~ Gone
  BY DEF Full, Good, Types, Gone, Serving
<1>2. deliver[s].pc \in {"send", "wait", "goodbye"}
  BY <1>1 DEF Phase
<1>3. deliver[s].file \in Upload
  BY <1>2 DEF Full, Sending
<1>4. Total(s) \in Nat /\ Total(s) = total_frag(deliver[s].file)
  BY <1>3, TotalType DEF Total
<1>5. Took(s) \/ (deliver[s].i \in 1..Total(s) /\ deliver[s].i > 1 /\ Awaits(s))
  BY <1>1, <1>2 DEF Phase, Unanswered, Replied, Served, Awaits
<1>6. CASE Took(s)
  BY <1>1, <1>2, <1>3, <1>4, <1>6 DEF Took
<1>7. CASE deliver[s].i \in 1..Total(s) /\ deliver[s].i > 1 /\ Awaits(s)
  BY <1>1, <1>2, <1>3, <1>4, <1>7 DEF Awaits
<1> QED BY <1>5, <1>6, <1>7

\* The datagram in front is the current fragment of a sender that waits.
LEMMA HeadAwaited ==
  ASSUME NEW S, Texts(S), Full(S), NEW s, s = Head(datagrams).from,
         Len(datagrams) > 0, Head(datagrams).text # done
  PROVE  /\ s \in Sender /\ deliver[s].file \in Upload
         /\ deliver[s].i \in 1..total_frag(deliver[s].file) /\ Awaits(s)
         /\ Head(datagrams).text = Text(deliver[s].file, deliver[s].i)
<1>1. /\ datagrams \in Seq(Datagram) /\ Len(datagrams) \in Nat /\ 1 \in 1..Len(datagrams)
      /\ Head(datagrams) = datagrams[1] /\ datagrams[1].from \in Sender
  <2>1. Types
    BY DEF Full, Good
  <2>2. datagrams \in Seq(Datagram) /\ Len(datagrams) \in Nat
        /\ \A k \in 1..Len(datagrams) : datagrams[k].from \in Sender
    BY <2>1, Queued
  <2>3. 1 \in 1..Len(datagrams) /\ Head(datagrams) = datagrams[1]
    BY <2>2
  <2> QED BY <2>2, <2>3
<1>2. s \in Sender /\ Pending(s)
  BY <1>1 DEF Pending
<1>3. deliver[s].pc = "wait"
  BY <1>1 DEF Full, Good, Queue
<1>4. Head(datagrams).text = Text(deliver[s].file, deliver[s].i)
  BY <1>1 DEF Full, Current
<1>5. deliver[s].file \in Upload /\ deliver[s].i \in 1..Total(s) /\ Awaits(s)
  BY <1>2, <1>3 DEF Full, Good, Phase, Unanswered, Replied, Served
<1> QED BY <1>2, <1>4, <1>5 DEF Total

\* What is left in the queue is current if its senders have not moved.
LEMMA StaysCurrent ==
  ASSUME Current,
         \A k \in 1..Len(datagrams') :
           \/ datagrams'[k].text = done
           \/ LET d == deliver'[datagrams'[k].from] IN datagrams'[k].text = Text(d.file, d.i)
           \/ \E j \in 1..Len(datagrams) :
                /\ datagrams'[k] = datagrams[j]
                /\ deliver'[datagrams[j].from] = deliver[datagrams[j].from]
  PROVE  Current'
<1> SUFFICES ASSUME NEW k \in 1..Len(datagrams')
             PROVE  LET d == deliver'[datagrams'[k].from]
                    IN  datagrams'[k].text = done \/ datagrams'[k].text = Text(d.file, d.i)
  BY DEF Current, done, Text
<1> QED BY DEF Current

\* A step that touches neither the server's variables nor its files.
LEMMA SenderFull ==
  ASSUME NEW S, Full(S), Good', NEW s \in Sender, server' = server, disk' = disk,
         \A r \in Sender : r # s => deliver'[r] = deliver[r],
         deliver'[s].file = deliver[s].file \/ ~ Serving(s)',
         deliver'[s].pc \in {"send", "wait", "goodbye"} => deliver'[s].file \in Upload,
         Current'
  PROVE  Full(S)'
<1>1. Sending'
  BY DEF Full, Sending
<1>2. Fits(S)'
  BY DEF Full, Fits, Opened
<1>3. ASSUME NEW r \in Sender, Serving(r)' PROVE Writes(S, r)'
  <2>1. Serving(r) /\ deliver'[r].file = deliver[r].file
    BY <1>3 DEF Serving
  <2> QED BY <2>1 DEF Full, Writes, IsPiece, Plain, Opened, Upto
<1> QED BY <1>1, <1>2, <1>3 DEF Full

\* The steps of a sender.
LEMMA SenderStepFull ==
  ASSUME NEW S, Texts(S), Full(S), Good', NEW s \in Sender,
         DeliverStep(s) \/ SendDone(s) \/ \E f \in Upload : Start(s, f)
  PROVE  Full(S)'
<1>1. /\ datagrams \in Seq(Datagram) /\ Len(datagrams) \in Nat
      /\ deliver \in [Sender -> [pc : {"prompt", "send", "wait", "goodbye", "quit"},
                                 file : Upload \cup {NoUpload}, i : Nat]]
      /\ \A k \in 1..Len(datagrams) : datagrams[k].from \in Sender
  BY Queued DEF Full, Good, Types
<1>2. ASSUME server' = server, disk' = disk, datagrams' = datagrams,
             NEW d, deliver' = [deliver EXCEPT ![s] = d], d.pc # "wait",
             d.file = deliver[s].file \/ ~ Serving(s)',
             d.pc \in {"send", "goodbye"} => d.file \in Upload
      PROVE  Full(S)'
  <2>1. deliver'[s] = d /\ \A r \in Sender : r # s => deliver'[r] = deliver[r]
    BY <1>1, <1>2
  <2>2. Current'
    <3>1. ASSUME NEW k \in 1..Len(datagrams')
          PROVE  \/ datagrams'[k].text = done
                 \/ \E j \in 1..Len(datagrams) :
                      /\ datagrams'[k] = datagrams[j]
                      /\ deliver'[datagrams[j].from] = deliver[datagrams[j].from]
      <4>1. CASE datagrams[k].from = s
        BY <4>1, <1>2, <2>1, <3>1 DEF Good, Queue, done
      <4>2. CASE datagrams[k].from # s
        BY <4>2, <1>1, <1>2, <2>1
      <4> QED BY <4>1, <4>2
    <3> QED BY <3>1, StaysCurrent DEF Full
  <2> QED BY <1>2, <2>1, <2>2, SenderFull
<1>3. ASSUME server' = server, disk' = disk, NEW text, SendDatagram(s, text), ~ Pending(s),
             NEW d, deliver' = [deliver EXCEPT ![s] = d],
             text = done \/ text = Text(d.file, d.i),
             d.file = deliver[s].file, d.pc = "wait" => d.file \in Upload,
             d.pc \in {"wait", "quit"}
      PROVE  Full(S)'
  <2>1. deliver'[s] = d /\ \A r \in Sender : r # s => deliver'[r] = deliver[r]
    BY <1>1, <1>3
  <2>2. Current'
    <3>1. ASSUME NEW k \in 1..Len(datagrams), NEW t, t = datagrams[k]
          PROVE  \E j \in 1..Len(datagrams) :
                   t = datagrams[j] /\ deliver'[datagrams[j].from] = deliver[datagrams[j].from]
      BY <1>1, <1>3, <2>1, <3>1 DEF Pending
    <3>2. CASE datagrams' = datagrams
      BY <3>1, <3>2, StaysCurrent DEF Full
    <3>3. CASE datagrams' = Append(datagrams, [from |-> s, text |-> text])
      <4>1. /\ Len(datagrams') = Len(datagrams) + 1
            /\ datagrams'[Len(datagrams) + 1] = [from |-> s, text |-> text]
            /\ \A k \in 1..Len(datagrams) : datagrams'[k] = datagrams[k]
        BY <1>1, <3>3
      <4>2. \A k \in 1..Len(datagrams') : k \in 1..Len(datagrams) \/ k = Len(datagrams) + 1
        BY <1>1, <4>1
      <4>3. LET x == datagrams'[Len(datagrams) + 1]
            IN  x.text = done \/ x.text = Text(deliver'[x.from].file, deliver'[x.from].i)
        BY <1>3, <2>1, <4>1
      <4>4. ASSUME NEW k \in 1..Len(datagrams')
            PROVE  \/ datagrams'[k].text = done
                   \/ LET x == deliver'[datagrams'[k].from]
                      IN  datagrams'[k].text = Text(x.file, x.i)
                   \/ \E j \in 1..Len(datagrams) :
                        /\ datagrams'[k] = datagrams[j]
                        /\ deliver'[datagrams[j].from] = deliver[datagrams[j].from]
        BY <3>1, <4>1, <4>2, <4>3
      <4> QED BY <4>4, StaysCurrent DEF Full
    <3> QED BY <1>3, <3>2, <3>3 DEF SendDatagram
  <2> QED BY <1>3, <2>1, <2>2, SenderFull
<1>4. ASSUME NEW f \in Upload, Start(s, f) PROVE Full(S)'
  <2>1. PICK next \in {"goodbye", "quit", "send"} :
          deliver' = [deliver EXCEPT ![s] = [pc |-> next, file |-> f, i |-> 1]]
    BY <1>4 DEF Start
  <2>2. /\ deliver[s].pc = "prompt" /\ server' = server /\ disk' = disk /\ datagrams' = datagrams
    BY <1>4 DEF Start
  <2>3. ~ Serving(s)'
    BY <2>2 DEF Full, Good, Phase, Serving
  <2> DEFINE d == [pc |-> next, file |-> f, i |-> 1]
  <2>4. d.pc # "wait" /\ d.file = f
    OBVIOUS
  <2> HIDE DEF d
  <2> QED BY <2>1, <2>2, <2>3, <2>4, <1>2 DEF d
<1>5. ASSUME Send(s) PROVE Full(S)'
  <2> DEFINE d == [deliver[s] EXCEPT !.pc = "wait"]
  <2>1. /\ deliver[s].pc = "send" /\ deliver' = [deliver EXCEPT ![s] = d]
        /\ SendDatagram(s, Text(deliver[s].file, deliver[s].i)) /\ server' = server /\ disk' = disk
    BY <1>5 DEF Send, Text
  <2>2. deliver[s].file \in Upload /\ ~ Pending(s)
    BY <2>1 DEF Full, Good, Phase
  <2>3. d.pc = "wait" /\ d.file = deliver[s].file /\ d.i = deliver[s].i
    BY <1>1
  <2> HIDE DEF d
  <2> QED BY <2>1, <2>2, <2>3, <1>3
<1>6. ASSUME Reply(s) PROVE Full(S)'
  <2> DEFINE d == IF deliver[s].i < Total(s) THEN [deliver[s] EXCEPT !.pc = "send", !.i = @ + 1]
                                             ELSE [deliver[s] EXCEPT !.pc = "goodbye"]
  <2>1. /\ deliver' = [deliver EXCEPT ![s] = d] /\ d.pc \in {"send", "goodbye"}
        /\ d.file = deliver[s].file
    <3>1. deliver' = [deliver EXCEPT ![s] = d]
      BY <1>6, Zenon DEF Reply, Total
    <3>2. d.pc \in {"send", "goodbye"} /\ d.file = deliver[s].file
      BY <1>1
    <3> QED BY <3>1, <3>2
  <2> HIDE DEF d
  <2>2. /\ deliver[s].pc = "wait" /\ server' = server /\ disk' = disk /\ datagrams' = datagrams
    BY <1>6 DEF Reply
  <2>3. deliver[s].file \in Upload
    BY <2>2 DEF Full, Sending
  <2> QED BY <2>1, <2>2, <2>3, <1>2
<1>7. ASSUME HearGoodbye(s) PROVE Full(S)'
  <2>1. /\ deliver' = [deliver EXCEPT ![s] = Idle] /\ server' = server /\ disk' = disk
        /\ datagrams' = datagrams
    BY <1>7 DEF HearGoodbye
  <2>2. Idle.pc = "prompt"
    BY DEF Idle
  <2>3. deliver'[s].pc = "prompt"
    BY <1>1, <2>1, <2>2
  <2>4. ~ Serving(s)'
    BY <2>3 DEF Good, Phase
  <2> QED BY <2>1, <2>2, <2>4, <1>2
<1>8. ASSUME SendDone(s) PROVE Full(S)'
  <2> DEFINE d == [deliver[s] EXCEPT !.pc = "quit"]
  <2>1. /\ deliver[s].pc = "prompt" /\ deliver' = [deliver EXCEPT ![s] = d]
        /\ SendDatagram(s, done) /\ server' = server /\ disk' = disk
    BY <1>8 DEF SendDone
  <2>2. ~ Pending(s)
    BY <2>1 DEF Full, Good, Phase
  <2>3. d.pc = "quit" /\ d.file = deliver[s].file
    BY <1>1
  <2> HIDE DEF d
  <2> QED BY <2>1, <2>2, <2>3, <1>3
<1> QED BY <1>4, <1>5, <1>6, <1>7, <1>8 DEF DeliverStep

\* A step of the server, or of the network, that writes nothing.
LEMMA ServerFull ==
  ASSUME NEW S, Full(S), Good', deliver' = deliver, disk' = disk,
         datagrams' = datagrams \/ datagrams' = <<>> \/ (datagrams # <<>> /\ datagrams' = Tail(datagrams)),
         \A s \in Sender : Serving(s)' => Writes(S, s)'
  PROVE  Full(S)'
<1>1. Sending' /\ Fits(S)'
  BY DEF Full, Sending, Fits, Opened
<1>2. datagrams \in Seq(Datagram) /\ Len(datagrams) \in Nat
  BY Queued DEF Full, Good
<1>3. \A k \in 1..Len(datagrams') : \E j \in 1..Len(datagrams) : datagrams'[k] = datagrams[j]
  <2>1. CASE datagrams' = datagrams
    BY <2>1
  <2>2. CASE datagrams' = <<>>
    BY <2>2
  <2>3. CASE datagrams # <<>> /\ datagrams' = Tail(datagrams)
    <3>1. /\ Len(datagrams') = Len(datagrams) - 1
          /\ \A k \in 1..Len(datagrams') : datagrams'[k] = datagrams[k + 1]
      BY <2>3, <1>2
    <3>2. \A k \in 1..Len(datagrams') : k + 1 \in 1..Len(datagrams)
      BY <3>1, <1>2
    <3> QED BY <3>1, <3>2
  <2> QED BY <2>1, <2>2, <2>3
<1>4. Current'
  BY <1>3, StaysCurrent DEF Full
<1> QED BY <1>1, <1>4 DEF Full

\* The first fragment opens the file of its sender.
LEMMA FirstFull ==
  ASSUME NEW S, Texts(S), Full(S), Good', TakeFirst
  PROVE  Full(S)'
<1> DEFINE p == buffer_to_packet(Head(datagrams).text)
<1>1. PICK s : s = Head(datagrams).from
  OBVIOUS
<1>2. /\ server.pc = "idle" /\ Len(datagrams) > 0 /\ Head(datagrams).text # done
      /\ server' = [pc |-> "write", total_frag |-> p.total_frag, i |-> 0, fd |-> p.filename,
                    position |-> 0, data |-> p.filedata, from_addr |-> s]
      /\ datagrams' = Tail(datagrams) /\ deliver' = deliver /\ disk' = disk
  BY <1>1 DEF TakeFirst, Fragment
<1> DEFINE f == deliver[s].file
<1>3. /\ s \in Sender /\ f \in Upload /\ deliver[s].i \in 1..total_frag(f) /\ Awaits(s)
      /\ Head(datagrams).text = Text(f, deliver[s].i)
  BY <1>1, <1>2, HeadAwaited
<1>4. deliver[s].i = 1
  BY <1>2, <1>3 DEF Awaits, Serving
<1>5. p.filename = Opened(f) /\ IsPiece(S, f, 1, p.filedata)
  BY <1>3, <1>4, FragmentRead
<1>6. Upto(f, 0) = 0
  <2>1. Len(Content[f]) \in Nat /\ file_frag_size \in Nat
    BY <1>3, Room DEF Texts
  <2>2. 0 * file_frag_size = 0
    BY <2>1
  <2> QED BY <2>1, <2>2 DEF Upto
<1>7. disk[Opened(f)] \in Seq(S)
  BY <1>3 DEF Full, Fits
<1> HIDE DEF p
<1>8. /\ server'.fd = Opened(f) /\ server'.i = 0 /\ server'.position = 0
      /\ server'.data = p.filedata /\ server'.from_addr = s
  BY <1>2, <1>5
<1>9. Writes(S, s)'
  <2>1. server'.position = Upto(f, server'.i) /\ IsPiece(S, f, server'.i + 1, server'.data)
    BY <1>5, <1>6, <1>8
  <2>2. server'.position <= Len(disk'[server'.fd])
    BY <1>2, <1>7, <1>8
  <2>3. \A k \in 1..server'.position : disk'[server'.fd][k] = Content[f][k]
    BY <1>8
  <2> QED BY <2>1, <2>2, <2>3, <1>2, <1>8 DEF Writes, IsPiece, Plain, Opened, Upto
<1>10. \A r \in Sender : Serving(r)' => r = s
  BY <1>8 DEF Serving
<1>11. datagrams # <<>>
  BY <1>2
<1> QED BY <1>2, <1>9, <1>10, <1>11, ServerFull

\* The next one is of the same sender, and of the place behind the last.
LEMMA NextFull ==
  ASSUME NEW S, Texts(S), Full(S), Good', TakeNext, ~ mixed'
  PROVE  Full(S)'
<1> DEFINE p == buffer_to_packet(Head(datagrams).text)
<1>1. PICK s : s = Head(datagrams).from
  OBVIOUS
<1>2. /\ server.pc = "body" /\ Len(datagrams) > 0 /\ Head(datagrams).text # done
      /\ server' = [server EXCEPT !.pc = "write", !.data = p.filedata, !.from_addr = s]
      /\ datagrams' = Tail(datagrams) /\ deliver' = deliver /\ disk' = disk
      /\ s = server.from_addr
  BY <1>1, Zenon DEF TakeNext, Fragment
<1> DEFINE f == deliver[s].file
<1>3. /\ s \in Sender /\ f \in Upload /\ deliver[s].i \in 1..total_frag(f) /\ Awaits(s)
      /\ Head(datagrams).text = Text(f, deliver[s].i)
  BY <1>1, <1>2, HeadAwaited
<1>4. Serving(s) /\ server.i \in Nat
  BY <1>2 DEF Serving, Full, Good, Types
<1>5. deliver[s].i = server.i + 1
  BY <1>2, <1>3, <1>4 DEF Awaits
<1>6. IsPiece(S, f, server.i + 1, p.filedata)
  BY <1>3, <1>5, FragmentRead
<1> HIDE DEF p
<1>7. /\ server'.fd = server.fd /\ server'.i = server.i /\ server'.position = server.position
      /\ server'.data = p.filedata /\ server'.from_addr = s
  <2>1. server = [pc |-> server.pc, total_frag |-> server.total_frag, i |-> server.i,
                  fd |-> server.fd, position |-> server.position, data |-> server.data,
                  from_addr |-> server.from_addr]
    BY DEF Full, Good, Types
  <2> QED BY <1>2, <2>1
<1>8. Writes(S, s)
  BY <1>3, <1>4 DEF Full
<1>9. Writes(S, s)'
  BY <1>2, <1>6, <1>7, <1>8 DEF Writes, IsPiece, Plain, Opened, Upto
<1>10. \A r \in Sender : Serving(r)' => r = s
  BY <1>7 DEF Serving
<1>11. datagrams # <<>>
  BY <1>2
<1> QED BY <1>2, <1>9, <1>10, <1>11, ServerFull

\* write() brings the file one fragment further.
LEMMA WriteFull ==
  ASSUME NEW S, Texts(S), Full(S), Good', WriteFragment
  PROVE  Full(S)'
<1>1. PICK s : s = server.from_addr
  OBVIOUS
<1> DEFINE f == deliver[s].file
           n == server.fd
           at == server.position
           data == server.data
           w == WriteAt(disk[n], at, data)
<1>2. /\ server.pc = "write" /\ deliver' = deliver /\ datagrams' = datagrams
      /\ disk' = [disk EXCEPT ![n] = w]
      /\ server' = [server EXCEPT !.position = at + Len(data), !.i = @ + 1,
                      !.pc = IF server.i + 1 < server.total_frag THEN "body" ELSE "goodbye"]
  BY DEF WriteFragment
<1>3. s \in Sender /\ Serving(s)
  BY <1>1, <1>2 DEF Full, Good, Types, Serving
<1>4. f \in Upload /\ server.i \in Nat /\ server.i < total_frag(f)
  BY <1>2, <1>3, ServingSender
<1>5. /\ n = Opened(f) /\ at = Upto(f, server.i) /\ at <= Len(disk[n])
      /\ IsPiece(S, f, server.i + 1, data)
      /\ Plain(f) => \A k \in 1..at : disk[n][k] = Content[f][k]
  BY <1>2, <1>3 DEF Full, Writes
<1>6. disk \in [{Opened(g) : g \in Upload} -> Seq(S)] /\ n \in {Opened(g) : g \in Upload}
  BY <1>4, <1>5 DEF Full, Fits
<1>7. /\ at \in Nat /\ Upto(f, server.i + 1) = at + Len(data)
      /\ at + Len(data) <= Len(Content[f]) /\ Len(Content[f]) \in Nat
      /\ data \in Seq(S) /\ Len(data) \in Nat
      /\ Plain(f) => \A k \in 1..Len(data) : data[k] = Content[f][at + k]
  <2>1. data \in Seq(S) /\ Len(data) = Len(Piece(f, server.i + 1)) /\ Len(data) \in Nat
    BY <1>5 DEF IsPiece
  <2>2. Len(Content[f]) \in Nat
    BY <1>4, Room
  <2>3. Plain(f) => data = Piece(f, server.i + 1)
    BY <1>5 DEF IsPiece
  <2> HIDE DEF f, at, data
  <2> QED BY <2>1, <2>2, <2>3, <1>4, <1>5, PieceAt
<1>8. disk[n] \in Seq(S)
  BY <1>6
<1>9. /\ w \in Seq(S)
      /\ Len(w) = IF Len(disk[n]) > at + Len(data) THEN Len(disk[n]) ELSE at + Len(data)
      /\ \A k \in 1..at : w[k] = disk[n][k]
      /\ \A k \in 1..Len(data) : w[at + k] = data[k]
  BY <1>5, <1>7, <1>8, OverwriteText
<1>10. server = [pc |-> server.pc, total_frag |-> server.total_frag, i |-> server.i,
                 fd |-> server.fd, position |-> server.position, data |-> server.data,
                 from_addr |-> server.from_addr]
  BY DEF Full, Good, Types
<1>11. /\ server'.fd = n /\ server'.i = server.i + 1 /\ server'.position = at + Len(data)
       /\ server'.from_addr = s /\ server'.pc # "write"
  BY <1>1, <1>2, <1>10
<1>12. disk' \in [{Opened(g) : g \in Upload} -> Seq(S)] /\ disk'[n] = w
       /\ \A m \in {Opened(g) : g \in Upload} : m # n => disk'[m] = disk[m]
  BY <1>2, <1>6, <1>9
<1> HIDE DEF f, n, at, data, w
<1>13. Fits(S)'
  <2>1. ASSUME NEW g \in Upload
        PROVE  \E h \in Upload : Opened(h) = Opened(g) /\ Len(disk'[Opened(g)]) <= Len(Content[h])
    <3>1. PICK h \in Upload : Opened(h) = Opened(g) /\ Len(disk[Opened(g)]) <= Len(Content[h])
      BY DEF Full, Fits
    <3>2. CASE Opened(g) # n
      BY <3>1, <3>2, <1>12
    <3>3. CASE Opened(g) = n /\ Len(disk[n]) > at + Len(data)
      BY <3>1, <3>3, <1>9, <1>12
    <3>4. CASE Opened(g) = n /\ ~ (Len(disk[n]) > at + Len(data))
      BY <3>4, <1>4, <1>5, <1>7, <1>9, <1>12
    <3> QED BY <3>2, <3>3, <3>4
  <2> QED BY <2>1, <1>12 DEF Fits, Opened
<1>14. Writes(S, s)'
  <2>1. at + Len(data) <= Len(w)
    BY <1>7, <1>8, <1>9
  <2>2. ASSUME Plain(f), NEW k \in 1..(at + Len(data)) PROVE w[k] = Content[f][k]
    <3>1. CASE k \in 1..at
      BY <3>1, <2>2, <1>5, <1>9
    <3>2. CASE k \notin 1..at
      <4>1. k - at \in 1..Len(data) /\ at + (k - at) = k
        BY <3>2, <1>7
      <4> QED BY <4>1, <2>2, <1>7, <1>9
    <3> QED BY <3>1, <3>2
  <2>3. /\ server'.fd = Opened(f) /\ server'.position = Upto(f, server'.i)
        /\ server'.pc # "write" /\ server'.position <= Len(disk'[server'.fd])
    BY <2>1, <1>5, <1>7, <1>11, <1>12
  <2>4. Plain(f) => \A k \in 1..server'.position : disk'[server'.fd][k] = Content[f][k]
    BY <2>2, <1>11, <1>12
  <2>5. deliver'[s].file = f
    BY <1>2 DEF f
  <2> QED BY <2>3, <2>4, <2>5, Zenon DEF Writes, Plain, Opened, Upto
<1>15. \A r \in Sender : Serving(r)' => r = s
  BY <1>11 DEF Serving
<1>16. Sending' /\ Current'
  <2>1. Sending'
    BY <1>2 DEF Full, Sending
  <2>2. Current'
    BY <1>2, StaysCurrent DEF Full
  <2> QED BY <2>1, <2>2
<1> QED BY <1>13, <1>14, <1>15, <1>16 DEF Full

\* The server answers, ends, or a datagram is lost.
LEMMA OtherFull ==
  ASSUME NEW S, Full(S), Good', TakeDone \/ ServerExits \/ SayGoodbye \/ Lose
  PROVE  Full(S)'
<1>1. deliver' = deliver /\ disk' = disk
  BY DEF TakeDone, ServerExits, SayGoodbye, Lose
<1>2. datagrams' = datagrams \/ datagrams' = <<>> \/ (datagrams # <<>> /\ datagrams' = Tail(datagrams))
  BY DEF TakeDone, ServerExits, SayGoodbye, Lose
<1>3. ASSUME NEW s \in Sender, Serving(s)' PROVE Writes(S, s)'
  <2>1. server' = server \/ server'.pc \in {"quit", "failed", "idle"}
    <3>1. server = [pc |-> server.pc, total_frag |-> server.total_frag, i |-> server.i,
                    fd |-> server.fd, position |-> server.position, data |-> server.data,
                    from_addr |-> server.from_addr]
      BY DEF Full, Good, Types
    <3>2. TakeDone => server'.pc = "quit"
      BY <3>1 DEF TakeDone
    <3>3. ServerExits => server'.pc = "failed"
      BY <3>1 DEF ServerExits
    <3>4. SayGoodbye => server'.pc = "idle"
      BY DEF SayGoodbye, Waiting
    <3>5. Lose => server' = server
      BY DEF Lose
    <3> QED BY <3>2, <3>3, <3>4, <3>5
  <2>2. server' = server /\ Serving(s)
    BY <1>3, <2>1 DEF Serving
  <2> QED BY <2>2, <1>1 DEF Full, Writes, IsPiece, Plain, Opened, Upto
<1> QED BY <1>1, <1>2, <1>3, ServerFull

LEMMA InitFull ==
  ASSUME NEW S, Texts(S), DeliveryInit
  PROVE  Full(S)
<1>1. Good
  BY InitGood
<1>2. /\ \A s \in Sender : deliver[s].pc = "prompt"
      /\ datagrams = <<>> /\ Len(<<>>) = 0 /\ server.pc = "idle"
      /\ disk = [n \in {Opened(f) : f \in Upload} |-> <<>>]
  BY DEF DeliveryInit, Idle, Waiting
<1>3. Current /\ Sending
  BY <1>2 DEF Current, Sending
<1>4. Fits(S)
  <2>1. <<>> \in Seq(S) /\ \A f \in Upload : Len(<<>>) <= Len(Content[f])
    BY Room
  <2> QED BY <2>1, <1>2 DEF Fits
<1> QED BY <1>1, <1>2, <1>3, <1>4 DEF Full, Serving

\* At the goodbye the file is stored.
LEMMA GoodbyeStored ==
  ASSUME NEW S, Texts(S), Full(S), server.pc = "goodbye"
  PROVE  LET f == deliver[server.from_addr].file IN f \in Upload /\ (Plain(f) => Stored(f))
<1>1. PICK s : s = server.from_addr
  OBVIOUS
<1> DEFINE f == deliver[s].file
           n == Len(Content[f])
           d == disk[Opened(f)]
<1>2. s \in Sender /\ Serving(s)
  BY <1>1 DEF Full, Good, Types, Serving
<1>3. f \in Upload /\ server.i = total_frag(f)
  BY <1>2, ServingSender
<1>4. /\ server.fd = Opened(f) /\ server.position = Upto(f, server.i)
      /\ server.position <= Len(d)
      /\ Plain(f) => \A k \in 1..server.position : d[k] = Content[f][k]
  BY <1>2 DEF Full, Writes
<1>5. n \in Nat /\ n <= total_frag(f) * file_frag_size /\ Content[f] \in Seq(S)
  BY <1>3, Room DEF Texts
<1>6. server.position = n
  <2>1. total_frag(f) * file_frag_size \in Nat
    BY <1>3, Room, Product DEF Texts
  <2> QED BY <2>1, <1>3, <1>4, <1>5 DEF Upto
<1>7. d \in Seq(S) /\ \E g \in Upload : Opened(g) = Opened(f) /\ Len(d) <= Len(Content[g])
  BY <1>3 DEF Full, Fits
<1>8. ASSUME Plain(f) PROVE Stored(f)
  <2>1. Len(d) >= n /\ Len(d) \in Nat
    BY <1>4, <1>6, <1>7
  <2>2. SubSeq(d, 1, n) = Content[f]
    <3> DEFINE c == Content[f]
    <3>1. 0 \in Nat /\ c \in Seq(S) /\ Len(c) = n /\ \A k \in 1..n : d[0 + k] = c[k]
      BY <1>4, <1>5, <1>6, <1>8
    <3> HIDE DEF c, d, n
    <3>2. SubSeq(d, 0 + 1, 0 + Len(c)) = c
      BY <3>1, <2>1, <1>7, Part
    <3>3. 0 + 1 = 1 /\ 0 + Len(c) = n
      BY <3>1, <1>5
    <3> QED BY <3>2, <3>3 DEF c
  <2>3. Longest(f) => Len(d) = n
    <3> SUFFICES ASSUME Longest(f) PROVE Len(d) = n
      OBVIOUS
    <3>1. PICK g \in Upload : Opened(g) = Opened(f) /\ Len(d) <= Len(Content[g])
      BY <1>7
    <3>2. Len(Content[g]) <= n /\ Len(Content[g]) \in Nat
      BY <3>1, Room DEF Longest
    <3> QED BY <3>1, <3>2, <2>1, <1>5
  <2> QED BY <2>1, <2>2, <2>3 DEF Stored
<1> QED BY <1>1, <1>3, <1>8

\* At every goodbye of the server the file of the sender it is said to is
\* stored as it was sent, for any files, whatever is lost or fails, as long as
\* no two senders are mixed.
THEOREM AlwaysStoredAtGoodbye ==
  ASSUME NEW S, Texts(S), NoUpload \notin Upload
  PROVE  DeliverySpec => StoredWhenGoodbye
<1> DEFINE I == ~ mixed => Full(S)
           Step == SayGoodbye /\ ~ mixed =>
                     LET f == deliver[server.from_addr].file
                     IN  f # NoUpload /\ (Plain(f) => Stored(f))
<1>1. DeliveryInit => I
  BY InitFull
<1>2. I /\ [DeliveryNext]_delivery => I'
  <2> SUFFICES ASSUME I, [DeliveryNext]_delivery, ~ mixed' PROVE Full(S)'
    OBVIOUS
  <2>1. ~ mixed
    BY Zenon DEF DeliveryNext, DeliverStep, StoreStep, delivery, Start, Send, Reply, HearGoodbye, SendDone,
      TakeDone, TakeFirst, TakeNext, TakeStray, WriteFragment, ServerExits, SayGoodbye, Lose
  <2>2. Full(S) /\ Good'
    BY <2>1, StepGood DEF Full
  <2>3. CASE UNCHANGED delivery
    <3>1. deliver' = deliver /\ disk' = disk /\ datagrams' = datagrams /\ server' = server
      BY <2>3 DEF delivery
    <3>2. \A s \in Sender : Serving(s)' => Writes(S, s)'
      BY <3>1, <2>2 DEF Full, Serving, Writes, IsPiece, Plain, Opened, Upto
    <3> QED BY <3>1, <3>2, <2>2, ServerFull
  <2>4. CASE \E s \in Sender : DeliverStep(s) \/ SendDone(s) \/ \E f \in Upload : Start(s, f)
    BY <2>2, <2>4, SenderStepFull
  <2>5. CASE StoreStep
    <3>1. ~ TakeStray
      BY Zenon DEF TakeStray
    <3> QED BY <3>1, <2>2, <2>5, FirstFull, NextFull, WriteFull, OtherFull DEF StoreStep
  <2>6. CASE Lose
    BY <2>2, <2>6, OtherFull
  <2> QED BY <2>3, <2>4, <2>5, <2>6 DEF DeliveryNext
<1>3. I => [Step]_delivery
  <2> SUFFICES ASSUME I, SayGoodbye, ~ mixed PROVE Step
    OBVIOUS
  <2>1. server.pc = "goodbye"
    BY DEF SayGoodbye
  <2> QED BY <2>1, GoodbyeStored
<1> QED BY <1>1, <1>2, <1>3, PTL DEF DeliverySpec, StoredWhenGoodbye

-----------------------------------------------------------------------------
(* What a sender that waits is waiting for.                                *)

\* As long as nothing is lost, an answer is on its way to a sender that waits,
\* or the server has its fragment, or has still to write its file.
Expecting(s) ==
  /\ deliver[s].pc = "wait" =>
       Pending(s) \/ replies[s] \in {<<"reply">>, <<"reply", "goodbye">>}
  /\ deliver[s].pc = "goodbye" /\ Total(s) # 0 =>
       deliver[s].i = Total(s) /\ (replies[s] # <<>> \/ Serving(s))
  /\ deliver[s].pc \in {"prompt", "quit"} => deliver[s].file = NoUpload \/ Total(s) = 0
Expected == ~ mixed /\ ~ lost /\ ~ Gone => \A s \in Sender : Expecting(s)

\* A step of another sender, or of the server for one.
LEMMA StillExpecting ==
  ASSUME NEW r \in Sender, Expecting(r), deliver'[r] = deliver[r], replies'[r] = replies[r],
         Pending(r) => Pending(r)', Serving(r) => Serving(r)'
  PROVE  Expecting(r)'
<1>1. Total(r)' = Total(r)
  BY DEF Total
<1> QED BY <1>1 DEF Expecting

\* A datagram at the head leaves the others where they were.
LEMMA StillPending ==
  ASSUME Types, datagrams # <<>>, datagrams' = Tail(datagrams), NEW r \in Sender, Pending(r),
         r # datagrams[1].from
  PROVE  Pending(r)'
<1>1. PICK k \in 1..Len(datagrams) : datagrams[k].from = r
  BY DEF Pending
<1>2. /\ datagrams \in Seq(Datagram) /\ Len(datagrams) \in Nat
  BY Queued
<1>3. /\ Len(datagrams') = Len(datagrams) - 1
      /\ \A j \in 1..Len(datagrams') : datagrams'[j] = datagrams[j + 1]
  BY <1>2
<1>4. k # 1 /\ k - 1 \in 1..Len(datagrams') /\ (k - 1) + 1 = k
  BY <1>1, <1>2, <1>3
<1>5. datagrams'[k - 1].from = r
  BY <1>1, <1>3, <1>4
<1> QED BY <1>4, <1>5 DEF Pending

\* A datagram that is sent to a server that runs is on its way.
LEMMA NowPending ==
  ASSUME Types, NEW s \in Sender, NEW text, SendDatagram(s, text), ~ Gone
  PROVE  Pending(s)' /\ \A r \in Sender : Pending(r) => Pending(r)'
<1> DEFINE d == [from |-> s, text |-> text]
<1>1. datagrams' = Append(datagrams, d) /\ datagrams \in Seq(Datagram) /\ Len(datagrams) \in Nat
  BY Queued DEF SendDatagram, Gone
<1>2. /\ Len(datagrams') = Len(datagrams) + 1 /\ datagrams'[Len(datagrams) + 1] = d
      /\ \A k \in 1..Len(datagrams) : datagrams'[k] = datagrams[k]
  BY <1>1
<1>3. d.from = s
  OBVIOUS
<1> HIDE DEF d
<1>4. Len(datagrams) + 1 \in 1..Len(datagrams') /\ 1..Len(datagrams) \subseteq 1..Len(datagrams')
  BY <1>1, <1>2
<1>5. Pending(s)'
  BY <1>2, <1>3, <1>4 DEF Pending
<1>6. ASSUME NEW r \in Sender, Pending(r) PROVE Pending(r)'
  BY <1>2, <1>4, <1>6 DEF Pending
<1> QED BY <1>5, <1>6

\* The steps of a sender.
LEMMA SenderExpects ==
  ASSUME NEW S, Texts(S), Good, \A r \in Sender : Expecting(r), ~ Gone, NEW s \in Sender,
         DeliverStep(s) \/ SendDone(s) \/ \E f \in Upload : Start(s, f)
  PROVE  \A r \in Sender : Expecting(r)'
<1> USE DEF Good
<1>1. deliver \in [Sender -> [pc : {"prompt", "send", "wait", "goodbye", "quit"},
                              file : Upload \cup {NoUpload}, i : Nat]]
  BY DEF Types
<1>2. replies \in [Sender -> Seq({"reply", "goodbye"})]
  BY DEF Types
<1>3. server' = server /\ \A r \in Sender : Serving(r)' = Serving(r)
  BY DEF DeliverStep, Start, Send, Reply, HearGoodbye, SendDone, Serving
<1>4. ASSUME NEW r \in Sender, r # s PROVE Expecting(r)'
  <2>1. deliver'[r] = deliver[r]
    BY <1>1, <1>4 DEF DeliverStep, Start, Send, Reply, HearGoodbye, SendDone
  <2>2. replies'[r] = replies[r]
    BY <1>2, <1>4 DEF DeliverStep, Start, Send, Reply, HearGoodbye, SendDone
  <2>3. Pending(r) => Pending(r)'
    <3>1. CASE datagrams' = datagrams
      BY <3>1 DEF Pending
    <3>2. CASE \E text : SendDatagram(s, text)
      BY <3>2, NowPending
    <3> QED BY <3>1, <3>2 DEF DeliverStep, Start, Send, Reply, HearGoodbye, SendDone
  <2> QED BY <2>1, <2>2, <2>3, <1>3, StillExpecting
<1>5. ASSUME NEW f \in Upload, Start(s, f) PROVE Expecting(s)'
  <2>1. PICK next \in IF total_frag(f) = 0 THEN {"goodbye", "quit"} ELSE {"send"} :
          deliver' = [deliver EXCEPT ![s] = [pc |-> next, file |-> f, i |-> 1]]
    BY <1>5 DEF Start
  <2>2. deliver'[s] = [pc |-> next, file |-> f, i |-> 1]
    BY <2>1, <1>1
  <2>3. Total(s)' = total_frag(f)
    BY <2>2 DEF Total, total_frag
  <2> QED BY <2>1, <2>2, <2>3 DEF Expecting
<1>6. ASSUME Send(s) PROVE Expecting(s)'
  <2>1. deliver'[s].pc = "wait"
    BY <1>1, <1>6 DEF Send
  <2>2. Pending(s)'
    BY <1>6, NowPending DEF Send
  <2> QED BY <2>1, <2>2 DEF Expecting
<1>7. ASSUME Reply(s) PROVE Expecting(s)'
  <2>1. /\ deliver[s].pc = "wait" /\ replies[s] # <<>> /\ replies'[s] = Tail(replies[s])
        /\ deliver'[s].file = deliver[s].file /\ deliver'[s].i \in Nat
        /\ IF deliver[s].i < Total(s) THEN deliver'[s].pc = "send"
           ELSE deliver'[s].pc = "goodbye" /\ deliver'[s].i = deliver[s].i
    BY <1>1, <1>2, <1>7 DEF Reply, Total
  <2>2. /\ Total(s)' = Total(s) /\ deliver[s].i \in 1..Total(s) /\ Total(s) \in Nat
    BY <2>1, TotalType DEF Phase, Total
  <2>3. CASE deliver[s].i < Total(s)
    BY <2>1, <2>3 DEF Expecting
  <2>4. CASE ~ deliver[s].i < Total(s)
    <3>1. deliver'[s].i = Total(s)'
      BY <2>1, <2>2, <2>4
    <3>2. ~ Pending(s)
      BY <2>1 DEF Phase, Unanswered, Replied, Served
    <3>3. CASE replies[s] = <<"reply">>
      <4>0. <<"reply">> # <<"goodbye">> /\ <<"reply">> # <<"reply", "goodbye">>
        OBVIOUS
      <4>1. Replied(s)
        BY <4>0, <3>3, <2>1 DEF Phase, Unanswered, Served
      <4>2. Serving(s)'
        BY <4>1, <1>3 DEF Replied, Took
      <4> QED BY <4>2, <3>1, <2>1, <2>4 DEF Expecting
    <3>4. CASE replies[s] = <<"reply", "goodbye">>
      <4>1. replies'[s] # <<>>
        BY <3>4, <2>1, Short
      <4> QED BY <4>1, <3>1, <2>1, <2>4 DEF Expecting
    <3> QED BY <3>2, <3>3, <3>4, <2>1 DEF Expecting
  <2> QED BY <2>3, <2>4
<1>8. ASSUME HearGoodbye(s) PROVE Expecting(s)'
  <2>1. deliver'[s] = Idle
    BY <1>1, <1>8 DEF HearGoodbye
  <2> QED BY <2>1 DEF Expecting, Idle
<1>9. ASSUME SendDone(s) PROVE Expecting(s)'
  <2>1. deliver[s].pc = "prompt" /\ deliver'[s].pc = "quit" /\ deliver'[s].file = deliver[s].file
    BY <1>1, <1>9 DEF SendDone
  <2>2. Total(s)' = Total(s)
    BY <2>1 DEF Total, total_frag
  <2> QED BY <2>1, <2>2 DEF Expecting
<1> QED BY <1>4, <1>5, <1>6, <1>7, <1>8, <1>9 DEF DeliverStep

\* The steps of the server that do not end it.
LEMMA FirstExpects ==
  ASSUME NEW S, Texts(S), Good, Good', \A r \in Sender : Expecting(r), TakeFirst \/ TakeNext, ~ mixed'
  PROVE  \A r \in Sender : Expecting(r)'
<1> USE DEF Good
<1>0. PICK s : s = Head(datagrams).from
  OBVIOUS
<1>1. /\ datagrams # <<>> /\ Head(datagrams).text # done /\ server.pc \in {"idle", "body"}
      /\ ReplyTo(s, "reply") /\ datagrams' = Tail(datagrams) /\ deliver' = deliver
      /\ server'.from_addr = s /\ (server.pc = "body" => server.from_addr = s)
  <2>1. CASE TakeFirst
    BY <2>1, <1>0 DEF TakeFirst, Fragment
  <2>2. CASE TakeNext
    <3>1. s = server.from_addr
      BY <2>2, <1>0 DEF TakeNext
    <3>2. server'.from_addr = s
      BY <2>2, <1>0 DEF TakeNext, Types
    <3> QED BY <3>1, <3>2, <2>2, <1>0 DEF TakeNext, Fragment
  <2> QED BY <2>1, <2>2
<1>2. Head(datagrams) = datagrams[1] /\ s \in Sender /\ Pending(s) /\ Len(datagrams) > 0
  BY <1>0, <1>1, Left, Queued
<1>3. deliver[s].pc = "wait"
  BY <1>0, <1>1, <1>2, Queued DEF Queue
<1>4. replies[s] = <<>>
  BY <1>2, <1>3 DEF Phase, Unanswered, Replied, Served
<1>5. /\ replies'[s] = Append(replies[s], "reply")
      /\ \A r \in Sender : r # s => replies'[r] = replies[r]
  BY <1>1, <1>2, Answered
<1>6. Expecting(s)'
  BY <1>1, <1>3, <1>4, <1>5, Short DEF Expecting
<1>7. ASSUME NEW r \in Sender, r # s PROVE Expecting(r)'
  <2>1. ~ Serving(r)
    BY <1>1, <1>7 DEF Serving
  <2>2. Pending(r) => Pending(r)'
    BY <1>0, <1>1, <1>2, <1>7, StillPending
  <2> QED BY <2>1, <2>2, <1>1, <1>5, <1>7, StillExpecting
<1> QED BY <1>6, <1>7

\* The goodbye is what the sender waits for after the last answer.
LEMMA GoodbyeExpects ==
  ASSUME Good, \A r \in Sender : Expecting(r), SayGoodbye
  PROVE  \A r \in Sender : Expecting(r)'
<1> USE DEF Good
<1>0. PICK s \in Sender : s = server.from_addr
  BY DEF SayGoodbye, Types
<1>1. /\ server.pc = "goodbye" /\ Serving(s) /\ ReplyTo(s, "goodbye")
      /\ deliver' = deliver /\ datagrams' = datagrams
  BY <1>0 DEF SayGoodbye, Serving
<1>2. /\ replies'[s] = Append(replies[s], "goodbye") /\ replies[s] \in Seq({"reply", "goodbye"})
      /\ \A r \in Sender : r # s => replies'[r] = replies[r]
  BY <1>1, Answered DEF Types
<1>3. Pending(s)' = Pending(s) /\ Total(s)' = Total(s)
  BY <1>1 DEF Pending, Total, total_frag
<1>4. replies'[s] # <<>>
  BY <1>2
<1>5. ASSUME deliver[s].pc = "wait" PROVE Expecting(s)'
  <2>1. replies[s] # <<"reply", "goodbye">>
    <3>1. <<"reply", "goodbye">> # <<>> /\ <<"reply", "goodbye">> # <<"reply">>
      OBVIOUS
    <3> QED BY <3>1, <1>1, <1>5 DEF Phase, Unanswered, Replied, Served
  <2>2. Pending(s)' \/ replies'[s] = <<"reply", "goodbye">>
    BY <2>1, <1>2, <1>3, <1>5, Short DEF Expecting
  <2> QED BY <2>2, <1>1, <1>5 DEF Expecting
<1>6. ASSUME deliver[s].pc # "wait" PROVE Expecting(s)'
  BY <1>1, <1>3, <1>4, <1>6 DEF Expecting
<1>7. ASSUME NEW r \in Sender, r # s PROVE Expecting(r)'
  <2>1. ~ Serving(r)
    BY <1>0, <1>7 DEF Serving
  <2>2. Pending(r)' = Pending(r)
    BY <1>1 DEF Pending
  <2> QED BY <2>1, <2>2, <1>1, <1>2, <1>7, StillExpecting
<1> QED BY <1>5, <1>6, <1>7

LEMMA WriteExpects ==
  ASSUME Good, \A r \in Sender : Expecting(r), WriteFragment
  PROVE  \A r \in Sender : Expecting(r)'
<1> SUFFICES ASSUME NEW r \in Sender PROVE Expecting(r)'
  OBVIOUS
<1>1. /\ deliver' = deliver /\ datagrams' = datagrams /\ replies' = replies
      /\ server'.from_addr = server.from_addr /\ server'.pc \in {"body", "goodbye"}
  BY DEF WriteFragment, Good, Types
<1>2. (Pending(r) => Pending(r)') /\ (Serving(r) => Serving(r)')
  BY <1>1 DEF Pending, Serving
<1> QED BY <1>1, <1>2, StillExpecting

\* No step of the program takes back what happened.
LEMMA Irrevocable == [DeliveryNext]_delivery => (mixed => mixed') /\ (lost => lost') /\ (Gone => Gone')
<1> SUFFICES ASSUME [DeliveryNext]_delivery
             PROVE  (mixed => mixed') /\ (lost => lost') /\ (Gone => Gone')
  OBVIOUS
<1> USE DEF DeliveryNext, DeliverStep, StoreStep, delivery, Start, Send, Reply, HearGoodbye, SendDone,
  TakeDone, TakeFirst, TakeNext, TakeStray, WriteFragment, ServerExits, SayGoodbye, Lose
<1>1. (mixed => mixed') /\ (lost => lost')
  <2>1. ASSUME mixed PROVE mixed'
    BY Zenon, <2>1
  <2>2. ASSUME lost PROVE lost'
    BY Zenon, <2>2
  <2> QED BY Zenon, <2>1, <2>2
<1>2. Gone => server' = server
  BY DEF Gone
<1> QED BY Zenon, <1>1, <1>2 DEF Gone

LEMMA StepExpected ==
  ASSUME NEW S, Texts(S), Inv, Inv', Expected, [DeliveryNext]_delivery
  PROVE  Expected'
<1> SUFFICES ASSUME ~ mixed', ~ lost', ~ Gone' PROVE \A r \in Sender : Expecting(r)'
  BY DEF Expected
<1>1. /\ Good /\ Good' /\ ~ mixed /\ ~ lost /\ ~ Gone
      /\ \A r \in Sender : Expecting(r)
  BY Irrevocable DEF Inv, Expected
<1>2. CASE UNCHANGED delivery
  <2>1. deliver' = deliver /\ server' = server /\ datagrams' = datagrams /\ replies' = replies
    BY <1>2 DEF delivery
  <2> QED BY <2>1, <1>1 DEF Expecting, Pending, Serving, Total, total_frag
<1>3. CASE \E s \in Sender : DeliverStep(s) \/ SendDone(s) \/ \E f \in Upload : Start(s, f)
  BY <1>1, <1>3, SenderExpects
<1>4. CASE StoreStep
  <2>1. ~ TakeStray
    BY Zenon DEF TakeStray
  <2>2. ~ TakeDone /\ ~ ServerExits
    <3>1. TakeDone \/ ServerExits => Gone'
      BY <1>1 DEF TakeDone, ServerExits, Good, Types, Gone
    <3> QED BY <3>1
  <2> QED BY <2>1, <2>2, <1>1, <1>4, FirstExpects, WriteExpects, GoodbyeExpects DEF StoreStep
<1>5. ~ Lose
  BY Zenon DEF Lose
<1> QED BY <1>2, <1>3, <1>4, <1>5 DEF DeliveryNext

\* A sender that is neither done nor excused does not wait for nothing: it
\* has a fragment to send, one or its answer is on its way, or the server has
\* the last one still to write or the goodbye to send.  This is what of
\* EverySenderEnds does not depend on fairness: deliver.c waits without a
\* time-out, and both sides count, each for itself, who speaks next.
THEOREM NobodyStranded ==
  ASSUME NEW S, Texts(S)
  PROVE  DeliverySpec =>
           [](\A s \in Sender :
                deliver[s].file # NoUpload /\ ~ Excused(s) =>
                  \/ deliver[s].pc = "send" \/ Pending(s) \/ replies[s] # <<>>
                  \/ Serving(s) /\ server.pc \in {"write", "goodbye"})
<1> DEFINE Waits ==
      \A s \in Sender :
        deliver[s].file # NoUpload /\ ~ Excused(s) =>
          \/ deliver[s].pc = "send" \/ Pending(s) \/ replies[s] # <<>>
          \/ Serving(s) /\ server.pc \in {"write", "goodbye"}
<1>1. DeliveryInit => Inv /\ Expected
  <2> SUFFICES ASSUME DeliveryInit PROVE Inv /\ Expected
    OBVIOUS
  <2>1. \A s \in Sender : deliver[s] = Idle
    BY DEF DeliveryInit
  <2>2. Expected
    BY <2>1 DEF Expected, Expecting, Idle
  <2> QED BY <2>2, InitGood DEF Inv
<1>2. Inv /\ Expected /\ [DeliveryNext]_delivery => Inv' /\ Expected'
  <2>1. Inv /\ [DeliveryNext]_delivery => Inv'
    BY Irrevocable, StepGood DEF Inv
  <2> QED BY <2>1, StepExpected
<1>3. Inv /\ Expected => Waits
  <2> SUFFICES ASSUME Inv, Expected, NEW s \in Sender, deliver[s].file # NoUpload, ~ Excused(s),
                      deliver[s].pc # "send", ~ Pending(s), replies[s] = <<>>
               PROVE  Serving(s) /\ server.pc \in {"write", "goodbye"}
    OBVIOUS
  <2>1. Good /\ Expecting(s) /\ Total(s) # 0
    BY DEF Excused, Gone, Inv, Expected, Total
  <2>2. deliver[s].pc \in {"prompt", "send", "wait", "goodbye", "quit"}
    BY <2>1 DEF Good, Types
  <2>3. <<"reply">> # <<>> /\ <<"reply", "goodbye">> # <<>> /\ <<"goodbye">> # <<>>
    OBVIOUS
  <2>4. deliver[s].pc = "goodbye" /\ deliver[s].i = Total(s) /\ Serving(s)
    BY <2>1, <2>2, <2>3 DEF Expecting
  <2>5. Took(s)
    BY <2>1, <2>3, <2>4 DEF Good, Phase
  <2> QED BY <2>4, <2>5 DEF Took
<1> QED BY <1>1, <1>2, <1>3, PTL DEF DeliverySpec
=============================================================================
