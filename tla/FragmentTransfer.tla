-------------------------- MODULE FragmentTransfer --------------------------
(***************************************************************************)
(* The file transfer of Part II: deliver.c sends a file in fragments, one  *)
(* UDP datagram each, and waits for a reply after each, without time-out;  *)
(* server.c writes what arrives.  Neither side looks at the number of a    *)
(* fragment or at who sent it.  Several senders may use one server.        *)
(***************************************************************************)
EXTENDS PacketFormat

CONSTANTS
  Sender,
  Upload,         \* files of the senders
  NoUpload,
  Name, Content,  \* of each file, as texts
  file_frag_size,
  MaxUploads,     \* bound on the files that are sent
  MayLose,        \* whether the network may lose a datagram
  ServerMayFail   \* whether open() or write() of the server may fail

VARIABLES
  deliver,    \* sender: what it does, the file, i + 1
  server,     \* what it does, total_frag, i, the file on fd, its position,
              \* the data received last and from_addr
  disk,       \* the server's files
  datagrams,  \* on their way to the server, with their senders
  replies,    \* answers on their way to each sender
  transfers,  \* transfers begun, for the bound
  lost,       \* whether a datagram was lost
  mixed       \* whether a sender's datagram was taken for part of another's file

delivery == <<deliver, server, disk, datagrams, replies, transfers, lost, mixed>>

\* ceil(size / file_frag_size)
total_frag(f) == (Len(Content[f]) + file_frag_size - 1) \div file_frag_size

\* read(): the next file_frag_size bytes, or what is left of them.
Piece(f, n) ==
  LET read == (n - 1) * file_frag_size
      left == Len(Content[f]) - read
  IN  SubSeq(Content[f], read + 1, read + (IF left < file_frag_size THEN left ELSE file_frag_size))

\* The name under which the server opens a file.
Opened(f) == SubSeq(Name[f], 1, First(Field(Name[f]), Colon, 1) - 1)

Idle == [pc |-> "prompt", file |-> NoUpload, i |-> 0]
Waiting == [pc |-> "idle", total_frag |-> 0, i |-> 0, fd |-> <<>>, position |-> 0,
            data |-> <<>>, from_addr |-> NoUpload]

DeliveryInit ==
  /\ deliver = [s \in Sender |-> Idle] /\ server = Waiting
  /\ disk = [n \in {Opened(f) : f \in Upload} |-> <<>>]
  /\ datagrams = <<>> /\ replies = [s \in Sender |-> <<>>]
  /\ transfers = 0 /\ lost = FALSE /\ mixed = FALSE

-----------------------------------------------------------------------------
(* deliver.c, for sender s.                                                *)

\* "done" is the text without a field.  A server that is gone gets nothing.
SendDatagram(s, text) ==
  datagrams' = IF server.pc \in {"quit", "failed"} THEN datagrams
               ELSE Append(datagrams, [from |-> s, text |-> text])
done == <<>>

\* "ftp <file>".  Without fragments number_bytes is tested although nothing
\* has set it: the program exits, or waits for a goodbye.
Start(s, f) ==
  /\ deliver[s].pc = "prompt" /\ transfers < MaxUploads
  /\ transfers' = transfers + 1
  /\ \E next \in IF total_frag(f) = 0 THEN {"goodbye", "quit"} ELSE {"send"} :
       deliver' = [deliver EXCEPT ![s] = [pc |-> next, file |-> f, i |-> 1]]
  /\ UNCHANGED <<server, disk, datagrams, replies, lost, mixed>>

Send(s) ==
  LET d == deliver[s] IN
  /\ d.pc = "send"
  /\ deliver' = [deliver EXCEPT ![s].pc = "wait"]
  /\ SendDatagram(s, convert_to_string(
       write_packets(total_frag(d.file), d.i, Name[d.file], Piece(d.file, d.i))))
  /\ UNCHANGED <<server, disk, replies, transfers, lost, mixed>>

\* Mutant: the reply to the last fragment ends the transfer.
Reply_NoGoodbye(s) ==
  LET d == deliver[s] IN
  /\ d.pc = "wait" /\ replies[s] # <<>>
  /\ replies' = [replies EXCEPT ![s] = Tail(@)]
  /\ deliver' = [deliver EXCEPT ![s] =
       IF d.i < total_frag(d.file) THEN [d EXCEPT !.pc = "send", !.i = @ + 1] ELSE Idle]
  /\ UNCHANGED <<server, disk, datagrams, transfers, lost, mixed>>

\* Any datagram is the reply to the current fragment.
Reply(s) ==
  LET d == deliver[s] IN
  /\ d.pc = "wait" /\ replies[s] # <<>>
  /\ replies' = [replies EXCEPT ![s] = Tail(@)]
  /\ deliver' = [deliver EXCEPT ![s] =
       IF d.i < total_frag(d.file) THEN [d EXCEPT !.pc = "send", !.i = @ + 1]
                                   ELSE [d EXCEPT !.pc = "goodbye"]]
  /\ UNCHANGED <<server, disk, datagrams, transfers, lost, mixed>>

\* Any datagram is the goodbye message: "was sent successfully!".
HearGoodbye(s) ==
  /\ deliver[s].pc = "goodbye" /\ replies[s] # <<>>
  /\ replies' = [replies EXCEPT ![s] = Tail(@)]
  /\ deliver' = [deliver EXCEPT ![s] = Idle]
  /\ UNCHANGED <<server, disk, datagrams, transfers, lost, mixed>>

SendDone(s) ==
  /\ deliver[s].pc = "prompt"
  /\ deliver' = [deliver EXCEPT ![s].pc = "quit"]
  /\ SendDatagram(s, done)
  /\ UNCHANGED <<server, disk, replies, transfers, lost, mixed>>

-----------------------------------------------------------------------------
(* server.c.                                                               *)

ReplyTo(s, answer) == replies' = [replies EXCEPT ![s] = Append(@, answer)]

\* recvfrom() of a datagram that is a fragment.
Fragment == Len(datagrams) > 0 /\ Head(datagrams).text # done

TakeDone ==
  /\ server.pc = "idle" /\ Len(datagrams) > 0 /\ Head(datagrams).text = done
  /\ server' = [server EXCEPT !.pc = "quit"]
  /\ datagrams' = <<>>
  /\ UNCHANGED <<deliver, disk, replies, transfers, lost, mixed>>

\* The first fragment opens its file, whose old content stays, and is
\* answered before it is written.
TakeFirst ==
  LET from == Head(datagrams).from
      receiver == buffer_to_packet(Head(datagrams).text)
  IN  /\ server.pc = "idle" /\ Fragment
      /\ server' = [pc |-> "write", total_frag |-> receiver.total_frag, i |-> 0,
                    fd |-> receiver.filename, position |-> 0,
                    data |-> receiver.filedata, from_addr |-> from]
      /\ ReplyTo(from, "reply")
      /\ datagrams' = Tail(datagrams)
      /\ UNCHANGED <<deliver, disk, transfers, lost, mixed>>

\* The others are taken as they come, whoever sent them.
TakeNext ==
  LET from == Head(datagrams).from
      receiver == buffer_to_packet(Head(datagrams).text)
  IN  /\ server.pc = "body" /\ Fragment
      /\ server' = [server EXCEPT !.pc = "write", !.data = receiver.filedata, !.from_addr = from]
      /\ ReplyTo(from, "reply")
      /\ mixed' = (mixed \/ from # server.from_addr)
      /\ datagrams' = Tail(datagrams)
      /\ UNCHANGED <<deliver, disk, transfers, lost>>

\* "done" is not looked for here.  What is parsed is what the buffer keeps of
\* the datagram before, behind the five characters.
TakeStray ==
  /\ server.pc = "body" /\ Len(datagrams) > 0 /\ Head(datagrams).text = done
  /\ \E data \in {<<>>, server.data} :
       server' = [server EXCEPT !.pc = "write", !.data = data, !.from_addr = Head(datagrams).from]
  /\ ReplyTo(Head(datagrams).from, "reply")
  /\ mixed' = TRUE
  /\ datagrams' = Tail(datagrams)
  /\ UNCHANGED <<deliver, disk, transfers, lost>>

\* write() at the position of fd, over what is there and behind it.
WriteAt(s, at, data) ==
  [k \in 1..(IF Len(s) > at + Len(data) THEN Len(s) ELSE at + Len(data)) |->
     IF k \in (at + 1)..(at + Len(data)) THEN data[k - at] ELSE s[k]]

\* Mutant: the loop waits for one fragment more.
WriteFragment_OneMore ==
  /\ server.pc = "write"
  /\ disk' = [disk EXCEPT ![server.fd] = WriteAt(@, server.position, server.data)]
  /\ server' = [server EXCEPT !.position = @ + Len(server.data), !.i = @ + 1,
                  !.pc = IF server.i < server.total_frag THEN "body" ELSE "goodbye"]
  /\ UNCHANGED <<deliver, datagrams, replies, transfers, lost, mixed>>

WriteFragment ==
  /\ server.pc = "write"
  /\ disk' = [disk EXCEPT ![server.fd] = WriteAt(@, server.position, server.data)]
  /\ server' = [server EXCEPT !.position = @ + Len(server.data), !.i = @ + 1,
                  !.pc = IF server.i + 1 < server.total_frag THEN "body" ELSE "goodbye"]
  /\ UNCHANGED <<deliver, datagrams, replies, transfers, lost, mixed>>

\* A failed open() shows at the first write(): the process exits.
ServerExits ==
  /\ server.pc = "write" /\ ServerMayFail
  /\ server' = [server EXCEPT !.pc = "failed"] /\ datagrams' = <<>>
  /\ UNCHANGED <<deliver, disk, replies, transfers, lost, mixed>>

SayGoodbye ==
  /\ server.pc = "goodbye"
  /\ server' = Waiting
  /\ ReplyTo(server.from_addr, "goodbye")
  /\ UNCHANGED <<deliver, disk, datagrams, transfers, lost, mixed>>

-----------------------------------------------------------------------------
(* The network.                                                            *)

Lose ==
  /\ MayLose /\ lost' = TRUE
  /\ \/ /\ Len(datagrams) > 0
        /\ datagrams' = Tail(datagrams) /\ UNCHANGED replies
     \/ \E s \in Sender :
          /\ Len(replies[s]) > 0
          /\ replies' = [replies EXCEPT ![s] = Tail(@)] /\ UNCHANGED datagrams
  /\ UNCHANGED <<deliver, server, disk, transfers, mixed>>

-----------------------------------------------------------------------------
DeliverStep(s) == Send(s) \/ Reply(s) \/ HearGoodbye(s)
StoreStep ==
  \/ TakeDone \/ TakeFirst \/ TakeNext \/ TakeStray
  \/ WriteFragment \/ ServerExits \/ SayGoodbye

DeliveryNext ==
  \/ \E s \in Sender : DeliverStep(s) \/ SendDone(s) \/ \E f \in Upload : Start(s, f)
  \/ StoreStep \/ Lose

DeliverySpec == DeliveryInit /\ [][DeliveryNext]_delivery

\* The processes run.  Nothing obliges a user to send a file.
DeliveryFairness == (\A s \in Sender : WF_delivery(DeliverStep(s))) /\ WF_delivery(StoreStep)

-----------------------------------------------------------------------------
(* Properties.  They are about the time before two senders are mixed.      *)

Plain(f) == ~ Has(Name[f], Colon)
Longest(f) == \A g \in Upload : Opened(g) = Opened(f) => Len(Content[g]) <= Len(Content[f])

Stored(f) ==
  LET n == Len(Content[f])
      d == disk[Opened(f)]
  IN  Len(d) >= n /\ SubSeq(d, 1, n) = Content[f] /\ (Longest(f) => Len(d) = n)

\* When the server says "End of File Transfer" (server.c:115-118), the file of
\* the sender it says it to is stored as it was sent, although fragments were
\* lost, other senders came before or after, and nobody looks at a number.
\* Only a name with a separator breaks it, and a longer file of the same name
\* leaves its end behind the new one.
StoredWhenGoodbye ==
  [][SayGoodbye /\ ~ mixed =>
       LET f == deliver[server.from_addr].file IN f # NoUpload /\ (Plain(f) => Stored(f))]_delivery

\* What a sender takes for the goodbye message is one, and answers do not
\* outlive their transfer, although the sender looks at none of them and one
\* may be lost: "was sent successfully!" (deliver.c:153) follows a goodbye.
AnswersInTime ==
  ~ mixed => \A s \in Sender :
    /\ deliver[s].pc \in {"prompt", "send"} => replies[s] = <<>>
    /\ deliver[s].pc = "goodbye" => replies[s] \in {<<>>, <<"goodbye">>}

\* A transfer comes to its end if no datagram was lost, no other sender came
\* in between, the server did not exit, and the file has a fragment.
Excused(s) ==
  \/ lost \/ mixed \/ server.pc \in {"quit", "failed"}
  \/ total_frag(deliver[s].file) = 0
EverySenderEnds ==
  \A s \in Sender :
    [](deliver[s].file # NoUpload => <>(deliver[s].file = NoUpload \/ Excused(s)))
=============================================================================
