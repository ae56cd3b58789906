--------------------------- MODULE MessageFraming ---------------------------
(***************************************************************************)
(* One direction of a connection of the conference, as a stream of         *)
(* characters: send() appends the text of a message, recv() returns any    *)
(* part of what has arrived, as TCP may, and string_to_message() reads the *)
(* buffer, once, as if it held one message.                                *)
(***************************************************************************)
EXTENDS MessageFormat, FiniteSets

CONSTANTS Traffic,               \* messages that may be sent
          maximum_buffer_size,
          MaxUnread              \* bound on the messages on their way

VARIABLES
  stream,   \* the characters on their way
  unread,   \* the messages that they are, in order
  ends,     \* the positions in stream where these end
  torn,     \* whether a recv() has ended inside a message
  read      \* what the last recv() gave: what was parsed, the message that
            \* the buffer began with, whether more followed behind it

framing == <<stream, unread, ends, torn, read>>

Nothing == [got |-> <<>>, first |-> <<>>, joined |-> FALSE]

FramingInit ==
  stream = <<>> /\ unread = <<>> /\ ends = {} /\ torn = FALSE /\ read = Nothing

\* strlen() of the text is sent: the zero that ends a line of chat is not.
SendMessage(m) ==
  LET text == CString(message_to_string(m)) IN
  /\ Len(unread) < MaxUnread
  /\ stream' = stream \o text
  /\ unread' = Append(unread, m)
  /\ ends' = ends \cup {Len(stream) + Len(text)}
  /\ UNCHANGED <<torn, read>>

\* A buffer that does not begin with a whole message is read up to characters
\* that nobody sent: the models do not say what it gives.
ReceiveMessage(n) ==
  LET buffer == SubSeq(stream, 1, n)
      count == Cardinality({e \in ends : e <= n})
  IN  /\ n <= maximum_buffer_size
      /\ stream' = SubSeq(stream, n + 1, Len(stream))
      /\ unread' = SubSeq(unread, count + 1, Len(unread))
      /\ ends' = {e - n : e \in {x \in ends : x > n}}
      /\ torn' = (torn \/ n \notin ends)
      /\ read' = IF torn \/ count = 0 THEN Nothing
                 ELSE [got |-> string_to_message(buffer), first |-> unread[1],
                       joined |-> count > 1 \/ n \notin ends]

FramingNext ==
  \/ \E m \in Traffic : SendMessage(m)
  \/ \E n \in 1..Len(stream) : ReceiveMessage(n)

FramingSpec == FramingInit /\ [][FramingNext]_framing

-----------------------------------------------------------------------------
(* Properties.  They are about the time up to the first recv() that ends    *)
(* inside a message: from then on texts are read from the wrong place on.  *)

Whole == read # Nothing /\ ~ Has(read.first.source, Colon)

\* What is parsed is the message that the buffer begins with, "the length of
\* data is determined by message_size" (message.c:43), though others may
\* follow it there.  One character may differ: the zero that ends a line of
\* chat is not sent, and the next message puts its first character there.
\* The line that the server passes on is the one it was sent all the same,
\* since fill_message() puts the zero back.
ReadAsSent ==
  Whole =>
    LET got == read.got
        first == read.first
    IN  /\ got.type = first.type /\ got.size = first.size /\ got.source = first.source
        /\ Len(got.data) = first.size
        /\ \A k \in 1..first.size : got.data[k] # first.data[k] =>
             first.type = MESSAGE /\ k = first.size /\ read.joined
        /\ first.type = MESSAGE => fill_message(MESSAGE, got.source, got.data) = first
=============================================================================
