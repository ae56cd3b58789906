--------------------------- MODULE MessageFormat ---------------------------
(***************************************************************************)
(* message.c: a message and its text "type:size:source:data".  What is     *)
(* sent is the C string, which ends before the first zero character.       *)
(***************************************************************************)
EXTENDS WireFormat

CONSTANTS MESSAGE,   \* the type of a line of chat
          Space

\* A line of chat keeps its length: strtok() left a zero in place of the first
\* space, which becomes a space again, and its newline becomes a zero.
fill_message(type, source, data) ==
  [type |-> type, size |-> Len(data), source |-> source,
   data |-> [k \in 1..Len(data) |->
     IF type # MESSAGE THEN data[k]
     ELSE IF k = Len(data) THEN Nul
     ELSE IF data[k] = Nul THEN Space ELSE data[k]]]

message_to_string(m) ==
  Field(<<m.type>>) \o Field(<<m.size>>) \o Field(m.source) \o m.data

\* Mutant: the data go up to the end of the string.
string_to_message_All(s) ==
  LET p1 == First(s, Colon, 1)
      p2 == First(s, Colon, p1 + 1)
      p3 == First(s, Colon, p2 + 1)
  IN  [type |-> Atoi(SubSeq(s, 1, p1 - 1)), size |-> Len(s) - p3,
       source |-> SubSeq(s, p2 + 1, p3 - 1), data |-> Take(s, p3 + 1, Len(s) - p3)]

string_to_message(s) ==
  LET p1 == First(s, Colon, 1)
      p2 == First(s, Colon, p1 + 1)
      p3 == First(s, Colon, p2 + 1)
      size == Atoi(SubSeq(s, p1 + 1, p2 - 1))
  IN  [type |-> Atoi(SubSeq(s, 1, p1 - 1)), size |-> size,
       source |-> SubSeq(s, p2 + 1, p3 - 1), data |-> Take(s, p3 + 1, size)]
=============================================================================
