---------------------------- MODULE PacketFormat ----------------------------
(***************************************************************************)
(* packet.c, the same in Parts II and III: a fragment of a file and its    *)
(* text "total_frag:frag_no:size:filename:filedata".                       *)
(***************************************************************************)
EXTENDS WireFormat

write_packets(total, number, name, data) ==
  [total_frag |-> total, frag_no |-> number, size |-> Len(data),
   filename |-> name, filedata |-> data]

\* Mutant: the size counts the name too.
convert_to_string_Size(p) ==
  Field(<<p.total_frag>>) \o Field(<<p.frag_no>>)
    \o Field(<<p.size + Len(p.filename)>>) \o Field(p.filename) \o p.filedata

convert_to_string(p) ==
  Field(<<p.total_frag>>) \o Field(<<p.frag_no>>)
    \o Field(<<p.size>>) \o Field(p.filename) \o p.filedata

\* The name ends at the first separator, whatever the sender called a name.
buffer_to_packet(s) ==
  LET p1 == First(s, Colon, 1)
      p2 == First(s, Colon, p1 + 1)
      p3 == First(s, Colon, p2 + 1)
      p4 == First(s, Colon, p3 + 1)
      size == Atoi(SubSeq(s, p2 + 1, p3 - 1))
  IN  [total_frag |-> Atoi(SubSeq(s, 1, p1 - 1)), frag_no |-> Atoi(SubSeq(s, p1 + 1, p2 - 1)),
       size |-> size, filename |-> SubSeq(s, p3 + 1, p4 - 1),
       filedata |-> Take(s, p4 + 1, size)]
=============================================================================
