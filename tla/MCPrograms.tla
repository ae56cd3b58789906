----------------------------- MODULE MCPrograms -----------------------------
(* Values for checking with TLC the programs that exchange data without the *)
(* conference: the three parts of the file transfer, and the framing of    *)
(* messages.  A behaviour is one of the program that its first state picks. *)
EXTENDS MCFileTransfer, FragmentTransfer, FtpHandshake, MessageFraming

CONSTANTS s1, s2, a, b, x, y,                             \* Part II
          plain, shorter, divided, nothing
CONSTANTS c1, c2                                          \* Part I
CONSTANTS newline                                         \* messages

VARIABLES program

\* A file of two fragments, a shorter one of the same name, one whose name has
\* the separator, and one without a fragment.
Senders == {s1, s2}
Uploads == {plain, shorter, divided, nothing}
Names ==
  (plain :> <<a>>) @@ (shorter :> <<a>>) @@ (divided :> <<a, Colon, b>>) @@ (nothing :> <<b>>)
Contents ==
  (plain :> <<x, y, x>>) @@ (shorter :> <<y>>) @@ (divided :> <<x, y>>) @@ (nothing :> <<>>)

Clients == {c1, c2}

\* A line of chat, /joinsession, /list, and the request of a user whose name
\* has a separator.
Messages ==
  {fill_message(MESSAGE, <<a>>, <<x, Nul, y, newline>>), fill_message(4, <<a>>, <<x>>),
   fill_message(11, <<b>>, <<>>), fill_message(4, <<a, Colon, b>>, <<y>>)}

ProgramsInit ==
  /\ program \in {"I", "II", "III", "framing"}
  /\ Init /\ DeliveryInit /\ HandshakeInit /\ FramingInit
  /\ program # "I" => terminated

ProgramsNext ==
  \/ program = "III" /\ Next /\ UNCHANGED <<program, delivery, handshake, framing>>
  \/ program = "II" /\ DeliveryNext /\ UNCHANGED <<program, vars, handshake, framing>>
  \/ program = "I" /\ HandshakeNext /\ UNCHANGED <<program, vars, delivery, framing>>
  \/ program = "framing" /\ FramingNext /\ UNCHANGED <<program, vars, delivery, handshake>>

\* The steps of a program that was not picked are never enabled: it stays in
\* its first state, in which nothing but a user's action is.
ProgramsSpec ==
  /\ ProgramsInit /\ [][ProgramsNext]_<<program, vars, delivery, handshake, framing>>
  /\ Fairness /\ DeliveryFairness /\ HandshakeFairness

=============================================================================
