------------------------------ MODULE FileCopy ------------------------------
(***************************************************************************)
(* What the file transfer of Part III promises, without datagrams, losses  *)
(* or time-outs: the files of the receiver grow fragment by fragment, in   *)
(* order, only while they are being sent, and the user is told that a file *)
(* was sent only when the receiver has all of it.                          *)
(***************************************************************************)
EXTENDS Naturals, Sequences

CONSTANTS File, NoFile,
          Fragments        \* number of fragments of each file

VARIABLES current,         \* the file that is being sent
          content          \* the files of the receiver

copy == <<current, content>>

Fragment(f, n) == [kind |-> "fragment", file |-> f, no |-> n]
Whole(f) == [n \in 1..Fragments[f] |-> Fragment(f, n)]

CopyInit ==
  /\ current = NoFile
  /\ content = [f \in File |-> <<>>]

Begin(f) ==
  /\ current = NoFile
  /\ current' = f
  /\ UNCHANGED content

Store(f) ==
  /\ current = f
  /\ Len(content[f]) < Fragments[f]
  /\ content' = [content EXCEPT ![f] = Append(@, Fragment(f, Len(@) + 1))]
  /\ UNCHANGED current

Finish(f) ==
  /\ current = f
  /\ content[f] = Whole(f)
  /\ current' = NoFile
  /\ UNCHANGED content

CopyNext == \E f \in File : Begin(f) \/ Store(f) \/ Finish(f)

CopySpec == CopyInit /\ [][CopyNext]_copy
=============================================================================
