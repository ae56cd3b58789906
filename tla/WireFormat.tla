----------------------------- MODULE WireFormat -----------------------------
(***************************************************************************)
(* The text that the programs send: fields that end with a separator, then *)
(* data whose length is one of the fields.  message.c and packet.c each    *)
(* print and parse it with code of their own and the same method.          *)
(*                                                                         *)
(* A text is a sequence of tokens: a printed number is one token, a natural *)
(* number, and any other token is a character.                             *)
(***************************************************************************)
EXTENDS Naturals, Sequences

CONSTANTS Colon,   \* the separator
          Nul      \* the character that ends a C string

ASSUME CharacterAssumption == Colon \notin Nat /\ Nul \notin Nat /\ Nul # Colon

-----------------------------------------------------------------------------
(* Printing.                                                               *)

\* "%d:" and "%s:"
Field(x) == Append(x, Colon)

-----------------------------------------------------------------------------
(* Parsing.                                                                *)

Has(s, c) == \E k \in 1..Len(s) : s[k] = c

\* The first position from k on that holds c, where the loops stop.  Without
\* one they run on past the text: every use is for a text that has one.
First(s, c, k) == CHOOSE p \in k..Len(s) : s[p] = c /\ \A j \in k..(p - 1) : s[j] # c

\* atoi(): a text that does not begin with a number is zero.
Atoi(x) == IF Len(x) > 0 /\ x[1] \in Nat THEN x[1] ELSE 0

\* n characters from position k on of a buffer that holds s and zeros behind.
Take(s, k, n) ==
  IF k + n - 1 <= Len(s) THEN SubSeq(s, k, k + n - 1)
  ELSE [j \in 1..n |-> IF k + j - 1 <= Len(s) THEN s[k + j - 1] ELSE Nul]

\* What strlen() and "%s" see of a text.
CString(s) == IF Has(s, Nul) THEN SubSeq(s, 1, First(s, Nul, 1) - 1) ELSE s
=============================================================================
