------------------------------ MODULE Accounts ------------------------------
(***************************************************************************)
(* What the user database promises: "their username and password are       *)
(* stored and kept permanently".  An account is stored once, stays where   *)
(* it is, and is promised to a client only after it is stored.             *)
(***************************************************************************)
EXTENDS Naturals, Sequences
CONSTANTS Account, Shipped
VARIABLES stored, promised

AccountsInit == stored \in Shipped /\ promised = {}

\* An account that is not stored yet is added at the end.
Store(a) ==
  /\ \A k \in 1..Len(stored) : stored[k] # a
  /\ stored' = Append(stored, a) /\ UNCHANGED promised

Promise(a) ==
  /\ \E k \in 1..Len(stored) : stored[k] = a
  /\ promised' = promised \cup {a} /\ UNCHANGED stored

AccountsNext == \E a \in Account : Store(a) \/ Promise(a)
AccountsSpec == AccountsInit /\ [][AccountsNext]_<<stored, promised>>
=============================================================================
