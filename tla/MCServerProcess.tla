--------------------------- MODULE MCServerProcess ---------------------------
(* Values for checking ServerProcess with TLC.                             *)
EXTENDS ServerProcess
CONSTANTS alice, bob, quoted

Accounts3 == {alice, bob, quoted}
Quoted == {quoted}
Bob == {bob}
\* An empty database.txt, and one with an account.
Files == {<<>>, <<alice>>}
=============================================================================
