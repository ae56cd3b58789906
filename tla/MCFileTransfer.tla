--------------------------- MODULE MCFileTransfer ---------------------------
(* Values for checking FileTransfer with TLC: a file of each size that the  *)
(* sender treats differently.                                               *)
EXTENDS FileTransfer, TLC
CONSTANTS empty, short, long
Files == {empty, short, long}
Sizes == (empty :> 0) @@ (short :> 1) @@ (long :> 3)
=============================================================================
