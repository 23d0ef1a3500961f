--------------------------- MODULE MCSessionTree ---------------------------
(* Small instances of SessionTree for TLC.                                 *)
EXTENDS SessionTree
=============================================================================
