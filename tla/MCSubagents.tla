------------------------------ MODULE MCSubagents ------------------------------
(* Three delegations and two collectors; the registry of the code has ten  *)
(* names before they get a suffix, this instance two.                      *)
EXTENDS Subagents
=============================================================================
