----------------------------- MODULE SavedSession -----------------------------
(***************************************************************************)
(* What the session store promises of the file that holds a session, with  *)
(* files and directories left out: the file holds one whole version at a   *)
(* time, a version replaces the one before it, and a power loss may take   *)
(* back replacements, but none that a save has reported.                   *)
(***************************************************************************)
EXTENDS Integers, Sequences

CONSTANT Version

VARIABLES
  versions,     \* what the file has held, the last of them now
  reported      \* how many of them no power loss may take back

vars == <<versions, reported>>

Init ==
  /\ versions = <<>>
  /\ reported = 0

Replace ==
  /\ \E v \in Version : versions' = Append(versions, v)
  /\ UNCHANGED reported

Report ==
  /\ reported' \in reported + 1 .. Len(versions)
  /\ UNCHANGED versions

PowerLoss ==
  /\ \E n \in reported .. Len(versions) : versions' = SubSeq(versions, 1, n)
  /\ UNCHANGED reported

Next == Replace \/ Report \/ PowerLoss

Spec == Init /\ [][Next]_vars
=============================================================================
