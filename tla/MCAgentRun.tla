----------------------------- MODULE MCAgentRun -----------------------------
(* Small instances of AgentRun for TLC.                                    *)
EXTENDS AgentRun, TLC

CONSTANTS s1, s2

MCSenders == {s1, s2}
OneSender == {s1}
SenderSymmetry == Permutations(MCSenders)
=============================================================================
