----------------------------- MODULE MCAgentChat -----------------------------
(***************************************************************************)
(* Model values of AgentChat for TLC.                                      *)
(***************************************************************************)
EXTENDS AgentChat, TLC

CONSTANTS l1, l2

TwoLoops == {l1, l2}
OneCall == 1 .. 1
TwoCalls == 1 .. 2
ThreeCalls == 1 .. 3
LoopSymmetry == Permutations(TwoLoops)

=============================================================================
