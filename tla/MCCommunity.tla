---------------------------- MODULE MCCommunity -----------------------------
(* Instances of Community for TLC: one poster, whose tasks the cfg lists.  *)
EXTENDS Community, TLC

CONSTANT poster

MCPosterOf == [t \in Tasks |-> poster]

MCSymmetry == Permutations(Reqs)
=============================================================================
